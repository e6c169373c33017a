----------------------------- MODULE PilotWorker -----------------------------
(***************************************************************************)
(* The worker of a house of its own (application/pilot.py, the loop of     *)
(* cli.py and healthcheck.py): a cycle brings in what the boiler's service *)
(* has, recomputes the days whose inputs changed, and publishes; between   *)
(* any two steps it may fail, be killed, or find that the owner has made   *)
(* the report of a day by hand.                                            *)
(*                                                                         *)
(* What a day holds is a count of its changes; a revision is what a report *)
(* says it was computed from.  marks counts the changes of a day that were *)
(* recorded: history that was imported has content without them.           *)
(***************************************************************************)
EXTENDS Integers, FiniteSets

CONSTANTS LastDay, Catchup, MaxArrivals, MaxFaults, MaxManual

VARIABLES
    clock,      \* [day, late]: late once the daily boundary of the day has passed
    content, marks, events,     \* of every day
    reports,    \* day -> [rev, events, current, ai, seen]; seen is history
    baseline,   \* day -> the events a report without a record of them is taken to know
    seeded,
    place,      \* where the cycle is: [at, ...]
    todo, today, late,          \* of the cycle: candidates left, and the times it read
    held,       \* the report read for the day, and the day's revisions
    status,
    asked,      \* history: how often the worker had a day interpreted
    torn,       \* history: days whose two writes were cut apart
    arrivals, faults, manual
worker == <<clock, content, marks, events, reports, baseline, seeded, place, todo, today, late, held,
            status, asked, torn, arrivals, faults, manual>>
archive == <<content, marks, events, baseline, seeded>>
bounds == <<arrivals, faults, manual>>

Days == 1 .. LastDay
None == [rev |-> <<"none", 0>>, events |-> -1, current |-> FALSE, ai |-> FALSE, seen |-> -1]
Idle == [report |-> None, data |-> <<"empty", 0>>, events |-> 0, must |-> FALSE]
Least(S) == CHOOSE x \in S : \A y \in S : x <= y

\* period_data_revision and the day markers it replaces; they agree on a day without data.
DataRevision(d) == IF content[d] = 0 THEN <<"empty", 0>> ELSE <<"v2", content[d]>>
LegacyRevision(d) == IF marks[d] = 0 THEN <<"empty", 0>> ELSE <<"old", marks[d]>>

\* Day 1 comes with the installation: nothing, imported history, or a report of an older
\* version of the program, which knew day markers or nothing at all.
Inherited(d) ==
    {None, [None EXCEPT !.seen = content[d]]} \cup
    {[None EXCEPT !.rev = LegacyRevision(d), !.ai = TRUE, !.seen = content[d]]}
WorkerInit ==
    /\ clock = [day |-> 2, late |-> FALSE]
    /\ content = [d \in Days |-> IF d = 1 THEN 1 ELSE 0] /\ events = [d \in Days |-> 0]
    /\ \E recorded \in {0, 1} : marks = [d \in Days |-> IF d = 1 THEN recorded ELSE 0]
    /\ reports \in {[d \in Days |-> IF d = 1 THEN report ELSE None] : report \in
                       {r \in Inherited(1) : r.rev # <<"empty", 0>>}}
    /\ baseline = [d \in Days |-> -1] /\ seeded = FALSE
    /\ place = "idle" /\ todo = {} /\ today = 2 /\ late = FALSE /\ held = Idle
    /\ status = "none" /\ asked = [d \in Days |-> 0] /\ torn = {}
    /\ arrivals = 0 /\ faults = 0 /\ manual = 0

Exists(report) == report.seen >= 0
Yesterday == today - 1

\* _write_status
Says(state) == status' = state
\* What a cycle holds in memory is gone when it is over.
Over == place' = "idle" /\ todo' = {} /\ today' = 2 /\ late' = FALSE /\ held' = Idle

\* run_cycle begins: the day is read once, for the whole cycle.
Begin ==
    /\ place = "idle" /\ place' = "seed" /\ Says("starting")
    /\ today' = clock.day
    /\ UNCHANGED <<clock, archive, reports, todo, late, held, asked, torn, bounds>>

\* seed_source_event_report_baselines: once, and only over what an older version left.
Seed ==
    /\ place = "seed" /\ place' = "sync" /\ Says("syncing") /\ seeded' = TRUE
    /\ baseline' = IF seeded THEN baseline
                   ELSE [d \in Days |-> IF Exists(reports[d]) THEN events[d] ELSE baseline[d]]
    /\ UNCHANGED <<clock, content, marks, events, reports, todo, today, late, held, asked, torn, bounds>>

\* sync: what arrived is stored, whether or not all of it came.
Sync(changed, happened) ==
    /\ place = "sync" /\ changed \cup happened \subseteq 1 .. (clock.day - 1)
    /\ changed \cup happened # {} => arrivals < MaxArrivals
    /\ arrivals' = IF changed \cup happened = {} THEN arrivals ELSE arrivals + 1
    /\ content' = [d \in Days |-> content[d] + (IF d \in changed THEN 1 ELSE 0)]
    /\ marks' = [d \in Days |-> marks[d] + (IF d \in changed THEN 1 ELSE 0)]
    /\ events' = [d \in Days |-> events[d] + (IF d \in happened THEN 1 ELSE 0)]
    /\ \/ place' = "choose" /\ UNCHANGED <<status, todo, today, late, held>>       \* complete
       \/ Over /\ Says("error")
    /\ UNCHANGED <<clock, reports, baseline, seeded, asked, torn, faults, manual>>

\* _completed_dates and _daily_report_ready.
Earliest == IF \E d \in Days : content[d] > 0 THEN Least({d \in Days : content[d] > 0}) ELSE Yesterday
FirstDay == LET bounded == today - Catchup
                first == IF Earliest < Yesterday THEN Earliest ELSE Yesterday
            IN IF first > bounded THEN first ELSE bounded
Ready == clock.day > today \/ clock.late
Candidates == {d \in FirstDay .. Yesterday : Ready \/ d # Yesterday}
Choose ==
    /\ place = "choose" /\ todo' = Candidates /\ late' = Ready /\ place' = "days"
    /\ UNCHANGED <<clock, archive, reports, today, held, status, asked, torn, bounds>>

\* What the report of a day says it was made of; an older one is taken to know the baseline.
Known(d, report) == IF report.events = -1 THEN baseline[d] ELSE report.events
\* Imported history that nothing has touched stays as it is.
UnchangedImport(d, report) ==
    Exists(report) /\ report.rev = <<"none", 0>> /\ content[d] > 0 /\ LegacyRevision(d) = <<"empty", 0>>
\* A format upgrade is not new evidence.
Upgradable(d, report) ==
    Exists(report) /\ report.rev[1] \in {"old", "empty"} /\ report.rev # DataRevision(d) /\ report.rev = LegacyRevision(d)
MustAnalyze(d, report) ==
    \/ ~Exists(report)
    \/ d = Yesterday /\ ~report.current
    \/ Known(d, report) # events[d]
    \/ /\ ~UnchangedImport(d, report) /\ (content[d] > 0 \/ report.rev[1] = "v2")
       /\ report.rev # DataRevision(d)

Day == Least(todo)
Look ==
    /\ place = "days" /\ todo # {} /\ Says("analyzing")
    /\ held' = [report |-> reports[Day], data |-> DataRevision(Day), events |-> events[Day],
                must |-> MustAnalyze(Day, reports[Day])]
    /\ place' = IF Upgradable(Day, reports[Day]) THEN "upgrade" ELSE "decide"
    /\ UNCHANGED <<clock, archive, reports, todo, today, late, asked, torn, bounds>>
\* upgrade_report_telemetry_revision compares and sets; a report that has changed ends the cycle.
Upgrade ==
    /\ place = "upgrade"
    /\ IF reports[Day].rev = held.report.rev
       THEN /\ reports' = [reports EXCEPT ![Day].rev = held.data] /\ place' = "decide"
            /\ held' = [held EXCEPT !.report.rev = held.data,
                                    !.must = MustAnalyze(Day, [held.report EXCEPT !.rev = held.data])]
            /\ UNCHANGED <<status, todo, today, late>>
       ELSE Over /\ Says("error") /\ UNCHANGED reports
    /\ UNCHANGED <<clock, archive, asked, torn, bounds>>

FirstOfYesterday == Day = Yesterday /\ ~Exists(held.report)
Later == todo \ {Day}
Fresh(d, ai) == [rev |-> DataRevision(d), events |-> events[d], current |-> TRUE, ai |-> ai, seen |-> content[d]]
Skip ==
    /\ place = "decide" /\ ~held.must /\ todo' = Later /\ place' = "days"
    /\ UNCHANGED <<clock, archive, reports, today, late, held, status, asked, torn, bounds>>
\* analyze_daily: the report is stored; an interpretation may be refused or fail.
Analyze ==
    /\ place = "decide" /\ held.must
    /\ \E ai \in {FALSE, FirstOfYesterday} :
          /\ reports' = [reports EXCEPT ![Day] = Fresh(Day, ai)]
          /\ asked' = [asked EXCEPT ![Day] = @ + (IF ai THEN 1 ELSE 0)]
    /\ IF held.report.ai THEN place' = "reuse" /\ UNCHANGED todo
       ELSE place' = "days" /\ todo' = Later
    /\ UNCHANGED <<clock, archive, today, late, held, status, torn, bounds>>
Kept(report) == report.ai
\* reuse_ai_interpretation, and the report is stored a second time.
Reuse ==
    /\ place = "reuse" /\ reports' = [reports EXCEPT ![Day] = Fresh(Day, Kept(held.report))]
    /\ todo' = Later /\ place' = "days"
    /\ UNCHANGED <<clock, archive, today, late, held, status, asked, torn, bounds>>

\* The long periods (LongPeriods) and the publication (Publication), then the status.
Publish ==
    /\ place = "days" /\ todo = {} /\ Says("publishing") /\ place' = "publish"
    /\ UNCHANGED <<clock, archive, reports, todo, today, late, held, asked, torn, bounds>>
Finish ==
    /\ place = "publish" /\ Says("ok") /\ Over
    /\ UNCHANGED <<clock, archive, reports, asked, torn, bounds>>

-----------------------------------------------------------------------------
\* A step raises, and the status says so; or the process is killed, and it does not.
Fail ==
    /\ place # "idle" /\ faults < MaxFaults /\ faults' = faults + 1 /\ Over
    /\ status' \in {status, "error"}
    /\ torn' = IF place = "reuse" THEN torn \cup {Day} ELSE torn
    /\ UNCHANGED <<clock, archive, reports, asked, arrivals, manual>>
\* The owner asks for the report of a day from the command line.
Manual(d) ==
    /\ manual < MaxManual /\ manual' = manual + 1 /\ d < clock.day
    /\ \E ai \in BOOLEAN : reports' = [reports EXCEPT ![d] = Fresh(d, ai)]
    /\ torn' = torn \cup {d}
    /\ UNCHANGED <<clock, archive, place, todo, today, late, held, status, asked, arrivals, faults>>
Tick ==
    /\ clock.day < LastDay \/ ~clock.late
    /\ clock' = IF clock.late THEN [day |-> clock.day + 1, late |-> FALSE] ELSE [clock EXCEPT !.late = TRUE]
    /\ UNCHANGED <<archive, reports, place, todo, today, late, held, status, asked, torn, bounds>>

WorkerNext ==
    \/ Begin \/ Seed \/ Choose \/ Look \/ Upgrade \/ Skip \/ Analyze \/ Reuse \/ Publish \/ Finish
    \/ Fail \/ Tick
    \/ \E changed, happened \in SUBSET Days : Sync(changed, happened)
    \/ \E d \in Days : Manual(d)

-----------------------------------------------------------------------------
(* A cycle that ends well leaves no day of its window behind: the report of each was made from *)
(* what the archive holds of that day, content and events, whichever format the report's       *)
(* revision had (run_cycle; "a format upgrade is not new evidence").                           *)
NothingIsStale ==
    [][Finish => \A d \in FirstDay .. Yesterday :
          (late \/ d # Yesterday) =>
             Exists(reports[d]) /\ reports[d].seen = content[d] /\ Known(d, reports[d]) = events[d]]_worker

(* An interpretation is asked for once a day at most ("never on every poll", run_cycle), and a *)
(* recomputation keeps the one there is, unless it is cut in two or the owner makes the report  *)
(* by hand.                                                                                     *)
InterpretedOnce ==
    \A d \in Days :
       /\ asked[d] <= 1
       /\ asked[d] = 1 /\ d \notin torn /\ (place = "reuse" => d # Day) => reports[d].ai

(* The worker reports no day before its boundary, however long its cycle takes.                 *)
NeverEarly == [][Analyze => clock.day > Day + 1 \/ clock.late]_worker

=============================================================================
