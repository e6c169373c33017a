----------------------------- MODULE Scheduler ------------------------------
(***************************************************************************)
(* cloud/scheduler.py:ProductionScheduler: one bounded phase per timer     *)
(* call.  What the next call needs is a JSON state in the checkpoint of    *)
(* the scheduler's own job, so every save is fenced by its lease.  A call  *)
(* first synchronises telemetry and then gives at most one lane a turn     *)
(* that has work.                                                          *)
(*                                                                         *)
(* An invocation keeps the state it loaded, `mem`, and saves it whole.     *)
(* Days are numbered from the first sample; `day` is the newest whose      *)
(* report is due, daily_report_delay_minutes after its end.  A period of   *)
(* a lane with span s is s days.                                           *)
(***************************************************************************)
EXTENDS Integers, SequencesExt

CONSTANTS
    Invocations, Nobody,
    Lanes,       \* _LANES: a sequence of names, "daily" first
    Span,        \* report lane -> days of one of its periods
    Long,        \* lanes whose periods wait for their daily reports
    ScanLimit,   \* _SCAN_LIMIT
    Catchup,     \* pilot.max_catchup_days
    MaxDay,      \* bound: days 1..MaxDay
    MaxStalls,   \* bound: leases that end while their owner runs
    MaxCrashes   \* bound: killed invocations

ReportLanes == DOMAIN Span

ASSUME InvocationsAssumption == Nobody \notin Invocations
ASSUME LanesAssumption ==
    /\ Lanes \in Seq(STRING) /\ Len(Lanes) > 0 /\ Lanes[1] = "daily"
    /\ "daily" \in ReportLanes /\ ReportLanes \subseteq Range(Lanes)
    /\ \A l \in ReportLanes : Span[l] \in Nat \ {0}
    /\ Span["daily"] = 1 /\ Long \subseteq ReportLanes \ {"daily"}
ASSUME LimitsAssumption ==
    {ScanLimit, Catchup, MaxDay} \subseteq Nat \ {0} /\ {MaxStalls, MaxCrashes} \subseteq Nat

VARIABLES
    saved,    \* the checkpoint of the scheduler's job
    holder,   \* the invocation whose lease that job carries
    inv,      \* invocations
    stored,   \* report lane -> periods whose report is stored
    day,
    stalls, crashes

vars == <<saved, holder, inv, stored, day, stalls, crashes>>

NoPeriod == 0
NoItem == [period |-> NoPeriod, ai |-> FALSE]

EmptyState ==
    [lane |-> 1, slot |-> FALSE, synced |-> FALSE,
     pending |-> [l \in ReportLanes |-> NoItem],
     deferred |-> [l \in ReportLanes |-> <<>>],
     cursor |-> [l \in ReportLanes |-> 1]]

Steps == {"idle", "sync", "fetch", "choose", "turn", "work", "run", "done", "release"}
Idle == [step |-> "idle", mem |-> EmptyState, yesterday |-> 0, first |-> 1, turns |-> 0]

Init ==
    /\ saved = EmptyState /\ holder = Nobody
    /\ inv = [i \in Invocations |-> Idle]
    /\ stored = [l \in ReportLanes |-> {}]
    /\ day = 1
    /\ stalls = 0 /\ crashes = 0

At(i, step) == inv[i].step = step
Mem(i) == inv[i].mem
Index(i) == ((inv[i].first + inv[i].turns - 1) % Len(Lanes)) + 1
Lane(i) == Lanes[Index(i)]
Goto(i, step) == inv' = [inv EXCEPT ![i].step = step]
\* What is left is to release the lease: the call needs its state no longer.
Leave(i) == inv' = [inv EXCEPT ![i] = [Idle EXCEPT !.step = "release"]]
Continue(i, mem, step) ==
    IF step = "release" THEN Leave(i)
    ELSE inv' = [inv EXCEPT ![i].mem = mem, ![i].step = step]

\* A slip of save: the checkpoint is written without the fence.
SaveUnfenced(i, mem, step) == saved' = mem /\ Continue(i, mem, step)

\* save(): the whole state, if the lease is still held; its loss raises.
Save(i, mem, step) ==
    IF holder = i THEN saved' = mem /\ Continue(i, mem, step)
    ELSE Leave(i) /\ UNCHANGED saved

-----------------------------------------------------------------------------
(* Which period a lane works on, as seen on the day after `y`.             *)

FirstDay(y) == IF y > Catchup THEN y - Catchup + 1 ELSE 1
Ready(y) == y <= day

\* Closed periods of the catch-up window, the newest first; yesterday's
\* report is not due until its delay has passed.
Listed(l, y) ==
    LET last == (IF Ready(y) THEN y ELSE y - 1) \div Span[l]
        first == 1 + (FirstDay(y) - 1) \div Span[l]
    IN  [k \in 1 .. (IF last >= first THEN last - first + 1 ELSE 0) |-> last - k + 1]

\* A slip of _reports: the cursor is not carried over from call to call.
LooksFromStart(cursor, n) ==
    LET others == IF n < ScanLimit THEN n - 1 ELSE ScanLimit - 1
    IN  <<0>> \o [k \in 1 .. others |-> k]

\* The places in a list of n periods that one call looks at: the newest, and
\* a few of the others from where the last call stopped.
Looks(cursor, n) ==
    LET others == IF n < ScanLimit THEN n - 1 ELSE ScanLimit - 1
    IN  <<0>> \o [k \in 1 .. others |-> 1 + ((cursor + k - 2) % (n - 1))]

IsDeferred(mem, l, p) == \E k \in DOMAIN mem.deferred[l] : mem.deferred[l][k].period = p

\* A slip of _reports: a deferred period may be chosen again.
NeededThoughDeferred(mem, l, p, y) == p \notin stored[l]

\* A slip of _reports: a long season does not wait for its daily reports.
NeededThoughPartial(mem, l, p, y) == p \notin stored[l] /\ ~IsDeferred(mem, l, p)

\* A long season consumes daily facts and waits until all of them are stored.
DaysOf(l, p, y) == {d \in (p - 1) * Span[l] + 1 .. p * Span[l] : d >= FirstDay(y)}
Needed(mem, l, p, y) ==
    /\ p \notin stored[l] /\ ~IsDeferred(mem, l, p)
    /\ l \in Long => DaysOf(l, p, y) \subseteq stored["daily"]

\* _has_recent_missing_daily looks at days before the first sample as well.
RecentDays == IF ScanLimit < Catchup THEN ScanLimit ELSE Catchup
RecentMissing(mem, y) ==
    Ready(y) /\ \E d \in y - RecentDays + 1 .. y :
                    d \notin stored["daily"] /\ ~IsDeferred(mem, "daily", d)

\* _missing_recent_daily: the newest of them for which there are samples.
Urgent(mem, y) ==
    LET missing == {d \in y - ScanLimit + 1 .. y :
                       /\ d >= FirstDay(y)
                       /\ d \notin stored["daily"] /\ ~IsDeferred(mem, "daily", d)}
    IN  IF Ready(y) /\ missing # {} THEN Max(missing) ELSE NoPeriod

-----------------------------------------------------------------------------
(* One timer call: the lease, then telemetry.                              *)

\* The call reads the clock: yesterday's report may not be due yet.
Start(i) ==
    /\ At(i, "idle") /\ holder = Nobody
    /\ holder' = i
    /\ \E y \in {day, day + 1} :
          inv' = [inv EXCEPT ![i] = [Idle EXCEPT !.step = "sync", !.mem = saved, !.yesterday = y]]
    /\ UNCHANGED <<saved, stored, day, stalls, crashes>>

\* A slot that was opened is kept until it is complete.
Sync(i) ==
    /\ At(i, "sync")
    /\ \/ Mem(i).slot /\ Goto(i, "fetch") /\ UNCHANGED saved
       \/ ~Mem(i).slot /\ Mem(i).synced /\ Goto(i, "choose") /\ UNCHANGED saved  \* not due
       \/ ~Mem(i).slot /\ Save(i, [Mem(i) EXCEPT !.slot = TRUE], "fetch")
    /\ UNCHANGED <<holder, stored, day, stalls, crashes>>

\* All sources were read; the call goes on if it has time left.
FetchAll(i) ==
    /\ At(i, "fetch")
    /\ \E step \in {"choose", "release"} :
          Save(i, [Mem(i) EXCEPT !.slot = FALSE, !.synced = TRUE], step)
    /\ UNCHANGED <<holder, stored, day, stalls, crashes>>

\* Too many requests, too little time, or an exception: no lane has a turn.
FetchPart(i) ==
    /\ At(i, "fetch")
    /\ Save(i, Mem(i), "release")
    /\ UNCHANGED <<holder, stored, day, stalls, crashes>>

-----------------------------------------------------------------------------
(* The lanes.                                                              *)

Choose(i) ==
    LET first == IF Mem(i).synced /\ RecentMissing(Mem(i), inv[i].yesterday)
                 THEN 1 ELSE Mem(i).lane
    IN
    /\ At(i, "choose")
    /\ inv' = [inv EXCEPT ![i].step = "turn", ![i].first = first]
    /\ UNCHANGED <<saved, holder, stored, day, stalls, crashes>>

\* A slip of run: the lane is not advanced.
SameLane(lane) == lane

NextLane(lane) == (lane % Len(Lanes)) + 1

\* "Advance before external work": the next call begins with the next lane.
Turn(i) ==
    /\ At(i, "turn") /\ inv[i].turns < Len(Lanes)
    /\ Save(i, [Mem(i) EXCEPT !.lane = NextLane(Index(i))], "work")
    /\ UNCHANGED <<holder, stored, day, stalls, crashes>>

\* Every lane was idle, or less than 25 s are left.
EndTurns(i) ==
    /\ At(i, "turn")
    /\ Leave(i)
    /\ UNCHANGED <<saved, holder, stored, day, stalls, crashes>>

\* The lane had nothing to do: the next one gets its turn.
Pass(i, mem) ==
    IF holder = i
    THEN /\ saved' = mem
         /\ inv' = [inv EXCEPT ![i].mem = mem, ![i].step = "turn",
                               ![i].turns = @ + 1]
    ELSE Leave(i) /\ UNCHANGED saved

\* scheduled_review: not due, or an answer or exception that ends the call.
Review(i) ==
    /\ At(i, "work") /\ Lane(i) \notin ReportLanes
    /\ Pass(i, Mem(i)) \/ Save(i, Mem(i), "release")
    /\ UNCHANGED <<holder, stored, day, stalls, crashes>>

\* A slip of _reports: the displaced day is not remembered.
DisplacedForGood(mem, y) ==
    LET u == Urgent(mem, y)
    IN  IF u # NoPeriod /\ mem.pending["daily"].period < u
        THEN [mem EXCEPT !.pending["daily"] = [period |-> u, ai |-> u = y]]
        ELSE mem

\* A newer missing day displaces the day in work, which is retried at once.
Displaced(mem, y) ==
    LET old == mem.pending["daily"]
        u == Urgent(mem, y)
    IN  IF /\ old # NoItem \/ mem.deferred["daily"] # <<>>
           /\ u # NoPeriod /\ old.period < u
        THEN [mem EXCEPT
                 !.pending["daily"] = [period |-> u, ai |-> u = y],
                 !.deferred["daily"] = IF old = NoItem THEN @ ELSE Append(@, old)]
        ELSE mem

InTurn(i) == IF Lane(i) = "daily" THEN Displaced(Mem(i), inv[i].yesterday) ELSE Mem(i)
Begin(i, mem) ==
    IF mem = Mem(i) THEN Goto(i, "run") /\ UNCHANGED saved ELSE Save(i, mem, "run")

\* A report lane without time, or before the first slot was complete.
SkipReports(i) ==
    /\ At(i, "work") /\ Lane(i) \in ReportLanes
    /\ Pass(i, Mem(i))
    /\ UNCHANGED <<holder, stored, day, stalls, crashes>>

Resume(i) ==
    /\ At(i, "work") /\ Lane(i) \in ReportLanes /\ Mem(i).synced
    /\ InTurn(i).pending[Lane(i)] # NoItem
    /\ Begin(i, InTurn(i))
    /\ UNCHANGED <<holder, stored, day, stalls, crashes>>

\* A deferred period whose retry_at has passed.
Retry(i) ==
    LET l == Lane(i)
        deferred == Mem(i).deferred[l]
    IN
    /\ At(i, "work") /\ l \in ReportLanes /\ Mem(i).synced
    /\ InTurn(i).pending[l] = NoItem
    /\ \E k \in DOMAIN deferred :
          Begin(i, [Mem(i) EXCEPT !.pending[l] = deferred[k],
                                  !.deferred[l] = RemoveAt(deferred, k)])
    /\ UNCHANGED <<holder, stored, day, stalls, crashes>>

\* Otherwise the calendar is searched for the first period that needs a
\* report.  The time may run out after `cut` places: the cursor has then
\* moved past the next one, which was not looked at.
Search(i, cut) ==
    LET l == Lane(i)
        mem == Mem(i)
        y == inv[i].yesterday
        listed == Listed(l, y)
        looks == IF listed = <<>> THEN <<>> ELSE Looks(mem.cursor[l], Len(listed))
        Place(k) == listed[looks[k] + 1]
        hits == {k \in 1 .. cut : Needed(mem, l, Place(k), y)}
        stop == IF hits # {} THEN Min(hits)
                ELSE IF cut < Len(looks) THEN cut + 1 ELSE cut
        moved == IF stop > 0 /\ looks[stop] > 0
                 THEN [mem EXCEPT !.cursor[l] = looks[stop] + 1] ELSE mem
    IN
    /\ At(i, "work") /\ l \in ReportLanes /\ mem.synced
    /\ InTurn(i).pending[l] = NoItem
    /\ cut <= Len(looks)
    /\ IF l # "daily" /\ ~Ready(y) THEN cut = 0 /\ Pass(i, mem)
       ELSE IF hits # {}
       THEN Save(i, [moved EXCEPT !.pending[l] =
                        [period |-> Place(stop), ai |-> l # "daily" \/ Place(stop) = y]], "run")
       ELSE IF cut = Len(looks) THEN Pass(i, moved)
       ELSE ~IsDeferred(mem, l, Place(stop)) /\ Save(i, moved, "release")
    /\ UNCHANGED <<holder, stored, day, stalls, crashes>>

-----------------------------------------------------------------------------
(* run_scheduled, see ReportJobs.                                          *)

RunDone(i) ==
    /\ At(i, "run")
    /\ stored' = [stored EXCEPT ![Lane(i)] = @ \cup {Mem(i).pending[Lane(i)].period}]
    /\ Goto(i, "done")
    /\ UNCHANGED <<saved, holder, day, stalls, crashes>>

ForgetPending(i) ==
    /\ At(i, "done")
    /\ Save(i, [Mem(i) EXCEPT !.pending[Lane(i)] = NoItem], "release")
    /\ UNCHANGED <<holder, stored, day, stalls, crashes>>

\* Pending, busy or an exception, which may come after the report was
\* stored: the item stays for the lane's next turn.
RunUnfinished(i) ==
    /\ At(i, "run") \/ At(i, "done")
    /\ Save(i, Mem(i), "release")
    /\ UNCHANGED <<holder, stored, day, stalls, crashes>>

\* reconciliation_required: retried in an hour, other periods go first.
RunUnknown(i) ==
    LET l == Lane(i) IN
    /\ At(i, "run")
    /\ Save(i, [Mem(i) EXCEPT !.pending[l] = NoItem,
                              !.deferred[l] = Append(@, Mem(i).pending[l])], "release")
    /\ UNCHANGED <<holder, stored, day, stalls, crashes>>

Release(i) ==
    /\ At(i, "release")
    /\ inv' = [inv EXCEPT ![i] = Idle]
    /\ holder' = IF holder = i THEN Nobody ELSE holder
    /\ UNCHANGED <<saved, stored, day, stalls, crashes>>

-----------------------------------------------------------------------------
Crash(i) ==
    /\ ~At(i, "idle") /\ crashes < MaxCrashes
    /\ inv' = [inv EXCEPT ![i] = Idle]
    /\ crashes' = crashes + 1
    /\ UNCHANGED <<saved, holder, stored, day, stalls>>

\* The lease of a dead invocation ends, or that of one that is late.
Expire ==
    /\ holder # Nobody
    /\ IF At(holder, "idle") THEN UNCHANGED stalls
       ELSE stalls < MaxStalls /\ stalls' = stalls + 1
    /\ holder' = Nobody
    /\ UNCHANGED <<saved, inv, stored, day, crashes>>

Tomorrow ==
    /\ day < MaxDay
    /\ day' = day + 1
    /\ UNCHANGED <<saved, holder, inv, stored, stalls, crashes>>

Work(i) ==
    \/ Review(i) \/ SkipReports(i) \/ Resume(i) \/ Retry(i)
    \/ \E cut \in 0 .. ScanLimit : Search(i, cut)

Step(i) ==
    \/ Start(i) \/ Sync(i) \/ FetchAll(i) \/ FetchPart(i) \/ Choose(i)
    \/ Turn(i) \/ EndTurns(i) \/ Work(i)
    \/ RunDone(i) \/ ForgetPending(i) \/ RunUnfinished(i) \/ RunUnknown(i)
    \/ Release(i)

Next ==
    \/ \E i \in Invocations : Step(i) \/ Crash(i)
    \/ Expire \/ Tomorrow

Spec == Init /\ [][Next]_vars

-----------------------------------------------------------------------------
(* Fairness: the timer keeps calling, the lease of a dead call ends, and a *)
(* call that goes on comes to its end.                                     *)

Proceed(i) ==
    \/ Sync(i) \/ FetchAll(i) \/ FetchPart(i) \/ Choose(i)
    \/ Turn(i) \/ EndTurns(i) \/ Work(i)
    \/ RunDone(i) \/ ForgetPending(i) \/ RunUnfinished(i) \/ RunUnknown(i)
    \/ Release(i)

Timers ==
    WF_vars(Expire) /\ \A i \in Invocations : WF_vars(Start(i)) /\ WF_vars(Proceed(i))

\* What may fail now and then does not fail for ever: telemetry is completed
\* with time left, and the lane that is next gets its turn before the deadline.
FetchInTime(i) == FetchAll(i) /\ inv'[i].step # "release"

FairSpec ==
    /\ Spec /\ Timers
    /\ \A i \in Invocations : SF_vars(FetchInTime(i)) /\ SF_vars(Turn(i))

\* Moreover a report lane has its turn, now and then, in a call that comes
\* after yesterday's report is due and has the minutes for a whole search;
\* a deferred period is retried, and a run that is repeated succeeds.  And
\* in the end no search is cut short any more: a call that alternates with
\* such searches would look at the same periods every time.
Due(i) == inv'[i].yesterday = day
WholeSearch(i) ==
    LET n == Len(Listed(Lane(i), day))
    IN  Search(i, IF n < ScanLimit THEN n ELSE ScanLimit)
CutShort(i) == At(i, "work") /\ Lane(i) \in ReportLanes /\ inv'[i].step = "release"

HealthySpec ==
    /\ Spec /\ Timers
    /\ <>[][\A i \in Invocations : ~CutShort(i)]_vars
    /\ \A i \in Invocations :
          /\ SF_vars(Start(i) /\ Due(i)) /\ SF_vars(FetchInTime(i) /\ Due(i))
          /\ \A l \in ReportLanes :
                /\ SF_vars(Turn(i) /\ Due(i) /\ Lane(i) = l)
                /\ SF_vars(Retry(i) /\ Lane(i) = l)
                /\ SF_vars((Resume(i) \/ WholeSearch(i)) /\ Due(i) /\ Lane(i) = l)
                /\ SF_vars(RunDone(i) /\ Lane(i) = l)
                /\ SF_vars(ForgetPending(i) /\ Lane(i) = l)

-----------------------------------------------------------------------------
Items == [period : 1 .. MaxDay, ai : BOOLEAN]
States ==
    [lane : 1 .. Len(Lanes), slot : BOOLEAN, synced : BOOLEAN,
     pending : [ReportLanes -> Items \cup {NoItem}],
     deferred : [ReportLanes -> Seq(Items)],
     cursor : [ReportLanes -> 1 .. MaxDay]]
Calls ==
    [step : Steps, mem : States, yesterday : 0 .. MaxDay + 1,
     first : 1 .. Len(Lanes), turns : 0 .. Len(Lanes)]

TypeOK ==
    /\ saved \in States /\ holder \in Invocations \cup {Nobody}
    /\ inv \in [Invocations -> Calls]
    /\ stored \in [ReportLanes -> SUBSET (1 .. MaxDay)]
    /\ day \in 1 .. MaxDay
    /\ stalls \in 0 .. MaxStalls /\ crashes \in 0 .. MaxCrashes

WorkOf(mem, l) == ({mem.pending[l]} \cup Range(mem.deferred[l])) \ {NoItem}

(* Work that was begun is not forgotten: a period that the saved state has *)
(* in work or deferred stays there, with the AI policy decided when it was *)
(* chosen, until its report is stored -- through preemption by newer days, *)
(* deferral, crashes and calls that outlive their lease (_reports, save).  *)
WorkIsKept ==
    [][\A l \in ReportLanes : \A item \in WorkOf(saved, l) :
          item \in WorkOf(saved', l) \/ item.period \in stored'[l]]_vars

(* A period is in work or deferred at most once, so that its request is    *)
(* not run under two entries with different retry times (_reports,         *)
(* _missing_recent_daily).                                                 *)
NoDoubleWork ==
    \A l \in ReportLanes :
        LET deferred == saved.deferred[l] IN
        /\ \A j, k \in DOMAIN deferred : deferred[j].period = deferred[k].period => j = k
        /\ ~IsDeferred(saved, l, saved.pending[l].period)

(* A long season is not frozen on a partial aggregate: its run begins only *)
(* when every day of it inside the catch-up window has a daily report, and *)
(* that stays true while it is pending or deferred (_reports).             *)
LongSeasonsAreWhole ==
    \A l \in Long : \A item \in WorkOf(saved, l) :
        \A d \in DaysOf(l, item.period, day) : d \in stored["daily"]

HasTurn(l) == \E i \in Invocations : At(i, "work") /\ Lane(i) = l

(* "The other queues alternate; their progress depends on the completion   *)
(* of the missing daily reports" (docs/cloud/cloud_first_m8.md): once no   *)
(* recent daily report is missing, every lane has its turn again and       *)
(* again, although runs, searches and reviews of the others keep failing.  *)
LanesAlternate ==
    <>[]~RecentMissing(saved, day) => \A l \in Range(Lanes) : []<>HasTurn(l)

(* Catching up comes to an end: if runs succeed when they are repeated,    *)
(* every due period of the catch-up window is stored at last, however the  *)
(* days passed meanwhile and whatever was displaced or deferred (_reports: *)
(* the rotating search).                                                   *)
CaughtUp == \A l \in ReportLanes : Range(Listed(l, day)) \subseteq stored[l]
CatchesUp == <>[]CaughtUp
=============================================================================
