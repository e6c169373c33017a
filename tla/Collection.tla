----------------------------- MODULE Collection -----------------------------
(***************************************************************************)
(* Synchronisation with the ZONT service for one device: a polling slot of *)
(* cloud/scheduler.py:_sync, the runs of IngestionService.sync that work   *)
(* it off (application/ingestion.py), and CollectionService.ensure_period  *)
(* with the coverage table (application/collection.py,                     *)
(* adapters/ydb/telemetry.py).                                             *)
(*                                                                         *)
(* Time is counted in units of the shortest window.  A history source has  *)
(* at most one record per unit.  While the device is disconnected its      *)
(* records are buffered; they can be read once it has reconnected.  A      *)
(* record may also be late for no reason the program is told of.           *)
(***************************************************************************)
EXTENDS Integers, FiniteSets, FiniteSetsExt, SequencesExt

CONSTANTS
    History,      \* zont.history_data_types of the device
    Overlap,      \* scheduler.overlap_minutes
    Day,          \* how far back the very first run asks
    Window,       \* 1800 s, the longest window of one request
    Limit,        \* 2000 records, the most one transaction stores
    Horizon,      \* 90 days: how far back the service answers
    MaxRequests,  \* scheduler.max_requests_per_sync
    MaxTime,      \* bound: the clock
    MaxOutages,   \* bound: lost connections
    MaxFaults     \* bound: late records, killed runs and lost answers

\* The sources in the order of the configuration, the events last.
Order == SetToSeq(History) \o <<"raw_events">>
Sources == History \cup {"raw_events"}
Ordinary == 0      \* the empty coverage_prefix

ASSUME HistoryAssumption == IsFiniteSet(History) /\ "raw_events" \notin History
ASSUME BoundsAssumption ==
    /\ {Overlap, Window, Limit, Horizon, MaxRequests} \subseteq Nat \ {0}
    /\ {Day, MaxTime, MaxOutages, MaxFaults} \subseteq Nat

VARIABLES
    now, link, outages,
    served,     \* record -> when it became readable
    buffered,   \* records that are measured but cannot be read yet
    broken,     \* methods of the service that always fail
    stored,     \* samples and source events in YDB
    coverage,   \* rows in state complete or empty
    checked,    \* those of them that were read in this slot (checked_at)
    cursors, hints, nextSource,
    recovery,   \* app_meta "connection_recovery"
    slot,       \* the scheduler's slot, and what it owes: a history variable
    run, faults

service == <<now, link, outages, served, buffered, broken>>
tables == <<stored, coverage, checked, cursors, hints, nextSource, recovery>>
vars == <<now, link, outages, served, buffered, broken, stored, coverage, checked,
          cursors, hints, nextSource, recovery, slot, run, faults>>

Never == -1
\* since is where the first slot began, done is last_sync.
NoSlot == [open |-> FALSE, ref |-> 0, start |-> 0, since |-> Never, done |-> Never, owed |-> {}]
NoRecovery == [open |-> Never, start |-> Never, restore |-> Never, handled |-> Never]
NoRun == [phase |-> "idle", tag |-> Ordinary, start |-> 0, queues |-> [s \in Sources |-> {}],
          win |-> [s \in Sources |-> Window], pos |-> 0, processed |-> {}, left |-> 0,
          made |-> FALSE, next |-> 0, last |-> 0, errors |-> FALSE, complete |-> TRUE,
          events |-> {}, noted |-> NoRecovery]

Method(s) == IF s = "raw_events" THEN "raw_events" ELSE "load_data"

Init ==
    /\ now = 0 /\ link = "up" /\ outages = 0
    /\ served = [r \in {} |-> 0] /\ buffered = {}
    /\ broken \in {{}, {"load_data"}, {"raw_events"}}
    /\ stored = {} /\ coverage = {} /\ checked = {}
    /\ cursors = [s \in Sources |-> Never]
    /\ hints = [s \in Sources |-> Window]
    /\ nextSource = 0
    /\ recovery = NoRecovery
    /\ slot = NoSlot /\ run = NoRun /\ faults = 0

-----------------------------------------------------------------------------
(* The device and the service.                                             *)

Record(s, t) == [source |-> s, at |-> t, type |-> "sample"]
Event(type, t) == [source |-> "raw_events", at |-> t, type |-> type]

\* From now on these can be read too.
Readable(records) ==
    [r \in DOMAIN served \cup records |-> IF r \in DOMAIN served THEN served[r] ELSE now]

\* Whether anything is measured in this unit of time is up to the device.
Tick ==
    /\ now < MaxTime
    /\ now' = now + 1
    /\ \E records \in {{}, {Record(s, now) : s \in History}} :
         \/ link = "up" /\ served' = Readable(records) /\ UNCHANGED <<buffered, faults>>
         \/ /\ link = "down"
            /\ buffered' = buffered \cup records /\ UNCHANGED <<served, faults>>
         \/ /\ link = "up" /\ records # {} /\ faults < MaxFaults
            /\ buffered' = buffered \cup records /\ faults' = faults + 1 /\ UNCHANGED served
    /\ UNCHANGED <<link, outages, broken, tables, slot, run>>

\* What was late arrives.
Arrive ==
    /\ link = "up" /\ buffered # {}
    /\ served' = Readable(buffered) /\ buffered' = {}
    /\ UNCHANGED <<now, link, outages, broken, tables, slot, run, faults>>

Disconnect ==
    /\ link = "up" /\ outages < MaxOutages
    /\ link' = "down" /\ outages' = outages + 1
    /\ served' = Readable({Event("disconnected", now)})
    /\ UNCHANGED <<now, buffered, broken, tables, slot, run, faults>>

Reconnect ==
    /\ link = "down"
    /\ link' = "up"
    /\ served' = Readable(buffered \cup {Event("connected", now)})
    /\ buffered' = {}
    /\ UNCHANGED <<now, outages, broken, tables, slot, run, faults>>

-----------------------------------------------------------------------------
(* Coverage.  A row stands for [lo, hi); a row in state failed counts as   *)
(* no row everywhere it is read.                                           *)

Row(tag, s, w) == [tag |-> tag, source |-> s, lo |-> w[1], hi |-> w[2]]
Units(lo, hi) == lo .. (hi - 1)
CoveredBy(rows, tag, s) ==
    UNION {Units(r.lo, r.hi) : r \in {r \in rows : r.tag = tag /\ r.source = s}}
Covered(tag, s) == CoveredBy(coverage, tag, s)

\* missing_intervals: what is older than the horizon cannot be had any more.
Missing(tag, s, start, end, ref) ==
    {t \in Units(start, end) \ Covered(tag, s) : t >= ref - Horizon}

\* The newest part is asked again, once in every slot.
Replay(s, start, ref) ==
    {t \in Units(start, ref) \ CoveredBy(checked, Ordinary, s) : t >= ref - Overlap}

\* Maximal intervals of a set of units.
Intervals(units) ==
    {w \in units \X {t + 1 : t \in units} :
        /\ w[1] < w[2] /\ Units(w[1], w[2]) \subseteq units
        /\ w[1] - 1 \notin units /\ w[2] \notin units}

Queues(tag, start, end, ref) ==
    [s \in Sources |->
        Intervals(Missing(tag, s, start, end, ref)
                    \cup IF tag = Ordinary THEN Replay(s, start, ref) ELSE {})]

-----------------------------------------------------------------------------
(* The slot of the scheduler, and a run of sync that works at it.          *)

Idle == run = NoRun

\* The oldest cursor less the overlap; a source without one asks for a day.
CursorStart(ref) ==
    Max({0, Min({IF cursors[s] = Never THEN ref - Day ELSE cursors[s] : s \in Sources})
                - Overlap})

\* The connection is lost at d and has not come back at t.
CutOff(d, t) ==
    /\ Event("disconnected", d) \in DOMAIN served /\ d <= t
    /\ \A c \in d .. t : Event("connected", c) \notin DOMAIN served

\* What the service can give now, from the first slot on and not beyond the
\* horizon.  A record that was not there in time must be inside the overlap,
\* or the loss of connection it waited for one that can be read as well.
Owed(first) ==
    LET floor == Max({first, now - Horizon}) IN
    {r \in DOMAIN served :
        /\ served[r] < now /\ r.at >= floor
        /\ \/ served[r] = r.at \/ r.at >= now - Overlap
           \/ \E d \in floor .. now : CutOff(d, r.at)}

\* reference and checked_after of a slot stay as they are until it completes.
OpenSlot ==
    /\ Idle /\ ~slot.open /\ now > slot.ref
    /\ LET start == CursorStart(now)
           first == IF slot.since = Never THEN start ELSE slot.since
       IN  slot' = [slot EXCEPT !.open = TRUE, !.ref = now, !.start = start,
                                !.since = first, !.owed = Owed(first)]
    /\ checked' = {}
    /\ UNCHANGED <<service, stored, coverage, cursors, hints, nextSource, recovery, run, faults>>

\* The beginning of _ensure_period.
Entered(r, phase, tag, start, end) ==
    [r EXCEPT !.phase = phase, !.tag = tag,
              !.queues = Queues(tag, start, end, slot.ref), !.win = hints,
              !.pos = 0, !.processed = {}, !.made = FALSE,
              !.next = nextSource, !.errors = FALSE]

\* A slip: coverage from before the connection was restored will do.
RecoveryUntagged(restore) == Ordinary

\* coverage_prefix of a recovery: what was read before it does not count.
RecoveryTag(restore) == restore + 1

ReplayStart == Max({0, recovery.start - Overlap})

Begin ==
    /\ Idle /\ slot.open
    /\ LET start == Min({slot.start, CursorStart(slot.ref)}
                          \cup IF recovery.start = Never THEN {} ELSE {ReplayStart})
           fresh == [NoRun EXCEPT !.left = MaxRequests, !.start = start]
       IN  run' = IF recovery.restore # Never
                  THEN Entered(fresh, "recover", RecoveryTag(recovery.restore),
                               ReplayStart, Min({slot.ref, recovery.restore + Overlap}))
                  ELSE Entered(fresh, "collect", Ordinary, start, slot.ref)
    /\ UNCHANGED <<service, tables, slot, faults>>

-----------------------------------------------------------------------------
(* One request of _ensure_period.                                          *)

Collecting == run.phase \in {"recover", "collect"}
Waiting == {s \in Sources : run.queues[s] # {}}

\* The sources in the order of this call.
Turn(k) == Order[((run.next + k) % Len(Order)) + 1]
Turns == 0 .. Len(Order) - 1

\* Every round asks each source once; a new round begins when one ends.
Due(k) == run.pos <= k /\ Turn(k) \in Waiting \ run.processed
RoundOver == \A k \in Turns : ~Due(k)
Processed == IF RoundOver THEN {} ELSE run.processed
Eligible(k) == IF RoundOver THEN Turn(k) \in Waiting ELSE Due(k)
Chosen(k) == Eligible(k) /\ \A j \in 0 .. k - 1 : ~Eligible(j)

FirstGap(queue) == CHOOSE gap \in queue : \A other \in queue : gap[1] <= other[1]
FirstWindow(s) ==
    LET gap == FirstGap(run.queues[s]) IN <<gap[1], Min({gap[1] + run.win[s], gap[2]})>>

\* History sources whose next window is the same go in the same request.
Bundle(s) ==
    {s} \cup IF s = "raw_events" THEN {}
             ELSE {other \in (Waiting \cap History) \ Processed :
                     FirstWindow(other) = FirstWindow(s)}

\* The queue without a window at its head.
After(queue, w) ==
    (queue \ {FirstGap(queue)})
        \cup IF w[2] < FirstGap(queue)[2] THEN {<<w[2], FirstGap(queue)[2]>>} ELSE {}

Answer(sources, w) ==
    {r \in DOMAIN served : r.source \in sources /\ r.at \in Units(w[1], w[2])}

\* A slip of write_window: an unsuccessful recheck replaces the row.
FailedErases(rows, keys) == rows \ keys

\* A failed recheck must not erase evidence of an earlier successful response.
FailedRows(rows, keys) == rows

\* Records, coverage and cursors of all sources of an answer, in one transaction.
\* The cursors of a recovery are those of its prefix, which nobody reads.
\* When the answer of the transaction is lost, a failure is recorded after it.
SaveAnswer(records, keys, lost) ==
    /\ stored' = stored \cup records
    /\ coverage' = IF lost THEN FailedRows(coverage \cup keys, keys) ELSE coverage \cup keys
    /\ checked' = IF lost THEN FailedRows(checked \cup keys, keys) ELSE checked \cup keys
    /\ cursors' = [s \in Sources |->
                     Max({cursors[s]} \cup
                         {k.hi : k \in {k \in keys : k.source = s /\ k.tag = Ordinary}})]

\* A slip of the rotation: every call begins with the same source.
AlwaysFirst(k) == run.next

\* next_source_value: the source after the one asked last.
Rotated(k) == (run.next + k + 1) % Len(Order)

Fails(sources) == \E s \in sources : Method(s) \in broken

\* The run after a request for window w of these sources at turn k.
Asked(k, w, sources) ==
    [run EXCEPT
        !.queues = [s \in Sources |-> IF s \in sources THEN After(@[s], w) ELSE @[s]],
        !.pos = k + 1, !.processed = Processed \cup sources,
        !.left = @ - 1, !.made = TRUE, !.last = Rotated(k)]

TooMany(answer) == Cardinality(answer) > Limit
Keys(sources, w) == {Row(run.tag, s, w) : s \in sources}

\* No answer, no successful one, or one second with too many records.
Failing(k, w, sources) ==
    /\ \/ /\ Fails(sources) \/ (TooMany(Answer(sources, w)) /\ w[2] - w[1] <= 1)
          /\ UNCHANGED faults
       \/ faults < MaxFaults /\ faults' = faults + 1
    /\ run' = [Asked(k, w, sources) EXCEPT !.errors = TRUE]
    /\ coverage' = FailedRows(coverage, Keys(sources, w))
    /\ checked' = FailedRows(checked, Keys(sources, w))
    /\ UNCHANGED <<stored, cursors, hints>>

\* Too many for one transaction: both halves, and a lesson for later.
Splitting(k, w, sources) ==
    LET middle == w[1] + (w[2] - w[1]) \div 2
        asked == Asked(k, w, sources)
    IN  /\ ~Fails(sources) /\ TooMany(Answer(sources, w)) /\ w[2] - w[1] > 1
        /\ hints' = [s \in Sources |-> IF s \in sources THEN middle - w[1] ELSE hints[s]]
        /\ run' = [asked EXCEPT !.queues = [s \in Sources |->
               @[s] \cup IF s \in sources THEN {<<w[1], middle>>, <<middle, w[2]>>} ELSE {}]]
        /\ UNCHANGED <<stored, coverage, checked, cursors, faults>>

\* Stored, and the answer of the transaction may be lost.
Storing(k, w, sources) ==
    /\ ~Fails(sources) /\ ~TooMany(Answer(sources, w))
    /\ \E lost \in BOOLEAN :
          /\ lost => faults < MaxFaults
          /\ SaveAnswer(Answer(sources, w), Keys(sources, w), lost)
          /\ run' = [Asked(k, w, sources) EXCEPT !.errors = @ \/ lost]
          /\ faults' = IF lost THEN faults + 1 ELSE faults
    /\ UNCHANGED hints

Request ==
    /\ Collecting /\ run.left > 0 /\ Waiting # {}
    /\ \E k \in {k \in Turns : Chosen(k)} :
         \E w \in {FirstWindow(Turn(k))}, sources \in {Bundle(Turn(k))} :
            Failing(k, w, sources) \/ Splitting(k, w, sources) \/ Storing(k, w, sources)
    /\ UNCHANGED <<service, nextSource, recovery, slot>>

-----------------------------------------------------------------------------
(* The end of _ensure_period and of sync.                                  *)

\* A sample at or after the moment the connection was restored.
Alive == \E r \in stored : r.source \in History /\ r.at \in recovery.restore .. slot.ref

Ended == run.left = 0 \/ Waiting = {}
Whole == Waiting = {} /\ ~run.errors

EndRecovery ==
    /\ run.phase = "recover" /\ Ended
    /\ nextSource' = IF run.made THEN run.last ELSE nextSource
    /\ recovery' = IF Whole /\ Alive
                   THEN [recovery EXCEPT !.handled = recovery.restore,
                                         !.start = Never, !.restore = Never]
                   ELSE recovery
    /\ run' = IF run.left = 0 THEN [run EXCEPT !.phase = "record", !.complete = FALSE]
              ELSE [run EXCEPT !.phase = "between", !.complete = Whole /\ Alive]
    /\ UNCHANGED <<service, stored, coverage, checked, cursors, hints, slot, faults>>

EnterOrdinary ==
    /\ run.phase = "between"
    /\ run' = Entered(run, "collect", Ordinary, run.start, slot.ref)
    /\ UNCHANGED <<service, tables, slot, faults>>

EndCollection ==
    /\ run.phase = "collect" /\ Ended
    /\ nextSource' = IF run.made THEN run.last ELSE nextSource
    /\ run' = [run EXCEPT !.phase = "record", !.complete = @ /\ Whole]
    /\ UNCHANGED <<service, stored, coverage, checked, cursors, hints, recovery, slot, faults>>

\* _record_connection_events over the events in YDB since the run's start,
\* one after the other; the state is read before and saved after it.
LoadEvents ==
    /\ run.phase = "record"
    /\ run' = [run EXCEPT !.phase = "note", !.noted = recovery,
                  !.events = {r \in stored : r.source = "raw_events"
                                             /\ r.at \in Units(run.start, slot.ref)}]
    /\ UNCHANGED <<service, tables, slot, faults>>

Before(a, b) ==
    \/ a.at < b.at
    \/ a.at = b.at /\ (a.type = "disconnected" \/ b.type # "disconnected")

Earliest(times) == Min(times \ {Never})

Noting(state, event) ==
    CASE event.type = "disconnected" ->
            [state EXCEPT !.open = Earliest({state.open, event.at})]
      [] event.type = "connected" /\ state.open \in 0 .. event.at ->
            [state EXCEPT !.start = Earliest({state.start, state.open}),
                          !.restore = event.at, !.open = Never]
      [] OTHER -> state

\* A slip: a restored connection is noticed again after it was handled.
NotedAgain(state, event) == IF event.at <= state.restore THEN state ELSE Noting(state, event)

\* Events already accounted for are ignored; the oldest lost connection counts.
Noted(state, event) ==
    IF event.at <= state.handled \/ event.at <= state.restore THEN state
    ELSE Noting(state, event)

NoteEvent ==
    /\ run.phase = "note"
    /\ \E event \in run.events :
         /\ \A other \in run.events : Before(event, other)
         /\ run' = [run EXCEPT !.noted = Noted(@, event), !.events = @ \ {event}]
    /\ UNCHANGED <<service, tables, slot, faults>>

RecordEvents ==
    /\ run.phase = "note" /\ run.events = {}
    /\ recovery' = run.noted
    /\ run' = [run EXCEPT !.phase = "done", !.complete = @ /\ run.noted.restore = Never]
    /\ UNCHANGED <<service, stored, coverage, checked, cursors, hints, nextSource, slot, faults>>

\* The scheduler forgets a slot that is complete and keeps any other.
Finish ==
    /\ run.phase = "done"
    /\ run' = NoRun
    /\ slot' = IF run.complete THEN [slot EXCEPT !.open = FALSE, !.done = slot.ref, !.owed = {}]
               ELSE slot
    /\ UNCHANGED <<service, tables, faults>>

\* The call runs into its deadline, or is killed.
Stop ==
    /\ Collecting /\ run.left > 0 /\ faults < MaxFaults
    /\ run' = [run EXCEPT !.left = 0]
    /\ faults' = faults + 1
    /\ UNCHANGED <<service, tables, slot>>

Crash ==
    /\ ~Idle /\ faults < MaxFaults
    /\ run' = NoRun
    /\ faults' = faults + 1
    /\ UNCHANGED <<service, tables, slot>>

-----------------------------------------------------------------------------
Sync == Begin \/ Request \/ EndRecovery \/ EnterOrdinary \/ EndCollection
            \/ LoadEvents \/ NoteEvent \/ RecordEvents
Work == OpenSlot \/ Sync \/ Finish
Device == Tick \/ Arrive \/ Disconnect \/ Reconnect
Next == Work \/ Device \/ Stop \/ Crash

Spec == Init /\ [][Next]_vars

\* The timer goes on starting runs, and a run goes on.
FairSpec == Spec /\ WF_vars(Work)

-----------------------------------------------------------------------------
Times == Never .. MaxTime
Records == {Record(s, t) : s \in History, t \in 0 .. MaxTime}
              \cup {Event(type, t) : type \in {"disconnected", "connected"}, t \in 0 .. MaxTime}
Rows == [tag : 0 .. MaxTime + 1, source : Sources, lo : 0 .. MaxTime, hi : 0 .. MaxTime]
Recoveries == [open : Times, start : Times, restore : Times, handled : Times]
Slots == [open : BOOLEAN, ref : 0 .. MaxTime, start : 0 .. MaxTime, since : Times,
          done : Times, owed : SUBSET Records]
Phases == {"idle", "recover", "between", "collect", "record", "note", "done"}
Runs == [phase : Phases, tag : 0 .. MaxTime + 1, start : 0 .. MaxTime,
         queues : [Sources -> SUBSET ((0 .. MaxTime) \X (0 .. MaxTime))],
         win : [Sources -> 1 .. Window], pos : 0 .. Len(Order), processed : SUBSET Sources,
         left : 0 .. MaxRequests, made : BOOLEAN, next : Turns, last : Turns,
         errors : BOOLEAN, complete : BOOLEAN, events : SUBSET Records, noted : Recoveries]

TypeOK ==
    /\ now \in 0 .. MaxTime /\ link \in {"up", "down"}
    /\ outages \in 0 .. MaxOutages /\ faults \in 0 .. MaxFaults
    /\ DOMAIN served \subseteq Records /\ served \in [DOMAIN served -> 0 .. MaxTime]
    /\ buffered \subseteq Records \ DOMAIN served
    /\ stored \subseteq DOMAIN served
    /\ coverage \subseteq Rows /\ checked \subseteq coverage
    /\ cursors \in [Sources -> Times] /\ hints \in [Sources -> 1 .. Window]
    /\ nextSource \in Turns
    /\ recovery \in Recoveries /\ slot \in Slots /\ run \in Runs

\* A slot that the scheduler takes for complete has stored every record that
\* the service could serve when the slot was opened, those of a lost connection
\* included: the overlap, the coverage and the recovery leave no gap.
NothingLost == [][slot.open /\ ~slot'.open => slot.owed \subseteq stored]_vars

\* No failure, repetition or recovery takes back what is known to be stored.
CoverageGrows ==
    [][/\ coverage \subseteq coverage'
       /\ \A s \in Sources : cursors[s] <= cursors'[s]
       /\ recovery.handled <= recovery'.handled]_vars

\* Nothing of the time between the reconnection and the reference of the slot
\* was there when the slot was opened.
Silent ==
    /\ slot.open /\ recovery.restore # Never
    /\ \A r \in DOMAIN served :
          r.source \in History /\ r.at \in recovery.restore .. slot.ref - 1 => served[r] >= slot.ref

\* With a service that answers, every slot completes, unless the device was
\* silent between its reconnection and the reference of the slot.
SlotsComplete == broken = {} => []<>(~slot.open \/ Silent)

\* A method that always fails does not keep the sources of the other from
\* being collected.
OthersArrive ==
    [](slot.open => <>(~slot.open \/ recovery.restore # Never \/ \A s \in Sources :
        Method(s) \in broken \/ Units(slot.start, slot.ref) \ (0 .. slot.ref - Horizon - 1)
                                    \subseteq Covered(Ordinary, s)))

\* A recovery is closed "after successful requests and the appearance of valid
\* telemetry after the restoration" (docs/reports/report-sync-reliability.md):
\* with a service that answers, none stays pending while there is telemetry
\* that was measured since.
RecoveryCloses ==
    broken = {} => []<>(~\E r \in DOMAIN served :
        recovery.restore # Never /\ r.source \in History /\ r.at >= recovery.restore)
=============================================================================
