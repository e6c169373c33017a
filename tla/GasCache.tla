------------------------------ MODULE GasCache ------------------------------
(***************************************************************************)
(* The cached statistics of the gas calculation and the fingerprints of    *)
(* telemetry (application/gas.py:GasService.window, _slice,                *)
(* _statistics_dependency, _flush_exposures; adapters/ydb/                 *)
(* period_revisions.py), while the collector stores samples.               *)
(*                                                                         *)
(* A window is a range of local days; its samples reach FRESHNESS into the *)
(* days around it, and a set point may come from any earlier day.  Every   *)
(* transaction of the collector that changes something marks the day.      *)
(***************************************************************************)
EXTENDS Integers, FiniteSets, FiniteSetsExt, Functions

CONSTANTS
    Calculations,   \* calls that may run at the same time
    MaxDay,         \* bound: days 0 .. MaxDay
    Values,         \* what a day's samples amount to; None if there are none
    MaxChanges,     \* bound: transactions of the collector
    MaxRuns         \* bound: calculations begun

None == 0
Whole == 0 .. MaxDay
Asked == {w \in Whole \X Whole : 0 < w[1] /\ w[1] <= w[2] /\ w[2] < MaxDay}

VARIABLES
    content,   \* day -> samples
    marker,    \* day -> revision of its last change: app_meta "telemetry-day:"
    revision,  \* gas_input_revision
    cache,     \* app_meta: window or slice -> snapshot
    prints,    \* app_meta "telemetry-period-revision:"
    calc,      \* the calculations
    runs

cacheVars == <<content, marker, revision, cache, prints, calc, runs>>

Idle == [pc |-> "idle", win |-> <<0, 0>>, rev |-> 0, marks |-> <<>>, held |-> None,
         days |-> {}, sum |-> <<>>, pending |-> <<>>, answer |-> <<>>, then |-> <<>>]

CacheInit ==
    /\ content = [d \in Whole |-> None] /\ marker = [d \in Whole |-> None] /\ revision = 0
    /\ cache = <<>> /\ prints = <<>> /\ calc = [c \in Calculations |-> Idle] /\ runs = 0

\* The collector stores samples of a day; the same ones change nothing.
Store ==
    /\ revision < MaxChanges
    /\ \E d \in Whole : \E v \in Values \ {content[d]} :
          /\ content' = [content EXCEPT ![d] = v]
          /\ marker' = [marker EXCEPT ![d] = revision + 1] /\ revision' = revision + 1
    /\ UNCHANGED <<cache, prints, calc, runs>>

-----------------------------------------------------------------------------
Reach(w) == w[1] - 1 .. w[2] + 1

\* _statistics_dependency: markers, and the set point that held before.
Marks(w) == Restrict(marker, Reach(w))
HeldIn(days, w) ==
    LET ds == {d \in Whole : d < w[1] - 1 /\ days[d] # None}
    IN  IF ds = {} THEN None ELSE days[Max(ds)]
HeldBefore(w) == HeldIn(content, w)

\* What the samples really say of a window.
Truth(days, w) == <<Restrict(days, w[1] - 1 .. w[2] + 1), HeldIn(days, w)>>

Now(c) == calc[c]
With(f, k, v) == [x \in DOMAIN f \cup {k} |-> IF x = k THEN v ELSE f[x]]

\* The input revision is captured when the service is made; `then` is a
\* history variable.
Begin(c) ==
    /\ Now(c).pc = "idle" /\ runs < MaxRuns /\ runs' = runs + 1
    /\ \E w \in Asked, pc \in {"lookup", "print"} :
          calc' = [calc EXCEPT ![c] = [Idle EXCEPT !.pc = pc, !.win = w, !.rev = revision,
                                                !.then = content]]
    /\ UNCHANGED <<content, marker, revision, cache, prints>>

Done(c, answer) == [Now(c) EXCEPT !.pc = "flush", !.answer = answer]
Give(c, next) == calc' = [calc EXCEPT ![c] = next]
Unchanged == UNCHANGED <<content, marker, revision, cache, prints, runs>>

\* window: a snapshot of the same inputs is taken as it is, ...
Hit(c, w) == w \in DOMAIN cache /\ cache[w].rev = Now(c).rev
LookUp(c) ==
    /\ Now(c).pc = "lookup"
    /\ IF Hit(c, Now(c).win) THEN Give(c, Done(c, cache[Now(c).win].value))
       ELSE Give(c, [Now(c) EXCEPT !.pc = "depend"])
    /\ Unchanged

\* ... one whose days have not changed is taken over, ...
Snapshot(c, marks, held, value) == [rev |-> Now(c).rev, marks |-> marks, held |-> held, value |-> value]
Depend(c) ==
    /\ Now(c).pc = "depend"
    /\ LET w == Now(c).win
           marks == Marks(w)
           held == HeldBefore(w)
       IN  IF w \in DOMAIN cache /\ cache[w].marks = marks /\ cache[w].held = held
           THEN Give(c, [Done(c, cache[w].value) EXCEPT
                           !.pending = With(<<>>, w, Snapshot(c, marks, held, cache[w].value))])
           ELSE Give(c, [Now(c) EXCEPT !.pc = "read", !.marks = marks, !.held = held,
                                       !.days = w[1] - 1 .. w[2] + 1])
    /\ Unchanged

\* ... and otherwise the samples are read, day by day.
ReadDay(c) ==
    /\ Now(c).pc = "read"
    /\ \E d \in Now(c).days :
          LET sum == With(Now(c).sum, d, content[d])
              value == <<sum, Now(c).held>>
              rest == Now(c).days \ {d}
          IN  Give(c, IF rest # {} THEN [Now(c) EXCEPT !.sum = sum, !.days = rest]
                      ELSE [Done(c, value) EXCEPT
                              !.pending = With(<<>>, Now(c).win,
                                              Snapshot(c, Now(c).marks, Now(c).held, value))])
    /\ Unchanged

\* A slip: what was calculated is stored whatever has changed.
Unfenced(c) == TRUE
\* _assert_input_revision.
Current(c) == revision = Now(c).rev

\* _flush_exposures: the snapshots are stored one by one between two looks at
\* the input revision; the second one only withholds the answer.
Flush(c) ==
    /\ Now(c).pc = "flush"
    /\ Give(c, IF ~Current(c) THEN Idle
               ELSE [Now(c) EXCEPT !.pc = IF Now(c).pending = <<>> THEN "check" ELSE "store"])
    /\ Unchanged
StoreEntry(c) ==
    /\ Now(c).pc = "store"
    /\ \E w \in DOMAIN Now(c).pending : cache' = With(cache, w, Now(c).pending[w])
    /\ Give(c, [Now(c) EXCEPT !.pc = "check", !.pending = <<>>])
    /\ UNCHANGED <<content, marker, revision, prints, runs>>
Check(c) ==
    /\ Now(c).pc = "check"
    /\ Give(c, IF Current(c) THEN [Now(c) EXCEPT !.pc = "answered"] ELSE Idle)
    /\ Unchanged
Return(c) == Now(c).pc = "answered" /\ Give(c, Idle) /\ Unchanged

-----------------------------------------------------------------------------
(* period_data_revisions: content fingerprints that survive a change which *)
(* leaves the window as it was.                                            *)

PrintMarks(w) == Restrict(marker, w[1] .. w[2])
PrintTruth(days, w) == Restrict(days, w[1] .. w[2])

ReadMarks(c) ==
    /\ Now(c).pc = "print"
    /\ LET w == Now(c).win
           marks == PrintMarks(w)
       IN  IF w \in DOMAIN prints /\ prints[w].marks = marks
           THEN Give(c, [Now(c) EXCEPT !.pc = "printed", !.answer = prints[w].value])
           ELSE Give(c, [Now(c) EXCEPT !.pc = "scan", !.marks = marks, !.days = w[1] .. w[2]])
    /\ Unchanged
Scan(c) ==
    /\ Now(c).pc = "scan"
    /\ \E d \in Now(c).days :
          LET sum == With(Now(c).sum, d, content[d])
          IN  Give(c, [Now(c) EXCEPT !.sum = sum, !.days = @ \ {d},
                                     !.pc = IF @ = "scan" /\ Now(c).days = {d} THEN "save" ELSE @])
    /\ Unchanged
\* One transaction looks at the revision and stores.
SavePrint(c) ==
    /\ Now(c).pc = "save"
    /\ IF Current(c)
       THEN /\ prints' = With(prints, Now(c).win, [marks |-> Now(c).marks, value |-> Now(c).sum])
            /\ Give(c, [Now(c) EXCEPT !.pc = "printed", !.answer = Now(c).sum])
       ELSE prints' = prints /\ Give(c, Idle)
    /\ UNCHANGED <<content, marker, revision, cache, runs>>
CheckPrint(c) ==
    /\ Now(c).pc = "printed"
    /\ Give(c, IF Current(c) THEN [Now(c) EXCEPT !.pc = "fingerprinted"] ELSE Idle)
    /\ Unchanged
ReturnPrint(c) == Now(c).pc = "fingerprinted" /\ Give(c, Idle) /\ Unchanged

\* The call is killed; what it has stored remains.
Kill(c) == Now(c).pc \notin {"idle", "lookup", "print"} /\ Give(c, Idle) /\ Unchanged

CacheNext ==
    \/ Store
    \/ \E c \in Calculations :
          \/ Begin(c) \/ LookUp(c) \/ Depend(c) \/ ReadDay(c)
          \/ Flush(c) \/ StoreEntry(c) \/ Check(c) \/ Return(c)
          \/ ReadMarks(c) \/ Scan(c) \/ SavePrint(c) \/ CheckPrint(c) \/ ReturnPrint(c) \/ Kill(c)

CacheSpec == CacheInit /\ [][CacheNext]_cacheVars

-----------------------------------------------------------------------------
\* An answer is what the samples said at the revision that was captured with
\* the readings, tariffs and profile, whether it was read day by day, found or
\* taken over, and whatever was stored between the reads.
AnswersAreTrue ==
    \A c \in Calculations :
        /\ Now(c).pc \in {"store", "check", "answered"} => Now(c).answer = Truth(Now(c).then, Now(c).win)
        /\ Now(c).pc = "fingerprinted" => Now(c).answer = PrintTruth(Now(c).then, Now(c).win)

\* A snapshot or a fingerprint that a calculation begun now would accept says
\* what it would calculate, although calculations are killed, overtaken by
\* the collector and store their entries outside of any transaction.
CacheIsTrue ==
    /\ \A w \in DOMAIN cache :
          \/ cache[w].rev = revision
          \/ cache[w].marks = Marks(w) /\ cache[w].held = HeldBefore(w)
          => cache[w].value = Truth(content, w)
    /\ \A w \in DOMAIN prints : prints[w].marks = PrintMarks(w) => prints[w].value = PrintTruth(content, w)
=============================================================================
