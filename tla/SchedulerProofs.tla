-------------------------- MODULE SchedulerProofs ---------------------------
(***************************************************************************)
(* Proofs about cloud/scheduler.py:ProductionScheduler, for every number   *)
(* of invocations, lanes, spans, limits and days: a period is in work or   *)
(* deferred once, a long season begins whole, and work that was begun is   *)
(* kept until its report is stored.                                        *)
(*                                                                         *)
(* All of it rests on the fence of save: what an invocation that still     *)
(* holds the lease has in its memory is what is saved (Fenced), so a step  *)
(* that is harmless for the memory is harmless for the checkpoint; and     *)
(* what an invocation that lost its lease has in mind does not matter.     *)
(***************************************************************************)
EXTENDS Scheduler, WellFoundedInduction, TLAPS

\* The item in work and the deferred ones are of different periods.
Apart(item, deferred) ==
    /\ \A j, k \in DOMAIN deferred : deferred[j].period = deferred[k].period => j = k
    /\ \A k \in DOMAIN deferred : deferred[k].period # item.period

Once(mem) == \A l \in ReportLanes : Apart(mem.pending[l], mem.deferred[l])

\* A long season is ripe when the daily reports it consumes are stored.
Ripe(l, period) == l \in Long => DaysOf(l, period, day) \subseteq stored["daily"]
Whole(mem) == \A l \in ReportLanes : \A item \in WorkOf(mem, l) : Ripe(l, item.period)

\* Nothing in work is forgotten: the next state of WorkIsKept, and the same
\* between two states in memory.
Keeps(old, new) ==
    \A l \in ReportLanes : \A item \in WorkOf(old, l) :
        item \in WorkOf(new, l) \/ item.period \in stored[l]
Kept ==
    \A l \in ReportLanes : \A item \in WorkOf(saved, l) :
        item \in WorkOf(saved', l) \/ item.period \in stored'[l]

\* A call whose lane has its turn: what it runs is its lane's item in work,
\* and when the run is done its report is stored.
Turning(i) ==
    /\ inv[i].step \in {"work", "run", "done"} => inv[i].turns < Len(Lanes)
    /\ inv[i].step \in {"run", "done"} =>
          Lane(i) \in ReportLanes /\ Mem(i).pending[Lane(i)] # NoItem
    /\ At(i, "done") => Mem(i).pending[Lane(i)].period \in stored[Lane(i)]

\* The holder of the lease knows what is saved.
Fenced(i) == holder = i /\ inv[i].step \notin {"idle", "release"} => Mem(i) = saved

\* The inductive invariant.
Inv ==
    /\ TypeOK
    /\ Once(saved) /\ Whole(saved)
    /\ \A i \in Invocations : Turning(i) /\ Fenced(i)

-----------------------------------------------------------------------------
(* Numbers, sequences and sets.                                            *)

LEMMA LeastOf ==
    ASSUME NEW S \in SUBSET Nat, S # {}
    PROVE  \E x \in S : \A y \in S : x <= y
<1>1. \E x \in S : \A y \in S : <<y, x>> \notin OpToRel(<, Nat)
  BY NatLessThanWellFounded, WFMin
<1>2. \A x, y \in Nat : <<y, x>> \notin OpToRel(<, Nat) => x <= y
  BY DEF OpToRel
<1>3. QED
  BY <1>1, <1>2

LEMMA MinOf ==
    ASSUME NEW S \in SUBSET Nat, S # {}
    PROVE  Min(S) \in S /\ \A y \in S : Min(S) <= y
BY LeastOf DEF Min

LEMMA MaxOf ==
    ASSUME NEW n \in Nat, NEW S \in SUBSET (0 .. n), S # {}
    PROVE  Max(S) \in S /\ \A y \in S : Max(S) >= y
<1> DEFINE below == {n - x : x \in S}
<1>1. below \in SUBSET Nat /\ below # {}
  <2>1. PICK x \in S : TRUE
    OBVIOUS
  <2>2. n - x \in below
    OBVIOUS
  <2>3. \A y \in S : n - y \in Nat
    OBVIOUS
  <2>4. QED
    BY <2>2, <2>3
<1>2. PICK b \in below : \A y \in below : b <= y
  BY <1>1, LeastOf
<1>3. PICK x \in S : b = n - x
  OBVIOUS
<1>4. \A y \in S : x >= y
  BY <1>2, <1>3
<1>5. QED
  BY <1>4 DEF Max

LEMMA Quotients ==
    ASSUME NEW a \in Nat, NEW b \in Nat \ {0}
    PROVE  a \div b \in 0 .. a /\ a % b \in 0 .. b - 1
OBVIOUS

LEMMA RemoveAtValue ==
    ASSUME NEW S, NEW s \in Seq(S), NEW i \in DOMAIN s
    PROVE  /\ RemoveAt(s, i) \in Seq(S)
           /\ Len(RemoveAt(s, i)) = Len(s) - 1
           /\ \A k \in 1 .. Len(s) - 1 : RemoveAt(s, i)[k] = IF k < i THEN s[k] ELSE s[k + 1]
<1> DEFINE front == SubSeq(s, 1, i - 1)
           back == SubSeq(s, i + 1, Len(s))
<1>1. front \in Seq(S) /\ Len(front) = i - 1 /\ \A k \in 1 .. i - 1 : front[k] = s[k]
  OBVIOUS
<1>2. /\ back \in Seq(S) /\ Len(back) = Len(s) - i
      /\ \A k \in 1 .. Len(s) - i : back[k] = s[i + k]
  OBVIOUS
<1>3. RemoveAt(s, i) = front \o back
  BY DEF RemoveAt
<1> HIDE DEF front, back
<1>4. /\ RemoveAt(s, i) \in Seq(S) /\ Len(RemoveAt(s, i)) = Len(s) - 1
  BY <1>1, <1>2, <1>3
<1>5. ASSUME NEW k \in 1 .. Len(s) - 1
      PROVE  RemoveAt(s, i)[k] = IF k < i THEN s[k] ELSE s[k + 1]
  <2>1. CASE k < i
    BY <1>1, <1>2, <1>3, <2>1
  <2>2. CASE k >= i
    <3>1. RemoveAt(s, i)[k] = back[k - (i - 1)]
      <4>1. front \in Seq(S) /\ back \in Seq(S)
        BY <1>1, <1>2
      <4>2. Len(front) = i - 1 /\ k \in 1 .. Len(front) + Len(back) /\ k > Len(front)
        BY <1>1, <1>2, <2>2
      <4>3. (front \o back)[k] = back[k - Len(front)]
        BY <4>1, <4>2
      <4>4. QED
        BY <1>3, <4>2, <4>3
    <3>2. k - (i - 1) \in 1 .. Len(s) - i
      BY <2>2
    <3>3. QED
      BY <1>2, <3>1, <3>2, <2>2
  <2>3. QED
    BY <2>1, <2>2
<1>6. QED
  BY <1>4, <1>5

-----------------------------------------------------------------------------
(* The work of one lane: an item in work and a sequence of deferred ones.  *)

Entries(item, deferred) == ({item} \cup Range(deferred)) \ {NoItem}

LEMMA NoItemFacts == NoItem \notin Items /\ NoItem.period = 0
BY DEF NoItem, NoPeriod, Items

\* A period is chosen.
LEMMA ChosenOnce ==
    ASSUME NEW s \in Seq(Items), NEW x \in Items, Apart(NoItem, s),
           \A k \in DOMAIN s : s[k].period # x.period
    PROVE  Apart(x, s) /\ Entries(x, s) = Entries(NoItem, s) \cup {x}
BY NoItemFacts DEF Apart, Entries

\* It is forgotten.
LEMMA ForgottenOnce ==
    ASSUME NEW s \in Seq(Items), NEW x \in Items, Apart(x, s)
    PROVE  Apart(NoItem, s) /\ Entries(x, s) = Entries(NoItem, s) \cup {x}
<1>1. \A k \in DOMAIN s : s[k] \in Items
  OBVIOUS
<1>2. QED
  BY <1>1, NoItemFacts DEF Apart, Entries, Items

\* It is deferred, or displaced by another one.
LEMMA DeferredEntries ==
    ASSUME NEW s \in Seq(Items), NEW x \in Items
    PROVE  /\ Range(Append(s, x)) = Range(s) \cup {x}
           /\ Entries(NoItem, Append(s, x)) = Entries(x, s)
<1>1. /\ Len(Append(s, x)) = Len(s) + 1
      /\ \A k \in 1 .. Len(s) : Append(s, x)[k] = s[k]
      /\ Append(s, x)[Len(s) + 1] = x
  OBVIOUS
<1>2. /\ DOMAIN s = 1 .. Len(s) /\ DOMAIN Append(s, x) = 1 .. Len(s) + 1
      /\ Len(s) \in Nat
  BY <1>1
<1>3. Range(Append(s, x)) = Range(s) \cup {x}
  <2>1. \A k \in DOMAIN s : k \in DOMAIN Append(s, x) /\ Append(s, x)[k] = s[k]
    BY <1>1, <1>2
  <2>2. Len(s) + 1 \in DOMAIN Append(s, x)
    BY <1>2
  <2>3. \A k \in DOMAIN Append(s, x) : k \in DOMAIN s \/ k = Len(s) + 1
    BY <1>2
  <2>4. QED
    BY <1>1, <2>1, <2>2, <2>3 DEF Range
<1>4. QED
  BY <1>3 DEF Entries

LEMMA DeferredOnce ==
    ASSUME NEW s \in Seq(Items), NEW x \in Items, Apart(x, s)
    PROVE  /\ Append(s, x) \in Seq(Items)
           /\ Apart(NoItem, Append(s, x))
           /\ Entries(NoItem, Append(s, x)) = Entries(x, s)
<1>1. /\ Append(s, x) \in Seq(Items) /\ Len(Append(s, x)) = Len(s) + 1
      /\ \A k \in 1 .. Len(s) : Append(s, x)[k] = s[k]
      /\ Append(s, x)[Len(s) + 1] = x
  OBVIOUS
<1>2. DOMAIN s = 1 .. Len(s) /\ DOMAIN Append(s, x) = 1 .. Len(s) + 1 /\ Len(s) \in Nat
  BY <1>1
<1>3. \A k \in DOMAIN Append(s, x) : Append(s, x)[k] \in Items
  BY <1>1
<1>4. \A k \in DOMAIN Append(s, x) : Append(s, x)[k].period # NoItem.period
  BY <1>3, NoItemFacts DEF Items
<1>5. ASSUME NEW j \in DOMAIN Append(s, x), NEW k \in DOMAIN Append(s, x),
             Append(s, x)[j].period = Append(s, x)[k].period
      PROVE  j = k
  <2>1. \A l \in DOMAIN Append(s, x) : l \in DOMAIN s \/ l = Len(s) + 1
    BY <1>2
  <2>2. QED
    BY <1>1, <1>2, <1>5, <2>1 DEF Apart
<1>6. QED
  BY <1>1, <1>4, <1>5, DeferredEntries DEF Apart

\* A deferred one is taken up again.
LEMMA RetriedOnce ==
    ASSUME NEW s \in Seq(Items), NEW k \in DOMAIN s
    PROVE  /\ RemoveAt(s, k) \in Seq(Items) /\ s[k] \in Items
           /\ Entries(s[k], RemoveAt(s, k)) = Entries(NoItem, s)
           /\ Apart(NoItem, s) => Apart(s[k], RemoveAt(s, k))
<1> DEFINE r == RemoveAt(s, k)
<1>1. /\ r \in Seq(Items) /\ Len(r) = Len(s) - 1 /\ s[k] \in Items
      /\ \A j \in 1 .. Len(s) - 1 : r[j] = IF j < k THEN s[j] ELSE s[j + 1]
  <2>1. s[k] \in Items
    OBVIOUS
  <2>2. QED
    BY ONLY <2>1, RemoveAtValue, s \in Seq(Items), k \in DOMAIN s
<1>2. DOMAIN s = 1 .. Len(s) /\ DOMAIN r = 1 .. Len(s) - 1 /\ Len(s) \in Nat /\ k \in Nat
  BY <1>1
<1> HIDE DEF r
<1> DEFINE from(j) == IF j < k THEN j ELSE j + 1
<1>3. \A j \in DOMAIN r : from(j) \in DOMAIN s /\ from(j) # k /\ r[j] = s[from(j)]
  BY <1>1, <1>2
<1>4. \A i, j \in DOMAIN r : from(i) = from(j) => i = j
  BY <1>2
<1>5. \A j \in DOMAIN s : j # k => \E i \in DOMAIN r : j = from(i)
  <2> SUFFICES ASSUME NEW j \in DOMAIN s, j # k
               PROVE  \E i \in DOMAIN r : j = from(i)
    OBVIOUS
  <2>1. CASE j < k
    BY <1>2, <2>1
  <2>2. CASE j > k
    <3>1. j - 1 \in DOMAIN r /\ j = from(j - 1)
      BY <1>2, <2>2
    <3>2. QED
      BY <3>1
  <2>3. QED
    BY <1>2, <2>1, <2>2
<1> HIDE DEF from
<1>6. Apart(NoItem, s) => Apart(s[k], r)
  BY <1>3, <1>4 DEF Apart
<1>7. {s[k]} \cup Range(r) = Range(s)
  BY <1>3, <1>5 DEF Range
<1>8. QED
  BY <1>1, <1>6, <1>7 DEF Entries, r

-----------------------------------------------------------------------------
(* States.                                                                 *)

LEMMA Constants ==
    /\ Len(Lanes) \in Nat \ {0}
    /\ ScanLimit \in Nat \ {0} /\ Catchup \in Nat \ {0} /\ MaxDay \in Nat \ {0}
    /\ "daily" \in ReportLanes /\ "daily" \notin Long /\ Long \subseteq ReportLanes
    /\ \A l \in ReportLanes : Span[l] \in Nat \ {0}
BY LanesAssumption, LimitsAssumption

LEMMA WorkIsEntries ==
    ASSUME NEW mem, NEW l
    PROVE  WorkOf(mem, l) = Entries(mem.pending[l], mem.deferred[l])
BY DEF WorkOf, Entries

\* What a state looks like after the work of a lane has changed.
Changed(mem, l, item, deferred) ==
    [mem EXCEPT !.pending[l] = item, !.deferred[l] = deferred]

LEMMA LaneValue ==
    ASSUME NEW mem \in States, NEW l \in ReportLanes,
           NEW item \in Items \cup {NoItem}, NEW deferred \in Seq(Items),
           NEW new, new = Changed(mem, l, item, deferred)
    PROVE  /\ new \in States
           /\ new.pending[l] = item /\ new.deferred[l] = deferred
           /\ \A k \in ReportLanes : k # l =>
                 new.pending[k] = mem.pending[k] /\ new.deferred[k] = mem.deferred[k]
<1> DEFINE pending == [mem.pending EXCEPT ![l] = item]
           others == [mem.deferred EXCEPT ![l] = deferred]
<1>1. new = [mem EXCEPT !.pending = pending, !.deferred = others]
  BY DEF Changed
<1>2. /\ mem.pending \in [ReportLanes -> Items \cup {NoItem}]
      /\ mem.deferred \in [ReportLanes -> Seq(Items)]
  BY DEF States
<1>3. /\ pending \in [ReportLanes -> Items \cup {NoItem}]
      /\ others \in [ReportLanes -> Seq(Items)]
      /\ pending[l] = item /\ others[l] = deferred
      /\ \A k \in ReportLanes : k # l => pending[k] = mem.pending[k] /\ others[k] = mem.deferred[k]
  BY <1>2
<1> HIDE DEF pending, others
<1>4. new \in States /\ new.pending = pending /\ new.deferred = others
  BY <1>1, <1>3 DEF States
<1>5. QED
  BY <1>3, <1>4

\* Only the item in work changes.
LEMMA UnchangedDeferred ==
    ASSUME NEW mem \in States, NEW l \in ReportLanes, NEW item
    PROVE  [mem EXCEPT !.pending[l] = item] = Changed(mem, l, item, mem.deferred[l])
<1>1. [mem.deferred EXCEPT ![l] = mem.deferred[l]] = mem.deferred
  BY DEF States
<1>2. QED
  BY <1>1 DEF Changed, States

\* One lane changes as it may; the others stand still.
LEMMA LaneChanges ==
    ASSUME NEW mem, NEW new, Once(mem), Whole(mem), NEW l \in ReportLanes,
           \A k \in ReportLanes : k # l =>
               new.pending[k] = mem.pending[k] /\ new.deferred[k] = mem.deferred[k],
           Apart(new.pending[l], new.deferred[l]),
           \A item \in WorkOf(mem, l) : item \in WorkOf(new, l) \/ item.period \in stored[l],
           \A item \in WorkOf(new, l) : item \in WorkOf(mem, l) \/ Ripe(l, item.period)
    PROVE  Once(new) /\ Whole(new) /\ Keeps(mem, new)
<1>1. \A k \in ReportLanes : k # l => WorkOf(new, k) = WorkOf(mem, k)
  BY DEF WorkOf
<1>2. QED
  BY <1>1 DEF Once, Whole, Keeps

\* What is not work of a lane does not matter.
LEMMA SameWork ==
    ASSUME NEW mem, NEW new, Once(mem), Whole(mem),
           new.pending = mem.pending, new.deferred = mem.deferred
    PROVE  Once(new) /\ Whole(new) /\ Keeps(mem, new)
BY DEF Once, Whole, Keeps, WorkOf

-----------------------------------------------------------------------------
(* The calendar.                                                           *)

LEMMA ListedValue ==
    ASSUME NEW l \in ReportLanes, NEW y \in 0 .. MaxDay + 1, day \in 1 .. MaxDay
    PROVE  LET n == Len(Listed(l, y)) IN
           /\ n \in 0 .. MaxDay /\ Listed(l, y) \in Seq(1 .. MaxDay)
           /\ DOMAIN Listed(l, y) = 1 .. n
           /\ \A k \in 1 .. n : Listed(l, y)[k] \in 1 .. MaxDay
<1> DEFINE until == IF Ready(y) THEN y ELSE y - 1
           before == FirstDay(y) - 1
           last == until \div Span[l]
           first == 1 + before \div Span[l]
           n == IF last >= first THEN last - first + 1 ELSE 0
<1>1. until \in 0 .. MaxDay
  BY Constants DEF Ready
<1>2. before \in Nat
  BY Constants DEF FirstDay
<1>3. Span[l] \in Nat \ {0}
  BY Constants
<1>4. Listed(l, y) = [k \in 1 .. n |-> last - k + 1]
  BY DEF Listed
<1> HIDE DEF until, before
<1>5. last \in 0 .. MaxDay
  <2>1. until \in Nat
    BY <1>1, Constants
  <2>2. until \div Span[l] \in 0 .. until
    BY <1>3, <2>1, Quotients
  <2>3. QED
    BY <1>1, <2>1, <2>2, Constants
<1>6. first \in Nat \ {0}
  <2>1. before \div Span[l] \in 0 .. before
    BY <1>3, <1>2, Quotients
  <2>2. QED
    BY <1>2, <2>1
<1>7. n \in 0 .. MaxDay
  BY <1>5, <1>6, Constants
<1>8. Listed(l, y) = [k \in 1 .. n |-> last - k + 1]
  BY <1>4
<1> HIDE DEF last, first
<1>9. Len(Listed(l, y)) = n /\ DOMAIN Listed(l, y) = 1 .. n
  BY <1>7, <1>8
<1>10. ASSUME NEW k \in 1 .. n
      PROVE  Listed(l, y)[k] \in 1 .. MaxDay
  <2>1. Listed(l, y)[k] = last - k + 1
    BY <1>8
  <2>2. last >= first
    OBVIOUS
  <2>3. QED
    BY <1>5, <1>6, <2>1, <2>2, Constants
<1>11. Listed(l, y) \in Seq(1 .. MaxDay)
  <2> DEFINE value(k) == last - k + 1
  <2>1. Listed(l, y) = [k \in 1 .. n |-> value(k)] /\ n \in Nat
    BY <1>7, <1>8
  <2>2. \A k \in 1 .. n : value(k) \in 1 .. MaxDay
    BY <1>8, <1>10
  <2> HIDE DEF value, n
  <2>3. QED
    BY <2>1, <2>2
<1>12. QED
  BY <1>7, <1>9, <1>10, <1>11

LEMMA LooksValue ==
    ASSUME NEW cursor \in Nat \ {0}, NEW n \in Nat \ {0}
    PROVE  /\ Len(Looks(cursor, n)) \in Nat
           /\ \A k \in 1 .. Len(Looks(cursor, n)) : Looks(cursor, n)[k] \in 0 .. n - 1
<1> DEFINE others == IF n < ScanLimit THEN n - 1 ELSE ScanLimit - 1
           rest == [k \in 1 .. others |-> 1 + ((cursor + k - 2) % (n - 1))]
<1>1. others \in 0 .. n - 1
  BY Constants
<1>2. \A k \in 1 .. others : rest[k] \in 0 .. n - 1
  <2> SUFFICES ASSUME NEW k \in 1 .. others
               PROVE  rest[k] \in 0 .. n - 1
    OBVIOUS
  <2>1. n - 1 \in Nat \ {0} /\ cursor + k - 2 \in Nat
    BY <1>1
  <2>2. (cursor + k - 2) % (n - 1) \in 0 .. n - 2
    BY <2>1, Quotients
  <2>3. QED
    BY <2>1, <2>2
<1>3. rest \in Seq(0 .. n - 1) /\ Len(rest) = others
  BY <1>1, <1>2
<1>4. Looks(cursor, n) = <<0>> \o rest
  BY DEF Looks
<1> HIDE DEF rest
<1>5. <<0>> \in Seq(0 .. n - 1)
  OBVIOUS
<1>6. Looks(cursor, n) \in Seq(0 .. n - 1)
  BY <1>3, <1>4, <1>5
<1>7. QED
  BY <1>6

\* A day that is urgent is a missing one.
LEMMA UrgentValue ==
    ASSUME NEW mem \in States, NEW y \in 0 .. MaxDay + 1, day \in 1 .. MaxDay,
           Urgent(mem, y) # NoPeriod
    PROVE  /\ Urgent(mem, y) \in 1 .. MaxDay
           /\ ~IsDeferred(mem, "daily", Urgent(mem, y))
<1> DEFINE missing == {d \in y - ScanLimit + 1 .. y :
                       /\ d >= FirstDay(y)
                       /\ d \notin stored["daily"] /\ ~IsDeferred(mem, "daily", d)}
<1>1. Urgent(mem, y) = Max(missing) /\ Ready(y) /\ missing # {}
  BY DEF Urgent
<1>2. y \in 0 .. MaxDay /\ FirstDay(y) \in Nat \ {0}
  BY <1>1, Constants DEF Ready, FirstDay
<1>3. missing \in SUBSET (0 .. MaxDay)
  BY <1>2, Constants
<1>4. Max(missing) \in missing
  <2> HIDE DEF missing
  <2>1. QED
    BY <1>1, <1>3, MaxOf, Constants
<1>5. QED
  BY <1>1, <1>2, <1>3, <1>4, Constants

-----------------------------------------------------------------------------
(* Steps of a call.                                                        *)

Quiet == UNCHANGED <<holder, stored, day, stalls, crashes>>

LEMMA StateTypes ==
    /\ EmptyState \in States /\ Idle \in Calls
    /\ \A l \in ReportLanes : EmptyState.pending[l] = NoItem /\ EmptyState.deferred[l] = <<>>
<1>1. /\ [l \in ReportLanes |-> NoItem] \in [ReportLanes -> Items \cup {NoItem}]
      /\ [l \in ReportLanes |-> <<>>] \in [ReportLanes -> Seq(Items)]
      /\ [l \in ReportLanes |-> 1] \in [ReportLanes -> 1 .. MaxDay]
  BY Constants
<1>2. EmptyState \in States
  BY <1>1, Constants DEF EmptyState, States
<1>3. Idle \in Calls
  BY <1>2, Constants DEF Idle, Calls, Steps
<1>4. QED
  BY <1>2, <1>3 DEF EmptyState

LEMMA CallTypes ==
    ASSUME Inv, NEW i \in Invocations
    PROVE  /\ inv[i] \in Calls /\ inv \in [Invocations -> Calls]
           /\ saved \in States /\ Once(saved) /\ Whole(saved)
           /\ Turning(i) /\ Fenced(i)
           /\ Mem(i) \in States
           /\ inv[i].yesterday \in 0 .. MaxDay + 1 /\ day \in 1 .. MaxDay
           /\ Index(i) \in 1 .. Len(Lanes) /\ NextLane(Index(i)) \in 1 .. Len(Lanes)
<1>1. inv[i] \in Calls
  BY DEF Inv, TypeOK
<1>2. inv[i].first + inv[i].turns - 1 \in Nat
  BY <1>1 DEF Calls
<1>3. (inv[i].first + inv[i].turns - 1) % Len(Lanes) \in 0 .. Len(Lanes) - 1
  BY <1>2, Constants, Quotients
<1>4. Index(i) \in 1 .. Len(Lanes)
  BY <1>3, Constants DEF Index
<1>5. Index(i) % Len(Lanes) \in 0 .. Len(Lanes) - 1
  <2>1. Index(i) \in Nat /\ Len(Lanes) \in Nat \ {0}
    BY <1>4, Constants
  <2>2. QED
    BY <2>1, Quotients
<1>6. NextLane(Index(i)) \in 1 .. Len(Lanes)
  BY <1>5, Constants DEF NextLane
<1>7. QED
  BY <1>1, <1>4, <1>6 DEF Inv, TypeOK, Calls, Mem

LEMMA OthersKeep ==
    ASSUME Inv, NEW j \in Invocations, inv'[j] = inv[j],
           holder' = j => holder = j /\ saved' = saved,
           \A l \in ReportLanes : stored[l] \subseteq stored'[l]
    PROVE  Turning(j)' /\ Fenced(j)'
BY CallTypes DEF Turning, Fenced, Mem, Lane, Index, At

\* The catch-up window moves on.
LEMMA DaysShrink ==
    ASSUME NEW l, NEW p, NEW x \in Nat, NEW y \in Nat, x <= y
    PROVE  DaysOf(l, p, y) \subseteq DaysOf(l, p, x)
<1> DEFINE span == (p - 1) * Span[l] + 1 .. p * Span[l]
<1>1. FirstDay(x) \in Int /\ FirstDay(y) \in Int /\ FirstDay(x) <= FirstDay(y)
  BY Constants DEF FirstDay
<1>2. span \subseteq Int
  OBVIOUS
<1>3. /\ DaysOf(l, p, x) = {d \in span : d >= FirstDay(x)}
      /\ DaysOf(l, p, y) = {d \in span : d >= FirstDay(y)}
  BY DEF DaysOf
<1> HIDE DEF span
<1>4. ASSUME NEW d \in DaysOf(l, p, y)
      PROVE  d \in DaysOf(l, p, x)
  <2>1. d \in span /\ d \in Int /\ d >= FirstDay(y)
    BY <1>2, <1>3
  <2>2. d >= FirstDay(x)
    BY <1>1, <2>1
  <2>3. QED
    BY <1>3, <2>1, <2>2
<1>5. QED
  BY <1>4

\* What is whole stays whole as long as reports stay and days pass.
LEMMA StoredKeeps ==
    ASSUME NEW mem, Whole(mem), day \in Nat, day' \in Nat, day <= day',
           \A l \in ReportLanes : stored[l] \subseteq stored'[l]
    PROVE  Whole(mem)'
<1>1. ASSUME NEW l, NEW p, Ripe(l, p)
      PROVE  Ripe(l, p)'
  <2>1. DaysOf(l, p, day') \subseteq DaysOf(l, p, day)
    BY DaysShrink
  <2>2. QED
    BY <1>1, <2>1, Constants DEF Ripe, DaysOf, FirstDay
<1>2. QED
  BY <1>1 DEF Whole, WorkOf

(* The scheduler begins with no lease, no work and no report.              *)
THEOREM InitInv == Init => Inv
<1> SUFFICES ASSUME Init
             PROVE  Inv
  OBVIOUS
<1>1. TypeOK
  BY StateTypes, Constants, LimitsAssumption DEF Init, TypeOK
<1>2. \A l \in ReportLanes : Apart(saved.pending[l], saved.deferred[l]) /\ WorkOf(saved, l) = {}
  BY StateTypes DEF Init, Apart, WorkOf, Range
<1>3. Once(saved) /\ Whole(saved)
  BY <1>2 DEF Once, Whole
<1>4. \A i \in Invocations : Turning(i) /\ Fenced(i)
  BY DEF Init, Idle, Turning, Fenced, At
<1>5. QED
  BY <1>1, <1>3, <1>4 DEF Inv

LEMMA CallValue ==
    ASSUME Inv, NEW i \in Invocations, NEW call \in Calls, inv' = [inv EXCEPT ![i] = call]
    PROVE  /\ inv' \in [Invocations -> Calls] /\ inv'[i] = call
           /\ \A j \in Invocations : j # i => inv'[j] = inv[j]
BY CallTypes

\* The call goes on and the stored state stands still.
LEMMA CallStep ==
    ASSUME Inv, NEW i \in Invocations, Quiet, UNCHANGED saved,
           NEW call \in Calls, inv' = [inv EXCEPT ![i] = call],
           holder = i /\ call.step \notin {"idle", "release"} => call.mem = saved,
           Turning(i)'
    PROVE  Inv' /\ Kept
<1>1. /\ inv' \in [Invocations -> Calls] /\ inv'[i] = call
      /\ \A j \in Invocations : j # i => inv'[j] = inv[j]
  BY CallValue
<1>2. TypeOK'
  BY <1>1 DEF Inv, TypeOK, Quiet
<1>3. Once(saved)' /\ Whole(saved)'
  <2>1. Once(saved) /\ Whole(saved) /\ day \in Nat
    BY CallTypes
  <2>2. Whole(saved)'
    BY <2>1 DEF Whole, WorkOf, Ripe, DaysOf, FirstDay, Quiet
  <2>3. QED
    BY <2>1, <2>2 DEF Once, Apart
<1>4. Fenced(i)'
  BY <1>1 DEF Fenced, Mem, Quiet
<1>5. ASSUME NEW j \in Invocations, j # i
      PROVE  Turning(j)' /\ Fenced(j)'
  BY <1>1, <1>5, OthersKeep DEF Quiet
<1>6. Kept
  BY DEF Kept, WorkOf
<1>7. QED
  BY <1>2, <1>3, <1>4, <1>5, <1>6 DEF Inv

\* The holder of the lease saves another state.
LEMMA CommitStep ==
    ASSUME Inv, NEW i \in Invocations, Quiet, holder = i,
           NEW mem \in States, Once(mem), Whole(mem), Keeps(saved, mem), saved' = mem,
           NEW call \in Calls, inv' = [inv EXCEPT ![i] = call],
           call.step \notin {"idle", "release"} => call.mem = mem,
           Turning(i)'
    PROVE  Inv' /\ Kept
<1>1. /\ inv' \in [Invocations -> Calls] /\ inv'[i] = call
      /\ \A j \in Invocations : j # i => inv'[j] = inv[j]
  BY CallValue
<1>2. TypeOK'
  BY <1>1 DEF Inv, TypeOK, Quiet
<1>3. Once(saved)' /\ Whole(saved)'
  <2>1. Whole(saved)'
    BY DEF Whole, WorkOf, Ripe, DaysOf, FirstDay, Quiet
  <2>2. QED
    BY <2>1 DEF Once, Apart
<1>4. Fenced(i)'
  BY <1>1 DEF Fenced, Mem
<1>5. ASSUME NEW j \in Invocations, j # i
      PROVE  Turning(j)' /\ Fenced(j)'
  <2>1. holder' # j
    BY <1>5 DEF Quiet
  <2>2. QED
    BY <1>1, <1>5, <2>1, OthersKeep DEF Quiet
<1>6. Kept
  BY DEF Kept, Keeps, WorkOf, Quiet
<1>7. QED
  BY <1>2, <1>3, <1>4, <1>5, <1>6 DEF Inv

LEMMA LeaveStep ==
    ASSUME Inv, NEW i \in Invocations, Quiet, UNCHANGED saved, Leave(i)
    PROVE  Inv' /\ Kept
<1> DEFINE call == [Idle EXCEPT !.step = "release"]
<1>1. call \in Calls /\ call.step = "release"
  BY StateTypes DEF Calls, Steps
<1>2. inv' = [inv EXCEPT ![i] = call]
  BY DEF Leave
<1> HIDE DEF call
<1>3. Turning(i)'
  BY <1>1, <1>2, CallValue DEF Turning, At
<1>4. QED
  BY <1>1, <1>2, <1>3, CallStep

\* save() of a state that keeps what the one before it had.
LEMMA SaveStep ==
    ASSUME Inv, NEW i \in Invocations, Quiet,
           NEW mem \in States, NEW step \in Steps, Save(i, mem, step),
           holder = i => Once(mem) /\ Whole(mem) /\ Keeps(saved, mem),
           step # "release" /\ inv'[i] = [inv[i] EXCEPT !.mem = mem, !.step = step]
               => Turning(i)'
    PROVE  Inv' /\ Kept
<1>1. CASE holder # i
  BY <1>1, LeaveStep DEF Save
<1>2. CASE holder = i /\ step = "release"
  <2> DEFINE call == [Idle EXCEPT !.step = "release"]
  <2>1. call \in Calls /\ call.step = "release"
    BY StateTypes DEF Calls, Steps
  <2>2. inv' = [inv EXCEPT ![i] = call] /\ saved' = mem
    BY <1>2 DEF Save, Continue, Leave
  <2> HIDE DEF call
  <2>3. Turning(i)'
    BY <2>1, <2>2, CallValue DEF Turning, At
  <2>4. QED
    BY <1>2, <2>1, <2>2, <2>3, CommitStep
<1>3. CASE holder = i /\ step # "release"
  <2> DEFINE call == [inv[i] EXCEPT !.mem = mem, !.step = step]
  <2>1. call \in Calls /\ call.mem = mem
    BY CallTypes DEF Calls
  <2>2. inv' = [inv EXCEPT ![i] = call] /\ saved' = mem
    BY <1>3, CallTypes DEF Save, Continue
  <2>3. inv'[i] = call
    BY <2>1, <2>2, CallValue
  <2>4. Turning(i)'
    BY <1>3, <2>3
  <2> HIDE DEF call
  <2>5. QED
    BY <1>3, <2>1, <2>2, <2>4, CommitStep
<1>4. QED
  BY <1>1, <1>2, <1>3

LEMMA GotoStep ==
    ASSUME Inv, NEW i \in Invocations, Quiet, UNCHANGED saved, NEW step \in Steps, Goto(i, step),
           inv[i].step \notin {"idle", "release"},
           inv'[i] = [inv[i] EXCEPT !.step = step] => Turning(i)'
    PROVE  Inv' /\ Kept
<1> DEFINE call == [inv[i] EXCEPT !.step = step]
<1>1. call \in Calls /\ call.mem = Mem(i)
  BY CallTypes DEF Calls, Mem
<1>2. inv' = [inv EXCEPT ![i] = call]
  BY CallTypes DEF Goto
<1>3. inv'[i] = call
  BY <1>1, <1>2, CallValue
<1>4. Turning(i)'
  BY <1>3
<1>5. holder = i => call.mem = saved
  BY <1>1, CallTypes DEF Fenced
<1> HIDE DEF call
<1>6. QED
  BY <1>1, <1>2, <1>4, <1>5, CallStep

\* The next lane has its turn.
LEMMA PassStep ==
    ASSUME Inv, NEW i \in Invocations, Quiet, NEW mem \in States, Pass(i, mem), At(i, "work"),
           holder = i => Once(mem) /\ Whole(mem) /\ Keeps(saved, mem)
    PROVE  Inv' /\ Kept
<1>1. CASE holder # i
  BY <1>1, LeaveStep DEF Pass
<1>2. CASE holder = i
  <2> DEFINE call == [inv[i] EXCEPT !.mem = mem, !.step = "turn", !.turns = @ + 1]
  <2>1. inv[i].turns < Len(Lanes) /\ inv[i] \in Calls
    BY CallTypes DEF Turning, At
  <2>2. inv[i].turns + 1 \in 0 .. Len(Lanes)
    BY <2>1, Constants DEF Calls
  <2>3. call \in Calls /\ call.mem = mem /\ call.step = "turn"
    BY <2>1, <2>2 DEF Calls, Steps
  <2>4. inv' = [inv EXCEPT ![i] = call] /\ saved' = mem
    BY <1>2, CallTypes DEF Pass
  <2> HIDE DEF call
  <2>5. Turning(i)'
    BY <2>3, <2>4, CallValue DEF Turning, At
  <2>6. QED
    BY <1>2, <2>3, <2>4, <2>5, CommitStep
<1>3. QED
  BY <1>1, <1>2

\* A call that may still save knows what is stored.
LEMMA Known ==
    ASSUME Inv, NEW i \in Invocations, holder = i, inv[i].step \notin {"idle", "release"}
    PROVE  /\ Mem(i) = saved /\ Once(Mem(i)) /\ Whole(Mem(i))
           /\ \A mem : Keeps(Mem(i), mem) => Keeps(saved, mem)
BY CallTypes DEF Fenced

-----------------------------------------------------------------------------
(* The actions.                                                            *)

LEMMA SyncSteps ==
    ASSUME Inv, NEW i \in Invocations, Sync(i) \/ FetchAll(i) \/ FetchPart(i)
    PROVE  Inv' /\ Kept
<1> Quiet
  BY DEF Sync, FetchAll, FetchPart, Quiet
<1>1. At(i, "sync") \/ At(i, "fetch")
  BY DEF Sync, FetchAll, FetchPart
<1>2. ASSUME NEW step \in {"fetch", "choose"}, Goto(i, step), UNCHANGED saved
      PROVE  Inv' /\ Kept
  <2>1. inv'[i] = [inv[i] EXCEPT !.step = step] => Turning(i)'
    BY CallTypes DEF Turning, At, Calls
  <2>2. QED
    BY <1>1, <1>2, <2>1, GotoStep DEF At, Steps
<1>3. ASSUME NEW slot \in BOOLEAN, NEW synced \in BOOLEAN, NEW step \in {"fetch", "choose", "release"},
             NEW mem, mem = [Mem(i) EXCEPT !.slot = slot, !.synced = synced],
             Save(i, mem, step)
      PROVE  Inv' /\ Kept
  <2>1. mem \in States /\ mem.pending = Mem(i).pending /\ mem.deferred = Mem(i).deferred
    BY <1>3, CallTypes DEF States
  <2>2. holder = i => Once(mem) /\ Whole(mem) /\ Keeps(saved, mem)
    BY <1>1, <2>1, Known, SameWork DEF At
  <2>3. step # "release" /\ inv'[i] = [inv[i] EXCEPT !.mem = mem, !.step = step] => Turning(i)'
    BY <1>3, CallTypes DEF Turning, At, Calls
  <2>4. QED
    BY <1>3, <2>1, <2>2, <2>3, SaveStep DEF Steps
<1>4. Mem(i) \in States
  BY CallTypes
<1>5. CASE Sync(i)
  <2>1. [Mem(i) EXCEPT !.slot = TRUE] = [Mem(i) EXCEPT !.slot = TRUE, !.synced = Mem(i).synced]
    BY <1>4 DEF States
  <2>2. Mem(i).synced \in BOOLEAN
    BY <1>4 DEF States
  <2>3. QED
    BY <1>2, <1>3, <1>5, <2>1, <2>2 DEF Sync
<1>6. CASE FetchAll(i)
  BY <1>3, <1>6 DEF FetchAll
<1>7. CASE FetchPart(i)
  <2>1. Mem(i) = [Mem(i) EXCEPT !.slot = Mem(i).slot, !.synced = Mem(i).synced]
    BY <1>4 DEF States
  <2>2. Mem(i).synced \in BOOLEAN /\ Mem(i).slot \in BOOLEAN
    BY <1>4 DEF States
  <2>3. QED
    BY <1>3, <1>7, <2>1, <2>2 DEF FetchPart
<1>8. QED
  BY <1>5, <1>6, <1>7

LEMMA SaveUnchanged ==
    ASSUME Inv, NEW i \in Invocations, inv[i].step \notin {"idle", "release"}
    PROVE  holder = i => Once(Mem(i)) /\ Whole(Mem(i)) /\ Keeps(saved, Mem(i))
BY Known DEF Keeps

LEMMA StartStep ==
    ASSUME Inv, NEW i \in Invocations, Start(i)
    PROVE  Inv' /\ Kept
<1>1. PICK y \in {day, day + 1} :
         inv' = [inv EXCEPT ![i] = [Idle EXCEPT !.step = "sync", !.mem = saved, !.yesterday = y]]
  BY DEF Start
<1> DEFINE call == [Idle EXCEPT !.step = "sync", !.mem = saved, !.yesterday = y]
<1>2. /\ holder = Nobody /\ holder' = i
      /\ UNCHANGED <<saved, stored, day, stalls, crashes>>
  BY DEF Start
<1>3. y \in 0 .. MaxDay + 1
  <2>1. day \in 1 .. MaxDay
    BY DEF Inv, TypeOK
  <2>2. QED
    BY <2>1, Constants
<1>4. call \in Calls /\ call.step = "sync" /\ call.mem = saved
  BY <1>3, StateTypes, CallTypes DEF Calls, Steps, Idle
<1> HIDE DEF call
<1>5. /\ inv' \in [Invocations -> Calls] /\ inv'[i] = call
      /\ \A j \in Invocations : j # i => inv'[j] = inv[j]
  BY <1>1, <1>4, CallValue DEF call
<1>6. TypeOK'
  BY <1>2, <1>5 DEF Inv, TypeOK
<1>7. Once(saved)' /\ Whole(saved)'
  <2>1. Once(saved) /\ Whole(saved) /\ day \in Nat
    BY CallTypes
  <2>2. Whole(saved)'
    BY <1>2, <2>1 DEF Whole, WorkOf, Ripe, DaysOf, FirstDay
  <2>3. QED
    BY <1>2, <2>1, <2>2 DEF Once, Apart
<1>8. Turning(i)' /\ Fenced(i)'
  BY <1>2, <1>4, <1>5 DEF Turning, Fenced, At, Mem
<1>9. ASSUME NEW j \in Invocations, j # i
      PROVE  Turning(j)' /\ Fenced(j)'
  BY <1>2, <1>5, <1>9, OthersKeep
<1>10. QED
  BY <1>2, <1>6, <1>7, <1>8, <1>9 DEF Inv, Kept, WorkOf

LEMMA ChooseStep ==
    ASSUME Inv, NEW i \in Invocations, Choose(i)
    PROVE  Inv' /\ Kept
<1> DEFINE first == IF Mem(i).synced /\ RecentMissing(Mem(i), inv[i].yesterday)
                    THEN 1 ELSE Mem(i).lane
           call == [inv[i] EXCEPT !.step = "turn", !.first = first]
<1>1. At(i, "choose") /\ Quiet /\ UNCHANGED saved /\ inv' = [inv EXCEPT ![i].step = "turn", ![i].first = first]
  BY DEF Choose, Quiet
<1>2. first \in 1 .. Len(Lanes)
  BY CallTypes, Constants DEF States
<1> HIDE DEF first
<1>3. call \in Calls /\ call.step = "turn" /\ call.mem = Mem(i)
  BY <1>2, CallTypes DEF Calls, Steps, Mem
<1>4. inv' = [inv EXCEPT ![i] = call]
  BY <1>1, CallTypes
<1>5. holder = i => call.mem = saved
  BY <1>1, <1>3, CallTypes DEF Fenced, At
<1> HIDE DEF call
<1>6. Turning(i)'
  BY <1>3, <1>4, CallValue DEF Turning, At
<1>7. QED
  BY <1>1, <1>3, <1>4, <1>5, <1>6, CallStep

LEMMA TurnSteps ==
    ASSUME Inv, NEW i \in Invocations, Turn(i) \/ EndTurns(i)
    PROVE  Inv' /\ Kept
<1> Quiet /\ At(i, "turn")
  BY DEF Turn, EndTurns, Quiet
<1>1. CASE Turn(i)
  <2> DEFINE mem == [Mem(i) EXCEPT !.lane = NextLane(Index(i))]
  <2>1. mem \in States /\ mem.pending = Mem(i).pending /\ mem.deferred = Mem(i).deferred
    BY CallTypes DEF States
  <2>2. Save(i, mem, "work") /\ inv[i].turns < Len(Lanes)
    BY <1>1 DEF Turn
  <2> HIDE DEF mem
  <2>3. holder = i => Once(mem) /\ Whole(mem) /\ Keeps(saved, mem)
    BY <2>1, Known, SameWork DEF At
  <2>4. inv'[i] = [inv[i] EXCEPT !.mem = mem, !.step = "work"] => Turning(i)'
    BY <2>2, CallTypes DEF Turning, At, Calls
  <2>5. QED
    BY <2>1, <2>2, <2>3, <2>4, SaveStep DEF Steps
<1>2. CASE EndTurns(i)
  BY <1>2, LeaveStep DEF EndTurns
<1>3. QED
  BY <1>1, <1>2

LEMMA IdleTurnSteps ==
    ASSUME Inv, NEW i \in Invocations, Review(i) \/ SkipReports(i)
    PROVE  Inv' /\ Kept
<1> Quiet /\ At(i, "work")
  BY DEF Review, SkipReports, Quiet
<1>1. holder = i => Once(Mem(i)) /\ Whole(Mem(i)) /\ Keeps(saved, Mem(i))
  BY SaveUnchanged DEF At
<1>2. Mem(i) \in States
  BY CallTypes
<1>3. CASE Pass(i, Mem(i))
  BY <1>1, <1>2, <1>3, PassStep
<1>4. CASE Save(i, Mem(i), "release")
  BY <1>1, <1>2, <1>4, SaveStep DEF Steps
<1>5. QED
  BY <1>3, <1>4 DEF Review, SkipReports

\* A run that stays pending or raised keeps its item.
LEMMA UnfinishedStep ==
    ASSUME Inv, NEW i \in Invocations, RunUnfinished(i)
    PROVE  Inv' /\ Kept
<1>1. Quiet /\ inv[i].step \in {"run", "done"} /\ Save(i, Mem(i), "release")
  BY DEF RunUnfinished, Quiet, At
<1>2. holder = i => Once(Mem(i)) /\ Whole(Mem(i)) /\ Keeps(saved, Mem(i))
  BY <1>1, SaveUnchanged
<1>3. QED
  BY <1>1, <1>2, CallTypes, SaveStep DEF Steps

\* The work of one lane changes: what was in work or deferred stays or is
\* stored, and what is new is ripe.
LEMMA LaneChangedFrom ==
    ASSUME Inv, NEW i \in Invocations, inv[i].step \notin {"idle", "release"},
           NEW l \in ReportLanes, NEW item \in Items \cup {NoItem}, NEW deferred \in Seq(Items),
           NEW base \in States, base.pending = Mem(i).pending, base.deferred = Mem(i).deferred,
           NEW mem, mem = Changed(base, l, item, deferred),
           holder = i => Apart(item, deferred),
           \A x \in WorkOf(Mem(i), l) :
               x \in Entries(item, deferred) \/ x.period \in stored[l],
           \A x \in Entries(item, deferred) :
               x \in WorkOf(Mem(i), l) \/ Ripe(l, x.period)
    PROVE  /\ mem \in States /\ mem.pending[l] = item /\ mem.deferred[l] = deferred
           /\ holder = i => Once(mem) /\ Whole(mem) /\ Keeps(saved, mem)
<1>1. /\ mem \in States /\ mem.pending[l] = item /\ mem.deferred[l] = deferred
      /\ \A k \in ReportLanes : k # l =>
            mem.pending[k] = Mem(i).pending[k] /\ mem.deferred[k] = Mem(i).deferred[k]
  <2>1. /\ mem \in States /\ mem.pending[l] = item /\ mem.deferred[l] = deferred
        /\ \A k \in ReportLanes : k # l =>
              mem.pending[k] = base.pending[k] /\ mem.deferred[k] = base.deferred[k]
    BY ONLY base \in States, l \in ReportLanes, item \in Items \cup {NoItem},
            deferred \in Seq(Items), mem = Changed(base, l, item, deferred), LaneValue
  <2>2. QED
    BY <2>1
<1>2. ASSUME holder = i
      PROVE  Once(mem) /\ Whole(mem) /\ Keeps(saved, mem)
  <2>1. Once(Mem(i)) /\ Whole(Mem(i))
    BY <1>2, Known
  <2>2. WorkOf(mem, l) = Entries(item, deferred)
    BY <1>1, WorkIsEntries
  <2>3. Once(mem) /\ Whole(mem) /\ Keeps(Mem(i), mem)
    BY <1>1, <1>2, <2>1, <2>2, LaneChanges
  <2>4. QED
    BY <1>2, <2>3, Known
<1>3. QED
  BY <1>1, <1>2

LEMMA LaneChanged ==
    ASSUME Inv, NEW i \in Invocations, inv[i].step \notin {"idle", "release"},
           NEW l \in ReportLanes, NEW item \in Items \cup {NoItem}, NEW deferred \in Seq(Items),
           NEW mem, mem = Changed(Mem(i), l, item, deferred),
           holder = i => Apart(item, deferred),
           \A x \in WorkOf(Mem(i), l) :
               x \in Entries(item, deferred) \/ x.period \in stored[l],
           \A x \in Entries(item, deferred) :
               x \in WorkOf(Mem(i), l) \/ Ripe(l, x.period)
    PROVE  /\ mem \in States /\ mem.pending[l] = item /\ mem.deferred[l] = deferred
           /\ holder = i => Once(mem) /\ Whole(mem) /\ Keeps(saved, mem)
<1>1. Mem(i) \in States
  BY CallTypes
<1>2. QED
  BY <1>1, LaneChangedFrom

LEMMA UnknownStep ==
    ASSUME Inv, NEW i \in Invocations, RunUnknown(i)
    PROVE  Inv' /\ Kept
<1> DEFINE l == Lane(i)
           item == Mem(i).pending[l]
           deferred == Mem(i).deferred[l]
           longer == Append(deferred, item)
           mem == Changed(Mem(i), l, NoItem, longer)
<1>1. Quiet /\ At(i, "run") /\ Save(i, mem, "release")
  BY DEF RunUnknown, Quiet, Changed
<1>2. l \in ReportLanes /\ item # NoItem
  BY <1>1, CallTypes DEF Turning, At
<1>3. item \in Items /\ deferred \in Seq(Items)
  BY <1>2, CallTypes DEF States
<1>4. holder = i => Apart(item, deferred)
  BY <1>1, <1>2, Known DEF At, Once
<1>5. longer \in Seq(Items)
  BY <1>3
<1> HIDE DEF l, item, deferred, longer, mem
<1>6. WorkOf(Mem(i), l) = Entries(item, deferred)
  BY WorkIsEntries DEF item, deferred
<1>7. Entries(NoItem, longer) = Entries(item, deferred)
  BY <1>3, DeferredEntries DEF longer
<1>8. holder = i => Apart(NoItem, longer)
  BY <1>3, <1>4, DeferredOnce DEF longer
<1>9. mem \in States /\ (holder = i => Once(mem) /\ Whole(mem) /\ Keeps(saved, mem))
  <2>1. mem = Changed(Mem(i), l, NoItem, longer) /\ NoItem \in Items \cup {NoItem}
    BY DEF mem
  <2>2. inv[i].step \notin {"idle", "release"}
    BY <1>1 DEF At
  <2>3. QED
    BY <1>2, <1>5, <1>6, <1>7, <1>8, <2>1, <2>2, LaneChanged
<1>10. QED
  BY <1>1, <1>9, SaveStep DEF Steps

LEMMA ForgetStep ==
    ASSUME Inv, NEW i \in Invocations, ForgetPending(i)
    PROVE  Inv' /\ Kept
<1> DEFINE l == Lane(i)
           item == Mem(i).pending[l]
           deferred == Mem(i).deferred[l]
           mem == Changed(Mem(i), l, NoItem, deferred)
<1>1. Quiet /\ At(i, "done") /\ Save(i, [Mem(i) EXCEPT !.pending[Lane(i)] = NoItem], "release")
  BY DEF ForgetPending, Quiet
<1>2. l \in ReportLanes /\ item # NoItem /\ item.period \in stored[l]
  BY <1>1, CallTypes DEF Turning, At
<1>3. item \in Items /\ deferred \in Seq(Items) /\ Mem(i) \in States
  BY <1>2, CallTypes DEF States
<1>4. Save(i, mem, "release")
  <2>1. [Mem(i) EXCEPT !.pending[Lane(i)] = NoItem] = mem
    BY <1>2, <1>3, UnchangedDeferred
  <2>2. QED
    BY <1>1, <2>1
<1>5. holder = i => Apart(item, deferred)
  BY <1>1, <1>2, Known DEF At, Once
<1> HIDE DEF l, item, deferred, mem
<1>6. WorkOf(Mem(i), l) = Entries(item, deferred)
  BY WorkIsEntries DEF item, deferred
<1>7. Entries(item, deferred) = Entries(NoItem, deferred) \cup {item}
  BY <1>3, NoItemFacts DEF Entries
<1>8. holder = i => Apart(NoItem, deferred)
  BY <1>3, <1>5, ForgottenOnce
<1>9. mem \in States /\ (holder = i => Once(mem) /\ Whole(mem) /\ Keeps(saved, mem))
  <2>1. mem = Changed(Mem(i), l, NoItem, deferred) /\ NoItem \in Items \cup {NoItem}
    BY DEF mem
  <2>2. inv[i].step \notin {"idle", "release"}
    BY <1>1 DEF At
  <2>3. /\ \A x \in WorkOf(Mem(i), l) : x \in Entries(NoItem, deferred) \/ x.period \in stored[l]
        /\ \A x \in Entries(NoItem, deferred) : x \in WorkOf(Mem(i), l)
    BY <1>2, <1>6, <1>7
  <2>4. QED
    BY <1>2, <1>3, <1>8, <2>1, <2>2, <2>3, LaneChanged
<1>10. QED
  BY <1>1, <1>4, <1>9, SaveStep DEF Steps

\* A lane that has its turn goes on to run what is in work.
LEMMA Working ==
    ASSUME Inv, NEW i \in Invocations, At(i, "work"), Lane(i) \in ReportLanes,
           NEW mem, inv'[i] = [inv[i] EXCEPT !.mem = mem, !.step = "run"],
           mem.pending[Lane(i)] # NoItem
    PROVE  Turning(i)'
<1>1. inv[i] \in Calls /\ inv[i].turns < Len(Lanes)
  BY CallTypes DEF Turning, At
<1>2. inv'[i].first = inv[i].first /\ inv'[i].turns = inv[i].turns /\ inv'[i].mem = mem /\ inv'[i].step = "run"
  BY <1>1 DEF Calls
<1>3. Lane(i)' = Lane(i)
  BY <1>2 DEF Lane, Index
<1>4. QED
  BY <1>1, <1>2, <1>3 DEF Turning, At, Mem

\* A newer day may displace the one in work.
LEMMA DisplacedValue ==
    ASSUME NEW mem \in States, NEW y \in 0 .. MaxDay + 1, day \in 1 .. MaxDay,
           NEW new, new = Displaced(mem, y), new # mem
    PROVE  \E x \in Items :
              /\ ~IsDeferred(mem, "daily", x.period)
              /\ mem.pending["daily"].period < x.period
              /\ new = Changed(mem, "daily", x,
                           IF mem.pending["daily"] = NoItem THEN mem.deferred["daily"]
                           ELSE Append(mem.deferred["daily"], mem.pending["daily"]))
<1> DEFINE u == Urgent(mem, y)
           x == [period |-> u, ai |-> u = y]
           old == mem.pending["daily"]
           deferred == mem.deferred["daily"]
<1>1. u # NoPeriod /\ old.period < u
  BY DEF Displaced
<1>2. u \in 1 .. MaxDay /\ ~IsDeferred(mem, "daily", u)
  BY <1>1, UrgentValue
<1>3. x \in Items /\ x.period = u
  BY <1>2 DEF Items
<1>4. new = [mem EXCEPT !.pending["daily"] = x,
                        !.deferred["daily"] = IF old = NoItem THEN @ ELSE Append(@, old)]
  BY DEF Displaced
<1>5. new = Changed(mem, "daily", x, IF old = NoItem THEN deferred ELSE Append(deferred, old))
  BY <1>4, Constants DEF Changed, States
<1> HIDE DEF u, x
<1>6. QED
  BY <1>1, <1>2, <1>3, <1>5

\* A lane without an item in its turn has none at all.
LEMMA NothingInWork ==
    ASSUME Inv, NEW i \in Invocations, NEW l \in ReportLanes, l = Lane(i), InTurn(i).pending[l] = NoItem
    PROVE  InTurn(i) = Mem(i)
<1> SUFFICES ASSUME InTurn(i) # Mem(i)
             PROVE  FALSE
  OBVIOUS
<1>1. l = "daily" /\ InTurn(i) = Displaced(Mem(i), inv[i].yesterday)
  BY DEF InTurn
<1>2. Mem(i) \in States /\ inv[i].yesterday \in 0 .. MaxDay + 1 /\ day \in 1 .. MaxDay
  BY CallTypes
<1>3. PICK x \in Items :
         InTurn(i) = Changed(Mem(i), "daily", x,
                        IF Mem(i).pending["daily"] = NoItem THEN Mem(i).deferred["daily"]
                        ELSE Append(Mem(i).deferred["daily"], Mem(i).pending["daily"]))
  BY <1>1, <1>2, DisplacedValue
<1>4. InTurn(i).pending["daily"] = x
  BY <1>2, <1>3, Constants DEF Changed, States
<1>5. QED
  BY <1>1, <1>4, NoItemFacts

LEMMA RetryStep ==
    ASSUME Inv, NEW i \in Invocations, Retry(i)
    PROVE  Inv' /\ Kept
<1> DEFINE l == Lane(i)
           deferred == Mem(i).deferred[l]
<1>1. Quiet /\ At(i, "work") /\ l \in ReportLanes /\ InTurn(i).pending[l] = NoItem
  BY DEF Retry, Quiet
<1>2. PICK k \in DOMAIN deferred :
         Begin(i, [Mem(i) EXCEPT !.pending[l] = deferred[k], !.deferred[l] = RemoveAt(deferred, k)])
  BY DEF Retry
<1> DEFINE item == deferred[k]
           rest == RemoveAt(deferred, k)
           mem == Changed(Mem(i), l, item, rest)
<1>3. Begin(i, mem)
  BY <1>2 DEF Changed
<1>4. Mem(i).pending[l] = NoItem
  BY <1>1, NothingInWork
<1>5. deferred \in Seq(Items)
  BY <1>1, CallTypes DEF States
<1>6. WorkOf(Mem(i), l) = Entries(NoItem, deferred)
  BY <1>4, WorkIsEntries
<1>7. holder = i => Apart(NoItem, deferred)
  BY <1>1, <1>4, Known DEF At, Once
<1> HIDE DEF l, deferred, rest, item, mem
<1>8. item \in Items /\ rest \in Seq(Items) /\ Entries(item, rest) = Entries(NoItem, deferred)
  BY <1>5, RetriedOnce DEF item, rest
<1>9. holder = i => Apart(item, rest)
  BY <1>5, <1>7, RetriedOnce DEF item, rest
<1>10. /\ mem \in States /\ mem.pending[l] = item
       /\ holder = i => Once(mem) /\ Whole(mem) /\ Keeps(saved, mem)
  BY <1>1, <1>6, <1>8, <1>9, LaneChanged DEF mem, At
<1>11. item # NoItem
  BY <1>8, NoItemFacts
<1>12. mem # Mem(i)
  BY <1>4, <1>10, <1>11
<1>13. Save(i, mem, "run")
  BY <1>3, <1>12 DEF Begin
<1>14. inv'[i] = [inv[i] EXCEPT !.mem = mem, !.step = "run"] => Turning(i)'
  BY <1>1, <1>10, <1>11, Working DEF l
<1>15. QED
  BY <1>1, <1>10, <1>13, <1>14, SaveStep DEF Steps

LEMMA ResumeStep ==
    ASSUME Inv, NEW i \in Invocations, Resume(i)
    PROVE  Inv' /\ Kept
<1> DEFINE l == Lane(i)
           old == Mem(i).pending[l]
           s == Mem(i).deferred[l]
           mem == InTurn(i)
<1>1. /\ Quiet /\ At(i, "work") /\ l \in ReportLanes
      /\ Begin(i, mem) /\ mem.pending[l] # NoItem
  BY DEF Resume, Quiet
<1>2. /\ Mem(i) \in States /\ inv[i] \in Calls
      /\ inv[i].yesterday \in 0 .. MaxDay + 1 /\ day \in 1 .. MaxDay
  BY CallTypes
<1>3. CASE mem = Mem(i)
  <2>1. Goto(i, "run") /\ UNCHANGED saved
    BY <1>1, <1>3 DEF Begin
  <2>2. inv[i] = [inv[i] EXCEPT !.mem = Mem(i)]
    BY <1>2 DEF Mem, Calls
  <2>3. ASSUME inv'[i] = [inv[i] EXCEPT !.step = "run"]
        PROVE  Turning(i)'
    <3>1. inv'[i] = [inv[i] EXCEPT !.mem = mem, !.step = "run"]
      BY <1>2, <1>3, <2>3 DEF Mem, Calls
    <3>2. QED
      BY <1>1, <3>1, Working
  <2>4. QED
    BY <1>1, <2>1, <2>3, GotoStep DEF At, Steps
<1>4. CASE mem # Mem(i)
  <2>1. l = "daily" /\ mem = Displaced(Mem(i), inv[i].yesterday)
    BY <1>4 DEF InTurn
  <2>2. PICK x \in Items :
           /\ ~IsDeferred(Mem(i), l, x.period) /\ old.period < x.period
           /\ mem = Changed(Mem(i), l, x, IF old = NoItem THEN s ELSE Append(s, old))
    BY <1>2, <1>4, <2>1, DisplacedValue
  <2>3. Save(i, mem, "run")
    BY <1>1, <1>4 DEF Begin
  <2> DEFINE after == IF old = NoItem THEN s ELSE Append(s, old)
  <2>4. s \in Seq(Items) /\ old \in Items \cup {NoItem}
    BY <1>1, <1>2 DEF States
  <2>5. WorkOf(Mem(i), l) = Entries(old, s)
    BY WorkIsEntries
  <2>6. holder = i => Apart(old, s)
    BY <1>1, Known DEF At, Once
  <2>7. \A k \in DOMAIN s : s[k].period # x.period
    BY <2>2 DEF IsDeferred
  <2>8. Ripe(l, x.period)
    BY <2>1, Constants DEF Ripe
  <2> HIDE DEF l, old, s, mem
  <2>9. /\ after \in Seq(Items) /\ Entries(NoItem, after) = Entries(old, s)
        /\ \A k \in DOMAIN after : after[k].period # x.period
        /\ holder = i => Apart(NoItem, after)
    <3>1. CASE old = NoItem
      BY <2>4, <2>6, <2>7, <3>1
    <3>2. CASE old # NoItem
      <4>1. old \in Items /\ old.period # x.period
        BY <2>2, <2>4, <3>2 DEF Items
      <4>2. /\ after \in Seq(Items) /\ Entries(NoItem, after) = Entries(old, s)
            /\ Range(after) = Range(s) \cup {old}
        BY <2>4, <3>2, <4>1, DeferredEntries
      <4>3. holder = i => Apart(NoItem, after)
        BY <2>4, <2>6, <3>2, <4>1, DeferredOnce
      <4>4. \A k \in DOMAIN after : after[k] \in Range(s) \cup {old}
        BY <4>2 DEF Range
      <4>5. \A k \in DOMAIN after : after[k].period # x.period
        BY <2>7, <4>1, <4>4 DEF Range
      <4>6. QED
        BY <4>2, <4>3, <4>5
    <3>3. QED
      BY <3>1, <3>2
  <2> HIDE DEF after
  <2>10. Entries(x, after) = Entries(NoItem, after) \cup {x}
    BY NoItemFacts DEF Entries
  <2>11. holder = i => Apart(x, after)
    BY <2>9, ChosenOnce
  <2>12. /\ \A z \in WorkOf(Mem(i), l) : z \in Entries(x, after)
         /\ \A z \in Entries(x, after) : z \in WorkOf(Mem(i), l) \/ Ripe(l, z.period)
    BY <2>5, <2>8, <2>9, <2>10
  <2>13. mem = Changed(Mem(i), l, x, after) /\ inv[i].step \notin {"idle", "release"}
    BY <1>1, <2>2 DEF after, At
  <2>14. /\ mem \in States /\ mem.pending[l] = x
         /\ holder = i => Once(mem) /\ Whole(mem) /\ Keeps(saved, mem)
    BY <1>1, <2>9, <2>11, <2>12, <2>13, LaneChanged
  <2>15. inv'[i] = [inv[i] EXCEPT !.mem = mem, !.step = "run"] => Turning(i)'
    BY <1>1, Working DEF l
  <2>16. QED
    BY <1>1, <2>3, <2>14, <2>15, SaveStep DEF Steps
<1>5. QED
  BY <1>3, <1>4

LEMMA DoneStep ==
    ASSUME Inv, NEW i \in Invocations, RunDone(i)
    PROVE  Inv' /\ Kept
<1> DEFINE l == Lane(i)
           period == Mem(i).pending[l].period
           call == [inv[i] EXCEPT !.step = "done"]
<1>1. /\ At(i, "run") /\ inv' = [inv EXCEPT ![i].step = "done"]
      /\ stored' = [stored EXCEPT ![l] = @ \cup {period}]
      /\ UNCHANGED <<saved, holder, day, stalls, crashes>>
  BY DEF RunDone, Goto
<1>2. inv[i] \in Calls /\ Mem(i) \in States /\ day \in 1 .. MaxDay
  BY CallTypes
<1>3. l \in ReportLanes /\ Mem(i).pending[l] # NoItem /\ inv[i].turns < Len(Lanes)
  BY <1>1, CallTypes DEF Turning, At
<1>4. period \in 1 .. MaxDay
  BY <1>2, <1>3 DEF States, Items
<1>5. stored \in [ReportLanes -> SUBSET (1 .. MaxDay)]
  BY DEF Inv, TypeOK
<1>6. call \in Calls /\ call.mem = Mem(i) /\ call.step = "done"
      /\ call.turns = inv[i].turns /\ call.first = inv[i].first
  BY <1>2 DEF Calls, Steps, Mem
<1>7. inv' = [inv EXCEPT ![i] = call]
  BY <1>1, <1>2
<1> HIDE DEF call
<1>8. /\ inv' \in [Invocations -> Calls] /\ inv'[i] = call
      /\ \A j \in Invocations : j # i => inv'[j] = inv[j]
  BY <1>6, <1>7, CallValue
<1>9. l' = l /\ period' = period
  BY <1>6, <1>8 DEF Lane, Index, Mem
<1> HIDE DEF l, period
<1>10. /\ stored' \in [ReportLanes -> SUBSET (1 .. MaxDay)]
       /\ \A k \in ReportLanes : stored[k] \subseteq stored'[k]
       /\ period \in stored'[l]
  BY <1>1, <1>3, <1>4, <1>5
<1>11. TypeOK'
  BY <1>1, <1>8, <1>10 DEF Inv, TypeOK
<1>12. Once(saved)' /\ Whole(saved)'
  <2>1. Once(saved) /\ Whole(saved)
    BY CallTypes
  <2>2. Whole(saved)'
    BY <1>1, <1>2, <1>10, <2>1, StoredKeeps DEF Whole, WorkOf, Ripe
  <2>3. QED
    BY <1>1, <2>1, <2>2 DEF Once, Apart
<1>13. Turning(i)' /\ Fenced(i)'
  <2>1. Fenced(i)
    BY CallTypes
  <2>2. Fenced(i)'
    BY <1>1, <1>6, <1>8, <2>1 DEF Fenced, Mem, At
  <2>3. Turning(i)'
    BY <1>3, <1>6, <1>8, <1>9, <1>10 DEF Turning, At, Mem, l, period
  <2>4. QED
    BY <2>2, <2>3
<1>14. ASSUME NEW j \in Invocations, j # i
       PROVE  Turning(j)' /\ Fenced(j)'
  BY <1>1, <1>8, <1>10, <1>14, OthersKeep
<1>15. Kept
  BY <1>1 DEF Kept, WorkOf
<1>16. QED
  BY <1>11, <1>12, <1>13, <1>14, <1>15 DEF Inv

\* A period that is needed is ripe on the day of the call and later.
LEMMA NeededIsRipe ==
    ASSUME Inv, NEW i \in Invocations, NEW l \in ReportLanes, NEW p,
           Needed(Mem(i), l, p, inv[i].yesterday),
           l # "daily" => Ready(inv[i].yesterday)
    PROVE  Ripe(l, p)
<1> SUFFICES ASSUME l \in Long
             PROVE  DaysOf(l, p, day) \subseteq stored["daily"]
  BY DEF Ripe
<1> DEFINE y == inv[i].yesterday
<1>1. y \in Nat /\ day \in Nat /\ y <= day
  BY CallTypes, Constants DEF Ready
<1>2. DaysOf(l, p, day) \subseteq DaysOf(l, p, y)
  BY <1>1, DaysShrink
<1>3. QED
  BY <1>2 DEF Needed

LEMMA SearchStep ==
    ASSUME Inv, NEW i \in Invocations, NEW cut \in 0 .. ScanLimit, Search(i, cut)
    PROVE  Inv' /\ Kept
<1> DEFINE l == Lane(i)
           mem == Mem(i)
           y == inv[i].yesterday
           listed == Listed(l, y)
           looks == IF listed = <<>> THEN <<>> ELSE Looks(mem.cursor[l], Len(listed))
           Place(k) == listed[looks[k] + 1]
           hits == {k \in 1 .. cut : Needed(mem, l, Place(k), y)}
           stop == IF hits # {} THEN Min(hits)
                   ELSE IF cut < Len(looks) THEN cut + 1 ELSE cut
           moved == IF stop > 0 /\ looks[stop] > 0
                    THEN [mem EXCEPT !.cursor[l] = looks[stop] + 1] ELSE mem
           item == [period |-> Place(stop), ai |-> l # "daily" \/ Place(stop) = y]
           chosen == [moved EXCEPT !.pending[l] = item]
<1>1. /\ Quiet /\ At(i, "work") /\ l \in ReportLanes
      /\ InTurn(i).pending[l] = NoItem /\ cut <= Len(looks)
  BY DEF Search, Quiet
<1>2. IF l # "daily" /\ ~Ready(y) THEN cut = 0 /\ Pass(i, mem)
      ELSE IF hits # {} THEN Save(i, chosen, "run")
      ELSE IF cut = Len(looks) THEN Pass(i, moved)
      ELSE ~IsDeferred(mem, l, Place(stop)) /\ Save(i, moved, "release")
  BY DEF Search
<1>3. mem \in States /\ inv[i] \in Calls /\ y \in 0 .. MaxDay + 1 /\ day \in 1 .. MaxDay
  BY CallTypes
<1>4. mem.pending[l] = NoItem
  BY <1>1, NothingInWork
<1> HIDE DEF l, mem, y
<1>5. /\ Len(listed) \in 0 .. MaxDay /\ listed \in Seq(1 .. MaxDay)
      /\ \A k \in 1 .. Len(listed) : listed[k] \in 1 .. MaxDay
  BY <1>1, <1>3, ListedValue
<1>6. /\ Len(looks) \in Nat
      /\ \A k \in 1 .. Len(looks) : looks[k] \in 0 .. Len(listed) - 1
  <2>1. CASE listed = <<>>
    BY <2>1
  <2>2. CASE listed # <<>>
    <3>1. Len(listed) \in Nat \ {0}
      <4> HIDE DEF listed
      <4>1. QED
        BY <1>5, <2>2
    <3>2. mem.cursor[l] \in Nat \ {0}
      BY <1>1, <1>3, Constants DEF States
    <3>3. QED
      BY <2>2, <3>1, <3>2, LooksValue
  <2>3. QED
    BY <2>1, <2>2
<1> HIDE DEF listed, looks
<1>7. stop \in 0 .. Len(looks) /\ (hits # {} => stop \in hits)
  <2>1. CASE hits = {}
    <3>1. cut \in Nat /\ Len(looks) \in Nat /\ cut <= Len(looks)
      BY <1>1, <1>6, Constants
    <3>2. stop = IF cut < Len(looks) THEN cut + 1 ELSE cut
      BY <2>1
    <3> HIDE DEF hits, stop
    <3>3. QED
      BY <2>1, <3>1, <3>2
  <2>2. CASE hits # {}
    <3>1. hits \in SUBSET Nat /\ hits \subseteq 1 .. cut
      OBVIOUS
    <3>2. cut \in Nat /\ Len(looks) \in Nat /\ cut <= Len(looks)
      BY <1>1, <1>6, Constants
    <3>3. stop = Min(hits)
      BY <2>2
    <3> HIDE DEF hits, stop
    <3>4. Min(hits) \in hits
      BY <2>2, <3>1, MinOf
    <3>5. stop \in 1 .. cut /\ stop \in hits
      BY <3>1, <3>3, <3>4
    <3>6. QED
      BY <3>2, <3>5
  <2>3. QED
    BY <2>1, <2>2
<1> HIDE DEF stop
<1>8. moved \in States /\ moved.pending = mem.pending /\ moved.deferred = mem.deferred
  <2>1. CASE stop > 0 /\ looks[stop] > 0
    <3>1. looks[stop] + 1 \in 1 .. MaxDay
      BY <1>5, <1>6, <1>7, <2>1, Constants
    <3> DEFINE cursor == [mem.cursor EXCEPT ![l] = looks[stop] + 1]
    <3>2. cursor \in [ReportLanes -> 1 .. MaxDay]
      BY <1>3, <3>1 DEF States
    <3>3. moved = [mem EXCEPT !.cursor = cursor]
      BY <2>1
    <3> HIDE DEF cursor, moved
    <3>4. QED
      BY <1>3, <3>2, <3>3 DEF States
  <2>2. CASE ~(stop > 0 /\ looks[stop] > 0)
    BY <1>3, <2>2
  <2>3. QED
    BY <2>1, <2>2
<1> HIDE DEF moved
<1>9. holder = i => Once(moved) /\ Whole(moved) /\ Keeps(saved, moved)
  BY <1>1, <1>8, Known, SameWork DEF At, mem
<1>10. CASE l # "daily" /\ ~Ready(y)
  <2>1. Pass(i, mem)
    BY <1>2, <1>10
  <2>2. holder = i => Once(mem) /\ Whole(mem) /\ Keeps(saved, mem)
    BY <1>1, SaveUnchanged DEF At, mem
  <2>3. QED
    BY <1>1, <1>3, <2>1, <2>2, PassStep
<1>11. CASE Pass(i, moved)
  BY <1>1, <1>8, <1>9, <1>11, PassStep
<1>12. CASE Save(i, moved, "release")
  BY <1>1, <1>8, <1>9, <1>12, SaveStep DEF Steps
<1>13. CASE hits # {} /\ Save(i, chosen, "run") /\ (l # "daily" => Ready(y))
  <2>1. stop \in 1 .. Len(looks) /\ Needed(mem, l, Place(stop), y)
    BY <1>1, <1>6, <1>7, <1>13
  <2>2. Place(stop) \in 1 .. MaxDay
    BY <1>5, <1>6, <2>1
  <2>3. item \in Items /\ item.period = Place(stop)
    BY <2>2 DEF Items
  <2> DEFINE s == mem.deferred[l]
  <2>4. chosen = Changed(moved, l, item, s)
    BY <1>1, <1>8, UnchangedDeferred
  <2> HIDE DEF hits, item, Place, chosen
  <2>5. s \in Seq(Items)
    BY <1>1, <1>3 DEF States
  <2>6. WorkOf(mem, l) = Entries(NoItem, s)
    BY <1>4, WorkIsEntries
  <2>7. \A k \in DOMAIN s : s[k].period # item.period
    BY <2>1, <2>3 DEF Needed, IsDeferred
  <2>8. Ripe(l, item.period)
    BY <1>1, <1>13, <2>1, <2>3, NeededIsRipe DEF mem, y
  <2> HIDE DEF s
  <2>9. Entries(item, s) = Entries(NoItem, s) \cup {item}
    BY <2>3, NoItemFacts DEF Entries
  <2>10. holder = i => Apart(item, s)
    <3>1. holder = i => Apart(NoItem, s)
      BY <1>1, <1>4, Known DEF At, Once, mem, s
    <3>2. QED
      BY <2>3, <2>5, <2>7, <3>1, ChosenOnce
  <2>11. /\ \A x \in WorkOf(mem, l) : x \in Entries(item, s)
         /\ \A x \in Entries(item, s) : x \in WorkOf(mem, l) \/ Ripe(l, x.period)
    BY <2>6, <2>8, <2>9
  <2>12. /\ chosen \in States /\ chosen.pending[l] = item
         /\ holder = i => Once(chosen) /\ Whole(chosen) /\ Keeps(saved, chosen)
    BY <1>1, <1>8, <2>3, <2>4, <2>5, <2>10, <2>11, LaneChangedFrom DEF At, mem
  <2>13. item # NoItem
    BY <2>3, NoItemFacts
  <2>14. inv'[i] = [inv[i] EXCEPT !.mem = chosen, !.step = "run"] => Turning(i)'
    BY <1>1, <2>12, <2>13, Working DEF l
  <2>15. QED
    BY <1>1, <1>13, <2>12, <2>14, SaveStep DEF Steps
<1>14. QED
  BY <1>2, <1>10, <1>11, <1>12, <1>13

LEMMA EndSteps ==
    ASSUME Inv, NEW i \in Invocations, Release(i) \/ Crash(i)
    PROVE  Inv' /\ Kept
<1>1. /\ inv' = [inv EXCEPT ![i] = Idle] /\ UNCHANGED <<saved, stored, day, stalls>>
      /\ holder' \in {holder, Nobody} /\ crashes' \in 0 .. MaxCrashes
  BY LimitsAssumption DEF Inv, TypeOK, Release, Crash
<1>2. /\ inv' \in [Invocations -> Calls] /\ inv'[i] = Idle
      /\ \A j \in Invocations : j # i => inv'[j] = inv[j]
  BY <1>1, StateTypes, CallValue
<1>3. TypeOK'
  BY <1>1, <1>2 DEF Inv, TypeOK
<1>4. Once(saved)' /\ Whole(saved)'
  BY <1>1, CallTypes DEF Once, Apart, Whole, WorkOf, Ripe, DaysOf, FirstDay
<1>5. Turning(i)' /\ Fenced(i)'
  BY <1>2 DEF Turning, Fenced, At, Idle
<1>6. ASSUME NEW j \in Invocations, j # i
      PROVE  Turning(j)' /\ Fenced(j)'
  BY <1>1, <1>2, <1>6, OthersKeep, InvocationsAssumption
<1>7. QED
  BY <1>1, <1>3, <1>4, <1>5, <1>6 DEF Inv, Kept, WorkOf

LEMMA ClockSteps ==
    ASSUME Inv, Expire \/ Tomorrow
    PROVE  Inv' /\ Kept
<1>1. /\ UNCHANGED <<saved, inv, stored, crashes>> /\ holder' \in {holder, Nobody}
      /\ day' \in 1 .. MaxDay /\ day <= day' /\ stalls' \in 0 .. MaxStalls
  BY Constants, LimitsAssumption DEF Inv, TypeOK, Expire, Tomorrow
<1>2. TypeOK'
  BY <1>1 DEF Inv, TypeOK
<1>3. Once(saved)' /\ Whole(saved)'
  <2>1. Once(saved) /\ Whole(saved) /\ day \in Nat /\ day' \in Nat
    BY <1>1 DEF Inv, TypeOK
  <2>2. Whole(saved)'
    BY <1>1, <2>1, StoredKeeps DEF Whole, WorkOf, Ripe
  <2>3. QED
    BY <1>1, <2>1, <2>2 DEF Once, Apart
<1>4. ASSUME NEW j \in Invocations
      PROVE  Turning(j)' /\ Fenced(j)'
  BY <1>1, <1>4, OthersKeep, InvocationsAssumption
<1>5. QED
  BY <1>1, <1>2, <1>3, <1>4 DEF Inv, Kept, WorkOf

-----------------------------------------------------------------------------
(* The theorems.                                                           *)

(* Each phase of a timer call, a crash, the end of a lease and the turn of *)
(* the day keep the invariant and forget no work.                          *)
THEOREM NextInv == Inv /\ [Next]_vars => Inv' /\ Kept
<1> SUFFICES ASSUME Inv, [Next]_vars
             PROVE  Inv' /\ Kept
  OBVIOUS
<1>1. ASSUME NEW i \in Invocations, Step(i)
      PROVE  Inv' /\ Kept
  <2>1. CASE Work(i)
    BY <2>1, IdleTurnSteps, ResumeStep, RetryStep, SearchStep DEF Work
  <2>2. QED
    BY <1>1, <2>1, StartStep, SyncSteps, ChooseStep, TurnSteps, DoneStep, ForgetStep,
       UnfinishedStep, UnknownStep, EndSteps DEF Step
<1>2. CASE UNCHANGED vars
  BY <1>2 DEF vars, Inv, TypeOK, Once, Apart, Whole, WorkOf, Ripe, DaysOf, FirstDay,
              Turning, Fenced, At, Mem, Lane, Index, Kept
<1>3. QED
  BY <1>1, <1>2, EndSteps, ClockSteps DEF Next

(* The invariant holds in every state the scheduler reaches.               *)
THEOREM Invariance == Spec => []Inv
BY InitInv, NextInv, PTL DEF Spec

(* Every state has its type: the saved state stays one that the next call  *)
(* can load (_load, save).                                                 *)
THEOREM TypeCorrect == Spec => []TypeOK
<1>1. Inv => TypeOK
  BY DEF Inv
<1>2. QED
  BY Invariance, <1>1, PTL

(* A period is in work or deferred at most once, whatever is displaced,    *)
(* deferred and retried (_reports, _missing_recent_daily).                 *)
THEOREM WorkedOnce == Spec => []NoDoubleWork
<1>1. Inv => NoDoubleWork
  <2> SUFFICES ASSUME Inv, NEW l \in ReportLanes
               PROVE  /\ \A j, k \in DOMAIN saved.deferred[l] :
                            saved.deferred[l][j].period = saved.deferred[l][k].period => j = k
                      /\ ~IsDeferred(saved, l, saved.pending[l].period)
    BY DEF NoDoubleWork
  <2>1. Apart(saved.pending[l], saved.deferred[l])
    BY DEF Inv, Once
  <2>2. QED
    BY <2>1 DEF Apart, IsDeferred
<1>2. QED
  BY Invariance, <1>1, PTL

(* A long season is in work or deferred only while every day of it in the  *)
(* catch-up window has its daily report (_reports).                        *)
THEOREM WholeSeasons == Spec => []LongSeasonsAreWhole
<1>1. Inv => LongSeasonsAreWhole
  BY Constants DEF Inv, Whole, Ripe, LongSeasonsAreWhole
<1>2. QED
  BY Invariance, <1>1, PTL

(* What the saved state has in work or deferred stays, with its AI policy, *)
(* until its report is stored, through crashes and lost leases (save).     *)
THEOREM KeepsWork == Spec => WorkIsKept
<1>1. Inv /\ [Next]_vars => [Kept]_vars
  BY NextInv
<1>2. Kept <=> \A l \in ReportLanes : \A item \in WorkOf(saved, l) :
                  item \in WorkOf(saved', l) \/ item.period \in stored'[l]
  BY DEF Kept
<1>3. QED
  BY Invariance, <1>1, <1>2, PTL DEF Spec, WorkIsKept
=============================================================================
