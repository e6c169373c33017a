-------------------------- MODULE CollectionProofs --------------------------
(***************************************************************************)
(* A complete slot has lost nothing, for every device and every bound.     *)
(* The inductive invariant Inv follows a record from the service to YDB:   *)
(*                                                                         *)
(*   - what is late because the connection was lost becomes readable the   *)
(*     moment it is restored (ServiceOK);                                  *)
(*   - a row of the coverage stands for the records that were there when   *)
(*     it was read (RowsOK): an ordinary row for those that came in time,  *)
(*     one of this slot for those that came before the slot, one of a      *)
(*     recovery for those that came before the connection was restored;    *)
(*   - what the last complete slot owed is covered, its cursors follow it, *)
(*     and every loss of connection it left open is known or handled       *)
(*     (SlotOK, LossesOK);                                                 *)
(*   - a run that has no errors still has in its queues what it has not    *)
(*     covered (QueuesOK), and has noted the events before the one it      *)
(*     looks at (NotingOK).                                                *)
(***************************************************************************)
EXTENDS Collection, FiniteSetTheorems, WellFoundedInduction, TLAPS

Connected(t) == Event("connected", t) \in DOMAIN served
Disconnected(t) == Event("disconnected", t) \in DOMAIN served
Late(r) == served[r] # r.at

\* Nothing is known of what is older.
Floor == Max({slot.since, slot.ref - Horizon})

ServiceOK ==
    /\ \A r \in DOMAIN served : r.at <= served[r] /\ served[r] <= now
    /\ \A r \in DOMAIN served : r.source = "raw_events" => ~Late(r)
    /\ \A r \in DOMAIN served \cup buffered : r.source # "raw_events" => r.at < now
    /\ \A r \in buffered : r.source # "raw_events"
    /\ link = "up" => \A d \in 0 .. now : Disconnected(d) => \E c \in d .. now : Connected(c)
    /\ \A r \in buffered, d \in 0 .. now :
          CutOff(d, r.at) => \A c \in d .. now : ~Connected(c)
    /\ \A r \in DOMAIN served, d \in 0 .. now :
          CutOff(d, r.at) /\ Late(r) =>
              Connected(served[r]) /\ \A c \in d .. served[r] - 1 : ~Connected(c)

In(r, k) == r.source = k.source /\ k.lo <= r.at /\ r.at < k.hi

RowsOK ==
    /\ \A k \in coverage : k.hi <= slot.ref /\ k.tag <= now
    /\ \A k \in coverage \ checked : k.hi <= slot.done
    /\ \A k \in coverage, r \in DOMAIN served :
          In(r, k) /\ (~Late(r) \/ served[r] < k.tag \/ (k \in checked /\ served[r] < slot.ref))
              => r \in stored
    /\ \A k \in coverage : k.tag = Ordinary => k.hi <= cursors[k.source]
    /\ \A s \in Sources : cursors[s] <= slot.ref

SlotOK ==
    /\ slot.done <= slot.ref /\ slot.ref <= now
    /\ slot.open \/ slot.done # Never => slot.since # Never
    /\ ~slot.open => Idle /\ (slot.done = slot.ref \/ (slot = NoSlot /\ coverage = {}))
    /\ slot.open =>
          /\ slot.ref > 0
          /\ slot.start <= slot.ref - Overlap \/ slot.start = 0
          /\ slot.start <= IF slot.done = Never THEN slot.since ELSE slot.done
    /\ slot.done # Never =>
          \A s \in Sources :
              /\ cursors[s] >= slot.done
              /\ \A t \in Floor .. slot.done - 1 : t \in Covered(Ordinary, s)
    /\ \A r \in slot.owed :
          /\ r \in DOMAIN served /\ served[r] < slot.ref /\ r.at >= Floor
          /\ \/ ~Late(r) \/ r.at >= slot.ref - Overlap
             \/ \E d \in Floor .. now : CutOff(d, r.at)

RecoveryOK(state) ==
    /\ \A t \in {state.restore, state.handled} : t # Never => t < slot.ref /\ Connected(t)
    /\ state.restore # Never => state.start # Never /\ state.handled < state.restore
    /\ state.open # Never => state.open > state.restore

\* A loss of connection before the last complete slot is not forgotten.
Known(state, d) ==
    \/ (state.open # Never /\ state.open <= d)
    \/ (state.restore # Never /\ state.start <= d /\ d <= state.restore)
    \/ d <= state.handled
    \/ \E c \in d .. slot.done - 1 : Connected(c)

LossesOK ==
    /\ \A d \in Floor .. slot.done - 1 : Disconnected(d) => Known(recovery, d)
    /\ \A r \in DOMAIN served, d \in Floor .. now :
          CutOff(d, r.at) /\ Late(r) /\ r.at < slot.done
            /\ (served[r] <= recovery.handled \/ served[r] < slot.done)
          => r \in stored

UnitsOf(queue) == UNION {Units(w[1], w[2]) : w \in queue}
Pending(s) == UnitsOf(run.queues[s])

\* Covered, or still to be asked.
Accounted(tag, start, end) ==
    \A s \in Sources, t \in start .. end - 1 :
        t >= slot.ref - Horizon => t \in Covered(tag, s) \cup Pending(s)
Rechecked ==
    \A s \in Sources, t \in run.start .. slot.ref - 1 :
        t >= slot.ref - Overlap => t \in CoveredBy(checked, Ordinary, s) \cup Pending(s)
AllCovered ==
    \A s \in Sources, t \in run.start .. slot.ref - 1 :
        /\ t >= slot.ref - Horizon => t \in Covered(Ordinary, s)
        /\ t >= slot.ref - Overlap => t \in CoveredBy(checked, Ordinary, s)

\* The windows of a run are proper and not newer than the reference.
WindowsOK == \A s \in Sources : \A w \in run.queues[s] : w[1] < w[2] /\ w[2] <= slot.ref

QueuesOK ==
    /\ run.phase # "idle" => slot.open /\ run.start <= slot.start
    /\ WindowsOK
    /\ run.phase = "recover" =>
          /\ recovery.restore # Never /\ run.tag = RecoveryTag(recovery.restore)
          /\ run.errors \/ Accounted(run.tag, ReplayStart,
                                     Min({slot.ref, recovery.restore + Overlap}))
    /\ run.phase = "collect" =>
          /\ run.tag = Ordinary
          /\ run.errors \/ (Accounted(Ordinary, run.start, slot.ref) /\ Rechecked)
    /\ run.phase \in {"record", "note", "done"} /\ run.complete => AllCovered

Seen(e) == e \in stored /\ e.source = "raw_events" /\ e.at \in Units(run.start, slot.ref)
               /\ e \notin run.events

\* What the events that were looked at have left.
Passed(state) ==
    \A e \in stored : Seen(e) =>
        /\ e.type = "connected" =>
              state.open = Never \/ e.at < state.open
                \/ e.at <= state.handled \/ e.at <= state.restore
        /\ e.type = "disconnected" =>
              state.restore # Never \/ e.at <= state.handled
                \/ (state.open # Never /\ state.open <= e.at)

NotingOK ==
    /\ run.phase = "note" =>
          /\ run.events \subseteq stored
          /\ \A e \in run.events : e.source = "raw_events" /\ e.at \in Units(run.start, slot.ref)
          /\ \A e \in stored : Seen(e) => \A other \in run.events : Before(e, other)
          /\ RecoveryOK(run.noted) /\ run.noted.handled = recovery.handled
          /\ Passed(run.noted)
          /\ \A d \in Floor .. slot.done - 1 : Disconnected(d) =>
                \/ Known(run.noted, d)
                \/ /\ Event("disconnected", d) \in run.events
                   /\ d > run.noted.handled /\ d > run.noted.restore
    /\ run.phase = "done" => run.events = {} /\ Passed(recovery)
                             /\ (run.complete => recovery.restore = Never)

Inv ==
    /\ TypeOK
    /\ ServiceOK /\ RowsOK /\ SlotOK
    /\ RecoveryOK(recovery) /\ LossesOK
    /\ QueuesOK /\ NotingOK

-----------------------------------------------------------------------------
(* Numbers.                                                                *)

LEMMA Bounds ==
    /\ {Overlap, Window, Limit, Horizon, MaxRequests} \subseteq Nat \ {0}
    /\ {Day, MaxTime, MaxOutages, MaxFaults} \subseteq Nat
BY BoundsAssumption

BelowNat == {p \in Nat \X Nat : p[1] < p[2]}

LEMMA BelowWellFounded == IsWellFoundedOn(BelowNat, Nat)
BY NatLessThanWellFounded, Zenon DEF OpToRel, BelowNat

\* A set of integers with a lower bound has a least element.
LEMMA LeastExists ==
    ASSUME NEW S \in SUBSET Int, S # {}, NEW b \in Int, \A x \in S : b <= x
    PROVE  \E m \in S : \A x \in S : m <= x
<1> DEFINE T == {n \in Nat : n + b \in S}
<1>1. PICK y \in S : TRUE
  OBVIOUS
<1>2. y - b \in T
  BY <1>1
<1>3. T \subseteq Nat /\ T # {}
  BY <1>2
<1> HIDE DEF T
<1>4. \E n \in T : \A x \in T : ~ (<<x, n>> \in BelowNat)
  BY <1>3, WFMin, BelowWellFounded, Zenon
<1>5. PICK n \in T : \A x \in T : ~ (<<x, n>> \in BelowNat)
  BY <1>4
<1>6. ASSUME NEW x \in T PROVE n <= x
  <2>1. <<x, n>> \notin BelowNat /\ x \in Nat /\ n \in Nat
    BY <1>3, <1>5, Zenon
  <2> QED
    BY <2>1 DEF BelowNat
<1>7. n + b \in S /\ \A x \in S : x - b \in T
  BY DEF T
<1> QED
  BY <1>6, <1>7, <1>3

LEMMA MinValue ==
    ASSUME NEW S \in SUBSET Int, S # {}, NEW b \in Int, \A x \in S : b <= x
    PROVE  Min(S) \in S /\ \A x \in S : Min(S) <= x
BY LeastExists DEF Min

LEMMA MaxValue ==
    ASSUME NEW S \in SUBSET Int, S # {}, NEW b \in Int, \A x \in S : x <= b
    PROVE  Max(S) \in S /\ \A x \in S : x <= Max(S)
<1> DEFINE T == {-x : x \in S}
<1>1. T \in SUBSET Int /\ T # {} /\ \A y \in T : -b <= y
  <2>1. \A x \in S : -x \in Int /\ -b <= -x
    OBVIOUS
  <2>2. \A y \in T : \E x \in S : y = -x
    OBVIOUS
  <2>3. T # {}
    OBVIOUS
  <2> HIDE DEF T
  <2> QED
    BY <2>1, <2>2, <2>3
<1> HIDE DEF T
<1>2. \E m \in T : \A y \in T : m <= y
  <2>1. -b \in Int
    OBVIOUS
  <2> QED
    BY <1>1, <2>1, LeastExists, Zenon
<1>3. PICK m \in T : \A y \in T : m <= y
  BY <1>2
<1>4. PICK n \in S : m = -n
  BY <1>3 DEF T
<1>5. ASSUME NEW x \in S PROVE x <= n
  <2>1. -x \in T
    BY DEF T
  <2>2. m <= -x
    BY <1>3, <2>1
  <2> QED
    BY <2>2, <1>4
<1>6. \E z \in S : \A x \in S : z >= x
  BY <1>5
<1> QED
  BY <1>6 DEF Max

LEMMA Min2 ==
    ASSUME NEW a \in Int, NEW b \in Int
    PROVE  Min({a, b}) = IF a <= b THEN a ELSE b
<1>1. Min({a, b}) \in {a, b} /\ \A x \in {a, b} : Min({a, b}) <= x
  <2>1. \A x \in {a, b} : (IF a <= b THEN a ELSE b) <= x
    OBVIOUS
  <2> QED
    BY <2>1, MinValue
<1> QED
  BY <1>1

LEMMA Max2 ==
    ASSUME NEW a \in Int, NEW b \in Int
    PROVE  Max({a, b}) = IF a <= b THEN b ELSE a
<1>1. Max({a, b}) \in {a, b} /\ \A x \in {a, b} : x <= Max({a, b})
  <2>1. \A x \in {a, b} : x <= IF a <= b THEN b ELSE a
    OBVIOUS
  <2> QED
    BY <2>1, MaxValue
<1> QED
  BY <1>1

LEMMA OrderLength == Len(Order) \in Nat \ {0}
<1>1. Cardinality(History) \in Nat /\ ExistsBijection(1 .. Cardinality(History), History)
  BY HistoryAssumption, FS_CardinalityType
<1>2. \E f \in [1 .. Cardinality(History) -> History] : IsInjective(f)
  BY <1>1 DEF ExistsBijection, Bijection, Injection, IsInjective
<1>3. SetToSeq(History) \in [1 .. Cardinality(History) -> History]
  BY <1>2 DEF SetToSeq
<1>4. SetToSeq(History) \in Seq(History)
  BY <1>1, <1>3
<1> QED
  BY <1>4 DEF Order

LEMMA Moduli ==
    ASSUME NEW k \in Int
    PROVE  k % Len(Order) \in Turns
BY OrderLength DEF Turns

-----------------------------------------------------------------------------
(* Units, rows and windows.                                                *)

LEMMA UnitsMember ==
    ASSUME NEW lo \in Int, NEW hi \in Int, NEW t
    PROVE  t \in Units(lo, hi) <=> t \in Int /\ lo <= t /\ t < hi
BY DEF Units

LEMMA CoveredMember ==
    ASSUME NEW rows \in SUBSET Rows, NEW tag, NEW s, NEW t
    PROVE  t \in CoveredBy(rows, tag, s) <=>
              \E k \in rows : /\ k.tag = tag /\ k.source = s
                              /\ t \in Int /\ k.lo <= t /\ t < k.hi
<1>1. \A k \in rows : k.lo \in Int /\ k.hi \in Int
  BY Bounds DEF Rows
<1>2. \A k \in rows : t \in Units(k.lo, k.hi) <=> t \in Int /\ k.lo <= t /\ t < k.hi
  BY <1>1, UnitsMember
<1>3. t \in CoveredBy(rows, tag, s) <=>
         \E k \in rows : k.tag = tag /\ k.source = s /\ t \in Units(k.lo, k.hi)
  BY DEF CoveredBy
<1> QED
  BY <1>2, <1>3

LEMMA QueueMember ==
    ASSUME NEW queue \in SUBSET (Int \X Int), NEW t
    PROVE  t \in UnitsOf(queue) <=>
              \E w \in queue : t \in Int /\ w[1] <= t /\ t < w[2]
<1>1. \A w \in queue : t \in Units(w[1], w[2]) <=> t \in Int /\ w[1] <= t /\ t < w[2]
  BY UnitsMember
<1>2. t \in UnitsOf(queue) <=> \E w \in queue : t \in Units(w[1], w[2])
  BY DEF UnitsOf
<1> QED
  BY <1>1, <1>2

\* Every unit of a bounded set is in one of its maximal intervals.
LEMMA IntervalsValue ==
    ASSUME NEW units \in SUBSET Int, NEW a \in Int, NEW b \in Int,
           \A t \in units : a <= t /\ t < b
    PROVE  /\ Intervals(units) \in SUBSET (Int \X Int)
           /\ \A w \in Intervals(units) : a <= w[1] /\ w[1] < w[2] /\ w[2] <= b
           /\ units \subseteq UnitsOf(Intervals(units))
<1>0. ASSUME NEW w \in Intervals(units)
      PROVE  w \in Int \X Int /\ a <= w[1] /\ w[1] < w[2] /\ w[2] <= b
  <2>1. w \in units \X {t + 1 : t \in units} /\ w[1] < w[2]
    BY Zenon DEF Intervals
  <2>2. w[1] \in units /\ w[2] \in {t + 1 : t \in units} /\ w = <<w[1], w[2]>>
    BY <2>1
  <2>3. PICK v \in units : w[2] = v + 1
    BY <2>2
  <2>4. w[1] \in Int /\ w[2] \in Int /\ a <= w[1] /\ w[2] <= b
    BY <2>2, <2>3
  <2> QED
    BY <2>1, <2>2, <2>4
<1>1. Intervals(units) \in SUBSET (Int \X Int)
  BY <1>0
<1>2. ASSUME NEW w \in Intervals(units) PROVE a <= w[1] /\ w[1] < w[2] /\ w[2] <= b
  BY <1>0
<1>3. ASSUME NEW t \in units PROVE t \in UnitsOf(Intervals(units))
  <2> DEFINE L == {x \in Int : x <= t /\ x .. t \subseteq units}
             H == {y \in Int : t < y /\ y \notin units}
  <2>1. t \in L /\ \A x \in L : a <= x
    <3>1. t .. t = {t}
      OBVIOUS
    <3>2. \A x \in Int : x <= t => x \in x .. t
      OBVIOUS
    <3> QED
      BY <3>1, <3>2
  <2>2. b \in H /\ \A y \in H : t <= y
    OBVIOUS
  <2>3. PICK lo \in L : \A x \in L : lo <= x
    <3>1. L \in SUBSET Int /\ L # {}
      BY <2>1
    <3> HIDE DEF L
    <3> QED
      BY <2>1, <3>1, LeastExists
  <2>4. PICK hi \in H : \A y \in H : hi <= y
    <3>1. H \in SUBSET Int /\ H # {}
      BY <2>2
    <3> HIDE DEF H
    <3> QED
      BY <2>2, <3>1, LeastExists
  <2>5. lo - 1 \notin units
    <3>1. SUFFICES ASSUME lo - 1 \in units PROVE FALSE
      OBVIOUS
    <3>2. (lo - 1) .. t \subseteq units
      BY <2>3, <3>1
    <3> QED
      BY <2>3, <3>2
  <2>6. Units(lo, hi) \subseteq units
    BY <2>3, <2>4 DEF Units
  <2>7. hi - 1 \in units /\ lo \in units
    BY <2>3, <2>4, <2>6, UnitsMember
  <2>8. <<lo, hi>> \in Intervals(units)
    <3>1. lo < hi /\ lo \in Int /\ hi \in Int /\ lo <= t /\ t < hi /\ hi \notin units
      BY <2>3, <2>4
    <3>2. hi \in {x + 1 : x \in units}
      BY <2>7, <3>1
    <3> HIDE DEF L, H
    <3> QED
      BY <2>5, <2>6, <2>7, <3>1, <3>2 DEF Intervals
  <2>9. lo \in Int /\ hi \in Int /\ lo <= t /\ t < hi
    BY <2>3, <2>4
  <2> HIDE DEF L, H
  <2> QED
    BY <1>1, <2>8, <2>9, QueueMember
<1> QED
  BY <1>1, <1>2, <1>3

LEMMA FirstGapValue ==
    ASSUME NEW queue \in SUBSET (Nat \X Nat), queue # {}
    PROVE  FirstGap(queue) \in queue
<1> DEFINE S == {n \in Nat : \E gap \in queue : gap[1] = n}
<1>1. S \in SUBSET Int /\ S # {} /\ \A x \in S : 0 <= x
  <2>1. PICK gap \in queue : gap[1] \in Nat
    OBVIOUS
  <2> QED
    BY <2>1
<1>2. \A gap \in queue : gap[1] \in S
  OBVIOUS
<1>3. \A n \in S : \E gap \in queue : gap[1] = n
  OBVIOUS
<1> HIDE DEF S
<1>4. PICK m \in S : \A x \in S : m <= x
  <2>1. 0 \in Int
    OBVIOUS
  <2> QED
    BY <1>1, <2>1, LeastExists, Zenon
<1>5. \E gap \in queue : \A other \in queue : gap[1] <= other[1]
  <2>1. PICK gap \in queue : gap[1] = m
    BY <1>3, <1>4
  <2> QED
    BY <1>2, <1>4, <2>1
<1> QED
  BY <1>5 DEF FirstGap

\* Taking a window off the head of a queue loses only the window.
LEMMA AfterValue ==
    ASSUME NEW queue \in SUBSET (Nat \X Nat), queue # {}, NEW w \in Nat \X Nat,
           w[1] = FirstGap(queue)[1], w[2] <= FirstGap(queue)[2]
    PROVE  /\ After(queue, w) \in SUBSET (Nat \X Nat)
           /\ \A v \in After(queue, w) :
                 v \in queue \/ (v[1] < v[2] /\ v[2] = FirstGap(queue)[2])
           /\ UnitsOf(queue) \subseteq UnitsOf(After(queue, w)) \cup Units(w[1], w[2])
<1> DEFINE gap == FirstGap(queue)
<1>1. gap \in queue /\ gap[1] \in Nat /\ gap[2] \in Nat
  BY FirstGapValue
<1> HIDE DEF gap
<1>2. After(queue, w) = (queue \ {gap}) \cup IF w[2] < gap[2] THEN {<<w[2], gap[2]>>} ELSE {}
  BY DEF After, gap
<1>3. w[1] = gap[1] /\ w[2] <= gap[2] /\ w[1] \in Nat /\ w[2] \in Nat
  BY DEF gap
<1>4. After(queue, w) \in SUBSET (Nat \X Nat)
  BY <1>1, <1>2, <1>3
<1>5. \A v \in After(queue, w) : v \in queue \/ (v[1] < v[2] /\ v[2] = gap[2])
  BY <1>2
<1>6. ASSUME NEW t \in UnitsOf(queue), t \notin Units(w[1], w[2])
      PROVE  t \in UnitsOf(After(queue, w))
  <2>1. PICK v \in queue : t \in Int /\ v[1] <= t /\ t < v[2]
    BY QueueMember
  <2>2. CASE v # gap
    BY <1>2, <1>4, <2>1, <2>2, QueueMember
  <2>3. CASE v = gap
    <3>1. w[2] <= t
      BY <1>3, <1>6, <2>1, <2>3, UnitsMember
    <3>2. <<w[2], gap[2]>> \in After(queue, w)
      BY <1>1, <1>2, <1>3, <2>1, <2>3, <3>1
    <3>3. <<w[2], gap[2]>>[1] <= t /\ t < <<w[2], gap[2]>>[2]
      BY <2>1, <2>3, <3>1
    <3> QED
      BY <1>4, <2>1, <3>2, <3>3, QueueMember
  <2> QED
    BY <2>2, <2>3
<1> QED
  BY <1>4, <1>5, <1>6 DEF gap

-----------------------------------------------------------------------------
(* Types.                                                                  *)

LEMMA RecordTypes ==
    ASSUME NEW r \in Records
    PROVE  /\ r.at \in Nat /\ r.at <= MaxTime /\ r.source \in Sources
           /\ r.source = "raw_events" =>
                 /\ r.type \in {"connected", "disconnected"}
                 /\ r = Event(r.type, r.at)
<1>1. CASE \E s \in History, t \in 0 .. MaxTime : r = Record(s, t)
  BY <1>1, Bounds, HistoryAssumption DEF Record, Sources
<1>2. CASE \E type \in {"disconnected", "connected"}, t \in 0 .. MaxTime : r = Event(type, t)
  BY <1>2, Bounds DEF Event, Sources
<1>3. \/ r \in {Record(s, t) : s \in History, t \in 0 .. MaxTime}
      \/ r \in {Event(type, t) : type \in {"disconnected", "connected"}, t \in 0 .. MaxTime}
  BY DEF Records
<1>4. ASSUME r \in {Record(s, t) : s \in History, t \in 0 .. MaxTime}
      PROVE  \E s \in History, t \in 0 .. MaxTime : r = Record(s, t)
  BY <1>4
<1>5. ASSUME r \in {Event(type, t) : type \in {"disconnected", "connected"}, t \in 0 .. MaxTime}
      PROVE  \E type \in {"disconnected", "connected"}, t \in 0 .. MaxTime : r = Event(type, t)
  BY <1>5
<1> QED
  BY <1>1, <1>2, <1>3, <1>4, <1>5

LEMMA Types ==
    ASSUME TypeOK
    PROVE  /\ now \in Nat /\ now <= MaxTime
           /\ \A r \in DOMAIN served : r \in Records /\ served[r] \in Nat
           /\ \A r \in buffered : r \in Records /\ r \notin DOMAIN served
           /\ \A k \in coverage : {k.tag, k.lo, k.hi} \subseteq Nat /\ k.source \in Sources
           /\ \A s \in Sources : cursors[s] \in Int
           /\ {slot.ref, slot.start} \subseteq Nat /\ slot.open \in BOOLEAN
           /\ {slot.since, slot.done} \subseteq Times
           /\ {recovery.open, recovery.start, recovery.restore, recovery.handled} \subseteq Times
           /\ run.queues \in [Sources -> SUBSET (Nat \X Nat)]
           /\ run.start \in Nat /\ run.tag \in Nat
<1>1. \A k \in coverage : {k.tag, k.lo, k.hi} \subseteq Nat /\ k.source \in Sources
  BY Bounds DEF TypeOK, Rows
<1>2. run.queues \in [Sources -> SUBSET (Nat \X Nat)]
  <2>1. run.queues \in [Sources -> SUBSET ((0 .. MaxTime) \X (0 .. MaxTime))]
    BY DEF TypeOK, Runs
  <2>2. (0 .. MaxTime) \X (0 .. MaxTime) \subseteq Nat \X Nat
    BY Bounds
  <2> QED
    BY <2>1, <2>2, Zenon
<1>3. /\ now \in Nat /\ now <= MaxTime
      /\ \A r \in DOMAIN served : r \in Records /\ served[r] \in Nat
      /\ \A r \in buffered : r \in Records /\ r \notin DOMAIN served
      /\ \A s \in Sources : cursors[s] \in Int
  BY Bounds DEF TypeOK, Times, Never
<1>4. /\ {slot.ref, slot.start} \subseteq Nat /\ slot.open \in BOOLEAN
      /\ {slot.since, slot.done} \subseteq Times
  BY Bounds DEF TypeOK, Slots
<1>5. /\ {recovery.open, recovery.start, recovery.restore, recovery.handled} \subseteq Times
      /\ run.start \in Nat /\ run.tag \in Nat
  BY Bounds DEF TypeOK, Recoveries, Runs
<1> QED
  BY <1>1, <1>2, <1>3, <1>4, <1>5

LEMMA TimeValue == \A t \in Times : t \in Int /\ t >= Never /\ t <= MaxTime /\ (t # Never => t \in Nat)
BY Bounds DEF Times, Never

LEMMA EventNames == "connected" # "disconnected"
OBVIOUS

LEMMA WindowValue ==
    ASSUME TypeOK, WindowsOK, NEW s \in Sources, run.queues[s] # {}
    PROVE  /\ FirstWindow(s) \in Nat \X Nat
           /\ FirstWindow(s)[1] < FirstWindow(s)[2] /\ FirstWindow(s)[2] <= slot.ref
           /\ FirstWindow(s)[2] - FirstWindow(s)[1] <= Window
           /\ FirstWindow(s)[1] = FirstGap(run.queues[s])[1]
           /\ FirstWindow(s)[2] <= FirstGap(run.queues[s])[2]
<1> DEFINE gap == FirstGap(run.queues[s])
<1>1. run.queues[s] \in SUBSET (Nat \X Nat)
  BY Types
<1>2. gap \in run.queues[s] /\ gap \in Nat \X Nat /\ gap[1] < gap[2] /\ gap[2] <= slot.ref
  BY <1>1, FirstGapValue DEF WindowsOK
<1>3. run.win[s] \in 1 .. Window
  BY DEF TypeOK, Runs
<1>4. slot.ref \in Nat /\ Window \in Nat
  BY Types, Bounds
<1>5. FirstWindow(s) = <<gap[1], Min({gap[1] + run.win[s], gap[2]})>>
  BY DEF FirstWindow
<1> HIDE DEF gap
<1>6. Min({gap[1] + run.win[s], gap[2]})
        = IF gap[1] + run.win[s] <= gap[2] THEN gap[1] + run.win[s] ELSE gap[2]
  BY <1>2, <1>3, Min2
<1> QED
  BY <1>2, <1>3, <1>4, <1>5, <1>6 DEF gap

\* What a request takes from the queues.
LEMMA RequestFacts ==
    ASSUME TypeOK, WindowsOK, NEW k \in Turns, Chosen(k),
           NEW w, w = FirstWindow(Turn(k)), NEW sources, sources = Bundle(Turn(k))
    PROVE  /\ Turn(k) \in sources /\ sources \subseteq Sources
           /\ w \in Nat \X Nat /\ w[1] < w[2] /\ w[2] <= slot.ref /\ w[2] - w[1] <= Window
           /\ \A s \in sources :
                 /\ After(run.queues[s], w) \in SUBSET (Nat \X Nat)
                 /\ \A v \in After(run.queues[s], w) : v[1] < v[2] /\ v[2] <= slot.ref
                 /\ UnitsOf(run.queues[s])
                       \subseteq UnitsOf(After(run.queues[s], w)) \cup Units(w[1], w[2])
<1>1. Turn(k) \in Waiting
  BY Zenon DEF Chosen, Eligible, Due
<1>2. sources \subseteq Waiting /\ Turn(k) \in sources /\ \A s \in sources : FirstWindow(s) = w
  BY <1>1 DEF Bundle
<1>3. Waiting \subseteq Sources /\ \A s \in Waiting : run.queues[s] # {}
  BY DEF Waiting
<1>4. w \in Nat \X Nat /\ w[1] < w[2] /\ w[2] <= slot.ref /\ w[2] - w[1] <= Window
  BY <1>1, <1>3, WindowValue
<1>5. ASSUME NEW s \in sources
      PROVE  /\ After(run.queues[s], w) \in SUBSET (Nat \X Nat)
             /\ \A v \in After(run.queues[s], w) : v[1] < v[2] /\ v[2] <= slot.ref
             /\ UnitsOf(run.queues[s])
                   \subseteq UnitsOf(After(run.queues[s], w)) \cup Units(w[1], w[2])
  <2>1. s \in Sources /\ run.queues[s] # {} /\ FirstWindow(s) = w
    BY <1>2, <1>3
  <2>2. run.queues[s] \in SUBSET (Nat \X Nat)
    BY <2>1, Types
  <2>3. w[1] = FirstGap(run.queues[s])[1] /\ w[2] <= FirstGap(run.queues[s])[2]
    BY <2>1, WindowValue
  <2>4. /\ After(run.queues[s], w) \in SUBSET (Nat \X Nat)
        /\ \A v \in After(run.queues[s], w) :
              v \in run.queues[s] \/ (v[1] < v[2] /\ v[2] = FirstGap(run.queues[s])[2])
        /\ UnitsOf(run.queues[s])
              \subseteq UnitsOf(After(run.queues[s], w)) \cup Units(w[1], w[2])
    BY <1>4, <2>1, <2>2, <2>3, AfterValue
  <2>5. FirstGap(run.queues[s]) \in run.queues[s]
    BY <2>1, <2>2, FirstGapValue
  <2> QED
    BY <2>1, <2>4, <2>5 DEF WindowsOK
<1> QED
  BY <1>2, <1>3, <1>4, <1>5

-----------------------------------------------------------------------------
(* The device and the service.                                             *)

LEMMA ReadableValue ==
    ASSUME NEW records, served' = Readable(records)
    PROVE  /\ DOMAIN served' = DOMAIN served \cup records
           /\ \A r \in DOMAIN served : served'[r] = served[r]
           /\ \A r \in records : r \notin DOMAIN served => served'[r] = now
           /\ \A t : Connected(t)' <=> Connected(t) \/ Event("connected", t) \in records
           /\ \A t : Disconnected(t)' <=> Disconnected(t) \/ Event("disconnected", t) \in records
<1>1. DOMAIN served' = DOMAIN served \cup records
  BY DEF Readable
<1>2. \A r \in DOMAIN served' : served'[r] = IF r \in DOMAIN served THEN served[r] ELSE now
  BY <1>1 DEF Readable
<1> QED
  BY <1>1, <1>2 DEF Connected, Disconnected

LEMMA SampleNotEvent ==
    ASSUME NEW records, \A r \in records : r.source # "raw_events"
    PROVE  \A type, t : Event(type, t) \notin records
BY DEF Event

LEMMA TickSamples ==
    ASSUME NEW records \in {{}, {Record(s, now) : s \in History}}
    PROVE  \A r \in records : r.source # "raw_events" /\ r.at = now
BY HistoryAssumption DEF Record

\* Nothing is known of a time to come.
LEMMA NoFuture ==
    ASSUME TypeOK, ServiceOK, NEW t, Connected(t) \/ Disconnected(t)
    PROVE  t \in Nat /\ t <= now
<1>1. PICK r \in DOMAIN served : r.at = t /\ r.source = "raw_events"
  BY DEF Connected, Disconnected, Event
<1>2. r \in Records /\ r.at <= served[r] /\ served[r] <= now
  BY Types DEF ServiceOK
<1> QED
  BY <1>1, <1>2, RecordTypes, Types

LEMMA CutOffValue ==
    ASSUME NEW d, NEW t
    PROVE  CutOff(d, t) <=> Disconnected(d) /\ d <= t /\ \A c \in d .. t : ~Connected(c)
BY DEF CutOff, Disconnected, Connected

LEMMA TickService == ASSUME TypeOK, ServiceOK, Tick PROVE ServiceOK'
<1>1. now' = now + 1 /\ link' = link /\ now \in Nat
  BY Types DEF Tick
<1>2. PICK records \in {{}, {Record(s, now) : s \in History}} :
         \/ link = "up" /\ served' = Readable(records) /\ buffered' = buffered
         \/ link = "down" /\ buffered' = buffered \cup records /\ served' = served
         \/ link = "up" /\ buffered' = buffered \cup records /\ served' = served
  BY DEF Tick
<1>3. \A r \in records : r.source # "raw_events" /\ r.at = now
  BY TickSamples
<1>4. /\ DOMAIN served \subseteq DOMAIN served' /\ DOMAIN served' \subseteq DOMAIN served \cup records
      /\ buffered' \subseteq buffered \cup records
      /\ \A r \in DOMAIN served : served'[r] = served[r]
      /\ \A r \in DOMAIN served' : r \notin DOMAIN served => served'[r] = now
  BY <1>2, ReadableValue
<1>5. \A t : (Connected(t)' <=> Connected(t)) /\ (Disconnected(t)' <=> Disconnected(t))
  BY <1>3, <1>4, SampleNotEvent DEF Connected, Disconnected
<1>6. \A d, t : CutOff(d, t)' <=> CutOff(d, t)
  BY <1>5, CutOffValue DEF CutOff, Connected, Disconnected
<1>7. \A t : Connected(t) \/ Disconnected(t) => t \in Nat /\ t <= now
  BY NoFuture
<1>8. \A r \in DOMAIN served : served[r] \in Nat /\ r.at \in Nat
  BY Types, RecordTypes
<1>9. \A r \in DOMAIN served' : r.at <= served'[r] /\ served'[r] <= now'
  BY <1>1, <1>3, <1>4, <1>8 DEF ServiceOK
<1>10. \A r \in DOMAIN served' : r.source = "raw_events" => ~Late(r)'
  BY <1>3, <1>4 DEF ServiceOK, Late
<1>11. \A r \in DOMAIN served' \cup buffered' : r.source # "raw_events" => r.at < now'
  <2>1. \A r \in buffered : r.at \in Nat
    BY Types, RecordTypes
  <2> QED
    BY <1>1, <1>3, <1>4, <1>8, <2>1 DEF ServiceOK
<1>12. \A r \in buffered' : r.source # "raw_events"
  BY <1>3, <1>4 DEF ServiceOK
<1>13. link' = "up" => \A d \in 0 .. now' : Disconnected(d)' => \E c \in d .. now' : Connected(c)'
  BY <1>1, <1>5, <1>7 DEF ServiceOK
<1>14. ASSUME NEW r \in buffered', NEW d \in 0 .. now', CutOff(d, r.at)', NEW c \in d .. now'
       PROVE  ~Connected(c)'
  <2>1. SUFFICES ASSUME Connected(c) PROVE FALSE
    BY <1>5
  <2>2. c <= now /\ Disconnected(d) /\ d \in 0 .. now /\ CutOff(d, r.at) /\ c \in d .. now
    BY <1>1, <1>6, <1>7, <1>14, <2>1, CutOffValue
  <2>3. CASE r \in buffered
    BY <2>1, <2>2, <2>3 DEF ServiceOK
  <2>4. CASE r \in records
    <3>1. r.at = now
      BY <1>3, <2>4
    <3> QED
      BY <2>1, <2>2, <3>1, CutOffValue
  <2> QED
    BY <1>4, <2>3, <2>4
<1>15. ASSUME NEW r \in DOMAIN served', NEW d \in 0 .. now', CutOff(d, r.at)', Late(r)'
       PROVE  Connected(served[r])' /\ \A c \in d .. served'[r] - 1 : ~Connected(c)'
  <2>1. r \in DOMAIN served /\ served'[r] = served[r] /\ Late(r)
    BY <1>3, <1>4, <1>15 DEF Late
  <2>2. CutOff(d, r.at) /\ d \in 0 .. now
    BY <1>1, <1>6, <1>7, <1>15, CutOffValue
  <2>3. Connected(served[r]) /\ \A c \in d .. served[r] - 1 : ~Connected(c)
    BY <2>1, <2>2 DEF ServiceOK
  <2> QED
    BY <1>5, <2>1, <2>3
<1> QED
  BY <1>9, <1>10, <1>11, <1>12, <1>13, <1>14, <1>15 DEF ServiceOK

LEMMA ArriveService == ASSUME TypeOK, ServiceOK, Arrive PROVE ServiceOK'
<1>1. now' = now /\ link = "up" /\ link' = link /\ now \in Nat /\ buffered' = {}
      /\ served' = Readable(buffered)
  BY Types DEF Arrive
<1>2. /\ DOMAIN served' = DOMAIN served \cup buffered
      /\ \A r \in DOMAIN served : served'[r] = served[r]
      /\ \A r \in buffered : served'[r] = now /\ r.source # "raw_events" /\ r.at < now
  <2>1. \A r \in buffered : r \notin DOMAIN served
    BY Types
  <2> QED
    BY <1>1, <2>1, ReadableValue DEF ServiceOK
<1>3. \A t : (Connected(t)' <=> Connected(t)) /\ (Disconnected(t)' <=> Disconnected(t))
  BY <1>2, SampleNotEvent DEF Connected, Disconnected
<1>4. \A d, t : CutOff(d, t)' <=> CutOff(d, t)
  BY <1>3, CutOffValue DEF CutOff, Connected, Disconnected
<1>5. \A r \in DOMAIN served \cup buffered : r.at \in Nat
  BY Types, RecordTypes
<1>6. ASSUME NEW r \in DOMAIN served', NEW d \in 0 .. now', CutOff(d, r.at)', Late(r)'
      PROVE  Connected(served[r])' /\ \A c \in d .. served'[r] - 1 : ~Connected(c)'
  <2>1. CutOff(d, r.at) /\ d \in 0 .. now
    BY <1>1, <1>4, <1>6
  <2>2. CASE r \in DOMAIN served
    <3>1. Late(r) /\ served'[r] = served[r]
      BY <1>2, <1>6, <2>2 DEF Late
    <3>2. Connected(served[r]) /\ \A c \in d .. served[r] - 1 : ~Connected(c)
      BY <2>1, <2>2, <3>1 DEF ServiceOK
    <3> QED
      BY <1>3, <3>1, <3>2
  <2>3. CASE r \in buffered
    <3>1. \A c \in d .. now : ~Connected(c)
      BY <2>1, <2>3 DEF ServiceOK
    <3>2. \E c \in d .. now : Connected(c)
      BY <1>1, <2>1, CutOffValue DEF ServiceOK
    <3> QED
      BY <3>1, <3>2
  <2> QED
    BY <1>2, <2>2, <2>3
<1>7. \A r \in DOMAIN served' : r.at <= served'[r] /\ served'[r] <= now'
  BY <1>1, <1>2, <1>5 DEF ServiceOK
<1>8. \A r \in DOMAIN served' : r.source = "raw_events" => ~Late(r)'
  BY <1>2 DEF ServiceOK, Late
<1>9. \A r \in DOMAIN served' \cup buffered' : r.source # "raw_events" => r.at < now'
  BY <1>1, <1>2 DEF ServiceOK
<1>10. link' = "up" => \A d \in 0 .. now' : Disconnected(d)' => \E c \in d .. now' : Connected(c)'
  BY <1>1, <1>3 DEF ServiceOK
<1> QED
  BY <1>1, <1>6, <1>7, <1>8, <1>9, <1>10 DEF ServiceOK

LEMMA DisconnectService == ASSUME TypeOK, ServiceOK, Disconnect PROVE ServiceOK'
<1>1. now' = now /\ link' = "down" /\ now \in Nat /\ buffered' = buffered
      /\ served' = Readable({Event("disconnected", now)})
  BY Types DEF Disconnect
<1>2. /\ DOMAIN served' = DOMAIN served \cup {Event("disconnected", now)}
      /\ \A r \in DOMAIN served : served'[r] = served[r]
      /\ \A r \in DOMAIN served' : r \notin DOMAIN served =>
            served'[r] = now /\ r.source = "raw_events" /\ r.at = now
  <2> DEFINE event == Event("disconnected", now)
  <2>1. event.source = "raw_events" /\ event.at = now
    BY DEF Event
  <2> HIDE DEF event
  <2>2. /\ DOMAIN served' = DOMAIN served \cup {event}
        /\ \A r \in DOMAIN served : served'[r] = served[r]
        /\ \A r \in {event} : r \notin DOMAIN served => served'[r] = now
    BY <1>1, ReadableValue DEF event
  <2> QED
    BY <2>1, <2>2 DEF event
<1>3. /\ \A t : Connected(t)' <=> Connected(t)
      /\ \A t : Disconnected(t)' <=> Disconnected(t) \/ t = now
  BY <1>1, <1>2, EventNames DEF Connected, Disconnected, Event
<1>4. \A r \in DOMAIN served \cup buffered : r.at \in Nat
  BY Types, RecordTypes
<1>5. \A d, t : CutOff(d, t)' =>
         CutOff(d, t) \/ (d = now /\ now <= t)
  BY <1>3, CutOffValue DEF CutOff, Connected, Disconnected
<1>6. ASSUME NEW r \in DOMAIN served', NEW d \in 0 .. now', CutOff(d, r.at)', Late(r)'
      PROVE  Connected(served[r])' /\ \A c \in d .. served'[r] - 1 : ~Connected(c)'
  <2>1. r \in DOMAIN served /\ served'[r] = served[r] /\ Late(r) /\ r.source # "raw_events"
    BY <1>2, <1>6 DEF Late, ServiceOK
  <2>2. r.at < now /\ r.at \in Nat
    BY <1>4, <2>1 DEF ServiceOK
  <2>3. CutOff(d, r.at) /\ d \in 0 .. now
    BY <1>1, <1>5, <1>6, <2>2
  <2>4. Connected(served[r]) /\ \A c \in d .. served[r] - 1 : ~Connected(c)
    BY <2>1, <2>3 DEF ServiceOK
  <2> QED
    BY <1>3, <2>1, <2>4
<1>7. \A r \in DOMAIN served' : r.at <= served'[r] /\ served'[r] <= now'
  BY <1>1, <1>2 DEF ServiceOK
<1>8. \A r \in DOMAIN served' : r.source = "raw_events" => ~Late(r)'
  BY <1>2 DEF ServiceOK, Late
<1>9. \A r \in DOMAIN served' \cup buffered' : r.source # "raw_events" => r.at < now'
  BY <1>1, <1>2 DEF ServiceOK
<1>10. \A r \in buffered' : r.source # "raw_events"
  BY <1>1 DEF ServiceOK
<1>11. ASSUME NEW r \in buffered', NEW d \in 0 .. now', CutOff(d, r.at)', NEW c \in d .. now'
       PROVE  ~Connected(c)'
  <2>1. r \in buffered /\ r.at < now /\ r.at \in Nat
    BY <1>1, <1>4 DEF ServiceOK
  <2>2. CutOff(d, r.at)
    BY <1>1, <1>5, <1>11, <2>1
  <2> QED
    BY <1>1, <1>3, <2>1, <2>2 DEF ServiceOK
<1> QED
  BY <1>1, <1>6, <1>7, <1>8, <1>9, <1>10, <1>11 DEF ServiceOK

LEMMA ReconnectService == ASSUME TypeOK, ServiceOK, Reconnect PROVE ServiceOK'
<1> DEFINE records == buffered \cup {Event("connected", now)}
<1>1. now' = now /\ link' = "up" /\ now \in Nat /\ buffered' = {}
      /\ served' = Readable(records)
  BY Types DEF Reconnect
<1>2. /\ DOMAIN served' = DOMAIN served \cup records
      /\ \A r \in DOMAIN served : served'[r] = served[r]
      /\ \A r \in DOMAIN served' : r \notin DOMAIN served =>
            /\ served'[r] = now
            /\ \/ r \in buffered /\ r.source # "raw_events" /\ r.at < now
               \/ r.source = "raw_events" /\ r.at = now
  <2>1. /\ DOMAIN served' = DOMAIN served \cup records
        /\ \A r \in DOMAIN served : served'[r] = served[r]
        /\ \A r \in records : r \notin DOMAIN served => served'[r] = now
    BY <1>1, ReadableValue
  <2>2. \A r \in records : r \in buffered \/ (r.source = "raw_events" /\ r.at = now)
    <3> DEFINE event == Event("connected", now)
    <3>1. event.source = "raw_events" /\ event.at = now
      BY DEF Event
    <3>2. records = buffered \cup {event}
      OBVIOUS
    <3> HIDE DEF event, records
    <3> QED
      BY <3>1, <3>2
  <2>3. \A r \in buffered : r.source # "raw_events" /\ r.at < now
    BY DEF ServiceOK
  <2> HIDE DEF records
  <2> QED
    BY <2>1, <2>2, <2>3
<1>3. /\ \A t : Connected(t)' <=> Connected(t) \/ t = now
      /\ \A t : Disconnected(t)' <=> Disconnected(t)
  <2>1. \A type, t : Event(type, t) \notin buffered
    BY SampleNotEvent DEF ServiceOK
  <2> QED
    BY <1>1, <1>2, <2>1, EventNames DEF Connected, Disconnected, Event
<1> HIDE DEF records
<1>4. \A r \in DOMAIN served \cup buffered : r.at \in Nat
  BY Types, RecordTypes
<1>5. \A d, t : CutOff(d, t)' => CutOff(d, t)
  BY <1>3, CutOffValue DEF CutOff, Connected, Disconnected
<1>6. ASSUME NEW r \in DOMAIN served', NEW d \in 0 .. now', CutOff(d, r.at)', Late(r)'
      PROVE  Connected(served[r])' /\ \A c \in d .. served'[r] - 1 : ~Connected(c)'
  <2>1. CutOff(d, r.at) /\ d \in 0 .. now
    BY <1>1, <1>5, <1>6
  <2>2. CASE r \in DOMAIN served
    <3>1. Late(r) /\ served'[r] = served[r] /\ served[r] <= now /\ served[r] \in Nat
      BY <1>2, <1>6, <2>2, Types DEF Late, ServiceOK
    <3>2. Connected(served[r]) /\ \A c \in d .. served[r] - 1 : ~Connected(c)
      BY <2>1, <2>2, <3>1 DEF ServiceOK
    <3> QED
      BY <1>1, <1>3, <2>1, <3>1, <3>2
  <2>3. CASE r \notin DOMAIN served
    <3>1. r \in buffered /\ served'[r] = now
      BY <1>2, <1>6, <2>3 DEF Late
    <3>2. \A c \in d .. now : ~Connected(c)
      BY <2>1, <3>1 DEF ServiceOK
    <3> QED
      BY <1>1, <1>3, <2>1, <3>1, <3>2
  <2> QED
    BY <2>2, <2>3
<1>7. \A r \in DOMAIN served' : r.at <= served'[r] /\ served'[r] <= now'
  BY <1>1, <1>2, <1>4 DEF ServiceOK
<1>8. \A r \in DOMAIN served' : r.source = "raw_events" => ~Late(r)'
  BY <1>2 DEF ServiceOK, Late
<1>9. \A r \in DOMAIN served' \cup buffered' : r.source # "raw_events" => r.at < now'
  BY <1>1, <1>2 DEF ServiceOK
<1>10. \A d \in 0 .. now' : Disconnected(d)' => \E c \in d .. now' : Connected(c)'
  BY <1>1, <1>3
<1> QED
  BY <1>1, <1>6, <1>7, <1>8, <1>9, <1>10 DEF ServiceOK

LEMMA EventReadable ==
    ASSUME NEW samples, \A r \in samples : r.source # "raw_events", NEW type,
           NEW event, event = Event(type, now), served' = Readable(samples \cup {event})
    PROVE  /\ DOMAIN served' = DOMAIN served \cup samples \cup {event}
           /\ \A r \in DOMAIN served : served'[r] = served[r]
           /\ \A r \in samples \cup {event} : r \notin DOMAIN served => served'[r] = now
           /\ \A t : Connected(t)' <=> Connected(t) \/ (t = now /\ type = "connected")
           /\ \A t : Disconnected(t)' <=> Disconnected(t) \/ (t = now /\ type = "disconnected")
<1>1. DOMAIN served' = DOMAIN served \cup samples \cup {event}
  BY DEF Readable
<1>2. \A r \in DOMAIN served' : served'[r] = IF r \in DOMAIN served THEN served[r] ELSE now
  BY <1>1 DEF Readable
<1>3. \A kind, t : Event(kind, t) \in DOMAIN served' <=>
                     Event(kind, t) \in DOMAIN served \/ (t = now /\ kind = type)
  <2>1. \A kind, t : Event(kind, t) \notin samples
    BY SampleNotEvent
  <2>2. \A kind, t : Event(kind, t) = event <=> t = now /\ kind = type
    BY DEF Event
  <2> QED
    BY <1>1, <2>1, <2>2
<1> QED
  BY <1>1, <1>2, <1>3 DEF Connected, Disconnected

\* What is there stays, and what becomes readable was not there before.
LEMMA DeviceFacts ==
    ASSUME TypeOK, ServiceOK, Device
    PROVE  /\ now' \in Nat /\ now <= now' /\ now' <= MaxTime
           /\ DOMAIN served \subseteq DOMAIN served'
           /\ \A r \in DOMAIN served : served'[r] = served[r]
           /\ \A r \in DOMAIN served' : r \notin DOMAIN served => served'[r] = now /\ r.at <= now
           /\ \A t : Connected(t) => Connected(t)'
           /\ \A t : t # now => (Connected(t)' <=> Connected(t))
           /\ \A t : t # now => (Disconnected(t)' <=> Disconnected(t))
           /\ UNCHANGED <<tables, slot, run>>
<1>1. CASE Tick
  <2>1. now' = now + 1 /\ now < MaxTime /\ now \in Nat /\ UNCHANGED <<tables, slot, run>>
    BY <1>1, Types DEF Tick
  <2>2. PICK records \in {{}, {Record(s, now) : s \in History}} :
           served' = Readable(records) \/ served' = served
    BY <1>1 DEF Tick
  <2>3. \A r \in records : r.source # "raw_events" /\ r.at = now
    BY TickSamples
  <2>4. /\ DOMAIN served \subseteq DOMAIN served'
        /\ DOMAIN served' \subseteq DOMAIN served \cup records
        /\ \A r \in DOMAIN served : served'[r] = served[r]
        /\ \A r \in DOMAIN served' : r \notin DOMAIN served => served'[r] = now
    BY <2>2, ReadableValue
  <2>5. \A t : (Connected(t)' <=> Connected(t)) /\ (Disconnected(t)' <=> Disconnected(t))
    BY <2>3, <2>4, SampleNotEvent DEF Connected, Disconnected
  <2>6. MaxTime \in Nat
    BY Bounds
  <2> QED
    BY <2>1, <2>3, <2>4, <2>5, <2>6
<1>2. CASE Arrive
  <2>1. now' = now /\ now \in Nat /\ now <= MaxTime /\ served' = Readable(buffered)
        /\ UNCHANGED <<tables, slot, run>>
    BY <1>2, Types DEF Arrive
  <2>2. \A r \in buffered : r.source # "raw_events" /\ r.at < now /\ r.at \in Nat
    BY Types, RecordTypes DEF ServiceOK
  <2>3. /\ DOMAIN served' = DOMAIN served \cup buffered
        /\ \A r \in DOMAIN served : served'[r] = served[r]
        /\ \A r \in buffered : r \notin DOMAIN served => served'[r] = now
    BY <2>1, ReadableValue
  <2>4. \A t : (Connected(t)' <=> Connected(t)) /\ (Disconnected(t)' <=> Disconnected(t))
    BY <2>2, <2>3, SampleNotEvent DEF Connected, Disconnected
  <2> QED
    BY <2>1, <2>2, <2>3, <2>4
<1>3. CASE Disconnect
  <2> DEFINE event == Event("disconnected", now)
  <2>1. now' = now /\ now \in Nat /\ now <= MaxTime /\ served' = Readable({event})
        /\ UNCHANGED <<tables, slot, run>>
    BY <1>3, Types DEF Disconnect
  <2>2. event.at = now
    BY DEF Event
  <2>3. /\ DOMAIN served' = DOMAIN served \cup {} \cup {event}
        /\ \A r \in DOMAIN served : served'[r] = served[r]
        /\ \A r \in {} \cup {event} : r \notin DOMAIN served => served'[r] = now
        /\ \A t : Connected(t)' <=> Connected(t) \/ (t = now /\ "disconnected" = "connected")
        /\ \A t : Disconnected(t)' <=> Disconnected(t) \/ (t = now /\ "disconnected" = "disconnected")
    <3>1. served' = Readable({} \cup {event})
      BY <2>1
    <3> QED
      BY <3>1, EventReadable, Zenon
  <2> HIDE DEF event
  <2> QED
    BY <2>1, <2>2, <2>3
<1>4. CASE Reconnect
  <2> DEFINE event == Event("connected", now)
  <2>1. now' = now /\ now \in Nat /\ now <= MaxTime /\ served' = Readable(buffered \cup {event})
        /\ UNCHANGED <<tables, slot, run>>
    BY <1>4, Types DEF Reconnect
  <2>2. event.at = now
    BY DEF Event
  <2>3. \A r \in buffered : r.source # "raw_events" /\ r.at < now /\ r.at \in Nat
    BY Types, RecordTypes DEF ServiceOK
  <2>4. /\ DOMAIN served' = DOMAIN served \cup buffered \cup {event}
        /\ \A r \in DOMAIN served : served'[r] = served[r]
        /\ \A r \in buffered \cup {event} : r \notin DOMAIN served => served'[r] = now
        /\ \A t : Connected(t)' <=> Connected(t) \/ (t = now /\ "connected" = "connected")
        /\ \A t : Disconnected(t)' <=> Disconnected(t) \/ (t = now /\ "connected" = "disconnected")
    BY <2>1, <2>3, EventReadable, Zenon
  <2> HIDE DEF event
  <2> QED
    BY <2>1, <2>2, <2>3, <2>4
<1> QED
  BY <1>1, <1>2, <1>3, <1>4 DEF Device

LEMMA DeviceTypes == ASSUME TypeOK, ServiceOK, Device PROVE TypeOK'
<1>1. /\ stored' = stored /\ coverage' = coverage /\ checked' = checked /\ cursors' = cursors
      /\ hints' = hints /\ nextSource' = nextSource /\ recovery' = recovery /\ slot' = slot
      /\ run' = run /\ now' \in 0 .. MaxTime /\ DOMAIN served \subseteq DOMAIN served'
  BY DeviceFacts, Bounds DEF tables
<1>2. link' \in {"up", "down"} /\ outages' \in 0 .. MaxOutages /\ faults' \in 0 .. MaxFaults
  BY Bounds DEF TypeOK, Device, Tick, Arrive, Disconnect, Reconnect
<1>3. {Event(type, now) : type \in {"disconnected", "connected"}} \subseteq Records
  <2>1. now \in 0 .. MaxTime
    BY DEF TypeOK
  <2> QED
    BY <2>1 DEF Records
<1>4. \A s \in History : Record(s, now) \in Records
  <2>1. now \in 0 .. MaxTime
    BY DEF TypeOK
  <2> QED
    BY <2>1 DEF Records
<1>5. /\ DOMAIN served' \subseteq Records
      /\ buffered' \subseteq Records
      /\ \A r \in buffered' : r \notin DOMAIN served'
  <2>0. DOMAIN served \subseteq Records /\ buffered \subseteq Records
        /\ \A r \in buffered : r \notin DOMAIN served /\ r.source # "raw_events"
    BY DEF TypeOK, ServiceOK
  <2>1. CASE Tick
    <3>1. PICK records \in {{}, {Record(s, now) : s \in History}} :
             \/ served' = Readable(records) /\ buffered' = buffered
             \/ buffered' = buffered \cup records /\ served' = served
      BY <2>1 DEF Tick
    <3>2. records \subseteq Records /\ \A r \in records : r.source # "raw_events" /\ r.at = now
      BY <1>4, TickSamples
    <3>3. \A r \in DOMAIN served \cup buffered : r.source # "raw_events" => r.at < now
      BY DEF ServiceOK
    <3>4. \A r \in records : r \notin DOMAIN served \cup buffered
      BY <3>2, <3>3, Types
    <3>5. DOMAIN served' \subseteq DOMAIN served \cup records
      BY <3>1, ReadableValue
    <3>6. CASE buffered' = buffered
      BY <2>0, <3>2, <3>4, <3>5, <3>6
    <3>7. CASE buffered' = buffered \cup records /\ served' = served
      BY <2>0, <3>2, <3>4, <3>7
    <3> QED
      BY <3>1, <3>6, <3>7
  <2>2. CASE Arrive
    <3>1. served' = Readable(buffered) /\ buffered' = {}
      BY <2>2 DEF Arrive
    <3>2. DOMAIN served' = DOMAIN served \cup buffered
      BY <3>1, ReadableValue
    <3> QED
      BY <2>0, <3>1, <3>2
  <2>3. CASE Disconnect
    <3> DEFINE event == Event("disconnected", now)
    <3>1. served' = Readable({event}) /\ buffered' = buffered /\ event \in Records
      BY <1>3, <2>3 DEF Disconnect
    <3>2. event \notin buffered
      BY <2>0, SampleNotEvent
    <3> HIDE DEF event
    <3>3. DOMAIN served' = DOMAIN served \cup {event}
      BY <3>1, ReadableValue
    <3> QED
      BY <2>0, <3>1, <3>2, <3>3
  <2>4. CASE Reconnect
    <3> DEFINE event == Event("connected", now)
    <3>1. served' = Readable(buffered \cup {event}) /\ buffered' = {} /\ event \in Records
      BY <1>3, <2>4 DEF Reconnect
    <3> HIDE DEF event
    <3>2. DOMAIN served' = DOMAIN served \cup (buffered \cup {event})
      BY <3>1, ReadableValue
    <3> QED
      BY <2>0, <3>1, <3>2
  <2> QED
    BY <2>1, <2>2, <2>3, <2>4 DEF Device
<1>6. served' \in [DOMAIN served' -> 0 .. MaxTime]
  <2>1. served' = served \/ \E records : served' = Readable(records)
    BY DEF Device, Tick, Arrive, Disconnect, Reconnect
  <2>2. \A r \in DOMAIN served' : served'[r] \in 0 .. MaxTime
    BY DeviceFacts DEF TypeOK
  <2>3. served' = [r \in DOMAIN served' |-> served'[r]]
    <3>1. CASE served' = served
      BY <3>1 DEF TypeOK
    <3>2. CASE \E records : served' = Readable(records)
      BY <3>2 DEF Readable
    <3> QED
      BY <2>1, <3>1, <3>2
  <2> QED
    BY <2>2, <2>3
<1> QED
  BY <1>1, <1>2, <1>5, <1>6 DEF TypeOK

\* What depends on the tables, the slot and the run only.
LEMMA SameQueues ==
    ASSUME coverage' = coverage, checked' = checked, slot' = slot, run' = run,
           recovery' = recovery, QueuesOK
    PROVE  QueuesOK'
<1>1. WindowsOK' <=> WindowsOK
  BY DEF WindowsOK
<1>2. \A tag, start, end : Accounted(tag, start, end)' <=> Accounted(tag, start, end)
  BY DEF Accounted, Covered, Pending
<1>3. (Rechecked' <=> Rechecked) /\ (AllCovered' <=> AllCovered)
  BY DEF Rechecked, AllCovered, Covered, Pending
<1>4. ReplayStart' = ReplayStart
  BY DEF ReplayStart
<1> QED
  BY <1>1, <1>2, <1>3, <1>4 DEF QueuesOK

\* What is cut off is settled as soon as the time has passed.
LEMMA SettledCutOff ==
    ASSUME TypeOK, ServiceOK, Device, NEW d \in Int, NEW t \in Int, t < now
    PROVE  CutOff(d, t)' <=> CutOff(d, t)
<1>1. now \in Nat
  BY Types
<1>2. d <= t => (Disconnected(d)' <=> Disconnected(d))
  <2>1. d <= t => d # now
    BY <1>1
  <2> QED
    BY <2>1, DeviceFacts
<1>3. \A c \in d .. t : Connected(c)' <=> Connected(c)
  <2>1. \A c \in d .. t : c # now
    BY <1>1
  <2> QED
    BY <2>1, DeviceFacts
<1> QED
  BY <1>2, <1>3 DEF CutOff, Connected, Disconnected

LEMMA DeviceKeeps == ASSUME Inv, Device PROVE Inv'
<1>0. TypeOK /\ ServiceOK /\ RowsOK /\ SlotOK /\ RecoveryOK(recovery) /\ LossesOK /\ QueuesOK
        /\ NotingOK
  BY DEF Inv
<1>1. TypeOK'
  BY <1>0, DeviceTypes
<1>2. ServiceOK'
  BY <1>0, TickService, ArriveService, DisconnectService, ReconnectService DEF Device
<1>3. /\ stored' = stored /\ coverage' = coverage /\ checked' = checked /\ cursors' = cursors
      /\ recovery' = recovery /\ slot' = slot /\ run' = run
  BY <1>0, DeviceFacts DEF tables
<1>4. /\ now' \in Nat /\ now <= now' /\ now \in Nat
      /\ \A r \in DOMAIN served' : r \in DOMAIN served => served'[r] = served[r]
      /\ \A r \in DOMAIN served' : r \notin DOMAIN served => served'[r] = now /\ r.at <= now
      /\ \A t : Connected(t) => Connected(t)'
      /\ \A t : t # now => (Disconnected(t)' <=> Disconnected(t))
      /\ \A r \in DOMAIN served : r.at \in Nat /\ served[r] \in Nat
  BY <1>0, DeviceFacts, Types, RecordTypes
<1>5. /\ slot.ref \in Nat /\ slot.done \in Int /\ slot.since \in Int /\ slot.done <= slot.ref
      /\ slot.ref <= now /\ Floor' = Floor
      /\ \A k \in coverage : {k.tag, k.lo, k.hi} \subseteq Nat
  BY <1>0, <1>3, Types, TimeValue DEF SlotOK, Floor
<1>6. RowsOK'
  <2>1. ASSUME NEW k \in coverage, NEW r \in DOMAIN served', In(r, k),
               ~Late(r)' \/ served'[r] < k.tag \/ (k \in checked /\ served'[r] < slot.ref)
        PROVE  r \in stored
    <3>1. k.hi <= slot.ref /\ k.tag <= now
      BY <1>0 DEF RowsOK
    <3>2. CASE r \in DOMAIN served
      BY <1>0, <1>4, <2>1, <3>2 DEF RowsOK, Late
    <3>3. CASE r \notin DOMAIN served
      <4>1. served'[r] = now /\ r.at < slot.ref
        BY <1>4, <1>5, <2>1, <3>1, <3>3, <1>1, RecordTypes DEF In, TypeOK
      <4> QED
        BY <1>4, <1>5, <2>1, <3>1, <3>3, <4>1 DEF Late
    <3> QED
      BY <3>2, <3>3
  <2>2. \A k \in coverage : k.hi <= slot.ref /\ k.tag <= now'
    BY <1>0, <1>4, <1>5 DEF RowsOK
  <2> QED
    BY <1>0, <1>3, <2>1, <2>2 DEF RowsOK, In
<1>7. SlotOK'
  <2>1. \A s : Covered(Ordinary, s)' = Covered(Ordinary, s)
    BY <1>3 DEF Covered
  <2>2. ASSUME NEW r \in slot.owed
        PROVE  /\ r \in DOMAIN served' /\ served'[r] < slot.ref /\ r.at >= Floor
               /\ \/ ~Late(r)' \/ r.at >= slot.ref - Overlap
                  \/ \E d \in Floor .. now' : CutOff(d, r.at)'
    <3>1. /\ r \in DOMAIN served /\ served[r] < slot.ref /\ r.at >= Floor
          /\ \/ ~Late(r) \/ r.at >= slot.ref - Overlap
             \/ \E d \in Floor .. now : CutOff(d, r.at)
      BY <1>0 DEF SlotOK
    <3>2. r \in DOMAIN served' /\ served'[r] = served[r]
      BY <1>0, <3>1, DeviceFacts
    <3>3. r.at < now /\ r.at \in Nat
      BY <1>0, <1>4, <1>5, <3>1 DEF ServiceOK
    <3>4. ASSUME NEW d \in Floor .. now, CutOff(d, r.at)
          PROVE  \E e \in Floor .. now' : CutOff(e, r.at)'
      <4>1. d \in Floor .. now' /\ d \in Int
        BY <1>4
      <4> QED
        BY <1>0, <3>3, <3>4, <4>1, SettledCutOff
    <3> QED
      BY <3>1, <3>2, <3>4 DEF Late
  <2>3. slot.ref <= now'
    BY <1>4, <1>5
  <2> QED
    BY <1>0, <1>3, <1>5, <2>1, <2>2, <2>3 DEF SlotOK, Idle
<1>8. \A state : RecoveryOK(state) => RecoveryOK(state)'
  BY <1>3, <1>4 DEF RecoveryOK
<1>9. \A state, d : Known(state, d) => Known(state, d)'
  BY <1>3, <1>4 DEF Known
<1>10. \A d \in Floor .. slot.done - 1 : Disconnected(d)' => Disconnected(d)
  BY <1>4, <1>5
<1>11. LossesOK'
  <2>1. ASSUME NEW r \in DOMAIN served', NEW d \in Floor .. now', CutOff(d, r.at)', Late(r)',
               r.at < slot.done, served'[r] <= recovery.handled \/ served'[r] < slot.done
        PROVE  r \in stored
    <3>1. recovery.handled < slot.ref
      BY <1>0, <1>5 DEF RecoveryOK, Never
    <3>2. recovery.handled \in Int
      BY <1>0, Types, TimeValue
    <3>3. r \in DOMAIN served
      BY <1>4, <1>5, <2>1, <3>1, <3>2
    <3>4. r.at < now /\ r.at \in Nat /\ served'[r] = served[r]
      BY <1>4, <1>5, <2>1, <3>3
    <3>5. CutOff(d, r.at) /\ d <= now
      <4>1. d \in Int /\ r.at \in Int
        BY <3>4
      <4>2. CutOff(d, r.at)
        BY <1>0, <2>1, <3>4, <4>1, SettledCutOff
      <4>3. d <= r.at
        BY <4>2, CutOffValue
      <4> QED
        BY <1>4, <3>4, <4>1, <4>2, <4>3
    <3> QED
      BY <1>0, <1>4, <2>1, <3>3, <3>4, <3>5 DEF LossesOK, Late
  <2> QED
    BY <1>0, <1>3, <1>5, <1>9, <1>10, <2>1 DEF LossesOK
<1>12. QueuesOK'
  BY <1>0, <1>3, SameQueues
<1>13. NotingOK'
  <2>1. \A e : Seen(e)' <=> Seen(e)
    BY <1>3 DEF Seen
  <2>2. \A state : Passed(state)' <=> Passed(state)
    BY <1>3, <2>1 DEF Passed
  <2> QED
    BY <1>0, <1>3, <1>5, <1>8, <1>9, <1>10, <2>1, <2>2 DEF NotingOK
<1> QED
  BY <1>0, <1>1, <1>2, <1>3, <1>6, <1>7, <1>8, <1>11, <1>12, <1>13 DEF Inv

-----------------------------------------------------------------------------
(* What the steps of the program leave alone.                              *)

LEMMA SameService ==
    ASSUME UNCHANGED service, ServiceOK
    PROVE  /\ ServiceOK' /\ now' = now /\ served' = served
           /\ \A t : (Connected(t)' <=> Connected(t)) /\ (Disconnected(t)' <=> Disconnected(t))
           /\ \A d, t : CutOff(d, t)' <=> CutOff(d, t)
           /\ \A r : Late(r)' <=> Late(r)
<1>1. now' = now /\ link' = link /\ served' = served /\ buffered' = buffered
  BY DEF service
<1>2. \A t : (Connected(t)' <=> Connected(t)) /\ (Disconnected(t)' <=> Disconnected(t))
  BY <1>1 DEF Connected, Disconnected
<1>3. \A d, t : CutOff(d, t)' <=> CutOff(d, t)
  BY <1>1 DEF CutOff
<1>4. \A r : Late(r)' <=> Late(r)
  BY <1>1 DEF Late
<1>5. ServiceOK'
  BY <1>1, <1>2, <1>3, <1>4 DEF ServiceOK
<1> QED
  BY <1>1, <1>2, <1>3, <1>4, <1>5

\* What depends on the tables and the slot only.
LEMMA SameTables ==
    ASSUME UNCHANGED <<service, stored, coverage, checked, cursors, slot>>
    PROVE  /\ RowsOK => RowsOK'
           /\ Floor' = Floor
           /\ \A tag, s : Covered(tag, s)' = Covered(tag, s)
           /\ \A state, d : Known(state, d)' <=> Known(state, d)
           /\ \A state : RecoveryOK(state)' <=> RecoveryOK(state)
           /\ SlotOK /\ (slot.open \/ (Idle => Idle')) => SlotOK'
           /\ LossesOK /\ recovery' = recovery => LossesOK'
<1>1. /\ now' = now /\ served' = served /\ stored' = stored /\ coverage' = coverage
      /\ checked' = checked /\ cursors' = cursors /\ slot' = slot
  BY DEF service
<1>2. \A t : (Connected(t)' <=> Connected(t)) /\ (Disconnected(t)' <=> Disconnected(t))
  BY <1>1 DEF Connected, Disconnected
<1>3. \A d, t : CutOff(d, t)' <=> CutOff(d, t)
  BY <1>1 DEF CutOff
<1>4. (\A r : Late(r)' <=> Late(r)) /\ Floor' = Floor
  BY <1>1 DEF Late, Floor
<1>5. \A tag, s : Covered(tag, s)' = Covered(tag, s)
  BY <1>1 DEF Covered
<1>6. \A state, d : Known(state, d)' <=> Known(state, d)
  BY <1>1, <1>2 DEF Known
<1>7. \A state : RecoveryOK(state)' <=> RecoveryOK(state)
  BY <1>1, <1>2 DEF RecoveryOK
<1>8. RowsOK => RowsOK'
  BY <1>1, <1>4 DEF RowsOK, In
<1>9. SlotOK /\ (slot.open \/ (Idle => Idle')) => SlotOK'
  BY <1>1, <1>3, <1>4, <1>5 DEF SlotOK
<1>10. LossesOK /\ recovery' = recovery => LossesOK'
  BY <1>1, <1>2, <1>3, <1>4, <1>6 DEF LossesOK
<1> QED
  BY <1>4, <1>5, <1>6, <1>7, <1>8, <1>9, <1>10

\* A slot is open while a run is at work.
LEMMA RunInSlot == ASSUME Inv, run.phase # "idle" PROVE slot.open
BY DEF Inv, QueuesOK

\* Nothing to prove of a run that has not begun.
LEMMA NoRunQueues ==
    ASSUME run' = NoRun
    PROVE  QueuesOK' /\ NotingOK'
<1>1. run'.phase = "idle" /\ \A s \in Sources : run'.queues[s] = {}
  BY DEF NoRun
<1>2. WindowsOK'
  BY <1>1 DEF WindowsOK
<1> QED
  BY <1>1, <1>2 DEF QueuesOK, NotingOK

LEMMA NoRunType == NoRun \in Runs /\ NoRecovery \in Recoveries /\ NoSlot \in Slots
<1>1. 0 \in 0 .. MaxTime /\ 0 \in 0 .. MaxTime + 1 /\ Never \in Times /\ 0 \in 0 .. MaxRequests
      /\ 0 \in 0 .. Len(Order) /\ 0 \in Turns /\ Window \in 1 .. Window
  BY Bounds, OrderLength DEF Times, Never, Turns
<1>2. NoRecovery \in Recoveries
  BY <1>1 DEF NoRecovery, Recoveries
<1>3. NoSlot \in Slots
  BY <1>1 DEF NoSlot, Slots
<1>4. [s \in Sources |-> {}] \in [Sources -> SUBSET ((0 .. MaxTime) \X (0 .. MaxTime))]
  OBVIOUS
<1>5. [s \in Sources |-> Window] \in [Sources -> 1 .. Window]
  BY <1>1
<1>6. NoRun \in Runs
  BY <1>1, <1>2, <1>4, <1>5 DEF NoRun, Runs, Phases, Ordinary
<1> QED
  BY <1>2, <1>3, <1>6

-----------------------------------------------------------------------------
(* The beginning of a slot and of a run.                                   *)

LEMMA InitInv == Init => Inv
<1> SUFFICES ASSUME Init PROVE Inv
  OBVIOUS
<1>1. /\ now = 0 /\ link = "up" /\ outages = 0 /\ served = [r \in {} |-> 0] /\ buffered = {}
      /\ stored = {} /\ coverage = {} /\ checked = {} /\ cursors = [s \in Sources |-> Never]
      /\ hints = [s \in Sources |-> Window] /\ nextSource = 0 /\ recovery = NoRecovery
      /\ slot = NoSlot /\ run = NoRun /\ faults = 0
  BY DEF Init
<1>2. DOMAIN served = {}
  BY <1>1
<1>3. \A t : ~Connected(t) /\ ~Disconnected(t)
  BY <1>2 DEF Connected, Disconnected
<1>4. TypeOK
  <2>1. 0 \in 0 .. MaxTime /\ 0 \in 0 .. MaxOutages /\ 0 \in 0 .. MaxFaults /\ 0 \in Turns
        /\ Never \in Times /\ Window \in 1 .. Window
    BY Bounds, OrderLength DEF Times, Never, Turns
  <2>2. cursors \in [Sources -> Times] /\ hints \in [Sources -> 1 .. Window]
    BY <1>1, <2>1
  <2>3. served \in [DOMAIN served -> 0 .. MaxTime]
    BY <1>1, <1>2
  <2> QED
    BY <1>1, <1>2, <2>1, <2>2, <2>3, NoRunType DEF TypeOK
<1>5. ServiceOK
  BY <1>1, <1>2, <1>3 DEF ServiceOK
<1>6. RowsOK
  BY <1>1 DEF RowsOK, NoSlot, Never
<1>7. SlotOK
  BY <1>1 DEF SlotOK, NoSlot, Never, Idle
<1>8. RecoveryOK(recovery)
  BY <1>1 DEF RecoveryOK, NoRecovery
<1>9. LossesOK
  BY <1>2, <1>3 DEF LossesOK
<1>10. QueuesOK /\ NotingOK
  <2>1. run.phase = "idle" /\ \A s \in Sources : run.queues[s] = {}
    BY <1>1 DEF NoRun
  <2> QED
    BY <2>1 DEF QueuesOK, NotingOK, WindowsOK
<1> QED
  BY <1>1, <1>4, <1>5, <1>6, <1>7, <1>8, <1>9, <1>10 DEF Inv

LEMMA CursorValue ==
    ASSUME TypeOK, NEW ref \in Nat, \A s \in Sources : cursors[s] <= ref
    PROVE  /\ CursorStart(ref) \in Nat
           /\ CursorStart(ref) = 0 \/ CursorStart(ref) <= ref - Overlap
           /\ \A s \in Sources :
                 cursors[s] # Never => CursorStart(ref) = 0 \/ CursorStart(ref) <= cursors[s]
<1> DEFINE from(s) == IF cursors[s] = Never THEN ref - Day ELSE cursors[s]
           S == {from(s) : s \in Sources}
<1>1. \A s \in Sources : cursors[s] \in Int /\ cursors[s] >= Never
  BY TimeValue DEF TypeOK
<1>2. Day \in Nat /\ Overlap \in Nat /\ Overlap > 0
  BY Bounds
<1>3. \A s \in Sources : from(s) \in Int /\ from(s) <= ref /\ -1 - Day <= from(s)
  BY <1>1, <1>2 DEF Never
<1>4. "raw_events" \in Sources
  BY DEF Sources
<1>5. S \in SUBSET Int /\ S # {} /\ (\A x \in S : -1 - Day <= x /\ x <= ref) /\ -1 - Day \in Int
  BY <1>2, <1>3, <1>4
<1>6. \A s \in Sources : from(s) \in S
  OBVIOUS
<1>7. CursorStart(ref) = Max({0, Min(S) - Overlap})
  BY DEF CursorStart
<1> HIDE DEF S
<1>8. Min(S) \in S /\ \A x \in S : Min(S) <= x
  BY <1>5, MinValue
<1>9. Min(S) \in Int /\ Min(S) <= ref
  BY <1>5, <1>8
<1>10. CursorStart(ref) = IF 0 <= Min(S) - Overlap THEN Min(S) - Overlap ELSE 0
  BY <1>2, <1>7, <1>9, Max2
<1>11. \A s \in Sources : Min(S) <= from(s)
  BY <1>6, <1>8
<1> QED
  BY <1>1, <1>2, <1>9, <1>10, <1>11

LEMMA FloorValue ==
    ASSUME TypeOK
    PROVE  /\ Floor \in Int /\ Floor >= slot.since /\ Floor >= slot.ref - Horizon
           /\ Floor >= Never
           /\ Floor = IF slot.since <= slot.ref - Horizon THEN slot.ref - Horizon ELSE slot.since
<1>1. slot.since \in Int /\ slot.since >= Never /\ slot.ref \in Int /\ Horizon \in Int
  BY Types, TimeValue, Bounds
<1>2. Floor = IF slot.since <= slot.ref - Horizon THEN slot.ref - Horizon ELSE slot.since
  BY <1>1, Max2 DEF Floor
<1> QED
  BY <1>1, <1>2 DEF Never

LEMMA OpenSlotKeeps == ASSUME Inv, OpenSlot PROVE Inv'
<1>0. TypeOK /\ ServiceOK /\ RowsOK /\ SlotOK /\ RecoveryOK(recovery) /\ LossesOK /\ QueuesOK
        /\ NotingOK
  BY DEF Inv
<1> DEFINE start == CursorStart(now)
           first == IF slot.since = Never THEN start ELSE slot.since
<1>1. /\ Idle /\ ~slot.open /\ now > slot.ref /\ checked' = {}
      /\ UNCHANGED <<service, stored, coverage, cursors, hints, nextSource, recovery, run, faults>>
      /\ slot' = [slot EXCEPT !.open = TRUE, !.ref = now, !.start = start,
                              !.since = first, !.owed = Owed(first)]
  BY DEF OpenSlot
<1>2. /\ ServiceOK' /\ now' = now /\ served' = served
      /\ \A t : (Connected(t)' <=> Connected(t)) /\ (Disconnected(t)' <=> Disconnected(t))
      /\ \A d, t : CutOff(d, t)' <=> CutOff(d, t)
      /\ \A r : Late(r)' <=> Late(r)
  BY <1>0, <1>1, SameService
<1>3. /\ slot.ref \in Nat /\ now \in Nat /\ now <= MaxTime /\ slot.since \in Int
      /\ slot.since >= Never /\ slot.done \in Int /\ Horizon \in Nat /\ Overlap \in Nat
  BY <1>0, Types, TimeValue, Bounds
<1>4. \A s \in Sources : cursors[s] <= now /\ cursors[s] <= slot.ref /\ cursors[s] \in Int
  BY <1>0, <1>1, <1>3, Types DEF RowsOK
<1>5. /\ start \in Nat /\ (start = 0 \/ start <= now - Overlap)
      /\ \A s \in Sources : cursors[s] # Never => start = 0 \/ start <= cursors[s]
  BY <1>0, <1>3, <1>4, CursorValue
<1>6. slot \in Slots
  BY <1>0 DEF TypeOK
<1>7. /\ slot'.open = TRUE /\ slot'.ref = now /\ slot'.start = start /\ slot'.since = first
      /\ slot'.owed = Owed(first) /\ slot'.done = slot.done
  BY <1>1, <1>6 DEF Slots
<1> HIDE DEF start
<1>8. first \in Int /\ first >= slot.since /\ first >= 0 /\ first <= MaxTime
      /\ (slot.since # Never => first = slot.since)
  <2>1. slot.since <= MaxTime
    BY <1>0, Types, TimeValue
  <2>2. start <= MaxTime
    BY <1>3, <1>5, Bounds
  <2> QED
    BY <1>3, <1>5, <2>1, <2>2 DEF Never
<1> HIDE DEF first
<1>9. TypeOK'
  <2>1. Owed(first) \subseteq Records
    BY <1>0 DEF Owed, TypeOK
  <2>2. now \in 0 .. MaxTime /\ start \in 0 .. MaxTime /\ first \in Times
    BY <1>3, <1>5, <1>8, Bounds DEF Times, Never
  <2>3. slot' \in Slots
    BY <1>1, <1>6, <2>1, <2>2 DEF Slots
  <2> QED
    BY <1>0, <1>1, <2>3 DEF TypeOK, service
<1>10. /\ Floor \in Int /\ Floor' \in Int /\ Floor' = Max({first, now - Horizon})
       /\ Floor' >= first /\ Floor' >= Floor
       /\ Floor = IF slot.since <= slot.ref - Horizon THEN slot.ref - Horizon ELSE slot.since
  <2>1. Floor' = Max({first, now - Horizon})
    BY <1>7 DEF Floor
  <2>2. Floor' = IF first <= now - Horizon THEN now - Horizon ELSE first
    BY <1>3, <1>8, <2>1, Max2
  <2>3. Floor \in Int
        /\ Floor = IF slot.since <= slot.ref - Horizon THEN slot.ref - Horizon ELSE slot.since
    BY <1>0, FloorValue
  <2> QED
    BY <1>1, <1>3, <1>8, <2>1, <2>2, <2>3
<1>11. slot.done = slot.ref \/ (slot.done = Never /\ slot = NoSlot /\ coverage = {})
  BY <1>0, <1>1 DEF SlotOK, NoSlot
<1>12. RowsOK'
  <2>1. \A k \in coverage : k.hi <= slot.ref /\ k.tag <= now /\ {k.hi, k.tag} \subseteq Nat
    BY <1>0, Types DEF RowsOK
  <2>2. \A k \in coverage : k.hi <= now /\ k.hi <= slot.done
    BY <1>1, <1>3, <1>11, <2>1
  <2> QED
    BY <1>0, <1>1, <1>2, <1>4, <1>7, <2>1, <2>2 DEF RowsOK, In
<1>13. SlotOK'
  <2>1. slot.done # Never => start <= slot.done
    <3>1. "raw_events" \in Sources
      BY DEF Sources
    <3>2. slot.done # Never => slot.done = slot.ref /\ cursors["raw_events"] >= slot.done
      BY <1>0, <1>11, <3>1 DEF SlotOK
    <3> QED
      BY <1>3, <1>4, <1>5, <3>1, <3>2 DEF Never
  <2>2. slot.done = Never => start <= first
    BY <1>3, <1>5, <1>11 DEF NoSlot, first, Never
  <2>3. slot.done # Never => slot.since # Never
    BY <1>0 DEF SlotOK
  <2>4. ASSUME slot.done # Never, NEW s \in Sources, NEW t \in Floor' .. slot.done - 1
        PROVE  t \in Covered(Ordinary, s)'
    <3>1. t \in Floor .. slot.done - 1
      BY <1>3, <1>10
    <3> QED
      BY <1>0, <1>1, <2>4, <3>1 DEF SlotOK, Covered
  <2>5. ASSUME NEW r \in Owed(first)
        PROVE  /\ r \in DOMAIN served /\ served[r] < now /\ r.at >= Floor'
               /\ \/ ~Late(r) \/ r.at >= now - Overlap
                  \/ \E d \in Floor' .. now : CutOff(d, r.at)
    BY <1>10 DEF Owed, Late
  <2>6. slot.done <= now /\ now > 0
    BY <1>1, <1>3, <1>11 DEF Never
  <2>7. first # Never
    BY <1>8 DEF Never
  <2>8. \A s \in Sources : slot.done # Never => cursors[s] >= slot.done
    BY <1>0 DEF SlotOK
  <2>9. /\ slot'.done <= slot'.ref /\ slot'.ref <= now' /\ slot'.ref > 0
        /\ (slot'.start <= slot'.ref - Overlap \/ slot'.start = 0)
        /\ slot'.start <= IF slot'.done = Never THEN slot'.since ELSE slot'.done
    BY <1>2, <1>3, <1>5, <1>7, <2>1, <2>2, <2>6
  <2>10. \A r \in slot'.owed :
          /\ r \in DOMAIN served' /\ served'[r] < slot'.ref /\ r.at >= Floor'
          /\ \/ ~Late(r)' \/ r.at >= slot'.ref - Overlap
             \/ \E d \in Floor' .. now' : CutOff(d, r.at)'
    BY <1>2, <1>7, <2>5
  <2> QED
    BY <1>1, <1>7, <2>4, <2>7, <2>8, <2>9, <2>10 DEF SlotOK
<1>14. RecoveryOK(recovery)'
  <2>1. {recovery.restore, recovery.handled} \subseteq Times
    BY <1>0, Types
  <2>2. \A t \in {recovery.restore, recovery.handled} : t < slot.ref => t < now
    BY <1>1, <1>3, <2>1, TimeValue
  <2> QED
    BY <1>0, <1>1, <1>2, <1>7, <2>2 DEF RecoveryOK
<1>15. LossesOK'
  <2>1. \A d : Known(recovery, d)' <=> Known(recovery, d)
    BY <1>1, <1>2, <1>7 DEF Known
  <2>2. \A d \in Floor' .. slot.done - 1 : d \in Floor .. slot.done - 1
    BY <1>3, <1>10
  <2>3. \A d \in Floor' .. now : d \in Floor .. now
    BY <1>3, <1>10
  <2> QED
    BY <1>0, <1>1, <1>2, <1>7, <2>1, <2>2, <2>3 DEF LossesOK
<1>16. QueuesOK' /\ NotingOK'
  <2>1. run' = NoRun
    BY <1>1 DEF Idle
  <2> QED
    BY <2>1, NoRunQueues
<1> QED
  BY <1>2, <1>9, <1>12, <1>13, <1>14, <1>15, <1>16 DEF Inv

LEMMA QueuesValue ==
    ASSUME TypeOK, NEW tag, NEW start \in Nat, NEW end \in Int, end <= slot.ref
    PROVE  /\ Queues(tag, start, end, slot.ref)
                 \in [Sources -> SUBSET ((0 .. MaxTime) \X (0 .. MaxTime))]
           /\ \A s \in Sources :
                 /\ \A w \in Queues(tag, start, end, slot.ref)[s] : w[1] < w[2] /\ w[2] <= slot.ref
                 /\ \A t \in start .. end - 1 : t >= slot.ref - Horizon =>
                       t \in Covered(tag, s) \cup UnitsOf(Queues(tag, start, end, slot.ref)[s])
                 /\ tag = Ordinary => \A t \in start .. slot.ref - 1 : t >= slot.ref - Overlap =>
                       t \in CoveredBy(checked, Ordinary, s)
                               \cup UnitsOf(Queues(tag, start, end, slot.ref)[s])
<1>1. slot.ref \in Nat /\ slot.ref <= MaxTime
  BY Bounds DEF TypeOK, Slots
<1> DEFINE units(s) == Missing(tag, s, start, end, slot.ref)
                          \cup IF tag = Ordinary THEN Replay(s, start, slot.ref) ELSE {}
           queues == Queues(tag, start, end, slot.ref)
<1>2. queues = [s \in Sources |-> Intervals(units(s))]
  BY DEF Queues
<1>3. ASSUME NEW s \in Sources
      PROVE  /\ units(s) \in SUBSET Int
             /\ \A t \in units(s) : start <= t /\ t < slot.ref
             /\ \A t \in start .. end - 1 :
                   t >= slot.ref - Horizon /\ t \notin Covered(tag, s) => t \in units(s)
             /\ tag = Ordinary => \A t \in start .. slot.ref - 1 :
                   t >= slot.ref - Overlap /\ t \notin CoveredBy(checked, Ordinary, s)
                      => t \in units(s)
  <2>1. \A t : t \in Missing(tag, s, start, end, slot.ref) <=>
           /\ t \in Int /\ start <= t /\ t < end /\ t \notin Covered(tag, s)
           /\ t >= slot.ref - Horizon
    BY UnitsMember DEF Missing
  <2>2. \A t : t \in Replay(s, start, slot.ref) <=>
           /\ t \in Int /\ start <= t /\ t < slot.ref /\ t \notin CoveredBy(checked, Ordinary, s)
           /\ t >= slot.ref - Overlap
    BY <1>1, UnitsMember DEF Replay
  <2>3. \A t : t \in units(s) <=> \/ t \in Missing(tag, s, start, end, slot.ref)
                                  \/ tag = Ordinary /\ t \in Replay(s, start, slot.ref)
    OBVIOUS
  <2> HIDE DEF units
  <2> QED
    BY <1>1, <2>1, <2>2, <2>3
<1> HIDE DEF units, queues
<1>4. ASSUME NEW s \in Sources
      PROVE  /\ queues[s] = Intervals(units(s)) /\ queues[s] \in SUBSET (Int \X Int)
             /\ \A w \in queues[s] : start <= w[1] /\ w[1] < w[2] /\ w[2] <= slot.ref
             /\ units(s) \subseteq UnitsOf(queues[s])
  <2>1. queues[s] = Intervals(units(s))
    BY <1>2
  <2> DEFINE U == units(s)
  <2>2. U \in SUBSET Int /\ \A t \in U : start <= t /\ t < slot.ref
    BY <1>3
  <2>3. start \in Int /\ slot.ref \in Int
    BY <1>1
  <2> HIDE DEF U
  <2>4. /\ Intervals(U) \in SUBSET (Int \X Int)
        /\ \A w \in Intervals(U) : start <= w[1] /\ w[1] < w[2] /\ w[2] <= slot.ref
        /\ U \subseteq UnitsOf(Intervals(U))
    BY <2>2, <2>3, IntervalsValue, Zenon
  <2> QED
    BY <2>1, <2>4 DEF U
<1>5. queues \in [Sources -> SUBSET ((0 .. MaxTime) \X (0 .. MaxTime))]
  <2>1. ASSUME NEW s \in Sources, NEW w \in queues[s]
        PROVE  w \in (0 .. MaxTime) \X (0 .. MaxTime)
    <3>1. w \in Int \X Int /\ start <= w[1] /\ w[1] < w[2] /\ w[2] <= slot.ref
      BY <1>4
    <3>2. w = <<w[1], w[2]>> /\ w[1] \in 0 .. MaxTime /\ w[2] \in 0 .. MaxTime
      BY <1>1, <3>1, Bounds
    <3> QED
      BY <3>2
  <2> QED
    BY <1>2, <2>1
<1> QED
  BY <1>3, <1>4, <1>5 DEF queues

\* What a run is when it enters a period.
LEMMA EnteredType ==
    ASSUME TypeOK, NEW r \in Runs, NEW phase \in Phases, NEW tag \in 0 .. MaxTime + 1,
           NEW start \in Nat, NEW end \in Int, end <= slot.ref
    PROVE  Entered(r, phase, tag, start, end) \in Runs
<1>1. Queues(tag, start, end, slot.ref) \in [Sources -> SUBSET ((0 .. MaxTime) \X (0 .. MaxTime))]
  BY QueuesValue
<1>2. hints \in [Sources -> 1 .. Window] /\ nextSource \in Turns /\ 0 \in 0 .. Len(Order)
      /\ {} \subseteq Sources
  BY OrderLength DEF TypeOK
<1> QED
  BY <1>1, <1>2 DEF Entered, Runs

LEMMA BeginKeeps == ASSUME Inv, Begin PROVE Inv'
<1>0. TypeOK /\ ServiceOK /\ RowsOK /\ SlotOK /\ RecoveryOK(recovery) /\ LossesOK /\ QueuesOK
        /\ NotingOK
  BY DEF Inv
<1> DEFINE past == {slot.start, CursorStart(slot.ref)}
                      \cup IF recovery.start = Never THEN {} ELSE {ReplayStart}
           start == Min(past)
           fresh == [NoRun EXCEPT !.left = MaxRequests, !.start = start]
           end == Min({slot.ref, recovery.restore + Overlap})
<1>1. /\ Idle /\ slot.open /\ UNCHANGED <<service, tables, slot, faults>>
      /\ run' = IF recovery.restore # Never
                THEN Entered(fresh, "recover", RecoveryTag(recovery.restore), ReplayStart, end)
                ELSE Entered(fresh, "collect", Ordinary, start, slot.ref)
  BY DEF Begin
<1>2. /\ slot.ref \in Nat /\ slot.ref <= MaxTime /\ slot.start \in Nat /\ slot.start <= MaxTime
      /\ recovery.start \in Int /\ recovery.restore \in Int /\ Overlap \in Nat
      /\ recovery.restore >= Never /\ recovery.restore <= MaxTime
  BY <1>0, Types, TimeValue, Bounds DEF TypeOK, Slots
<1>3. CursorStart(slot.ref) \in Nat
  BY <1>0, <1>2, CursorValue DEF RowsOK
<1>4. ReplayStart \in Nat
  BY <1>2, Max2 DEF ReplayStart
<1>5. start \in Nat /\ start <= slot.start
  <2>1. past \in SUBSET Int /\ past # {} /\ slot.start \in past /\ \A x \in past : 0 <= x
    BY <1>2, <1>3, <1>4
  <2> HIDE DEF past
  <2>2. 0 \in Int
    OBVIOUS
  <2>3. Min(past) \in past /\ \A x \in past : Min(past) <= x
    BY <2>1, <2>2, MinValue, Zenon
  <2>4. Min(past) \in Int /\ 0 <= Min(past) /\ Min(past) <= slot.start
    BY <2>1, <2>3
  <2>5. start = Min(past)
    OBVIOUS
  <2> HIDE DEF start
  <2> QED
    BY <2>4, <2>5
<1>6. end \in Int /\ end <= slot.ref
  BY <1>2, Min2
<1> HIDE DEF past, start, end
<1>7. fresh \in Runs /\ fresh.start = start
  <2>1. start \in 0 .. MaxTime /\ MaxRequests \in 0 .. MaxRequests
    BY <1>2, <1>5, Bounds
  <2> QED
    BY <2>1, NoRunType DEF Runs, NoRun
<1> HIDE DEF fresh
<1>8. RecoveryTag(recovery.restore) \in 0 .. MaxTime + 1 /\ Ordinary \in 0 .. MaxTime + 1
      /\ {"recover", "collect"} \subseteq Phases
  BY <1>2, Bounds DEF RecoveryTag, Ordinary, Never, Phases
<1>9. slot.ref \in Int /\ slot.ref <= slot.ref /\ "recover" \in Phases /\ "collect" \in Phases
  BY <1>2, <1>8
<1>10. /\ run' \in Runs /\ run'.start = start
       /\ \/ /\ recovery.restore # Never
             /\ run'.phase = "recover" /\ run'.tag = RecoveryTag(recovery.restore)
             /\ run'.queues = Queues(RecoveryTag(recovery.restore), ReplayStart, end, slot.ref)
          \/ /\ run'.phase = "collect" /\ run'.tag = Ordinary
             /\ run'.queues = Queues(Ordinary, start, slot.ref, slot.ref)
  <2> DEFINE r == Entered(fresh, "recover", RecoveryTag(recovery.restore), ReplayStart, end)
             q == Entered(fresh, "collect", Ordinary, start, slot.ref)
  <2>1. /\ r \in Runs /\ r.phase = "recover" /\ r.tag = RecoveryTag(recovery.restore)
        /\ r.queues = Queues(RecoveryTag(recovery.restore), ReplayStart, end, slot.ref)
        /\ r.start = fresh.start
    <3>1. r \in Runs
      BY <1>0, <1>4, <1>6, <1>7, <1>8, <1>9, EnteredType
    <3> QED
      BY <1>7, <3>1 DEF Entered, Runs
  <2>2. /\ q \in Runs /\ q.phase = "collect" /\ q.tag = Ordinary
        /\ q.queues = Queues(Ordinary, start, slot.ref, slot.ref)
        /\ q.start = fresh.start
    <3>1. q \in Runs
      BY <1>0, <1>5, <1>7, <1>8, <1>9, EnteredType
    <3> QED
      BY <1>7, <3>1 DEF Entered, Runs
  <2>3. run' = IF recovery.restore # Never THEN r ELSE q
    BY <1>1
  <2> HIDE DEF r, q
  <2> QED
    BY <1>7, <2>1, <2>2, <2>3
<1>11. TypeOK'
  BY <1>0, <1>1, <1>10 DEF TypeOK, service, tables
<1>12. ServiceOK'
  BY <1>0, <1>1, SameService
<1>13. recovery' = recovery /\ UNCHANGED <<service, stored, coverage, checked, cursors, slot>>
  BY <1>1 DEF tables
<1>14. RowsOK' /\ SlotOK' /\ LossesOK' /\ RecoveryOK(recovery)'
  BY <1>0, <1>1, <1>13, SameTables
<1>15. QueuesOK'
  <2>1. coverage' = coverage /\ checked' = checked /\ slot' = slot /\ ReplayStart' = ReplayStart
    BY <1>13 DEF ReplayStart
  <2>2. \A tag, s : Covered(tag, s)' = Covered(tag, s)
    BY <2>1 DEF Covered
  <2>3. \A s : Pending(s)' = UnitsOf(run'.queues[s])
    BY DEF Pending
  <2>4. CASE recovery.restore # Never /\ run'.phase = "recover"
             /\ run'.tag = RecoveryTag(recovery.restore)
             /\ run'.queues = Queues(RecoveryTag(recovery.restore), ReplayStart, end, slot.ref)
    <3>1. /\ \A s \in Sources : \A w \in run'.queues[s] : w[1] < w[2] /\ w[2] <= slot.ref
          /\ \A s \in Sources, t \in ReplayStart .. end - 1 : t >= slot.ref - Horizon =>
                t \in Covered(RecoveryTag(recovery.restore), s) \cup UnitsOf(run'.queues[s])
      BY <1>0, <1>4, <1>6, <2>4, QueuesValue
    <3>2. WindowsOK'
      BY <2>1, <3>1 DEF WindowsOK
    <3>3. Accounted(run.tag, ReplayStart, Min({slot.ref, recovery.restore + Overlap}))'
      BY <1>13, <2>1, <2>2, <2>3, <2>4, <3>1 DEF Accounted, end
    <3> QED
      BY <1>1, <1>5, <1>10, <1>13, <2>1, <2>4, <3>2, <3>3 DEF QueuesOK
  <2>5. CASE run'.phase = "collect" /\ run'.tag = Ordinary
             /\ run'.queues = Queues(Ordinary, start, slot.ref, slot.ref)
    <3>1. /\ \A s \in Sources : \A w \in run'.queues[s] : w[1] < w[2] /\ w[2] <= slot.ref
          /\ \A s \in Sources, t \in start .. slot.ref - 1 : t >= slot.ref - Horizon =>
                t \in Covered(Ordinary, s) \cup UnitsOf(run'.queues[s])
          /\ \A s \in Sources, t \in start .. slot.ref - 1 : t >= slot.ref - Overlap =>
                t \in CoveredBy(checked, Ordinary, s) \cup UnitsOf(run'.queues[s])
      BY <1>0, <1>5, <1>9, <2>5, QueuesValue, Zenon
    <3>2. WindowsOK'
      BY <2>1, <3>1 DEF WindowsOK
    <3>3. Accounted(Ordinary, run.start, slot.ref)' /\ Rechecked'
      BY <1>10, <2>1, <2>2, <2>3, <3>1 DEF Accounted, Rechecked
    <3> QED
      BY <1>1, <1>5, <1>10, <2>1, <2>5, <3>2, <3>3 DEF QueuesOK
  <2> QED
    BY <1>10, <2>4, <2>5
<1>16. NotingOK'
  BY <1>10 DEF NotingOK
<1> QED
  BY <1>11, <1>12, <1>14, <1>15, <1>16 DEF Inv

LEMMA EnterOrdinaryKeeps == ASSUME Inv, EnterOrdinary PROVE Inv'
<1>0. TypeOK /\ ServiceOK /\ RowsOK /\ SlotOK /\ RecoveryOK(recovery) /\ LossesOK /\ QueuesOK
        /\ NotingOK
  BY DEF Inv
<1>1. /\ run.phase = "between" /\ UNCHANGED <<service, tables, slot, faults>>
      /\ run' = Entered(run, "collect", Ordinary, run.start, slot.ref)
  BY DEF EnterOrdinary
<1>2. slot.ref \in Nat /\ run.start \in Nat /\ run \in Runs /\ MaxTime \in Nat
  BY <1>0, Types, Bounds DEF TypeOK
<1>3. Ordinary \in 0 .. MaxTime + 1 /\ "collect" \in Phases
  BY <1>2 DEF Ordinary, Phases
<1>4. /\ run' \in Runs /\ run'.phase = "collect" /\ run'.tag = Ordinary /\ run'.start = run.start
      /\ run'.queues = Queues(Ordinary, run.start, slot.ref, slot.ref)
  <2>1. slot.ref \in Int /\ slot.ref <= slot.ref
    BY <1>2
  <2> DEFINE q == Entered(run, "collect", Ordinary, run.start, slot.ref)
  <2>2. q \in Runs
    BY <1>0, <1>2, <1>3, <2>1, EnteredType
  <2>3. q.queues = Queues(Ordinary, run.start, slot.ref, slot.ref)
    BY <1>2 DEF Entered, Runs
  <2>4. q.phase = "collect" /\ q.tag = Ordinary /\ q.start = run.start
    BY <1>2 DEF Entered, Runs
  <2>5. run' = q
    BY <1>1
  <2> HIDE DEF q
  <2> QED
    BY <2>2, <2>3, <2>4, <2>5
<1>5. slot.open /\ run.start <= slot.start
  BY <1>0, <1>1 DEF QueuesOK
<1>6. TypeOK'
  BY <1>0, <1>1, <1>4 DEF TypeOK, service, tables
<1>7. ServiceOK'
  BY <1>0, <1>1, SameService
<1>8. recovery' = recovery /\ UNCHANGED <<service, stored, coverage, checked, cursors, slot>>
  BY <1>1 DEF tables
<1>9. RowsOK' /\ SlotOK' /\ LossesOK' /\ RecoveryOK(recovery)'
  BY <1>0, <1>5, <1>8, SameTables
<1>10. QueuesOK'
  <2>1. coverage' = coverage /\ checked' = checked /\ slot' = slot
    BY <1>8
  <2>2. \A tag, s : Covered(tag, s)' = Covered(tag, s)
    BY <2>1 DEF Covered
  <2>3. \A s : Pending(s)' = UnitsOf(run'.queues[s])
    BY DEF Pending
  <2>4. /\ \A s \in Sources : \A w \in run'.queues[s] : w[1] < w[2] /\ w[2] <= slot.ref
        /\ \A s \in Sources, t \in run.start .. slot.ref - 1 : t >= slot.ref - Horizon =>
              t \in Covered(Ordinary, s) \cup UnitsOf(run'.queues[s])
        /\ \A s \in Sources, t \in run.start .. slot.ref - 1 : t >= slot.ref - Overlap =>
              t \in CoveredBy(checked, Ordinary, s) \cup UnitsOf(run'.queues[s])
    <3>1. slot.ref \in Int /\ slot.ref <= slot.ref
      BY <1>2
    <3> QED
      BY <1>0, <1>2, <1>4, <3>1, QueuesValue, Zenon
  <2>5. WindowsOK'
    BY <2>1, <2>4 DEF WindowsOK
  <2>6. Accounted(Ordinary, run.start, slot.ref)' /\ Rechecked'
    BY <1>4, <2>1, <2>2, <2>3, <2>4 DEF Accounted, Rechecked
  <2> QED
    BY <1>4, <1>5, <2>1, <2>5, <2>6 DEF QueuesOK
<1>11. NotingOK'
  BY <1>4 DEF NotingOK
<1> QED
  BY <1>6, <1>7, <1>9, <1>10, <1>11 DEF Inv

-----------------------------------------------------------------------------
(* One request.                                                            *)

\* The run after a request still has to ask for everything but its window.
AfterRequest(r, queues, pos, processed, left, last) ==
    [r EXCEPT !.queues = queues, !.pos = pos, !.processed = processed,
              !.left = left, !.made = TRUE, !.last = last]

LEMMA RunAfterRequest ==
    ASSUME NEW r \in Runs,
           NEW queues \in [Sources -> SUBSET ((0 .. MaxTime) \X (0 .. MaxTime))],
           NEW pos \in 0 .. Len(Order), NEW processed \in SUBSET Sources,
           NEW left \in 0 .. MaxRequests, NEW last \in Turns
    PROVE  AfterRequest(r, queues, pos, processed, left, last) \in Runs
BY DEF Runs, AfterRequest

LEMMA AskedValue ==
    ASSUME TypeOK, WindowsOK, run.left > 0, NEW k \in Turns, Chosen(k),
           NEW w, w = FirstWindow(Turn(k)), NEW sources, sources = Bundle(Turn(k)),
           NEW asked, asked = Asked(k, w, sources)
    PROVE  /\ asked \in Runs
           /\ asked.phase = run.phase /\ asked.tag = run.tag /\ asked.start = run.start
           /\ asked.errors = run.errors /\ asked.complete = run.complete
           /\ \A s \in Sources :
                 /\ \A v \in asked.queues[s] : v[1] < v[2] /\ v[2] <= slot.ref
                 /\ s \notin sources => asked.queues[s] = run.queues[s]
                 /\ UnitsOf(run.queues[s]) \subseteq UnitsOf(asked.queues[s]) \cup Units(w[1], w[2])
<1>1. /\ Turn(k) \in sources /\ sources \subseteq Sources
      /\ w \in Nat \X Nat /\ w[1] < w[2] /\ w[2] <= slot.ref
      /\ \A s \in sources :
            /\ After(run.queues[s], w) \in SUBSET (Nat \X Nat)
            /\ \A v \in After(run.queues[s], w) : v[1] < v[2] /\ v[2] <= slot.ref
            /\ UnitsOf(run.queues[s])
                  \subseteq UnitsOf(After(run.queues[s], w)) \cup Units(w[1], w[2])
  BY RequestFacts
<1>2. run \in Runs /\ slot.ref \in Nat /\ slot.ref <= MaxTime
  BY Bounds DEF TypeOK, Slots
<1> DEFINE queues == [s \in Sources |->
                        IF s \in sources THEN After(run.queues[s], w) ELSE run.queues[s]]
<1>3. ASSUME NEW s \in sources, NEW v \in After(run.queues[s], w)
      PROVE  v \in (0 .. MaxTime) \X (0 .. MaxTime)
  <2>1. v \in Nat \X Nat /\ v[1] < v[2] /\ v[2] <= slot.ref
    BY <1>1
  <2>2. v = <<v[1], v[2]>> /\ v[1] \in 0 .. MaxTime /\ v[2] \in 0 .. MaxTime
    BY <1>2, <2>1, Bounds
  <2> QED
    BY <2>2
<1>4. queues \in [Sources -> SUBSET ((0 .. MaxTime) \X (0 .. MaxTime))]
  <2>1. run.queues \in [Sources -> SUBSET ((0 .. MaxTime) \X (0 .. MaxTime))]
    BY <1>2 DEF Runs
  <2> QED
    BY <1>3, <2>1
<1>5. Processed \cup sources \subseteq Sources
  BY <1>1, <1>2 DEF Processed, Runs
<1>6. k + 1 \in 0 .. Len(Order) /\ Rotated(k) \in Turns
  <2>1. k \in Int /\ k >= 0 /\ k <= Len(Order) - 1 /\ run.next \in Int
    BY <1>2, OrderLength DEF Turns, Runs
  <2>2. run.next + k + 1 \in Int
    BY <2>1
  <2>3. (run.next + k + 1) % Len(Order) \in Turns
    BY <2>2, Moduli
  <2> QED
    BY <2>1, <2>3, OrderLength DEF Rotated
<1>7. run.left - 1 \in 0 .. MaxRequests
  BY <1>2, Bounds DEF Runs
<1>8. run.queues \in [Sources -> SUBSET ((0 .. MaxTime) \X (0 .. MaxTime))]
  BY <1>2 DEF Runs
<1>9. asked = [run EXCEPT !.queues = queues, !.pos = k + 1, !.processed = Processed \cup sources,
                          !.left = run.left - 1, !.made = TRUE, !.last = Rotated(k)]
  <2>1. queues = [s \in Sources |->
                    IF s \in sources THEN After(run.queues[s], w) ELSE run.queues[s]]
    OBVIOUS
  <2> HIDE DEF queues
  <2> QED
    BY <1>2, <2>1 DEF Asked, Runs
<1> HIDE DEF queues
<1>10. asked \in Runs /\ asked.queues = queues
       /\ asked.phase = run.phase /\ asked.tag = run.tag /\ asked.start = run.start
       /\ asked.errors = run.errors /\ asked.complete = run.complete
  <2>1. /\ asked.phase = run.phase /\ asked.tag = run.tag /\ asked.start = run.start
        /\ asked.queues = queues /\ asked.errors = run.errors /\ asked.complete = run.complete
    BY <1>2, <1>9 DEF Runs
  <2>2. asked \in Runs
    <3> PICK processed, left, last :
           processed = Processed \cup sources /\ left = run.left - 1 /\ last = Rotated(k)
      OBVIOUS
    <3>1. /\ processed \in SUBSET Sources /\ left \in 0 .. MaxRequests /\ last \in Turns
          /\ k + 1 \in 0 .. Len(Order)
      BY <1>5, <1>6, <1>7
    <3>2. asked = AfterRequest(run, queues, k + 1, processed, left, last)
      BY <1>9 DEF AfterRequest
    <3> QED
      BY <1>2, <1>4, <3>1, <3>2, RunAfterRequest
  <2> QED
    BY <2>1, <2>2
<1>11. ASSUME NEW s \in Sources
       PROVE  /\ \A v \in queues[s] : v[1] < v[2] /\ v[2] <= slot.ref
              /\ s \notin sources => queues[s] = run.queues[s]
              /\ UnitsOf(run.queues[s]) \subseteq UnitsOf(queues[s]) \cup Units(w[1], w[2])
  <2>1. CASE s \in sources
    BY <1>1, <2>1 DEF queues
  <2>2. CASE s \notin sources
    BY <2>2 DEF queues, WindowsOK
  <2> QED
    BY <2>1, <2>2
<1> QED
  BY <1>10, <1>11

\* The tables stay as they are.
LEMMA UnstoredKeeps ==
    ASSUME Inv, Collecting, UNCHANGED <<service, nextSource, recovery, slot>>,
           UNCHANGED <<stored, coverage, checked, cursors>>,
           hints' \in [Sources -> 1 .. Window], faults' \in 0 .. MaxFaults,
           run' \in Runs, run'.phase = run.phase, run'.tag = run.tag, run'.start = run.start,
           WindowsOK',
           run'.errors \/ (~run.errors /\ \A s \in Sources : Pending(s) \subseteq Pending(s)')
    PROVE  Inv'
<1>0. TypeOK /\ ServiceOK /\ RowsOK /\ SlotOK /\ RecoveryOK(recovery) /\ LossesOK /\ QueuesOK
        /\ NotingOK
  BY DEF Inv
<1>1. TypeOK'
  BY <1>0 DEF TypeOK, service
<1>2. ServiceOK'
  BY <1>0, SameService
<1>3. slot.open
  BY RunInSlot DEF Collecting
<1>4. RowsOK' /\ SlotOK' /\ LossesOK' /\ RecoveryOK(recovery)'
  BY <1>0, <1>3, SameTables
<1>5. ReplayStart' = ReplayStart /\ \A tag, s : Covered(tag, s)' = Covered(tag, s)
  BY DEF ReplayStart, Covered
<1>6. \A tag, start, end : Accounted(tag, start, end)
                             /\ (\A s \in Sources : Pending(s) \subseteq Pending(s)')
          => \A s \in Sources, t \in start .. end - 1 :
                t >= slot.ref - Horizon => t \in Covered(tag, s) \cup Pending(s)'
  BY DEF Accounted
<1>7. \A tag, start, end :
         (\A s \in Sources, t \in start .. end - 1 :
                t >= slot.ref - Horizon => t \in Covered(tag, s) \cup Pending(s)')
          => Accounted(tag, start, end)'
  BY <1>5 DEF Accounted
<1>8. Rechecked /\ (\A s \in Sources : Pending(s) \subseteq Pending(s)') => Rechecked'
  BY DEF Rechecked
<1>9. QueuesOK'
  BY <1>0, <1>5, <1>6, <1>7, <1>8 DEF QueuesOK, Collecting
<1>10. NotingOK'
  BY DEF NotingOK, Collecting
<1> QED
  BY <1>1, <1>2, <1>4, <1>9, <1>10 DEF Inv

LEMMA FailingKeeps ==
    ASSUME Inv, Collecting, run.left > 0, UNCHANGED <<service, nextSource, recovery, slot>>,
           NEW k \in Turns, Chosen(k), NEW w, w = FirstWindow(Turn(k)),
           NEW sources, sources = Bundle(Turn(k)), Failing(k, w, sources)
    PROVE  Inv'
<1>0. TypeOK /\ QueuesOK /\ WindowsOK
  BY DEF Inv, QueuesOK
<1> PICK asked : asked = Asked(k, w, sources)
  OBVIOUS
<1>1. /\ asked \in Runs
      /\ asked.phase = run.phase /\ asked.tag = run.tag /\ asked.start = run.start
      /\ \A s \in Sources : \A v \in asked.queues[s] : v[1] < v[2] /\ v[2] <= slot.ref
  BY <1>0, AskedValue
<1>2. run' = [asked EXCEPT !.errors = TRUE] /\ UNCHANGED <<stored, coverage, checked, cursors, hints>>
  BY DEF Failing, FailedRows
<1>3. faults' \in 0 .. MaxFaults
  BY <1>0, Bounds DEF Failing, TypeOK
<1>4. /\ run' \in Runs /\ run'.phase = run.phase /\ run'.tag = run.tag /\ run'.start = run.start
      /\ run'.errors = TRUE /\ run'.queues = asked.queues
  BY <1>1, <1>2 DEF Runs
<1>5. WindowsOK'
  BY <1>1, <1>4 DEF WindowsOK
<1>6. hints' \in [Sources -> 1 .. Window]
  BY <1>0, <1>2 DEF TypeOK
<1> QED
  BY <1>2, <1>3, <1>4, <1>5, <1>6, UnstoredKeeps

LEMMA SplittingKeeps ==
    ASSUME Inv, Collecting, run.left > 0, UNCHANGED <<service, nextSource, recovery, slot>>,
           NEW k \in Turns, Chosen(k), NEW w, w = FirstWindow(Turn(k)),
           NEW sources, sources = Bundle(Turn(k)), Splitting(k, w, sources)
    PROVE  Inv'
<1>0. TypeOK /\ QueuesOK /\ WindowsOK
  BY DEF Inv, QueuesOK
<1> PICK asked : asked = Asked(k, w, sources)
  OBVIOUS
<1> DEFINE middle == w[1] + (w[2] - w[1]) \div 2
           halves == {<<w[1], middle>>, <<middle, w[2]>>}
<1>1. /\ asked \in Runs
      /\ asked.phase = run.phase /\ asked.tag = run.tag /\ asked.start = run.start
      /\ asked.errors = run.errors
      /\ \A s \in Sources :
            /\ \A v \in asked.queues[s] : v[1] < v[2] /\ v[2] <= slot.ref
            /\ s \notin sources => asked.queues[s] = run.queues[s]
            /\ UnitsOf(run.queues[s]) \subseteq UnitsOf(asked.queues[s]) \cup Units(w[1], w[2])
  BY <1>0, AskedValue
<1>2. sources \subseteq Sources /\ w \in Nat \X Nat /\ w[1] < w[2] /\ w[2] <= slot.ref
      /\ w[2] - w[1] <= Window
  BY <1>0, RequestFacts
<1>3. /\ w[2] - w[1] > 1 /\ UNCHANGED <<stored, coverage, checked, cursors, faults>>
      /\ hints' = [s \in Sources |-> IF s \in sources THEN middle - w[1] ELSE hints[s]]
      /\ run' = [asked EXCEPT !.queues =
                   [s \in Sources |-> asked.queues[s] \cup IF s \in sources THEN halves ELSE {}]]
  <2>1. asked \in Runs => asked.queues = [s \in Sources |-> asked.queues[s]]
    BY DEF Runs
  <2> QED
    BY <1>1, <2>1 DEF Splitting, Runs
<1>4. slot.ref \in Nat /\ slot.ref <= MaxTime /\ MaxTime \in Nat /\ Window \in Nat
  BY <1>0, Bounds DEF TypeOK, Slots
<1>5. middle \in Nat /\ w[1] < middle /\ middle < w[2] /\ middle - w[1] \in 1 .. Window
  BY <1>2, <1>3, <1>4
<1> HIDE DEF middle
<1>6. halves \subseteq (0 .. MaxTime) \X (0 .. MaxTime)
      /\ \A v \in halves : v[1] < v[2] /\ v[2] <= slot.ref
  BY <1>2, <1>4, <1>5
<1>7. Units(w[1], w[2]) \subseteq Units(w[1], middle) \cup Units(middle, w[2])
  BY <1>2, <1>5, UnitsMember
<1>8. hints' \in [Sources -> 1 .. Window] /\ faults' \in 0 .. MaxFaults
  BY <1>0, <1>3, <1>5 DEF TypeOK
<1>9. \A s \in Sources : Units(w[1], w[2]) \subseteq UnitsOf(halves)
  BY <1>7 DEF UnitsOf
<1> HIDE DEF halves
<1> DEFINE queues == [s \in Sources |-> asked.queues[s] \cup IF s \in sources THEN halves ELSE {}]
<1>10. queues \in [Sources -> SUBSET ((0 .. MaxTime) \X (0 .. MaxTime))]
  <2>1. asked.queues \in [Sources -> SUBSET ((0 .. MaxTime) \X (0 .. MaxTime))]
    BY <1>1 DEF Runs
  <2> QED
    BY <1>6, <2>1
<1>11. ASSUME NEW s \in Sources
       PROVE  /\ \A v \in queues[s] : v[1] < v[2] /\ v[2] <= slot.ref
              /\ UnitsOf(run.queues[s]) \subseteq UnitsOf(queues[s])
  <2>1. queues[s] = asked.queues[s] \cup IF s \in sources THEN halves ELSE {}
    OBVIOUS
  <2> HIDE DEF queues
  <2>2. \A v \in queues[s] : v[1] < v[2] /\ v[2] <= slot.ref
    BY <1>1, <1>6, <2>1
  <2>3. CASE s \in sources
    <3>1. UnitsOf(queues[s]) = UnitsOf(asked.queues[s]) \cup UnitsOf(halves)
      BY <2>1, <2>3 DEF UnitsOf
    <3> QED
      BY <1>1, <1>9, <2>2, <3>1
  <2>4. CASE s \notin sources
    <3>1. queues[s] = run.queues[s]
      BY <1>1, <2>1, <2>4
    <3> QED
      BY <2>2, <3>1
  <2> QED
    BY <2>3, <2>4
<1> HIDE DEF queues
<1>12. run' = [asked EXCEPT !.queues = queues]
  BY <1>3 DEF queues
<1>13. /\ run' \in Runs /\ run'.phase = run.phase /\ run'.tag = run.tag /\ run'.start = run.start
       /\ run'.errors = run.errors /\ run'.queues = queues
  BY <1>1, <1>10, <1>12 DEF Runs
<1>14. WindowsOK' /\ \A s \in Sources : Pending(s) \subseteq Pending(s)'
  BY <1>11, <1>13 DEF WindowsOK, Pending
<1>15. run'.errors \/ ~run.errors
  <2>1. run.errors \in BOOLEAN
    BY <1>0 DEF TypeOK, Runs
  <2> QED
    BY <1>13, <2>1
<1> QED
  BY <1>3, <1>8, <1>13, <1>14, <1>15, UnstoredKeeps

Saved(sources, w, keys) == \E lost \in BOOLEAN : SaveAnswer(Answer(sources, w), keys, lost)

\* What one transaction leaves behind.
AnswerStored(sources, w, keys) ==
    /\ stored \subseteq stored' /\ stored' \subseteq DOMAIN served
    /\ coverage' = coverage \cup keys /\ checked' = checked \cup keys
    /\ keys \subseteq Rows
    /\ \A row \in keys :
          row.tag = run.tag /\ row.source \in sources /\ row.lo = w[1] /\ row.hi = w[2]
    /\ \A row \in keys, r \in DOMAIN served : In(r, row) => r \in stored'
    /\ cursors' \in [Sources -> Times]
    /\ \A s \in Sources : cursors[s] <= cursors'[s] /\ cursors'[s] <= slot.ref
    /\ \A row \in keys : row.tag = Ordinary => row.hi <= cursors'[row.source]
    /\ \A s \in sources :
          /\ Units(w[1], w[2]) \subseteq CoveredBy(coverage', run.tag, s)
          /\ Units(w[1], w[2]) \subseteq CoveredBy(checked', run.tag, s)

LEMMA SaveAnswerValue ==
    ASSUME TypeOK, RowsOK, NEW sources \in SUBSET Sources, NEW w \in Nat \X Nat, w[1] < w[2],
           w[2] <= slot.ref, NEW keys, keys = Keys(sources, w),
           Saved(sources, w, keys)
    PROVE  AnswerStored(sources, w, keys)
<1> DEFINE answer == Answer(sources, w)
<1>1. /\ stored' = stored \cup answer /\ coverage' = coverage \cup keys
      /\ checked' = checked \cup keys
      /\ cursors' = [s \in Sources |-> Max({cursors[s]} \cup
                        {row.hi : row \in {row \in keys : row.source = s /\ row.tag = Ordinary}})]
  BY DEF Saved, SaveAnswer, FailedRows
<1>2. /\ slot.ref \in Nat /\ slot.ref <= MaxTime /\ run.tag \in 0 .. MaxTime + 1
      /\ MaxTime \in Nat /\ w[1] \in Nat /\ w[2] \in Nat
      /\ stored \subseteq DOMAIN served
  BY Bounds DEF TypeOK, Slots, Runs
<1>3. \A row \in keys : row.tag = run.tag /\ row.source \in sources /\ row.lo = w[1] /\ row.hi = w[2]
  BY DEF Keys, Row
<1>4. \A s \in sources : \E row \in keys :
         row.tag = run.tag /\ row.source = s /\ row.lo = w[1] /\ row.hi = w[2]
  <2> TAKE s \in sources
  <2>1. Row(run.tag, s, w) \in keys
    BY DEF Keys
  <2> WITNESS Row(run.tag, s, w) \in keys
  <2> QED
    BY DEF Row
<1>5. keys \subseteq Rows
  BY <1>2 DEF Keys, Row, Rows
<1>6. ASSUME NEW row \in keys, NEW r \in DOMAIN served, In(r, row) PROVE r \in answer
  <2>1. r \in Records /\ r.at \in Int /\ r.source \in sources /\ w[1] <= r.at /\ r.at < w[2]
    BY <1>3, <1>6, Types, RecordTypes DEF In
  <2> QED
    BY <1>2, <2>1, UnitsMember DEF Answer
<1>7. answer \subseteq DOMAIN served
  BY DEF Answer
<1> HIDE DEF answer
<1>8. ASSUME NEW s \in Sources
      PROVE  /\ cursors'[s] \in Times /\ cursors[s] <= cursors'[s] /\ cursors'[s] <= slot.ref
             /\ \A row \in keys : row.source = s /\ row.tag = Ordinary => row.hi <= cursors'[s]
  <2> DEFINE C == {cursors[s]} \cup {row.hi : row \in {row \in keys : row.source = s /\ row.tag = Ordinary}}
  <2>1. cursors[s] \in Times /\ cursors[s] \in Int /\ cursors[s] <= slot.ref
    BY TimeValue DEF TypeOK, RowsOK
  <2>2. \A row \in keys : row.hi \in Nat /\ row.hi <= slot.ref
    BY <1>2, <1>3
  <2>3. /\ C \in SUBSET Int /\ cursors[s] \in C /\ \A x \in C : x <= slot.ref
        /\ \A row \in keys : row.source = s /\ row.tag = Ordinary => row.hi \in C
    BY <2>1, <2>2
  <2>4. cursors'[s] = Max(C)
    BY <1>1
  <2> HIDE DEF C
  <2>5. Max(C) \in C /\ \A x \in C : x <= Max(C)
    <3>1. C # {} /\ slot.ref \in Int
      BY <1>2, <2>3
    <3> QED
      BY <2>3, <3>1, MaxValue, Zenon
  <2>6. cursors'[s] \in Int /\ cursors[s] <= cursors'[s] /\ cursors'[s] <= slot.ref
    BY <2>3, <2>4, <2>5
  <2>7. cursors'[s] \in Times
    BY <1>2, <2>1, <2>6, TimeValue DEF Times, Never
  <2> QED
    BY <2>3, <2>4, <2>5, <2>6, <2>7
<1>9. cursors' \in [Sources -> Times]
  BY <1>1, <1>8
<1>10. \A s \in sources : /\ Units(w[1], w[2]) \subseteq CoveredBy(coverage', run.tag, s)
                          /\ Units(w[1], w[2]) \subseteq CoveredBy(checked', run.tag, s)
  BY <1>1, <1>4 DEF CoveredBy
<1>11. \A row \in keys : row.tag = Ordinary => row.hi <= cursors'[row.source]
  BY <1>3, <1>8
<1>12. stored \subseteq stored' /\ stored' \subseteq DOMAIN served
       /\ \A row \in keys, r \in DOMAIN served : In(r, row) => r \in stored'
  BY <1>1, <1>2, <1>6, <1>7
<1> QED
  BY <1>1, <1>3, <1>5, <1>8, <1>9, <1>10, <1>11, <1>12
     DEF AnswerStored

LEMMA StoringKeeps ==
    ASSUME Inv, Collecting, run.left > 0, UNCHANGED <<service, nextSource, recovery, slot>>,
           NEW k \in Turns, Chosen(k), NEW w, w = FirstWindow(Turn(k)),
           NEW sources, sources = Bundle(Turn(k)), Storing(k, w, sources)
    PROVE  Inv'
<1>0. TypeOK /\ ServiceOK /\ RowsOK /\ SlotOK /\ RecoveryOK(recovery) /\ LossesOK /\ QueuesOK
        /\ NotingOK /\ WindowsOK
  BY DEF Inv, QueuesOK
<1> PICK asked : asked = Asked(k, w, sources)
  OBVIOUS
<1>1. /\ asked \in Runs
      /\ asked.phase = run.phase /\ asked.tag = run.tag /\ asked.start = run.start
      /\ asked.errors = run.errors
      /\ \A s \in Sources :
            /\ \A v \in asked.queues[s] : v[1] < v[2] /\ v[2] <= slot.ref
            /\ s \notin sources => asked.queues[s] = run.queues[s]
            /\ UnitsOf(run.queues[s]) \subseteq UnitsOf(asked.queues[s]) \cup Units(w[1], w[2])
  BY <1>0, AskedValue
<1>2. sources \in SUBSET Sources /\ w \in Nat \X Nat /\ w[1] < w[2] /\ w[2] <= slot.ref
  BY <1>0, RequestFacts
<1>3. PICK lost \in BOOLEAN :
         /\ lost => faults < MaxFaults
         /\ SaveAnswer(Answer(sources, w), Keys(sources, w), lost)
         /\ run' = [asked EXCEPT !.errors = @ \/ lost]
         /\ faults' = IF lost THEN faults + 1 ELSE faults
  BY DEF Storing
<1> PICK keys : keys = Keys(sources, w)
  OBVIOUS
<1>4. /\ stored \subseteq stored' /\ stored' \subseteq DOMAIN served
      /\ coverage' = coverage \cup keys /\ checked' = checked \cup keys
      /\ keys \subseteq Rows
      /\ \A row \in keys :
            row.tag = run.tag /\ row.source \in sources /\ row.lo = w[1] /\ row.hi = w[2]
      /\ \A row \in keys, r \in DOMAIN served : In(r, row) => r \in stored'
      /\ cursors' \in [Sources -> Times]
      /\ \A s \in Sources : cursors[s] <= cursors'[s] /\ cursors'[s] <= slot.ref
      /\ \A row \in keys : row.tag = Ordinary => row.hi <= cursors'[row.source]
      /\ \A s \in sources :
            /\ Units(w[1], w[2]) \subseteq CoveredBy(coverage', run.tag, s)
            /\ Units(w[1], w[2]) \subseteq CoveredBy(checked', run.tag, s)
      /\ \A tag, s : /\ CoveredBy(coverage, tag, s) \subseteq CoveredBy(coverage', tag, s)
                     /\ CoveredBy(checked, tag, s) \subseteq CoveredBy(checked', tag, s)
  <2>1. TypeOK /\ RowsOK /\ Saved(sources, w, keys)
    BY <1>0, <1>3 DEF Saved
  <2>2. AnswerStored(sources, w, keys)
    BY <1>2, <2>1, SaveAnswerValue
  <2>3. coverage' = coverage \cup keys /\ checked' = checked \cup keys
    BY <2>2 DEF AnswerStored
  <2>4. \A tag, s : /\ CoveredBy(coverage, tag, s) \subseteq CoveredBy(coverage', tag, s)
                    /\ CoveredBy(checked, tag, s) \subseteq CoveredBy(checked', tag, s)
    BY <2>3 DEF CoveredBy
  <2> QED
    BY <2>2, <2>4 DEF AnswerStored
<1>5. /\ run' \in Runs /\ run'.phase = run.phase /\ run'.tag = run.tag /\ run'.start = run.start
      /\ run'.queues = asked.queues /\ run'.errors = (run.errors \/ lost)
  BY <1>1, <1>3 DEF Runs
<1>6. UNCHANGED <<service, hints, nextSource, recovery, slot>> /\ faults' \in 0 .. MaxFaults
  BY <1>0, <1>3, Bounds DEF Storing, TypeOK
<1>7. /\ ServiceOK' /\ now' = now /\ served' = served
      /\ \A t : (Connected(t)' <=> Connected(t)) /\ (Disconnected(t)' <=> Disconnected(t))
      /\ \A d, t : CutOff(d, t)' <=> CutOff(d, t)
      /\ \A r : Late(r)' <=> Late(r)
  BY <1>0, <1>6, SameService
<1>8. slot.open /\ slot' = slot /\ recovery' = recovery
  BY <1>6, RunInSlot DEF Collecting
<1>9. TypeOK'
  BY <1>0, <1>4, <1>5, <1>6 DEF TypeOK, service
<1>10. /\ slot.ref \in Nat /\ now \in Nat /\ run.tag \in Nat /\ slot.ref <= now
       /\ recovery.restore \in Int /\ recovery.restore >= Never
  BY <1>0, Types, TimeValue DEF SlotOK
<1>11. run.tag <= now
  <2>1. CASE run.phase = "recover"
    BY <1>0, <1>10, <2>1 DEF QueuesOK, RecoveryTag, RecoveryOK
  <2>2. CASE run.phase = "collect"
    BY <1>0, <1>10, <2>2 DEF QueuesOK, Ordinary
  <2> QED
    BY <2>1, <2>2 DEF Collecting
<1>12. RowsOK'
  <2>1. \A row \in coverage' : row.hi <= slot.ref /\ row.tag <= now
    BY <1>0, <1>2, <1>4, <1>11 DEF RowsOK
  <2>2. \A row \in coverage' \ checked' : row.hi <= slot.done
    BY <1>0, <1>4 DEF RowsOK
  <2>3. \A row \in coverage', r \in DOMAIN served :
           In(r, row) /\ (~Late(r) \/ served[r] < row.tag \/ (row \in checked' /\ served[r] < slot.ref))
             => r \in stored'
    BY <1>0, <1>4 DEF RowsOK
  <2>4. ASSUME NEW row \in coverage', row.tag = Ordinary PROVE row.hi <= cursors'[row.source]
    <3>1. CASE row \in keys
      BY <1>4, <2>4, <3>1
    <3>2. CASE row \in coverage
      <4>1. row.source \in Sources /\ row.hi \in Int
        BY <1>0, <3>2, Types
      <4>2. cursors[row.source] \in Int /\ cursors'[row.source] \in Int
        BY <1>0, <1>4, <4>1, TimeValue DEF TypeOK
      <4> QED
        BY <1>0, <1>4, <2>4, <3>2, <4>1, <4>2 DEF RowsOK
    <3> QED
      BY <1>4, <3>1, <3>2
  <2> QED
    BY <1>4, <1>7, <1>8, <2>1, <2>2, <2>3, <2>4 DEF RowsOK, In
<1>13. \A tag, s : Covered(tag, s) \subseteq Covered(tag, s)'
  BY <1>4 DEF Covered
<1>14. SlotOK'
  <2>1. Floor' = Floor
    BY <1>8 DEF Floor
  <2>2. \A s \in Sources : slot.done # Never => cursors'[s] >= slot.done
    <3>1. \A s \in Sources : cursors[s] \in Int /\ cursors'[s] \in Int
      BY <1>0, <1>4, TimeValue DEF TypeOK
    <3>2. slot.done \in Int
      BY <1>0, Types, TimeValue
    <3> QED
      BY <1>0, <1>4, <3>1, <3>2 DEF SlotOK
  <2>3. slot.done # Never => \A s \in Sources :
           \A t \in Floor .. slot.done - 1 : t \in Covered(Ordinary, s)'
    BY <1>0, <1>13 DEF SlotOK
  <2> QED
    BY <1>0, <1>7, <1>8, <2>1, <2>2, <2>3 DEF SlotOK
<1>15. RecoveryOK(recovery)'
  BY <1>0, <1>7, <1>8 DEF RecoveryOK
<1>16. LossesOK'
  <2>1. \A d : Known(recovery, d)' <=> Known(recovery, d)
    BY <1>7, <1>8 DEF Known
  <2>2. Floor' = Floor
    BY <1>8 DEF Floor
  <2> QED
    BY <1>0, <1>4, <1>7, <1>8, <2>1, <2>2 DEF LossesOK
<1>17. ASSUME NEW s \in Sources
       PROVE  /\ Pending(s) \subseteq Pending(s)' \cup CoveredBy(coverage', run.tag, s)
              /\ Pending(s) \subseteq Pending(s)' \cup CoveredBy(checked', run.tag, s)
  <2>1. Pending(s)' = UnitsOf(asked.queues[s]) /\ Pending(s) = UnitsOf(run.queues[s])
    BY <1>5 DEF Pending
  <2>2. CASE s \in sources
    <3>1. /\ Pending(s) \subseteq Pending(s)' \cup Units(w[1], w[2])
          /\ Units(w[1], w[2]) \subseteq CoveredBy(coverage', run.tag, s)
          /\ Units(w[1], w[2]) \subseteq CoveredBy(checked', run.tag, s)
      <4>1. UnitsOf(run.queues[s]) \subseteq UnitsOf(asked.queues[s]) \cup Units(w[1], w[2])
        BY <1>1
      <4>2. /\ Units(w[1], w[2]) \subseteq CoveredBy(coverage', run.tag, s)
            /\ Units(w[1], w[2]) \subseteq CoveredBy(checked', run.tag, s)
        BY <1>4, <2>2
      <4> QED
        BY <2>1, <4>1, <4>2, Zenon
    <3> QED
      BY <3>1
  <2>3. CASE s \notin sources
    BY <1>1, <2>1, <2>3
  <2> QED
    BY <2>2, <2>3
<1>18. ASSUME NEW start, NEW end, Accounted(run.tag, start, end)
       PROVE  Accounted(run.tag, start, end)'
  <2>1. ASSUME NEW s \in Sources, NEW t \in start .. end - 1, t >= slot.ref - Horizon
        PROVE  t \in CoveredBy(coverage', run.tag, s) \cup Pending(s)'
    <3>1. t \in CoveredBy(coverage, run.tag, s) \/ t \in Pending(s)
      BY <1>18, <2>1 DEF Accounted, Covered
    <3>2. CoveredBy(coverage, run.tag, s) \subseteq CoveredBy(coverage', run.tag, s)
      BY <1>4
    <3> QED
      BY <1>17, <3>1, <3>2
  <2> QED
    BY <1>5, <1>8, <2>1 DEF Accounted, Covered
<1>19. run.tag = Ordinary /\ Rechecked => Rechecked'
  <2> SUFFICES ASSUME run.tag = Ordinary, Rechecked PROVE Rechecked'
    OBVIOUS
  <2>1. ASSUME NEW s \in Sources, NEW t \in run.start .. slot.ref - 1, t >= slot.ref - Overlap
        PROVE  t \in CoveredBy(checked', Ordinary, s) \cup Pending(s)'
    <3>1. t \in CoveredBy(checked, Ordinary, s) \/ t \in Pending(s)
      BY <2>1 DEF Rechecked
    <3>2. CoveredBy(checked, Ordinary, s) \subseteq CoveredBy(checked', Ordinary, s)
      BY <1>4
    <3> QED
      BY <1>17, <3>1, <3>2
  <2> QED
    BY <1>5, <1>8, <2>1 DEF Rechecked
<1>20. QueuesOK'
  <2>1. WindowsOK'
    BY <1>1, <1>5, <1>8 DEF WindowsOK
  <2>2. ReplayStart' = ReplayStart
    BY <1>8 DEF ReplayStart
  <2>3. CASE run.phase = "recover"
    BY <1>0, <1>5, <1>8, <1>18, <2>1, <2>2, <2>3 DEF QueuesOK
  <2>4. CASE run.phase = "collect"
    BY <1>0, <1>5, <1>8, <1>18, <1>19, <2>1, <2>4 DEF QueuesOK
  <2> QED
    BY <2>3, <2>4 DEF Collecting
<1>21. NotingOK'
  BY <1>5 DEF NotingOK, Collecting
<1> QED
  BY <1>7, <1>9, <1>12, <1>14, <1>15, <1>16, <1>20, <1>21 DEF Inv

LEMMA RequestKeeps == ASSUME Inv, Request PROVE Inv'
<1>1. Collecting /\ run.left > 0 /\ UNCHANGED <<service, nextSource, recovery, slot>>
  BY DEF Request
<1>2. PICK k \in {k \in Turns : Chosen(k)} :
         \E w \in {FirstWindow(Turn(k))}, sources \in {Bundle(Turn(k))} :
            Failing(k, w, sources) \/ Splitting(k, w, sources) \/ Storing(k, w, sources)
  BY DEF Request
<1>3. PICK w, sources : /\ w = FirstWindow(Turn(k)) /\ sources = Bundle(Turn(k))
                        /\ \/ Failing(k, w, sources) \/ Splitting(k, w, sources)
                           \/ Storing(k, w, sources)
  BY <1>2
<1>4. k \in Turns /\ Chosen(k)
  BY <1>2
<1> QED
  BY <1>1, <1>3, <1>4, FailingKeeps, SplittingKeeps, StoringKeeps

-----------------------------------------------------------------------------
(* The end of a period.                                                    *)

\* Between two moments of being connected no loss of connection is hidden.
LEMMA FirstConnection ==
    ASSUME TypeOK, ServiceOK, NEW r \in DOMAIN served, NEW d \in Int, CutOff(d, r.at), Late(r)
    PROVE  /\ d \in Nat /\ Disconnected(d) /\ Connected(served[r])
           /\ d <= r.at /\ r.at <= served[r] /\ served[r] <= now
           /\ \A c \in Int : d <= c /\ Connected(c) => served[r] <= c
<1>1. r.at \in Nat /\ served[r] \in Nat /\ now \in Nat /\ r.at <= served[r] /\ served[r] <= now
  BY Types, RecordTypes DEF ServiceOK
<1>2. Disconnected(d) /\ d <= r.at /\ d \in Nat
  BY CutOffValue, NoFuture
<1>3. d \in 0 .. now
  BY <1>1, <1>2
<1>4. Connected(served[r]) /\ \A c \in d .. served[r] - 1 : ~Connected(c)
  BY <1>3 DEF ServiceOK
<1>5. ASSUME NEW c \in Int, d <= c, Connected(c), ~(served[r] <= c) PROVE FALSE
  <2>1. c \in d .. served[r] - 1
    BY <1>1, <1>2, <1>5
  <2> QED
    BY <1>4, <1>5, <2>1
<1> QED
  BY <1>1, <1>2, <1>4, <1>5

LEMMA EndRecoveryKeeps == ASSUME Inv, EndRecovery PROVE Inv'
<1>0. TypeOK /\ ServiceOK /\ RowsOK /\ SlotOK /\ RecoveryOK(recovery) /\ LossesOK /\ QueuesOK
        /\ NotingOK
  BY DEF Inv
<1>1. /\ run.phase = "recover" /\ Ended
      /\ nextSource' = IF run.made THEN run.last ELSE nextSource
      /\ recovery' = IF Whole /\ Alive
                     THEN [recovery EXCEPT !.handled = recovery.restore,
                                           !.start = Never, !.restore = Never]
                     ELSE recovery
      /\ run' = IF run.left = 0 THEN [run EXCEPT !.phase = "record", !.complete = FALSE]
                ELSE [run EXCEPT !.phase = "between", !.complete = Whole /\ Alive]
      /\ UNCHANGED <<service, stored, coverage, checked, cursors, hints, slot, faults>>
  BY DEF EndRecovery
<1>2. run \in Runs /\ recovery \in Recoveries /\ nextSource \in Turns /\ Never \in Times
  BY <1>0, Bounds DEF TypeOK, Times, Never
<1>3. /\ run' \in Runs /\ run'.start = run.start /\ run'.queues = run.queues
      /\ run'.phase \in {"record", "between"} /\ (run'.phase = "record" => ~run'.complete)
  <2>1. (Whole /\ Alive) \in BOOLEAN
    OBVIOUS
  <2> QED
    BY <1>1, <1>2, <2>1 DEF Runs, Phases
<1>4. recovery' \in Recoveries /\ nextSource' \in Turns
  BY <1>1, <1>2 DEF Recoveries, Runs
<1>5. TypeOK'
  BY <1>0, <1>1, <1>3, <1>4 DEF TypeOK, service
<1>6. ServiceOK'
  BY <1>0, <1>1, SameService
<1>7. slot.open /\ slot' = slot /\ run.start <= slot.start /\ WindowsOK
  BY <1>0, <1>1 DEF QueuesOK
<1>8. UNCHANGED <<service, stored, coverage, checked, cursors, slot>>
  BY <1>1
<1>9. RowsOK' /\ SlotOK'
  BY <1>0, <1>7, <1>8, SameTables
<1>10. QueuesOK' /\ NotingOK'
  <2>1. WindowsOK'
    BY <1>3, <1>7 DEF WindowsOK
  <2> QED
    BY <1>3, <1>7, <2>1 DEF QueuesOK, NotingOK
<1>11. CASE recovery' = recovery
  <2>1. RecoveryOK(recovery)' /\ LossesOK'
    BY <1>0, <1>8, <1>11, SameTables
  <2> QED
    BY <1>5, <1>6, <1>9, <1>10, <2>1 DEF Inv
<1>12. CASE Whole /\ Alive
  <2> DEFINE restore == recovery.restore
             end == Min({slot.ref, recovery.restore + Overlap})
  <2>1. recovery' = [recovery EXCEPT !.handled = restore, !.start = Never, !.restore = Never]
    BY <1>1, <1>12
  <2>2. /\ recovery'.handled = restore /\ recovery'.start = Never /\ recovery'.restore = Never
        /\ recovery'.open = recovery.open
    BY <1>2, <2>1 DEF Recoveries
  <2>3. /\ restore # Never /\ restore \in Nat /\ restore < slot.ref /\ Connected(restore)
        /\ recovery.start # Never /\ recovery.start \in Nat /\ recovery.handled < restore
        /\ recovery.handled \in Int /\ recovery.handled >= Never /\ recovery.open \in Int
        /\ (recovery.open # Never => recovery.open > restore)
        /\ run.tag = RecoveryTag(restore)
    BY <1>0, <1>1, Types, TimeValue DEF QueuesOK, RecoveryOK
  <2>4. slot.ref \in Nat /\ Overlap \in Nat /\ Overlap > 0 /\ Horizon \in Nat
        /\ slot.done \in Int /\ slot.done <= slot.ref /\ Floor \in Int
        /\ Floor >= slot.ref - Horizon
    BY <1>0, Types, TimeValue, Bounds, FloorValue DEF SlotOK
  <2>5. end = IF slot.ref <= restore + Overlap THEN slot.ref ELSE restore + Overlap
    BY <2>3, <2>4, Min2
  <2>6. ReplayStart \in Nat /\ ReplayStart <= recovery.start
    BY <2>3, <2>4, Max2 DEF ReplayStart
  <2>7. \A s \in Sources : Pending(s) = {}
    <3>1. \A s \in Sources : run.queues[s] = {}
      BY <1>12 DEF Whole, Waiting
    <3> QED
      BY <3>1 DEF Pending, UnitsOf
  <2>8. \A s \in Sources, t \in ReplayStart .. end - 1 :
           t >= slot.ref - Horizon => t \in Covered(RecoveryTag(restore), s)
    BY <1>0, <1>1, <1>12, <2>3, <2>7 DEF QueuesOK, Accounted, Whole
  <2> HIDE DEF end
  <2>9. \A t : (Connected(t)' <=> Connected(t)) /\ (Disconnected(t)' <=> Disconnected(t))
    BY <1>0, <1>8, SameService
  <2>10. RecoveryOK(recovery)'
    BY <1>7, <2>2, <2>3, <2>9 DEF RecoveryOK, Never
  <2>11. ASSUME NEW d \in Int, Known(recovery, d) PROVE Known(recovery, d)'
    BY <1>7, <2>2, <2>3, <2>9, <2>11 DEF Known, Never
  <2>12. ASSUME NEW r \in DOMAIN served, NEW d \in Floor .. now, CutOff(d, r.at), Late(r),
                r.at < slot.done, served[r] <= restore \/ served[r] < slot.done
         PROVE  r \in stored
    <3>1. d \in Int /\ now \in Nat
      BY <1>0, <2>4, <2>12, Types
    <3>2. /\ d \in Nat /\ Disconnected(d) /\ Connected(served[r])
          /\ d <= r.at /\ r.at <= served[r] /\ served[r] <= now
          /\ \A c \in Int : d <= c /\ Connected(c) => served[r] <= c
      BY <1>0, <2>12, <3>1, FirstConnection
    <3>3. r \in Records /\ r.at \in Nat /\ served[r] \in Nat /\ r.source \in Sources
      BY <1>0, <2>12, Types, RecordTypes
    <3>4. served[r] <= recovery.handled \/ served[r] < slot.done => r \in stored
      BY <1>0, <2>12 DEF LossesOK
    <3>5. Known(recovery, d)
      <4>1. d \in Floor .. slot.done - 1
        BY <2>4, <2>12, <3>1, <3>2, <3>3
      <4> QED
        BY <1>0, <3>2, <4>1 DEF LossesOK
    <3>6. CASE recovery.start <= d /\ d <= restore /\ served[r] <= restore
      <4>1. r.at \in ReplayStart .. end - 1 /\ r.at >= slot.ref - Horizon
        BY <2>3, <2>4, <2>5, <2>6, <2>12, <3>1, <3>2, <3>3, <3>6
      <4>2. r.at \in CoveredBy(coverage, RecoveryTag(restore), r.source)
        BY <2>8, <3>3, <4>1 DEF Covered
      <4>3. coverage \in SUBSET Rows
        BY <1>0 DEF TypeOK
      <4>4. PICK k \in coverage : k.tag = RecoveryTag(restore) /\ k.source = r.source
                                  /\ k.lo <= r.at /\ r.at < k.hi
        BY <4>2, <4>3, CoveredMember
      <4>5. served[r] < k.tag
        BY <2>3, <3>3, <3>6, <4>4 DEF RecoveryTag
      <4> QED
        BY <1>0, <4>4, <4>5 DEF RowsOK, In
    <3>7. CASE d <= recovery.handled
      <4>1. recovery.handled # Never
        BY <3>2, <3>7 DEF Never
      <4>2. Connected(recovery.handled)
        BY <1>0, <4>1 DEF RecoveryOK
      <4> QED
        BY <2>3, <3>2, <3>4, <3>7, <4>2
    <3>8. CASE \E c \in d .. slot.done - 1 : Connected(c)
      BY <2>4, <3>1, <3>2, <3>3, <3>4, <3>8
    <3>9. CASE recovery.open # Never /\ recovery.open <= d /\ served[r] <= restore
      BY <2>3, <3>2, <3>3, <3>9
    <3> QED
      BY <2>12, <3>4, <3>5, <3>6, <3>7, <3>8, <3>9 DEF Known
  <2>13. LossesOK'
    <3>1. \A d, t : CutOff(d, t)' <=> CutOff(d, t)
      BY <1>0, <1>8, SameService
    <3>2. (\A r : Late(r)' <=> Late(r)) /\ now' = now /\ served' = served /\ stored' = stored
      BY <1>0, <1>8, SameService
    <3>3. Floor' = Floor
      BY <1>7 DEF Floor
    <3>4. \A d \in Floor .. slot.done - 1 : Disconnected(d) => Known(recovery, d)'
      BY <1>0, <2>4, <2>11 DEF LossesOK
    <3> QED
      BY <1>7, <2>2, <2>9, <2>12, <3>1, <3>2, <3>3, <3>4 DEF LossesOK
  <2> QED
    BY <1>5, <1>6, <1>9, <1>10, <2>10, <2>13 DEF Inv
<1> QED
  BY <1>1, <1>11, <1>12

LEMMA EndCollectionKeeps == ASSUME Inv, EndCollection PROVE Inv'
<1>0. TypeOK /\ ServiceOK /\ RowsOK /\ SlotOK /\ RecoveryOK(recovery) /\ LossesOK /\ QueuesOK
        /\ NotingOK
  BY DEF Inv
<1>1. /\ run.phase = "collect" /\ Ended
      /\ nextSource' = IF run.made THEN run.last ELSE nextSource
      /\ run' = [run EXCEPT !.phase = "record", !.complete = @ /\ Whole]
      /\ UNCHANGED <<service, stored, coverage, checked, cursors, hints, recovery, slot, faults>>
  BY DEF EndCollection
<1>2. run \in Runs /\ nextSource \in Turns
  BY <1>0 DEF TypeOK
<1>3. /\ run' \in Runs /\ run'.start = run.start /\ run'.queues = run.queues
      /\ run'.phase = "record" /\ (run'.complete => Whole)
  <2>1. (run.complete /\ Whole) \in BOOLEAN
    OBVIOUS
  <2> QED
    BY <1>1, <1>2, <2>1 DEF Runs, Phases
<1>4. nextSource' \in Turns
  BY <1>1, <1>2 DEF Runs
<1>5. TypeOK'
  BY <1>0, <1>1, <1>3, <1>4 DEF TypeOK, service
<1>6. ServiceOK'
  BY <1>0, <1>1, SameService
<1>7. slot.open /\ slot' = slot /\ run.start <= slot.start /\ WindowsOK
  BY <1>0, <1>1 DEF QueuesOK
<1>8. UNCHANGED <<service, stored, coverage, checked, cursors, slot>>
  BY <1>1
<1>9. RowsOK' /\ SlotOK' /\ LossesOK' /\ RecoveryOK(recovery)'
  BY <1>0, <1>1, <1>7, <1>8, SameTables
<1>10. ASSUME Whole PROVE AllCovered
  <2>1. \A s \in Sources : Pending(s) = {}
    <3>1. \A s \in Sources : run.queues[s] = {}
      BY <1>10 DEF Whole, Waiting
    <3> QED
      BY <3>1 DEF Pending, UnitsOf
  <2>2. Accounted(Ordinary, run.start, slot.ref) /\ Rechecked
    BY <1>0, <1>1, <1>10 DEF QueuesOK, Whole
  <2> QED
    BY <2>1, <2>2 DEF Accounted, Rechecked, AllCovered
<1>11. AllCovered => AllCovered'
  BY <1>3, <1>8 DEF AllCovered, Covered
<1>12. QueuesOK' /\ NotingOK'
  <2>1. WindowsOK'
    BY <1>3, <1>7 DEF WindowsOK
  <2> QED
    BY <1>3, <1>7, <1>10, <1>11, <2>1 DEF QueuesOK, NotingOK
<1> QED
  BY <1>5, <1>6, <1>9, <1>12 DEF Inv

-----------------------------------------------------------------------------
(* The events of the connection.                                           *)

LEMMA EventTypes ==
    ASSUME TypeOK, NEW e \in stored, e.source = "raw_events"
    PROVE  /\ e \in DOMAIN served /\ e \in Records /\ e.at \in Nat /\ e.at <= MaxTime
           /\ e.type \in {"connected", "disconnected"}
           /\ e.type = "connected" => Connected(e.at)
           /\ e.type = "disconnected" => Disconnected(e.at)
<1>1. e \in DOMAIN served /\ e \in Records
  BY DEF TypeOK
<1> QED
  BY <1>1, RecordTypes DEF Connected, Disconnected

LEMMA EventMaker ==
    ASSUME NEW type, NEW t
    PROVE  Event(type, t).source = "raw_events" /\ Event(type, t).at = t /\ Event(type, t).type = type
BY DEF Event

LEMMA LoadEventsKeeps == ASSUME Inv, LoadEvents PROVE Inv'
<1>0. TypeOK /\ ServiceOK /\ RowsOK /\ SlotOK /\ RecoveryOK(recovery) /\ LossesOK /\ QueuesOK
        /\ NotingOK
  BY DEF Inv
<1> DEFINE events == {r \in stored : r.source = "raw_events" /\ r.at \in Units(run.start, slot.ref)}
<1>1. /\ run.phase = "record" /\ UNCHANGED <<service, tables, slot, faults>>
      /\ run' = [run EXCEPT !.phase = "note", !.noted = recovery, !.events = events]
  BY DEF LoadEvents
<1>2. events \subseteq Records
  BY <1>0 DEF TypeOK
<1>3. \A e \in stored : e.source = "raw_events" /\ e.at \in Units(run.start, slot.ref) <=> e \in events
  OBVIOUS
<1>4. events \subseteq stored /\ \A e \in events :
         e.source = "raw_events" /\ e.at \in Units(run.start, slot.ref)
  OBVIOUS
<1> HIDE DEF events
<1>5. /\ run' \in Runs /\ run'.phase = "note" /\ run'.noted = recovery /\ run'.events = events
      /\ run'.start = run.start /\ run'.queues = run.queues /\ run'.complete = run.complete
  BY <1>0, <1>1, <1>2 DEF TypeOK, Runs, Phases
<1>6. TypeOK'
  BY <1>0, <1>1, <1>5 DEF TypeOK, service, tables
<1>7. ServiceOK'
  BY <1>0, <1>1, SameService
<1>8. slot.open /\ run.start <= slot.start /\ WindowsOK /\ (run.complete => AllCovered)
  BY <1>0, <1>1 DEF QueuesOK
<1>9. recovery' = recovery /\ UNCHANGED <<service, stored, coverage, checked, cursors, slot>>
  BY <1>1 DEF tables
<1>10. RowsOK' /\ SlotOK' /\ LossesOK' /\ RecoveryOK(recovery)'
  BY <1>0, <1>8, <1>9, SameTables
<1>11. QueuesOK'
  <2>1. WindowsOK'
    BY <1>5, <1>8, <1>9 DEF WindowsOK
  <2>2. AllCovered => AllCovered'
    BY <1>5, <1>9 DEF AllCovered, Covered
  <2> QED
    BY <1>5, <1>8, <1>9, <2>1, <2>2 DEF QueuesOK
<1>12. NotingOK'
  <2>1. \A e \in stored : ~Seen(e)'
    BY <1>3, <1>5, <1>9 DEF Seen
  <2>2. Passed(run.noted)'
    BY <1>9, <2>1 DEF Passed
  <2>3. \A d \in Floor .. slot.done - 1 : Disconnected(d) => Known(recovery, d)
    BY <1>0 DEF LossesOK
  <2>4. /\ Floor' = Floor /\ \A state, d : Known(state, d)' <=> Known(state, d)
        /\ \A state : RecoveryOK(state)' <=> RecoveryOK(state)
    BY <1>9, SameTables
  <2>5. \A t : Disconnected(t)' <=> Disconnected(t)
    BY <1>0, <1>1, SameService
  <2>6. RecoveryOK(run.noted)' /\ (run'.noted).handled = recovery'.handled
    BY <1>0, <1>5, <1>9, <2>4
  <2>7. \A d \in Floor' .. slot'.done - 1 : Disconnected(d)' => Known(run.noted, d)'
    BY <1>5, <1>9, <2>3, <2>4, <2>5
  <2> QED
    BY <1>4, <1>5, <1>9, <2>1, <2>2, <2>6, <2>7 DEF NotingOK
<1> QED
  BY <1>6, <1>7, <1>10, <1>11, <1>12 DEF Inv

\* The state after one event, in terms of the state before it.
LEMMA NotedValue ==
    ASSUME NEW state \in Recoveries, NEW event, event.at \in Nat, event.at <= MaxTime,
           event.type \in {"connected", "disconnected"}, NEW after, after = Noted(state, event)
    PROVE  /\ after \in Recoveries /\ after.handled = state.handled
           /\ \/ /\ after = state
                 /\ \/ event.at <= state.handled \/ event.at <= state.restore
                    \/ /\ event.type = "connected"
                       /\ state.open = Never \/ event.at < state.open
              \/ /\ event.type = "disconnected" /\ event.at > state.handled /\ event.at > state.restore
                 /\ after.start = state.start /\ after.restore = state.restore
                 /\ after.open \in Nat /\ after.open <= event.at
                 /\ after.open = IF state.open # Never /\ state.open <= event.at
                                 THEN state.open ELSE event.at
              \/ /\ event.type = "connected" /\ event.at > state.handled /\ event.at > state.restore
                 /\ state.open # Never /\ state.open <= event.at
                 /\ after.restore = event.at /\ after.open = Never
                 /\ after.start \in Nat /\ after.start <= state.open
                 /\ state.start # Never => after.start <= state.start
<1>1. {state.open, state.start, state.restore, state.handled} \subseteq Times
  BY DEF Recoveries
<1>2. \A a \in Times, b \in Nat : Earliest({a, b}) = IF a # Never /\ a <= b THEN a ELSE b
  <2> TAKE a \in Times, b \in Nat
  <2>1. a \in Int /\ (a # Never => a \in Nat) /\ b # Never
    BY TimeValue DEF Never
  <2>2. CASE a = Never
    <3>1. {a, b} \ {Never} = {b, b}
      BY <2>1, <2>2
    <3>2. Min({b, b}) = b
      BY Min2
    <3> QED
      BY <2>2, <3>1, <3>2 DEF Earliest
  <2>3. CASE a # Never
    <3>1. {a, b} \ {Never} = {a, b}
      BY <2>1, <2>3
    <3>2. Min({a, b}) = IF a <= b THEN a ELSE b
      BY <2>1, Min2
    <3> QED
      BY <2>3, <3>1, <3>2 DEF Earliest
  <2> QED
    BY <2>2, <2>3
<1>3. Never \in Times /\ event.at \in Times /\ Never = -1 /\ MaxTime \in Nat
  BY Bounds DEF Times, Never
<1>4. CASE event.at <= state.handled \/ event.at <= state.restore
  BY <1>4 DEF Noted
<1>5. CASE /\ ~(event.at <= state.handled) /\ ~(event.at <= state.restore)
           /\ event.type = "disconnected"
  <2>1. after = [state EXCEPT !.open = Earliest({state.open, event.at})]
    BY <1>5 DEF Noted, Noting
  <2>2. Earliest({state.open, event.at})
          = IF state.open # Never /\ state.open <= event.at THEN state.open ELSE event.at
    BY <1>1, <1>2
  <2>3. Earliest({state.open, event.at}) \in Times
    BY <1>1, <1>3, <2>2
  <2>4. /\ after \in Recoveries /\ after.handled = state.handled /\ after.start = state.start
        /\ after.restore = state.restore /\ after.open = Earliest({state.open, event.at})
    BY <2>1, <2>3 DEF Recoveries
  <2>5. after.open \in Nat /\ after.open <= event.at
    BY <1>1, <2>2, <2>4, TimeValue
  <2>6. event.at > state.handled /\ event.at > state.restore
    BY <1>1, <1>5, TimeValue
  <2> QED
    BY <1>5, <2>2, <2>4, <2>5, <2>6
<1>6. CASE /\ ~(event.at <= state.handled) /\ ~(event.at <= state.restore)
           /\ event.type = "connected" /\ state.open \in 0 .. event.at
  <2>1. after = [state EXCEPT !.start = Earliest({state.start, state.open}),
                              !.restore = event.at, !.open = Never]
    BY <1>6 DEF Noted, Noting
  <2>2. Earliest({state.start, state.open})
          = IF state.start # Never /\ state.start <= state.open THEN state.start ELSE state.open
    BY <1>1, <1>2, <1>6
  <2>3. Earliest({state.start, state.open}) \in Times
    BY <1>1, <2>2
  <2>4. /\ after \in Recoveries /\ after.handled = state.handled /\ after.restore = event.at
        /\ after.open = Never /\ after.start = Earliest({state.start, state.open})
    BY <1>3, <2>1, <2>3 DEF Recoveries
  <2>5. after.start \in Nat /\ after.start <= state.open
        /\ (state.start # Never => after.start <= state.start)
    BY <1>1, <1>6, <2>2, <2>4, TimeValue
  <2>6. event.at > state.handled /\ event.at > state.restore /\ state.open # Never
        /\ state.open <= event.at
    <3>1. state.open >= 0 /\ state.open <= event.at /\ state.open # Never
      BY <1>6 DEF Never
    <3>2. event.at > state.handled /\ event.at > state.restore
      BY <1>1, <1>6, TimeValue
    <3> QED
      BY <3>1, <3>2
  <2> QED
    BY <1>6, <2>4, <2>5, <2>6
<1>7. CASE /\ ~(event.at <= state.handled) /\ ~(event.at <= state.restore)
           /\ event.type = "connected" /\ state.open \notin 0 .. event.at
  <2>1. after = state
    BY <1>7 DEF Noted, Noting
  <2>2. state.open = Never \/ event.at < state.open
    BY <1>1, <1>7, TimeValue
  <2> QED
    BY <1>7, <2>1, <2>2
<1> QED
  BY <1>4, <1>5, <1>6, <1>7

LEMMA NoteEventKeeps == ASSUME Inv, NoteEvent PROVE Inv'
<1>0. TypeOK /\ ServiceOK /\ RowsOK /\ SlotOK /\ RecoveryOK(recovery) /\ LossesOK /\ QueuesOK
        /\ NotingOK
  BY DEF Inv
<1>1. run.phase = "note" /\ UNCHANGED <<service, tables, slot, faults>>
  BY DEF NoteEvent
<1>2. PICK event \in run.events :
         /\ \A other \in run.events : Before(event, other)
         /\ run' = [run EXCEPT !.noted = Noted(@, event), !.events = @ \ {event}]
  BY DEF NoteEvent
<1> PICK state : state = run.noted
  OBVIOUS
<1> PICK after : after = Noted(state, event)
  OBVIOUS
<1>3. run \in Runs /\ state \in Recoveries /\ run.events \subseteq Records
  BY <1>0 DEF TypeOK, Runs
<1>4. /\ run.events \subseteq stored
      /\ \A e \in run.events : e.source = "raw_events" /\ e.at \in Units(run.start, slot.ref)
      /\ \A e \in stored : Seen(e) => \A other \in run.events : Before(e, other)
      /\ RecoveryOK(state) /\ state.handled = recovery.handled
      /\ Passed(state)
      /\ \A d \in Floor .. slot.done - 1 : Disconnected(d) =>
            \/ Known(state, d)
            \/ /\ Event("disconnected", d) \in run.events
               /\ d > state.handled /\ d > state.restore
  BY <1>0, <1>1 DEF NotingOK
<1>5. /\ event \in stored /\ event.source = "raw_events" /\ event.at \in Units(run.start, slot.ref)
      /\ event \in DOMAIN served /\ event.at \in Nat /\ event.at <= MaxTime
      /\ event.type \in {"connected", "disconnected"}
      /\ event.type = "connected" => Connected(event.at)
  BY <1>0, <1>2, <1>4, EventTypes
<1>6. /\ after \in Recoveries /\ after.handled = state.handled
      /\ \/ /\ after = state
            /\ \/ event.at <= state.handled \/ event.at <= state.restore
               \/ /\ event.type = "connected"
                  /\ state.open = Never \/ event.at < state.open
         \/ /\ event.type = "disconnected" /\ event.at > state.handled /\ event.at > state.restore
            /\ after.start = state.start /\ after.restore = state.restore
            /\ after.open \in Nat /\ after.open <= event.at
            /\ after.open = IF state.open # Never /\ state.open <= event.at
                            THEN state.open ELSE event.at
         \/ /\ event.type = "connected" /\ event.at > state.handled /\ event.at > state.restore
            /\ state.open # Never /\ state.open <= event.at
            /\ after.restore = event.at /\ after.open = Never
            /\ after.start \in Nat /\ after.start <= state.open
            /\ state.start # Never => after.start <= state.start
  BY <1>3, <1>5, NotedValue
<1>7. /\ run' \in Runs /\ run'.phase = "note" /\ run'.noted = after
      /\ run'.events = run.events \ {event} /\ run'.start = run.start
      /\ run'.queues = run.queues /\ run'.complete = run.complete
  BY <1>1, <1>2, <1>3, <1>6 DEF Runs
<1>8. {state.open, state.start, state.restore, state.handled} \subseteq Int
      /\ state.restore >= Never /\ state.handled >= Never
  BY <1>3, TimeValue DEF Recoveries
<1>9. slot.ref \in Nat /\ run.start \in Nat /\ slot.start \in Nat /\ slot.done \in Int
      /\ Floor \in Int /\ Floor >= Never /\ Floor >= slot.ref - Horizon /\ Horizon \in Nat
  BY <1>0, Types, TimeValue, FloorValue, Bounds
<1>10. run.start <= event.at /\ event.at < slot.ref
  BY <1>5, <1>9, UnitsMember
<1>11. TypeOK'
  BY <1>0, <1>1, <1>7 DEF TypeOK, service, tables
<1>12. /\ ServiceOK' /\ \A t : /\ Connected(t)' <=> Connected(t)
                               /\ Disconnected(t)' <=> Disconnected(t)
  BY <1>0, <1>1, SameService
<1>13. slot.open /\ run.start <= slot.start /\ WindowsOK /\ (run.complete => AllCovered)
  BY <1>0, <1>1 DEF QueuesOK
<1>14. recovery' = recovery /\ UNCHANGED <<service, stored, coverage, checked, cursors, slot>>
  BY <1>1 DEF tables
<1>15. /\ RowsOK' /\ SlotOK' /\ LossesOK' /\ RecoveryOK(recovery)' /\ Floor' = Floor
       /\ \A s, d : Known(s, d)' <=> Known(s, d)
       /\ \A s : RecoveryOK(s)' <=> RecoveryOK(s)
  BY <1>0, <1>13, <1>14, SameTables
<1>16. QueuesOK'
  <2>1. WindowsOK'
    BY <1>7, <1>13, <1>14 DEF WindowsOK
  <2>2. AllCovered => AllCovered'
    BY <1>7, <1>14 DEF AllCovered, Covered
  <2> QED
    BY <1>7, <1>13, <1>14, <2>1, <2>2 DEF QueuesOK
<1>17. \A e \in stored : Seen(e)' <=> Seen(e) \/ e = event
  BY <1>2, <1>5, <1>7, <1>14 DEF Seen
<1>18. \A e \in stored : Seen(e)' => \A other \in run'.events : Before(e, other)
  BY <1>2, <1>4, <1>7, <1>17
<1>19. RecoveryOK(after)
  <2>1. \A t \in {after.restore, after.handled} : t # Never => t < slot.ref /\ Connected(t)
    BY <1>4, <1>5, <1>6, <1>10 DEF RecoveryOK
  <2>2. after.restore # Never => after.start # Never /\ after.handled < after.restore
    BY <1>4, <1>6, <1>8 DEF RecoveryOK, Never
  <2>3. after.open # Never => after.open > after.restore
    BY <1>4, <1>6, <1>8 DEF RecoveryOK
  <2> QED
    BY <2>1, <2>2, <2>3 DEF RecoveryOK
<1>20. Passed(run.noted)'
  <2>1. ASSUME NEW e \in stored, Seen(e) \/ e = event, e.type = "connected"
        PROVE  after.open = Never \/ e.at < after.open \/ e.at <= after.handled \/ e.at <= after.restore
    <3>1. e.source = "raw_events"
      BY <1>5, <2>1 DEF Seen
    <3>2. e.at \in Nat
      BY <1>0, <3>1, EventTypes
    <3>3. CASE Seen(e)
      <4>1. \/ state.open = Never \/ e.at < state.open
            \/ e.at <= state.handled \/ e.at <= state.restore
        BY <1>4, <2>1, <3>3 DEF Passed
      <4>2. e.at < event.at \/ (e.at = event.at /\ event.type # "disconnected")
        BY <1>2, <1>4, <2>1, <3>3 DEF Before
      <4> QED
        BY <1>5, <1>6, <1>8, <3>2, <4>1, <4>2
    <3>4. CASE e = event
      BY <1>6, <2>1, <3>4
    <3> QED
      BY <2>1, <3>3, <3>4
  <2>2. ASSUME NEW e \in stored, Seen(e) \/ e = event, e.type = "disconnected"
        PROVE  \/ after.restore # Never \/ e.at <= after.handled
               \/ (after.open # Never /\ after.open <= e.at)
    <3>1. e.source = "raw_events"
      BY <1>5, <2>1, <2>2 DEF Seen
    <3>2. e.at \in Nat
      BY <1>0, <3>1, EventTypes
    <3>3. CASE Seen(e)
      <4>1. \/ state.restore # Never \/ e.at <= state.handled
            \/ (state.open # Never /\ state.open <= e.at)
        BY <1>4, <2>2, <3>3 DEF Passed
      <4> QED
        BY <1>5, <1>6, <1>8, <3>2, <4>1 DEF Never
    <3>4. CASE e = event
      BY <1>5, <1>6, <1>8, <2>2, <3>4 DEF Never
    <3> QED
      BY <2>2, <3>3, <3>4
  <2> QED
    BY <1>7, <1>14, <1>17, <2>1, <2>2 DEF Passed
<1>21. ASSUME NEW d \in Floor .. slot.done - 1, Disconnected(d)
       PROVE  \/ Known(after, d)
              \/ /\ Event("disconnected", d) \in run'.events
                 /\ d > after.handled /\ d > after.restore
  <2>1. d \in Nat
    BY <1>0, <1>21, NoFuture
  <2>2. CASE Known(state, d)
    <3>1. CASE state.open # Never /\ state.open <= d
      <4>1. CASE after.open # Never
        BY <1>5, <1>6, <1>8, <2>1, <3>1, <4>1 DEF Known
      <4>2. CASE after.open = Never
        <5>1. /\ event.type = "connected" /\ after.restore = event.at /\ event.at > state.handled
              /\ after.start \in Nat /\ after.start <= state.open
          BY <1>6, <3>1, <4>2 DEF Never
        <5>2. CASE d <= event.at
          BY <1>5, <1>8, <2>1, <3>1, <5>1, <5>2 DEF Known, Never
        <5>3. CASE event.at < d
          <6> PICK lost : lost = Event("disconnected", d)
            OBVIOUS
          <6>1. lost.source = "raw_events" /\ lost.at = d /\ lost.type = "disconnected"
            BY EventMaker
          <6>2. lost \in DOMAIN served /\ ~Late(lost)
            BY <1>0, <1>21, <6>1 DEF Disconnected, ServiceOK
          <6>3. lost \in stored
            <7>1. "raw_events" \in Sources
              BY DEF Sources
            <7>2. slot.done # Never
              BY <1>9, <2>1 DEF Never
            <7>3. d \in CoveredBy(coverage, Ordinary, "raw_events")
              BY <1>0, <7>1, <7>2 DEF SlotOK, Covered
            <7>4. coverage \in SUBSET Rows
              BY <1>0 DEF TypeOK
            <7>5. PICK k \in coverage : k.source = "raw_events" /\ k.lo <= d /\ d < k.hi
              BY <7>3, <7>4, CoveredMember
            <7>6. In(lost, k)
              BY <6>1, <7>5 DEF In
            <7> QED
              BY <1>0, <6>2, <7>6 DEF RowsOK
          <6>4. lost.at \in Units(run.start, slot.ref)
            <7>1. slot.done <= slot.ref
              BY <1>0 DEF SlotOK
            <7> QED
              BY <1>5, <1>9, <1>10, <2>1, <5>3, <6>1, <7>1, UnitsMember
          <6>5. lost # event /\ lost \in run.events
            <7>1. ASSUME Seen(lost) PROVE FALSE
              <8>1. Before(lost, event)
                BY <1>2, <1>4, <6>3, <7>1
              <8> QED
                BY <1>5, <2>1, <5>3, <6>1, <8>1 DEF Before
            <7> QED
              BY <1>5, <2>1, <5>1, <6>1, <6>3, <6>4, <7>1 DEF Seen
          <6> QED
            BY <1>5, <1>6, <1>7, <1>8, <2>1, <5>1, <5>3, <6>5
        <5> QED
          BY <1>5, <2>1, <5>2, <5>3
      <4> QED
        BY <4>1, <4>2
    <3>2. CASE state.restore # Never /\ state.start <= d /\ d <= state.restore
      <4>1. state.start # Never
        BY <1>4, <3>2 DEF RecoveryOK
      <4>2. after.restore # Never /\ after.start <= d /\ d <= after.restore
        BY <1>5, <1>6, <1>8, <2>1, <3>2, <4>1 DEF Never
      <4> QED
        BY <4>2 DEF Known
    <3>3. CASE d <= state.handled
      BY <1>6, <3>3 DEF Known
    <3>4. CASE \E c \in d .. slot.done - 1 : Connected(c)
      BY <3>4 DEF Known
    <3> QED
      BY <2>2, <3>1, <3>2, <3>3, <3>4 DEF Known
  <2>3. CASE /\ Event("disconnected", d) \in run.events
             /\ d > state.handled /\ d > state.restore
    <3> PICK lost : lost = Event("disconnected", d)
      OBVIOUS
    <3>1. lost.source = "raw_events" /\ lost.at = d /\ lost.type = "disconnected"
      BY EventMaker
    <3>2. CASE lost = event
      BY <1>6, <1>8, <2>1, <2>3, <3>1, <3>2 DEF Known, Never
    <3>3. CASE lost # event
      <4>1. lost \in run'.events
        BY <1>7, <2>3, <3>3
      <4>2. Before(event, lost)
        BY <1>2, <2>3
      <4>3. event.type = "connected" => event.at < d
        BY <3>1, <4>2 DEF Before
      <4> QED
        BY <1>5, <1>6, <1>8, <2>1, <2>3, <4>1, <4>3
    <3> QED
      BY <3>2, <3>3
  <2> QED
    BY <1>4, <1>21, <2>2, <2>3
<1>22. NotingOK'
  <2>1. /\ run'.events \subseteq stored'
        /\ \A e \in run'.events : e.source = "raw_events" /\ e.at \in Units(run'.start, slot'.ref)
    BY <1>4, <1>7, <1>14
  <2>2. RecoveryOK(run.noted)' /\ (run'.noted).handled = recovery'.handled
    BY <1>4, <1>6, <1>7, <1>14, <1>15, <1>19
  <2>3. \A d \in Floor' .. slot'.done - 1 : Disconnected(d)' =>
           \/ Known(run.noted, d)'
           \/ /\ Event("disconnected", d) \in run'.events
              /\ d > run'.noted.handled /\ d > run'.noted.restore
    BY <1>7, <1>12, <1>14, <1>15, <1>21
  <2> QED
    BY <1>7, <1>14, <1>18, <1>20, <2>1, <2>2, <2>3 DEF NotingOK
<1> QED
  BY <1>11, <1>12, <1>15, <1>16, <1>22 DEF Inv

LEMMA RecordEventsKeeps == ASSUME Inv, RecordEvents PROVE Inv'
<1>0. TypeOK /\ ServiceOK /\ RowsOK /\ SlotOK /\ RecoveryOK(recovery) /\ LossesOK /\ QueuesOK
        /\ NotingOK
  BY DEF Inv
<1>1. /\ run.phase = "note" /\ run.events = {} /\ recovery' = run.noted
      /\ run' = [run EXCEPT !.phase = "done", !.complete = @ /\ run.noted.restore = Never]
      /\ UNCHANGED <<service, stored, coverage, checked, cursors, hints, nextSource, slot, faults>>
  BY DEF RecordEvents
<1>2. run \in Runs
  BY <1>0 DEF TypeOK
<1>3. /\ run' \in Runs /\ run'.phase = "done" /\ run'.events = {} /\ run'.start = run.start
      /\ run'.queues = run.queues
      /\ (run'.complete => run.complete /\ recovery'.restore = Never)
  <2>1. (run.complete /\ run.noted.restore = Never) \in BOOLEAN
    OBVIOUS
  <2> QED
    BY <1>1, <1>2, <2>1 DEF Runs, Phases
<1>4. recovery' \in Recoveries
  BY <1>1, <1>2 DEF Runs
<1>5. TypeOK'
  BY <1>0, <1>1, <1>3, <1>4 DEF TypeOK, service
<1>6. /\ ServiceOK' /\ now' = now /\ served' = served
      /\ \A t : (Connected(t)' <=> Connected(t)) /\ (Disconnected(t)' <=> Disconnected(t))
      /\ \A d, t : CutOff(d, t)' <=> CutOff(d, t)
      /\ \A r : Late(r)' <=> Late(r)
  BY <1>0, <1>1, SameService
<1>7. slot.open /\ slot' = slot /\ run.start <= slot.start /\ WindowsOK
      /\ (run.complete => AllCovered)
  BY <1>0, <1>1 DEF QueuesOK
<1>8. UNCHANGED <<service, stored, coverage, checked, cursors, slot>>
  BY <1>1
<1>9. /\ RowsOK' /\ SlotOK' /\ Floor' = Floor
      /\ \A state, d : Known(state, d)' <=> Known(state, d)
      /\ \A state : RecoveryOK(state)' <=> RecoveryOK(state)
  BY <1>0, <1>7, <1>8, SameTables
<1>10. /\ RecoveryOK(run.noted) /\ run.noted.handled = recovery.handled /\ Passed(run.noted)
       /\ \A d \in Floor .. slot.done - 1 : Disconnected(d) => Known(run.noted, d)
  BY <1>0, <1>1 DEF NotingOK
<1>11. RecoveryOK(recovery)'
  BY <1>1, <1>9, <1>10
<1>12. LossesOK'
  <2>1. \A d \in Floor' .. slot'.done - 1 : Disconnected(d)' => Known(recovery, d)'
    BY <1>1, <1>6, <1>7, <1>9, <1>10
  <2>2. recovery'.handled = recovery.handled
    BY <1>1, <1>10
  <2> QED
    BY <1>0, <1>6, <1>7, <1>8, <1>9, <2>1, <2>2 DEF LossesOK
<1>13. QueuesOK'
  <2>1. WindowsOK'
    BY <1>3, <1>7 DEF WindowsOK
  <2>2. AllCovered => AllCovered'
    BY <1>3, <1>8 DEF AllCovered, Covered
  <2> QED
    BY <1>3, <1>7, <2>1, <2>2 DEF QueuesOK
<1>14. NotingOK'
  <2>1. \A e : Seen(e)' <=> Seen(e)
    BY <1>1, <1>3, <1>8 DEF Seen
  <2>2. Passed(recovery)'
    BY <1>1, <1>8, <1>10, <2>1 DEF Passed
  <2> QED
    BY <1>3, <2>2 DEF NotingOK
<1> QED
  BY <1>5, <1>6, <1>9, <1>11, <1>12, <1>13, <1>14 DEF Inv

-----------------------------------------------------------------------------
(* What a complete run has seen to.                                        *)

CompleteRun == run.phase = "done" /\ run.complete

\* The period of the run reaches back to where the last slot ended.
LEMMA CompletePeriod ==
    ASSUME Inv, CompleteRun
    PROVE  /\ slot.open /\ run.start \in Nat /\ slot.ref \in Nat /\ slot.done \in Int
           /\ slot.ref > 0 /\ slot.done <= slot.ref
           /\ Floor \in Int /\ Floor >= Never /\ Floor >= slot.ref - Horizon
           /\ \A t \in Int : t >= Floor => t >= run.start \/ (slot.done # Never /\ t < slot.done)
           /\ slot.done # Never => run.start <= slot.done
           /\ \A t \in Int : t >= slot.ref - Overlap /\ t >= 0 => t >= run.start
<1>0. TypeOK /\ SlotOK /\ QueuesOK
  BY DEF Inv
<1>1. slot.open /\ run.start <= slot.start
  BY <1>0 DEF QueuesOK, CompleteRun
<1>2. /\ run.start \in Nat /\ slot.ref \in Nat /\ slot.start \in Nat /\ slot.done \in Int
      /\ slot.since \in Int /\ Floor \in Int /\ Floor >= Never /\ Floor >= slot.ref - Horizon
      /\ Floor >= slot.since /\ Overlap \in Nat
  BY <1>0, Types, TimeValue, FloorValue, Bounds
<1>3. /\ slot.ref > 0 /\ slot.done <= slot.ref
      /\ slot.start <= slot.ref - Overlap \/ slot.start = 0
      /\ slot.start <= IF slot.done = Never THEN slot.since ELSE slot.done
  BY <1>0, <1>1 DEF SlotOK
<1> QED
  BY <1>1, <1>2, <1>3

LEMMA CompleteCoverage ==
    ASSUME Inv, CompleteRun
    PROVE  /\ \A s \in Sources : cursors[s] >= slot.ref
           /\ \A s \in Sources, t \in Floor .. slot.ref - 1 : t \in Covered(Ordinary, s)
<1>0. TypeOK /\ SlotOK /\ RowsOK /\ AllCovered
  BY DEF Inv, QueuesOK, CompleteRun
<1>1. /\ run.start \in Nat /\ slot.ref \in Nat /\ slot.done \in Int /\ slot.ref > 0
      /\ Floor \in Int /\ Floor >= slot.ref - Horizon
      /\ \A t \in Int : t >= Floor => t >= run.start \/ (slot.done # Never /\ t < slot.done)
      /\ \A t \in Int : t >= slot.ref - Overlap /\ t >= 0 => t >= run.start
  BY CompletePeriod
<1>2. ASSUME NEW s \in Sources, NEW t \in Floor .. slot.ref - 1 PROVE t \in Covered(Ordinary, s)
  <2>1. t \in Int /\ t >= Floor /\ t < slot.ref /\ t >= slot.ref - Horizon
    BY <1>1, Bounds
  <2>2. CASE t >= run.start
    <3>1. t \in run.start .. slot.ref - 1
      BY <1>1, <2>1, <2>2
    <3> QED
      BY <1>0, <2>1, <3>1 DEF AllCovered
  <2>3. CASE slot.done # Never /\ t < slot.done
    <3>1. t \in Floor .. slot.done - 1
      BY <1>1, <2>1, <2>3
    <3> QED
      BY <1>0, <2>3, <3>1 DEF SlotOK
  <2> QED
    BY <1>1, <2>1, <2>2, <2>3
<1>3. ASSUME NEW s \in Sources PROVE cursors[s] >= slot.ref
  <2>1. slot.ref - 1 \in run.start .. slot.ref - 1 /\ slot.ref - 1 >= slot.ref - Horizon
    BY <1>1, Bounds
  <2>2. slot.ref - 1 \in CoveredBy(coverage, Ordinary, s)
    BY <1>0, <2>1 DEF AllCovered, Covered
  <2>3. coverage \in SUBSET Rows
    BY <1>0 DEF TypeOK
  <2>4. PICK k \in coverage : k.tag = Ordinary /\ k.source = s /\ slot.ref - 1 < k.hi
    BY <2>2, <2>3, CoveredMember
  <2>5. k.hi \in Nat /\ k.hi <= cursors[s] /\ cursors[s] \in Int
    BY <1>0, <2>4, Types DEF RowsOK
  <2> QED
    BY <1>1, <2>4, <2>5
<1> QED
  BY <1>2, <1>3

\* What came in time is stored.
LEMMA CompleteInTime ==
    ASSUME Inv, CompleteRun, NEW r \in DOMAIN served, ~Late(r), r.at >= Floor, r.at < slot.ref
    PROVE  r \in stored
<1>0. TypeOK /\ RowsOK
  BY DEF Inv
<1>1. r \in Records /\ r.at \in Nat /\ r.source \in Sources
  BY <1>0, Types, RecordTypes
<1>2. r.at \in Floor .. slot.ref - 1
  BY <1>1, CompletePeriod
<1>3. r.at \in CoveredBy(coverage, Ordinary, r.source)
  BY <1>1, <1>2, CompleteCoverage DEF Covered
<1>4. coverage \in SUBSET Rows
  BY <1>0 DEF TypeOK
<1>5. PICK k \in coverage : k.source = r.source /\ k.lo <= r.at /\ r.at < k.hi
  BY <1>3, <1>4, CoveredMember
<1> QED
  BY <1>0, <1>5 DEF RowsOK, In

\* What came late, but inside the overlap, is stored.
LEMMA CompleteOverlap ==
    ASSUME Inv, CompleteRun, NEW r \in DOMAIN served, served[r] < slot.ref,
           r.at >= slot.ref - Overlap
    PROVE  r \in stored
<1>0. TypeOK /\ RowsOK /\ ServiceOK /\ AllCovered
  BY DEF Inv, QueuesOK, CompleteRun
<1>1. r \in Records /\ r.at \in Nat /\ r.source \in Sources /\ served[r] \in Nat /\ r.at <= served[r]
  BY <1>0, Types, RecordTypes DEF ServiceOK
<1>2. r.at \in run.start .. slot.ref - 1
  BY <1>1, CompletePeriod
<1>3. r.at \in CoveredBy(checked, Ordinary, r.source)
  BY <1>0, <1>1, <1>2 DEF AllCovered
<1>4. checked \in SUBSET Rows /\ checked \subseteq coverage
  BY <1>0 DEF TypeOK
<1>5. PICK k \in checked : k.source = r.source /\ k.lo <= r.at /\ r.at < k.hi
  BY <1>3, <1>4, CoveredMember
<1> QED
  BY <1>0, <1>4, <1>5 DEF RowsOK, In

\* A loss of connection that was not waited for is still open or was handled.
LEMMA CompleteLosses ==
    ASSUME Inv, CompleteRun, NEW d \in Floor .. slot.ref - 1, Disconnected(d)
    PROVE  \/ (recovery.open # Never /\ recovery.open <= d)
           \/ d <= recovery.handled
           \/ \E c \in d .. slot.done - 1 : Connected(c)
<1>0. TypeOK /\ ServiceOK /\ LossesOK /\ NotingOK
  BY DEF Inv
<1>1. recovery.restore = Never /\ Passed(recovery) /\ run.events = {}
  BY <1>0 DEF NotingOK, CompleteRun
<1>2. d \in Int /\ d < slot.ref /\ d >= Floor
  BY CompletePeriod
<1>3. CASE slot.done # Never /\ d < slot.done
  <2>1. d \in Floor .. slot.done - 1
    BY <1>2, <1>3, CompletePeriod
  <2>2. Known(recovery, d)
    BY <1>0, <2>1 DEF LossesOK
  <2> QED
    BY <1>1, <2>2 DEF Known
<1>4. CASE d >= run.start
  <2> PICK lost : lost = Event("disconnected", d)
    OBVIOUS
  <2>1. lost.source = "raw_events" /\ lost.at = d /\ lost.type = "disconnected"
    BY EventMaker
  <2>2. lost \in DOMAIN served /\ ~Late(lost)
    BY <1>0, <2>1 DEF Disconnected, ServiceOK
  <2>3. lost \in stored
    BY <1>2, <2>1, <2>2, CompleteInTime
  <2>4. d \in Units(run.start, slot.ref)
    BY <1>2, <1>4, CompletePeriod, UnitsMember
  <2>5. Seen(lost)
    BY <1>1, <2>1, <2>3, <2>4 DEF Seen
  <2> QED
    BY <1>1, <2>1, <2>3, <2>5 DEF Passed
<1> QED
  BY <1>2, <1>3, <1>4, CompletePeriod

\* What waited for the connection is stored.
LEMMA CompleteLate ==
    ASSUME Inv, CompleteRun, NEW r \in DOMAIN served, NEW d \in Floor .. now, CutOff(d, r.at),
           Late(r), r.at < slot.ref, served[r] <= recovery.handled \/ served[r] < slot.ref
    PROVE  r \in stored
<1>0. TypeOK /\ ServiceOK /\ RowsOK /\ SlotOK /\ RecoveryOK(recovery) /\ LossesOK /\ NotingOK
  BY DEF Inv
<1>1. /\ run.start \in Nat /\ slot.ref \in Nat /\ slot.done \in Int
      /\ Floor \in Int /\ Floor >= slot.ref - Horizon /\ Floor >= Never
      /\ \A t \in Int : t >= Floor => t >= run.start \/ (slot.done # Never /\ t < slot.done)
      /\ slot.done # Never => run.start <= slot.done
  BY CompletePeriod
<1>2. d \in Int /\ d >= Floor
  BY <1>0, <1>1, Types
<1>3. /\ d \in Nat /\ Disconnected(d) /\ Connected(served[r])
      /\ d <= r.at /\ r.at <= served[r] /\ served[r] <= now
      /\ \A c \in Int : d <= c /\ Connected(c) => served[r] <= c
  BY <1>0, <1>2, FirstConnection
<1>4. /\ r \in Records /\ r.at \in Nat /\ served[r] \in Nat /\ r.source \in Sources
      /\ recovery.handled \in Int /\ recovery.open \in Int
  BY <1>0, Types, RecordTypes, TimeValue
<1>5. served[r] < slot.ref
  <2>1. recovery.handled # Never => recovery.handled < slot.ref
    BY <1>0 DEF RecoveryOK
  <2> QED
    BY <1>1, <1>4, <2>1 DEF Never
<1>6. CASE r.at >= run.start /\ (slot.done # Never => r.at >= slot.done)
  <2>1. r.at \in Floor .. slot.ref - 1
    BY <1>1, <1>2, <1>3, <1>4
  <2>2. r.at \in CoveredBy(coverage, Ordinary, r.source)
    BY <1>4, <2>1, CompleteCoverage DEF Covered
  <2>3. coverage \in SUBSET Rows
    BY <1>0 DEF TypeOK
  <2>4. PICK k \in coverage : k.source = r.source /\ k.lo <= r.at /\ r.at < k.hi
    BY <2>2, <2>3, CoveredMember
  <2>5. k.hi \in Nat
    BY <1>0, Types
  <2>6. k \in checked
    <3>1. k \notin checked => k.hi <= slot.done
      BY <1>0, <2>4 DEF RowsOK
    <3> QED
      BY <1>1, <1>4, <1>6, <2>4, <2>5, <3>1 DEF Never
  <2> QED
    BY <1>0, <1>5, <2>4, <2>6 DEF RowsOK, In
<1>7. CASE slot.done # Never /\ r.at < slot.done
  <2>1. served[r] <= recovery.handled \/ served[r] < slot.done => r \in stored
    BY <1>0, <1>7 DEF LossesOK
  <2>2. CASE served[r] > recovery.handled /\ served[r] >= slot.done
    <3>1. d \in Floor .. slot.ref - 1
      BY <1>1, <1>2, <1>3, <1>4
    <3>2. \/ (recovery.open # Never /\ recovery.open <= d)
          \/ d <= recovery.handled
          \/ \E c \in d .. slot.done - 1 : Connected(c)
      BY <1>3, <3>1, CompleteLosses
    <3>3. CASE recovery.open # Never /\ recovery.open <= d
      <4> PICK back : back = Event("connected", served[r])
        OBVIOUS
      <4>1. back.source = "raw_events" /\ back.at = served[r] /\ back.type = "connected"
        BY EventMaker
      <4>2. back \in DOMAIN served /\ ~Late(back)
        BY <1>0, <1>3, <4>1 DEF Connected, ServiceOK
      <4>3. back \in stored
        BY <1>1, <1>2, <1>3, <1>4, <1>5, <4>1, <4>2, CompleteInTime
      <4>4. served[r] \in Units(run.start, slot.ref)
        BY <1>1, <1>4, <1>5, <1>7, <2>2, UnitsMember
      <4>5. run.events = {} /\ Passed(recovery) /\ recovery.restore = Never
        BY <1>0 DEF NotingOK, CompleteRun
      <4>6. Seen(back)
        BY <4>1, <4>3, <4>4, <4>5 DEF Seen
      <4>7. \/ recovery.open = Never \/ served[r] < recovery.open
            \/ served[r] <= recovery.handled \/ served[r] <= recovery.restore
        BY <4>1, <4>3, <4>5, <4>6 DEF Passed
      <4> QED
        BY <1>3, <1>4, <2>2, <3>3, <4>5, <4>7 DEF Never
    <3>4. CASE d <= recovery.handled
      <4>1. Connected(recovery.handled)
        BY <1>0, <1>3, <3>4 DEF RecoveryOK, Never
      <4> QED
        BY <1>3, <1>4, <2>2, <3>4, <4>1
    <3>5. CASE \E c \in d .. slot.done - 1 : Connected(c)
      BY <1>1, <1>3, <1>4, <2>2, <3>5
    <3> QED
      BY <3>2, <3>3, <3>4, <3>5
  <2> QED
    BY <1>1, <1>4, <2>1, <2>2
<1> QED
  BY <1>1, <1>2, <1>3, <1>4, <1>6, <1>7

LEMMA CompleteFinishKeeps == ASSUME Inv, Finish, run.complete PROVE Inv'
<1>0. TypeOK /\ ServiceOK /\ RowsOK /\ SlotOK /\ RecoveryOK(recovery) /\ LossesOK
  BY DEF Inv
<1>1. /\ CompleteRun /\ run' = NoRun /\ UNCHANGED <<service, tables, faults>>
      /\ slot' = [slot EXCEPT !.open = FALSE, !.done = slot.ref, !.owed = {}]
  BY DEF Finish, CompleteRun
<1>2. /\ slot.open /\ slot.ref \in Nat /\ slot.done \in Int /\ slot.done <= slot.ref
      /\ Floor \in Int
  BY <1>1, CompletePeriod
<1>3. slot \in Slots /\ slot.ref \in Times
  BY <1>0, Bounds DEF TypeOK, Slots, Times, Never
<1>4. /\ slot' \in Slots /\ slot'.open = FALSE /\ slot'.ref = slot.ref /\ slot'.done = slot.ref
      /\ slot'.since = slot.since /\ slot'.owed = {}
  BY <1>1, <1>3 DEF Slots
<1>5. /\ stored' = stored /\ coverage' = coverage /\ checked' = checked
      /\ cursors' = cursors /\ hints' = hints /\ nextSource' = nextSource /\ recovery' = recovery
  BY <1>1 DEF tables
<1>6. TypeOK'
  <2>1. run' \in Runs
    BY <1>1, NoRunType
  <2> QED
    BY <1>0, <1>1, <1>4, <1>5, <2>1 DEF TypeOK, service
<1>7. /\ ServiceOK' /\ now' = now /\ served' = served
      /\ \A t : (Connected(t)' <=> Connected(t)) /\ (Disconnected(t)' <=> Disconnected(t))
      /\ \A d, t : CutOff(d, t)' <=> CutOff(d, t)
      /\ \A r : Late(r)' <=> Late(r)
  BY <1>0, <1>1, SameService
<1>8. Floor' = Floor /\ \A tag, s : Covered(tag, s)' = Covered(tag, s)
  BY <1>4, <1>5 DEF Floor, Covered
<1>9. RowsOK'
  BY <1>0, <1>4, <1>5, <1>7 DEF RowsOK, In
<1>10. SlotOK'
  <2>1. slot.since # Never /\ slot.ref <= now
    BY <1>0, <1>2 DEF SlotOK
  <2>2. /\ \A s \in Sources : cursors[s] >= slot.ref
        /\ \A s \in Sources, t \in Floor .. slot.ref - 1 : t \in Covered(Ordinary, s)
    BY <1>1, CompleteCoverage
  <2> QED
    BY <1>1, <1>2, <1>4, <1>5, <1>7, <1>8, <2>1, <2>2 DEF SlotOK, Idle
<1>11. RecoveryOK(recovery)'
  BY <1>0, <1>4, <1>5, <1>7 DEF RecoveryOK
<1>12. LossesOK'
  <2>1. ASSUME NEW d \in Floor .. slot.ref - 1, Disconnected(d) PROVE Known(recovery, d)'
    <3>1. \/ (recovery.open # Never /\ recovery.open <= d)
          \/ d <= recovery.handled
          \/ \E c \in d .. slot.done - 1 : Connected(c)
      BY <1>1, <2>1, CompleteLosses
    <3>2. d .. slot.done - 1 \subseteq d .. slot'.done - 1
      BY <1>2, <1>4
    <3> QED
      BY <1>5, <1>7, <3>1, <3>2 DEF Known
  <2>2. ASSUME NEW r \in DOMAIN served, NEW d \in Floor .. now, CutOff(d, r.at), Late(r),
               r.at < slot.ref, served[r] <= recovery.handled \/ served[r] < slot.ref
        PROVE  r \in stored
    BY <1>1, <2>2, CompleteLate
  <2> QED
    BY <1>4, <1>5, <1>7, <1>8, <2>1, <2>2 DEF LossesOK
<1>13. QueuesOK' /\ NotingOK'
  BY <1>1, NoRunQueues
<1> QED
  BY <1>6, <1>7, <1>9, <1>10, <1>11, <1>12, <1>13 DEF Inv

\* Whatever ends a run, the slot stays open for the next one.
LEMMA GivenUpKeeps ==
    ASSUME Inv, slot.open, run' = NoRun, UNCHANGED <<service, tables, slot>>,
           faults' \in 0 .. MaxFaults
    PROVE  Inv'
<1>0. TypeOK /\ ServiceOK /\ RowsOK /\ SlotOK /\ RecoveryOK(recovery) /\ LossesOK
  BY DEF Inv
<1>1. /\ stored' = stored /\ coverage' = coverage /\ checked' = checked /\ slot' = slot
      /\ cursors' = cursors /\ hints' = hints /\ nextSource' = nextSource /\ recovery' = recovery
  BY DEF tables
<1>2. TypeOK'
  <2>1. run' \in Runs
    BY NoRunType
  <2> QED
    BY <1>0, <1>1, <2>1 DEF TypeOK, service
<1>3. ServiceOK'
  BY <1>0, SameService
<1>4. RowsOK' /\ SlotOK' /\ LossesOK' /\ RecoveryOK(recovery)'
  BY <1>0, <1>1, SameTables
<1>5. QueuesOK' /\ NotingOK'
  BY NoRunQueues
<1> QED
  BY <1>2, <1>3, <1>4, <1>5 DEF Inv

LEMMA FinishKeeps == ASSUME Inv, Finish PROVE Inv'
<1>1. CASE run.complete
  BY <1>1, CompleteFinishKeeps
<1>2. CASE ~run.complete
  <2>1. run' = NoRun /\ UNCHANGED <<service, tables, slot>> /\ faults' = faults /\ slot.open
    BY <1>2, RunInSlot DEF Finish
  <2>2. faults' \in 0 .. MaxFaults
    BY <2>1 DEF Inv, TypeOK
  <2> QED
    BY <2>1, <2>2, GivenUpKeeps
<1> QED
  BY <1>1, <1>2

LEMMA CrashKeeps == ASSUME Inv, Crash PROVE Inv'
<1>1. /\ ~Idle /\ faults < MaxFaults /\ run' = NoRun /\ faults' = faults + 1
      /\ UNCHANGED <<service, tables, slot>>
  BY DEF Crash
<1>2. slot.open
  BY <1>1 DEF Inv, SlotOK
<1>3. faults' \in 0 .. MaxFaults
  BY <1>1, Bounds DEF Inv, TypeOK
<1> QED
  BY <1>1, <1>2, <1>3, GivenUpKeeps

LEMMA StopKeeps == ASSUME Inv, Stop PROVE Inv'
<1>0. TypeOK /\ QueuesOK /\ WindowsOK
  BY DEF Inv, QueuesOK
<1>1. /\ Collecting /\ faults < MaxFaults /\ run' = [run EXCEPT !.left = 0]
      /\ faults' = faults + 1 /\ UNCHANGED <<service, tables, slot>>
  BY DEF Stop
<1>2. /\ UNCHANGED <<service, nextSource, recovery, slot>>
      /\ UNCHANGED <<stored, coverage, checked, cursors>> /\ hints' = hints
  BY <1>1 DEF tables
<1>3. run \in Runs /\ run.errors \in BOOLEAN
  BY <1>0 DEF TypeOK, Runs
<1>4. /\ run' \in Runs /\ run'.phase = run.phase /\ run'.tag = run.tag /\ run'.start = run.start
      /\ run'.errors = run.errors /\ run'.queues = run.queues
  <2>1. 0 \in 0 .. MaxRequests
    BY Bounds
  <2> QED
    BY <1>1, <1>3, <2>1 DEF Runs
<1>5. WindowsOK' /\ \A s \in Sources : Pending(s) \subseteq Pending(s)'
  BY <1>0, <1>2, <1>4 DEF WindowsOK, Pending
<1>6. hints' \in [Sources -> 1 .. Window] /\ faults' \in 0 .. MaxFaults
  BY <1>0, <1>1, <1>2, Bounds DEF TypeOK
<1> QED
  BY <1>1, <1>2, <1>3, <1>4, <1>5, <1>6, UnstoredKeeps

LEMMA StutterKeeps == ASSUME Inv, UNCHANGED vars PROVE Inv'
<1>0. TypeOK /\ ServiceOK /\ RowsOK /\ SlotOK /\ RecoveryOK(recovery) /\ LossesOK /\ QueuesOK
        /\ NotingOK
  BY DEF Inv
<1>1. /\ UNCHANGED <<service, stored, coverage, checked, cursors, slot>>
      /\ run' = run /\ recovery' = recovery /\ hints' = hints /\ nextSource' = nextSource
      /\ faults' = faults /\ slot' = slot /\ stored' = stored
  BY DEF vars, service
<1>2. TypeOK'
  BY <1>0, <1>1 DEF TypeOK, service
<1>3. ServiceOK' /\ \A t : Disconnected(t)' <=> Disconnected(t)
  BY <1>0, <1>1, SameService
<1>4. /\ RowsOK' /\ LossesOK' /\ Floor' = Floor
      /\ \A state, d : Known(state, d)' <=> Known(state, d)
      /\ \A state : RecoveryOK(state)' <=> RecoveryOK(state)
      /\ SlotOK'
  BY <1>0, <1>1, SameTables DEF Idle
<1>5. QueuesOK'
  BY <1>0, <1>1, SameQueues
<1>6. (\A e : Seen(e)' <=> Seen(e)) /\ \A state : Passed(state)' <=> Passed(state)
  BY <1>1 DEF Seen, Passed
<1>7. NotingOK'
  BY <1>0, <1>1, <1>3, <1>4, <1>6 DEF NotingOK
<1>8. RecoveryOK(recovery)'
  BY <1>0, <1>1, <1>4
<1> QED
  BY <1>2, <1>3, <1>4, <1>5, <1>7, <1>8 DEF Inv

-----------------------------------------------------------------------------
(* The theorems.                                                           *)

LEMMA NextKeeps == ASSUME Inv, [Next]_vars PROVE Inv'
<1>1. CASE OpenSlot
  BY <1>1, OpenSlotKeeps
<1>2. CASE Begin
  BY <1>2, BeginKeeps
<1>3. CASE Request
  BY <1>3, RequestKeeps
<1>4. CASE EndRecovery
  BY <1>4, EndRecoveryKeeps
<1>5. CASE EnterOrdinary
  BY <1>5, EnterOrdinaryKeeps
<1>6. CASE EndCollection
  BY <1>6, EndCollectionKeeps
<1>7. CASE LoadEvents
  BY <1>7, LoadEventsKeeps
<1>8. CASE NoteEvent
  BY <1>8, NoteEventKeeps
<1>9. CASE RecordEvents
  BY <1>9, RecordEventsKeeps
<1>10. CASE Finish
  BY <1>10, FinishKeeps
<1>11. CASE Device
  BY <1>11, DeviceKeeps
<1>12. CASE Stop
  BY <1>12, StopKeeps
<1>13. CASE Crash
  BY <1>13, CrashKeeps
<1>14. CASE UNCHANGED vars
  BY <1>14, StutterKeeps
<1> QED
  BY <1>1, <1>2, <1>3, <1>4, <1>5, <1>6, <1>7, <1>8, <1>9, <1>10, <1>11, <1>12, <1>13, <1>14
     DEF Next, Work, Sync

\* However slots, requests, failures, kills and losses of connection follow one
\* another, the coverage, the cursors, the state of the recovery and the queues
\* of the run stand for what they are meant to (see Inv).
THEOREM Invariance == Spec => []Inv
<1>1. Inv /\ [Next]_vars => Inv'
  BY NextKeeps
<1> QED
  BY InitInv, <1>1, PTL DEF Spec

\* Every variable keeps its type: a queue never holds a window outside of the
\* clock, a record is stored only after it could be read.
THEOREM TypeCorrect == Spec => []TypeOK
<1>1. Inv => TypeOK
  BY DEF Inv
<1> QED
  BY Invariance, <1>1, PTL

\* A slot is closed by a complete run only.
LEMMA ClosedByFinish ==
    ASSUME [Next]_vars, slot.open, ~slot'.open
    PROVE  Finish /\ run.complete
<1>1. slot' = slot => FALSE
  OBVIOUS
<1>2. ~OpenSlot
  BY DEF OpenSlot
<1>3. Begin \/ Request \/ EndRecovery \/ EnterOrdinary \/ EndCollection \/ LoadEvents
        \/ NoteEvent \/ RecordEvents => slot' = slot
  BY DEF Begin, Request, EndRecovery, EnterOrdinary, EndCollection, LoadEvents, NoteEvent, RecordEvents
<1>4. Device \/ Stop \/ Crash \/ UNCHANGED vars => slot' = slot
  BY DEF Device, Tick, Arrive, Disconnect, Reconnect, Stop, Crash, vars
<1>5. Finish
  BY <1>1, <1>2, <1>3, <1>4 DEF Next, Work, Sync
<1> QED
  BY <1>1, <1>5 DEF Finish

LEMMA CompleteOwes == ASSUME Inv, CompleteRun PROVE slot.owed \subseteq stored
<1>0. TypeOK /\ SlotOK /\ ServiceOK
  BY DEF Inv
<1> SUFFICES ASSUME NEW r \in slot.owed PROVE r \in stored
  OBVIOUS
<1>1. /\ r \in DOMAIN served /\ served[r] < slot.ref /\ r.at >= Floor
      /\ \/ ~Late(r) \/ r.at >= slot.ref - Overlap
         \/ \E d \in Floor .. now : CutOff(d, r.at)
  BY <1>0 DEF SlotOK
<1>2. r.at \in Nat /\ served[r] \in Nat /\ r.at <= served[r] /\ slot.ref \in Nat
  BY <1>0, <1>1, Types, RecordTypes DEF ServiceOK
<1>3. r.at < slot.ref
  BY <1>1, <1>2
<1>4. CASE ~Late(r)
  BY <1>1, <1>3, <1>4, CompleteInTime
<1>5. CASE r.at >= slot.ref - Overlap
  BY <1>1, <1>5, CompleteOverlap
<1>6. CASE Late(r) /\ \E d \in Floor .. now : CutOff(d, r.at)
  <2>1. PICK d \in Floor .. now : CutOff(d, r.at)
    BY <1>6
  <2> QED
    BY <1>1, <1>3, <1>6, <2>1, CompleteLate
<1> QED
  BY <1>1, <1>4, <1>5, <1>6

\* Nothing that the service could serve is missing from a slot taken for
\* complete, whatever the order of requests, splits, failures, kills, lost
\* answers, disconnections and reconnections before it.
THEOREM LosesNothing == Spec => NothingLost
<1>1. Inv /\ [Next]_vars => [slot.open /\ ~slot'.open => slot.owed \subseteq stored]_vars
  <2> SUFFICES ASSUME Inv, [Next]_vars, slot.open, ~slot'.open PROVE slot.owed \subseteq stored
    OBVIOUS
  <2>1. CompleteRun
    BY ClosedByFinish DEF CompleteRun, Finish
  <2> QED
    BY <2>1, CompleteOwes
<1> QED
  BY Invariance, <1>1, PTL DEF Spec, NothingLost

\* What one step may do to the evidence of what is stored.
Evidence ==
    /\ coverage \subseteq coverage'
    /\ \A s \in Sources : cursors[s] <= cursors'[s]
    /\ recovery.handled <= recovery'.handled

LEMMA SameEvidence ==
    ASSUME Inv, coverage' = coverage, cursors' = cursors, recovery' = recovery
    PROVE  Evidence
<1>1. \A s \in Sources : cursors[s] \in Int
  BY TimeValue DEF Inv, TypeOK
<1>2. recovery.handled \in Int
  BY Types, TimeValue DEF Inv
<1> QED
  BY <1>1, <1>2 DEF Evidence

LEMMA RequestEvidence == ASSUME Inv, Request PROVE Evidence
<1>0. TypeOK /\ RowsOK /\ QueuesOK /\ WindowsOK
  BY DEF Inv, QueuesOK
<1>1. Collecting /\ run.left > 0 /\ recovery' = recovery
  BY DEF Request
<1>2. PICK k \in {k \in Turns : Chosen(k)} :
         \E w \in {FirstWindow(Turn(k))}, sources \in {Bundle(Turn(k))} :
            Failing(k, w, sources) \/ Splitting(k, w, sources) \/ Storing(k, w, sources)
  BY DEF Request
<1>3. PICK w, sources : /\ w = FirstWindow(Turn(k)) /\ sources = Bundle(Turn(k))
                        /\ \/ Failing(k, w, sources) \/ Splitting(k, w, sources)
                           \/ Storing(k, w, sources)
  BY <1>2
<1>4. CASE Failing(k, w, sources) \/ Splitting(k, w, sources)
  BY <1>1, <1>4, SameEvidence DEF Failing, FailedRows, Splitting
<1>5. CASE Storing(k, w, sources)
  <2>1. Saved(sources, w, Keys(sources, w))
    BY <1>5 DEF Storing, Saved
  <2>2. sources \in SUBSET Sources /\ w \in Nat \X Nat /\ w[1] < w[2] /\ w[2] <= slot.ref
    BY <1>0, <1>2, <1>3, RequestFacts
  <2> PICK keys : keys = Keys(sources, w)
    OBVIOUS
  <2>3. /\ coverage' = coverage \cup keys
        /\ \A s \in Sources : cursors[s] <= cursors'[s]
    <3>1. AnswerStored(sources, w, keys)
      BY <1>0, <2>1, <2>2, SaveAnswerValue
    <3> QED
      BY <3>1 DEF AnswerStored
  <2>4. recovery.handled \in Int
    BY <1>0, Types, TimeValue
  <2> QED
    BY <1>1, <2>3, <2>4 DEF Evidence
<1> QED
  BY <1>3, <1>4, <1>5

LEMMA EndRecoveryEvidence == ASSUME Inv, EndRecovery PROVE Evidence
<1>1. coverage' = coverage /\ cursors' = cursors
  BY DEF EndRecovery
<1>2. CASE Whole /\ Alive
  <2>1. TypeOK /\ recovery \in Recoveries /\ RecoveryOK(recovery) /\ recovery.restore # Never
    BY DEF Inv, TypeOK, QueuesOK, EndRecovery
  <2>2. recovery.handled \in Int /\ recovery.restore \in Int
    BY <2>1, Types, TimeValue
  <2>3. recovery'.handled = recovery.restore
    BY <1>2, <2>1 DEF EndRecovery, Recoveries
  <2>4. recovery.handled <= recovery'.handled
    BY <2>1, <2>2, <2>3 DEF RecoveryOK
  <2>5. \A s \in Sources : cursors[s] \in Int
    BY <2>1, TimeValue DEF TypeOK
  <2> QED
    BY <1>1, <2>4, <2>5 DEF Evidence
<1>3. CASE ~(Whole /\ Alive)
  BY <1>1, <1>3, SameEvidence DEF EndRecovery
<1> QED
  BY <1>2, <1>3

LEMMA RecordEventsEvidence == ASSUME Inv, RecordEvents PROVE Evidence
<1>1. TypeOK /\ NotingOK
  BY DEF Inv
<1>2. /\ coverage' = coverage /\ cursors' = cursors /\ recovery' = run.noted
      /\ run.noted.handled = recovery.handled
  BY <1>1 DEF RecordEvents, NotingOK
<1>3. recovery.handled \in Int /\ \A s \in Sources : cursors[s] \in Int
  BY <1>1, Types, TimeValue DEF TypeOK
<1> QED
  BY <1>2, <1>3 DEF Evidence

\* A failed request, a repetition, a kill or a recovery takes back no row of
\* the coverage, no cursor and no recovery that was handled.
THEOREM OnlyGrows == Spec => CoverageGrows
<1>1. Inv /\ [Next]_vars => Evidence
  <2> SUFFICES ASSUME Inv, [Next]_vars PROVE Evidence
    OBVIOUS
  <2>1. CASE Request
    BY <2>1, RequestEvidence
  <2>2. CASE EndRecovery
    BY <2>2, EndRecoveryEvidence
  <2>3. CASE RecordEvents
    BY <2>3, RecordEventsEvidence
  <2>4. CASE OpenSlot \/ Begin \/ EnterOrdinary \/ EndCollection \/ LoadEvents \/ NoteEvent \/ Finish
    <3>1. coverage' = coverage /\ cursors' = cursors /\ recovery' = recovery
      BY <2>4 DEF OpenSlot, Begin, EnterOrdinary, EndCollection, LoadEvents, NoteEvent, Finish, tables
    <3> QED
      BY <3>1, SameEvidence
  <2>5. CASE Device \/ Stop \/ Crash \/ UNCHANGED vars
    <3>1. coverage' = coverage /\ cursors' = cursors /\ recovery' = recovery
      BY <2>5 DEF Device, Tick, Arrive, Disconnect, Reconnect, Stop, Crash, tables, vars
    <3> QED
      BY <3>1, SameEvidence
  <2> QED
    BY <2>1, <2>2, <2>3, <2>4, <2>5 DEF Next, Work, Sync
<1>2. Inv /\ [Next]_vars => [/\ coverage \subseteq coverage'
                             /\ \A s \in Sources : cursors[s] <= cursors'[s]
                             /\ recovery.handled <= recovery'.handled]_vars
  BY <1>1 DEF Evidence
<1> QED
  BY Invariance, <1>2, PTL DEF Spec, CoverageGrows
=============================================================================
