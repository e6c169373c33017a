-------------------------- MODULE RepositoryProofs --------------------------
(***************************************************************************)
(* What the repositories keep and promise, for all values of the constants:*)
(* the telemetry (TelemetryStore) and the report generated last            *)
(* (LatestReport), the owner's versioned records (OwnerRepository), the    *)
(* cache of the gas calculation (GasCache) and the review of the models    *)
(* (ModelReview).  Each is a component with an invariant and theorems of   *)
(* its own; they are the ones that MCRepositories puts side by side.       *)
(*                                                                         *)
(* The inductive invariant Inv of the telemetry says why stored bounds may *)
(* be trusted: their revisions never run ahead of the devices' and, where  *)
(* they are the present ones, the bounds are exact (BoundsOK).  It follows *)
(* an unacknowledged change of the calibration to one marker that covers   *)
(* it and is younger than every older unacknowledged change, which is what *)
(* lets the publisher stop at any of them (UnseenOK).                      *)
(*                                                                         *)
(* SearchInv is about two listings of a table that goes on changing: once  *)
(* the first is complete, either there was a moment of which it tells      *)
(* (Snapshot) or a report is missing from it that the second one will      *)
(* meet, or has met (Noticed).                                             *)
(***************************************************************************)
EXTENDS TelemetryStore, LatestReport, FiniteSetTheorems, WellFoundedInduction, TLAPS

-----------------------------------------------------------------------------
(* The invariant of the telemetry.                                         *)

Scopes == {"telemetry", "telemetry-gas"}
Keys == Scopes \X Hours
Payloads == {Broad, Neutral} \cup (Times \X Times)
Known == [first : Times \cup {NoTime}, last : Times \cup {NoTime}, revisions : [Devices -> Nat]]
Changes == [at : Times, revision : Nat]

TypeOK ==
    /\ DOMAIN samples \subseteq Devices \X Times
    /\ \A k \in DOMAIN samples : samples[k] \in Values
    /\ events \subseteq [device : Devices, id : EventIds, at : Times]
    /\ revision \in [Devices -> Nat]
    /\ bounds # Absent => bounds \in Known
    /\ DOMAIN journal \subseteq Keys
    /\ \A k \in DOMAIN journal : journal[k].revision \in Nat /\ journal[k].payload \in Payloads
    /\ published \in Nat /\ checkpoint \in 0 .. published
    /\ unseen \subseteq Changes

\* The first and last of the samples, or none.
Exact(told, kept) ==
    IF TimesOf(kept) = {} THEN told.first = NoTime /\ told.last = NoTime
    ELSE told.first = Min(TimesOf(kept)) /\ told.last = Max(TimesOf(kept))

BoundsOK ==
    bounds # Absent =>
        /\ \A d \in Devices : bounds.revisions[d] <= revision[d]
        /\ bounds.revisions = revision => Exact(bounds, samples)

\* What a payload says of a time.
Covers(payload, t) == payload = Broad \/ (payload # Neutral /\ t \in payload[1] .. payload[2])

UnseenOK ==
    \A u \in unseen :
        /\ checkpoint < u.revision /\ u.revision <= published
        /\ \E scope \in Scopes :
              LET key == <<scope, Hour(u.at)>> IN
              /\ Unconsumed(key) /\ Covers(journal[key].payload, u.at)
              /\ \A v \in unseen : v.revision < u.revision => v.revision < journal[key].revision

Inv == TypeOK /\ BoundsOK /\ UnseenOK /\ EventsCanonical

-----------------------------------------------------------------------------
(* The invariant of the search.                                            *)

Sized == Ids \subseteq Nat /\ Ends \subseteq Nat /\ Moments \subseteq Nat /\ PageSize \in Nat

Stored == [end : Ends, generated : Moments, revision : Nat]
Archive(rs) ==
    /\ DOMAIN rs \subseteq Ids /\ IsFiniteSet(DOMAIN rs)
    /\ \A i \in DOMAIN rs : rs[i] \in Stored

\* Of two moments the second: reports are added or saved again, never withdrawn.
Grown(rs, later) ==
    \A i \in DOMAIN rs :
        /\ i \in DOMAIN later /\ rs[i].revision <= later[i].revision
        /\ rs[i].revision = later[i].revision => later[i] = rs[i]

Listed(rows) == {row.id : row \in rows}

\* What is listed once is never ahead of the table.
ListedOK(rows, rs) ==
    /\ rows \subseteq [id : Ids, end : Ends, revision : Nat]
    /\ \A a, b \in rows : a.id = b.id => a = b
    /\ \A row \in rows :
          /\ row.id \in DOMAIN rs /\ row.revision <= rs[row.id].revision
          /\ row.revision = rs[row.id].revision => row.end = rs[row.id].end

SearchTypeOK ==
    /\ Archive(reports)
    /\ ListedOK(catalogue, reports) /\ ListedOK(again, reports)
    /\ \A i \in DOMAIN projected :
          /\ i \in DOMAIN reports /\ projected[i].revision \in Nat
          /\ projected[i].revision <= reports[i].revision
    /\ DOMAIN stamps \subseteq Listed(catalogue)
    /\ fetched # <<>> => fetched[1] \in catalogue
    /\ step \in {"idle", "list", "cached", "fill", "compare", "done"}

\* A projection tells the truth about the revision it names, as long as that is the present one.
ProjectedOK ==
    /\ \A i \in DOMAIN projected :
          projected[i].revision = reports[i].revision =>
              projected[i].generated = reports[i].generated /\ projected[i].end = reports[i].end
    /\ fetched # <<>> /\ fetched[1].revision = reports[fetched[1].id].revision =>
              fetched[2] = reports[fetched[1].id].generated

StagesOK ==
    /\ step \in {"list", "cached", "fill"} => again = {}
    /\ step \in {"list", "cached"} => DOMAIN stamps = {} /\ fetched = <<>>
    /\ step \in {"cached", "fill"} => catalogue # {}
    /\ step = "list" => answer = None
    /\ step # "idle" => Newest(reports) \in newest

\* A report as it is now is not among the rows.
Unlisted(i, rows, rs) ==
    i \in DOMAIN rs /\ \A row \in rows : row.id = i => row.revision < rs[i].revision

\* The second listing will meet, or has met, a report that the first one does not have.
Noticed ==
    /\ step # "done"
    /\ \E i \in DOMAIN reports :
          /\ Unlisted(i, catalogue, reports)
          /\ i > After(again) \/ \E row \in again : row.id = i /\ row \notin catalogue

\* The rows are those of one moment of the search, and what was read since is of that moment.
Snapshot(snap) ==
    /\ Archive(snap) /\ Newest(snap) \in newest /\ Grown(snap, reports)
    /\ DOMAIN snap = Listed(catalogue)
    /\ \A row \in catalogue : row.revision = snap[row.id].revision /\ row.end = snap[row.id].end
    /\ \A i \in DOMAIN snap : i \in DOMAIN projected /\ projected[i].revision = snap[i].revision
                                => projected[i].generated = snap[i].generated
    /\ \A i \in DOMAIN stamps : stamps[i] = snap[i].generated
    /\ fetched # <<>> => fetched[2] = snap[fetched[1].id].generated
    /\ step \in {"compare", "done"} => answer = Newest(snap)

SearchOK == step \in {"cached", "fill", "compare", "done"} => Noticed \/ \E snap : Snapshot(snap)

SearchInv == SearchTypeOK /\ ProjectedOK /\ StagesOK /\ SearchOK

-----------------------------------------------------------------------------
(* Numbers.                                                                *)

BelowNat == {p \in Nat \X Nat : p[1] < p[2]}

LEMMA BelowWellFounded == IsWellFoundedOn(BelowNat, Nat)
BY NatLessThanWellFounded, Zenon DEF OpToRel, BelowNat

\* A set of integers with a lower bound has a least element.
LEMMA LeastExists ==
    ASSUME NEW S \in SUBSET Int, S # {}, NEW b \in Int, \A x \in S : b <= x
    PROVE  \E m \in S : \A x \in S : m <= x
<1> DEFINE T == {n \in Nat : n + b \in S}
<1>1. PICK y \in S : TRUE
  OBVIOUS
<1>2. y - b \in T
  BY <1>1
<1>3. T \subseteq Nat /\ T # {}
  BY <1>2
<1> HIDE DEF T
<1>4. \E n \in T : \A x \in T : ~ (<<x, n>> \in BelowNat)
  BY <1>3, WFMin, BelowWellFounded, Zenon
<1>5. PICK n \in T : \A x \in T : ~ (<<x, n>> \in BelowNat)
  BY <1>4
<1>6. ASSUME NEW x \in T PROVE n <= x
  <2>1. <<x, n>> \notin BelowNat /\ x \in Nat /\ n \in Nat
    BY <1>3, <1>5, Zenon
  <2> QED
    BY <2>1 DEF BelowNat
<1>7. n + b \in S /\ \A x \in S : x - b \in T
  BY DEF T
<1> QED
  BY <1>6, <1>7, <1>3

LEMMA MinValue ==
    ASSUME NEW S \in SUBSET Int, S # {}, NEW b \in Int, \A x \in S : b <= x
    PROVE  Min(S) \in S /\ \A x \in S : Min(S) <= x
BY LeastExists DEF Min

LEMMA MaxValue ==
    ASSUME NEW S \in SUBSET Int, S # {}, NEW b \in Int, \A x \in S : x <= b
    PROVE  Max(S) \in S /\ \A x \in S : x <= Max(S)
<1> DEFINE T == {-x : x \in S}
<1>1. T \in SUBSET Int /\ T # {} /\ \A y \in T : -b <= y
  <2>1. \A x \in S : -x \in Int /\ -b <= -x
    OBVIOUS
  <2>2. \A y \in T : \E x \in S : y = -x
    OBVIOUS
  <2>3. T # {}
    OBVIOUS
  <2> HIDE DEF T
  <2> QED
    BY <2>1, <2>2, <2>3
<1> HIDE DEF T
<1>2. \E m \in T : \A y \in T : m <= y
  <2>1. -b \in Int
    OBVIOUS
  <2> QED
    BY <1>1, <2>1, LeastExists, Zenon
<1>3. PICK m \in T : \A y \in T : m <= y
  BY <1>2
<1>4. PICK n \in S : m = -n
  BY <1>3 DEF T
<1>5. ASSUME NEW x \in S PROVE x <= n
  <2>1. -x \in T
    BY DEF T
  <2>2. m <= -x
    BY <1>3, <2>1
  <2> QED
    BY <2>2, <1>4
<1>6. \E z \in S : \A x \in S : z >= x
  BY <1>5
<1> QED
  BY <1>6 DEF Max

LEMMA Min2 ==
    ASSUME NEW a \in Int, NEW b \in Int
    PROVE  Min({a, b}) = IF a <= b THEN a ELSE b
<1>1. Min({a, b}) \in {a, b} /\ \A x \in {a, b} : Min({a, b}) <= x
  <2>1. \A x \in {a, b} : (IF a <= b THEN a ELSE b) <= x
    OBVIOUS
  <2> QED
    BY <2>1, MinValue
<1> QED
  BY <1>1

LEMMA Max2 ==
    ASSUME NEW a \in Int, NEW b \in Int
    PROVE  Max({a, b}) = IF a <= b THEN b ELSE a
<1>1. Max({a, b}) \in {a, b} /\ \A x \in {a, b} : x <= Max({a, b})
  <2>1. \A x \in {a, b} : x <= IF a <= b THEN b ELSE a
    OBVIOUS
  <2> QED
    BY <2>1, MaxValue
<1> QED
  BY <1>1

\* A finite set of numbers has a greatest element: otherwise the next greater number
\* would be an injection of the set into the set without its least element.
LEMMA GreatestExists ==
    ASSUME NEW S \in SUBSET Nat, S # {}, IsFiniteSet(S)
    PROVE  \E m \in S : \A x \in S : x <= m
<1> SUFFICES ASSUME \A m \in S : \E x \in S : m < x
             PROVE  FALSE
  OBVIOUS
<1> DEFINE above(m) == {x \in S : m < x}
           next == [m \in S |-> Min(above(m))]
           least == Min(S)
<1>1. least \in S /\ \A x \in S : least <= x
  <2>1. \A x \in S : 0 <= x
    OBVIOUS
  <2>2. S \in SUBSET Int
    OBVIOUS
  <2> QED
    BY <2>1, <2>2, MinValue
<1>2. ASSUME NEW m \in S
      PROVE  next[m] \in S /\ m < next[m] /\ \A x \in S : m < x => next[m] <= x
  <2> DEFINE A == above(m)
  <2>1. A \in SUBSET Int /\ \A x \in A : 0 <= x
    <3>1. A \subseteq S
      OBVIOUS
    <3>2. \A x \in S : x \in Int /\ 0 <= x
      OBVIOUS
    <3> HIDE DEF A
    <3> QED
      BY <3>1, <3>2
  <2>2. A # {}
    <3>1. PICK x \in S : m < x
      OBVIOUS
    <3> QED
      BY <3>1
  <2>3. next[m] = Min(A)
    OBVIOUS
  <2>4. \A x : x \in A <=> x \in S /\ m < x
    OBVIOUS
  <2> HIDE DEF A, next
  <2>5. Min(A) \in A /\ \A x \in A : Min(A) <= x
    BY <2>1, <2>2, MinValue
  <2> QED
    BY <2>3, <2>4, <2>5
<1> HIDE DEF next, least
<1>3. \A m \in S : next[m] # least
  BY <1>1, <1>2
<1>4. \A m, n \in S : next[m] = next[n] => m = n
  <2>1. ASSUME NEW m \in S, NEW n \in S, m < n
        PROVE  next[m] # next[n]
    <3>1. next[m] <= n /\ n < next[n] /\ next[m] \in Nat /\ next[n] \in Nat /\ n \in Nat
      BY <1>2, <2>1
    <3> QED
      BY <3>1
  <2>2. \A m, n \in S : m < n \/ n < m \/ m = n
    <3>1. \A m \in S : m \in Nat
      OBVIOUS
    <3> QED
      BY <3>1
  <2> QED
    BY <2>1, <2>2
<1>5. next \in [S -> S \ {least}]
  BY <1>2, <1>3 DEF next
<1>6. next \in Injection(S, S \ {least})
  BY <1>4, <1>5 DEF Injection, IsInjective
<1>7. IsFiniteSet(S \ {least}) /\ Cardinality(S \ {least}) = Cardinality(S) - 1
  BY <1>1, FS_RemoveElement
<1>8. Cardinality(S) <= Cardinality(S \ {least})
  BY <1>6, <1>7, FS_Injection
<1>9. Cardinality(S) \in Nat
  BY FS_CardinalityType
<1> QED
  BY <1>7, <1>8, <1>9

LEMMA GreatestValue ==
    ASSUME NEW S \in SUBSET Nat, S # {}, IsFiniteSet(S)
    PROVE  Max(S) \in S /\ \A x \in S : x <= Max(S)
<1>1. PICK m \in S : \A x \in S : x <= m
  BY GreatestExists
<1>2. \A x \in S : m >= x
  BY <1>1
<1> QED
  BY <1>2 DEF Max

LEMMA FiniteImage ==
    ASSUME NEW D, IsFiniteSet(D), NEW f
    PROVE  IsFiniteSet({f[i] : i \in D})
<1> DEFINE F == {f[i] : i \in D}
           g == [i \in D |-> f[i]]
<1>1. g \in Surjection(D, F)
  BY DEF Surjection
<1> QED
  BY <1>1, FS_Surjection

-----------------------------------------------------------------------------
(* Times, hours and markers.                                               *)

LEMMA TimesFinite ==
    ASSUME MaxTime \in Nat
    PROVE  IsFiniteSet(Times) /\ Times \in SUBSET Nat
BY FS_Interval DEF Times

LEMMA LeastTime ==
    ASSUME MaxTime \in Nat, NEW S \in SUBSET Times, S # {}
    PROVE  Min(S) \in S /\ \A t \in S : Min(S) <= t
<1>1. S \in SUBSET Int /\ \A t \in S : 0 <= t
  BY DEF Times
<1> QED
  BY <1>1, MinValue

LEMMA GreatestTime ==
    ASSUME MaxTime \in Nat, NEW S \in SUBSET (Times \cup {NoTime}), S # {}
    PROVE  Max(S) \in S /\ \A t \in S : t <= Max(S)
<1>1. S \in SUBSET Int /\ MaxTime \in Int /\ \A t \in S : t <= MaxTime
  BY DEF Times, NoTime
<1> QED
  BY <1>1, MaxValue

LEMMA HoursFinite ==
    ASSUME MaxTime \in Nat, NEW S \in SUBSET Times
    PROVE  IsFiniteSet({Hour(t) : t \in S}) /\ {Hour(t) : t \in S} \subseteq Hours
<1> DEFINE H == {Hour(t) : t \in S}
           f == [t \in S |-> Hour(t)]
<1>1. IsFiniteSet(S)
  BY TimesFinite, FS_Subset
<1>2. f \in Surjection(S, H)
  BY DEF Surjection
<1>3. IsFiniteSet(H)
  BY <1>1, <1>2, FS_Surjection
<1> QED
  BY <1>3 DEF Hours

LEMMA KeysFinite ==
    ASSUME MaxTime \in Nat, NEW S \in SUBSET Times, NEW scope \in Scopes
    PROVE  /\ IsFiniteSet({scope} \X {Hour(t) : t \in S})
           /\ {scope} \X {Hour(t) : t \in S} \subseteq Keys
<1>1. IsFiniteSet({scope})
  BY FS_Singleton
<1>2. IsFiniteSet({Hour(t) : t \in S}) /\ {Hour(t) : t \in S} \subseteq Hours
  BY HoursFinite
<1>3. IsFiniteSet({scope} \X {Hour(t) : t \in S})
  BY <1>1, <1>2, FS_Product
<1> QED
  BY <1>2, <1>3 DEF Keys

\* The markers of a transaction get new publication revisions.
LEMMA Marking ==
    ASSUME NEW markers, IsFiniteSet(DOMAIN markers), published \in Nat, Marked(markers)
    PROVE  /\ published' \in Nat /\ published <= published'
           /\ DOMAIN journal' = DOMAIN markers \cup DOMAIN journal
           /\ \A k \in DOMAIN markers :
                 /\ journal'[k].revision \in Nat
                 /\ published < journal'[k].revision /\ journal'[k].revision <= published'
                 /\ journal'[k].payload = IF markers[k] = Broad THEN Broad ELSE Merged(k, markers[k])
           /\ \A k \in DOMAIN journal \ DOMAIN markers : journal'[k] = journal[k]
<1> DEFINE keys == DOMAIN markers
           n == Cardinality(keys)
           list == CHOOSE f \in [keys -> 1 .. n] : IsInjective(f)
<1>1. n \in Nat /\ ExistsBijection(1 .. n, keys)
  BY FS_CardinalityType
<1>2. list \in [keys -> 1 .. n]
  <2>1. IsFiniteSet(1 .. n) /\ Cardinality(1 .. n) = n
    BY <1>1, FS_Interval
  <2>2. ExistsBijection(keys, 1 .. n)
    BY <2>1, FS_SameCardinalityBij
  <2>3. \E f \in [keys -> 1 .. n] : IsInjective(f)
    BY <2>2 DEF ExistsBijection, Bijection, Injection, IsInjective
  <2> QED
    BY <2>3
<1>3. /\ journal' = [k \in keys \cup DOMAIN journal |->
                        IF k \in keys
                        THEN [revision |-> published + list[k],
                              payload |-> IF markers[k] = Broad THEN Broad
                                          ELSE Merged(k, markers[k])]
                        ELSE journal[k]]
      /\ published' = published + n
  BY DEF Marked
<1> HIDE DEF list, n
<1>4. \A k \in keys : list[k] \in Nat /\ 1 <= list[k] /\ list[k] <= n
  BY <1>1, <1>2
<1> QED
  BY <1>1, <1>3, <1>4

\* A marker names an hour, and the times in it where it is of the gas.
ProperMarkers(markers) ==
    /\ DOMAIN markers \subseteq Keys
    /\ \A k \in DOMAIN markers :
          markers[k] \in IF k[1] = "telemetry" THEN {Broad, Neutral} ELSE {Broad} \cup (Times \X Times)

LEMMA PairsDiffer ==
    ASSUME MaxTime \in Nat, NEW p \in Times \X Times
    PROVE  p # Broad /\ p # Neutral /\ Broad # Neutral
<1>1. p[1] # -1
  BY DEF Times
<1>2. p # Neutral
  BY <1>1 DEF Neutral
<1>3. Len(p) = 2 /\ Len(Neutral) = 2 /\ Len(Broad) = 0
  BY DEF Neutral, Broad
<1> QED
  BY <1>2, <1>3

\* What is merged is a payload, and covers what either of them covered.
LEMMA Merging ==
    ASSUME MaxTime \in Nat, TypeOK, NEW markers, ProperMarkers(markers),
           NEW key \in DOMAIN markers, markers[key] # Broad
    PROVE  /\ Merged(key, markers[key]) \in Payloads
           /\ \A t \in Times : Covers(markers[key], t) => Covers(Merged(key, markers[key]), t)
           /\ \A t \in Times : Unconsumed(key) /\ Covers(journal[key].payload, t)
                                  => Covers(Merged(key, markers[key]), t)
<1> DEFINE new == markers[key]
           old == journal[key].payload
<1>1. new \in Payloads /\ (key[1] # "telemetry" => new \in Times \X Times)
      /\ (key[1] = "telemetry" => new = Neutral)
  BY DEF ProperMarkers, Payloads
<1>2. CASE ~Unconsumed(key) \/ old = new
  <2>1. Merged(key, new) = new
    BY <1>2 DEF Merged
  <2> QED
    BY <1>1, <1>2, <2>1
<1>3. CASE ~(~Unconsumed(key) \/ old = new) /\ (key[1] = "telemetry" \/ old \in {Broad, Neutral})
  <2>1. Merged(key, new) = Broad
    BY <1>3 DEF Merged
  <2> QED
    BY <2>1 DEF Covers, Payloads
<1>4. CASE ~(~Unconsumed(key) \/ old = new) /\ ~(key[1] = "telemetry" \/ old \in {Broad, Neutral})
  <2>1. new \in Times \X Times
    BY <1>1, <1>4
  <2>2. old \in Times \X Times
    BY <1>4 DEF TypeOK, Payloads, Unconsumed
  <2>3. new[1] \in Int /\ new[2] \in Int /\ old[1] \in Int /\ old[2] \in Int
    BY <2>1, <2>2 DEF Times
  <2>4. Merged(key, new) = <<Min({old[1], new[1]}), Max({old[2], new[2]})>>
    BY <1>4 DEF Merged
  <2> DEFINE lo == Min({old[1], new[1]})
             hi == Max({old[2], new[2]})
  <2>5. lo = (IF old[1] <= new[1] THEN old[1] ELSE new[1]) /\ hi = IF old[2] <= new[2] THEN new[2] ELSE old[2]
    BY <2>3, Min2, Max2
  <2> HIDE DEF lo, hi
  <2>6. lo \in Times /\ hi \in Times
    BY <2>1, <2>2, <2>5
  <2>7. Merged(key, new) \in Times \X Times /\ Merged(key, new)[1] = lo /\ Merged(key, new)[2] = hi
    BY <2>4, <2>6 DEF lo, hi
  <2>8. Merged(key, new) # Neutral /\ new # Broad /\ old # Broad
    BY <2>1, <2>2, <2>7, PairsDiffer
  <2>9. \A t \in Times : t \in new[1] .. new[2] \/ t \in old[1] .. old[2] => t \in lo .. hi
    BY <2>3, <2>5 DEF Times
  <2> QED
    BY <2>7, <2>8, <2>9 DEF Covers, Payloads
<1> QED
  BY <1>2, <1>3, <1>4

-----------------------------------------------------------------------------
(* What a transaction leaves uncovered: nothing.                           *)

LEMMA Covering ==
    ASSUME MaxTime \in Nat, TypeOK, UnseenOK,
           NEW markers, ProperMarkers(markers), IsFiniteSet(DOMAIN markers), Marked(markers),
           checkpoint' = checkpoint, NEW times \in SUBSET Times,
           unseen' = unseen \cup {[at |-> t, revision |-> published'] : t \in times},
           \A t \in times : \E scope \in Scopes :
               /\ <<scope, Hour(t)>> \in DOMAIN markers
               /\ Covers(markers[<<scope, Hour(t)>>], t)
    PROVE  /\ published' \in Nat /\ checkpoint' \in 0 .. published'
           /\ unseen' \subseteq Changes
           /\ DOMAIN journal' \subseteq Keys
           /\ \A k \in DOMAIN journal' : journal'[k].revision \in Nat /\ journal'[k].payload \in Payloads
           /\ UnseenOK'
<1>1. /\ published \in Nat /\ checkpoint \in Nat /\ checkpoint <= published
      /\ published' \in Nat /\ published <= published'
      /\ DOMAIN journal' = DOMAIN markers \cup DOMAIN journal
  <2>1. published \in Nat /\ checkpoint \in Nat /\ checkpoint <= published
    BY DEF TypeOK
  <2> QED
    BY <2>1, Marking
<1>2. ASSUME NEW k \in DOMAIN markers
      PROVE  /\ journal'[k].revision \in Nat
             /\ published < journal'[k].revision /\ journal'[k].revision <= published'
             /\ journal'[k].payload = IF markers[k] = Broad THEN Broad ELSE Merged(k, markers[k])
  BY <1>1, Marking
<1>3. ASSUME NEW k \in DOMAIN journal \ DOMAIN markers
      PROVE  journal'[k] = journal[k]
  BY <1>1, Marking
<1>4. ASSUME NEW k \in DOMAIN journal'
      PROVE  journal'[k].revision \in Nat /\ journal'[k].payload \in Payloads
  <2>1. CASE k \in DOMAIN markers
    BY <1>2, <2>1, Merging DEF Payloads
  <2>2. CASE k \in DOMAIN journal \ DOMAIN markers
    BY <1>3, <2>2 DEF TypeOK
  <2> QED
    BY <1>1, <2>1, <2>2
<1>5. unseen' \subseteq Changes
  BY <1>1 DEF TypeOK, Changes
<1>6. \A v \in unseen' : v.revision \in Nat /\ v.at \in Times
                         /\ ((v \in unseen /\ v.revision <= published) \/ v.revision = published')
  <2>1. \A v \in unseen : v.revision <= published
    BY DEF UnseenOK
  <2> QED
    BY <1>5, <2>1 DEF Changes
<1>7. ASSUME NEW k \in DOMAIN markers, NEW t \in Times,
             Covers(markers[k], t) \/ (Unconsumed(k) /\ Covers(journal[k].payload, t))
      PROVE  Unconsumed(k)' /\ Covers(journal'[k].payload, t)
  <2>1. Unconsumed(k)'
    BY <1>1, <1>2 DEF Unconsumed
  <2>2. CASE markers[k] = Broad
    BY <1>2, <2>1, <2>2 DEF Covers
  <2>3. CASE markers[k] # Broad
    BY <1>2, <1>7, <2>1, <2>3, Merging
  <2> QED
    BY <2>2, <2>3
<1>8. ASSUME NEW u \in unseen'
      PROVE  /\ checkpoint' < u.revision /\ u.revision <= published'
             /\ \E scope \in Scopes :
                   /\ Unconsumed(<<scope, Hour(u.at)>>)'
                   /\ Covers(journal'[<<scope, Hour(u.at)>>].payload, u.at)
                   /\ \A v \in unseen' : v.revision < u.revision
                                            => v.revision < journal'[<<scope, Hour(u.at)>>].revision
  <2>0. u.at \in Times /\ u.revision \in Nat
    BY <1>6
  <2>1. CASE u \in unseen
    <3>1. checkpoint < u.revision /\ u.revision <= published
      BY <2>1 DEF UnseenOK
    <3>2. PICK scope \in Scopes :
             /\ Unconsumed(<<scope, Hour(u.at)>>)
             /\ Covers(journal[<<scope, Hour(u.at)>>].payload, u.at)
             /\ \A v \in unseen : v.revision < u.revision
                                     => v.revision < journal[<<scope, Hour(u.at)>>].revision
      BY <2>1 DEF UnseenOK
    <3> DEFINE key == <<scope, Hour(u.at)>>
    <3>3. CASE key \in DOMAIN markers
      <4>1. Unconsumed(key)' /\ Covers(journal'[key].payload, u.at)
        BY <1>7, <2>0, <3>2, <3>3
      <4>2. published < journal'[key].revision /\ journal'[key].revision \in Nat
        BY <1>2, <3>3
      <4>3. \A v \in unseen' : v.revision < u.revision => v.revision < journal'[key].revision
        BY <1>1, <1>6, <2>0, <3>1, <4>2
      <4> QED
        BY <1>1, <2>0, <3>1, <4>1, <4>3
    <3>4. CASE key \notin DOMAIN markers
      <4>1. key \in DOMAIN journal /\ journal'[key] = journal[key]
        BY <1>3, <3>2, <3>4 DEF Unconsumed
      <4>2. Unconsumed(key)' /\ Covers(journal'[key].payload, u.at)
        BY <1>1, <3>2, <4>1 DEF Unconsumed
      <4>3. \A v \in unseen' : v.revision < u.revision => v \in unseen
        BY <1>1, <1>6, <2>0, <3>1
      <4> QED
        BY <1>1, <2>0, <3>1, <3>2, <4>1, <4>2, <4>3
    <3> QED
      BY <3>3, <3>4
  <2>2. CASE u \notin unseen
    <3>1. u.at \in times /\ u.revision = published'
      BY <2>2
    <3>2. PICK scope \in Scopes : /\ <<scope, Hour(u.at)>> \in DOMAIN markers
                                  /\ Covers(markers[<<scope, Hour(u.at)>>], u.at)
      BY <3>1
    <3> DEFINE key == <<scope, Hour(u.at)>>
    <3>3. Unconsumed(key)' /\ Covers(journal'[key].payload, u.at)
      BY <1>7, <2>0, <3>2
    <3>4. published < journal'[key].revision /\ journal'[key].revision <= published'
          /\ journal'[key].revision \in Nat
      BY <1>2, <3>2
    <3>5. \A v \in unseen' : v.revision < u.revision => v.revision < journal'[key].revision
      BY <1>1, <1>6, <3>1, <3>4
    <3> QED
      BY <1>1, <3>1, <3>3, <3>4, <3>5
  <2> QED
    BY <2>1, <2>2
<1>9. UnseenOK'
  BY <1>8 DEF UnseenOK
<1>10. DOMAIN journal' \subseteq Keys
  BY <1>1 DEF TypeOK, ProperMarkers
<1> QED
  BY <1>1, <1>4, <1>5, <1>9, <1>10

-----------------------------------------------------------------------------
(* The bounds.                                                             *)

LEMMA TimesOfTyped ==
    ASSUME NEW kept, DOMAIN kept \subseteq Devices \X Times
    PROVE  TimesOf(kept) \in SUBSET Times
BY DEF TimesOf

LEMMA Bootstrapping ==
    ASSUME MaxTime \in Nat, NEW kept, DOMAIN kept \subseteq Devices \X Times,
           NEW actual \in [Devices -> Nat]
    PROVE  /\ Bootstrap(kept, actual) \in Known
           /\ Bootstrap(kept, actual).revisions = actual
           /\ Exact(Bootstrap(kept, actual), kept)
<1>1. TimesOf(kept) \in SUBSET Times
  BY TimesOfTyped
<1>2. TimesOf(kept) # {} => Min(TimesOf(kept)) \in Times /\ Max(TimesOf(kept)) \in Times
  BY <1>1, LeastTime, GreatestTime
<1> QED
  BY <1>2 DEF Bootstrap, Known, Exact

\* The least and the greatest of two sets of times.
LEMMA LeastOfBoth ==
    ASSUME MaxTime \in Nat, NEW S \in SUBSET Times, NEW T \in SUBSET Times, S # {}, T # {}
    PROVE  /\ Min(S \cup T) = Min({Min(S), Min(T)})
           /\ Max(S \cup T) = Max(S \cup {Max(T)})
<1>1. Min(S) \in S /\ (\A t \in S : Min(S) <= t) /\ Min(T) \in T /\ \A t \in T : Min(T) <= t
  BY LeastTime
<1>2. Max(T) \in T /\ \A t \in T : t <= Max(T)
  BY GreatestTime
<1>3. Min(S \cup T) \in S \cup T /\ \A t \in S \cup T : Min(S \cup T) <= t
  BY LeastTime
<1>4. Max(S \cup T) \in S \cup T /\ \A t \in S \cup T : t <= Max(S \cup T)
  BY GreatestTime
<1>5. Max(S \cup {Max(T)}) \in S \cup {Max(T)} /\ \A t \in S \cup {Max(T)} : t <= Max(S \cup {Max(T)})
  BY <1>2, GreatestTime
<1>6. S \subseteq Int /\ T \subseteq Int
  BY DEF Times
<1>7. Min(S \cup T) = Min({Min(S), Min(T)})
  <2>1. Min({Min(S), Min(T)}) = IF Min(S) <= Min(T) THEN Min(S) ELSE Min(T)
    BY <1>1, <1>6, Min2
  <2>2. Min(S \cup T) <= Min(S) /\ Min(S \cup T) <= Min(T)
    BY <1>1, <1>3
  <2>3. Min(S) <= Min(S \cup T) \/ Min(T) <= Min(S \cup T)
    BY <1>1, <1>3
  <2>4. Min(S) \in Int /\ Min(T) \in Int /\ Min(S \cup T) \in Int
    BY <1>1, <1>3, <1>6
  <2> QED
    BY <2>1, <2>2, <2>3, <2>4
<1>8. Max(S \cup T) = Max(S \cup {Max(T)})
  <2>1. Max(S \cup {Max(T)}) \in S \cup T /\ Max(T) <= Max(S \cup {Max(T)})
    BY <1>2, <1>5
  <2>0. Max(T) \in Int /\ Max(S \cup T) \in Int /\ Max(S \cup {Max(T)}) \in Int
    BY <1>2, <1>4, <1>6, <2>1
  <2>2. Max(S \cup {Max(T)}) <= Max(S \cup T)
    BY <1>4, <2>1
  <2>3. Max(S \cup T) <= Max(S \cup {Max(T)})
    <3>1. CASE Max(S \cup T) \in S
      BY <1>5, <3>1
    <3>2. CASE Max(S \cup T) \in T
      <4>1. Max(S \cup T) <= Max(T)
        BY <1>2, <3>2
      <4> QED
        BY <2>0, <2>1, <4>1
    <3> QED
      BY <1>4, <3>1, <3>2
  <2> QED
    BY <2>0, <2>2, <2>3
<1> QED
  BY <1>7, <1>8

LEMMA Extending ==
    ASSUME MaxTime \in Nat, TypeOK, BoundsOK, NEW d \in Devices,
           NEW kept, DOMAIN kept \subseteq Devices \X Times,
           NEW times \in SUBSET Times, TimesOf(kept) = times \cup TimesOf(samples),
           NEW actual \in [Devices -> Nat], actual[d] = revision[d] + 1
    PROVE  /\ Extended(kept, times, revision, actual) \in Known
           /\ Extended(kept, times, revision, actual).revisions = actual
           /\ Exact(Extended(kept, times, revision, actual), kept)
<1> DEFINE new == Extended(kept, times, revision, actual)
<1>0. SUFFICES new \in Known /\ new.revisions = actual /\ Exact(new, kept)
  OBVIOUS
<1> HIDE DEF new
<1>1. actual \in [Devices -> Nat] /\ actual[d] = revision[d] + 1 /\ revision[d] \in Nat
  BY DEF TypeOK
<1>2. DOMAIN kept \subseteq Devices \X Times
  OBVIOUS
<1>3. times \in SUBSET Times /\ TimesOf(samples) \in SUBSET Times
  BY TimesOfTyped DEF TypeOK
<1>4. TimesOf(kept) = times \cup TimesOf(samples)
  OBVIOUS
<1>5. CASE ~Trusted(bounds, revision, actual)
  BY <1>1, <1>2, <1>5, Bootstrapping DEF Extended, new
<1>6. CASE Trusted(bounds, revision, actual)
  <2>1. bounds # Absent /\ bounds.revisions \in {revision, actual}
    BY <1>6 DEF Trusted
  <2>2. bounds \in Known
    BY <2>1 DEF TypeOK
  <2>3. bounds.revisions[d] <= revision[d]
    BY <2>1 DEF BoundsOK
  <2>4. bounds.revisions = revision
    BY <1>1, <2>1, <2>3
  <2>5. Exact(bounds, samples)
    BY <2>1, <2>4 DEF BoundsOK
  <2>6. CASE times = {}
    <3>1. new = [bounds EXCEPT !.revisions = actual]
      BY <1>6, <2>6 DEF Extended, new
    <3>2. new \in Known /\ new.revisions = actual /\ new.first = bounds.first /\ new.last = bounds.last
      BY <1>1, <2>2, <3>1 DEF Known
    <3>3. Exact(new, kept)
      BY <1>4, <2>5, <2>6, <3>2 DEF Exact
    <3> QED
      BY <3>2, <3>3
  <2>7. CASE times # {}
    <3>1. new = [first |-> Earlier(Min(times), bounds.first), last |-> Max(times \cup {bounds.last}),
                 revisions |-> actual]
      BY <1>6, <2>7 DEF Extended, new
    <3>2. Min(times) \in Times
      BY <1>3, <2>7, LeastTime
    <3>3. CASE TimesOf(samples) = {}
      <4>1. bounds.first = NoTime /\ bounds.last = NoTime
        BY <2>5, <3>3 DEF Exact
      <4>2. new.first = Min(times) /\ new.last = Max(times \cup {NoTime}) /\ new.revisions = actual
        BY <3>1, <4>1 DEF Earlier
      <4>3. Max(times \cup {NoTime}) = Max(times) /\ Max(times) \in Times
        <5>1. times \cup {NoTime} \in SUBSET (Times \cup {NoTime})
          BY <1>3
        <5>2. Max(times) \in times /\ \A t \in times : t <= Max(times)
          BY <1>3, <2>7, GreatestTime
        <5>3. Max(times \cup {NoTime}) \in times \cup {NoTime}
              /\ \A t \in times \cup {NoTime} : t <= Max(times \cup {NoTime})
          BY <5>1, GreatestTime
        <5>4. \A t \in times : t \in Nat
          BY <1>3 DEF Times
        <5>5. Max(times) <= Max(times \cup {NoTime})
          BY <5>2, <5>3
        <5>6. Max(times \cup {NoTime}) # NoTime
          BY <5>2, <5>4, <5>5 DEF NoTime
        <5>7. Max(times \cup {NoTime}) <= Max(times)
          BY <5>2, <5>3, <5>6
        <5>8. Max(times) \in Nat /\ Max(times \cup {NoTime}) \in Nat
          BY <5>2, <5>3, <5>4, <5>6
        <5> QED
          BY <1>3, <5>2, <5>5, <5>7, <5>8
      <4> QED
        BY <1>1, <1>4, <2>7, <3>1, <3>2, <3>3, <4>2, <4>3 DEF Exact, Known
    <3>4. CASE TimesOf(samples) # {}
      <4>1. bounds.first = Min(TimesOf(samples)) /\ bounds.last = Max(TimesOf(samples))
        BY <2>5, <3>4 DEF Exact
      <4>2. bounds.first \in Times /\ bounds.last \in Times
        BY <1>3, <3>4, <4>1, LeastTime, GreatestTime
      <4>3. bounds.first # NoTime
        BY <4>2 DEF Times, NoTime
      <4>4. new.first = Min({Min(times), Min(TimesOf(samples))})
            /\ new.last = Max(times \cup {Max(TimesOf(samples))}) /\ new.revisions = actual
        BY <3>1, <4>1, <4>3 DEF Earlier
      <4>5. new.first = Min(TimesOf(kept)) /\ new.last = Max(TimesOf(kept))
        <5>1. /\ Min(times \cup TimesOf(samples)) = Min({Min(times), Min(TimesOf(samples))})
              /\ Max(times \cup TimesOf(samples)) = Max(times \cup {Max(TimesOf(samples))})
          BY <1>3, <2>7, <3>4, LeastOfBoth
        <5> QED
          BY <1>4, <4>4, <5>1, Zenon
      <4>6. TimesOf(kept) # {} /\ TimesOf(kept) \in SUBSET Times
        BY <1>3, <1>4, <2>7
      <4>7. new.first \in Times /\ new.last \in Times
        BY <4>5, <4>6, LeastTime, GreatestTime
      <4> QED
        BY <1>1, <3>1, <4>4, <4>5, <4>6, <4>7 DEF Exact, Known
    <3> QED
      BY <3>3, <3>4
  <2> QED
    BY <2>6, <2>7
<1> QED
  BY <1>5, <1>6

-----------------------------------------------------------------------------
(* The steps of the telemetry.                                             *)

LEMMA HourMarkersOf ==
    ASSUME MaxTime \in Nat, NEW S \in SUBSET Times
    PROVE  /\ IsFiniteSet(DOMAIN HourMarkers(S)) /\ DOMAIN HourMarkers(S) \subseteq Keys
           /\ \A k \in DOMAIN HourMarkers(S) : k[1] = "telemetry"
<1> DEFINE H == {Hour(t) : t \in S}
<1>1. DOMAIN HourMarkers(S) = {"telemetry"} \X H
  BY DEF HourMarkers
<1>2. IsFiniteSet({"telemetry"} \X H) /\ {"telemetry"} \X H \subseteq Keys
  BY KeysFinite DEF Scopes
<1> HIDE DEF H
<1> QED
  BY <1>1, <1>2

LEMMA GasMarkersOf ==
    ASSUME MaxTime \in Nat, NEW S \in SUBSET Times
    PROVE  /\ \A t \in S : <<"telemetry-gas", Hour(t)>> \in DOMAIN GasMarkers(S)
           /\ IsFiniteSet(DOMAIN GasMarkers(S)) /\ DOMAIN GasMarkers(S) \subseteq Keys
           /\ \A k \in DOMAIN GasMarkers(S) :
                 /\ k[1] = "telemetry-gas" /\ GasMarkers(S)[k] \in Times \X Times
                 /\ \A t \in S : Hour(t) = k[2] => Covers(GasMarkers(S)[k], t)
<1>1. DOMAIN GasMarkers(S) = {"telemetry-gas"} \X {Hour(t) : t \in S}
  BY DEF GasMarkers
<1>2. IsFiniteSet(DOMAIN GasMarkers(S)) /\ DOMAIN GasMarkers(S) \subseteq Keys
  BY <1>1, KeysFinite DEF Scopes
<1>3. ASSUME NEW k \in DOMAIN GasMarkers(S)
      PROVE  /\ k[1] = "telemetry-gas" /\ GasMarkers(S)[k] \in Times \X Times
             /\ \A t \in S : Hour(t) = k[2] => Covers(GasMarkers(S)[k], t)
  <2> DEFINE within == {t \in S : Hour(t) = k[2]}
  <2>1. k[1] = "telemetry-gas" /\ k[2] \in {Hour(t) : t \in S}
    BY <1>1
  <2>2. within \in SUBSET Times /\ within # {}
    BY <2>1
  <2>3. GasMarkers(S)[k] = <<Min(within), Max(within)>>
    BY <1>1 DEF GasMarkers
  <2> HIDE DEF within
  <2>4. Min(within) \in within /\ \A t \in within : Min(within) <= t
    BY <2>2, LeastTime
  <2>5. Max(within) \in within /\ \A t \in within : t <= Max(within)
    BY <2>2, GreatestTime
  <2>6. GasMarkers(S)[k] \in Times \X Times
    BY <2>2, <2>3, <2>4, <2>5
  <2>7. \A t \in within : t \in Int /\ t \in Min(within) .. Max(within)
    BY <2>2, <2>4, <2>5 DEF Times
  <2>8. \A t \in within : Covers(GasMarkers(S)[k], t)
    BY <2>3, <2>6, <2>7, PairsDiffer DEF Covers
  <2> QED
    BY <2>1, <2>6, <2>8 DEF within
<1> DEFINE H == {Hour(t) : t \in S}
<1>4. \A h \in H : <<"telemetry-gas", h>> \in DOMAIN GasMarkers(S)
  <2> HIDE DEF H
  <2>1. DOMAIN GasMarkers(S) = {"telemetry-gas"} \X H
    BY <1>1 DEF H
  <2> QED
    BY <2>1
<1> QED
  BY <1>2, <1>3, <1>4

LEMMA BoundsAfter ==
    ASSUME TypeOK', bounds' \in Known, bounds'.revisions = revision', Exact(bounds', samples')
    PROVE  BoundsOK'
BY DEF BoundsOK, TypeOK

\* What Write does with the rows and the event it was given.
Wrote(d, keys, value, incoming) ==
    LET rows == {k \in keys : ~(k \in DOMAIN samples /\ samples[k] = value)}
        news == {n \in incoming : n \notin events}
        previous == {r \in events : r.id \in {n.id : n \in news}}
        times == {k[2] : k \in rows}
        changed == times \cup {e.at : e \in news \cup previous}
        kept == [k \in DOMAIN samples \cup rows |-> IF k \in rows THEN value ELSE samples[k]]
        actual == [revision EXCEPT ![d] = @ + 1]
    IN  /\ Cardinality(keys) <= 2 /\ (rows # {} \/ news # {})
        /\ samples' = kept
        /\ events' = Moved(events, news) \cup news
        /\ revision' = actual
        /\ bounds' = Extended(kept, times, revision, actual)
        /\ Marked([k \in DOMAIN HourMarkers(changed) \cup DOMAIN GasMarkers(times) |->
                     IF k[1] = "telemetry" THEN Neutral ELSE GasMarkers(times)[k]])
        /\ unseen' = unseen \cup {[at |-> t, revision |-> published'] : t \in times}

LEMMA WriteStep ==
    ASSUME MaxTime \in Nat, Inv, NEW d \in Devices, Write(d)
    PROVE  Inv'
<1>1. PICK keys \in SUBSET ({d} \X Times), value \in Values, id \in EventIds, at \in Times :
         \E incoming \in {{}, {[device |-> d, id |-> id, at |-> at]}} :
            Wrote(d, keys, value, incoming)
  BY DEF Write, Wrote
<1>2. PICK incoming \in {{}, {[device |-> d, id |-> id, at |-> at]}} : Wrote(d, keys, value, incoming)
  BY <1>1
<1> DEFINE rows == {k \in keys : ~(k \in DOMAIN samples /\ samples[k] = value)}
           news == {n \in incoming : n \notin events}
           previous == {r \in events : r.id \in {n.id : n \in news}}
           times == {k[2] : k \in rows}
           changed == times \cup {e.at : e \in news \cup previous}
           kept == [k \in DOMAIN samples \cup rows |-> IF k \in rows THEN value ELSE samples[k]]
           actual == [revision EXCEPT ![d] = @ + 1]
           markers == [k \in DOMAIN HourMarkers(changed) \cup DOMAIN GasMarkers(times) |->
                         IF k[1] = "telemetry" THEN Neutral ELSE GasMarkers(times)[k]]
<1>3. /\ samples' = kept /\ events' = Moved(events, news) \cup news /\ revision' = actual
      /\ bounds' = Extended(kept, times, revision, actual) /\ Marked(markers)
      /\ unseen' = unseen \cup {[at |-> t, revision |-> published'] : t \in times}
  BY <1>2 DEF Wrote
<1>4. checkpoint' = checkpoint
  BY DEF Write
<1>5. TypeOK /\ BoundsOK /\ UnseenOK /\ EventsCanonical
  BY DEF Inv
<1>6. rows \in SUBSET (Devices \X Times)
  OBVIOUS
<1>7. news \subseteq {[device |-> d, id |-> id, at |-> at]}
      /\ news \subseteq [device : Devices, id : EventIds, at : Times]
  OBVIOUS
<1> HIDE DEF rows, news
<1>8. times \in SUBSET Times
  BY <1>6
<1>9. changed \in SUBSET Times
  BY <1>5, <1>7, <1>8 DEF TypeOK
<1>10. DOMAIN kept = DOMAIN samples \cup rows /\ \A k \in DOMAIN kept : kept[k] \in Values
  BY <1>5 DEF TypeOK
<1>11. actual \in [Devices -> Nat]
  BY <1>5 DEF TypeOK
<1>12. Extended(kept, times, revision, actual) \in Known
       /\ Extended(kept, times, revision, actual).revisions = actual
       /\ Exact(Extended(kept, times, revision, actual), kept)
  <2>1. TimesOf(kept) = times \cup TimesOf(samples)
    BY DEF TimesOf
  <2>2. actual[d] = revision[d] + 1
    BY <1>5 DEF TypeOK
  <2>3. DOMAIN kept \subseteq Devices \X Times
    BY <1>5, <1>6 DEF TypeOK
  <2> HIDE DEF times, kept, actual
  <2> QED
    BY <1>5, <1>8, <1>11, <2>1, <2>2, <2>3, Extending
<1> HIDE DEF times, changed, kept, actual
<1>13. IsFiniteSet(DOMAIN markers) /\ ProperMarkers(markers)
  <2>1. IsFiniteSet(DOMAIN markers)
    BY <1>8, <1>9, HourMarkersOf, GasMarkersOf, FS_Union
  <2>2. DOMAIN markers \subseteq Keys
    BY <1>8, <1>9, HourMarkersOf, GasMarkersOf
  <2>3. ASSUME NEW k \in DOMAIN markers, k[1] # "telemetry"
        PROVE  markers[k] \in Times \X Times
    <3>1. k \notin DOMAIN HourMarkers(changed)
      BY <1>9, <2>3, HourMarkersOf
    <3>2. k \in DOMAIN GasMarkers(times) /\ markers[k] = GasMarkers(times)[k]
      BY <2>3, <3>1
    <3> QED
      BY <1>8, <3>2, GasMarkersOf
  <2> QED
    BY <2>1, <2>2, <2>3 DEF ProperMarkers
<1>14. \A t \in times : \E scope \in Scopes :
          /\ <<scope, Hour(t)>> \in DOMAIN markers
          /\ Covers(markers[<<scope, Hour(t)>>], t)
  <2> SUFFICES ASSUME NEW t \in times
               PROVE  /\ <<"telemetry-gas", Hour(t)>> \in DOMAIN markers
                      /\ Covers(markers[<<"telemetry-gas", Hour(t)>>], t)
    BY DEF Scopes
  <2> DEFINE key == <<"telemetry-gas", Hour(t)>>
  <2>1. key \in DOMAIN GasMarkers(times)
    BY <1>8, GasMarkersOf
  <2>2. Covers(GasMarkers(times)[key], t)
    BY <1>8, <2>1, GasMarkersOf
  <2>3. markers[key] = GasMarkers(times)[key]
    BY <2>1
  <2> QED
    BY <2>1, <2>2, <2>3
<1> HIDE DEF markers
<1>15. /\ published' \in Nat /\ checkpoint' \in 0 .. published' /\ unseen' \subseteq Changes
       /\ DOMAIN journal' \subseteq Keys
       /\ \A k \in DOMAIN journal' : journal'[k].revision \in Nat /\ journal'[k].payload \in Payloads
       /\ UnseenOK'
  BY <1>3, <1>4, <1>5, <1>8, <1>13, <1>14, Covering
<1>16. TypeOK'
  <2>1. DOMAIN samples' \subseteq Devices \X Times /\ \A k \in DOMAIN samples' : samples'[k] \in Values
    BY <1>3, <1>5, <1>6, <1>10 DEF TypeOK
  <2>2. events' \subseteq [device : Devices, id : EventIds, at : Times]
    BY <1>3, <1>5, <1>7 DEF TypeOK, Moved
  <2> QED
    BY <1>3, <1>11, <1>12, <1>15, <2>1, <2>2 DEF TypeOK
<1>17. BoundsOK'
  BY <1>3, <1>12, <1>16, BoundsAfter
<1>18. EventsCanonical'
  BY <1>3, <1>5, <1>7 DEF EventsCanonical, Moved
<1> QED
  BY <1>15, <1>16, <1>17, <1>18 DEF Inv

LEMMA WriteBeforeStep ==
    ASSUME MaxTime \in Nat, Inv, NEW d \in Devices, WriteBefore(d)
    PROVE  Inv'
<1>1. PICK t \in Times, value \in Values :
        /\ samples' = [k \in DOMAIN samples \cup {<<d, t>>} |->
                          IF k = <<d, t>> THEN value ELSE samples[k]]
        /\ revision' = [revision EXCEPT ![d] = @ + 1]
        /\ Marked([k \in {<<"telemetry", Hour(t)>>} |-> Broad])
        /\ unseen' = unseen \cup {[at |-> t, revision |-> published']}
  BY DEF WriteBefore
<1>2. events' = events /\ bounds' = bounds /\ checkpoint' = checkpoint
  BY DEF WriteBefore
<1>3. TypeOK /\ BoundsOK /\ UnseenOK /\ EventsCanonical
  BY DEF Inv
<1> DEFINE markers == [k \in {<<"telemetry", Hour(t)>>} |-> Broad]
<1>4. IsFiniteSet(DOMAIN markers) /\ ProperMarkers(markers)
  <2>1. "telemetry" \in Scopes /\ Hour(t) \in Hours
    BY DEF Scopes, Hours
  <2>2. DOMAIN markers \subseteq Keys
    BY <2>1 DEF Keys
  <2>3. \A k \in DOMAIN markers : markers[k] = Broad
    OBVIOUS
  <2>4. IsFiniteSet(DOMAIN markers)
    BY FS_Singleton
  <2> QED
    BY <2>2, <2>3, <2>4 DEF ProperMarkers
<1>5. \A u \in {t} : \E scope \in Scopes :
          /\ <<scope, Hour(u)>> \in DOMAIN markers
          /\ Covers(markers[<<scope, Hour(u)>>], u)
  BY DEF Scopes, Covers
<1>6. Marked(markers) /\ unseen' = unseen \cup {[at |-> u, revision |-> published'] : u \in {t}}
  BY <1>1
<1> HIDE DEF markers
<1>7. /\ published' \in Nat /\ checkpoint' \in 0 .. published' /\ unseen' \subseteq Changes
      /\ DOMAIN journal' \subseteq Keys
      /\ \A k \in DOMAIN journal' : journal'[k].revision \in Nat /\ journal'[k].payload \in Payloads
      /\ UnseenOK'
  <2>1. {t} \in SUBSET Times
    OBVIOUS
  <2> QED
    BY <1>2, <1>3, <1>4, <1>5, <1>6, <2>1, Covering
<1>8. TypeOK'
  BY <1>1, <1>2, <1>3, <1>7 DEF TypeOK
\* The revision of the device has gone past those of the bounds.
<1>9. BoundsOK'
  <2>1. ASSUME bounds # Absent
        PROVE  /\ \A x \in Devices : bounds.revisions[x] <= revision'[x]
               /\ bounds.revisions # revision'
    <3>1. bounds.revisions \in [Devices -> Nat] /\ revision \in [Devices -> Nat]
      BY <1>3, <2>1 DEF TypeOK, Known
    <3>2. \A x \in Devices : bounds.revisions[x] <= revision[x]
      BY <1>3, <2>1 DEF BoundsOK
    <3> QED
      BY <1>1, <3>1, <3>2
  <2> QED
    BY <1>2, <2>1 DEF BoundsOK
<1>10. EventsCanonical'
  BY <1>2, <1>3 DEF EventsCanonical
<1> QED
  BY <1>7, <1>8, <1>9, <1>10 DEF Inv

LEMMA PurgeStep ==
    ASSUME Inv, Purge
    PROVE  Inv'
<1>1. TypeOK'
  BY DEF Inv, Purge, TypeOK, Restrict
<1>2. BoundsOK'
  BY DEF Purge, BoundsOK, Absent
<1>3. UnseenOK'
  BY DEF Inv, Purge, UnseenOK, Unconsumed
<1>4. EventsCanonical'
  BY DEF Inv, Purge, EventsCanonical
<1> QED
  BY <1>1, <1>2, <1>3, <1>4 DEF Inv

LEMMA ReadBoundsStep ==
    ASSUME MaxTime \in Nat, Inv, ReadBounds
    PROVE  Inv'
<1>1. bounds' = Bootstrap(samples, revision) /\ samples' = samples /\ revision' = revision
  BY DEF ReadBounds, Ensured
<1>2. /\ bounds' \in Known /\ bounds'.revisions = revision' /\ Exact(bounds', samples')
  BY <1>1, Bootstrapping DEF Inv, TypeOK
<1>3. TypeOK'
  BY <1>2 DEF Inv, ReadBounds, TypeOK
<1>4. BoundsOK'
  BY <1>2, <1>3, BoundsAfter
<1>5. UnseenOK'
  BY DEF Inv, ReadBounds, UnseenOK, Unconsumed
<1>6. EventsCanonical'
  BY DEF Inv, ReadBounds, EventsCanonical
<1> QED
  BY <1>3, <1>4, <1>5, <1>6 DEF Inv

LEMMA AcknowledgeStep ==
    ASSUME Inv, Acknowledge
    PROVE  Inv'
<1>1. PICK r \in {published} \cup {u.revision : u \in unseen} :
         checkpoint' = r /\ unseen' = {u \in unseen : u.revision > r}
  BY DEF Acknowledge
<1>2. /\ samples' = samples /\ events' = events /\ revision' = revision /\ bounds' = bounds
      /\ journal' = journal /\ published' = published
  BY DEF Acknowledge
<1>3. /\ published \in Nat /\ r \in Nat /\ r <= published
      /\ \A u \in unseen : u.revision \in Nat /\ u.revision <= published
      /\ \A k \in DOMAIN journal : journal[k].revision \in Nat
  BY DEF Inv, TypeOK, UnseenOK, Changes
<1>4. TypeOK'
  BY <1>1, <1>2, <1>3 DEF Inv, TypeOK
<1>5. BoundsOK'
  BY <1>2 DEF Inv, BoundsOK
<1>6. ASSUME NEW u \in unseen'
      PROVE  /\ checkpoint' < u.revision /\ u.revision <= published'
             /\ \E scope \in Scopes :
                   /\ Unconsumed(<<scope, Hour(u.at)>>)'
                   /\ Covers(journal'[<<scope, Hour(u.at)>>].payload, u.at)
                   /\ \A v \in unseen' : v.revision < u.revision
                                            => v.revision < journal'[<<scope, Hour(u.at)>>].revision
  <2>1. u \in unseen /\ u.revision > r
    BY <1>1
  <2>2. PICK scope \in Scopes :
           /\ Unconsumed(<<scope, Hour(u.at)>>)
           /\ Covers(journal[<<scope, Hour(u.at)>>].payload, u.at)
           /\ \A v \in unseen : v.revision < u.revision
                                   => v.revision < journal[<<scope, Hour(u.at)>>].revision
    BY <2>1 DEF Inv, UnseenOK
  \* It is an older change that was acknowledged.
  <2>3. r < journal[<<scope, Hour(u.at)>>].revision
    <3>1. \E v \in unseen : v.revision = r
      BY <1>1, <1>3, <2>1
    <3> QED
      BY <2>1, <2>2, <3>1, <1>3
  <2> QED
    BY <1>1, <1>2, <1>3, <2>1, <2>2, <2>3 DEF Unconsumed
<1>7. UnseenOK'
  BY <1>6 DEF UnseenOK
<1>8. EventsCanonical'
  BY <1>2 DEF Inv, EventsCanonical
<1> QED
  BY <1>4, <1>5, <1>7, <1>8 DEF Inv

-----------------------------------------------------------------------------
(* The theorems about the telemetry.                                       *)

\* Nothing but a finite range of times is assumed of the history.
LEMMA InvInit ==
    ASSUME MaxTime \in Nat, Init
    PROVE  Inv
BY DEF Init, Inv, TypeOK, BoundsOK, UnseenOK, EventsCanonical, NoMarkers

LEMMA InvStep ==
    ASSUME MaxTime \in Nat, Inv, [Next]_vars
    PROVE  Inv'
<1>1. CASE UNCHANGED vars
  BY <1>1 DEF vars, Inv, TypeOK, BoundsOK, UnseenOK, Unconsumed, EventsCanonical
<1>2. ASSUME NEW d \in Devices, Write(d) PROVE Inv'
  BY <1>2, WriteStep
<1>3. ASSUME NEW d \in Devices, WriteBefore(d) PROVE Inv'
  BY <1>3, WriteBeforeStep
<1>4. CASE Purge
  BY <1>4, PurgeStep
<1>5. CASE ReadBounds
  BY <1>5, ReadBoundsStep
<1>6. CASE Acknowledge
  BY <1>6, AcknowledgeStep
<1> QED
  BY <1>1, <1>2, <1>3, <1>4, <1>5, <1>6 DEF Next

LEMMA InvAlways == MaxTime \in Nat => (Spec => []Inv)
<1> SUFFICES ASSUME MaxTime \in Nat PROVE Spec => []Inv
  OBVIOUS
<1>1. Init => Inv
  BY InvInit
<1>2. Inv /\ [Next]_vars => Inv'
  BY InvStep
<1> QED
  BY <1>1, <1>2, PTL DEF Spec

\* Whichever release writes, whatever is repeated, deleted or imported, and whenever a reader comes,
\* sample_bounds tells the first and the last of the samples (sample_bounds, _write_window_batch).
THEOREM BoundsTold == MaxTime \in Nat => (Spec => []BoundsExact)
<1> SUFFICES ASSUME MaxTime \in Nat PROVE Spec => []BoundsExact
  OBVIOUS
<1>1. ASSUME Inv PROVE BoundsExact
  <2>1. TypeOK /\ BoundsOK
    BY <1>1 DEF Inv
  <2>2. Exact(Ensured, samples)
    <3>1. CASE bounds # Absent /\ bounds.revisions = revision
      BY <2>1, <3>1 DEF Ensured, BoundsOK
    <3>2. CASE ~(bounds # Absent /\ bounds.revisions = revision)
      BY <2>1, <3>2, Bootstrapping DEF Ensured, TypeOK
    <3> QED
      BY <3>1, <3>2
  <2>3. TimesOf(samples) # {} => Ensured.first # NoTime
    <3>1. TimesOf(samples) \in SUBSET Times
      BY <2>1, TimesOfTyped DEF TypeOK
    <3>2. TimesOf(samples) # {} => Min(TimesOf(samples)) \in Times
      BY <3>1, LeastTime
    <3> QED
      BY <2>2, <3>2 DEF Exact, Times, NoTime
  <2> QED
    BY <2>2, <2>3 DEF BoundsExact, Exact
<1> QED
  BY <1>1, InvAlways, PTL

\* A change of the calibration inputs that nobody has acknowledged lies inside what an unconsumed marker
\* says may have changed, wherever the publisher stopped (_record_publication_change).
THEOREM ChangesMarked == MaxTime \in Nat => (Spec => []MarkersCover)
<1> SUFFICES ASSUME MaxTime \in Nat PROVE Spec => []MarkersCover
  OBVIOUS
<1>1. ASSUME Inv PROVE MarkersCover
  BY <1>1 DEF Inv, UnseenOK, MarkersCover, Covers, Scopes
<1> QED
  BY <1>1, InvAlways, PTL

\* A source event keeps one row when its time is corrected (_write_window_batch).
THEOREM OneRowOfAnEvent == MaxTime \in Nat => (Spec => []EventsCanonical)
<1> SUFFICES ASSUME MaxTime \in Nat PROVE Spec => []EventsCanonical
  OBVIOUS
<1>1. Inv => EventsCanonical
  BY DEF Inv
<1> QED
  BY <1>1, InvAlways, PTL

-----------------------------------------------------------------------------
(* The newest of an archive.                                               *)

Item(rs, i) == [id |-> i, end |-> rs[i].end, generated |-> rs[i].generated]
Leads(rs, i) == \A j \in DOMAIN rs \ {i} : Later(Item(rs, i), Item(rs, j))

LEMMA LeaderExists ==
    ASSUME Sized, NEW rs, Archive(rs), DOMAIN rs # {}
    PROVE  \E i \in DOMAIN rs : Leads(rs, i)
<1> DEFINE D == DOMAIN rs
           time == [i \in D |-> rs[i].generated]
           G == {time[i] : i \in D}
           g == Max(G)
           D1 == {i \in D : rs[i].generated = g}
           E == {rs[i].end : i \in D1}
           e == Min(E)
           D2 == {i \in D1 : rs[i].end = e}
           b == Min(D2)
<1>1. \A i \in D : i \in Nat /\ rs[i].generated \in Nat /\ rs[i].end \in Nat
  BY DEF Sized, Archive, Stored
<1>2. g \in G /\ \A x \in G : x <= g
  <2>1. IsFiniteSet(D)
    BY DEF Archive
  <2>2. IsFiniteSet(G)
    BY <2>1, FiniteImage
  <2>3. G \in SUBSET Nat /\ G # {}
    BY <1>1
  <2> QED
    BY <2>2, <2>3, GreatestValue
<1>3. D1 # {} /\ \A i \in D : rs[i].generated <= g
  BY <1>2
<1> HIDE DEF g
<1>4. e \in E /\ \A x \in E : e <= x
  <2>1. E \in SUBSET Int /\ E # {} /\ \A x \in E : 0 <= x
    BY <1>1, <1>3
  <2> HIDE DEF E
  <2> QED
    BY <2>1, MinValue
<1>5. D2 # {} /\ \A i \in D1 : e <= rs[i].end
  BY <1>4
<1> HIDE DEF e
<1>6. b \in D2 /\ \A x \in D2 : b <= x
  <2>1. D2 \in SUBSET Int /\ D2 # {} /\ \A x \in D2 : 0 <= x
    BY <1>1, <1>5
  <2> HIDE DEF D2
  <2> QED
    BY <2>1, MinValue
<1> HIDE DEF b
<1>7. b \in D /\ rs[b].generated = g /\ rs[b].end = e
  BY <1>6
<1>8. ASSUME NEW j \in D \ {b}
      PROVE  Later(Item(rs, b), Item(rs, j))
  <2>1. rs[j].generated <= g /\ (rs[j].generated = g => e <= rs[j].end)
        /\ (rs[j].generated = g /\ rs[j].end = e => b <= j)
    BY <1>3, <1>5, <1>6
  <2> QED
    BY <1>1, <1>7, <2>1 DEF Later, Item
<1> QED
  BY <1>7, <1>8 DEF Leads

LEMMA NewestLeads ==
    ASSUME Sized, NEW rs, Archive(rs), NEW i \in DOMAIN rs, Leads(rs, i)
    PROVE  Newest(rs) = [id |-> i, generated |-> rs[i].generated]
<1>1. ASSUME NEW j \in DOMAIN rs, Leads(rs, j)
      PROVE  j = i
  <2>1. \A x \in {i, j} : x \in Nat /\ rs[x].generated \in Nat /\ rs[x].end \in Nat
    BY DEF Sized, Archive, Stored
  <2>2. SUFFICES ASSUME j # i PROVE FALSE
    OBVIOUS
  <2>3. Later(Item(rs, i), Item(rs, j)) /\ Later(Item(rs, j), Item(rs, i))
    BY <1>1, <2>2 DEF Leads
  <2> QED
    BY <2>1, <2>3 DEF Later, Item
<1>2. i = CHOOSE k \in DOMAIN rs : Leads(rs, k)
  BY <1>1
<1>3. Newest(rs) = LET best == CHOOSE k \in DOMAIN rs : Leads(rs, k)
                   IN  [id |-> best, generated |-> rs[best].generated]
  BY DEF Newest, Leads, Item
<1> QED
  BY <1>2, <1>3

-----------------------------------------------------------------------------
(* Listings.                                                               *)

LEMMA ListedFinite ==
    ASSUME NEW rs, Archive(rs), NEW rows, ListedOK(rows, rs)
    PROVE  /\ IsFiniteSet(Listed(rows)) /\ Listed(rows) \subseteq Ids
           /\ Listed(rows) \subseteq DOMAIN rs
           /\ (rows = {} <=> Listed(rows) = {})
<1>1. Listed(rows) \subseteq DOMAIN rs
  BY DEF Listed, ListedOK
<1>2. IsFiniteSet(Listed(rows))
  BY <1>1, FS_Subset DEF Archive
<1> QED
  BY <1>1, <1>2 DEF Listed, Archive

LEMMA AfterValue ==
    ASSUME Sized, NEW rs, Archive(rs), NEW rows, ListedOK(rows, rs)
    PROVE  /\ After(rows) \in Int
           /\ \A row \in rows : row.id <= After(rows)
           /\ \A i \in Nat : (\A row \in rows : row.id < i) => After(rows) < i
<1>1. CASE rows = {}
  BY <1>1 DEF After
<1>2. CASE rows # {}
  <2>1. Listed(rows) \in SUBSET Nat /\ Listed(rows) # {} /\ IsFiniteSet(Listed(rows))
    BY <1>2, ListedFinite DEF Sized
  <2>2. Max(Listed(rows)) \in Listed(rows) /\ \A x \in Listed(rows) : x <= Max(Listed(rows))
    BY <2>1, GreatestValue
  <2>3. After(rows) = Max(Listed(rows))
    BY <1>2 DEF After, Listed
  <2>4. \A row \in rows : row.id \in Listed(rows)
    BY DEF Listed
  <2>5. PICK row \in rows : row.id = After(rows)
    BY <2>2, <2>3 DEF Listed
  <2> QED
    BY <2>1, <2>2, <2>3, <2>4, <2>5
<1> QED
  BY <1>1, <1>2

\* A page is a beginning of what follows the rows listed, and all of it when it is short.
LEMMA Paging ==
    ASSUME Sized, Archive(reports), NEW rows, ListedOK(rows, reports)
    PROVE  /\ \A row \in Page(rows) :
                 row.id \in DOMAIN reports /\ row.id > After(rows) /\ row = Row(row.id)
           /\ \A i \in DOMAIN reports : i > After(rows) =>
                 Row(i) \in Page(rows) \/ \A row \in Page(rows) : row.id < i
           /\ LastPage(Page(rows)) => \A i \in DOMAIN reports : i > After(rows) => Row(i) \in Page(rows)
<1> DEFINE rest == {i \in DOMAIN reports : i > After(rows)}
           before(i) == {j \in rest : j < i}
           chosen == {i \in rest : Cardinality(before(i)) < PageSize}
<1>1. Page(rows) = {Row(i) : i \in chosen}
  BY DEF Page
<1>2. rest \subseteq DOMAIN reports /\ rest \subseteq Nat /\ After(rows) \in Int
  BY AfterValue DEF Archive, Sized
<1>3. IsFiniteSet(rest)
  BY <1>2, FS_Subset DEF Archive
<1>4. \A i : IsFiniteSet(before(i)) /\ Cardinality(before(i)) \in Nat
  <2>1. \A i : before(i) \in SUBSET rest
    OBVIOUS
  <2> HIDE DEF before
  <2>2. \A i : IsFiniteSet(before(i))
    BY <1>3, <2>1, FS_Subset
  <2> QED
    BY <2>2, FS_CardinalityType
<1>5. \A i : Row(i).id = i
  BY DEF Row
<1>6. ASSUME NEW i \in rest, NEW k \in chosen, i < k
      PROVE  i \in chosen
  <2>1. before(i) \in SUBSET before(k) /\ k \in rest
    BY <1>2, <1>6
  <2>2. Cardinality(before(i)) <= Cardinality(before(k)) /\ Cardinality(before(k)) < PageSize
    <3> HIDE DEF before
    <3> QED
      BY <1>4, <1>6, <2>1, FS_Subset DEF chosen
  <2>3. Cardinality(before(i)) < PageSize
    <3> HIDE DEF before
    <3> QED
      BY <1>4, <2>2 DEF Sized
  <2> QED
    BY <2>3
<1>7. ASSUME LastPage(Page(rows)), NEW i \in rest
      PROVE  i \in chosen
  <2> SUFFICES ASSUME rest \ chosen # {} PROVE FALSE
    OBVIOUS
  <2> DEFINE least == Min(rest \ chosen)
  <2>1. least \in rest \ chosen /\ \A x \in rest \ chosen : least <= x
    <3>1. rest \ chosen \in SUBSET Int /\ \A x \in rest \ chosen : 0 <= x
      BY <1>2
    <3> HIDE DEF rest, chosen
    <3> QED
      BY <3>1, MinValue
  <2> HIDE DEF least
  <2>2. before(least) \in SUBSET chosen
    BY <1>2, <2>1
  <2>3. ~ (Cardinality(before(least)) < PageSize)
    BY <2>1
  <2>4. IsFiniteSet(chosen) /\ Cardinality(chosen) \in Nat
    <3>1. chosen \in SUBSET rest
      OBVIOUS
    <3> HIDE DEF chosen, rest
    <3> QED
      BY <1>3, <3>1, FS_Subset, FS_CardinalityType
  <2>5. Cardinality(before(least)) <= Cardinality(chosen)
    <3> HIDE DEF before, chosen
    <3> QED
      BY <2>2, <2>4, FS_Subset
  <2>6. Cardinality(Page(rows)) = Cardinality(chosen)
    <3> DEFINE f == [x \in chosen |-> Row(x)]
    <3> HIDE DEF chosen
    <3>1. f \in Bijection(chosen, Page(rows))
      BY <1>1, <1>5 DEF Bijection, Injection, Surjection, IsInjective
    <3>2. ExistsBijection(chosen, Page(rows))
      BY <3>1 DEF ExistsBijection
    <3> QED
      BY <2>4, <3>2, FS_Bijection
  <2>7. Cardinality(chosen) < PageSize
    BY <1>7, <2>6 DEF LastPage
  <2> QED
    <3> HIDE DEF before, chosen
    <3> QED
      BY <1>4, <2>3, <2>4, <2>5, <2>7 DEF Sized
<1>8. ASSUME NEW row \in Page(rows)
      PROVE  row.id \in chosen /\ row = Row(row.id)
  BY <1>1, <1>5
<1>9. ASSUME NEW i \in rest, i \notin chosen, NEW row \in Page(rows)
      PROVE  row.id < i
  <2>1. row.id \in chosen /\ row.id \in rest
    BY <1>8
  <2>2. ~ (i < row.id) /\ i # row.id
    BY <1>6, <1>9, <2>1
  <2> QED
    BY <1>2, <2>1, <2>2
<1>10. \A i \in chosen : Row(i) \in Page(rows)
  BY <1>1
<1> QED
  <2>1. \A row \in Page(rows) :
           row.id \in DOMAIN reports /\ row.id > After(rows) /\ row = Row(row.id)
    BY <1>8
  <2>2. \A i \in DOMAIN reports : i > After(rows) <=> i \in rest
    OBVIOUS
  <2> HIDE DEF rest, chosen
  <2> QED
    BY <1>7, <1>9, <1>10, <2>1, <2>2

LEMMA ListedMore ==
    ASSUME Sized, Archive(reports), NEW rows, ListedOK(rows, reports)
    PROVE  ListedOK(rows \cup Page(rows), reports)
<1>1. \A row \in Page(rows) :
         row.id \in DOMAIN reports /\ row.id > After(rows) /\ row = Row(row.id)
  BY Paging
<1>2. \A row \in Page(rows) : row \in [id : Ids, end : Ends, revision : Nat]
                              /\ row.revision = reports[row.id].revision /\ row.end = reports[row.id].end
  BY <1>1 DEF Row, Archive, Stored
<1>3. ASSUME NEW a \in rows, NEW b \in Page(rows)
      PROVE  a.id # b.id
  <2>1. a.id <= After(rows) /\ b.id > After(rows) /\ After(rows) \in Int
    BY <1>1, AfterValue
  <2>2. a.id \in Nat /\ b.id \in Nat
    BY <1>2 DEF Sized, ListedOK
  <2> QED
    BY <2>1, <2>2
<1>4. \A a, b \in Page(rows) : a.id = b.id => a = b
  BY <1>1
<1>5. \A a, b \in rows \cup Page(rows) : a.id = b.id => a = b
  BY <1>3, <1>4 DEF ListedOK
<1>6. \A row \in rows \cup Page(rows) :
         /\ row.id \in DOMAIN reports /\ row.revision <= reports[row.id].revision
         /\ row.revision = reports[row.id].revision => row.end = reports[row.id].end
  <2>1. \A row \in Page(rows) : reports[row.id].revision \in Nat
    BY <1>1 DEF Archive, Stored
  <2> QED
    BY <1>1, <1>2, <2>1 DEF ListedOK
<1> QED
  BY <1>2, <1>5, <1>6 DEF ListedOK

\* What was listed stays so while the table grows.
LEMMA ListedLater ==
    ASSUME NEW rs, Archive(rs), NEW rt, Archive(rt), Grown(rs, rt), NEW rows, ListedOK(rows, rs)
    PROVE  ListedOK(rows, rt)
<1>1. ASSUME NEW row \in rows
      PROVE  /\ row.id \in DOMAIN rt /\ row.revision <= rt[row.id].revision
             /\ row.revision = rt[row.id].revision => row.end = rt[row.id].end
  <2>1. /\ row.id \in DOMAIN rs /\ row.revision <= rs[row.id].revision
        /\ row.revision = rs[row.id].revision => row.end = rs[row.id].end
        /\ row.revision \in Nat
    BY DEF ListedOK
  <2>2. /\ row.id \in DOMAIN rt /\ rs[row.id].revision <= rt[row.id].revision
        /\ rs[row.id].revision = rt[row.id].revision => rt[row.id] = rs[row.id]
    BY <2>1 DEF Grown
  <2>3. rs[row.id].revision \in Nat /\ rt[row.id].revision \in Nat
    BY <2>1, <2>2 DEF Archive, Stored
  <2> QED
    BY <2>1, <2>2, <2>3
<1> QED
  BY <1>1 DEF ListedOK

LEMMA GrownOn ==
    ASSUME NEW rs, Archive(rs), NEW rt, Archive(rt), NEW ru, Archive(ru), Grown(rs, rt), Grown(rt, ru)
    PROVE  Grown(rs, ru)
<1>1. ASSUME NEW i \in DOMAIN rs
      PROVE  /\ i \in DOMAIN ru /\ rs[i].revision <= ru[i].revision
             /\ rs[i].revision = ru[i].revision => ru[i] = rs[i]
  <2>1. i \in DOMAIN rt /\ rs[i].revision <= rt[i].revision
        /\ (rs[i].revision = rt[i].revision => rt[i] = rs[i])
    BY DEF Grown
  <2>2. i \in DOMAIN ru /\ rt[i].revision <= ru[i].revision
        /\ (rt[i].revision = ru[i].revision => ru[i] = rt[i])
    BY <2>1 DEF Grown
  <2>3. rs[i].revision \in Nat /\ rt[i].revision \in Nat /\ ru[i].revision \in Nat
    BY <2>1, <2>2 DEF Archive, Stored
  <2> QED
    BY <2>1, <2>2, <2>3
<1> QED
  BY <1>1 DEF Grown

LEMMA UnlistedLater ==
    ASSUME NEW rs, Archive(rs), NEW rt, Archive(rt), Grown(rs, rt), NEW rows, ListedOK(rows, rs),
           NEW i, Unlisted(i, rows, rs)
    PROVE  Unlisted(i, rows, rt)
<1>1. i \in DOMAIN rs /\ i \in DOMAIN rt /\ rs[i].revision <= rt[i].revision
  BY DEF Unlisted, Grown
<1>2. rs[i].revision \in Nat /\ rt[i].revision \in Nat
  BY <1>1 DEF Archive, Stored
<1>3. \A row \in rows : row.revision \in Nat
  BY DEF ListedOK
<1> QED
  BY <1>1, <1>2, <1>3 DEF Unlisted

-----------------------------------------------------------------------------
(* The steps of the search.                                                *)

LEMMA SaveReportStep ==
    ASSUME Sized, SearchInv, NEW id \in Ids, NEW end \in Ends, NEW generated \in Moments,
           NEW projects \in BOOLEAN, SaveReport(id, end, generated, projects)
    PROVE  SearchInv'
<1> DEFINE old == IF id \in DOMAIN reports THEN reports[id].revision ELSE 0
           new == [end |-> end, generated |-> generated, revision |-> old + 1]
<1>1. /\ reports' = Set(reports, id, new)
      /\ projected' = IF projects THEN Set(projected, id, new) ELSE projected
      /\ newest' = IF step = "idle" THEN newest ELSE newest \cup {Newest(reports')}
      /\ UNCHANGED <<searches, step, catalogue, again, stamps, fetched, answer>>
  BY DEF SaveReport
<1>2. Archive(reports)
  BY DEF SearchInv, SearchTypeOK
<1>3. old \in Nat /\ (id \in DOMAIN reports => reports[id].revision = old)
  BY <1>2 DEF Archive, Stored
<1> HIDE DEF old
<1>4. new \in Stored /\ new.revision = old + 1
  BY <1>3 DEF Stored
<1> HIDE DEF new
<1>5. DOMAIN reports' = DOMAIN reports \cup {id} /\ reports'[id] = new
      /\ \A i \in DOMAIN reports \ {id} : reports'[i] = reports[i]
  BY <1>1 DEF Set
<1>6. Archive(reports')
  <2>1. IsFiniteSet(DOMAIN reports')
    BY <1>2, <1>5, FS_AddElement DEF Archive
  <2> QED
    BY <1>2, <1>4, <1>5, <2>1 DEF Archive
<1>7. Grown(reports, reports')
  <2>1. \A i \in DOMAIN reports : reports[i].revision \in Nat
    BY <1>2 DEF Archive, Stored
  <2> QED
    BY <1>3, <1>4, <1>5, <2>1 DEF Grown
<1>8. DOMAIN projected' \subseteq DOMAIN projected \cup {id}
      /\ \A i \in DOMAIN projected' :
            \/ projected'[i] = new /\ i = id
            \/ i \in DOMAIN projected /\ projected'[i] = projected[i]
  BY <1>1 DEF Set
<1>9. SearchTypeOK'
  <2>1. ListedOK(catalogue, reports') /\ ListedOK(again, reports')
    BY <1>2, <1>6, <1>7, ListedLater DEF SearchInv, SearchTypeOK
  <2>2. ASSUME NEW i \in DOMAIN projected'
        PROVE  /\ i \in DOMAIN reports' /\ projected'[i].revision \in Nat
               /\ projected'[i].revision <= reports'[i].revision
    <3>1. CASE projected'[i] = new /\ i = id
      BY <1>3, <1>4, <1>5, <3>1
    <3>2. CASE i \in DOMAIN projected /\ projected'[i] = projected[i]
      <4>1. /\ i \in DOMAIN reports /\ projected[i].revision \in Nat
            /\ projected[i].revision <= reports[i].revision
        BY <3>2 DEF SearchInv, SearchTypeOK
      <4>2. i \in DOMAIN reports' /\ reports[i].revision <= reports'[i].revision
        BY <1>7, <4>1 DEF Grown
      <4>3. reports[i].revision \in Nat /\ reports'[i].revision \in Nat
        BY <1>2, <1>6, <4>1, <4>2 DEF Archive, Stored
      <4> QED
        BY <3>2, <4>1, <4>2, <4>3
    <3> QED
      BY <1>8, <3>1, <3>2
  <2> QED
    BY <1>1, <1>6, <2>1, <2>2 DEF SearchInv, SearchTypeOK
<1>10. ProjectedOK'
  <2>1. ASSUME NEW i \in DOMAIN projected', projected'[i].revision = reports'[i].revision
        PROVE  projected'[i].generated = reports'[i].generated /\ projected'[i].end = reports'[i].end
    <3>1. CASE projected'[i] = new /\ i = id
      BY <1>5, <3>1
    <3>2. CASE i \in DOMAIN projected /\ projected'[i] = projected[i]
      <4>1. /\ i \in DOMAIN reports /\ projected[i].revision \in Nat
            /\ projected[i].revision <= reports[i].revision
        BY <3>2 DEF SearchInv, SearchTypeOK
      <4>2. /\ reports[i].revision <= reports'[i].revision
            /\ reports[i].revision = reports'[i].revision => reports'[i] = reports[i]
            /\ reports[i].revision \in Nat
        BY <1>2, <1>7, <4>1 DEF Grown, Archive, Stored
      <4>3. reports'[i] = reports[i]
        BY <2>1, <3>2, <4>1, <4>2
      <4> QED
        BY <2>1, <3>2, <4>3 DEF SearchInv, ProjectedOK
    <3> QED
      BY <1>8, <3>1, <3>2
  <2>2. ASSUME fetched # <<>>, fetched[1].revision = reports'[fetched[1].id].revision
        PROVE  fetched[2] = reports'[fetched[1].id].generated
    <3>1. fetched[1] \in catalogue
      BY <2>2 DEF SearchInv, SearchTypeOK
    <3> DEFINE i == fetched[1].id
    <3>2. /\ i \in DOMAIN reports /\ fetched[1].revision \in Nat
          /\ fetched[1].revision <= reports[i].revision
      BY <3>1 DEF SearchInv, SearchTypeOK, ListedOK
    <3>3. /\ reports[i].revision <= reports'[i].revision
          /\ reports[i].revision = reports'[i].revision => reports'[i] = reports[i]
          /\ reports[i].revision \in Nat
      BY <1>2, <1>7, <3>2 DEF Grown, Archive, Stored
    <3>4. reports'[i] = reports[i]
      BY <2>2, <3>2, <3>3
    <3> QED
      BY <2>2, <3>4 DEF SearchInv, ProjectedOK
  <2> QED
    BY <1>1, <2>1, <2>2 DEF ProjectedOK
<1>11. StagesOK'
  BY <1>1 DEF SearchInv, StagesOK
<1>12. SearchOK'
  <2> SUFFICES ASSUME step \in {"cached", "fill", "compare", "done"}
               PROVE  Noticed' \/ \E snap : Snapshot(snap)'
    BY <1>1 DEF SearchOK
  <2>1. CASE Noticed
    <3>1. PICK i \in DOMAIN reports :
             /\ Unlisted(i, catalogue, reports)
             /\ i > After(again) \/ \E row \in again : row.id = i /\ row \notin catalogue
      BY <2>1 DEF Noticed
    <3>2. Unlisted(i, catalogue, reports') /\ i \in DOMAIN reports'
      BY <1>2, <1>6, <1>7, <3>1, UnlistedLater DEF SearchInv, SearchTypeOK, Unlisted
    <3> QED
      BY <1>1, <2>1, <3>1, <3>2 DEF Noticed
  <2>2. CASE \E snap : Snapshot(snap)
    <3>1. PICK snap : Snapshot(snap)
      BY <2>2
    <3>2. Grown(snap, reports')
      BY <1>2, <1>6, <1>7, <3>1, GrownOn DEF Snapshot
    <3>3. ASSUME NEW i \in DOMAIN snap, i \in DOMAIN projected', projected'[i].revision = snap[i].revision
          PROVE  projected'[i].generated = snap[i].generated
      <4>1. i \in DOMAIN reports /\ snap[i].revision <= reports[i].revision
            /\ snap[i].revision \in Nat /\ reports[i].revision \in Nat
        BY <1>2, <3>1 DEF Snapshot, Grown, Archive, Stored
      <4>2. ~ (projected'[i] = new /\ i = id)
        BY <1>3, <1>4, <3>3, <4>1
      <4>3. i \in DOMAIN projected /\ projected'[i] = projected[i]
        BY <1>8, <3>3, <4>2
      <4> QED
        BY <3>1, <3>3, <4>3 DEF Snapshot
    <3>4. Newest(snap) \in newest'
      BY <1>1, <3>1 DEF Snapshot
    <3>5. Snapshot(snap)'
      BY <1>1, <3>1, <3>2, <3>3, <3>4 DEF Snapshot
    <3> QED
      BY <3>5
  <2> QED
    BY <2>1, <2>2 DEF SearchInv, SearchOK
<1> QED
  BY <1>9, <1>10, <1>11, <1>12 DEF SearchInv

\* A search that is given up, or begins, has nothing to answer for yet.
LEMMA GiveUpStep ==
    ASSUME SearchInv, GiveUp
    PROVE  SearchInv'
<1>1. SearchTypeOK' /\ ProjectedOK'
  BY DEF GiveUp, SearchInv, SearchTypeOK, ProjectedOK
<1>2. StagesOK' /\ SearchOK'
  BY DEF GiveUp, StagesOK, SearchOK
<1> QED
  BY <1>1, <1>2 DEF SearchInv

LEMMA LatestReportStep ==
    ASSUME SearchInv, LatestReport
    PROVE  SearchInv'
<1>1. /\ step' = "list" /\ newest' = {Newest(reports)} /\ catalogue' = {} /\ again' = {}
      /\ stamps' = <<>> /\ fetched' = <<>> /\ answer' = None
      /\ reports' = reports /\ projected' = projected
  BY DEF LatestReport
<1>2. SearchTypeOK' /\ ProjectedOK'
  BY <1>1 DEF SearchInv, SearchTypeOK, ProjectedOK, ListedOK, Listed
<1>3. StagesOK' /\ SearchOK'
  BY <1>1 DEF StagesOK, SearchOK
<1> QED
  BY <1>2, <1>3 DEF SearchInv

\* Where the first listing ends, either it is the table of that moment or it lacks a report.
LEMMA ListPageStep ==
    ASSUME Sized, SearchInv, ListPage
    PROVE  SearchInv'
<1>1. /\ step = "list" /\ catalogue' = catalogue \cup Page(catalogue)
      /\ step' \in {"list", "compare", "cached"}
      /\ step' = "compare" => catalogue' = {}
      /\ step' = "cached" => catalogue' # {}
      /\ UNCHANGED <<reports, projected, again, stamps, fetched, answer, newest>>
  BY DEF ListPage
<1>2. Archive(reports) /\ ListedOK(catalogue', reports) /\ ListedOK(again, reports)
  BY <1>1, ListedMore DEF SearchInv, SearchTypeOK
<1>3. again = {} /\ DOMAIN stamps = {} /\ fetched = <<>> /\ answer = None /\ Newest(reports) \in newest
  BY <1>1 DEF SearchInv, StagesOK
<1>4. SearchTypeOK'
  BY <1>1, <1>2, <1>3 DEF SearchInv, SearchTypeOK
<1>5. ProjectedOK' /\ StagesOK'
  BY <1>1, <1>3 DEF SearchInv, ProjectedOK, StagesOK
<1>6. SearchOK'
  <2> SUFFICES ASSUME step' \in {"compare", "cached"}
               PROVE  Noticed' \/ \E snap : Snapshot(snap)'
    BY <1>1 DEF SearchOK
  <2>1. CASE \E i \in DOMAIN reports : Unlisted(i, catalogue', reports)
    <3>1. PICK i \in DOMAIN reports : Unlisted(i, catalogue', reports)
      BY <2>1
    <3>2. i > After(again)
      BY <1>2, <1>3 DEF After, Archive, Sized
    <3> QED
      BY <1>1, <3>1, <3>2 DEF Noticed
  <2>2. CASE \A i \in DOMAIN reports : ~ Unlisted(i, catalogue', reports)
    <3>1. ASSUME NEW i \in DOMAIN reports
          PROVE  \E row \in catalogue' : row.id = i /\ row.revision = reports[i].revision
      <4>1. PICK row \in catalogue' : row.id = i /\ ~ (row.revision < reports[i].revision)
        BY <2>2 DEF Unlisted
      <4>2. row.revision <= reports[i].revision /\ row.revision \in Nat /\ reports[i].revision \in Nat
        BY <1>2, <4>1 DEF ListedOK, Archive, Stored
      <4> QED
        BY <4>1, <4>2
    <3>2. DOMAIN reports = Listed(catalogue')
      <4>1. Listed(catalogue') \subseteq DOMAIN reports
        BY <1>2, ListedFinite
      <4>2. \A i \in DOMAIN reports : i \in Listed(catalogue')
        BY <3>1 DEF Listed
      <4> QED
        BY <4>1, <4>2
    <3>3. \A row \in catalogue' : row.revision = reports[row.id].revision /\ row.end = reports[row.id].end
      BY <1>2, <3>1 DEF ListedOK
    <3>4. Grown(reports, reports)
      BY <1>2 DEF Grown, Archive, Stored
    <3>5. step' = "compare" => Newest(reports) = None
      BY <1>1, <3>2 DEF Listed, Newest
    <3>6. \A i \in DOMAIN reports : i \in DOMAIN projected /\ projected[i].revision = reports[i].revision
                                      => projected[i].generated = reports[i].generated
      BY DEF SearchInv, ProjectedOK
    <3>7. \E snap : Snapshot(snap)'
      BY <1>1, <1>2, <1>3, <3>2, <3>3, <3>4, <3>5, <3>6 DEF Snapshot
    <3> QED
      BY <3>7
  <2> QED
    BY <2>1, <2>2
<1> QED
  BY <1>4, <1>5, <1>6 DEF SearchInv

LEMMA ReadCachedStep ==
    ASSUME SearchInv, ReadCached
    PROVE  SearchInv'
<1>1. /\ step = "cached" /\ step' = "fill"
      /\ stamps' = [i \in {row.id : row \in {row \in catalogue : Usable(row)}} |-> projected[i].generated]
      /\ UNCHANGED <<reports, projected, catalogue, again, fetched, answer, newest>>
  BY DEF ReadCached
<1>2. ASSUME NEW i \in DOMAIN stamps'
      PROVE  /\ i \in Listed(catalogue)
             /\ \E row \in catalogue : row.id = i /\ Usable(row)
             /\ stamps'[i] = projected[i].generated
  BY <1>1 DEF Listed
<1>3. SearchTypeOK' /\ ProjectedOK' /\ StagesOK'
  <2>1. DOMAIN stamps' \subseteq Listed(catalogue)
    BY <1>2
  <2> QED
    BY <1>1, <2>1 DEF SearchInv, SearchTypeOK, ProjectedOK, StagesOK
<1>4. SearchOK'
  <2>1. CASE Noticed
    BY <1>1, <2>1 DEF Noticed, SearchOK
  <2>2. CASE \E snap : Snapshot(snap)
    <3>1. PICK snap : Snapshot(snap)
      BY <2>2
    <3>2. ASSUME NEW i \in DOMAIN stamps'
          PROVE  stamps'[i] = snap[i].generated
      <4>1. PICK row \in catalogue : row.id = i /\ Usable(row)
        BY <1>2
      <4>2. i \in DOMAIN projected /\ projected[i].revision = row.revision
        BY <4>1 DEF Usable
      <4>3. row.revision = snap[i].revision /\ i \in DOMAIN snap
        BY <3>1, <4>1 DEF Snapshot, Listed
      <4>4. projected[i].generated = snap[i].generated
        BY <3>1, <4>2, <4>3 DEF Snapshot
      <4> QED
        BY <1>2, <4>4
    <3>3. Snapshot(snap)'
      BY <1>1, <3>1, <3>2 DEF Snapshot
    <3> QED
      BY <3>3 DEF SearchOK
  <2> QED
    BY <1>1, <2>1, <2>2 DEF SearchInv, SearchOK
<1> QED
  BY <1>3, <1>4 DEF SearchInv

\* A row that is still the same has, in the table, what it had at the moment of the snapshot.
LEMMA SameRow ==
    ASSUME NEW snap, Snapshot(snap), NEW row \in catalogue, Same(row)
    PROVE  /\ row.id \in DOMAIN reports /\ row.id \in DOMAIN snap
           /\ reports[row.id].revision = row.revision /\ reports[row.id].end = row.end
           /\ reports[row.id] = snap[row.id]
<1>1. row.id \in DOMAIN reports /\ Row(row.id) = row
  BY DEF Same
<1>2. reports[row.id].revision = row.revision /\ reports[row.id].end = row.end
  BY <1>1 DEF Row
<1>3. row.id \in DOMAIN snap /\ snap[row.id].revision = row.revision
  BY DEF Snapshot, Listed
<1> QED
  BY <1>1, <1>2, <1>3 DEF Snapshot, Grown

LEMMA FetchStep ==
    ASSUME Sized, SearchInv, Fetch
    PROVE  SearchInv'
<1> DEFINE row == CHOOSE first \in Missing : \A other \in Missing : first.id <= other.id
<1>1. row \in catalogue
  <2> DEFINE ids == {missing.id : missing \in Missing}
  <2>1. Missing # {} /\ Missing \subseteq catalogue
    BY DEF Fetch, Missing
  <2>2. \A missing \in Missing : missing.id \in Nat
    BY <2>1 DEF SearchInv, SearchTypeOK, ListedOK, Sized
  <2>3. Min(ids) \in ids /\ \A x \in ids : Min(ids) <= x
    <3>1. ids \in SUBSET Int /\ ids # {} /\ \A x \in ids : 0 <= x
      BY <2>1, <2>2
    <3> HIDE DEF ids
    <3> QED
      BY <3>1, MinValue
  <2>4. \E first \in Missing : \A other \in Missing : first.id <= other.id
    BY <2>3
  <2>5. row \in Missing
    BY <2>4
  <2> QED
    BY <2>1, <2>5
<1>2. \/ GiveUp
      \/ /\ Same(row) /\ step = "fill" /\ fetched' = <<row, reports[row.id].generated>>
         /\ UNCHANGED <<reports, projected, step, catalogue, again, stamps, answer, newest>>
  BY DEF Fetch
<1> HIDE DEF row
<1>3. CASE GiveUp
  BY <1>3, GiveUpStep
<1>4. CASE /\ Same(row) /\ step = "fill" /\ fetched' = <<row, reports[row.id].generated>>
           /\ UNCHANGED <<reports, projected, step, catalogue, again, stamps, answer, newest>>
  <2>1. fetched'[1] = row /\ fetched'[2] = reports[row.id].generated
    BY <1>4
  <2>2. SearchTypeOK' /\ ProjectedOK' /\ StagesOK'
    BY <1>1, <1>4, <2>1 DEF SearchInv, SearchTypeOK, ProjectedOK, StagesOK
  <2>3. SearchOK'
    <3>1. CASE Noticed
      BY <1>4, <3>1 DEF Noticed, SearchOK
    <3>2. CASE \E snap : Snapshot(snap)
      <4>1. PICK snap : Snapshot(snap)
        BY <3>2
      <4>2. reports[row.id] = snap[row.id]
        BY <1>1, <1>4, <4>1, SameRow
      <4>3. Snapshot(snap)'
        BY <1>4, <2>1, <4>1, <4>2 DEF Snapshot
      <4> QED
        BY <4>3 DEF SearchOK
    <3> QED
      BY <1>4, <3>1, <3>2 DEF SearchInv, SearchOK
  <2> QED
    BY <2>2, <2>3 DEF SearchInv
<1> QED
  BY <1>2, <1>3, <1>4

LEMMA ProjectStep ==
    ASSUME Sized, SearchInv, Project
    PROVE  SearchInv'
<1> DEFINE row == fetched[1]
           new == [end |-> row.end, generated |-> fetched[2], revision |-> row.revision]
<1>1. \/ GiveUp
      \/ /\ Same(row) /\ step = "fill" /\ fetched # <<>>
         /\ projected' = Set(projected, row.id, new) /\ stamps' = Set(stamps, row.id, fetched[2])
         /\ fetched' = <<>>
         /\ UNCHANGED <<reports, step, catalogue, again, answer, newest>>
  BY DEF Project
<1>2. CASE GiveUp
  BY <1>2, GiveUpStep
<1>3. CASE /\ Same(row) /\ step = "fill" /\ fetched # <<>>
           /\ projected' = Set(projected, row.id, new) /\ stamps' = Set(stamps, row.id, fetched[2])
           /\ fetched' = <<>>
           /\ UNCHANGED <<reports, step, catalogue, again, answer, newest>>
  <2>1. row \in catalogue
    BY <1>3 DEF SearchInv, SearchTypeOK
  <2>2. row.id \in DOMAIN reports /\ reports[row.id].revision = row.revision
        /\ reports[row.id].end = row.end /\ row.revision \in Nat
    BY <1>3, <2>1 DEF Same, Row, SearchInv, SearchTypeOK, ListedOK
  <2>3. reports[row.id].generated = fetched[2]
    BY <1>3, <2>2 DEF SearchInv, ProjectedOK
  <2>4. new.revision = row.revision /\ new.generated = fetched[2] /\ new.end = row.end
    OBVIOUS
  <2> HIDE DEF new, row
  <2>5. /\ DOMAIN projected' = DOMAIN projected \cup {row.id} /\ projected'[row.id] = new
        /\ \A i \in DOMAIN projected \ {row.id} : projected'[i] = projected[i]
    BY <1>3 DEF Set
  <2>6. /\ DOMAIN stamps' = DOMAIN stamps \cup {row.id} /\ stamps'[row.id] = fetched[2]
        /\ \A i \in DOMAIN stamps \ {row.id} : stamps'[i] = stamps[i]
    BY <1>3 DEF Set
  <2>7. SearchTypeOK'
    <3>1. ASSUME NEW i \in DOMAIN projected'
          PROVE  /\ i \in DOMAIN reports' /\ projected'[i].revision \in Nat
                 /\ projected'[i].revision <= reports'[i].revision
      BY <1>3, <2>2, <2>4, <2>5 DEF SearchInv, SearchTypeOK
    <3>2. DOMAIN stamps' \subseteq Listed(catalogue')
      BY <1>3, <2>1, <2>6 DEF SearchInv, SearchTypeOK, Listed
    <3> QED
      BY <1>3, <3>1, <3>2 DEF SearchInv, SearchTypeOK
  <2>8. ProjectedOK'
    <3>1. ASSUME NEW i \in DOMAIN projected', projected'[i].revision = reports'[i].revision
          PROVE  projected'[i].generated = reports'[i].generated /\ projected'[i].end = reports'[i].end
      BY <1>3, <2>2, <2>3, <2>4, <2>5, <3>1 DEF SearchInv, ProjectedOK
    <3> QED
      BY <1>3, <3>1 DEF ProjectedOK
  <2>9. StagesOK'
    BY <1>3 DEF SearchInv, StagesOK
  <2>10. SearchOK'
    <3>1. CASE Noticed
      BY <1>3, <3>1 DEF Noticed, SearchOK
    <3>2. CASE \E snap : Snapshot(snap)
      <4>1. PICK snap : Snapshot(snap)
        BY <3>2
      <4>2. fetched[2] = snap[row.id].generated
        BY <1>3, <4>1 DEF Snapshot, row
      <4>3. \A i \in DOMAIN snap : i \in DOMAIN projected' /\ projected'[i].revision = snap[i].revision
                                     => projected'[i].generated = snap[i].generated
        BY <2>4, <2>5, <4>1, <4>2 DEF Snapshot
      <4>4. \A i \in DOMAIN stamps' : stamps'[i] = snap[i].generated
        BY <2>6, <4>1, <4>2 DEF Snapshot
      <4>5. Snapshot(snap)'
        BY <1>3, <4>1, <4>3, <4>4 DEF Snapshot
      <4> QED
        BY <4>5 DEF SearchOK
    <3> QED
      BY <1>3, <3>1, <3>2 DEF SearchInv, SearchOK
  <2> QED
    BY <2>7, <2>8, <2>9, <2>10 DEF SearchInv
<1> QED
  BY <1>1, <1>2, <1>3

\* The leader among the rows is the newest report of the snapshot.
LEMMA ChooseStep ==
    ASSUME Sized, SearchInv, Choose
    PROVE  SearchInv'
<1> DEFINE item(row) == [id |-> row.id, end |-> row.end, generated |-> stamps[row.id]]
           leads(row) == \A other \in catalogue \ {row} : Later(item(row), item(other))
           best == CHOOSE row \in catalogue : leads(row)
<1>1. \/ GiveUp
      \/ /\ step = "fill" /\ Missing = {} /\ fetched = <<>> /\ Same(best)
         /\ answer' = [id |-> best.id, generated |-> stamps[best.id]] /\ step' = "compare"
         /\ UNCHANGED <<reports, projected, catalogue, again, stamps, fetched, newest>>
  BY DEF Choose
<1>2. CASE GiveUp
  BY <1>2, GiveUpStep
<1>3. CASE /\ step = "fill" /\ Missing = {} /\ fetched = <<>> /\ Same(best)
           /\ answer' = [id |-> best.id, generated |-> stamps[best.id]] /\ step' = "compare"
           /\ UNCHANGED <<reports, projected, catalogue, again, stamps, fetched, newest>>
  <2> HIDE DEF best
  <2>1. SearchTypeOK' /\ ProjectedOK' /\ StagesOK'
    BY <1>3 DEF SearchInv, SearchTypeOK, ProjectedOK, StagesOK
  <2>2. SearchOK'
    <3>1. CASE Noticed
      BY <1>3, <3>1 DEF Noticed, SearchOK
    <3>2. CASE \E snap : Snapshot(snap)
      <4>1. PICK snap : Snapshot(snap)
        BY <3>2
      <4>2. Archive(snap) /\ DOMAIN snap = Listed(catalogue) /\ DOMAIN snap # {}
        BY <1>3, <4>1 DEF Snapshot, SearchInv, StagesOK, Listed
      <4>3. \A row \in catalogue : row.id \in DOMAIN snap /\ item(row) = Item(snap, row.id)
        BY <1>3, <4>1, <4>2 DEF Snapshot, Missing, Listed, Item
      <4>4. \A i \in DOMAIN snap : \E row \in catalogue : row.id = i
        BY <4>2 DEF Listed
      <4>5. \A a, b \in catalogue : a.id = b.id => a = b
        BY DEF SearchInv, SearchTypeOK, ListedOK
      <4>6. \A row \in catalogue : leads(row) <=> Leads(snap, row.id)
        <5> HIDE DEF item
        <5> QED
          BY <4>3, <4>4, <4>5 DEF Leads
      <4>7. \E row \in catalogue : leads(row)
        <5> HIDE DEF leads
        <5> QED
          BY <4>2, <4>4, <4>6, LeaderExists
      <4>8. best \in catalogue /\ leads(best)
        BY <4>7 DEF best
      <4> HIDE DEF leads
      <4>9. best.id \in DOMAIN snap /\ Leads(snap, best.id)
        BY <4>3, <4>6, <4>8
      <4>10. Newest(snap) = [id |-> best.id, generated |-> snap[best.id].generated]
        BY <4>2, <4>9, NewestLeads
      <4>11. stamps[best.id] = snap[best.id].generated
        BY <1>3, <4>1, <4>8 DEF Snapshot, Missing
      <4>12. answer' = Newest(snap)
        BY <1>3, <4>10, <4>11
      <4>13. Snapshot(snap)'
        BY <1>3, <4>1, <4>12 DEF Snapshot
      <4> QED
        BY <4>13 DEF SearchOK
    <3> QED
      BY <1>3, <3>1, <3>2 DEF SearchInv, SearchOK
  <2> QED
    BY <2>1, <2>2 DEF SearchInv
<1> QED
  BY <1>1, <1>2, <1>3

\* The second listing meets what the first one lacks, unless it has met it before.
LEMMA CompareStep ==
    ASSUME Sized, SearchInv, Compare
    PROVE  SearchInv'
<1>1. /\ step = "compare" /\ again' = again \cup Page(again)
      /\ step' \in {"compare", "done", "idle"}
      /\ ~LastPage(Page(again)) => step' = "compare"
      /\ step' = "done" => again' = catalogue
      /\ step' = "compare" => ~LastPage(Page(again))
      /\ UNCHANGED <<reports, projected, catalogue, stamps, fetched, answer, newest>>
  BY DEF Compare
<1>2. Archive(reports) /\ ListedOK(again, reports) /\ ListedOK(again', reports)
  BY <1>1, ListedMore DEF SearchInv, SearchTypeOK
<1>3. SearchTypeOK' /\ ProjectedOK' /\ StagesOK'
  BY <1>1, <1>2 DEF SearchInv, SearchTypeOK, ProjectedOK, StagesOK
<1>4. SearchOK'
  <2> SUFFICES ASSUME step' \in {"compare", "done"}
               PROVE  Noticed' \/ \E snap : Snapshot(snap)'
    BY <1>1 DEF SearchOK
  <2>1. CASE Noticed
    <3>1. PICK i \in DOMAIN reports :
             /\ Unlisted(i, catalogue, reports)
             /\ i > After(again) \/ \E row \in again : row.id = i /\ row \notin catalogue
      BY <2>1 DEF Noticed
    <3>2. i \in Nat /\ reports[i].revision \in Nat
      BY <1>2 DEF Archive, Stored, Sized
    <3>3. Row(i).id = i /\ Row(i) \notin catalogue
      BY <3>1, <3>2 DEF Row, Unlisted
    <3>4. CASE \E row \in again' : row.id = i /\ row \notin catalogue
      BY <1>1, <3>1, <3>4 DEF Noticed
    <3>5. CASE ~ \E row \in again' : row.id = i /\ row \notin catalogue
      <4>1. i > After(again) /\ Row(i) \notin Page(again)
        BY <1>1, <3>1, <3>3, <3>5
      <4>2. ~LastPage(Page(again)) /\ \A row \in Page(again) : row.id < i
        BY <1>2, <4>1, Paging
      <4>3. \A row \in again : row.id < i
        <5>1. After(again) \in Int /\ \A row \in again : row.id <= After(again)
          BY <1>2, AfterValue
        <5>2. \A row \in again : row.id \in Nat
          BY <1>2 DEF ListedOK, Sized
        <5> QED
          BY <3>2, <4>1, <5>1, <5>2
      <4>4. After(again') < i
        BY <1>1, <1>2, <3>2, <4>2, <4>3, AfterValue
      <4>5. After(again') \in Int
        BY <1>2, AfterValue
      <4> QED
        BY <1>1, <3>1, <3>2, <4>2, <4>4, <4>5 DEF Noticed
    <3> QED
      BY <3>4, <3>5
  <2>2. CASE \E snap : Snapshot(snap)
    <3>1. PICK snap : Snapshot(snap)
      BY <2>2
    <3>2. Snapshot(snap)'
      BY <1>1, <3>1 DEF Snapshot
    <3> QED
      BY <3>2
  <2> QED
    BY <1>1, <2>1, <2>2 DEF SearchInv, SearchOK
<1> QED
  BY <1>3, <1>4 DEF SearchInv

-----------------------------------------------------------------------------
(* The theorems about the search.                                          *)

LEMMA SearchInit ==
    ASSUME LatestInit
    PROVE  SearchInv
<1>1. DOMAIN reports = {} /\ DOMAIN projected = {} /\ DOMAIN stamps = {}
  BY DEF LatestInit
<1>2. IsFiniteSet(DOMAIN reports)
  BY <1>1, FS_EmptySet
<1> QED
  BY <1>1, <1>2 DEF LatestInit, SearchInv, SearchTypeOK, ProjectedOK, StagesOK, SearchOK,
                    Archive, ListedOK, Listed

LEMMA SearchStep ==
    ASSUME Sized, SearchInv, [LatestNext]_latest
    PROVE  SearchInv'
<1>1. CASE UNCHANGED latest
  BY <1>1 DEF latest, SearchInv, SearchTypeOK, ProjectedOK, StagesOK, SearchOK, Noticed, Snapshot
<1>2. ASSUME NEW id \in Ids, NEW end \in Ends, NEW generated \in Moments, NEW projects \in BOOLEAN,
             SaveReport(id, end, generated, projects)
      PROVE  SearchInv'
  BY <1>2, SaveReportStep
<1>3. CASE LatestReport
  BY <1>3, LatestReportStep
<1>4. CASE ListPage
  BY <1>4, ListPageStep
<1>5. CASE ReadCached
  BY <1>5, ReadCachedStep
<1>6. CASE Fetch
  BY <1>6, FetchStep
<1>7. CASE Project
  BY <1>7, ProjectStep
<1>8. CASE Choose
  BY <1>8, ChooseStep
<1>9. CASE Compare
  BY <1>9, CompareStep
<1>10. CASE Return
  BY <1>10 DEF Return, SearchInv, SearchTypeOK, ProjectedOK, StagesOK, SearchOK
<1> QED
  BY <1>1, <1>2, <1>3, <1>4, <1>5, <1>6, <1>7, <1>8, <1>9, <1>10 DEF LatestNext

LEMMA SearchAlways == Sized => (LatestSpec => []SearchInv)
<1> SUFFICES ASSUME Sized PROVE LatestSpec => []SearchInv
  OBVIOUS
<1>1. LatestInit => SearchInv
  BY SearchInit
<1>2. SearchInv /\ [LatestNext]_latest => SearchInv'
  BY SearchStep
<1> QED
  BY <1>1, <1>2, PTL DEF LatestSpec

\* The report a search returns was the newest one at some moment of the search, although it read the
\* table page by page, its times from projections and payloads at other moments, and the answer before
\* it compared (latest_report).
THEOREM SearchAnswersTruly == Sized => (LatestSpec => []LatestIsLatest)
<1> SUFFICES ASSUME Sized PROVE LatestSpec => []LatestIsLatest
  OBVIOUS
<1>1. SearchInv => LatestIsLatest
  BY DEF SearchInv, SearchOK, Noticed, Snapshot, LatestIsLatest
<1> QED
  BY <1>1, SearchAlways, PTL

\* A projection of a report's present revision tells its time and period, whichever writers maintain
\* projections and whenever a search writes the missing ones (_save_cache_batch).
THEOREM ProjectionsTrue == Sized => (LatestSpec => []ProjectionsAreTrue)
<1> SUFFICES ASSUME Sized PROVE LatestSpec => []ProjectionsAreTrue
  OBVIOUS
<1>1. SearchInv => ProjectionsAreTrue
  BY DEF SearchInv, ProjectedOK, ProjectionsAreTrue
<1> QED
  BY <1>1, SearchAlways, PTL

-----------------------------------------------------------------------------
(* The owner's records.  OwnedInv follows every entry of the audit to the  *)
(* record it is about: an identity once given is the record's              *)
(* (IdentitiesOK), a day without a reading lost its last one to a move     *)
(* (VacantOK), and what an author read is the record or an earlier version *)
(* of it (ViewsOK).  ReplayedOK says what the audit, replayed, leaves.     *)
CONSTANTS Days, Sources, Proposals, MaxOwnerWrites
VARIABLES rows, ownerAudit, views, ownerProfile, ownerSettings, ownerProposals, revisions, serial
Owner == INSTANCE OwnerRepository WITH MaxWrites <- MaxOwnerWrites,
            audit <- ownerAudit, profile <- ownerProfile, settings <- ownerSettings, proposals <- ownerProposals

-----------------------------------------------------------------------------
OwnedKeys == Owner!Tables \X Days
Records == [version : Nat, content : Nat, source : Sources \cup {0}]
Entries == [table : Owner!Tables, day : Days, act : {"save", "move_from", "move_to"}, row : Records,
            before : Nat, seen : Nat]
Decisions == [content : Nat, base : Nat, decision : {"undecided", "accepted", "rejected"}, version : Nat]

OwnedTypeOK ==
    /\ serial \in Nat
    /\ DOMAIN rows \subseteq OwnedKeys /\ \A k \in DOMAIN rows : rows[k] \in Records /\ rows[k].version > 0
    /\ ownerAudit \in Seq(Entries)
    /\ views \subseteq [key : OwnedKeys, row : Records] /\ \A v \in views : v.row.version > 0
    /\ ownerProfile \in Seq([at : Days, content : Nat])
    /\ ownerSettings \in Seq(Nat)
    /\ \A id \in DOMAIN ownerProposals : ownerProposals[id] \in Decisions

\* What an author has read of a tariff or a boundary is the record, or an earlier version of it.
ViewsOK ==
    \A v \in views : v.key[1] # "reading" =>
        /\ v.row.version <= Owner!Stored(v.key).version
        /\ v.row.version = Owner!Stored(v.key).version => v.row.content = Owner!Stored(v.key).content

Of(entry, table, day) == entry.table = table /\ entry.day = day
\* Since entry j no reading was moved.
Unmoved(entries, j, k) == \A i \in j .. k : entries[i].table = "reading" => entries[i].act = "save"
\* An identity once given is the record's, as long as no reading is moved.
IdentitiesOK ==
    \A j \in 1 .. Len(ownerAudit) : ownerAudit[j].row.source # 0 /\ Unmoved(ownerAudit, j, Len(ownerAudit)) =>
        Owner!Stored(<<ownerAudit[j].table, ownerAudit[j].day>>).source = ownerAudit[j].row.source

\* A day without a reading never had one, or it was moved away last.
Left(day, n) ==
    \A j \in 1 .. n : Of(ownerAudit[j], "reading", day) /\ ownerAudit[j].act # "move_from" =>
        \E i \in j + 1 .. n : Of(ownerAudit[i], "reading", day)
VacantOK == \A day \in Days : <<"reading", day>> \notin DOMAIN rows => Left(day, Len(ownerAudit))

\* The settings that were accepted are in their place.
AcceptedOK ==
    \A id \in DOMAIN ownerProposals : ownerProposals[id].decision = "accepted" =>
        ownerProposals[id].version \in 1 .. Len(ownerSettings)

-----------------------------------------------------------------------------
(* The audit replayed.  FoldLeft is defined by recursion over the subsets  *)
(* of the ids; the records that a subset of the entries leaves behind are  *)
(* said directly, and shown to be what the recursion gives.                *)

Place(entry) == <<entry.table, entry.day>>
EndsIn(a, s, key, i) == i \in s /\ Place(a[i]) = key /\ \A j \in s : Place(a[j]) = key => j <= i
Standing(a, s) == {key \in OwnedKeys : \E i \in s : EndsIn(a, s, key, i) /\ a[i].act # "move_from"}
Replayed(a, s) == [key \in Standing(a, s) |-> a[CHOOSE i \in s : EndsIn(a, s, key, i)].row]
Replay(f, entry) == IF entry.act = "move_from" THEN Owner!Kept(f, Place(entry)) ELSE Owner!Put(f, Place(entry), entry.row)

\* The last entry of a record is one.
LEMMA LastIsOne ==
    ASSUME NEW a \in Seq(Entries), NEW s \in SUBSET DOMAIN a, NEW key, NEW i, NEW j,
           EndsIn(a, s, key, i), EndsIn(a, s, key, j)
    PROVE  i = j
<1>1. i \in Nat /\ j \in Nat /\ i <= j /\ j <= i
  BY DEF EndsIn
<1> QED
  BY <1>1

LEMMA ReplayedAt ==
    ASSUME NEW a \in Seq(Entries), NEW s \in SUBSET DOMAIN a, NEW key \in Standing(a, s), NEW i, EndsIn(a, s, key, i)
    PROVE  Replayed(a, s)[key] = a[i].row /\ a[i].act # "move_from"
<1> DEFINE c == CHOOSE k \in s : EndsIn(a, s, key, k)
<1>1. EndsIn(a, s, key, c)
  BY DEF EndsIn
<1>2. c = i
  BY <1>1, LastIsOne
<1>3. PICK k \in s : EndsIn(a, s, key, k) /\ a[k].act # "move_from"
  BY DEF Standing
<1>4. k = i
  BY <1>3, LastIsOne
<1>5. Replayed(a, s)[key] = a[c].row
  BY DEF Replayed
<1> HIDE DEF c
<1> QED
  BY <1>2, <1>3, <1>4, <1>5

LEMMA ReplayedIs ==
    ASSUME NEW a, NEW s
    PROVE  Replayed(a, s) = [key \in Standing(a, s) |-> Replayed(a, s)[key]]
  BY DEF Replayed

\* One entry more: the last of a set of entries is replayed upon what the others left.
LEMMA OneEntryMore ==
    ASSUME NEW a \in Seq(Entries), NEW s \in SUBSET DOMAIN a, NEW m \in s, \A j \in s : j <= m
    PROVE  Replayed(a, s) = Replay(Replayed(a, s \ {m}), a[m])
<1> DEFINE r == s \ {m}
           here == Place(a[m])
<1>1. a[m] \in Entries /\ here \in OwnedKeys /\ m \in Nat
  <2>1. a[m] \in Entries
    OBVIOUS
  <2> QED
    BY <2>1 DEF Entries, Place, OwnedKeys
<1>2. EndsIn(a, s, here, m)
  BY DEF EndsIn
<1>3. ASSUME NEW key, key # here, NEW i
      PROVE  EndsIn(a, s, key, i) <=> EndsIn(a, r, key, i)
  BY <1>3 DEF EndsIn
<1>4. here \in Standing(a, s) <=> a[m].act # "move_from"
  BY <1>1, <1>2, LastIsOne DEF Standing
<1>5. ASSUME NEW key, key # here
      PROVE  key \in Standing(a, s) <=> key \in Standing(a, r)
  <2>1. \A i : EndsIn(a, s, key, i) <=> EndsIn(a, r, key, i)
    BY <1>3, <1>5
  <2>2. \A i : EndsIn(a, r, key, i) => i \in r /\ i \in s
    BY DEF EndsIn
  <2> HIDE DEF r, here
  <2> QED
    BY <2>1, <2>2 DEF Standing, EndsIn
<1>6. ASSUME NEW key \in Standing(a, s), key # here
      PROVE  Replayed(a, s)[key] = Replayed(a, r)[key]
  <2>1. PICK i \in s : EndsIn(a, s, key, i)
    BY DEF Standing
  <2>2. EndsIn(a, r, key, i) /\ key \in Standing(a, r) /\ r \in SUBSET DOMAIN a
    BY <1>3, <1>5, <1>6, <2>1
  <2> HIDE DEF r
  <2> QED
    BY <2>1, <2>2, ReplayedAt
<1>7. DOMAIN Replayed(a, s) = Standing(a, s) /\ DOMAIN Replayed(a, r) = Standing(a, r)
  BY DEF Replayed
<1>8. CASE a[m].act = "move_from"
  <2>1. Standing(a, s) = Standing(a, r) \ {here}
    BY <1>4, <1>5, <1>8
  <2> HIDE DEF r, here
  <2>2. Replayed(a, s) = [k \in Standing(a, r) \ {here} |-> Replayed(a, r)[k]]
    <3>1. Replayed(a, s) = [k \in Standing(a, s) |-> Replayed(a, s)[k]]
      BY ReplayedIs
    <3> QED
      BY <1>6, <2>1, <3>1
  <2> QED
    BY <1>7, <1>8, <2>2 DEF Replay, Owner!Kept, r, here
<1>9. CASE a[m].act # "move_from"
  <2>1. Standing(a, s) = Standing(a, r) \cup {here}
    BY <1>4, <1>5, <1>9
  <2>2. Replayed(a, s)[here] = a[m].row
    BY <1>2, <1>4, <1>9, ReplayedAt
  <2> HIDE DEF r, here
  <2>3. Replayed(a, s) = [k \in Standing(a, r) \cup {here} |-> IF k = here THEN a[m].row ELSE Replayed(a, r)[k]]
    <3>1. Replayed(a, s) = [k \in Standing(a, s) |-> Replayed(a, s)[k]]
      BY ReplayedIs
    <3> QED
      BY <1>6, <2>1, <2>2, <3>1
  <2> QED
    BY <1>7, <1>9, <2>3 DEF Replay, Owner!Put, r, here
<1> QED
  BY <1>8, <1>9

\* The recursion of FoldLeft over the ids of the entries a.
Folds(f, a) ==
    f = [s \in SUBSET DOMAIN a |-> IF s = {} THEN <<>>
                                   ELSE Replay(f[s \ {Owner!Max(s)}], a[Owner!Max(s)])]

LEMMA NewestOfSome ==
    ASSUME NEW a \in Seq(Entries), NEW s \in SUBSET DOMAIN a, s # {}
    PROVE  Owner!Max(s) \in s /\ \A j \in s : j <= Owner!Max(s)
<1>1. Len(a) \in Nat /\ s \subseteq 1 .. Len(a)
  OBVIOUS
<1>2. PICK m \in s : \A j \in s : j <= m
  <2>1. s \subseteq Nat /\ \A j \in s : j <= Len(a)
    BY <1>1
  <2>2. IsFiniteSet(s)
    BY <1>1, FS_Interval, FS_Subset
  <2> QED
    BY <2>1, <2>2, GreatestExists
<1>3. \A x, y \in s : x >= y <=> y <= x
  BY <1>1
<1> QED
  BY <1>2, <1>3 DEF Owner!Max

LEMMA NothingReplayed ==
    ASSUME NEW a
    PROVE  Replayed(a, {}) = <<>>
  BY DEF Replayed, Standing

LEMMA FoldsExist ==
    ASSUME NEW a \in Seq(Entries)
    PROVE  Folds([s \in SUBSET DOMAIN a |-> Replayed(a, s)], a)
<1> DEFINE t == [s \in SUBSET DOMAIN a |-> Replayed(a, s)]
<1>1. Replayed(a, {}) = <<>>
  BY NothingReplayed
<1>2. ASSUME NEW s \in SUBSET DOMAIN a, s # {}
      PROVE  Replayed(a, s) = Replay(t[s \ {Owner!Max(s)}], a[Owner!Max(s)])
  <2> DEFINE m == Owner!Max(s)
  <2>1. m \in s /\ \A j \in s : j <= m
    BY <1>2, NewestOfSome
  <2> HIDE DEF m
  <2>2. Replayed(a, s) = Replay(Replayed(a, s \ {m}), a[m])
    BY <2>1, OneEntryMore
  <2>3. t[s \ {m}] = Replayed(a, s \ {m})
    OBVIOUS
  <2> QED
    BY <2>2, <2>3 DEF m
<1>3. t = [s \in SUBSET DOMAIN a |-> IF s = {} THEN <<>> ELSE Replay(t[s \ {Owner!Max(s)}], a[Owner!Max(s)])]
  BY <1>1, <1>2
<1> QED
  BY <1>3 DEF Folds

LEMMA FoldsAreReplayed ==
    ASSUME NEW a \in Seq(Entries), NEW f, Folds(f, a)
    PROVE  f[DOMAIN a] = Replayed(a, DOMAIN a)
<1> DEFINE S == DOMAIN a
           bad == {s \in SUBSET S : f[s] # Replayed(a, s)}
<1>1. SUFFICES ASSUME bad # {}
               PROVE  FALSE
  OBVIOUS
<1>2. IsFiniteSet(S)
  BY FS_Interval
<1>3. IsWellFoundedOn(StrictSubsetOrdering(S), SUBSET S)
  BY <1>2, FS_StrictSubsetOrderingWellFounded, FS_FiniteSubsetsOfFinite
<1>4. PICK s \in bad : \A r \in bad : <<r, s>> \notin StrictSubsetOrdering(S)
  BY <1>1, <1>3, WFMin
<1>5. s \in SUBSET S /\ f[s] = IF s = {} THEN <<>> ELSE Replay(f[s \ {Owner!Max(s)}], a[Owner!Max(s)])
  BY <1>4 DEF Folds
<1>6. s # {}
  BY <1>4, <1>5, NothingReplayed
<1> DEFINE m == Owner!Max(s)
           r == s \ {m}
<1>7. m \in s /\ \A j \in s : j <= m
  BY <1>5, <1>6, NewestOfSome
<1>8. f[s] = Replay(f[r], a[m])
  BY <1>5, <1>6
<1> HIDE DEF m
<1>9. <<r, s>> \in StrictSubsetOrdering(S) /\ r \in SUBSET S
  BY <1>5, <1>7 DEF StrictSubsetOrdering
<1>10. f[r] = Replayed(a, r)
  BY <1>4, <1>9
<1>11. Replayed(a, s) = Replay(Replayed(a, r), a[m])
  BY <1>5, <1>7, OneEntryMore
<1> QED
  BY <1>4, <1>8, <1>10, <1>11

LEMMA AuditFolds ==
    ASSUME OwnedTypeOK
    PROVE  Owner!AuditReplays <=> Replayed(ownerAudit, DOMAIN ownerAudit) = rows
<1> DEFINE F == CHOOSE f : Folds(f, ownerAudit)
<1>1. Owner!AuditReplays <=> F[DOMAIN ownerAudit] = rows
  BY DEF Owner!AuditReplays, Owner!FoldLeft, Owner!MapThenFoldSet, Folds, Replay, Place
<1>2. ownerAudit \in Seq(Entries)
  BY DEF OwnedTypeOK
<1>3. Folds(F, ownerAudit)
  BY <1>2, FoldsExist
<1> HIDE DEF F
<1> QED
  BY <1>1, <1>2, <1>3, FoldsAreReplayed

\* An entry added to the audit is replayed upon what is there.
LEMMA EntryAdded ==
    ASSUME NEW a \in Seq(Entries), NEW e \in Entries, NEW b, b = Append(a, e)
    PROVE  Replayed(b, DOMAIN b) = Replay(Replayed(a, DOMAIN a), e) /\ b \in Seq(Entries)
<1> DEFINE n == Len(a)
           s == DOMAIN b
<1>1. /\ b \in Seq(Entries) /\ n \in Nat /\ s = 1 .. n + 1 /\ b[n + 1] = e
      /\ DOMAIN a = 1 .. n /\ \A k \in 1 .. n : b[k] = a[k]
  OBVIOUS
<1>2. n + 1 \in s /\ \A j \in s : j <= n + 1
  BY <1>1
<1>3. s \ {n + 1} = DOMAIN a
  BY <1>1
<1> HIDE DEF n, s
<1>4. Replayed(b, s) = Replay(Replayed(b, DOMAIN a), e)
  <2>1. s \in SUBSET DOMAIN b
    BY DEF s
  <2> DEFINE m == n + 1
  <2>2. b \in Seq(Entries) /\ m \in s /\ (\A j \in s : j <= m) /\ b[m] = e /\ s \ {m} = DOMAIN a
    BY <1>1, <1>2, <1>3
  <2> HIDE DEF m
  <2>3. Replayed(b, s) = Replay(Replayed(b, s \ {m}), b[m])
    BY <2>1, <2>2, OneEntryMore
  <2> QED
    BY <2>2, <2>3
<1>5. Replayed(b, DOMAIN a) = Replayed(a, DOMAIN a)
  <2> DEFINE d == DOMAIN a
  <2>1. \A i \in d : b[i] = a[i]
    BY <1>1
  <2> HIDE DEF d
  <2>2. \A key, i : EndsIn(b, d, key, i) <=> EndsIn(a, d, key, i)
    BY <2>1 DEF EndsIn
  <2>3. Standing(b, d) = Standing(a, d)
    BY <2>1, <2>2 DEF Standing
  <2>4. ASSUME NEW key \in Standing(a, d)
        PROVE  Replayed(b, d)[key] = Replayed(a, d)[key]
    <3>1. PICK i \in d : EndsIn(a, d, key, i)
      BY DEF Standing
    <3>2. EndsIn(b, d, key, i) /\ key \in Standing(b, d) /\ a[i] = b[i]
      BY <2>1, <2>2, <2>3, <3>1
    <3>3. d \in SUBSET DOMAIN a /\ d \in SUBSET DOMAIN b
      BY <1>1 DEF d
    <3>4. Replayed(b, d)[key] = b[i].row
      BY <1>1, <3>2, <3>3, ReplayedAt
    <3>5. Replayed(a, d)[key] = a[i].row
      BY <3>1, <3>3, ReplayedAt
    <3> QED
      BY <3>2, <3>4, <3>5
  <2>5. Replayed(b, d) = Replayed(a, d)
    <3>1. /\ Replayed(b, d) = [k \in Standing(b, d) |-> Replayed(b, d)[k]]
          /\ Replayed(a, d) = [k \in Standing(a, d) |-> Replayed(a, d)[k]]
      BY ReplayedIs
    <3> QED
      BY <2>3, <2>4, <3>1
  <2> QED
    BY <2>5 DEF d
<1> QED
  BY <1>1, <1>4, <1>5 DEF s

ReplayedOK == Replayed(ownerAudit, DOMAIN ownerAudit) = rows

-----------------------------------------------------------------------------
OwnedInv ==
    /\ OwnedTypeOK /\ ViewsOK /\ IdentitiesOK /\ VacantOK /\ AcceptedOK /\ ReplayedOK
    /\ Owner!EditsAreOfWhatWasRead /\ Owner!MovesLoseNothing /\ Owner!DecidedOnItsBase

-----------------------------------------------------------------------------
LEMMA OwnedInit == Owner!OwnedInit => OwnedInv
<1> SUFFICES ASSUME Owner!OwnedInit PROVE OwnedInv
  OBVIOUS
<1>1. OwnedTypeOK
  BY DEF Owner!OwnedInit, OwnedTypeOK
<1>2. ViewsOK /\ IdentitiesOK /\ VacantOK /\ AcceptedOK
  BY DEF Owner!OwnedInit, ViewsOK, IdentitiesOK, VacantOK, Left, AcceptedOK
<1>3. Owner!EditsAreOfWhatWasRead /\ Owner!MovesLoseNothing /\ Owner!DecidedOnItsBase
  BY DEF Owner!OwnedInit, Owner!EditsAreOfWhatWasRead, Owner!MovesLoseNothing, Owner!DecidedOnItsBase
<1>4. ReplayedOK
  <2>1. ownerAudit = <<>> /\ rows = <<>> /\ DOMAIN ownerAudit = {}
    BY DEF Owner!OwnedInit
  <2> QED
    BY <2>1, NothingReplayed DEF ReplayedOK
<1> QED
  BY <1>1, <1>2, <1>3, <1>4 DEF OwnedInv

\* What the entries of the audit say stays true where entries are added.
LEMMA EntryTyped ==
    ASSUME OwnedTypeOK, NEW k \in 1 .. Len(ownerAudit)
    PROVE  ownerAudit[k] \in Entries
  BY DEF OwnedTypeOK

LEMMA StoredTyped ==
    ASSUME OwnedTypeOK, NEW key
    PROVE  Owner!Stored(key) \in Records
  BY DEF OwnedTypeOK, Owner!Stored, Owner!Absent, Records

\* Settings are only added, and decisions of the past are about versions that are there.
LEMMA SettingsGrow ==
    ASSUME OwnedTypeOK, NEW c \in Nat, ownerSettings' = Append(ownerSettings, c)
    PROVE  /\ ownerSettings' \in Seq(Nat) /\ Len(ownerSettings') = Len(ownerSettings) + 1
           /\ \A k \in 1 .. Len(ownerSettings) : ownerSettings'[k] = ownerSettings[k]
           /\ ownerSettings'[Len(ownerSettings) + 1] = c
           /\ Owner!IsPrefix(ownerSettings, ownerSettings')
<1>1. ownerSettings \in Seq(Nat) /\ Len(ownerSettings) \in Nat
  BY DEF OwnedTypeOK
<1>2. /\ ownerSettings' \in Seq(Nat) /\ Len(ownerSettings') = Len(ownerSettings) + 1
      /\ \A k \in 1 .. Len(ownerSettings) : ownerSettings'[k] = ownerSettings[k]
      /\ ownerSettings'[Len(ownerSettings) + 1] = c
  BY <1>1
<1>3. SubSeq(ownerSettings, 1, Len(ownerSettings)) = SubSeq(ownerSettings', 1, Len(ownerSettings))
  BY <1>1, <1>2
<1> QED
  BY <1>1, <1>2, <1>3 DEF Owner!IsPrefix

\* The second half of DecidedOnItsBase, as the steps below need it.
OnceAccepted ==
    \A a, b \in DOMAIN ownerProposals :
        a # b /\ ownerProposals[a].decision = "accepted" /\ ownerProposals[b].decision = "accepted" =>
            ownerProposals[a].version # ownerProposals[b].version
OnItsBase(id) ==
    /\ ownerProposals[id].decision = "accepted" =>
          /\ ownerProposals[id].version = ownerProposals[id].base + 1
          /\ ownerSettings[ownerProposals[id].version] = ownerProposals[id].content
    /\ ownerProposals[id].decision = "rejected" => ownerProposals[id].version = ownerProposals[id].base

LEMMA DecidedMeans == Owner!DecidedOnItsBase <=> OnceAccepted /\ \A id \in DOMAIN ownerProposals : OnItsBase(id)
<1>1. \A x, y : {x, y} = {"accepted"} <=> x = "accepted" /\ y = "accepted"
  OBVIOUS
<1> QED
  BY <1>1 DEF Owner!DecidedOnItsBase, OnceAccepted, OnItsBase

LEMMA DecidedMeansNext == Owner!DecidedOnItsBase' <=> OnceAccepted' /\ \A id \in DOMAIN ownerProposals' : OnItsBase(id)'
<1>1. \A x, y : {x, y} = {"accepted"} <=> x = "accepted" /\ y = "accepted"
  OBVIOUS
<1> QED
  BY <1>1 DEF Owner!DecidedOnItsBase, OnceAccepted, OnItsBase

LEMMA SamePrefix == OwnedTypeOK => Owner!IsPrefix(ownerSettings, ownerSettings)
  BY DEF OwnedTypeOK, Owner!IsPrefix

\* A step that changes neither records nor audit.
LEMMA RecordsStay ==
    ASSUME OwnedInv, UNCHANGED <<rows, ownerAudit, views>>
    PROVE  /\ ViewsOK' /\ IdentitiesOK' /\ VacantOK' /\ ReplayedOK' /\ Owner!EditsAreOfWhatWasRead' /\ Owner!MovesLoseNothing'
<1>1. \A key : Owner!Stored(key)' = Owner!Stored(key)
  BY DEF Owner!Stored
<1> QED
  BY <1>1 DEF OwnedInv, ViewsOK, IdentitiesOK, VacantOK, ReplayedOK, Left, Unmoved, Of, Owner!EditsAreOfWhatWasRead, Owner!MovesLoseNothing

LEMMA SettingsStay ==
    ASSUME OwnedInv, UNCHANGED <<ownerSettings, ownerProposals>>
    PROVE  AcceptedOK' /\ Owner!DecidedOnItsBase'
  BY DEF OwnedInv, AcceptedOK, Owner!DecidedOnItsBase

LEMMA ReadStep ==
    ASSUME OwnedInv, NEW table \in Owner!Tables, NEW day \in Days, Owner!Read(<<table, day>>)
    PROVE  OwnedInv'
<1> DEFINE key == <<table, day>>
           v == [key |-> key, row |-> Owner!Stored(key)]
<1>1. /\ views' = views \cup {v} /\ Owner!Stored(key).version # 0
      /\ UNCHANGED <<rows, ownerAudit, ownerProfile, ownerSettings, ownerProposals, revisions, serial>>
  BY DEF Owner!Read
<1>2. OwnedTypeOK /\ key \in OwnedKeys
  BY DEF OwnedInv, OwnedKeys
<1>3. v \in [key : OwnedKeys, row : Records] /\ v.row.version > 0
  <2>1. Owner!Stored(key) \in Records
    BY <1>2, StoredTyped
  <2> QED
    BY <1>1, <1>2, <2>1 DEF Records
<1>4. OwnedTypeOK'
  BY <1>1, <1>2, <1>3 DEF OwnedTypeOK
<1>5. \A k : Owner!Stored(k)' = Owner!Stored(k)
  BY <1>1 DEF Owner!Stored
<1>6. ViewsOK'
  <2>1. Owner!Stored(key).version \in Nat
    BY <1>2, StoredTyped DEF Records
  <2>2. v.key = key /\ v.row = Owner!Stored(key)
    OBVIOUS
  <2> HIDE DEF v, key
  <2> QED
    BY <1>1, <1>5, <2>1, <2>2 DEF ViewsOK, OwnedInv
<1>7. IdentitiesOK' /\ VacantOK' /\ ReplayedOK' /\ Owner!EditsAreOfWhatWasRead' /\ Owner!MovesLoseNothing'
  BY <1>1, <1>5 DEF OwnedInv, ReplayedOK, IdentitiesOK, VacantOK, Left, Unmoved, Of, Owner!EditsAreOfWhatWasRead, Owner!MovesLoseNothing
<1> QED
  BY <1>1, <1>4, <1>6, <1>7, SettingsStay DEF OwnedInv

LEMMA ReviseStep ==
    ASSUME OwnedInv, NEW at \in Days, NEW expected, Owner!Revise(at, expected)
    PROVE  OwnedInv'
<1>1. /\ ownerProfile' = Append(ownerProfile, [at |-> at, content |-> serial + 1]) /\ serial' = serial + 1
      /\ UNCHANGED <<rows, ownerAudit, views, ownerSettings, ownerProposals>>
  BY DEF Owner!Revise
<1>2. OwnedTypeOK'
  <2>1. [at |-> at, content |-> serial + 1] \in [at : Days, content : Nat] /\ serial \in Nat
    BY DEF OwnedInv, OwnedTypeOK
  <2>2. ownerProfile' \in Seq([at : Days, content : Nat])
    BY <1>1, <2>1 DEF OwnedInv, OwnedTypeOK
  <2> QED
    BY <1>1, <2>1, <2>2 DEF OwnedInv, OwnedTypeOK
<1> QED
  BY <1>1, <1>2, RecordsStay, SettingsStay DEF OwnedInv

LEMMA SaveOwnerSettingsStep ==
    ASSUME OwnedInv, NEW expected, Owner!SaveSettings(expected)
    PROVE  OwnedInv' /\ Owner!IsPrefix(ownerSettings, ownerSettings')
<1>1. /\ ownerSettings' = Append(ownerSettings, serial + 1) /\ serial' = serial + 1
      /\ UNCHANGED <<rows, ownerAudit, views, ownerProfile, ownerProposals>> /\ serial \in Nat /\ OwnedTypeOK
  BY DEF Owner!SaveSettings, OwnedInv, OwnedTypeOK
<1>2. /\ ownerSettings' \in Seq(Nat) /\ Len(ownerSettings') = Len(ownerSettings) + 1
      /\ \A k \in 1 .. Len(ownerSettings) : ownerSettings'[k] = ownerSettings[k]
      /\ Owner!IsPrefix(ownerSettings, ownerSettings')
  BY <1>1, SettingsGrow
<1>3. OwnedTypeOK'
  BY <1>1, <1>2 DEF OwnedTypeOK
<1>4. AcceptedOK'
  BY <1>1, <1>2 DEF OwnedInv, AcceptedOK, OwnedTypeOK
<1>5. Owner!DecidedOnItsBase'
  <2>1. AcceptedOK /\ OnceAccepted /\ \A id \in DOMAIN ownerProposals : OnItsBase(id)
    BY DecidedMeans DEF OwnedInv
  <2>2. OnceAccepted' /\ \A id \in DOMAIN ownerProposals' : OnItsBase(id)'
    BY <1>1, <1>2, <2>1 DEF OnceAccepted, OnItsBase, AcceptedOK
  <2> QED
    BY <2>2, DecidedMeansNext
<1> QED
  BY <1>1, <1>2, <1>3, <1>4, <1>5, RecordsStay DEF OwnedInv

LEMMA ProposeStep ==
    ASSUME OwnedInv, NEW id \in Proposals, NEW base \in 0 .. Len(ownerSettings), Owner!Propose(id, base)
    PROVE  OwnedInv'
<1> DEFINE new == [content |-> serial + 1, base |-> base, decision |-> "undecided", version |-> 0]
<1>1. /\ ownerProposals' = Owner!Put(ownerProposals, id, new) /\ serial' = serial + 1 /\ id \notin DOMAIN ownerProposals
      /\ UNCHANGED <<rows, ownerAudit, views, ownerProfile, ownerSettings, revisions>> /\ serial \in Nat /\ OwnedTypeOK
  BY DEF Owner!Propose, Owner!Undecided, OwnedInv, OwnedTypeOK
<1>2. new \in Decisions /\ new.decision = "undecided"
  BY <1>1 DEF Decisions, OwnedTypeOK
<1> HIDE DEF new
<1>3. /\ DOMAIN ownerProposals' = DOMAIN ownerProposals \cup {id} /\ ownerProposals'[id] = new
      /\ \A x \in DOMAIN ownerProposals : ownerProposals'[x] = ownerProposals[x]
  BY <1>1 DEF Owner!Put
<1>4. OwnedTypeOK'
  BY <1>1, <1>2, <1>3 DEF OwnedTypeOK
<1>5. AcceptedOK' /\ Owner!DecidedOnItsBase'
  <2>1. AcceptedOK /\ OnceAccepted /\ \A x \in DOMAIN ownerProposals : OnItsBase(x)
    BY DecidedMeans DEF OwnedInv
  <2>2. AcceptedOK' /\ OnceAccepted' /\ \A x \in DOMAIN ownerProposals' : OnItsBase(x)'
    BY <1>1, <1>2, <1>3, <2>1 DEF OnceAccepted, OnItsBase, AcceptedOK
  <2> QED
    BY <2>2, DecidedMeansNext
<1> QED
  BY <1>1, <1>4, <1>5, RecordsStay DEF OwnedInv

LEMMA DecideOwnedStep ==
    ASSUME OwnedInv, NEW id, NEW decision \in {"accepted", "rejected"}, NEW expected, Owner!Decide(id, decision, expected)
    PROVE  OwnedInv' /\ Owner!IsPrefix(ownerSettings, ownerSettings')
<1> DEFINE p == ownerProposals[id]
           n == Len(ownerSettings)
           m == Len(ownerSettings')
           next == [p EXCEPT !.decision = decision, !.version = m]
<1>1. /\ id \in DOMAIN ownerProposals /\ p.base = n /\ p.decision = "undecided"
      /\ ownerProposals' = [ownerProposals EXCEPT ![id] = next]
      /\ ownerSettings' = IF decision = "accepted" THEN Append(ownerSettings, p.content) ELSE ownerSettings
      /\ UNCHANGED <<rows, ownerAudit, views, ownerProfile, serial>> /\ OwnedTypeOK
  BY DEF Owner!Decide, Owner!Decidable, Owner!Undecided, OwnedInv
<1>2. p \in Decisions /\ p.content \in Nat /\ n \in Nat
  BY <1>1 DEF OwnedTypeOK, Decisions
<1>3. /\ ownerSettings' \in Seq(Nat) /\ Len(ownerSettings') = IF decision = "accepted" THEN n + 1 ELSE n
      /\ \A k \in 1 .. n : ownerSettings'[k] = ownerSettings[k]
      /\ decision = "accepted" => ownerSettings'[n + 1] = p.content
      /\ Owner!IsPrefix(ownerSettings, ownerSettings')
  <2>1. CASE decision = "accepted"
    BY <1>1, <1>2, <2>1, SettingsGrow
  <2>2. CASE decision # "accepted"
    BY <1>1, <1>2, <2>2, SamePrefix DEF OwnedTypeOK
  <2> QED
    BY <2>1, <2>2
<1>4. /\ next \in Decisions /\ next.decision = decision /\ next.version = Len(ownerSettings')
      /\ next.base = n /\ next.content = p.content
  <2>1. Len(ownerSettings') \in Nat
    BY <1>2, <1>3
  <2>2. /\ next \in Decisions /\ next.decision = decision /\ next.version = Len(ownerSettings')
        /\ next.base = p.base /\ next.content = p.content
    <3> HIDE DEF p, m
    <3>1. /\ next \in Decisions /\ next.decision = decision /\ next.version = m
          /\ next.base = p.base /\ next.content = p.content
      <4>1. m \in Nat /\ p \in Decisions
        BY <1>2, <2>1 DEF m
      <4> QED
        BY <4>1 DEF Decisions
    <3> QED
      BY <3>1 DEF m, p
  <2> HIDE DEF next
  <2> QED
    BY <1>1, <2>2
<1> HIDE DEF next
<1>5. OwnedTypeOK'
  BY <1>1, <1>3, <1>4 DEF OwnedTypeOK
<1>6. /\ DOMAIN ownerProposals' = DOMAIN ownerProposals /\ ownerProposals'[id] = next
      /\ \A x \in DOMAIN ownerProposals : x # id => ownerProposals'[x] = ownerProposals[x]
  BY <1>1
<1>7. AcceptedOK'
  BY <1>2, <1>3, <1>4, <1>6 DEF OwnedInv, AcceptedOK
<1>8. Owner!DecidedOnItsBase'
  <2>1. ASSUME NEW x \in DOMAIN ownerProposals
        PROVE  /\ ownerProposals'[x].decision = "accepted" =>
                    /\ ownerProposals'[x].version = ownerProposals'[x].base + 1
                    /\ ownerSettings'[ownerProposals'[x].version] = ownerProposals'[x].content
               /\ ownerProposals'[x].decision = "rejected" => ownerProposals'[x].version = ownerProposals'[x].base
    <3>1. CASE x = id
      BY <1>2, <1>3, <1>4, <1>6, <3>1
    <3>2. CASE x # id
      <4>1. ownerProposals'[x] = ownerProposals[x]
        BY <1>6, <3>2
      <4> QED
        BY <1>2, <1>3, <4>1 DEF OwnedInv, AcceptedOK, Owner!DecidedOnItsBase
    <3> QED
      BY <3>1, <3>2
  <2>2. ASSUME NEW x \in DOMAIN ownerProposals, x # id, ownerProposals'[x].decision = "accepted", decision = "accepted"
        PROVE  ownerProposals'[x].version # ownerProposals'[id].version
    <3>1. ownerProposals[x].version \in 1 .. n
      BY <1>6, <2>2 DEF OwnedInv, AcceptedOK
    <3> QED
      BY <1>2, <1>3, <1>4, <1>6, <2>2, <3>1
  <2>3. ASSUME NEW a \in DOMAIN ownerProposals, NEW b \in DOMAIN ownerProposals, a # b,
               ownerProposals'[a].decision = "accepted", ownerProposals'[b].decision = "accepted"
        PROVE  ownerProposals'[a].version # ownerProposals'[b].version
    <3>1. CASE a = id
      BY <1>4, <1>6, <2>2, <2>3, <3>1
    <3>2. CASE b = id
      BY <1>4, <1>6, <2>2, <2>3, <3>2
    <3>3. CASE a # id /\ b # id
      BY <1>6, <2>3, <3>3 DEF OwnedInv, Owner!DecidedOnItsBase
    <3> QED
      BY <3>1, <3>2, <3>3
  <2>4. \A a, b : {ownerProposals'[a].decision, ownerProposals'[b].decision} = {"accepted"} =>
           ownerProposals'[a].decision = "accepted" /\ ownerProposals'[b].decision = "accepted"
    OBVIOUS
  <2> QED
    BY <1>6, <2>1, <2>3, <2>4 DEF Owner!DecidedOnItsBase
<1> QED
  BY <1>1, <1>3, <1>5, <1>7, <1>8, RecordsStay DEF OwnedInv

\* A record that is put in a place is found there, and the others are found where they were.
LEMMA PutAndFound ==
    ASSUME NEW key, NEW row, rows' = Owner!Put(rows, key, row)
    PROVE  /\ DOMAIN rows' = DOMAIN rows \cup {key} /\ rows'[key] = row
           /\ \A k \in DOMAIN rows : k # key => rows'[k] = rows[k]
           /\ Owner!Stored(key)' = row /\ \A k : k # key => Owner!Stored(k)' = Owner!Stored(k)
<1>1. DOMAIN rows' = DOMAIN rows \cup {key} /\ rows'[key] = row /\ \A k \in DOMAIN rows : k # key => rows'[k] = rows[k]
  BY DEF Owner!Put
<1> QED
  BY <1>1 DEF Owner!Stored

LEMMA SaveStep ==
    ASSUME OwnedInv, NEW table \in Owner!Tables, NEW day \in Days, NEW source \in Sources \cup {0},
           NEW expected, NEW seen, Owner!Save(table, day, expected, seen, source),
           \/ expected = Owner!Unconditional /\ seen = 0
           \/ \E v \in views : v.key = <<table, day>> /\ expected = v.row.version /\ seen = v.row.content
    PROVE  OwnedInv'
<1> DEFINE key == <<table, day>>
           old == Owner!Stored(key)
           new == [version |-> old.version + 1, content |-> serial + 1, source |-> Owner!Identity(old, source)]
           e == [table |-> table, day |-> day, act |-> "save", row |-> new, before |-> old.content, seen |-> seen]
           n == Len(ownerAudit)
<1>1. /\ rows' = Owner!Put(rows, key, new) /\ ownerAudit' = Append(ownerAudit, e) /\ serial' = serial + 1
      /\ Owner!Expected(key, expected) /\ Owner!SameIdentity(old, source)
      /\ UNCHANGED <<views, ownerProfile, ownerSettings, ownerProposals>> /\ OwnedTypeOK
  BY DEF Owner!Save, OwnedInv
<1>2. old \in Records /\ old.version \in Nat /\ old.content \in Nat /\ old.source \in Sources \cup {0} /\ serial \in Nat
  BY <1>1, StoredTyped DEF OwnedTypeOK, Records
<1>3. /\ new \in Records /\ new.version = old.version + 1 /\ new.source = Owner!Identity(old, source)
      /\ old.source # 0 => new.source = old.source
  BY <1>1, <1>2 DEF Records, Owner!Identity, Owner!SameIdentity
<1>4. /\ seen \in Nat
      /\ seen # 0 /\ table # "reading" => old.content = seen
  <2>1. CASE expected = Owner!Unconditional /\ seen = 0
    BY <2>1
  <2>2. ASSUME NEW v \in views, v.key = key, expected = v.row.version, seen = v.row.content
        PROVE  seen \in Nat /\ (table # "reading" => old.content = seen)
    <3>1. v.row \in Records /\ v.row.version > 0 /\ v.row.version \in Nat /\ v.row.content \in Nat
      BY <1>1, <2>2 DEF OwnedTypeOK, Records
    <3>2. v.row.version = old.version
      BY <1>1, <2>2, <3>1 DEF Owner!Expected, Owner!Unconditional
    <3>3. v.key[1] = table
      BY <2>2
    <3> HIDE DEF key
    <3> QED
      BY <2>2, <3>1, <3>2, <3>3 DEF OwnedInv, ViewsOK
  <2> QED
    BY <2>1, <2>2
<1>5. /\ e \in Entries /\ e.table = table /\ e.day = day /\ e.act = "save" /\ e.row = new
      /\ e.before = old.content /\ e.seen = seen
  BY <1>2, <1>3, <1>4 DEF Entries
<1>6. key \in OwnedKeys /\ key[1] = table /\ key[2] = day
  BY DEF OwnedKeys
<1>7. /\ ownerAudit' \in Seq(Entries) /\ n \in Nat /\ Len(ownerAudit') = n + 1 /\ ownerAudit'[n + 1] = e
      /\ \A k \in 1 .. n : ownerAudit'[k] = ownerAudit[k]
  BY <1>1, <1>5 DEF OwnedTypeOK
<1>8. /\ DOMAIN rows' = DOMAIN rows \cup {key} /\ rows'[key] = new
      /\ \A k \in DOMAIN rows : k # key => rows'[k] = rows[k]
      /\ Owner!Stored(key)' = new /\ \A k : k # key => Owner!Stored(k)' = Owner!Stored(k)
  BY <1>1, PutAndFound
<1> HIDE DEF new, e
<1>9. OwnedTypeOK'
  <2>1. \A k \in DOMAIN rows' : rows'[k] \in Records /\ rows'[k].version > 0
    <3> HIDE DEF key, old
    <3>1. new \in Records /\ new.version > 0
      BY <1>2, <1>3
    <3>2. \A k \in DOMAIN rows : rows[k] \in Records /\ rows[k].version > 0
      BY <1>1 DEF OwnedTypeOK
    <3> QED
      BY <1>8, <3>1, <3>2
  <2>2. DOMAIN rows' \subseteq OwnedKeys
    BY <1>1, <1>6, <1>8 DEF OwnedTypeOK
  <2>3. serial' \in Nat
    BY <1>1, <1>2
  <2> QED
    BY <1>1, <1>7, <2>1, <2>2, <2>3 DEF OwnedTypeOK
<1>10. ViewsOK'
  <2>1. ASSUME NEW v \in views, v.key[1] # "reading"
        PROVE  /\ v.row.version <= Owner!Stored(v.key)'.version
               /\ v.row.version = Owner!Stored(v.key)'.version => v.row.content = Owner!Stored(v.key)'.content
    <3>1. /\ v.row.version <= Owner!Stored(v.key).version /\ v.row.version \in Nat
          /\ v.row.version = Owner!Stored(v.key).version => v.row.content = Owner!Stored(v.key).content
      BY <1>1, <2>1 DEF OwnedInv, ViewsOK, OwnedTypeOK, Records
    <3>2. CASE v.key = key
      <4> HIDE DEF key
      <4> QED
        BY <1>2, <1>3, <1>8, <3>1, <3>2
    <3>3. CASE v.key # key
      BY <1>8, <3>1, <3>3
    <3> QED
      BY <3>2, <3>3
  <2> HIDE DEF key
  <2> QED
    BY <1>1, <2>1 DEF ViewsOK
<1>11. ASSUME NEW j \in 1 .. n, ownerAudit[j].row.source # 0, Unmoved(ownerAudit', j, n + 1),
              NEW place, place = <<ownerAudit[j].table, ownerAudit[j].day>>
       PROVE  Owner!Stored(place)'.source = ownerAudit[j].row.source
  <2>1. Unmoved(ownerAudit, j, n)
    BY <1>7, <1>11 DEF Unmoved
  <2>2. Owner!Stored(place).source = ownerAudit[j].row.source
    BY <1>11, <2>1 DEF OwnedInv, IdentitiesOK
  <2> HIDE DEF key
  <2>3. CASE place = key
    BY <1>3, <1>8, <1>11, <2>2, <2>3
  <2>4. CASE place # key
    BY <1>8, <2>2, <2>4
  <2> QED
    BY <2>2, <2>3, <2>4
<1>12. IdentitiesOK'
  <2>1. ASSUME NEW j \in 1 .. n + 1, ownerAudit'[j].row.source # 0, Unmoved(ownerAudit', j, n + 1),
               NEW place, place = <<ownerAudit'[j].table, ownerAudit'[j].day>>
        PROVE  Owner!Stored(place)'.source = ownerAudit'[j].row.source
    <3>1. CASE j = n + 1
      <4>1. ownerAudit'[j] = e
        BY <1>7, <3>1
      <4>2. place = key
        BY <1>5, <2>1, <4>1
      <4> HIDE DEF key
      <4> QED
        BY <1>5, <1>8, <4>1, <4>2
    <3>2. CASE j \in 1 .. n
      <4>1. ownerAudit'[j] = ownerAudit[j]
        BY <1>7, <3>2
      <4> QED
        BY <1>11, <2>1, <3>2, <4>1
    <3> QED
      BY <1>7, <3>1, <3>2
  <2>2. Len(ownerAudit)' = n + 1
    BY <1>7
  <2>3. ASSUME NEW place, NEW j \in 1 .. n + 1, ownerAudit'[j].row.source # 0, Unmoved(ownerAudit', j, n + 1),
               place = <<ownerAudit'[j].table, ownerAudit'[j].day>>
        PROVE  Owner!Stored(place)'.source = ownerAudit'[j].row.source
    BY <2>1, <2>3
  <2> QED
    BY <2>2, <2>3 DEF IdentitiesOK, Owner!Stored
<1>13. VacantOK'
  <2>1. ASSUME NEW d \in Days, <<"reading", d>> \notin DOMAIN rows', NEW j \in 1 .. n + 1,
               Of(ownerAudit'[j], "reading", d), ownerAudit'[j].act # "move_from"
        PROVE  \E i \in j + 1 .. n + 1 : Of(ownerAudit'[i], "reading", d)
    <3>1. j \in 1 .. n
      <4>1. j # n + 1
        BY <1>5, <1>7, <1>8, <2>1 DEF Of
      <4> QED
        BY <1>7, <4>1
    <3>2. <<"reading", d>> \notin DOMAIN rows
      BY <1>8, <2>1
    <3>3. PICK i \in j + 1 .. n : Of(ownerAudit[i], "reading", d)
      BY <1>7, <2>1, <3>1, <3>2 DEF OwnedInv, VacantOK, Left
    <3> QED
      BY <1>7, <3>1, <3>3
  <2>2. Len(ownerAudit)' = n + 1
    BY <1>7
  <2> HIDE DEF key
  <2> QED
    BY <2>1, <2>2 DEF VacantOK, Left, Of
<1>14. Owner!EditsAreOfWhatWasRead'
  <2>1. ASSUME NEW k \in 1 .. n + 1
        PROVE  /\ ownerAudit'[k].seen # 0 /\ ownerAudit'[k].table # "reading" => ownerAudit'[k].before = ownerAudit'[k].seen
               /\ \A j \in 1 .. k : ownerAudit'[j].table = ownerAudit'[k].table /\ ownerAudit'[j].day = ownerAudit'[k].day
                     /\ ownerAudit'[j].row.source # 0
                     /\ (\A i \in j .. k : ownerAudit'[i].table = "reading" => ownerAudit'[i].act = "save") =>
                        ownerAudit'[k].row.source = ownerAudit'[j].row.source
    <3>1. CASE k \in 1 .. n
      <4>1. \A i \in 1 .. k : ownerAudit'[i] = ownerAudit[i]
        BY <1>7, <3>1
      <4>2. \A j \in 1 .. k : \A i \in j .. k : i \in 1 .. k
        BY <1>7, <3>1
      <4> QED
        BY <1>7, <3>1, <4>1, <4>2 DEF OwnedInv, Owner!EditsAreOfWhatWasRead
    <3>2. CASE k = n + 1
      <4>1. ownerAudit'[k] = e
        BY <1>7, <3>2
      <4>2. ASSUME NEW j \in 1 .. n, ownerAudit'[j].table = table, ownerAudit'[j].day = day, ownerAudit'[j].row.source # 0,
                   \A i \in j .. k : ownerAudit'[i].table = "reading" => ownerAudit'[i].act = "save"
            PROVE  new.source = ownerAudit'[j].row.source
        <5>1. ownerAudit'[j] = ownerAudit[j] /\ Unmoved(ownerAudit', j, n + 1)
          BY <1>7, <3>2, <4>2 DEF Unmoved
        <5>2. <<ownerAudit[j].table, ownerAudit[j].day>> = key
          BY <4>2, <5>1
        <5>3. Owner!Stored(key)'.source = ownerAudit[j].row.source
          BY <1>11, <4>2, <5>1, <5>2
        <5> HIDE DEF key
        <5> QED
          BY <1>8, <5>1, <5>2, <5>3
      <4>3. \A j \in 1 .. k : j = k \/ j \in 1 .. n
        BY <1>7, <3>2
      <4> QED
        BY <1>4, <1>5, <4>1, <4>2, <4>3
    <3> QED
      BY <1>7, <3>1, <3>2
  <2>2. Len(ownerAudit)' = n + 1
    BY <1>7
  <2> QED
    BY <2>1, <2>2 DEF Owner!EditsAreOfWhatWasRead
<1>15. Owner!MovesLoseNothing'
  <2>1. ASSUME NEW k \in 1 .. n + 1, ownerAudit'[k].act = "move_to", NEW j \in 1 .. k - 1,
               ownerAudit'[j].table = "reading", ownerAudit'[j].day = ownerAudit'[k].day, ownerAudit'[j].act # "move_from"
        PROVE  \E i \in j + 1 .. k - 1 : ownerAudit'[i].table = "reading" /\ ownerAudit'[i].day = ownerAudit'[k].day
    <3>1. k \in 1 .. n
      BY <1>5, <1>7, <2>1
    <3>2. \A i \in 1 .. k : ownerAudit'[i] = ownerAudit[i]
      BY <1>7, <3>1
    <3>3. PICK i \in j + 1 .. k - 1 : ownerAudit[i].table = "reading" /\ ownerAudit[i].day = ownerAudit[k].day
      BY <1>7, <2>1, <3>1, <3>2 DEF OwnedInv, Owner!MovesLoseNothing
    <3>4. i \in 1 .. k /\ k \in 1 .. k
      BY <1>7, <3>1, <3>3
    <3> QED
      BY <3>2, <3>3, <3>4
  <2>2. Len(ownerAudit)' = n + 1
    BY <1>7
  <2> QED
    BY <2>1, <2>2 DEF Owner!MovesLoseNothing
<1>16. ReplayedOK'
  <2>1. /\ Replayed(ownerAudit', DOMAIN ownerAudit') = Replay(Replayed(ownerAudit, DOMAIN ownerAudit), e)
        /\ Replayed(ownerAudit, DOMAIN ownerAudit) = rows
    BY <1>1, <1>5, EntryAdded DEF OwnedTypeOK, OwnedInv, ReplayedOK
  <2>2. Replay(rows, e) = Owner!Put(rows, key, new)
    BY <1>5 DEF Replay, Place
  <2> QED
    BY <1>1, <2>1, <2>2 DEF ReplayedOK
<1> QED
  BY <1>1, <1>9, <1>10, <1>12, <1>13, <1>14, <1>15, <1>16, SettingsStay DEF OwnedInv

LEMMA MoveStep ==
    ASSUME OwnedInv, NEW from \in Days, NEW to \in Days, NEW expected, Owner!Move(from, to, expected)
    PROVE  OwnedInv'
<1> DEFINE old == Owner!Stored(<<"reading", from>>)
           new == [old EXCEPT !.version = expected + 1]
           left == [table |-> "reading", day |-> from, act |-> "move_from", row |-> old, before |-> 0, seen |-> 0]
           put == [table |-> "reading", day |-> to, act |-> "move_to", row |-> new, before |-> 0, seen |-> 0]
           n == Len(ownerAudit)
<1>1. /\ from # to /\ old.version = expected
      /\ <<"reading", from>> \in DOMAIN rows /\ <<"reading", to>> \notin DOMAIN rows
      /\ rows' = Owner!Kept(Owner!Put(rows, <<"reading", to>>, new), <<"reading", from>>)
      /\ ownerAudit' = ownerAudit \o <<left, put>> /\ serial' = serial + 1
      /\ UNCHANGED <<views, ownerProfile, ownerSettings, ownerProposals>> /\ OwnedTypeOK
  BY DEF Owner!Move, Owner!Free, OwnedInv
<1>2. old \in Records /\ old.version \in Nat
  BY <1>1, StoredTyped DEF Records
<1>3. new \in Records /\ new.version > 0
  <2> HIDE DEF old
  <2>1. expected + 1 \in Nat /\ expected + 1 > 0
    BY <1>1, <1>2
  <2>2. new \in Records
    BY <1>2, <2>1 DEF Records
  <2>3. new.version = expected + 1
    BY <1>2 DEF Records
  <2> QED
    BY <2>1, <2>2, <2>3
<1>4. /\ left \in Entries /\ left.table = "reading" /\ left.day = from /\ left.act = "move_from" /\ left.seen = 0
      /\ put \in Entries /\ put.table = "reading" /\ put.day = to /\ put.act = "move_to" /\ put.seen = 0
  <2> HIDE DEF old, new
  <2> QED
    BY <1>2, <1>3 DEF Entries, Owner!Tables
<1> HIDE DEF old, new, left, put
<1>5. /\ ownerAudit' \in Seq(Entries) /\ n \in Nat /\ Len(ownerAudit') = n + 2
      /\ ownerAudit'[n + 1] = left /\ ownerAudit'[n + 2] = put
      /\ \A k \in 1 .. n : ownerAudit'[k] = ownerAudit[k]
  BY <1>1, <1>4 DEF OwnedTypeOK
<1>6. /\ DOMAIN rows' = (DOMAIN rows \cup {<<"reading", to>>}) \ {<<"reading", from>>}
      /\ \A k \in DOMAIN rows' : rows'[k] = IF k = <<"reading", to>> THEN new ELSE rows[k]
  BY <1>1 DEF Owner!Put, Owner!Kept
<1>7. OwnedTypeOK'
  <2>1. \A k \in DOMAIN rows' : rows'[k] \in Records /\ rows'[k].version > 0
    BY <1>1, <1>3, <1>6 DEF OwnedTypeOK
  <2>2. DOMAIN rows' \subseteq OwnedKeys
    <3>1. <<"reading", to>> \in OwnedKeys
      BY DEF OwnedKeys, Owner!Tables
    <3> QED
      BY <1>1, <1>6, <3>1 DEF OwnedTypeOK
  <2>3. serial' \in Nat
    BY <1>1 DEF OwnedTypeOK
  <2> QED
    BY <1>1, <1>5, <2>1, <2>2, <2>3 DEF OwnedTypeOK
<1>8. ViewsOK'
  <2>1. ASSUME NEW v \in views, v.key[1] # "reading"
        PROVE  Owner!Stored(v.key)' = Owner!Stored(v.key)
    <3>1. v.key # <<"reading", to>> /\ v.key # <<"reading", from>>
      BY <2>1
    <3> QED
      BY <1>6, <3>1 DEF Owner!Stored
  <2> QED
    BY <1>1, <2>1 DEF ViewsOK, OwnedInv
<1>9. ASSUME NEW j \in 1 .. n + 2
      PROVE  ~Unmoved(ownerAudit', j, n + 2)
  BY <1>4, <1>5 DEF Unmoved
<1>10. IdentitiesOK'
  <2>1. Len(ownerAudit)' = n + 2
    BY <1>5
  <2> QED
    BY <1>9, <2>1 DEF IdentitiesOK
<1>11. VacantOK'
  <2>1. ASSUME NEW d \in Days, <<"reading", d>> \notin DOMAIN rows', NEW j \in 1 .. n + 2,
               Of(ownerAudit'[j], "reading", d), ownerAudit'[j].act # "move_from"
        PROVE  \E i \in j + 1 .. n + 2 : Of(ownerAudit'[i], "reading", d)
    <3>1. d # to
      <4>1. <<"reading", to>> \in DOMAIN rows'
        BY <1>1, <1>6
      <4> QED
        BY <2>1, <4>1
    <3>2. j \in 1 .. n
      BY <1>4, <1>5, <2>1, <3>1 DEF Of
    <3>3. CASE d = from
      BY <1>4, <1>5, <3>2, <3>3 DEF Of
    <3>4. CASE d # from
      <4>1. <<"reading", d>> \notin DOMAIN rows
        BY <1>6, <2>1, <3>4
      <4>2. PICK i \in j + 1 .. n : Of(ownerAudit[i], "reading", d)
        BY <1>5, <2>1, <3>2, <4>1 DEF OwnedInv, VacantOK, Left
      <4> QED
        BY <1>5, <3>2, <4>2
    <3> QED
      BY <3>3, <3>4
  <2>2. Len(ownerAudit)' = n + 2
    BY <1>5
  <2> QED
    BY <2>1, <2>2 DEF VacantOK, Left, Of
<1>12. Owner!EditsAreOfWhatWasRead'
  <2>1. ASSUME NEW k \in 1 .. n + 2
        PROVE  /\ ownerAudit'[k].seen # 0 /\ ownerAudit'[k].table # "reading" => ownerAudit'[k].before = ownerAudit'[k].seen
               /\ \A j \in 1 .. k : ownerAudit'[j].table = ownerAudit'[k].table /\ ownerAudit'[j].day = ownerAudit'[k].day
                     /\ ownerAudit'[j].row.source # 0
                     /\ (\A i \in j .. k : ownerAudit'[i].table = "reading" => ownerAudit'[i].act = "save") =>
                        ownerAudit'[k].row.source = ownerAudit'[j].row.source
    <3>1. CASE k \in 1 .. n
      <4>1. \A i \in 1 .. k : ownerAudit'[i] = ownerAudit[i]
        BY <1>5, <3>1
      <4>2. \A j \in 1 .. k : \A i \in j .. k : i \in 1 .. k
        BY <1>5, <3>1
      <4> QED
        BY <1>5, <3>1, <4>1, <4>2 DEF OwnedInv, Owner!EditsAreOfWhatWasRead
    <3>2. CASE k \in {n + 1, n + 2}
      <4>1. ownerAudit'[k].table = "reading" /\ ownerAudit'[k].act # "save"
        BY <1>4, <1>5, <3>2
      <4>2. \A j \in 1 .. k : k \in j .. k
        BY <1>5, <3>2
      <4> QED
        BY <4>1, <4>2
    <3> QED
      BY <1>5, <3>1, <3>2
  <2>2. Len(ownerAudit)' = n + 2
    BY <1>5
  <2> QED
    BY <2>1, <2>2 DEF Owner!EditsAreOfWhatWasRead
<1>13. Owner!MovesLoseNothing'
  <2>1. ASSUME NEW k \in 1 .. n + 2, ownerAudit'[k].act = "move_to", NEW j \in 1 .. k - 1,
               ownerAudit'[j].table = "reading", ownerAudit'[j].day = ownerAudit'[k].day, ownerAudit'[j].act # "move_from"
        PROVE  \E i \in j + 1 .. k - 1 : ownerAudit'[i].table = "reading" /\ ownerAudit'[i].day = ownerAudit'[k].day
    <3>1. CASE k \in 1 .. n
      <4>1. \A i \in 1 .. k : ownerAudit'[i] = ownerAudit[i]
        BY <1>5, <3>1
      <4>2. PICK i \in j + 1 .. k - 1 : ownerAudit[i].table = "reading" /\ ownerAudit[i].day = ownerAudit[k].day
        BY <1>5, <2>1, <3>1, <4>1 DEF OwnedInv, Owner!MovesLoseNothing
      <4>3. i \in 1 .. k /\ k \in 1 .. k
        BY <1>5, <3>1, <4>2
      <4> QED
        BY <4>1, <4>2, <4>3
    <3>2. CASE k \notin 1 .. n
      <4>1. k = n + 2 /\ ownerAudit'[k].day = to
        BY <1>4, <1>5, <2>1, <3>2
      <4>2. j \in 1 .. n
        BY <1>1, <1>4, <1>5, <2>1, <4>1
      <4>3. PICK i \in j + 1 .. n : Of(ownerAudit[i], "reading", to)
        <5>1. Left(to, n)
          BY <1>1 DEF OwnedInv, VacantOK
        <5>2. Of(ownerAudit[j], "reading", to) /\ ownerAudit[j].act # "move_from"
          BY <1>5, <2>1, <4>1, <4>2 DEF Of
        <5> QED
          BY <4>2, <5>1, <5>2 DEF Left
      <4>4. i \in 1 .. n /\ i \in j + 1 .. k - 1
        BY <1>5, <4>1, <4>2, <4>3
      <4> QED
        BY <1>5, <4>1, <4>3, <4>4 DEF Of
    <3> QED
      BY <3>1, <3>2
  <2>2. Len(ownerAudit)' = n + 2
    BY <1>5
  <2> QED
    BY <2>1, <2>2 DEF Owner!MovesLoseNothing
<1>14. ReplayedOK'
  <2> DEFINE b == Append(ownerAudit, left)
  <2>1. ownerAudit' = Append(b, put)
    BY <1>1, <1>4 DEF OwnedTypeOK
  <2>2. /\ Replayed(b, DOMAIN b) = Replay(rows, left) /\ b \in Seq(Entries)
    BY <1>1, <1>4, EntryAdded DEF OwnedTypeOK, OwnedInv, ReplayedOK
  <2> HIDE DEF b
  <2>3. Replayed(ownerAudit', DOMAIN ownerAudit') = Replay(Replay(rows, left), put)
    BY <1>4, <2>1, <2>2, EntryAdded
  <2>4. Replay(rows, left) = Owner!Kept(rows, <<"reading", from>>)
    BY <1>4 DEF Replay, Place
  <2>5. \A f : Replay(f, put) = Owner!Put(f, <<"reading", to>>, new)
    BY <1>4 DEF Replay, Place, put
  <2>6. Owner!Put(Owner!Kept(rows, <<"reading", from>>), <<"reading", to>>, new) = rows'
    <3> DEFINE here == <<"reading", from>>
               there == <<"reading", to>>
    <3>1. here # there /\ rows' = Owner!Kept(Owner!Put(rows, there, new), here)
      BY <1>1
    <3> HIDE DEF here, there
    <3> QED
      BY <3>1 DEF Owner!Put, Owner!Kept, here, there
  <2> QED
    BY <2>3, <2>4, <2>5, <2>6 DEF ReplayedOK
<1> QED
  BY <1>1, <1>7, <1>8, <1>10, <1>11, <1>12, <1>13, <1>14, SettingsStay DEF OwnedInv

LEMMA OwnedStep ==
    ASSUME OwnedInv, [Owner!OwnedNext]_Owner!owned
    PROVE  OwnedInv' /\ Owner!IsPrefix(ownerSettings, ownerSettings')
<1>1. CASE UNCHANGED Owner!owned
  <2>1. /\ UNCHANGED <<rows, ownerAudit, views>> /\ UNCHANGED <<ownerSettings, ownerProposals>>
        /\ UNCHANGED <<ownerProfile, serial>>
    BY <1>1 DEF Owner!owned
  <2>2. OwnedTypeOK'
    BY <2>1 DEF OwnedInv, OwnedTypeOK
  <2> QED
    BY <2>1, <2>2, RecordsStay, SettingsStay, SamePrefix DEF OwnedInv
<1>2. ASSUME NEW table \in Owner!Tables, NEW day \in Days, Owner!Read(<<table, day>>)
      PROVE  OwnedInv' /\ Owner!IsPrefix(ownerSettings, ownerSettings')
  BY <1>2, ReadStep, SamePrefix DEF OwnedInv, Owner!Read
<1>3. ASSUME NEW table \in Owner!Tables, NEW day \in Days, NEW source \in Sources \cup {0}, NEW expected, NEW seen,
             Owner!Save(table, day, expected, seen, source),
             \/ expected = Owner!Unconditional /\ seen = 0
             \/ \E v \in views : v.key = <<table, day>> /\ expected = v.row.version /\ seen = v.row.content
      PROVE  OwnedInv' /\ Owner!IsPrefix(ownerSettings, ownerSettings')
  <2>1. OwnedInv'
    BY <1>3, SaveStep
  <2> QED
    BY <1>3, <2>1, SamePrefix DEF OwnedInv, Owner!Save
<1>4. ASSUME NEW v \in views PROVE v.key = <<v.key[1], v.key[2]>> /\ v.key[1] \in Owner!Tables /\ v.key[2] \in Days
  BY <1>4 DEF OwnedInv, OwnedTypeOK, OwnedKeys
<1>5. ASSUME NEW v \in views, v.key[1] = "reading", NEW to \in Days, Owner!Move(v.key[2], to, v.row.version)
      PROVE  OwnedInv' /\ Owner!IsPrefix(ownerSettings, ownerSettings')
  <2>1. OwnedInv'
    BY <1>4, <1>5, MoveStep
  <2> QED
    BY <1>5, <2>1, SamePrefix DEF OwnedInv, Owner!Move
<1>6. ASSUME NEW at \in Days, NEW expected, Owner!Revise(at, expected)
      PROVE  OwnedInv' /\ Owner!IsPrefix(ownerSettings, ownerSettings')
  BY <1>6, ReviseStep, SamePrefix DEF OwnedInv, Owner!Revise
<1>7. ASSUME NEW id \in Proposals, NEW base \in 0 .. Len(ownerSettings), Owner!Propose(id, base)
      PROVE  OwnedInv' /\ Owner!IsPrefix(ownerSettings, ownerSettings')
  BY <1>7, ProposeStep, SamePrefix DEF OwnedInv, Owner!Propose
<1>8. CASE \E table \in Owner!Tables, day \in Days : Owner!Read(<<table, day>>)
  BY <1>2, <1>8
<1>9. CASE \E day \in Days, source \in Sources \cup {0} :
              \/ Owner!SaveReading(day, Owner!Unconditional, 0, source)
              \/ Owner!SaveTariff(day, Owner!Unconditional, 0, source)
              \/ Owner!SaveBoundary(day, Owner!Unconditional, 0, source)
  BY <1>3, <1>9 DEF Owner!Tables, Owner!SaveReading, Owner!SaveTariff, Owner!SaveBoundary
<1>10. ASSUME NEW v \in views, NEW source \in Sources \cup {0},
              \/ v.key[1] = "reading" /\ Owner!SaveReading(v.key[2], v.row.version, v.row.content, source)
              \/ v.key[1] = "tariff" /\ Owner!SaveTariff(v.key[2], v.row.version, v.row.content, source)
              \/ v.key[1] = "boundary" /\ Owner!SaveBoundary(v.key[2], v.row.version, v.row.content, source)
       PROVE  OwnedInv' /\ Owner!IsPrefix(ownerSettings, ownerSettings')
  <2>1. Owner!Save(v.key[1], v.key[2], v.row.version, v.row.content, source)
    BY <1>10 DEF Owner!SaveReading, Owner!SaveTariff, Owner!SaveBoundary
  <2> QED
    BY <1>3, <1>4, <2>1
<1>11. CASE \E v \in views : v.key[1] = "reading" /\ \E to \in Days : Owner!Move(v.key[2], to, v.row.version)
  BY <1>5, <1>11
<1>12. CASE \E at \in Days, expected \in {Owner!Unconditional} \cup 0 .. MaxOwnerWrites : Owner!Revise(at, expected)
  BY <1>6, <1>12
<1>13. CASE \E expected \in {Owner!Unconditional} \cup 0 .. MaxOwnerWrites : Owner!SaveSettings(expected)
  BY <1>13, SaveOwnerSettingsStep
<1>14. CASE \E id \in Proposals :
              \/ \E base \in 0 .. Len(ownerSettings) : Owner!Propose(id, base)
              \/ \E decision \in {"accepted", "rejected"}, expected \in 0 .. MaxOwnerWrites : Owner!Decide(id, decision, expected)
  BY <1>7, <1>14, DecideOwnedStep
<1> QED
  BY <1>1, <1>8, <1>9, <1>10, <1>11, <1>12, <1>13, <1>14 DEF Owner!OwnedNext

(* A proposal changes only the settings it was made for, and once; what was accepted stands in *)
(* its place, whoever saves settings in between (decide_model_proposal).                       *)
THEOREM DecidedOnItsBase == Owner!OwnedSpec => []Owner!DecidedOnItsBase
<1>1. OwnedInv => Owner!DecidedOnItsBase
  BY DEF OwnedInv
<1> QED
  BY OwnedInit, OwnedStep, <1>1, PTL DEF Owner!OwnedSpec

(* A conditional write replaces what its author read, and an identity once given stays, as     *)
(* long as no reading was moved (save_tariff, save_meter_boundary, _with_stable_identity).     *)
THEOREM EditsAreOfWhatWasRead == Owner!OwnedSpec => []Owner!EditsAreOfWhatWasRead
<1>1. OwnedInv => Owner!EditsAreOfWhatWasRead
  BY DEF OwnedInv
<1> QED
  BY OwnedInit, OwnedStep, <1>1, PTL DEF Owner!OwnedSpec

(* A reading is moved only to a day that has none: what stood there before was moved away      *)
(* itself (move_gas_reading).                                                                  *)
THEOREM MovesLoseNothing == Owner!OwnedSpec => []Owner!MovesLoseNothing
<1>1. OwnedInv => Owner!MovesLoseNothing
  BY DEF OwnedInv
<1> QED
  BY OwnedInit, OwnedStep, <1>1, PTL DEF Owner!OwnedSpec

(* A version of the AI settings never changes: settings are only added (save_ai_settings,      *)
(* decide_model_proposal).                                                                     *)
THEOREM VersionsStay == Owner!OwnedSpec => Owner!VersionsStay
<1>1. OwnedInv /\ [Owner!OwnedNext]_Owner!owned => [Owner!IsPrefix(ownerSettings, ownerSettings')]_Owner!owned
  BY OwnedStep
<1> QED
  BY OwnedInit, OwnedStep, <1>1, PTL DEF Owner!OwnedSpec, Owner!VersionsStay

(* The audit tells the whole history: replayed in the order of its ids it gives the records    *)
(* that are stored (save_gas_reading, move_gas_reading, save_tariff, save_meter_boundary).     *)
THEOREM AuditReplays == Owner!OwnedSpec => []Owner!AuditReplays
<1>1. OwnedInv => Owner!AuditReplays
  BY AuditFolds DEF OwnedInv, ReplayedOK
<1> QED
  BY OwnedInit, OwnedStep, <1>1, PTL DEF Owner!OwnedSpec

-----------------------------------------------------------------------------
(* Which revision of a profile is in effect.                               *)

Revisions == [at : Days, content : Nat]
InForce(p, at, k) ==
    /\ k \in 1 .. Len(p) /\ p[k].at <= at
    /\ \A j \in 1 .. Len(p) : p[j].at <= at => p[j].at < p[k].at \/ (p[j].at = p[k].at /\ j <= k)

LEMMA TimesAreNumbers ==
    ASSUME Days \subseteq Nat, NEW p \in Seq(Revisions)
    PROVE  Len(p) \in Nat /\ \A j \in 1 .. Len(p) : p[j].at \in Nat
<1>1. ASSUME NEW j \in 1 .. Len(p)
      PROVE  p[j].at \in Nat
  <2>1. p[j] \in Revisions
    OBVIOUS
  <2>2. p[j].at \in Days
    BY <2>1 DEF Revisions
  <2> QED
    BY <2>2
<1> QED
  BY <1>1

LEMMA SomeInForce ==
    ASSUME Days \subseteq Nat, NEW p \in Seq(Revisions), NEW at \in Days, NEW first \in 1 .. Len(p), p[first].at <= at
    PROVE  \E k : InForce(p, at, k)
<1> DEFINE known == {j \in 1 .. Len(p) : p[j].at <= at}
           times == {p[j].at : j \in known}
<1>1. Len(p) \in Nat /\ \A j \in 1 .. Len(p) : p[j].at \in Nat
  BY TimesAreNumbers
<1>2. IsFiniteSet(known) /\ known \in SUBSET Nat /\ first \in known
  <2>1. IsFiniteSet(1 .. Len(p)) /\ known \subseteq 1 .. Len(p)
    BY <1>1, FS_Interval
  <2>2. IsFiniteSet(known)
    BY <2>1, FS_Subset
  <2> QED
    BY <1>1, <2>2
<1>3. IsFiniteSet(times)
  <2> DEFINE f == [j \in known |-> p[j].at]
  <2>1. f \in Surjection(known, times)
    BY DEF Surjection
  <2> HIDE DEF known, times, f
  <2> QED
    BY <1>2, <2>1, FS_Surjection
<1>4. PICK m \in times : \A t \in times : t <= m
  <2>1. times \in SUBSET Nat /\ times # {}
    BY <1>1, <1>2
  <2> HIDE DEF times
  <2> QED
    BY <1>3, <2>1, GreatestExists
<1> DEFINE topmost == {j \in known : p[j].at = m}
<1>5. PICK k \in topmost : \A j \in topmost : j <= k
  <2>1. topmost \in SUBSET Nat /\ topmost # {}
    BY <1>2, <1>4
  <2>2. IsFiniteSet(topmost)
    BY <1>2, FS_Subset
  <2> HIDE DEF topmost
  <2> QED
    BY <2>1, <2>2, GreatestExists
<1>6. k \in 1 .. Len(p) /\ p[k].at <= at /\ p[k].at = m
  BY <1>5
<1>7. ASSUME NEW j \in 1 .. Len(p), p[j].at <= at
      PROVE  p[j].at < p[k].at \/ (p[j].at = p[k].at /\ j <= k)
  <2>1. p[j].at \in times /\ p[j].at <= m /\ p[j].at \in Nat /\ m \in Nat
    BY <1>1, <1>4, <1>6, <1>7
  <2>2. p[j].at = m => j <= k
    BY <1>5, <1>7
  <2> QED
    BY <1>6, <2>1, <2>2
<1> QED
  BY <1>6, <1>7 DEF InForce

LEMMA OneInForce ==
    ASSUME Days \subseteq Nat, NEW p \in Seq(Revisions), NEW at \in Days, NEW k, NEW j, InForce(p, at, k), InForce(p, at, j)
    PROVE  j = k
<1>1. j \in Nat /\ k \in Nat /\ p[j].at \in Nat /\ p[k].at \in Nat
  BY TimesAreNumbers DEF InForce
<1>2. p[j].at < p[k].at \/ (p[j].at = p[k].at /\ j <= k)
  BY DEF InForce
<1>3. p[k].at < p[j].at \/ (p[k].at = p[j].at /\ k <= j)
  BY DEF InForce
<1> QED
  BY <1>1, <1>2, <1>3

LEMMA InEffectIs ==
    ASSUME NEW at, NEW k, InForce(ownerProfile, at, k)
    PROVE  InForce(ownerProfile, at, Owner!InEffect(at))
  BY DEF InForce, Owner!InEffect

LEMMA InEffectIsNext ==
    ASSUME NEW at, NEW k, InForce(ownerProfile', at, k)
    PROVE  InForce(ownerProfile', at, Owner!InEffect(at)')
  BY DEF InForce, Owner!InEffect

\* A revision that has effect later, or before another one known, is passed over.
LEMMA PassedOver ==
    ASSUME Days \subseteq Nat, NEW p \in Seq(Revisions), NEW r \in Revisions, NEW at \in Days, NEW k, InForce(p, at, k),
           \/ ~(r.at <= at)
           \/ \E j \in 1 .. Len(p) : r.at < p[j].at /\ p[j].at <= at
    PROVE  InForce(Append(p, r), at, k)
<1> DEFINE q == Append(p, r)
           n == Len(p)
<1>1. /\ q \in Seq(Revisions) /\ n \in Nat /\ Len(q) = n + 1 /\ q[n + 1] = r
      /\ \A j \in 1 .. n : q[j] = p[j]
  OBVIOUS
<1>2. at \in Nat /\ r.at \in Nat /\ \A j \in 1 .. n : p[j].at \in Nat
  BY TimesAreNumbers DEF Revisions
<1>3. k \in 1 .. n /\ p[k].at <= at /\ \A j \in 1 .. n : p[j].at <= at => p[j].at < p[k].at \/ (p[j].at = p[k].at /\ j <= k)
  BY DEF InForce
<1>4. r.at <= at => r.at < p[k].at
  <2>1. ASSUME r.at <= at, NEW j \in 1 .. n, r.at < p[j].at, p[j].at <= at
        PROVE  r.at < p[k].at
    BY <1>2, <1>3, <2>1
  <2> QED
    BY <2>1
<1> HIDE DEF q, n
<1>5. ASSUME NEW j \in 1 .. n + 1, q[j].at <= at
      PROVE  q[j].at < p[k].at \/ (q[j].at = p[k].at /\ j <= k)
  <2>1. CASE j \in 1 .. n
    <3>1. q[j] = p[j]
      BY <1>1, <2>1
    <3> QED
      BY <1>3, <1>5, <2>1, <3>1
  <2>2. CASE j = n + 1
    BY <1>1, <1>4, <1>5, <2>2
  <2> QED
    BY <1>1, <2>1, <2>2
<1>6. k \in 1 .. n + 1 /\ q[k] = p[k]
  BY <1>1, <1>3
<1>7. InForce(q, at, k)
  BY <1>1, <1>3, <1>5, <1>6 DEF InForce
<1> QED
  BY <1>7 DEF q

CorrectionOfThePast ==
    \A at \in Days : (\E k \in 1 .. Len(ownerProfile) : ownerProfile[k].at <= at) /\ Owner!InEffect(at)' # Owner!InEffect(at) =>
        LET new == ownerProfile'[Len(ownerProfile')]
        IN  new.at <= at /\ ~\E k \in 1 .. Len(ownerProfile) : new.at < ownerProfile[k].at /\ ownerProfile[k].at <= at

LEMMA RevisionStep ==
    ASSUME Days \subseteq Nat, OwnedTypeOK, NEW r \in Revisions, ownerProfile' = Append(ownerProfile, r)
    PROVE  CorrectionOfThePast
<1>1. ownerProfile \in Seq(Revisions) /\ ownerProfile' \in Seq(Revisions) /\ ownerProfile'[Len(ownerProfile')] = r
  BY DEF OwnedTypeOK, Revisions
<1>2. ASSUME NEW at \in Days, NEW first \in 1 .. Len(ownerProfile), ownerProfile[first].at <= at,
             \/ ~(r.at <= at)
             \/ \E j \in 1 .. Len(ownerProfile) : r.at < ownerProfile[j].at /\ ownerProfile[j].at <= at
      PROVE  Owner!InEffect(at)' = Owner!InEffect(at)
  <2>1. PICK k : InForce(ownerProfile, at, k)
    BY <1>1, <1>2, SomeInForce
  <2>2. InForce(ownerProfile, at, Owner!InEffect(at))
    BY <2>1, InEffectIs
  <2>3. InForce(ownerProfile', at, Owner!InEffect(at))
    BY <1>1, <1>2, <2>2, PassedOver
  <2>4. InForce(ownerProfile', at, Owner!InEffect(at)')
    BY <2>3, InEffectIsNext
  <2> QED
    BY <1>1, <2>3, <2>4, OneInForce
<1> QED
  BY <1>1, <1>2 DEF CorrectionOfThePast

LEMMA ProfileStep ==
    ASSUME Days \subseteq Nat, OwnedInv, [Owner!OwnedNext]_Owner!owned
    PROVE  CorrectionOfThePast
<1>1. CASE UNCHANGED ownerProfile
  BY <1>1 DEF CorrectionOfThePast, Owner!InEffect
<1>2. ASSUME NEW at \in Days, NEW expected, Owner!Revise(at, expected)
      PROVE  CorrectionOfThePast
  <2>1. [at |-> at, content |-> serial + 1] \in Revisions
    BY DEF OwnedInv, OwnedTypeOK, Revisions
  <2>2. ownerProfile' = Append(ownerProfile, [at |-> at, content |-> serial + 1])
    BY <1>2 DEF Owner!Revise
  <2> QED
    BY <2>1, <2>2, RevisionStep DEF OwnedInv
<1>3. CASE Owner!OwnedNext
  <2>1. \/ UNCHANGED ownerProfile
        \/ \E at \in Days, expected \in {Owner!Unconditional} \cup 0 .. MaxOwnerWrites : Owner!Revise(at, expected)
    BY <1>3 DEF Owner!OwnedNext, Owner!Read, Owner!SaveReading, Owner!SaveTariff, Owner!SaveBoundary, Owner!Save, Owner!Move,
                Owner!SaveSettings, Owner!Propose, Owner!Decide
  <2> QED
    BY <1>1, <1>2, <2>1
<1> QED
  BY <1>1, <1>3 DEF Owner!owned

(* A revision changes what the profile says only from the time it has effect, and only up to   *)
(* the next one known by then, however late it is recorded (save_profile_revision, profile).   *)
THEOREM PastCorrectionsStayInThePast == Days \subseteq Nat => (Owner!OwnedSpec => Owner!PastCorrectionsStayInThePast)
<1> SUFFICES ASSUME Days \subseteq Nat
             PROVE  Owner!OwnedSpec => Owner!PastCorrectionsStayInThePast
  OBVIOUS
<1>1. OwnedInv /\ [Owner!OwnedNext]_Owner!owned => [CorrectionOfThePast]_Owner!owned
  BY ProfileStep
<1> QED
  BY OwnedInit, OwnedStep, <1>1, PTL DEF Owner!OwnedSpec, Owner!PastCorrectionsStayInThePast, CorrectionOfThePast

-----------------------------------------------------------------------------
(* The gas calculation and its cache.  Whatever is cached or being         *)
(* computed was true of some revision (WasAt): of the days and markers     *)
(* then, of which a day still has its content as long as its marker is not *)
(* younger than that revision.                                             *)
CONSTANTS Calculations, MaxDay, Amounts, MaxChanges, MaxCalculations
VARIABLES content, marker, inputs, cache, prints, calc, runs
Gas == INSTANCE GasCache WITH Values <- Amounts, MaxRuns <- MaxCalculations, revision <- inputs

-----------------------------------------------------------------------------
Samples == Amounts \cup {Gas!None}
\* At revision r the days were these, with these markers: what has been marked since is not known any more.
WasAt(r, days, marks) ==
    /\ r \in 0 .. inputs /\ days \in [Gas!Whole -> Samples]
    /\ \A d \in Gas!Whole :
          /\ marks[d] \in 0 .. r
          /\ marker[d] <= r => marker[d] = marks[d] /\ content[d] = days[d]

DaysOK ==
    /\ inputs \in Nat /\ content \in [Gas!Whole -> Samples] /\ marker \in [Gas!Whole -> 0 .. inputs]

\* A snapshot, or a fingerprint, tells of some revision.
TrueSnapshot(w, e) ==
    /\ w \in Gas!Asked
    /\ \E days, marks :
          /\ WasAt(e.rev, days, marks) /\ e.value = Gas!Truth(days, w)
          /\ e.marks = Gas!Restrict(marks, Gas!Reach(w)) /\ e.held = Gas!HeldIn(days, w)
TruePrint(w, e) ==
    /\ w \in Gas!Asked
    /\ \E r, days, marks :
          /\ WasAt(r, days, marks) /\ e.value = Gas!PrintTruth(days, w)
          /\ e.marks = Gas!Restrict(marks, w[1] .. w[2])

\* What a calculation that is still current has in hand.
InHand(n) ==
    LET w == n.win IN
    /\ n.pc = "read" => /\ n.marks = Gas!Marks(w) /\ n.held = Gas!HeldBefore(w)
                        /\ n.days \subseteq Gas!Reach(w)
                        /\ n.sum = Gas!Restrict(content, Gas!Reach(w) \ n.days)
    /\ n.pc = "flush" => /\ n.answer = Gas!Truth(content, w)
                         /\ \A v \in DOMAIN n.pending : TrueSnapshot(v, n.pending[v])
    /\ n.pc \in {"scan", "save"} => /\ n.marks = Gas!PrintMarks(w) /\ n.days \subseteq w[1] .. w[2]
                                    /\ n.sum = Gas!Restrict(content, (w[1] .. w[2]) \ n.days)
    /\ n.pc = "save" => n.days = {}
    /\ n.pc = "printed" => n.answer = Gas!PrintTruth(content, w)

Parts == {"pc", "win", "rev", "marks", "held", "days", "sum", "pending", "answer", "then"}
Calculating(n) ==
    /\ DOMAIN n = Parts
    /\ n.pc \in {"idle", "lookup", "depend", "read", "flush", "store", "check", "answered",
                 "print", "scan", "save", "printed", "fingerprinted"}
    /\ n.pc \in {"idle", "lookup", "depend", "print"} => n.sum = <<>> /\ n.pending = <<>>
    /\ n.pc # "idle" => /\ n.win \in Gas!Asked /\ \E marks : WasAt(n.rev, n.then, marks)
                        /\ inputs = n.rev => InHand(n)
    /\ n.pc = "store" => \A v \in DOMAIN n.pending : TrueSnapshot(v, n.pending[v])
    /\ n.pc \in {"store", "check", "answered"} => n.answer = Gas!Truth(n.then, n.win)
    /\ n.pc = "fingerprinted" => n.answer = Gas!PrintTruth(n.then, n.win)

GasInv ==
    /\ DaysOK
    /\ DOMAIN calc = Calculations /\ \A c \in Calculations : Calculating(calc[c])
    /\ \A w \in DOMAIN cache : TrueSnapshot(w, cache[w])
    /\ \A w \in DOMAIN prints : TruePrint(w, prints[w])

-----------------------------------------------------------------------------
LEMMA Reaching ==
    ASSUME MaxDay \in Nat, NEW w \in Gas!Asked
    PROVE  Gas!Reach(w) \subseteq Gas!Whole /\ w[1] .. w[2] \subseteq Gas!Whole
  BY DEF Gas!Reach, Gas!Whole, Gas!Asked

\* What was so at the present revision is so.
LEMMA WasNow ==
    ASSUME DaysOK, NEW days, NEW marks, WasAt(inputs, days, marks)
    PROVE  days = content /\ \A d \in Gas!Whole : marks[d] = marker[d]
<1>1. \A d \in Gas!Whole : days[d] = content[d] /\ marks[d] = marker[d]
  BY DEF DaysOK, WasAt
<1> QED
  BY <1>1 DEF DaysOK, WasAt

LEMMA NowIs == DaysOK => WasAt(inputs, content, marker)
  BY DEF DaysOK, WasAt

\* A change is remembered in the marker of its day, so that everything told of earlier revisions stays true.
LEMMA StillWas ==
    ASSUME DaysOK, Gas!Store, NEW r, NEW days, NEW marks, WasAt(r, days, marks)
    PROVE  WasAt(r, days, marks)' /\ r # inputs'
<1>1. PICK e \in Gas!Whole : \E v : /\ content' = [content EXCEPT ![e] = v]
                                    /\ marker' = [marker EXCEPT ![e] = inputs + 1] /\ inputs' = inputs + 1
  BY DEF Gas!Store
<1> QED
  BY <1>1 DEF DaysOK, WasAt

LEMMA UnchangedWas ==
    ASSUME UNCHANGED <<content, marker, inputs>>
    PROVE  /\ \A r, days, marks : WasAt(r, days, marks) => WasAt(r, days, marks)'
           /\ \A w, e : TrueSnapshot(w, e) => TrueSnapshot(w, e)'
           /\ \A w, e : TruePrint(w, e) => TruePrint(w, e)'
           /\ DaysOK => DaysOK'
           /\ \A n : Calculating(n) => Calculating(n)'
<1>1. \A r, days, marks : WasAt(r, days, marks) => WasAt(r, days, marks)'
  BY DEF WasAt
<1>2. \A w, e : TrueSnapshot(w, e) => TrueSnapshot(w, e)'
  BY <1>1 DEF TrueSnapshot
<1>3. \A w, e : TruePrint(w, e) => TruePrint(w, e)'
  BY <1>1 DEF TruePrint
<1>4. DaysOK => DaysOK'
  BY DEF DaysOK
<1>5. ASSUME NEW n, Calculating(n) PROVE Calculating(n)'
  <2>1. inputs = n.rev /\ n.pc # "idle" => InHand(n)'
    <3>1. \A w : Gas!Marks(w)' = Gas!Marks(w) /\ Gas!HeldBefore(w)' = Gas!HeldBefore(w) /\ Gas!PrintMarks(w)' = Gas!PrintMarks(w)
      BY DEF Gas!Marks, Gas!HeldBefore, Gas!PrintMarks
    <3> QED
      BY <1>2, <1>5, <3>1 DEF Calculating, InHand
  <2> QED
    BY <1>1, <1>2, <1>5, <2>1 DEF Calculating
<1> QED
  BY <1>1, <1>2, <1>3, <1>4, <1>5

\* A snapshot that would be accepted now says what is so now.
LEMMA Accepted ==
    ASSUME MaxDay \in Nat, DaysOK, NEW w, NEW e, TrueSnapshot(w, e),
           e.rev = inputs \/ (e.marks = Gas!Marks(w) /\ e.held = Gas!HeldBefore(w))
    PROVE  e.value = Gas!Truth(content, w)
<1>1. PICK days, marks : /\ WasAt(e.rev, days, marks) /\ e.value = Gas!Truth(days, w)
                         /\ e.marks = Gas!Restrict(marks, Gas!Reach(w)) /\ e.held = Gas!HeldIn(days, w)
  BY DEF TrueSnapshot
<1>2. Gas!Reach(w) \subseteq Gas!Whole
  BY Reaching DEF TrueSnapshot
<1>3. CASE e.rev = inputs
  <2>1. days = content
    BY <1>1, <1>3, WasNow
  <2> QED
    BY <1>1, <2>1
<1>4. CASE e.marks = Gas!Marks(w) /\ e.held = Gas!HeldBefore(w)
  <2>1. \A d \in Gas!Reach(w) : marks[d] = marker[d]
    BY <1>1, <1>4, Zenon DEF Gas!Marks, Gas!Restrict
  <2>2. \A d \in Gas!Reach(w) : content[d] = days[d]
    BY <1>1, <1>2, <2>1 DEF WasAt
  <2>3. Gas!Restrict(days, w[1] - 1 .. w[2] + 1) = Gas!Restrict(content, w[1] - 1 .. w[2] + 1)
    BY <2>2, Zenon DEF Gas!Restrict, Gas!Reach
  <2>4. Gas!HeldIn(days, w) = Gas!HeldIn(content, w)
    BY <1>1, <1>4 DEF Gas!HeldBefore
  <2> QED
    BY <1>1, <2>3, <2>4 DEF Gas!Truth
<1> QED
  BY <1>3, <1>4

LEMMA AcceptedPrint ==
    ASSUME MaxDay \in Nat, DaysOK, NEW w, NEW e, TruePrint(w, e), e.marks = Gas!PrintMarks(w)
    PROVE  e.value = Gas!PrintTruth(content, w)
<1>1. PICK r, days, marks : /\ WasAt(r, days, marks) /\ e.value = Gas!PrintTruth(days, w)
                            /\ e.marks = Gas!Restrict(marks, w[1] .. w[2])
  BY DEF TruePrint
<1>2. w[1] .. w[2] \subseteq Gas!Whole
  BY Reaching DEF TruePrint
<1>3. \A d \in w[1] .. w[2] : marks[d] = marker[d]
  BY <1>1, Zenon DEF Gas!PrintMarks, Gas!Restrict
<1>4. \A d \in w[1] .. w[2] : content[d] = days[d]
  BY <1>1, <1>2, <1>3 DEF WasAt
<1> QED
  BY <1>1, <1>4, Zenon DEF Gas!PrintTruth, Gas!Restrict

LEMMA GasInit == MaxDay \in Nat => (Gas!CacheInit => GasInv)
<1> SUFFICES ASSUME MaxDay \in Nat, Gas!CacheInit PROVE GasInv
  OBVIOUS
<1>1. DaysOK
  BY DEF Gas!CacheInit, DaysOK, Samples, Gas!None
<1>2. Calculating(Gas!Idle)
  BY DEF Calculating, Gas!Idle, Parts
<1>3. DOMAIN cache = {} /\ DOMAIN prints = {}
  BY DEF Gas!CacheInit
<1> QED
  BY <1>1, <1>2, <1>3 DEF GasInv, Gas!CacheInit

\* What a change of the samples leaves true.
LEMMA StoreStep ==
    ASSUME MaxDay \in Nat, GasInv, Gas!Store
    PROVE  GasInv'
<1>1. UNCHANGED <<cache, prints, calc, runs>> /\ DaysOK
  BY DEF Gas!Store, GasInv
<1>2. \A r, days, marks : WasAt(r, days, marks) => WasAt(r, days, marks)' /\ r # inputs'
  BY <1>1, StillWas
<1>3. DaysOK'
  <2>1. PICK e \in Gas!Whole : \E v \in Amounts : /\ content' = [content EXCEPT ![e] = v]
                                                  /\ marker' = [marker EXCEPT ![e] = inputs + 1] /\ inputs' = inputs + 1
    BY DEF Gas!Store
  <2> QED
    BY <1>1, <2>1 DEF DaysOK, Samples
<1>4. \A w, e : TrueSnapshot(w, e) => TrueSnapshot(w, e)'
  BY <1>2 DEF TrueSnapshot
<1>5. \A w, e : TruePrint(w, e) => TruePrint(w, e)'
  BY <1>2 DEF TruePrint
<1>6. ASSUME NEW c \in Calculations PROVE Calculating(calc[c])'
  <2>1. Calculating(calc[c])
    BY DEF GasInv
  <2>2. calc[c].pc # "idle" => inputs' # calc[c].rev /\ \E marks : WasAt(calc[c].rev, calc[c].then, marks)'
    <3> SUFFICES ASSUME calc[c].pc # "idle" PROVE inputs' # calc[c].rev /\ \E marks : WasAt(calc[c].rev, calc[c].then, marks)'
      OBVIOUS
    <3> DEFINE r == calc[c].rev
               days == calc[c].then
    <3>1. PICK marks : WasAt(r, days, marks)
      BY <2>1 DEF Calculating
    <3>2. UNCHANGED <<r, days>>
      BY <1>1
    <3> HIDE DEF r, days
    <3>3. WasAt(r, days, marks)' /\ r # inputs'
      BY <1>2, <3>1, <3>2
    <3> QED
      BY <3>3 DEF r, days
  <2> QED
    BY <1>1, <1>4, <2>1, <2>2 DEF Calculating
<1> QED
  BY <1>1, <1>3, <1>4, <1>5, <1>6 DEF GasInv

\* A step of one calculation, which may store what is true.
LEMMA OneCalculates ==
    ASSUME MaxDay \in Nat, GasInv, NEW c \in Calculations, NEW n, Calculating(n), calc' = [calc EXCEPT ![c] = n],
           UNCHANGED <<content, marker, inputs>>,
           \A w \in DOMAIN cache' : TrueSnapshot(w, cache'[w]),
           \A w \in DOMAIN prints' : TruePrint(w, prints'[w])
    PROVE  GasInv'
<1>1. \A d \in Calculations : Calculating(calc'[d])
  BY DEF GasInv
<1>2. \A d \in Calculations : Calculating(calc[d])'
  BY <1>1, UnchangedWas
<1>3. \A w \in DOMAIN cache' : TrueSnapshot(w, cache[w])'
  BY UnchangedWas
<1>4. \A w \in DOMAIN prints' : TruePrint(w, prints[w])'
  BY UnchangedWas
<1> QED
  BY <1>2, <1>3, <1>4, UnchangedWas DEF GasInv

\* The steps of a calculation.
LEMMA CalculationTyped ==
    ASSUME GasInv, NEW c \in Calculations
    PROVE  Calculating(calc[c]) /\ Gas!Now(c) = calc[c]
  BY DEF GasInv, Gas!Now

LEMMA IdleCalculates == Calculating(Gas!Idle)
  BY DEF Calculating, Gas!Idle, Parts

LEMMA BeginStep ==
    ASSUME MaxDay \in Nat, GasInv, NEW c \in Calculations, Gas!Begin(c)
    PROVE  GasInv'
<1>1. PICK w \in Gas!Asked, pc \in {"lookup", "print"} :
         calc' = [calc EXCEPT ![c] = [Gas!Idle EXCEPT !.pc = pc, !.win = w, !.rev = inputs, !.then = content]]
  BY DEF Gas!Begin
<1> DEFINE n == [Gas!Idle EXCEPT !.pc = pc, !.win = w, !.rev = inputs, !.then = content]
<1>2. /\ DOMAIN n = Parts /\ n.pc = pc /\ n.win = w /\ n.rev = inputs /\ n.then = content
      /\ n.sum = <<>> /\ n.pending = <<>>
  BY DEF Gas!Idle, Parts
<1>3. WasAt(n.rev, n.then, marker)
  BY <1>2, NowIs DEF GasInv
<1> HIDE DEF n
<1>4. Calculating(n)
  BY <1>2, <1>3 DEF Calculating, InHand
<1> QED
  BY <1>1, <1>4, OneCalculates DEF Gas!Begin, GasInv, n

\* An idle calculation, or one that goes on.
LEMMA Giving ==
    ASSUME MaxDay \in Nat, GasInv, NEW c \in Calculations, NEW n, Calculating(n), Gas!Give(c, n), Gas!Unchanged
    PROVE  GasInv'
  BY OneCalculates DEF Gas!Give, Gas!Unchanged, GasInv

LEMMA LookUpStep ==
    ASSUME MaxDay \in Nat, GasInv, NEW c \in Calculations, Gas!LookUp(c)
    PROVE  GasInv'
<1> DEFINE o == calc[c]
           hit == Gas!Done(c, cache[o.win].value)
           miss == [o EXCEPT !.pc = "depend"]
<1>1. Calculating(o) /\ Gas!Now(c) = o /\ o.pc = "lookup" /\ DaysOK
  BY CalculationTyped DEF Gas!LookUp, GasInv
<1>2. CASE Gas!Hit(c, o.win)
  <2>1. hit = [o EXCEPT !.pc = "flush", !.answer = cache[o.win].value]
    BY <1>1 DEF Gas!Done
  <2>2. o.win \in DOMAIN cache /\ cache[o.win].rev = o.rev
    BY <1>1, <1>2 DEF Gas!Hit
  <2>3. inputs = o.rev => cache[o.win].value = Gas!Truth(content, o.win)
    BY <1>1, <2>2, Accepted DEF GasInv
  <2>4. Calculating(hit)
    BY <1>1, <2>1, <2>3 DEF Calculating, InHand, Parts
  <2> QED
    BY <1>1, <1>2, <2>4, Giving DEF Gas!LookUp
<1>3. CASE ~Gas!Hit(c, o.win)
  <2>1. Calculating(miss)
    BY <1>1 DEF Calculating, InHand, Parts
  <2> QED
    BY <1>1, <1>3, <2>1, Giving DEF Gas!LookUp
<1> QED
  BY <1>2, <1>3

LEMMA DependStep ==
    ASSUME MaxDay \in Nat, GasInv, NEW c \in Calculations, Gas!Depend(c)
    PROVE  GasInv'
<1> DEFINE o == calc[c]
           w == o.win
           marks == Gas!Marks(w)
           held == Gas!HeldBefore(w)
           e == Gas!Snapshot(c, marks, held, cache[w].value)
           taken == [Gas!Done(c, cache[w].value) EXCEPT !.pending = Gas!With(<<>>, w, e)]
           begun == [o EXCEPT !.pc = "read", !.marks = marks, !.held = held, !.days = w[1] - 1 .. w[2] + 1]
           hit == w \in DOMAIN cache /\ cache[w].marks = marks /\ cache[w].held = held
<1>1. Calculating(o) /\ Gas!Now(c) = o /\ o.pc = "depend" /\ DaysOK
  BY CalculationTyped DEF Gas!Depend, GasInv
<1>2. Gas!Unchanged /\ IF hit THEN Gas!Give(c, taken) ELSE Gas!Give(c, begun)
  BY <1>1 DEF Gas!Depend
<1>3. CASE hit
  <2>1. cache[w].value = Gas!Truth(content, w)
    BY <1>1, <1>3, Accepted DEF GasInv
  <2>2. e = [rev |-> o.rev, marks |-> marks, held |-> held, value |-> Gas!Truth(content, w)]
    BY <1>1, <2>1 DEF Gas!Snapshot
  <2>3. w \in Gas!Asked
    BY <1>1 DEF Calculating
  <2>4. inputs = o.rev => TrueSnapshot(w, e)
    BY <1>1, <2>2, <2>3, NowIs DEF TrueSnapshot, Gas!Marks, Gas!HeldBefore
  <2> DEFINE pending == Gas!With(<<>>, w, e)
  <2>5. DOMAIN pending = {w} /\ pending[w] = e
    BY DEF Gas!With
  <2>6. taken = [o EXCEPT !.pc = "flush", !.answer = cache[w].value, !.pending = pending]
    BY <1>1 DEF Gas!Done, Calculating, Parts
  <2> HIDE DEF e, pending
  <2>7. /\ DOMAIN taken = Parts /\ taken.pc = "flush" /\ taken.answer = Gas!Truth(content, w)
        /\ taken.pending = pending /\ taken.win = w /\ taken.rev = o.rev /\ taken.then = o.then
    BY <1>1, <2>1, <2>6 DEF Calculating, Parts
  <2> HIDE DEF taken, hit
  <2>8. Calculating(taken)
    BY <1>1, <2>4, <2>5, <2>7 DEF Calculating, InHand
  <2> QED
    BY <1>2, <1>3, <2>8, Giving
<1>4. CASE ~hit
  <2>1. begun.sum = Gas!Restrict(content, Gas!Reach(w) \ begun.days) /\ begun.days = Gas!Reach(w)
    <3>1. o.sum = <<>>
      BY <1>1 DEF Calculating
    <3>2. Gas!Restrict(content, {}) = <<>>
      BY DEF Gas!Restrict
    <3> QED
      BY <1>1, <3>1, <3>2 DEF Gas!Reach, Calculating, Parts
  <2>2. Calculating(begun)
    BY <1>1, <2>1 DEF Calculating, InHand, Parts
  <2> HIDE DEF begun, hit
  <2> QED
    BY <1>2, <1>4, <2>2, Giving
<1> QED
  BY <1>3, <1>4

\* One more day is read.
LEMMA OneDayMore ==
    ASSUME NEW S, NEW days \in SUBSET S, NEW d \in days
    PROVE  Gas!With(Gas!Restrict(content, S \ days), d, content[d]) = Gas!Restrict(content, S \ (days \ {d}))
<1> DEFINE sum == Gas!Restrict(content, S \ days)
<1>1. DOMAIN sum \cup {d} = S \ (days \ {d}) /\ d \notin S \ days
  BY DEF Gas!Restrict
<1>2. \A x \in S \ days : sum[x] = content[x]
  BY DEF Gas!Restrict
<1> QED
  BY <1>1, <1>2 DEF Gas!With, Gas!Restrict

LEMMA ReadDayStep ==
    ASSUME MaxDay \in Nat, GasInv, NEW c \in Calculations, Gas!ReadDay(c)
    PROVE  GasInv'
<1> DEFINE o == calc[c]
           w == o.win
<1>1. Calculating(o) /\ Gas!Now(c) = o /\ o.pc = "read" /\ DaysOK /\ Gas!Unchanged /\ w \in Gas!Asked
  BY CalculationTyped DEF Gas!ReadDay, GasInv, Calculating
<1>2. PICK d \in o.days :
        LET sum == Gas!With(o.sum, d, content[d])
            value == <<sum, o.held>>
            rest == o.days \ {d}
        IN  Gas!Give(c, IF rest # {} THEN [o EXCEPT !.sum = sum, !.days = rest]
                        ELSE [Gas!Done(c, value) EXCEPT
                                !.pending = Gas!With(<<>>, w, Gas!Snapshot(c, o.marks, o.held, value))])
  BY <1>1 DEF Gas!ReadDay
<1> DEFINE sum == Gas!With(o.sum, d, content[d])
           value == <<sum, o.held>>
           rest == o.days \ {d}
           more == [o EXCEPT !.sum = sum, !.days = rest]
           e == Gas!Snapshot(c, o.marks, o.held, value)
           pending == Gas!With(<<>>, w, e)
           done == [Gas!Done(c, value) EXCEPT !.pending = pending]
<1>3. inputs = o.rev => /\ sum = Gas!Restrict(content, Gas!Reach(w) \ rest) /\ rest \subseteq Gas!Reach(w)
                        /\ o.marks = Gas!Marks(w) /\ o.held = Gas!HeldBefore(w)
  <2> SUFFICES ASSUME inputs = o.rev
               PROVE  /\ sum = Gas!Restrict(content, Gas!Reach(w) \ rest) /\ rest \subseteq Gas!Reach(w)
                      /\ o.marks = Gas!Marks(w) /\ o.held = Gas!HeldBefore(w)
    OBVIOUS
  <2>1. InHand(o)
    BY <1>1 DEF Calculating
  <2>2. /\ o.marks = Gas!Marks(w) /\ o.held = Gas!HeldBefore(w) /\ o.days \subseteq Gas!Reach(w)
        /\ o.sum = Gas!Restrict(content, Gas!Reach(w) \ o.days)
    BY <1>1, <2>1 DEF InHand
  <2>3. sum = Gas!Restrict(content, Gas!Reach(w) \ rest)
    <3> DEFINE S == Gas!Reach(w)
               days == o.days
               read == o.sum
    <3>1. d \in days /\ days \in SUBSET S /\ read = Gas!Restrict(content, S \ days)
      BY <2>2
    <3> HIDE DEF S, days, read
    <3>2. Gas!With(Gas!Restrict(content, S \ days), d, content[d]) = Gas!Restrict(content, S \ (days \ {d}))
      BY <3>1, OneDayMore
    <3> QED
      BY <3>1, <3>2 DEF S, days, read
  <2> QED
    BY <2>2, <2>3
<1>4. CASE rest # {}
  <2>1. /\ DOMAIN more = Parts /\ more.pc = "read" /\ more.win = w /\ more.rev = o.rev /\ more.then = o.then
        /\ more.sum = sum /\ more.days = rest /\ more.marks = o.marks /\ more.held = o.held
    BY <1>1 DEF Calculating, Parts
  <2>2. Gas!Give(c, more)
    BY <1>2, <1>4
  <2> HIDE DEF more, sum, rest
  <2>3. Calculating(more)
    BY <1>1, <1>3, <2>1 DEF Calculating, InHand
  <2> QED
    BY <1>1, <2>2, <2>3, Giving
<1>5. CASE rest = {}
  <2>1. Gas!Give(c, done)
    BY <1>2, <1>5
  <2>2. inputs = o.rev => value = Gas!Truth(content, w)
    <3>1. inputs = o.rev => sum = Gas!Restrict(content, w[1] - 1 .. w[2] + 1)
      BY <1>3, <1>5 DEF Gas!Reach
    <3> HIDE DEF sum
    <3> QED
      BY <1>3, <3>1 DEF Gas!Truth, Gas!HeldBefore
  <2> HIDE DEF value
  <2>3. e = [rev |-> o.rev, marks |-> o.marks, held |-> o.held, value |-> value]
    BY <1>1 DEF Gas!Snapshot
  <2>4. inputs = o.rev => TrueSnapshot(w, e)
    BY <1>1, <1>3, <2>2, <2>3, NowIs DEF TrueSnapshot, Gas!Marks, Gas!HeldBefore
  <2>5. DOMAIN pending = {w} /\ pending[w] = e
    BY DEF Gas!With
  <2> HIDE DEF e, pending
  <2>6. /\ DOMAIN done = Parts /\ done.pc = "flush" /\ done.answer = value
        /\ done.pending = pending /\ done.win = w /\ done.rev = o.rev /\ done.then = o.then
    BY <1>1 DEF Calculating, Parts, Gas!Done
  <2> HIDE DEF done
  <2>7. Calculating(done)
    BY <1>1, <2>2, <2>4, <2>5, <2>6 DEF Calculating, InHand
  <2> QED
    BY <1>1, <2>1, <2>7, Giving
<1> QED
  BY <1>4, <1>5

\* The captured revision is the present one: what was then is so now.
LEMMA ThenIsNow ==
    ASSUME GasInv, NEW c \in Calculations, calc[c].pc # "idle", Gas!Current(c)
    PROVE  calc[c].then = content /\ InHand(calc[c])
<1>1. Calculating(calc[c]) /\ DaysOK /\ inputs = calc[c].rev
  BY CalculationTyped DEF GasInv, Gas!Current
<1>2. PICK marks : WasAt(inputs, calc[c].then, marks)
  BY <1>1 DEF Calculating
<1> QED
  BY <1>1, <1>2, WasNow DEF Calculating

LEMMA FlushStep ==
    ASSUME MaxDay \in Nat, GasInv, NEW c \in Calculations, Gas!Flush(c)
    PROVE  GasInv'
<1> DEFINE o == calc[c]
           next == [o EXCEPT !.pc = IF o.pending = <<>> THEN "check" ELSE "store"]
<1>1. Calculating(o) /\ Gas!Now(c) = o /\ o.pc = "flush" /\ Gas!Unchanged
  BY CalculationTyped DEF Gas!Flush
<1>2. Gas!Give(c, IF ~Gas!Current(c) THEN Gas!Idle ELSE next)
  BY <1>1 DEF Gas!Flush
<1>3. CASE ~Gas!Current(c)
  BY <1>1, <1>2, <1>3, IdleCalculates, Giving
<1>4. CASE Gas!Current(c)
  <2>1. o.then = content /\ InHand(o)
    BY <1>1, <1>4, ThenIsNow
  <2>2. /\ DOMAIN next = Parts /\ next.pc \in {"check", "store"} /\ next.answer = o.answer
        /\ next.pending = o.pending /\ next.win = o.win /\ next.rev = o.rev /\ next.then = o.then
    BY <1>1 DEF Calculating, Parts
  <2>3. Gas!Give(c, next)
    BY <1>2, <1>4
  <2> HIDE DEF next
  <2>4. Calculating(next)
    BY <1>1, <2>1, <2>2 DEF Calculating, InHand
  <2> QED
    BY <1>1, <2>3, <2>4, Giving
<1> QED
  BY <1>3, <1>4

LEMMA StoreEntryStep ==
    ASSUME MaxDay \in Nat, GasInv, NEW c \in Calculations, Gas!StoreEntry(c)
    PROVE  GasInv'
<1> DEFINE o == calc[c]
           next == [o EXCEPT !.pc = "check", !.pending = <<>>]
<1>1. Calculating(o) /\ Gas!Now(c) = o /\ o.pc = "store" /\ UNCHANGED <<content, marker, inputs, prints, runs>>
  BY CalculationTyped DEF Gas!StoreEntry
<1>2. PICK w \in DOMAIN o.pending : cache' = Gas!With(cache, w, o.pending[w])
  BY <1>1 DEF Gas!StoreEntry
<1>3. calc' = [calc EXCEPT ![c] = next]
  BY <1>1 DEF Gas!StoreEntry, Gas!Give
<1>4. /\ DOMAIN next = Parts /\ next.pc = "check" /\ next.answer = o.answer
      /\ next.win = o.win /\ next.rev = o.rev /\ next.then = o.then
  BY <1>1 DEF Calculating, Parts
<1> HIDE DEF next
<1>5. Calculating(next)
  BY <1>1, <1>4 DEF Calculating, InHand
<1>6. TrueSnapshot(w, o.pending[w])
  BY <1>1 DEF Calculating
<1>7. DOMAIN cache' = DOMAIN cache \cup {w} /\ \A x \in DOMAIN cache' : cache'[x] = IF x = w THEN o.pending[w] ELSE cache[x]
  BY <1>2 DEF Gas!With
<1>8. \A x \in DOMAIN cache' : TrueSnapshot(x, cache'[x])
  BY <1>6, <1>7 DEF GasInv
<1> QED
  BY <1>1, <1>3, <1>5, <1>8, OneCalculates DEF GasInv

\* A calculation that is found current goes on; another one is given up.
LEMMA Checking ==
    ASSUME MaxDay \in Nat, GasInv, NEW c \in Calculations, Gas!Check(c) \/ Gas!CheckPrint(c)
    PROVE  GasInv'
<1> DEFINE o == calc[c]
           next(pc) == [o EXCEPT !.pc = pc]
<1>1. Calculating(o) /\ Gas!Now(c) = o /\ Gas!Unchanged
  BY CalculationTyped DEF Gas!Check, Gas!CheckPrint
<1>2. PICK pc : /\ \/ o.pc = "check" /\ pc = "answered"
                   \/ o.pc = "printed" /\ pc = "fingerprinted"
                /\ Gas!Give(c, IF Gas!Current(c) THEN next(pc) ELSE Gas!Idle)
  BY <1>1 DEF Gas!Check, Gas!CheckPrint
<1>3. CASE ~Gas!Current(c)
  BY <1>1, <1>2, <1>3, IdleCalculates, Giving
<1>4. CASE Gas!Current(c)
  <2>1. o.then = content /\ InHand(o)
    BY <1>1, <1>2, <1>4, ThenIsNow
  <2>2. /\ DOMAIN next(pc) = Parts /\ next(pc).pc = pc /\ next(pc).answer = o.answer
        /\ next(pc).win = o.win /\ next(pc).rev = o.rev /\ next(pc).then = o.then
    BY <1>1 DEF Calculating, Parts
  <2>3. Gas!Give(c, next(pc))
    BY <1>2, <1>4
  <2> HIDE DEF next
  <2>4. Calculating(next(pc))
    BY <1>1, <1>2, <2>1, <2>2 DEF Calculating, InHand
  <2> QED
    BY <1>1, <2>3, <2>4, Giving
<1> QED
  BY <1>3, <1>4

LEMMA Ending ==
    ASSUME MaxDay \in Nat, GasInv, NEW c \in Calculations, Gas!Return(c) \/ Gas!ReturnPrint(c) \/ Gas!Kill(c)
    PROVE  GasInv'
  BY IdleCalculates, Giving DEF Gas!Return, Gas!ReturnPrint, Gas!Kill

LEMMA ReadMarksStep ==
    ASSUME MaxDay \in Nat, GasInv, NEW c \in Calculations, Gas!ReadMarks(c)
    PROVE  GasInv'
<1> DEFINE o == calc[c]
           w == o.win
           marks == Gas!PrintMarks(w)
           hit == w \in DOMAIN prints /\ prints[w].marks = marks
           found == [o EXCEPT !.pc = "printed", !.answer = prints[w].value]
           begun == [o EXCEPT !.pc = "scan", !.marks = marks, !.days = w[1] .. w[2]]
<1>1. Calculating(o) /\ Gas!Now(c) = o /\ o.pc = "print" /\ Gas!Unchanged /\ DaysOK
  BY CalculationTyped DEF Gas!ReadMarks, GasInv
<1>2. IF hit THEN Gas!Give(c, found) ELSE Gas!Give(c, begun)
  BY <1>1 DEF Gas!ReadMarks
<1>3. CASE hit
  <2>1. prints[w].value = Gas!PrintTruth(content, w)
    BY <1>1, <1>3, AcceptedPrint DEF GasInv
  <2>2. /\ DOMAIN found = Parts /\ found.pc = "printed" /\ found.answer = prints[w].value
        /\ found.win = w /\ found.rev = o.rev /\ found.then = o.then
    BY <1>1 DEF Calculating, Parts
  <2>3. Gas!Give(c, found)
    BY <1>2, <1>3
  <2> HIDE DEF found
  <2>4. Calculating(found)
    BY <1>1, <2>1, <2>2 DEF Calculating, InHand
  <2> QED
    BY <1>1, <2>3, <2>4, Giving
<1>4. CASE ~hit
  <2>1. /\ DOMAIN begun = Parts /\ begun.pc = "scan" /\ begun.marks = marks /\ begun.days = w[1] .. w[2]
        /\ begun.sum = <<>> /\ begun.win = w /\ begun.rev = o.rev /\ begun.then = o.then
    BY <1>1 DEF Calculating, Parts
  <2>2. Gas!Give(c, begun)
    BY <1>2, <1>4
  <2>3. Gas!Restrict(content, {}) = <<>>
    BY DEF Gas!Restrict
  <2> HIDE DEF begun
  <2>4. begun.sum = Gas!Restrict(content, (w[1] .. w[2]) \ begun.days)
    BY <2>1, <2>3
  <2>5. Calculating(begun)
    BY <1>1, <2>1, <2>4 DEF Calculating, InHand
  <2> QED
    BY <1>1, <2>2, <2>5, Giving
<1> QED
  BY <1>3, <1>4

LEMMA ScanStep ==
    ASSUME MaxDay \in Nat, GasInv, NEW c \in Calculations, Gas!Scan(c)
    PROVE  GasInv'
<1> DEFINE o == calc[c]
           w == o.win
<1>1. Calculating(o) /\ Gas!Now(c) = o /\ o.pc = "scan" /\ Gas!Unchanged /\ DaysOK
  BY CalculationTyped DEF Gas!Scan, GasInv
<1>2. PICK d \in o.days : Gas!Give(c, [o EXCEPT !.sum = Gas!With(o.sum, d, content[d]), !.days = o.days \ {d},
                                                !.pc = IF o.pc = "scan" /\ o.days = {d} THEN "save" ELSE o.pc])
  BY <1>1 DEF Gas!Scan
<1> DEFINE sum == Gas!With(o.sum, d, content[d])
           rest == o.days \ {d}
           pc == IF o.pc = "scan" /\ o.days = {d} THEN "save" ELSE o.pc
           next == [o EXCEPT !.sum = sum, !.days = rest, !.pc = pc]
<1>3. inputs = o.rev => /\ sum = Gas!Restrict(content, (w[1] .. w[2]) \ rest) /\ rest \subseteq w[1] .. w[2]
                        /\ o.marks = Gas!PrintMarks(w)
  <2> SUFFICES ASSUME inputs = o.rev
               PROVE  /\ sum = Gas!Restrict(content, (w[1] .. w[2]) \ rest) /\ rest \subseteq w[1] .. w[2]
                      /\ o.marks = Gas!PrintMarks(w)
    OBVIOUS
  <2>1. InHand(o)
    BY <1>1 DEF Calculating
  <2> DEFINE S == w[1] .. w[2]
             days == o.days
             read == o.sum
  <2>2. o.marks = Gas!PrintMarks(w) /\ days \in SUBSET S /\ read = Gas!Restrict(content, S \ days)
    BY <1>1, <2>1 DEF InHand
  <2>3. d \in days
    OBVIOUS
  <2> HIDE DEF S, days, read
  <2>4. Gas!With(Gas!Restrict(content, S \ days), d, content[d]) = Gas!Restrict(content, S \ (days \ {d}))
    BY <2>2, <2>3, OneDayMore
  <2> QED
    BY <2>2, <2>4 DEF S, days, read
<1>4. /\ DOMAIN next = Parts /\ next.pc = pc /\ next.marks = o.marks /\ next.days = rest
      /\ next.sum = sum /\ next.win = w /\ next.rev = o.rev /\ next.then = o.then
  BY <1>1 DEF Calculating, Parts
<1>5. Gas!Give(c, next)
  BY <1>2
<1>6. pc \in {"scan", "save"} /\ (pc = "save" => rest = {})
  BY <1>1
<1> HIDE DEF next, sum, rest, pc
<1>7. Calculating(next)
  BY <1>1, <1>3, <1>4, <1>6 DEF Calculating, InHand
<1> QED
  BY <1>1, <1>5, <1>7, Giving

LEMMA SavePrintStep ==
    ASSUME MaxDay \in Nat, GasInv, NEW c \in Calculations, Gas!SavePrint(c)
    PROVE  GasInv'
<1> DEFINE o == calc[c]
           w == o.win
           e == [marks |-> o.marks, value |-> o.sum]
           next == [o EXCEPT !.pc = "printed", !.answer = o.sum]
<1>1. /\ Calculating(o) /\ Gas!Now(c) = o /\ o.pc = "save" /\ DaysOK
      /\ UNCHANGED <<content, marker, inputs, cache, runs>>
  BY CalculationTyped DEF Gas!SavePrint, GasInv
<1>2. IF Gas!Current(c) THEN prints' = Gas!With(prints, w, e) /\ Gas!Give(c, next)
      ELSE prints' = prints /\ Gas!Give(c, Gas!Idle)
  BY <1>1 DEF Gas!SavePrint
<1>3. CASE ~Gas!Current(c)
  BY <1>1, <1>2, <1>3, IdleCalculates, OneCalculates DEF GasInv, Gas!Give
<1>4. CASE Gas!Current(c)
  <2>1. InHand(o) /\ w \in Gas!Asked
    BY <1>1, <1>4, ThenIsNow DEF Calculating
  <2>2. o.marks = Gas!PrintMarks(w) /\ o.sum = Gas!Restrict(content, (w[1] .. w[2]) \ {})
    BY <1>1, <2>1 DEF InHand
  <2>3. (w[1] .. w[2]) \ {} = w[1] .. w[2]
    OBVIOUS
  <2>4. o.sum = Gas!PrintTruth(content, w)
    BY <2>2, <2>3 DEF Gas!PrintTruth
  <2>5. TruePrint(w, e)
    <3>1. e.value = Gas!PrintTruth(content, w) /\ e.marks = Gas!Restrict(marker, w[1] .. w[2])
      BY <2>2, <2>4 DEF Gas!PrintMarks
    <3> QED
      BY <1>1, <2>1, <3>1, NowIs DEF TruePrint
  <2> HIDE DEF e
  <2>6. DOMAIN prints' = DOMAIN prints \cup {w} /\ \A x \in DOMAIN prints' : prints'[x] = IF x = w THEN e ELSE prints[x]
    BY <1>2, <1>4 DEF Gas!With
  <2>7. \A x \in DOMAIN prints' : TruePrint(x, prints'[x])
    BY <2>5, <2>6 DEF GasInv
  <2>8. /\ DOMAIN next = Parts /\ next.pc = "printed" /\ next.answer = o.sum
        /\ next.win = w /\ next.rev = o.rev /\ next.then = o.then
    BY <1>1 DEF Calculating, Parts
  <2>9. calc' = [calc EXCEPT ![c] = next]
    BY <1>2, <1>4 DEF Gas!Give
  <2> HIDE DEF next
  <2>10. Calculating(next)
    BY <1>1, <2>4, <2>8 DEF Calculating, InHand
  <2> QED
    BY <1>1, <2>7, <2>9, <2>10, OneCalculates DEF GasInv
<1> QED
  BY <1>3, <1>4

LEMMA GasStep ==
    ASSUME MaxDay \in Nat, GasInv, [Gas!CacheNext]_Gas!cacheVars
    PROVE  GasInv'
<1>1. CASE UNCHANGED Gas!cacheVars
  <2>1. UNCHANGED <<content, marker, inputs, cache, prints, calc>>
    BY <1>1 DEF Gas!cacheVars
  <2>2. \A c \in Calculations : Calculating(calc[c])'
    BY <2>1, UnchangedWas DEF GasInv
  <2>3. \A w \in DOMAIN cache : TrueSnapshot(w, cache[w])'
    BY <2>1, UnchangedWas DEF GasInv
  <2>4. \A w \in DOMAIN prints : TruePrint(w, prints[w])'
    BY <2>1, UnchangedWas DEF GasInv
  <2> QED
    BY <2>1, <2>2, <2>3, <2>4, UnchangedWas DEF GasInv
<1>2. CASE Gas!Store
  BY <1>2, StoreStep
<1>3. ASSUME NEW c \in Calculations,
             \/ Gas!Begin(c) \/ Gas!LookUp(c) \/ Gas!Depend(c) \/ Gas!ReadDay(c)
             \/ Gas!Flush(c) \/ Gas!StoreEntry(c) \/ Gas!Check(c) \/ Gas!Return(c)
             \/ Gas!ReadMarks(c) \/ Gas!Scan(c) \/ Gas!SavePrint(c) \/ Gas!CheckPrint(c) \/ Gas!ReturnPrint(c) \/ Gas!Kill(c)
      PROVE  GasInv'
  BY <1>3, BeginStep, LookUpStep, DependStep, ReadDayStep, FlushStep, StoreEntryStep, Checking, Ending, ReadMarksStep,
     ScanStep, SavePrintStep
<1> QED
  BY <1>1, <1>2, <1>3 DEF Gas!CacheNext

LEMMA GasAlways == MaxDay \in Nat => (Gas!CacheSpec => []GasInv)
<1> SUFFICES ASSUME MaxDay \in Nat PROVE Gas!CacheSpec => []GasInv
  OBVIOUS
<1>1. Gas!CacheInit => GasInv
  BY GasInit
<1>2. GasInv /\ [Gas!CacheNext]_Gas!cacheVars => GasInv'
  BY GasStep
<1> QED
  BY <1>1, <1>2, PTL DEF Gas!CacheSpec

\* An answer is what the samples said at the revision captured with readings, tariffs and profile (window).
THEOREM AnswersTrue == MaxDay \in Nat => (Gas!CacheSpec => []Gas!AnswersAreTrue)
<1> SUFFICES ASSUME MaxDay \in Nat PROVE Gas!CacheSpec => []Gas!AnswersAreTrue
  OBVIOUS
<1>1. GasInv => Gas!AnswersAreTrue
  BY CalculationTyped DEF Gas!AnswersAreTrue, Calculating
<1> QED
  BY <1>1, GasAlways, PTL

\* A cached day or fingerprint that would be accepted says what the samples say (_statistics_dependency,
\* period_data_revisions).
THEOREM CacheTrue == MaxDay \in Nat => (Gas!CacheSpec => []Gas!CacheIsTrue)
<1> SUFFICES ASSUME MaxDay \in Nat PROVE Gas!CacheSpec => []Gas!CacheIsTrue
  OBVIOUS
<1>1. GasInv => Gas!CacheIsTrue
  BY Accepted, AcceptedPrint DEF GasInv, Gas!CacheIsTrue
<1> QED
  BY <1>1, GasAlways, PTL

-----------------------------------------------------------------------------
(* The review of the models.  ReviewInv ties a reviewer at work to the     *)
(* settings that he read, to the run he claimed and to the facts he was    *)
(* given (WorkOK), and every proposal to the settings it was made for.     *)
CONSTANTS Reviewers, Models, Catalogs, Lease, Retry, Interval, MaxRetries, MaxHour, MaxSettings, MaxRuns, MaxProposals
VARIABLES settings, proposals, review, reviewRuns, catalog, hour, work
Review == INSTANCE ModelReview

-----------------------------------------------------------------------------
(* The review of the models.                                               *)

Named == Models \cup UNION {DOMAIN facts : facts \in Catalogs}
Asked == [status : {"open", "deferred", "superseded", "accepted", "rejected"}, version : Nat,
          revision : Nat, current : Named, candidate : Named, compared : BOOLEAN]
Results == {"unverified", "no_change", "proposal"}
Runs == [status : {"running", "interrupted"} \cup Results, revision : Nat]

ReviewTypeOK ==
    /\ settings \in [revision : Nat, model : Named]
    /\ proposals \in Seq(Asked)
    /\ reviewRuns \in Seq(Runs)
    /\ "run" \in DOMAIN review
    /\ catalog \in Catalogs
    /\ DOMAIN work = Reviewers

\* A reviewer works for settings that were in force when he read them.
AtWork(w) ==
    /\ DOMAIN w = {"step", "revision", "model", "run", "moment", "status", "found"}
    /\ w.step \in {"idle", "read", "claimed", "fetched"}
    /\ w.step # "idle" => /\ w.revision \in 0 .. settings.revision /\ w.model \in Named
                          /\ w.revision = settings.revision => w.model = settings.model
    /\ w.step \in {"claimed", "fetched"} => w.run \in DOMAIN reviewRuns
    /\ w.step = "fetched" => w.status \in Results
    /\ w.found = {} \/ \E m \in Named : w.found = {m}
WorkOK == \A i \in Reviewers : AtWork(work[i])

\* No proposal is of settings that are still to come.
ProposalsOK == \A k \in DOMAIN proposals : proposals[k].revision <= settings.revision

ReviewInv ==
    /\ ReviewTypeOK /\ WorkOK /\ ProposalsOK
    /\ Review!OneRun /\ Review!AskedOnce /\ Review!AboutTheModelInUse

\* What a step makes of the proposals: it decides some, and may add one.
LEMMA InvInitR == Review!ReviewInit => ReviewInv
<1> SUFFICES ASSUME Review!ReviewInit PROVE ReviewInv
  OBVIOUS
<1>1. ReviewTypeOK
  <2>1. proposals \in Seq(Asked)
    <3>1. CASE proposals = <<>>
      BY <3>1
    <3>2. CASE \E m \in Models \ {settings.model} : proposals = <<Review!Proposal(0, settings.model, m, FALSE)>>
      <4>1. PICK m \in Models : proposals = <<Review!Proposal(0, settings.model, m, FALSE)>>
        BY <3>2
      <4>2. Review!Proposal(0, settings.model, m, FALSE) \in Asked
        BY DEF Review!ReviewInit, Review!Proposal, Asked, Named
      <4>3. \A p \in Asked : <<p>> \in Seq(Asked)
        OBVIOUS
      <4> QED
        BY <4>1, <4>2, <4>3
    <3> QED
      BY <3>1, <3>2 DEF Review!ReviewInit
  <2> QED
    BY <2>1 DEF Review!ReviewInit, ReviewTypeOK, Named
<1>2. WorkOK
  BY DEF Review!ReviewInit, WorkOK, AtWork, Review!IdleWork
<1>3. ProposalsOK /\ Review!AskedOnce /\ Review!AboutTheModelInUse
  BY DEF Review!ReviewInit, ProposalsOK, Review!AskedOnce, Review!AboutTheModelInUse, Review!Proposal
<1>4. Review!OneRun
  BY DEF Review!ReviewInit, Review!OneRun
<1> QED
  BY <1>1, <1>2, <1>3, <1>4 DEF ReviewInv

LEMMA AskedTyped ==
    ASSUME ReviewTypeOK, NEW k \in DOMAIN proposals
    PROVE  proposals[k] \in Asked /\ proposals[k].revision \in Nat /\ proposals[k].version \in Nat
<1>1. proposals[k] \in Asked
  BY DEF ReviewTypeOK
<1> QED
  BY <1>1 DEF Asked

\* A step that leaves the proposals and the settings alone, and changes the work of one reviewer.
LEMMA ReadSettingsStep ==
    ASSUME ReviewInv, NEW i \in Reviewers, Review!ReadSettings(i)
    PROVE  ReviewInv' /\ Review!DecisionIsFinal
<1> USE DEF Review!ReadSettings, ReviewInv
<1>1. WorkOK'
  BY DEF WorkOK, AtWork, Review!IdleWork, ReviewTypeOK
<1>2. ReviewTypeOK' /\ ProposalsOK'
  BY DEF ReviewTypeOK, ProposalsOK
<1>3. Review!OneRun' /\ Review!AskedOnce' /\ Review!AboutTheModelInUse'
  BY DEF Review!OneRun, Review!AskedOnce, Review!AboutTheModelInUse, Review!Identity, Review!Open
<1> QED
  BY <1>1, <1>2, <1>3 DEF Review!DecisionIsFinal, Review!Identity

LEMMA ClaimStep ==
    ASSUME ReviewInv, NEW i \in Reviewers, Review!Claim(i)
    PROVE  ReviewInv' /\ Review!DecisionIsFinal
<1> USE DEF ReviewInv
<1>0. PICK trigger \in {"scheduled", "manual"} :
        IF Review!Claimable(trigger)
        THEN LET run == Len(reviewRuns) + 1 IN
             /\ review' = [review EXCEPT !.run = run, !.until = hour + Lease, !.attempts = @ + 1]
             /\ reviewRuns' = Append(Review!Interrupted(reviewRuns),
                                     [status |-> "running", revision |-> work[i].revision])
             /\ work' = [work EXCEPT ![i].step = "claimed", ![i].run = run, ![i].moment = hour]
        ELSE work' = [work EXCEPT ![i] = Review!IdleWork] /\ UNCHANGED <<review, reviewRuns>>
  BY DEF Review!Claim
<1>1. UNCHANGED <<settings, proposals, catalog, hour>> /\ work[i].step = "read"
  BY DEF Review!Claim, Review!At
<1>2. CASE ~Review!Claimable(trigger)
  <2>1. work' = [work EXCEPT ![i] = Review!IdleWork] /\ UNCHANGED <<review, reviewRuns>>
    BY <1>0, <1>2
  <2>2. WorkOK'
    BY <1>1, <2>1 DEF WorkOK, AtWork, Review!IdleWork, ReviewTypeOK
  <2> QED
    BY <1>1, <2>1, <2>2 DEF ReviewTypeOK, ProposalsOK, Review!OneRun, Review!AskedOnce, Review!AboutTheModelInUse,
                            Review!Identity, Review!Open, Review!DecisionIsFinal
<1>3. CASE Review!Claimable(trigger)
  <2> DEFINE run == Len(reviewRuns) + 1
             row == [status |-> "running", revision |-> work[i].revision]
             before == Review!Interrupted(reviewRuns)
  <2>1. /\ review' = [review EXCEPT !.run = run, !.until = hour + Lease, !.attempts = @ + 1]
        /\ reviewRuns' = Append(before, row)
        /\ work' = [work EXCEPT ![i].step = "claimed", ![i].run = run, ![i].moment = hour]
    BY <1>0, <1>3
  <2>2. /\ before \in Seq(Runs) /\ Len(before) = Len(reviewRuns)
        /\ \A k \in DOMAIN before : before[k].status # "running"
    <3>1. \A k \in DOMAIN reviewRuns : reviewRuns[k] \in Runs
      BY DEF ReviewTypeOK
    <3>2. /\ DOMAIN before = DOMAIN reviewRuns
          /\ \A k \in DOMAIN before : before[k] \in Runs /\ before[k].status # "running"
      BY <3>1 DEF Review!Interrupted, Runs, Results
    <3>3. before \in [1 .. Len(reviewRuns) -> Runs] /\ Len(reviewRuns) \in Nat
      BY <3>2 DEF ReviewTypeOK, Review!Interrupted
    <3> QED
      BY <3>2, <3>3
  <2>3. row \in Runs
    <3>1. work[i].revision \in Nat
      BY <1>1 DEF WorkOK, AtWork, ReviewTypeOK
    <3> QED
      BY <3>1 DEF Runs
  <2> HIDE DEF before, row
  <2>4. /\ reviewRuns' \in Seq(Runs) /\ DOMAIN reviewRuns' = 1 .. run
        /\ \A k \in DOMAIN reviewRuns' : k # run => reviewRuns'[k].status # "running"
        /\ DOMAIN reviewRuns \subseteq DOMAIN reviewRuns' /\ run \in DOMAIN reviewRuns'
    BY <2>1, <2>2, <2>3 DEF ReviewTypeOK
  <2>5. "run" \in DOMAIN review' /\ review'.run = run
    BY <2>1 DEF ReviewTypeOK
  <2>6. Review!OneRun'
    BY <2>4, <2>5 DEF Review!OneRun
  <2>7. WorkOK'
    <3> SUFFICES ASSUME NEW j \in Reviewers PROVE AtWork(work[j])'
      BY DEF WorkOK
    <3>1. CASE j # i
      BY <1>1, <2>1, <2>4, <3>1 DEF WorkOK, AtWork, ReviewTypeOK
    <3>2. CASE j = i
      <4>1. work'[i] = [work[i] EXCEPT !.step = "claimed", !.run = run, !.moment = hour]
        BY <2>1 DEF ReviewTypeOK
      <4> QED
        BY <1>1, <2>4, <3>2, <4>1 DEF WorkOK, AtWork
    <3> QED
      BY <3>1, <3>2
  <2>8. ReviewTypeOK'
    BY <1>1, <2>1, <2>4, <2>5 DEF ReviewTypeOK
  <2> QED
    BY <1>1, <2>6, <2>7, <2>8 DEF ProposalsOK, Review!AskedOnce, Review!AboutTheModelInUse,
                            Review!Identity, Review!Open, Review!DecisionIsFinal
<1> QED
  BY <1>2, <1>3

LEMMA FetchStepR ==
    ASSUME ReviewInv, NEW i \in Reviewers, Review!Fetch(i)
    PROVE  ReviewInv' /\ Review!DecisionIsFinal
<1> USE DEF ReviewInv
<1>0. UNCHANGED <<settings, proposals, review, reviewRuns, catalog, hour>> /\ work[i].step = "claimed"
  BY DEF Review!Fetch, Review!At
<1>1. \/ work' = [work EXCEPT ![i].step = "fetched", ![i].status = "unverified"]
      \/ \E choice \in {{}} \cup {{m} : m \in Review!Candidates(work[i].model, catalog)} :
            work' = [work EXCEPT ![i].step = "fetched", ![i].found = choice,
                               ![i].status = IF choice = {} THEN "no_change" ELSE "proposal"]
  BY DEF Review!Fetch
<1>2. Review!Candidates(work[i].model, catalog) \subseteq Named
  BY DEF Review!Candidates, Named, ReviewTypeOK
<1>3. WorkOK'
  <2> SUFFICES ASSUME NEW j \in Reviewers PROVE AtWork(work[j])'
    BY DEF WorkOK
  <2>0. AtWork(work[j]) /\ (j # i => work'[j] = work[j]) /\ DOMAIN work = Reviewers
    BY <1>1 DEF WorkOK, ReviewTypeOK
  <2>1. CASE j # i
    BY <1>0, <2>0, <2>1 DEF AtWork
  <2>2. CASE work' = [work EXCEPT ![i].step = "fetched", ![i].status = "unverified"] /\ j = i
    <3>1. work'[i] = [work[i] EXCEPT !.step = "fetched", !.status = "unverified"]
      BY <2>2 DEF ReviewTypeOK
    <3> QED
      BY <1>0, <2>0, <2>2, <3>1 DEF AtWork, Results
  <2>3. ASSUME NEW choice \in {{}} \cup {{m} : m \in Review!Candidates(work[i].model, catalog)}, j = i,
               work' = [work EXCEPT ![i].step = "fetched", ![i].found = choice,
                               ![i].status = IF choice = {} THEN "no_change" ELSE "proposal"]
        PROVE  AtWork(work[j])'
    <3>1. work'[i] = [work[i] EXCEPT !.step = "fetched", !.found = choice,
                               !.status = IF choice = {} THEN "no_change" ELSE "proposal"]
      BY <2>3 DEF ReviewTypeOK
    <3>2. choice = {} \/ \E m \in Named : choice = {m}
      BY <1>2, <2>3
    <3> QED
      BY <1>0, <2>0, <2>3, <3>1, <3>2 DEF AtWork, Results
  <2> QED
    BY <1>1, <2>1, <2>2, <2>3
<1> QED
  BY <1>0, <1>1, <1>3 DEF ReviewTypeOK, ProposalsOK, Review!OneRun, Review!AskedOnce, Review!AboutTheModelInUse,
                            Review!Identity, Review!Open, Review!DecisionIsFinal

LEMMA DieStep ==
    ASSUME ReviewInv, NEW i \in Reviewers, Review!Die(i)
    PROVE  ReviewInv' /\ Review!DecisionIsFinal
<1> USE DEF Review!Die, ReviewInv
<1>1. WorkOK'
  BY DEF WorkOK, AtWork, Review!IdleWork, ReviewTypeOK
<1> QED
  BY <1>1 DEF ReviewTypeOK, ProposalsOK, Review!OneRun, Review!AskedOnce, Review!AboutTheModelInUse,
                            Review!Identity, Review!Open, Review!DecisionIsFinal

LEMMA WorldStep ==
    ASSUME ReviewInv, Review!World
    PROVE  ReviewInv' /\ Review!DecisionIsFinal
<1> USE DEF Review!World, ReviewInv
<1>1. WorkOK'
  BY DEF WorkOK, AtWork
<1> QED
  BY <1>1 DEF ReviewTypeOK, ProposalsOK, Review!OneRun, Review!AskedOnce, Review!AboutTheModelInUse,
                            Review!Identity, Review!Open, Review!DecisionIsFinal

LEMMA SaveSettingsStep ==
    ASSUME ReviewInv, Review!SaveSettings
    PROVE  ReviewInv' /\ Review!DecisionIsFinal
<1> USE DEF ReviewInv
<1>1. PICK m \in Models : settings' = [revision |-> settings.revision + 1, model |-> m]
  BY DEF Review!SaveSettings
<1>2. UNCHANGED <<proposals, review, reviewRuns, catalog, hour, work>> /\ settings.revision \in Nat
  BY DEF Review!SaveSettings, ReviewTypeOK
<1>3. WorkOK'
  BY <1>1, <1>2 DEF WorkOK, AtWork
<1>4. ProposalsOK' /\ Review!AboutTheModelInUse'
  <2>1. \A k \in DOMAIN proposals : proposals[k].revision \in Nat
    BY AskedTyped
  <2> QED
    BY <1>1, <1>2, <2>1 DEF ProposalsOK, Review!AboutTheModelInUse
<1>5. ReviewTypeOK'
  BY <1>1, <1>2 DEF ReviewTypeOK, Named
<1> QED
  BY <1>2, <1>3, <1>4, <1>5 DEF Review!OneRun, Review!AskedOnce,
                            Review!Identity, Review!Open, Review!DecisionIsFinal

\* What has an answer or is superseded stays, what is open may get another status; nothing else changes.
Goes(before, after) ==
    /\ after.revision = before.revision /\ after.current = before.current /\ after.candidate = before.candidate
    /\ ~Review!Open(before) => after = before

\* Proposals are decided or superseded, and some are added that nobody is asked about yet.
LEMMA ProposalsGoOn ==
    ASSUME proposals \in Seq(Asked), proposals' \in Seq(Asked), Review!AskedOnce,  DOMAIN proposals \subseteq DOMAIN proposals',
           \A k \in DOMAIN proposals : Goes(proposals[k], proposals'[k]),
           \A j, k \in DOMAIN proposals' \ DOMAIN proposals : j = k,
           \A k \in DOMAIN proposals' \ DOMAIN proposals :
              \A j \in DOMAIN proposals : Review!Identity(proposals[j]) = Review!Identity(proposals'[k]) =>
                  ~Review!Answered(proposals'[j])
    PROVE  Review!AskedOnce' /\ Review!DecisionIsFinal
<1>1. Review!DecisionIsFinal
  BY DEF Review!DecisionIsFinal, Review!Identity, Goes
<1>2. ASSUME NEW j \in DOMAIN proposals', NEW k \in DOMAIN proposals', j # k,
             Review!Identity(proposals'[j]) = Review!Identity(proposals'[k]),
             Review!Open(proposals'[j]), proposals'[k].status \in {"open", "deferred", "rejected"}
      PROVE  FALSE
  <2>1. CASE j \in DOMAIN proposals /\ k \in DOMAIN proposals
    <3>1. Review!Open(proposals[j])
      BY <1>2, <2>1 DEF Goes
    <3>2. Review!Identity(proposals[j]) = Review!Identity(proposals[k])
      BY <1>2, <2>1 DEF Goes, Review!Identity
    <3>3. ~(proposals[k].status \in {"open", "deferred", "rejected"})
      BY <1>2, <2>1, <3>1, <3>2 DEF Review!AskedOnce
    <3>4. proposals'[k] = proposals[k]
      BY <2>1, <3>3 DEF Goes, Review!Open
    <3> QED
      BY <1>2, <3>3, <3>4
  <2>2. CASE j \in DOMAIN proposals /\ k \notin DOMAIN proposals
    <3>1. Review!Identity(proposals[j]) = Review!Identity(proposals'[k])
      BY <1>2, <2>2 DEF Goes, Review!Identity
    <3> QED
      BY <1>2, <2>2, <3>1 DEF Review!Answered
  <2>3. CASE j \notin DOMAIN proposals /\ k \in DOMAIN proposals
    <3>1. Review!Identity(proposals[k]) = Review!Identity(proposals'[j])
      BY <1>2, <2>3 DEF Goes, Review!Identity
    <3> QED
      BY <1>2, <2>3, <3>1 DEF Review!Answered, Review!Open
  <2>4. CASE j \notin DOMAIN proposals /\ k \notin DOMAIN proposals
    BY <1>2, <2>4
  <2> QED
    BY <2>1, <2>2, <2>3, <2>4
<1>3. Review!AskedOnce'
  BY <1>2 DEF Review!AskedOnce, Review!Identity, Review!Open
<1> QED
  BY <1>1, <1>3

LEMMA ShowPageStep ==
    ASSUME ReviewInv, Review!ShowPage
    PROVE  ReviewInv' /\ Review!DecisionIsFinal
<1> DEFINE gone(p) == Review!Open(p) /\ p.revision = settings.revision /\ ~p.compared
           after(p) == IF gone(p) THEN [p EXCEPT !.status = "superseded", !.version = @ + 1] ELSE p
<1>1. /\ proposals' = [k \in DOMAIN proposals |-> after(proposals[k])]
      /\ UNCHANGED <<settings, review, reviewRuns, catalog, hour, work>> /\ ReviewTypeOK
  BY DEF Review!ShowPage, ReviewInv
<1>2. ASSUME NEW k \in DOMAIN proposals
      PROVE  after(proposals[k]) \in Asked /\ Goes(proposals[k], after(proposals[k]))
  <2>1. proposals[k] \in Asked /\ proposals[k].version \in Nat
    BY <1>1, AskedTyped
  <2>2. CASE gone(proposals[k])
    <3>1. Review!Open(proposals[k]) /\ after(proposals[k]) = [proposals[k] EXCEPT !.status = "superseded", !.version = @ + 1]
      BY <2>2
    <3> HIDE DEF after, gone
    <3>2. Goes(proposals[k], after(proposals[k]))
      BY <2>1, <3>1 DEF Asked, Goes
    <3>3. after(proposals[k]) \in Asked
      <4> DEFINE p == proposals[k]
      <4>1. after(p) = [status |-> "superseded", version |-> p.version + 1, revision |-> p.revision,
                        current |-> p.current, candidate |-> p.candidate, compared |-> p.compared]
        BY <2>1, <3>1 DEF Asked
      <4> QED
        BY <2>1, <4>1 DEF Asked
    <3> QED
      BY <3>2, <3>3
  <2>3. CASE ~gone(proposals[k])
    <3>1. after(proposals[k]) = proposals[k]
      BY <2>3
    <3> QED
      BY <2>1, <3>1 DEF Goes
  <2> QED
    BY <2>2, <2>3
<1> HIDE DEF after
<1>3. proposals' \in Seq(Asked) /\ DOMAIN proposals' = DOMAIN proposals
  <2>1. DOMAIN proposals = 1 .. Len(proposals) /\ Len(proposals) \in Nat
    BY <1>1 DEF ReviewTypeOK
  <2>2. proposals' \in [1 .. Len(proposals) -> Asked]
    BY <1>1, <1>2, <2>1
  <2> QED
    BY <1>1, <2>1, <2>2
<1>4. \A k \in DOMAIN proposals : Goes(proposals[k], proposals'[k])
  BY <1>1, <1>2
<1>5. Review!AskedOnce' /\ Review!DecisionIsFinal
  BY <1>1, <1>3, <1>4, ProposalsGoOn DEF ReviewTypeOK, ReviewInv
<1>6. WorkOK' /\ ReviewTypeOK'
  BY <1>1, <1>3 DEF WorkOK, AtWork, ReviewTypeOK, ReviewInv
<1>7. ProposalsOK' /\ Review!AboutTheModelInUse'
  BY <1>1, <1>3, <1>4 DEF ProposalsOK, Review!AboutTheModelInUse, Goes, ReviewInv
<1> QED
  BY <1>1, <1>5, <1>6, <1>7 DEF ReviewInv, Review!OneRun

LEMMA DecideStep ==
    ASSUME ReviewInv, NEW k \in DOMAIN proposals, NEW shown \in {1, 2}, NEW status \in {"accepted", "rejected", "deferred"},
           Review!Decide(k, shown, status)
    PROVE  ReviewInv' /\ Review!DecisionIsFinal
<1> DEFINE after == [proposals[k] EXCEPT !.status = status, !.version = @ + 1]
<1>1. /\ proposals' = [proposals EXCEPT ![k].status = status, ![k].version = @ + 1]
      /\ UNCHANGED <<review, reviewRuns, catalog, hour, work>> /\ Review!Open(proposals[k])
      /\ \/ settings' = settings
         \/ settings' = [revision |-> settings.revision + 1, model |-> proposals[k].candidate]
      /\ ReviewTypeOK
  BY DEF Review!Decide, ReviewInv
<1>2. proposals[k] \in Asked /\ proposals[k].version \in Nat /\ settings.revision \in Nat
  BY <1>1, AskedTyped DEF ReviewTypeOK
<1>3. after \in Asked /\ Goes(proposals[k], after)
  BY <1>1, <1>2 DEF Asked, Goes
<1>4. proposals' = [proposals EXCEPT ![k] = after]
  BY <1>1
<1> HIDE DEF after
<1>5. proposals' \in Seq(Asked) /\ DOMAIN proposals' = DOMAIN proposals
  <2>1. DOMAIN proposals = 1 .. Len(proposals) /\ Len(proposals) \in Nat
    BY <1>1 DEF ReviewTypeOK
  <2>2. \A j \in DOMAIN proposals : proposals[j] \in Asked
    BY <1>1, AskedTyped
  <2>3. proposals' \in [1 .. Len(proposals) -> Asked]
    BY <1>3, <1>4, <2>1, <2>2
  <2>4. DOMAIN proposals' = DOMAIN proposals
    BY <1>4
  <2> HIDE DEF after
  <2> QED
    BY <2>1, <2>3, <2>4
<1>6. \A j \in DOMAIN proposals : Goes(proposals[j], proposals'[j])
  BY <1>3, <1>4 DEF Goes
<1>7. Review!AskedOnce' /\ Review!DecisionIsFinal
  BY <1>1, <1>5, <1>6, ProposalsGoOn DEF ReviewTypeOK, ReviewInv
<1>8. settings'.revision \in Nat /\ settings'.model \in Named /\ settings.revision <= settings'.revision
  BY <1>1, <1>2 DEF ReviewTypeOK, Asked
<1>9. settings'.revision = settings.revision => settings' = settings
  BY <1>1, <1>2
<1>10. WorkOK'
  BY <1>1, <1>2, <1>8, <1>9 DEF WorkOK, AtWork, ReviewInv
<1>11. ReviewTypeOK'
  <2>1. settings' \in [revision : Nat, model : Named]
    BY <1>1, <1>2 DEF ReviewTypeOK, Asked
  <2> QED
    BY <1>1, <1>5, <2>1 DEF ReviewTypeOK
<1>12. ProposalsOK' /\ Review!AboutTheModelInUse'
  <2>1. \A j \in DOMAIN proposals : proposals[j].revision \in Nat
    BY <1>1, AskedTyped
  <2> QED
    BY <1>2, <1>5, <1>6, <1>8, <1>9, <2>1 DEF ProposalsOK, Review!AboutTheModelInUse, Goes, ReviewInv
<1> QED
  BY <1>1, <1>7, <1>10, <1>11, <1>12 DEF ReviewInv, Review!OneRun

LEMMA SameCardinality == \A S : Review!Cardinality(S) = Cardinality(S)
  BY Zenon DEF Cardinality, Review!Cardinality, IsFiniteSet, Review!IsFiniteSet

LEMMA OneInSeq ==
           /\ Review!SetToSeq({}) = <<>>
           /\ \A x : Review!SetToSeq({x}) = <<x>>
<1>1. Review!SetToSeq({}) = <<>>
  <2>1. Review!SetToSeq({}) = CHOOSE f \in [1 .. 0 -> {}] : Review!IsInjective(f)
    BY FS_EmptySet, SameCardinality DEF Review!SetToSeq
  <2>2. <<>> \in [1 .. 0 -> {}] /\ Review!IsInjective(<<>>)
    BY DEF Review!IsInjective
  <2>3. Review!SetToSeq({}) \in [1 .. 0 -> {}]
    BY <2>1, <2>2
  <2> QED
    BY <2>3
<1>2. ASSUME NEW x PROVE Review!SetToSeq({x}) = <<x>>
  <2>1. Cardinality({x}) = 1
    BY FS_Singleton
  <2>2. Review!SetToSeq({x}) = CHOOSE f \in [1 .. 1 -> {x}] : Review!IsInjective(f)
    BY <2>1, SameCardinality DEF Review!SetToSeq
  <2>3. <<x>> \in [1 .. 1 -> {x}] /\ Review!IsInjective(<<x>>)
    BY DEF Review!IsInjective
  <2>4. Review!SetToSeq({x}) \in [1 .. 1 -> {x}]
    BY <2>2, <2>3
  <2> QED
    BY <2>4
<1> QED
  BY <1>1, <1>2

\* What a review concludes keeps the proposals, superseded ones included, and adds at most one.
LEMMA Conclusion ==
    ASSUME ReviewInv, NEW w, AtWork(w), w.step = "fetched"
    PROVE  LET new == Review!Concluded(w) IN
           /\ new \in Seq(Asked) /\ DOMAIN proposals \subseteq DOMAIN new
           /\ \A k \in DOMAIN proposals : Goes(proposals[k], new[k])
           /\ \A j, k \in DOMAIN new \ DOMAIN proposals : j = k
           /\ \A k \in DOMAIN new \ DOMAIN proposals :
                 /\ new[k].revision = w.revision /\ new[k].current = w.model
                 /\ \A j \in DOMAIN proposals : Review!Identity(proposals[j]) = Review!Identity(new[k]) =>
                       ~Review!Answered(new[j])
<1> DEFINE found == {<<w.revision, w.model, m>> : m \in w.found}
           known == {Review!Identity(proposals[k]) : k \in {k \in DOMAIN proposals : Review!Answered(proposals[k])}}
           gone(p) == Review!Open(p) /\ Review!Identity(p) \notin found
           after(p) == IF gone(p) THEN [p EXCEPT !.status = "superseded", !.version = @ + 1] ELSE p
           kept == [k \in DOMAIN proposals |->
                       IF Review!Open(proposals[k]) /\ Review!Identity(proposals[k]) \notin found
                       THEN [proposals[k] EXCEPT !.status = "superseded", !.version = @ + 1]
                       ELSE proposals[k]]
           added == {Review!Proposal(w.revision, w.model, f[3], TRUE) : f \in found \ known}
<1>1. Review!Concluded(w) = kept \o Review!SetToSeq(added)
  BY DEF Review!Concluded
<1>2. ReviewTypeOK /\ w.revision \in Nat /\ w.model \in Named
  BY DEF ReviewInv, AtWork, ReviewTypeOK
<1>3. ASSUME NEW k \in DOMAIN proposals
      PROVE  after(proposals[k]) \in Asked /\ Goes(proposals[k], after(proposals[k]))
  <2>1. proposals[k] \in Asked /\ proposals[k].version \in Nat
    BY <1>2, AskedTyped
  <2>2. CASE gone(proposals[k])
    <3>1. Review!Open(proposals[k]) /\ after(proposals[k]) = [proposals[k] EXCEPT !.status = "superseded", !.version = @ + 1]
      BY <2>2
    <3> HIDE DEF after, gone
    <3>2. Goes(proposals[k], after(proposals[k]))
      BY <2>1, <3>1 DEF Asked, Goes
    <3>3. after(proposals[k]) \in Asked
      <4> DEFINE p == proposals[k]
      <4>1. after(p) = [status |-> "superseded", version |-> p.version + 1, revision |-> p.revision,
                        current |-> p.current, candidate |-> p.candidate, compared |-> p.compared]
        BY <2>1, <3>1 DEF Asked
      <4> QED
        BY <2>1, <4>1 DEF Asked
    <3> QED
      BY <3>2, <3>3
  <2>3. CASE ~gone(proposals[k])
    <3>1. after(proposals[k]) = proposals[k]
      BY <2>3
    <3> QED
      BY <2>1, <3>1 DEF Goes
  <2> QED
    BY <2>2, <2>3
<1>4. kept \in Seq(Asked) /\ DOMAIN kept = DOMAIN proposals
  <2>1. DOMAIN proposals = 1 .. Len(proposals) /\ Len(proposals) \in Nat
    BY <1>2 DEF ReviewTypeOK
  <2>2. kept = [k \in DOMAIN proposals |-> after(proposals[k])]
    OBVIOUS
  <2> HIDE DEF after, kept
  <2>3. kept \in [1 .. Len(proposals) -> Asked]
    BY <1>3, <2>1, <2>2
  <2> QED
    BY <2>1, <2>2, <2>3
<1>5. CASE added = {}
  <2>1. Review!Concluded(w) = kept
    <3>1. Review!Concluded(w) = kept \o <<>>
      BY <1>1, <1>5, OneInSeq
    <3> HIDE DEF kept
    <3> QED
      BY <1>4, <3>1
  <2>2. \A k \in DOMAIN proposals : kept[k] = after(proposals[k])
    OBVIOUS
  <2> HIDE DEF after, kept
  <2>3. \A k \in DOMAIN proposals : Goes(proposals[k], kept[k])
    BY <1>3, <2>2
  <2> QED
    BY <1>4, <2>1, <2>3
<1>6. CASE added # {}
  <2>1. PICK m \in Named : w.found = {m}
    <3>1. w.found # {}
      BY <1>6
    <3> QED
      BY <3>1 DEF AtWork
  <2> DEFINE p == Review!Proposal(w.revision, w.model, m, TRUE)
  <2>2. found = {<<w.revision, w.model, m>>}
    BY <2>1
  <2>3. <<w.revision, w.model, m>> \notin known
    BY <1>6, <2>2
  <2>4. added = {p}
    <3>1. found \ known = {<<w.revision, w.model, m>>}
      BY <2>2, <2>3
    <3> HIDE DEF found, known
    <3>2. added = {Review!Proposal(w.revision, w.model, f[3], TRUE) : f \in {<<w.revision, w.model, m>>}}
      BY <3>1
    <3> QED
      BY <3>2
  <2>5. /\ p \in Asked /\ p.revision = w.revision /\ p.current = w.model
        /\ Review!Identity(p) = <<w.revision, w.model, m>>
    BY <1>2, <2>1 DEF Review!Proposal, Review!Identity, Asked
  <2>6. Review!Concluded(w) = kept \o <<p>>
    BY <1>1, <2>4, OneInSeq
  <2>7. \A j \in DOMAIN proposals : Review!Identity(proposals[j]) = Review!Identity(p) => ~Review!Answered(kept[j])
    <3> SUFFICES ASSUME NEW j \in DOMAIN proposals, Review!Identity(proposals[j]) = Review!Identity(p)
                 PROVE  ~Review!Answered(kept[j])
      OBVIOUS
    <3>1. ~Review!Answered(proposals[j])
      BY <2>3, <2>5
    <3>2. kept[j] = proposals[j]
      BY <3>1 DEF Review!Answered
    <3> QED
      BY <3>1, <3>2
  <2> HIDE DEF p, kept, added
  <2>8. \A k \in DOMAIN proposals : kept[k] = after(proposals[k])
    BY DEF kept
  <2>9. /\ kept \o <<p>> \in Seq(Asked) /\ DOMAIN (kept \o <<p>>) = 1 .. Len(kept) + 1
        /\ \A k \in 1 .. Len(kept) : (kept \o <<p>>)[k] = kept[k]
        /\ (kept \o <<p>>)[Len(kept) + 1] = p /\ DOMAIN kept = 1 .. Len(kept) /\ Len(kept) \in Nat
    BY <1>4, <2>5
  <2> HIDE DEF after
  <2> DEFINE new == Review!Concluded(w)
  <2>10. \A k \in DOMAIN new \ DOMAIN proposals : k = Len(kept) + 1 /\ new[k] = p
    BY <1>4, <2>6, <2>9
  <2>11. \A k \in DOMAIN proposals : k \in DOMAIN new /\ new[k] = kept[k]
    BY <1>4, <2>6, <2>9
  <2>12. \A k \in DOMAIN proposals : Goes(proposals[k], new[k])
    BY <1>3, <2>8, <2>11
  <2>13. new \in Seq(Asked)
    BY <2>6, <2>9
  <2> HIDE DEF new
  <2>14. \A k \in DOMAIN new \ DOMAIN proposals :
            /\ new[k].revision = w.revision /\ new[k].current = w.model
            /\ \A j \in DOMAIN proposals : Review!Identity(proposals[j]) = Review!Identity(new[k]) =>
                  ~Review!Answered(new[j])
    BY <2>5, <2>7, <2>10, <2>11
  <2>15. DOMAIN proposals \subseteq DOMAIN new /\ \A j, k \in DOMAIN new \ DOMAIN proposals : j = k
    BY <2>10, <2>11
  <2> QED
    BY <2>12, <2>13, <2>14, <2>15 DEF new
<1> QED
  BY <1>5, <1>6

LEMMA FinishStep ==
    ASSUME ReviewInv, NEW i \in Reviewers, Review!Finish(i)
    PROVE  ReviewInv' /\ Review!DecisionIsFinal
<1> DEFINE w == work[i]
<1>1. /\ w.step = "fetched" /\ work' = [work EXCEPT ![i] = Review!IdleWork]
      /\ UNCHANGED <<settings, catalog, hour>> /\ ReviewTypeOK /\ AtWork(w)
  BY DEF Review!Finish, Review!At, ReviewInv, WorkOK
<1>2. CASE UNCHANGED <<review, reviewRuns, proposals>>
  <2>1. WorkOK'
    BY <1>1, <1>2 DEF WorkOK, AtWork, Review!IdleWork, ReviewTypeOK, ReviewInv
  <2> QED
    BY <1>1, <1>2, <2>1 DEF ReviewInv, ReviewTypeOK, ProposalsOK, Review!OneRun, Review!AskedOnce, Review!AboutTheModelInUse,
                            Review!Identity, Review!Open, Review!DecisionIsFinal
<1>3. CASE /\ review.run = w.run /\ reviewRuns' = [reviewRuns EXCEPT ![w.run].status = w.status]
           /\ review' = Review!Finished(review, w)
           /\ proposals' = IF w.status = "unverified" THEN proposals ELSE Review!Concluded(w)
  <2>1. w.run \in DOMAIN reviewRuns /\ w.status \in Results
    BY <1>1 DEF AtWork
  <2>2. /\ reviewRuns' \in Seq(Runs) /\ DOMAIN reviewRuns' = DOMAIN reviewRuns
        /\ \A k \in DOMAIN reviewRuns' : reviewRuns'[k].status # "running"
    <3>1. \A k \in DOMAIN reviewRuns : reviewRuns[k] \in Runs
      BY <1>1 DEF ReviewTypeOK
    <3>2. [reviewRuns[w.run] EXCEPT !.status = w.status] \in Runs
      BY <2>1, <3>1 DEF Runs
    <3>3. DOMAIN reviewRuns = 1 .. Len(reviewRuns) /\ Len(reviewRuns) \in Nat
      BY <1>1 DEF ReviewTypeOK
    <3>4. reviewRuns' \in [1 .. Len(reviewRuns) -> Runs]
      BY <1>3, <3>1, <3>2, <3>3
    <3>5. \A k \in DOMAIN reviewRuns : k # w.run => reviewRuns'[k] = reviewRuns[k]
      BY <1>3
    <3>6. reviewRuns'[w.run].status # "running"
      BY <1>3, <2>1, <3>1 DEF Runs, Results
    <3>7. \A k \in DOMAIN reviewRuns : k # w.run => reviewRuns[k].status # "running"
      BY <1>3 DEF ReviewInv, Review!OneRun
    <3> QED
      BY <3>3, <3>4, <3>5, <3>6, <3>7
  <2>3. "run" \in DOMAIN review'
    BY <1>1, <1>3 DEF Review!Finished, ReviewTypeOK
  <2>4. /\ proposals' \in Seq(Asked) /\ DOMAIN proposals \subseteq DOMAIN proposals'
        /\ \A k \in DOMAIN proposals : Goes(proposals[k], proposals'[k])
        /\ \A j, k \in DOMAIN proposals' \ DOMAIN proposals : j = k
        /\ \A k \in DOMAIN proposals' \ DOMAIN proposals :
              /\ proposals'[k].revision = w.revision /\ proposals'[k].current = w.model
              /\ \A j \in DOMAIN proposals : Review!Identity(proposals[j]) = Review!Identity(proposals'[k]) =>
                    ~Review!Answered(proposals'[j])
    <3>1. CASE proposals' = proposals
      BY <1>1, <3>1 DEF ReviewTypeOK, Goes
    <3>2. CASE proposals' = Review!Concluded(w)
      BY <1>1, <3>2, Conclusion
    <3> QED
      BY <1>3, <3>1, <3>2
  <2>5. Review!AskedOnce' /\ Review!DecisionIsFinal
    BY <1>1, <2>4, ProposalsGoOn DEF ReviewInv, ReviewTypeOK
  <2>6. ProposalsOK' /\ Review!AboutTheModelInUse'
    <3>1. w.revision \in 0 .. settings.revision /\ (w.revision = settings.revision => w.model = settings.model)
      BY <1>1 DEF AtWork
    <3>2. settings.revision \in Nat
      BY <1>1 DEF ReviewTypeOK
    <3> QED
      BY <1>1, <2>4, <3>1, <3>2 DEF ProposalsOK, Review!AboutTheModelInUse, Goes, ReviewInv
  <2>7. WorkOK'
    BY <1>1, <2>2 DEF WorkOK, AtWork, Review!IdleWork, ReviewTypeOK, ReviewInv
  <2>8. ReviewTypeOK'
    BY <1>1, <2>2, <2>3, <2>4 DEF ReviewTypeOK
  <2> QED
    BY <2>2, <2>5, <2>6, <2>7, <2>8 DEF ReviewInv, Review!OneRun
<1> QED
  BY <1>2, <1>3 DEF Review!Finish

LEMMA ReviewStep ==
    ASSUME ReviewInv, [Review!ReviewNext]_Review!review_vars
    PROVE  ReviewInv' /\ Review!DecisionIsFinal
<1>1. CASE UNCHANGED Review!review_vars
  BY <1>1 DEF Review!review_vars, ReviewInv, ReviewTypeOK, WorkOK, AtWork, ProposalsOK, Review!OneRun, Review!AskedOnce,
              Review!AboutTheModelInUse, Review!Identity, Review!Open, Review!DecisionIsFinal
<1>2. ASSUME NEW i \in Reviewers,
             Review!ReadSettings(i) \/ Review!Claim(i) \/ Review!Fetch(i) \/ Review!Finish(i) \/ Review!Die(i)
      PROVE  ReviewInv' /\ Review!DecisionIsFinal
  BY <1>2, ReadSettingsStep, ClaimStep, FetchStepR, FinishStep, DieStep
<1>3. CASE Review!Owner
  BY <1>3, SaveSettingsStep, ShowPageStep, DecideStep DEF Review!Owner
<1>4. CASE Review!World
  BY <1>4, WorldStep
<1> QED
  BY <1>1, <1>2, <1>3, <1>4 DEF Review!ReviewNext

\* One review of the model at a time; the owner is asked once about a replacement and never about a
\* model he no longer uses; what he decided stays decided (run_if_due, decide).
THEOREM ReviewsAreSound == Review!ReviewSpec => Review!ReviewSound
<1>1. Review!ReviewInit => ReviewInv
  BY InvInitR
<1>2. ReviewInv /\ [Review!ReviewNext]_Review!review_vars => ReviewInv'
  BY ReviewStep
<1>3. ReviewInv /\ [Review!ReviewNext]_Review!review_vars => [Review!DecisionIsFinal]_Review!review_vars
  BY ReviewStep
<1>4. ReviewInv => Review!OneRun /\ Review!AskedOnce /\ Review!AboutTheModelInUse
  BY DEF ReviewInv
<1> QED
  BY <1>1, <1>2, <1>3, <1>4, PTL DEF Review!ReviewSpec, Review!ReviewSound

=============================================================================
