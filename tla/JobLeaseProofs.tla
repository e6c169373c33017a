--------------------------- MODULE JobLeaseProofs ---------------------------
(***************************************************************************)
(* The lease protocol is correct for every set of owners and jobs, every   *)
(* lease length and every clock skew.  The inductive invariant adds to the *)
(* model-checked invariants two facts about clocks they rest on: a row     *)
(* nobody works on has expired for the fastest clock (ReleasedExpired), so *)
(* a repeated acquire never hands out a released row as a live lease; and  *)
(* the row of a current lease lives at least as long as its holder was     *)
(* told (NeverShortened), lost answers of renew included.                  *)
(***************************************************************************)
EXTENDS JobLease, TLAPS

ReleasedExpired ==
    \A j \in Jobs :
        jobs[j].state \in {"absent", "released"} => jobs[j].until <= now + MaxSkew

NeverShortened ==
    \A j \in Jobs, o \in Owners :
        /\ Working(o, j)
        /\ held[o][j].attempt = jobs[j].attempt
        /\ jobs[j].state = "active"
        => held[o][j].until <= jobs[j].until

Inv ==
    /\ TypeOK
    /\ FencingTokens
    /\ LeaseMargin
    /\ ReleasedExpired
    /\ NeverShortened
    /\ ConfirmedCompletions

-----------------------------------------------------------------------------
(* What every branch of a call does to the state, by the values it writes. *)

(* The empty row and the empty holding have their types.                   *)
LEMMA InitialValues ==
    /\ AbsentRow \in Rows
    /\ NoLease \in Holding
BY DEF AbsentRow, Rows, JobLease, NoOwner, JobStates, Checkpoints, NoCheckpoint,
       NoLease, Holding

(* The rows the calls write are rows.                                      *)
LEMMA LeaseTypes ==
    ASSUME NEW row \in Rows, NEW o \in Owners, NEW t \in Nat, NEW ttl \in TTLs
    PROVE  /\ Acquired(row, o, t, ttl) \in Rows
           /\ Reopened(row, o, t, ttl) \in Rows
           /\ Renewed(row, t, ttl) \in Rows
           /\ Token(Renewed(row, t, ttl)) \in Holding
<1> ttl \in Nat
  BY TTLsAssumption
<1>1. CollectCheckpoint \in Checkpoints
  BY DEF Checkpoints, CollectCheckpoint
<1>2. /\ Acquired(row, o, t, ttl) \in Rows
      /\ Reopened(row, o, t, ttl) \in Rows
  BY <1>1 DEF Acquired, Reopened, JobLease, Rows, JobStates
<1>3. Renewed(row, t, ttl) \in Rows
  BY DEF Renewed, Rows
<1>4. Token(Renewed(row, t, ttl)) \in Holding
  BY <1>3 DEF Token, Holding, Rows
<1> QED BY <1>2, <1>3, <1>4

LEMMA ProgressTypes ==
    ASSUME NEW row \in Rows, NEW t \in Nat
    PROVE  /\ Completed(row) \in Rows
           /\ Released(row, t) \in Rows
           /\ Token(row) \in Holding
           /\ \A c \in Progress : Checkpointed(row, c) \in Rows
           /\ \A c \in Progress : Queued(row, c) \in Rows
<1>1. \A c \in Progress : c \in Checkpoints
  BY DEF Progress, Checkpoints
<1>2. \A c \in Progress : Queued(row, c) \in Rows
  BY <1>1 DEF Queued, JobLease, Rows, JobStates
<1>3. \A c \in Progress : Checkpointed(row, c) \in Rows
  BY <1>1 DEF Checkpointed, Rows
<1>4. Completed(row) \in Rows /\ Released(row, t) \in Rows
  BY DEF Completed, Released, Rows, JobStates
<1>5. Token(row) \in Holding
  BY DEF Token, Holding, Rows
<1> QED BY <1>2, <1>3, <1>4, <1>5

(* Readings are naturals at most MaxSkew ahead of now.                     *)
LEMMA ReadingsBound ==
    ASSUME TypeOK, NEW t \in Readings
    PROVE  t \in Nat /\ now <= t /\ t <= now + MaxSkew
BY BoundsAssumption DEF TypeOK, Readings

THEOREM InitInv == Init => Inv
<1> SUFFICES ASSUME Init PROVE Inv
  OBVIOUS
<1> USE DEF Init
<1>1. TypeOK
  BY InitialValues DEF TypeOK
<1>2. FencingTokens /\ LeaseMargin /\ NeverShortened
  BY DEF FencingTokens, LeaseMargin, NeverShortened, Working, Holds, NoLease
<1>3. ReleasedExpired
  BY BoundsAssumption DEF ReleasedExpired, AbsentRow, JobLease
<1>4. ConfirmedCompletions
  BY DEF ConfirmedCompletions
<1> QED BY <1>1, <1>2, <1>3, <1>4 DEF Inv

(* Put and Learn, point by point.                                          *)
LEMMA PutValue ==
    ASSUME TypeOK, NEW j \in Jobs, NEW row \in Rows, Put(j, row)
    PROVE  /\ jobs' \in [Jobs -> Rows]
           /\ jobs'[j] = row
           /\ \A k \in Jobs : k # j => jobs'[k] = jobs[k]
BY DEF TypeOK, Put

LEMMA LearnValue ==
    ASSUME TypeOK, NEW o \in Owners, NEW j \in Jobs, NEW h \in Holding,
           Learn(o, j, h)
    PROVE  /\ held' \in [Owners -> [Jobs -> Holding]]
           /\ held'[o][j] = h
           /\ \A p \in Owners, k \in Jobs :
                 p # o \/ k # j => held'[p][k] = held[p][k]
BY DEF TypeOK, Learn

(* A call that gives the row a new attempt of owner o keeps the invariant: *)
(* acquire of an expired row and reopen_completed of a finished one.       *)
LEMMA TakeoverPreserves ==
    ASSUME Inv, NEW o \in Owners, NEW j \in Jobs, NEW lease \in Rows,
           lease.owner = o, lease.attempt = jobs[j].attempt + 1,
           lease.state = "active",
           jobs[j].state = "done" \/ jobs[j].until <= now + MaxSkew,
           Put(j, lease), Answer(o, j, Token(lease)), ~Holds(o, j),
           UNCHANGED <<up, now, confirmed>>
    PROVE  Inv'
<1> USE BoundsAssumption DEF Inv
<1>0. Token(lease) \in Holding
  BY DEF Token, Holding, Rows
<1>a. /\ jobs' \in [Jobs -> Rows]
      /\ jobs'[j] = lease
      /\ \A k \in Jobs : k # j => jobs'[k] = jobs[k]
  BY PutValue
<1>b. /\ held' \in [Owners -> [Jobs -> Holding]]
      /\ held'[o][j] \in {held[o][j], Token(lease)}
      /\ \A p \in Owners, k \in Jobs :
            p # o \/ k # j => held'[p][k] = held[p][k]
  <2>1. CASE Learn(o, j, Token(lease))
    BY <1>0, <2>1, LearnValue
  <2>2. CASE UNCHANGED held
    <3>1. held' = held /\ held \in [Owners -> [Jobs -> Holding]]
      BY <2>2 DEF TypeOK
    <3> QED BY <3>1
  <2> QED BY <2>1, <2>2 DEF Answer
<1>c. held[o][j].attempt = 0
  BY DEF Holds, TypeOK, Holding
<1>1. TypeOK'
  BY <1>a, <1>b DEF TypeOK
<1>2. FencingTokens'
  <2> SUFFICES ASSUME NEW k \in Jobs, NEW p \in Owners, Holds(p, k)'
               PROVE  /\ held'[p][k].attempt <= jobs'[k].attempt
                      /\ held'[p][k].attempt = jobs'[k].attempt => jobs'[k].owner = p
                      /\ \A q \in Owners \ {p} :
                            held'[q][k].attempt # held'[p][k].attempt
    BY DEF FencingTokens
  <2>1. CASE k # j
    BY <1>a, <1>b, <2>1 DEF FencingTokens, Holds
  <2>2. CASE k = j
    <3>1. \A q \in Owners : held[q][j].attempt <= jobs[j].attempt
      BY DEF FencingTokens, Holds, TypeOK, Rows, Holding
    <3>2. jobs[j].attempt \in Nat /\ lease.attempt = jobs[j].attempt + 1
      BY DEF TypeOK, Rows
    <3>3. held'[o][j].attempt \in {0, lease.attempt}
      BY <1>b, <1>c DEF Token
    <3>4. \A q \in Owners : held'[q][j].attempt \in Nat
      BY <1>b DEF Holding
    <3> QED BY <1>a, <1>b, <2>2, <3>1, <3>2, <3>3, <3>4 DEF FencingTokens, Holds
  <2> QED BY <2>1, <2>2
<1>3. LeaseMargin'
  <2> SUFFICES ASSUME NEW k \in Jobs, NEW p \in Owners, Working(p, k)',
                      held'[p][k].until > now + MaxSkew
               PROVE  OwnedActive(jobs'[k], p, held'[p][k].attempt, now + MaxSkew)
    BY DEF LeaseMargin
  <2>1. CASE k # j
    BY <1>a, <1>b, <2>1 DEF LeaseMargin, Working, Holds
  <2>2. CASE k = j /\ p = o
    BY <1>a, <1>b, <1>c, <2>2 DEF Working, Holds, Token, OwnedActive, Unexpired
  <2>3. CASE k = j /\ p # o
    <3>1. OwnedActive(jobs[j], p, held[p][j].attempt, now + MaxSkew)
      BY <1>b, <2>3 DEF LeaseMargin, Working, Holds
    <3> QED BY <3>1 DEF OwnedActive, Unexpired, TypeOK, Rows
  <2> QED BY <2>1, <2>2, <2>3
<1>4. ReleasedExpired'
  BY <1>a DEF ReleasedExpired
<1>5. ConfirmedCompletions'
  <2> SUFFICES ASSUME NEW c \in confirmed
               PROVE  \/ jobs'[c[1]].attempt > c[3]
                      \/ FinishedUnder(jobs'[c[1]], c[2], c[3])
    BY DEF ConfirmedCompletions
  <2>1. c[1] \in Jobs /\ c[3] \in Nat
    BY DEF TypeOK
  <2>2. CASE c[1] # j
    BY <1>a, <2>1, <2>2 DEF ConfirmedCompletions
  <2>3. CASE c[1] = j
    <3>1. jobs[j].attempt >= c[3]
      BY <2>1, <2>3 DEF ConfirmedCompletions, FinishedUnder, TypeOK, Rows
    <3> QED BY <1>a, <2>1, <2>3, <3>1 DEF TypeOK, Rows
  <2> QED BY <2>2, <2>3
<1>6. NeverShortened'
  <2> SUFFICES ASSUME NEW k \in Jobs, NEW p \in Owners, Working(p, k)',
                      held'[p][k].attempt = jobs'[k].attempt,
                      jobs'[k].state = "active"
               PROVE  held'[p][k].until <= jobs'[k].until
    BY DEF NeverShortened
  <2>1. CASE k # j
    BY <1>a, <1>b, <2>1 DEF NeverShortened, Working, Holds
  <2>2. CASE k = j /\ p = o
    BY <1>a, <1>b, <1>c, <2>2 DEF Working, Holds, Token, Rows
  <2>3. CASE k = j /\ p # o
    <3>1. held[p][j].attempt <= jobs[j].attempt /\ jobs[j].attempt \in Nat
      BY <1>b, <2>3 DEF FencingTokens, Working, Holds, TypeOK, Rows
    <3> QED BY <1>a, <1>b, <2>3, <3>1 DEF TypeOK, Holding
  <2> QED BY <2>1, <2>2, <2>3
<1> QED BY <1>1, <1>2, <1>3, <1>4, <1>5, <1>6
(* A fenced call that finds its token current: the row keeps owner and     *)
(* attempt; the caller goes on only with an active row that has not been   *)
(* shortened below what it was told (renew, checkpoint, complete, release). *)
LEMMA FencedPreserves ==
    ASSUME Inv, NEW o \in Owners, NEW j \in Jobs, NEW row \in Rows,
           NEW h \in Holding, Holds(o, j),
           jobs[j].state = "active", jobs[j].owner = o,
           jobs[j].attempt = held[o][j].attempt,
           row.owner = o, row.attempt = jobs[j].attempt,
           row.state \in {"absent", "released"} => row.until <= now + MaxSkew,
           h.attempt \in {0, row.attempt},
           h.attempt > 0 /\ ~h.closing =>
               row.state = "active" /\ h.until <= row.until,
           Put(j, row), Learn(o, j, h),
           \/ UNCHANGED confirmed
           \/ /\ row.state = "done"
              /\ confirmed' = confirmed \cup {<<j, o, row.attempt>>},
           UNCHANGED <<up, now>>
    PROVE  Inv'
<1> USE BoundsAssumption DEF Inv
<1>a. /\ jobs' \in [Jobs -> Rows]
      /\ jobs'[j] = row
      /\ \A k \in Jobs : k # j => jobs'[k] = jobs[k]
  BY PutValue
<1>b. /\ held' \in [Owners -> [Jobs -> Holding]]
      /\ held'[o][j] = h
      /\ \A p \in Owners, k \in Jobs :
            p # o \/ k # j => held'[p][k] = held[p][k]
  BY LearnValue
<1>c. row.attempt \in Nat /\ jobs[j].attempt \in Nat /\ row.until \in Nat
  BY DEF TypeOK, Rows
<1>1. TypeOK'
  BY <1>a, <1>b, <1>c DEF TypeOK
<1>2. FencingTokens'
  <2> SUFFICES ASSUME NEW k \in Jobs, NEW p \in Owners, Holds(p, k)'
               PROVE  /\ held'[p][k].attempt <= jobs'[k].attempt
                      /\ held'[p][k].attempt = jobs'[k].attempt => jobs'[k].owner = p
                      /\ \A q \in Owners \ {p} :
                            held'[q][k].attempt # held'[p][k].attempt
    BY DEF FencingTokens
  <2>1. CASE k # j
    BY <1>a, <1>b, <2>1 DEF FencingTokens, Holds
  <2>2. CASE k = j
    <3>1. \A q \in Owners \ {o} : held[q][j].attempt # row.attempt
      BY <1>c DEF FencingTokens
    <3>2. \A q \in Owners : held'[q][j].attempt \in Nat
      BY <1>b DEF Holding
    <3> QED BY <1>a, <1>b, <1>c, <2>2, <3>1, <3>2 DEF FencingTokens, Holds
  <2> QED BY <2>1, <2>2
<1>3. LeaseMargin'
  <2> SUFFICES ASSUME NEW k \in Jobs, NEW p \in Owners, Working(p, k)',
                      held'[p][k].until > now + MaxSkew
               PROVE  OwnedActive(jobs'[k], p, held'[p][k].attempt, now + MaxSkew)
    BY DEF LeaseMargin
  <2>1. CASE k # j
    BY <1>a, <1>b, <2>1 DEF LeaseMargin, Working, Holds
  <2>2. CASE k = j /\ p = o
    <3>1. row.state = "active" /\ h.until <= row.until /\ h.attempt = row.attempt
      BY <1>b, <2>2 DEF Working, Holds
    <3>2. now + MaxSkew \in Nat /\ h.until \in Nat
      BY DEF TypeOK, Holding
    <3> QED BY <1>a, <1>b, <1>c, <2>2, <3>1, <3>2 DEF OwnedActive, Unexpired
  <2>3. CASE k = j /\ p # o
    <3>1. OwnedActive(jobs[j], p, held[p][j].attempt, now + MaxSkew)
      BY <1>b, <2>3 DEF LeaseMargin, Working, Holds
    <3> QED BY <2>3, <3>1 DEF OwnedActive
  <2> QED BY <2>1, <2>2, <2>3
<1>4. ReleasedExpired'
  BY <1>a DEF ReleasedExpired
<1>5. ConfirmedCompletions'
  <2> SUFFICES ASSUME NEW c \in confirmed'
               PROVE  \/ jobs'[c[1]].attempt > c[3]
                      \/ FinishedUnder(jobs'[c[1]], c[2], c[3])
    BY DEF ConfirmedCompletions
  <2>1. CASE c \in confirmed
    <3>1. c[1] \in Jobs /\ c[3] \in Nat
      BY <2>1 DEF TypeOK
    <3>2. jobs[c[1]].attempt > c[3] \/ FinishedUnder(jobs[c[1]], c[2], c[3])
      BY <2>1 DEF ConfirmedCompletions
    <3>3. CASE c[1] # j
      BY <1>a, <3>1, <3>2, <3>3
    <3>4. CASE c[1] = j
      <4>1. ~FinishedUnder(jobs[j], c[2], c[3])
        BY DEF FinishedUnder
      <4> QED BY <1>a, <3>2, <3>4, <4>1
    <3> QED BY <3>3, <3>4
  <2>2. CASE c = <<j, o, row.attempt>> /\ row.state = "done"
    BY <1>a, <2>2 DEF FinishedUnder
  <2> QED BY <2>1, <2>2
<1>6. NeverShortened'
  <2> SUFFICES ASSUME NEW k \in Jobs, NEW p \in Owners, Working(p, k)',
                      held'[p][k].attempt = jobs'[k].attempt,
                      jobs'[k].state = "active"
               PROVE  held'[p][k].until <= jobs'[k].until
    BY DEF NeverShortened
  <2>1. CASE k # j
    BY <1>a, <1>b, <2>1 DEF NeverShortened, Working, Holds
  <2>2. CASE k = j /\ p = o
    BY <1>a, <1>b, <2>2 DEF Working, Holds
  <2>3. CASE k = j /\ p # o
    <3>1. held[p][j].attempt # row.attempt
      BY <1>c, <2>3 DEF FencingTokens
    <3> QED BY <1>a, <1>b, <2>3, <3>1
  <2> QED BY <2>1, <2>2, <2>3
<1> QED BY <1>1, <1>2, <1>3, <1>4, <1>5, <1>6

(* A call that leaves the table alone: the caller forgets its lease, or    *)
(* (acquire after a lost answer) learns the one it already owns.           *)
LEMMA LearnPreserves ==
    ASSUME Inv, NEW o \in Owners, NEW j \in Jobs, NEW h \in Holding,
           \/ h = NoLease
           \/ /\ h = Token(jobs[j])
              /\ jobs[j].owner = o
              /\ jobs[j].state # "done",
           UNCHANGED jobs, Learn(o, j, h),
           \/ UNCHANGED confirmed
           \/ \E a \in Nat : /\ CompletedBefore(jobs[j], o, a)
                             /\ confirmed' = confirmed \cup {<<j, o, a>>},
           UNCHANGED <<up, now>>
    PROVE  Inv'
<1> USE BoundsAssumption DEF Inv
<1>b. /\ held' \in [Owners -> [Jobs -> Holding]]
      /\ held'[o][j] = h
      /\ \A p \in Owners, k \in Jobs :
            p # o \/ k # j => held'[p][k] = held[p][k]
  BY LearnValue
<1>c. \A k \in Jobs : jobs[k].attempt \in Nat /\ jobs[k].until \in Nat
  BY DEF TypeOK, Rows
<1>1. TypeOK'
  BY <1>b DEF TypeOK
<1>2. FencingTokens'
  <2> SUFFICES ASSUME NEW k \in Jobs, NEW p \in Owners, Holds(p, k)'
               PROVE  /\ held'[p][k].attempt <= jobs[k].attempt
                      /\ held'[p][k].attempt = jobs[k].attempt => jobs[k].owner = p
                      /\ \A q \in Owners \ {p} :
                            held'[q][k].attempt # held'[p][k].attempt
    BY DEF FencingTokens
  <2>1. CASE k # j
    BY <1>b, <2>1 DEF FencingTokens, Holds
  <2>2. CASE k = j /\ h = NoLease
    <3>1. p # o /\ held'[p][k] = held[p][k] /\ held[p][k].attempt > 0
      BY <1>b, <2>2 DEF Holds, NoLease
    <3>2. \A q \in Owners : held'[q][k].attempt \in {0, held[q][k].attempt}
      BY <1>b, <2>2 DEF NoLease
    <3>3. \A q \in Owners \ {p} : held[q][k].attempt # held[p][k].attempt
      BY <3>1 DEF FencingTokens, Holds
    <3> QED BY <3>1, <3>2, <3>3 DEF FencingTokens, Holds
  <2>3. CASE k = j /\ h = Token(jobs[j]) /\ jobs[j].owner = o
    <3>1. ASSUME NEW q \in Owners \ {o}, held[q][j].attempt = jobs[j].attempt
          PROVE  jobs[j].attempt = 0
      BY <1>c, <2>3, <3>1 DEF FencingTokens, Holds
    <3> QED BY <1>b, <1>c, <2>3, <3>1 DEF FencingTokens, Holds, Token
  <2> QED BY <2>1, <2>2, <2>3
<1>3. LeaseMargin'
  <2> SUFFICES ASSUME NEW k \in Jobs, NEW p \in Owners, Working(p, k)',
                      held'[p][k].until > now + MaxSkew
               PROVE  OwnedActive(jobs[k], p, held'[p][k].attempt, now + MaxSkew)
    BY DEF LeaseMargin
  <2>1. CASE k # j \/ p # o
    BY <1>b, <2>1 DEF LeaseMargin, Working, Holds
  <2>2. CASE k = j /\ p = o /\ h = NoLease
    BY <1>b, <2>2 DEF Working, Holds, NoLease
  <2>3. CASE k = j /\ p = o /\ h = Token(jobs[j])
    <3>1. jobs[j].state \in {"absent", "active", "released", "done"}
      BY DEF TypeOK, Rows, JobStates
    <3>2. jobs[j].until > now + MaxSkew /\ jobs[j].owner = o /\ jobs[j].state # "done"
      BY <1>b, <2>3 DEF Token, Working, Holds, NoLease
    <3>3. jobs[j].state = "active"
      BY <1>c, <3>1, <3>2 DEF ReleasedExpired, TypeOK
    <3> QED BY <1>b, <2>3, <3>2, <3>3 DEF OwnedActive, Unexpired, Token
  <2> QED BY <2>1, <2>2, <2>3
<1>4. ReleasedExpired'
  BY DEF ReleasedExpired
<1>5. ConfirmedCompletions'
  BY DEF ConfirmedCompletions, FinishedUnder, CompletedBefore
<1>6. NeverShortened'
  <2> SUFFICES ASSUME NEW k \in Jobs, NEW p \in Owners, Working(p, k)',
                      held'[p][k].attempt = jobs[k].attempt,
                      jobs[k].state = "active"
               PROVE  held'[p][k].until <= jobs[k].until
    BY DEF NeverShortened
  <2>1. CASE k # j \/ p # o
    BY <1>b, <2>1 DEF NeverShortened, Working, Holds
  <2>2. CASE k = j /\ p = o
    BY <1>b, <1>c, <2>2 DEF Working, Holds, NoLease, Token
  <2> QED BY <2>1, <2>2
<1> QED BY <1>1, <1>2, <1>3, <1>4, <1>5, <1>6
-----------------------------------------------------------------------------
(* One lemma per operation of Next.                                        *)

LEMMA AcquirePreserves ==
    ASSUME Inv, NEW o \in Owners, NEW j \in Jobs, NEW t \in Readings,
           NEW ttl \in TTLs, Acquire(o, j, t, ttl)
    PROVE  Inv'
<1>0. TypeOK /\ jobs[j] \in Rows
  BY DEF Inv, TypeOK
<1>t. t \in Nat /\ t <= now + MaxSkew /\ now + MaxSkew \in Nat
  BY <1>0, ReadingsBound, BoundsAssumption DEF TypeOK
<1>1. CASE /\ CanAcquire(jobs[j], t)
           /\ Put(j, Acquired(jobs[j], o, t, ttl))
           /\ Answer(o, j, Token(Acquired(jobs[j], o, t, ttl)))
  <2> DEFINE lease == Acquired(jobs[j], o, t, ttl)
  <2>1. lease \in Rows
    BY <1>0, <1>t, LeaseTypes
  <2>2. /\ lease.owner = o
        /\ lease.attempt = jobs[j].attempt + 1
        /\ lease.state = "active"
    BY DEF Acquired, JobLease
  <2>3. jobs[j].until <= now + MaxSkew
    BY <1>0, <1>1, <1>t DEF CanAcquire, Unexpired, Rows
  <2> HIDE DEF lease
  <2> QED BY <1>1, <2>1, <2>2, <2>3, TakeoverPreserves DEF Acquire, lease
<1>2. CASE AlreadyOwned(jobs[j], o, t) /\ Learn(o, j, Token(jobs[j])) /\ UNCHANGED jobs
  <2>1. Token(jobs[j]) \in Holding
    BY <1>0, <1>t, ProgressTypes
  <2> QED BY <1>2, <2>1, LearnPreserves DEF Acquire, AlreadyOwned
<1> QED BY <1>1, <1>2 DEF Acquire

LEMMA ReopenPreserves ==
    ASSUME Inv, NEW o \in Owners, NEW j \in Jobs, NEW t \in Readings,
           NEW ttl \in TTLs, ReopenCompleted(o, j, t, ttl)
    PROVE  Inv'
<1> DEFINE lease == Reopened(jobs[j], o, t, ttl)
<1>0. TypeOK /\ jobs[j] \in Rows
  BY DEF Inv, TypeOK
<1>1. lease \in Rows
  BY <1>0, ReadingsBound, LeaseTypes
<1>2. /\ lease.owner = o
      /\ lease.attempt = jobs[j].attempt + 1
      /\ lease.state = "active"
  BY DEF Reopened, JobLease
<1>3. jobs[j].state = "done"
  BY DEF ReopenCompleted, CanReopen
<1> HIDE DEF lease
<1> QED BY <1>1, <1>2, <1>3, TakeoverPreserves DEF ReopenCompleted, lease

(* A call that finds its token stale.                                      *)
LEMMA LostPreserves ==
    ASSUME Inv, NEW o \in Owners, NEW j \in Jobs, Lost(o, j),
           UNCHANGED <<up, now, confirmed>>
    PROVE  Inv'
BY InitialValues, LearnPreserves DEF Lost

LEMMA RenewPreserves ==
    ASSUME Inv, NEW o \in Owners, NEW j \in Jobs, NEW t \in Readings,
           NEW ttl \in TTLs, Renew(o, j, t, ttl)
    PROVE  Inv'
<1>0. TypeOK /\ jobs[j] \in Rows /\ held[o][j] \in Holding
  BY DEF Inv, TypeOK
<1>t. t \in Nat /\ now + MaxSkew \in Nat /\ ttl \in Nat
  BY <1>0, ReadingsBound, BoundsAssumption, TTLsAssumption DEF TypeOK
<1>1. CASE /\ OwnedActive(jobs[j], o, held[o][j].attempt, t)
           /\ Put(j, Renewed(jobs[j], t, ttl))
           /\ Answer(o, j, Token(Renewed(jobs[j], t, ttl)))
  <2> DEFINE lease == Renewed(jobs[j], t, ttl)
  <2>1. lease \in Rows /\ Token(lease) \in Holding
    BY <1>0, <1>t, LeaseTypes
  <2>2. /\ lease.owner = o
        /\ lease.attempt = jobs[j].attempt
        /\ lease.state = "active"
        /\ jobs[j].until <= lease.until
    BY <1>0, <1>1, <1>t DEF Renewed, Rows, OwnedActive
  <2>3. /\ jobs[j].state = "active" /\ jobs[j].owner = o
        /\ jobs[j].attempt = held[o][j].attempt
        /\ Holds(o, j) /\ Working(o, j)
    BY <1>1 DEF OwnedActive, Renew, Working
  <2>4. CASE Learn(o, j, Token(lease))
    <3> DEFINE h == Token(lease)
    <3>1. h.attempt = lease.attempt /\ h.until <= lease.until
      BY <2>1 DEF Token, Rows
    <3> HIDE DEF lease, h
    <3> QED BY <1>1, <2>1, <2>2, <2>3, <2>4, <3>1, FencedPreserves DEF Renew, lease, h
  <2>5. CASE UNCHANGED held
    <3>1. Learn(o, j, held[o][j])
      BY <1>0, <2>5 DEF Learn, TypeOK
    <3>2. held[o][j].until <= lease.until
      <4>1. held[o][j].until <= jobs[j].until
        BY <2>3 DEF Inv, NeverShortened
      <4> HIDE DEF lease
      <4> QED BY <1>0, <2>1, <2>2, <4>1 DEF Rows, Holding
    <3> HIDE DEF lease
    <3> QED BY <1>0, <1>1, <2>1, <2>2, <2>3, <3>1, <3>2, FencedPreserves DEF Renew, lease
  <2> QED BY <1>1, <2>4, <2>5 DEF Answer
<1>2. CASE Lost(o, j)
  BY <1>2, LostPreserves DEF Renew
<1> QED BY <1>1, <1>2 DEF Renew

LEMMA CheckpointPreserves ==
    ASSUME Inv, NEW o \in Owners, NEW j \in Jobs, NEW t \in Readings,
           NEW c \in Progress, Checkpoint(o, j, t, c)
    PROVE  Inv'
<1>0. TypeOK /\ jobs[j] \in Rows /\ held[o][j] \in Holding
  BY DEF Inv, TypeOK
<1>1. CASE /\ OwnedActive(jobs[j], o, held[o][j].attempt, t)
           /\ Put(j, Checkpointed(jobs[j], c))
           /\ UNCHANGED held
  <2> DEFINE row == Checkpointed(jobs[j], c)
  <2>1. row \in Rows
    BY <1>0, ReadingsBound, ProgressTypes
  <2>2. /\ row.owner = o
        /\ row.attempt = jobs[j].attempt
        /\ row.state = "active"
        /\ row.until = jobs[j].until
    BY <1>0, <1>1 DEF Checkpointed, Rows, OwnedActive
  <2>3. /\ jobs[j].state = "active" /\ jobs[j].owner = o
        /\ jobs[j].attempt = held[o][j].attempt
        /\ Holds(o, j) /\ Working(o, j)
    BY <1>1 DEF OwnedActive, Checkpoint, Working
  <2>4. Learn(o, j, held[o][j])
    BY <1>0, <1>1 DEF Learn, TypeOK
  <2>5. held[o][j].until <= row.until
    BY <2>2, <2>3 DEF Inv, NeverShortened
  <2> HIDE DEF row
  <2> QED BY <1>0, <1>1, <2>1, <2>2, <2>3, <2>4, <2>5, FencedPreserves
          DEF Checkpoint, row
<1>2. CASE Lost(o, j)
  BY <1>2, LostPreserves DEF Checkpoint
<1> QED BY <1>1, <1>2 DEF Checkpoint

(* The holding left by complete or release.                                *)
LEMMA ClosedHolding ==
    ASSUME NEW h \in Holding
    PROVE  LET closed == [h EXCEPT !.closing = TRUE] IN
               closed \in Holding /\ closed.closing /\ closed.attempt = h.attempt
BY DEF Holding

LEMMA CompletePreserves ==
    ASSUME Inv, NEW o \in Owners, NEW j \in Jobs, NEW t \in Readings,
           Complete(o, j, t)
    PROVE  Inv'
<1> DEFINE a == held[o][j].attempt
<1>0. TypeOK /\ jobs[j] \in Rows /\ held[o][j] \in Holding /\ a \in Nat
  BY DEF Inv, TypeOK, Holding
<1>1. CASE OwnedActive(jobs[j], o, a, t)
  <2> DEFINE row == Completed(jobs[j])
  <2>1. row \in Rows
    BY <1>0, ReadingsBound, ProgressTypes
  <2>2. row.owner = o /\ row.attempt = jobs[j].attempt /\ row.state = "done"
    BY <1>0, <1>1 DEF Completed, Rows, OwnedActive
  <2>3. /\ jobs[j].state = "active" /\ jobs[j].owner = o
        /\ jobs[j].attempt = a /\ Holds(o, j) /\ Put(j, row)
        /\ UNCHANGED <<up, now>>
    BY <1>1 DEF OwnedActive, Complete
  <2>4. CASE Learn(o, j, NoLease) /\ confirmed' = confirmed \cup {<<j, o, a>>}
    <3>1. NoLease.attempt = 0
      BY DEF NoLease
    <3> HIDE DEF row
    <3> QED BY <2>1, <2>2, <2>3, <2>4, <3>1, InitialValues, FencedPreserves
  <2>5. CASE Unanswered(o, j) /\ UNCHANGED confirmed
    <3> DEFINE h == [held[o][j] EXCEPT !.closing = TRUE]
    <3>1. h \in Holding /\ h.closing /\ h.attempt = a
      BY <1>0, ClosedHolding
    <3>2. Learn(o, j, h)
      BY <2>5 DEF Unanswered
    <3> HIDE DEF row, h
    <3> QED BY <2>1, <2>2, <2>3, <2>5, <3>1, <3>2, FencedPreserves
  <2> QED BY <1>1, <2>4, <2>5 DEF Complete
<1>2. CASE ~OwnedActive(jobs[j], o, a, t)
  <2>1. Lost(o, j) /\ UNCHANGED <<up, now>>
    BY <1>2 DEF Complete
  <2>2. \/ UNCHANGED confirmed
        \/ /\ CompletedBefore(jobs[j], o, a)
           /\ confirmed' = confirmed \cup {<<j, o, a>>}
    BY <1>2 DEF Complete
  <2> HIDE DEF a
  <2> QED BY <1>0, <2>1, <2>2, InitialValues, LearnPreserves DEF Lost
<1> QED BY <1>1, <1>2

LEMMA ReleasePreserves ==
    ASSUME Inv, NEW o \in Owners, NEW j \in Jobs, NEW t \in Readings,
           Release(o, j, t)
    PROVE  Inv'
<1> DEFINE a == held[o][j].attempt
<1>0. TypeOK /\ jobs[j] \in Rows /\ held[o][j] \in Holding /\ a \in Nat
  BY DEF Inv, TypeOK, Holding
<1>t. t \in Nat /\ t <= now + MaxSkew
  BY <1>0, ReadingsBound
<1>1. CASE OwnedActive(jobs[j], o, a, t)
  <2> DEFINE row == Released(jobs[j], t)
  <2>1. row \in Rows
    BY <1>0, <1>t, ProgressTypes
  <2>2. row.owner = o /\ row.attempt = jobs[j].attempt /\ row.until <= now + MaxSkew
    BY <1>0, <1>1, <1>t DEF Released, Rows, OwnedActive
  <2>3. /\ jobs[j].state = "active" /\ jobs[j].owner = o
        /\ jobs[j].attempt = a /\ Holds(o, j) /\ Put(j, row)
        /\ UNCHANGED <<up, now, confirmed>>
    BY <1>1 DEF OwnedActive, Release
  <2>4. CASE Learn(o, j, NoLease)
    <3>1. NoLease.attempt = 0
      BY DEF NoLease
    <3> HIDE DEF row
    <3> QED BY <2>1, <2>2, <2>3, <2>4, <3>1, InitialValues, FencedPreserves
  <2>5. CASE Unanswered(o, j)
    <3> DEFINE h == [held[o][j] EXCEPT !.closing = TRUE]
    <3>1. h \in Holding /\ h.closing /\ h.attempt = a
      BY <1>0, ClosedHolding
    <3>2. Learn(o, j, h)
      BY <2>5 DEF Unanswered
    <3> HIDE DEF row, h
    <3> QED BY <2>1, <2>2, <2>3, <3>1, <3>2, FencedPreserves
  <2> QED BY <1>1, <2>4, <2>5 DEF Release
<1>2. CASE ~OwnedActive(jobs[j], o, a, t)
  BY <1>2, LostPreserves DEF Release
<1> QED BY <1>1, <1>2

LEMMA QueuePreserves ==
    ASSUME Inv, NEW j \in Jobs, NEW c \in Progress, Queue(j, c)
    PROVE  Inv'
<1> USE BoundsAssumption DEF Inv
<1> DEFINE row == Queued(jobs[j], c)
<1>0. TypeOK /\ jobs[j] \in Rows /\ 0 \in Nat
  BY DEF TypeOK
<1>1. row \in Rows
  BY <1>0, ProgressTypes
<1>2. /\ row.attempt = jobs[j].attempt + 1
      /\ row.state = "released" /\ row.until = 0
  BY DEF Queued, JobLease
<1>3. /\ jobs[j].state \in {"absent", "done"} /\ Put(j, row)
      /\ UNCHANGED <<held, up, now, confirmed>>
  BY DEF Queue, CanQueue
<1> HIDE DEF row
<1>a. /\ jobs' \in [Jobs -> Rows]
      /\ jobs'[j] = row
      /\ \A k \in Jobs : k # j => jobs'[k] = jobs[k]
  BY <1>1, <1>3, PutValue
<1>b. \A k \in Jobs : /\ jobs[k].attempt \in Nat
                      /\ \A p \in Owners : held[p][k].attempt \in Nat
  BY DEF TypeOK, Rows, Holding
<1>4. TypeOK'
  BY <1>3, <1>a DEF TypeOK
<1>5. FencingTokens'
  BY <1>2, <1>3, <1>a, <1>b DEF FencingTokens, Holds
<1>6. LeaseMargin'
  BY <1>3, <1>a DEF LeaseMargin, Working, Holds, OwnedActive
<1>7. ReleasedExpired'
  BY <1>2, <1>3, <1>a DEF ReleasedExpired, TypeOK
<1>8. ConfirmedCompletions'
  <2> SUFFICES ASSUME NEW x \in confirmed
               PROVE  \/ jobs'[x[1]].attempt > x[3]
                      \/ FinishedUnder(jobs'[x[1]], x[2], x[3])
    BY <1>3 DEF ConfirmedCompletions
  <2>1. x[1] \in Jobs /\ x[3] \in Nat /\ jobs[x[1]].attempt >= x[3]
    BY <1>b DEF TypeOK, ConfirmedCompletions, FinishedUnder
  <2>2. CASE x[1] = j
    BY <1>2, <1>a, <1>b, <2>1, <2>2
  <2>3. CASE x[1] # j
    BY <1>a, <2>1, <2>3 DEF ConfirmedCompletions
  <2> QED BY <2>2, <2>3
<1>9. NeverShortened'
  BY <1>2, <1>3, <1>a DEF NeverShortened, Working, Holds
<1> QED BY <1>4, <1>5, <1>6, <1>7, <1>8, <1>9

LEMMA CrashPreserves ==
    ASSUME Inv, NEW o \in Owners, Crash(o)
    PROVE  Inv'
<1> USE DEF Inv, Crash
<1>1. /\ held' \in [Owners -> [Jobs -> Holding]]
      /\ \A j \in Jobs : held'[o][j] = NoLease
      /\ \A p \in Owners, j \in Jobs : p # o => held'[p][j] = held[p][j]
  BY InitialValues DEF TypeOK
<1>2. TypeOK'
  BY <1>1 DEF TypeOK
<1>3. FencingTokens'
  <2> SUFFICES ASSUME NEW k \in Jobs, NEW p \in Owners, Holds(p, k)'
               PROVE  /\ held'[p][k].attempt <= jobs[k].attempt
                      /\ held'[p][k].attempt = jobs[k].attempt => jobs[k].owner = p
                      /\ \A q \in Owners \ {p} :
                            held'[q][k].attempt # held'[p][k].attempt
    BY DEF FencingTokens
  <2>1. p # o /\ held'[p][k] = held[p][k] /\ Holds(p, k)
    BY <1>1 DEF Holds, NoLease
  <2>2. \A q \in Owners : held'[q][k].attempt \in {0, held[q][k].attempt}
    BY <1>1 DEF NoLease
  <2> QED BY <2>1, <2>2 DEF FencingTokens, Holds
<1>4. LeaseMargin' /\ NeverShortened'
  BY <1>1 DEF LeaseMargin, NeverShortened, Working, Holds, NoLease
<1>5. ReleasedExpired' /\ ConfirmedCompletions'
  BY DEF ReleasedExpired, ConfirmedCompletions
<1> QED BY <1>2, <1>3, <1>4, <1>5

LEMMA TickPreserves ==
    ASSUME Inv, Tick
    PROVE  Inv'
<1> USE BoundsAssumption DEF Inv, Tick
<1>1. TypeOK' /\ FencingTokens' /\ NeverShortened' /\ ConfirmedCompletions'
  BY DEF TypeOK, FencingTokens, NeverShortened, Working, Holds, ConfirmedCompletions
<1>2. LeaseMargin'
  <2> SUFFICES ASSUME NEW k \in Jobs, NEW p \in Owners, Working(p, k),
                      held[p][k].until > now' + MaxSkew
               PROVE  OwnedActive(jobs[k], p, held[p][k].attempt, now' + MaxSkew)
    BY DEF LeaseMargin, Working, Holds
  <2>1. /\ now \in Nat /\ now' = now + 1
        /\ held[p][k].until \in Nat /\ jobs[k].until \in Nat
    BY DEF TypeOK, Rows, Holding
  <2>2. OwnedActive(jobs[k], p, held[p][k].attempt, now + MaxSkew)
    BY <2>1 DEF LeaseMargin
  <2>3. held[p][k].until <= jobs[k].until
    BY <2>2 DEF NeverShortened, OwnedActive
  <2> QED BY <2>1, <2>2, <2>3 DEF OwnedActive, Unexpired
<1>3. ReleasedExpired'
  BY DEF ReleasedExpired, TypeOK, Rows
<1> QED BY <1>1, <1>2, <1>3

-----------------------------------------------------------------------------
(* The invariant is inductive.                                             *)
THEOREM NextInv == Inv /\ [Next]_vars => Inv'
<1> SUFFICES ASSUME Inv, [Next]_vars PROVE Inv'
  OBVIOUS
<1>0. up \subseteq Owners
  BY DEF Inv, TypeOK
<1>1. ASSUME NEW o \in up, NEW j \in Jobs, Call(o, j) PROVE Inv'
  BY <1>0, <1>1, AcquirePreserves, ReopenPreserves, RenewPreserves,
     CheckpointPreserves, CompletePreserves, ReleasePreserves DEF Call
<1>2. ASSUME NEW o \in up, Crash(o) PROVE Inv'
  BY <1>0, <1>2, CrashPreserves
<1>3. ASSUME NEW j \in Jobs, NEW c \in Progress, Queue(j, c) PROVE Inv'
  BY <1>3, QueuePreserves
<1>4. CASE Tick
  BY <1>4, TickPreserves
<1>5. CASE UNCHANGED vars
  BY <1>5 DEF vars, Inv, TypeOK, FencingTokens, LeaseMargin, ReleasedExpired,
     NeverShortened, ConfirmedCompletions, Working, Holds
<1> QED BY <1>1, <1>2, <1>3, <1>4, <1>5 DEF Next

THEOREM Invariance == Spec => []Inv
BY InitInv, NextInv, PTL DEF Spec

(* The table and what every owner remembers of it keep their types.        *)
THEOREM TypeCorrect == Spec => []TypeOK
<1>1. Inv => TypeOK
  BY DEF Inv
<1> QED BY Invariance, <1>1, PTL

(* No two owners ever hold the same attempt of a job, and a current        *)
(* attempt is held only by the row's owner (jobs.py:acquire).              *)
THEOREM Fencing == Spec => []FencingTokens
<1>1. Inv => FencingTokens
  BY DEF Inv
<1> QED BY Invariance, <1>1, PTL

(* A lease protects its holder until it has expired on every clock.        *)
THEOREM MarginIsSafe == Spec => []LeaseMargin
<1>1. Inv => LeaseMargin
  BY DEF Inv
<1> QED BY Invariance, <1>1, PTL

(* complete answers True only for a job finished under that attempt.       *)
THEOREM HonestCompletion == Spec => []ConfirmedCompletions
<1>1. Inv => ConfirmedCompletions
  BY DEF Inv
<1> QED BY Invariance, <1>1, PTL
(* Whoever writes a row keeps the history of the job: a new owner means a  *)
(* new attempt, a finished row changes only with a new attempt, and a      *)
(* takeover inherits the checkpoint (acquire, complete, _queue).           *)
THEOREM HistoryHolds == Spec => OwnershipHistory
<1>1. ASSUME TypeOK, [Next]_vars, NEW j \in Jobs
      PROVE  RowHistory(jobs[j], jobs'[j])
  <2> DEFINE old == jobs[j]
  <2>0. /\ jobs \in [Jobs -> Rows] /\ old \in Rows /\ up \subseteq Owners
        /\ old.attempt \in Nat
    BY <1>1 DEF TypeOK, Rows
  <2>1. CASE jobs' = jobs
    BY <2>0, <2>1 DEF RowHistory
  <2>2. ASSUME NEW k \in Jobs, NEW row, Put(k, row), RowHistory(jobs[k], row)
        PROVE  RowHistory(jobs[j], jobs'[j])
    <3>1. CASE k = j
      BY <2>0, <2>2, <3>1 DEF Put
    <3>2. CASE k # j
      BY <2>0, <2>2, <3>2 DEF Put, RowHistory
    <3> QED BY <3>1, <3>2
  <2>3. ASSUME NEW row \in Rows, NEW o, NEW t, NEW ttl, CanAcquire(row, t)
        PROVE  RowHistory(row, Acquired(row, o, t, ttl))
    BY <2>3 DEF CanAcquire, Acquired, JobLease, RowHistory, Rows
  <2>4. ASSUME NEW row \in Rows, NEW o, NEW t, NEW ttl, row.state = "done"
        PROVE  RowHistory(row, Reopened(row, o, t, ttl))
    BY <2>4 DEF Reopened, JobLease, RowHistory, Rows
  <2>5. ASSUME NEW row \in Rows, NEW c, CanQueue(row)
        PROVE  RowHistory(row, Queued(row, c))
    BY <2>5 DEF CanQueue, Queued, JobLease, RowHistory, Rows
  <2>6. ASSUME NEW row \in Rows, row.state = "active", NEW t, NEW ttl, NEW c
        PROVE  /\ RowHistory(row, Renewed(row, t, ttl))
               /\ RowHistory(row, Checkpointed(row, c))
               /\ RowHistory(row, Completed(row))
               /\ RowHistory(row, Released(row, t))
    BY <2>6 DEF Renewed, Checkpointed, Completed, Released, RowHistory, Rows
  <2>7. ASSUME NEW o \in up, NEW k \in Jobs, Call(o, k)
        PROVE  RowHistory(jobs[j], jobs'[j])
    <3>0. jobs[k] \in Rows
      BY <2>0
    <3>1. ASSUME NEW t \in Readings, NEW ttl \in TTLs, Acquire(o, k, t, ttl)
          PROVE  RowHistory(jobs[j], jobs'[j])
      BY <2>1, <2>2, <2>3, <3>0, <3>1 DEF Acquire
    <3>2. ASSUME NEW t \in Readings, NEW ttl \in TTLs, ReopenCompleted(o, k, t, ttl)
          PROVE  RowHistory(jobs[j], jobs'[j])
      BY <2>2, <2>4, <3>0, <3>2 DEF ReopenCompleted, CanReopen
    <3>3. ASSUME NEW t \in Readings, NEW ttl \in TTLs, Renew(o, k, t, ttl)
          PROVE  RowHistory(jobs[j], jobs'[j])
      BY <2>1, <2>2, <2>6, <3>0, <3>3 DEF Renew, Lost, OwnedActive
    <3>4. ASSUME NEW t \in Readings, NEW c \in Progress, Checkpoint(o, k, t, c)
          PROVE  RowHistory(jobs[j], jobs'[j])
      BY <2>1, <2>2, <2>6, <3>0, <3>4 DEF Checkpoint, Lost, OwnedActive
    <3>5. ASSUME NEW t \in Readings, Complete(o, k, t)
          PROVE  RowHistory(jobs[j], jobs'[j])
      BY <2>1, <2>2, <2>6, <3>0, <3>5 DEF Complete, Lost, OwnedActive
    <3>6. ASSUME NEW t \in Readings, Release(o, k, t)
          PROVE  RowHistory(jobs[j], jobs'[j])
      BY <2>1, <2>2, <2>6, <3>0, <3>6 DEF Release, Lost, OwnedActive
    <3> QED BY <2>7, <3>1, <3>2, <3>3, <3>4, <3>5, <3>6 DEF Call
  <2>8. ASSUME NEW k \in Jobs, NEW c \in Progress, Queue(k, c)
        PROVE  RowHistory(jobs[j], jobs'[j])
    BY <2>0, <2>2, <2>5, <2>8 DEF Queue
  <2>9. CASE Tick \/ (\E o \in up : Crash(o)) \/ UNCHANGED vars
    BY <2>1, <2>9 DEF Tick, Crash, vars
  <2> QED BY <1>1, <2>7, <2>8, <2>9 DEF Next
<1>2. TypeOK /\ [Next]_vars => [\A j \in Jobs : RowHistory(jobs[j], jobs'[j])]_vars
  BY <1>1
<1> QED BY TypeCorrect, <1>2, PTL DEF Spec, OwnershipHistory
=============================================================================
