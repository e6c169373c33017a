------------------------------ MODULE JobLease ------------------------------
(***************************************************************************)
(* The fenced lease protocol of adapters/ydb/jobs.py: concurrent owners    *)
(* (one uuid per invocation of a cloud function or container worker) call  *)
(* JobLeaseRepository on shared rows.                                      *)
(*                                                                         *)
(*  - A call commits atomically (SerializableRW), but its answer may be    *)
(*    lost: the row has changed and the caller does not know it.           *)
(*  - An owner may die at any point and never comes back (a new invocation *)
(*    draws a new uuid).                                                   *)
(*  - Every call reads the wall clock of the machine it runs on.  `now` is *)
(*    the slowest clock; a reading lies in now..now + MaxSkew, and two     *)
(*    readings need not be ordered as the calls are.                       *)
(***************************************************************************)
EXTENDS Leases

CONSTANTS
    Owners,        \* uuids of invocations
    Jobs,          \* job keys
    TTLs,          \* lease_seconds the callers ask for
    Phases,        \* phases a worker records after "collect"
    Fingerprints,  \* input fingerprints a checkpoint may record
    MaxSkew,       \* spread of the clocks
    MaxTime,       \* bound: the clock stops here
    MaxAttempt     \* bound: attempts of one job

ASSUME OwnersAssumption == NoOwner \notin Owners
ASSUME TTLsAssumption == TTLs \subseteq Nat \ {0}
ASSUME BoundsAssumption ==
    MaxSkew \in Nat /\ MaxTime \in Nat /\ MaxAttempt \in Nat

VARIABLES
    jobs,   \* the table: job key -> row
    held,   \* what each owner believes it holds, per job
    up,     \* owners that have not died
    now,
    confirmed  \* <<job, owner, attempt>> for which complete returned True

vars == <<jobs, held, up, now, confirmed>>

Checkpoints ==
    [phase : Phases \cup {"none", "collect"},
     fp : Fingerprints \cup {NoFingerprint}]

\* What a worker hands to checkpoint().
Progress == [phase : Phases, fp : Fingerprints]

Rows == [owner : Owners \cup {NoOwner}, attempt : Nat, until : Nat,
         state : JobStates, checkpoint : Checkpoints]

\* `closing` is set when complete or release was called and not answered.
NoLease == [attempt |-> 0, until |-> 0, closing |-> FALSE]
Holding == [attempt : Nat, until : Nat, closing : BOOLEAN]

Token(row) == [attempt |-> row.attempt, until |-> row.until, closing |-> FALSE]

Holds(o, j) == held[o][j].attempt > 0
Working(o, j) == Holds(o, j) /\ ~held[o][j].closing

TypeOK ==
    /\ jobs \in [Jobs -> Rows]
    /\ held \in [Owners -> [Jobs -> Holding]]
    /\ up \subseteq Owners
    /\ now \in Nat
    /\ confirmed \subseteq Jobs \X Owners \X Nat

Init ==
    /\ jobs = [j \in Jobs |-> AbsentRow]
    /\ held = [o \in Owners |-> [j \in Jobs |-> NoLease]]
    /\ up = Owners
    /\ now = 0
    /\ confirmed = {}

-----------------------------------------------------------------------------
Readings == now .. (now + MaxSkew)

Put(j, row) == jobs' = [jobs EXCEPT ![j] = row]

\* The answer of a call reaches its caller, or is lost.
Learn(o, j, lease) == held' = [held EXCEPT ![o][j] = lease]
Answer(o, j, lease) == Learn(o, j, lease) \/ UNCHANGED held

Acquire(o, j, t, ttl) ==
    /\ ~Holds(o, j)
    /\ \/ /\ CanAcquire(jobs[j], t)
          /\ jobs[j].attempt < MaxAttempt
          /\ LET lease == Acquired(jobs[j], o, t, ttl) IN
                Put(j, lease) /\ Answer(o, j, Token(lease))
       \/ /\ AlreadyOwned(jobs[j], o, t)
          /\ Learn(o, j, Token(jobs[j]))
          /\ UNCHANGED jobs
    /\ UNCHANGED <<up, now, confirmed>>

ReopenCompleted(o, j, t, ttl) ==
    /\ ~Holds(o, j)
    /\ \E expected \in Checkpoints, fp \in Fingerprints, force \in BOOLEAN :
          CanReopen(jobs[j], expected, fp, force)
    /\ jobs[j].attempt < MaxAttempt
    /\ LET lease == Reopened(jobs[j], o, t, ttl) IN
          Put(j, lease) /\ Answer(o, j, Token(lease))
    /\ UNCHANGED <<up, now, confirmed>>

\* A fenced call that finds its token stale: the caller gives up.
Lost(o, j) ==
    /\ Learn(o, j, NoLease)
    /\ UNCHANGED jobs

Renew(o, j, t, ttl) ==
    /\ Working(o, j)
    /\ IF OwnedActive(jobs[j], o, held[o][j].attempt, t)
       THEN LET lease == Renewed(jobs[j], t, ttl) IN
               Put(j, lease) /\ Answer(o, j, Token(lease))
       ELSE Lost(o, j)
    /\ UNCHANGED <<up, now, confirmed>>

Checkpoint(o, j, t, checkpoint) ==
    /\ Working(o, j)
    /\ IF OwnedActive(jobs[j], o, held[o][j].attempt, t)
       THEN Put(j, Checkpointed(jobs[j], checkpoint)) /\ UNCHANGED held
       ELSE Lost(o, j)
    /\ UNCHANGED <<up, now, confirmed>>

\* complete and release end the caller's use of the lease; without an
\* answer the caller may only repeat the call.
Unanswered(o, j) == Learn(o, j, [held[o][j] EXCEPT !.closing = TRUE])

Complete(o, j, t) ==
    LET a == held[o][j].attempt
        Confirm == confirmed' = confirmed \cup {<<j, o, a>>}
    IN
    /\ Holds(o, j)
    /\ IF OwnedActive(jobs[j], o, a, t)
       THEN /\ Put(j, Completed(jobs[j]))
            /\ \/ Learn(o, j, NoLease) /\ Confirm
               \/ Unanswered(o, j) /\ UNCHANGED confirmed
       ELSE /\ Lost(o, j)
            /\ IF CompletedBefore(jobs[j], o, a)
               THEN Confirm
               ELSE UNCHANGED confirmed
    /\ UNCHANGED <<up, now>>

Release(o, j, t) ==
    /\ Holds(o, j)
    /\ IF OwnedActive(jobs[j], o, held[o][j].attempt, t)
       THEN /\ Put(j, Released(jobs[j], t))
            /\ Learn(o, j, NoLease) \/ Unanswered(o, j)
       ELSE Lost(o, j)
    /\ UNCHANGED <<up, now, confirmed>>

\* A web request queues a user job: no owner, no fencing token involved.
Queue(j, checkpoint) ==
    /\ CanQueue(jobs[j])
    /\ jobs[j].attempt < MaxAttempt
    /\ Put(j, Queued(jobs[j], checkpoint))
    /\ UNCHANGED <<held, up, now, confirmed>>

Crash(o) ==
    /\ up' = up \ {o}
    /\ held' = [held EXCEPT ![o] = [j \in Jobs |-> NoLease]]
    /\ UNCHANGED <<jobs, now, confirmed>>

Tick ==
    /\ now < MaxTime
    /\ now' = now + 1
    /\ UNCHANGED <<jobs, held, up, confirmed>>

Call(o, j) ==
    \E t \in Readings :
        \/ \E ttl \in TTLs :
              \/ Acquire(o, j, t, ttl)
              \/ ReopenCompleted(o, j, t, ttl)
              \/ Renew(o, j, t, ttl)
        \/ \E checkpoint \in Progress : Checkpoint(o, j, t, checkpoint)
        \/ Complete(o, j, t)
        \/ Release(o, j, t)

Next ==
    \/ \E o \in up, j \in Jobs : Call(o, j)
    \/ \E o \in up : Crash(o)
    \/ \E j \in Jobs, checkpoint \in Progress : Queue(j, checkpoint)
    \/ Tick

Spec == Init /\ [][Next]_vars

-----------------------------------------------------------------------------
(* Fencing: the attempt number names its owner.  What an owner holds is    *)
(* never newer than the row, and if it is as new as the row, the row is    *)
(* that owner's; hence two owners never hold the same attempt of a job,    *)
(* however their clocks disagree and whatever answers were lost            *)
(* (jobs.py:acquire, reopen_completed, user_jobs.py:_queue).               *)
FencingTokens ==
    \A j \in Jobs, o \in Owners :
        Holds(o, j) =>
            /\ held[o][j].attempt <= jobs[j].attempt
            /\ held[o][j].attempt = jobs[j].attempt => jobs[j].owner = o
            /\ \A p \in Owners \ {o} : held[p][j].attempt # held[o][j].attempt

(* Exclusion in time: until the lease it was told of has expired on every  *)
(* clock, an owner that has not begun to close it still has the row, active *)
(* and under its own attempt, so its next fenced call succeeds             *)
(* (jobs.py:acquire and renew, which must never shorten a lease).          *)
LeaseMargin ==
    \A j \in Jobs, o \in Owners :
        Working(o, j) /\ held[o][j].until > now + MaxSkew =>
            OwnedActive(jobs[j], o, held[o][j].attempt, now + MaxSkew)

(* A True answer of complete is honest: the job was finished under exactly *)
(* that attempt, and no later state shows that attempt unfinished          *)
(* (jobs.py:complete, the repeated call after a lost response included).   *)
FinishedUnder(row, owner, attempt) ==
    row.state = "done" /\ row.owner = owner /\ row.attempt = attempt

ConfirmedCompletions ==
    \A c \in confirmed :
        \/ jobs[c[1]].attempt > c[3]
        \/ FinishedUnder(jobs[c[1]], c[2], c[3])

(* The history of a row: attempts never decrease; a change of owner, or    *)
(* any change to a finished row, takes a new attempt; and a checkpoint     *)
(* survives a change of owner unless the job had been finished (so a       *)
(* takeover resumes where the dead owner stopped).                         *)
RowHistory(old, new) ==
    /\ new.attempt >= old.attempt
    /\ new.owner # old.owner \/ (old.state = "done" /\ new # old)
          => new.attempt > old.attempt
    /\ new.attempt > old.attempt /\ old.state \in {"active", "released"}
          => new.checkpoint = old.checkpoint

OwnershipHistory ==
    [][\A j \in Jobs : RowHistory(jobs[j], jobs'[j])]_vars
=============================================================================
