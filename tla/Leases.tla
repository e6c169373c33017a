------------------------------- MODULE Leases -------------------------------
(***************************************************************************)
(* Rows of the YDB table `jobs` and what each JobLeaseRepository call      *)
(* (adapters/ydb/jobs.py) makes of one.  Every call is one serializable    *)
(* transaction that reads the row, decides and writes it back, so a call   *)
(* is a function of the row and of the clock reading `now` it makes.       *)
(*                                                                         *)
(* A missing row is a row in state "absent" with attempt 0: acquire treats *)
(* both alike (attempt becomes 1, the checkpoint stays empty).             *)
(***************************************************************************)
EXTENDS Integers

\* The owner written by cloud/user_jobs.py:_queue, which no worker uses.
NoOwner == ""

\* A JSON checkpoint, reduced to its phase and its input fingerprint.
NoFingerprint == -1
NoCheckpoint == [phase |-> "none", fp |-> NoFingerprint]
CollectCheckpoint == [phase |-> "collect", fp |-> NoFingerprint]

JobStates == {"absent", "active", "released", "done"}

JobLease(owner, attempt, until, state, checkpoint) ==
    [owner |-> owner, attempt |-> attempt, until |-> until,
     state |-> state, checkpoint |-> checkpoint]

AbsentRow == JobLease(NoOwner, 0, 0, "absent", NoCheckpoint)

Unexpired(row, now) == row.until > now

-----------------------------------------------------------------------------
(* acquire: a finished job and an unexpired lease of someone else give     *)
(* nothing; an unexpired lease of the caller is returned unchanged.        *)

CanAcquire(row, now) == row.state # "done" /\ ~Unexpired(row, now)

AlreadyOwned(row, owner, now) ==
    row.state # "done" /\ Unexpired(row, now) /\ row.owner = owner

\* Slips of acquire: a takeover under the old attempt; a new attempt that
\* starts from an empty checkpoint.
AcquiredSameAttempt(row, owner, now, ttl) ==
    JobLease(owner, IF row.attempt = 0 THEN 1 ELSE row.attempt,
             now + ttl, "active", row.checkpoint)
AcquiredForgetting(row, owner, now, ttl) ==
    JobLease(owner, row.attempt + 1, now + ttl, "active", NoCheckpoint)

Acquired(row, owner, now, ttl) ==
    JobLease(owner, row.attempt + 1, now + ttl, "active", row.checkpoint)

(* reopen_completed: only the completed version the caller has read, and   *)
(* only if its inputs changed or its artifact is gone (force).             *)

CanReopen(row, expected, fp, force) ==
    /\ row.state = "done"
    /\ row.checkpoint = expected
    /\ force \/ row.checkpoint.fp # fp

Reopened(row, owner, now, ttl) ==
    JobLease(owner, row.attempt + 1, now + ttl, "active", CollectCheckpoint)

\* A slip of the fencing test: any active lease will do.
AnyActive(row, owner, attempt, now) ==
    row.state = "active" /\ Unexpired(row, now)

(* The fencing test every other call makes before it writes.               *)
OwnedActive(row, owner, attempt, now) ==
    /\ row.state = "active"
    /\ row.owner = owner
    /\ row.attempt = attempt
    /\ Unexpired(row, now)

\* A slip of renew: a late renewal may shorten the lease.
RenewedShorter(row, now, ttl) == [row EXCEPT !.until = now + ttl]

Renewed(row, now, ttl) ==
    [row EXCEPT !.until = IF @ > now + ttl THEN @ ELSE now + ttl]

Checkpointed(row, checkpoint) == [row EXCEPT !.checkpoint = checkpoint]

Completed(row) == [row EXCEPT !.state = "done"]

\* A slip of complete: the caller's row is taken for finished.
CompletedByOwner(row, owner, attempt) ==
    row.owner = owner /\ row.attempt = attempt

(* complete answers True again after a lost response.                      *)
CompletedBefore(row, owner, attempt) ==
    row.state = "done" /\ row.owner = owner /\ row.attempt = attempt

Released(row, now) == [row EXCEPT !.until = now, !.state = "released"]

(* cloud/user_jobs.py:_queue: a row nobody owns, ready to be acquired.     *)
CanQueue(row) == row.state \in {"absent", "done"}

Queued(row, checkpoint) ==
    JobLease(NoOwner, row.attempt + 1, 0, "released", checkpoint)
=============================================================================
