------------------------------ MODULE HeavyWork ------------------------------
(***************************************************************************)
(* The one row that long operations of all instances share                 *)
(* (cloud/heavy_work.py) and the calls that hold it: the scheduler, the    *)
(* maintenance of user jobs and the publication, each in a child process   *)
(* that its parent kills at the end of its budget (cloud/runtime.py).      *)
(*                                                                         *)
(* A lease is counted from the wall clock of an instance, whose readings   *)
(* lie in now .. now + MaxSkew; budgets and deadlines are measured, and    *)
(* begin when the child looks at the time, later than its parent did.      *)
(***************************************************************************)
EXTENDS Leases

CONSTANTS
    Instances,
    Kinds,     \* kind of operation -> what must remain of its budget for it to begin work
    Reserve,   \* MAINTENANCE_PUBLICATION_RESERVE_SECONDS
    Budgets,   \* timeouts of the calls
    Grace,     \* LEASE_GRACE_SECONDS
    Reaping,   \* how long a parent takes to get rid of its child
    MaxSkew, MaxTime, MaxCalls

VARIABLES
    now,
    row,     \* the row "cloud-heavy-work:v1"
    op,      \* instance -> its operation
    calls    \* operations begun; the number of one is its uuid

Idle == [at |-> "idle", kind |-> "none", id |-> 0, budget |-> 0, kill |-> 0, deadline |-> 0, ttl |-> 0, attempt |-> 0]

HeavyInit ==
    /\ now = 0 /\ row = AbsentRow /\ calls = 0
    /\ op = [i \in Instances |-> Idle]

At(i) == op[i].at
Remaining(i) == op[i].deadline - now
Clock == now .. now + MaxSkew

\* run_bounded: the parent's time begins before the child's.
Spawn(i) ==
    /\ At(i) = "idle" /\ calls < MaxCalls /\ calls' = calls + 1
    /\ \E kind \in DOMAIN Kinds, budget \in Budgets :
          op' = [op EXCEPT ![i] = [Idle EXCEPT !.at = "spawned", !.kind = kind, !.id = calls + 1,
                                               !.budget = budget, !.kill = now + budget]]
    /\ UNCHANGED <<now, row>>
OpenRuntime(i) ==
    /\ At(i) = "spawned"
    /\ op' = [op EXCEPT ![i].at = "opened", ![i].deadline = now + op[i].budget, ![i].budget = 0]
    /\ UNCHANGED <<now, row, calls>>

\* HeavyWorkLease.acquire: the seconds are counted once, before the transaction.
LeaseSeconds(i) == Remaining(i) + Grace
Ask(i) ==
    /\ At(i) = "opened" /\ Remaining(i) > 0
    /\ op' = [op EXCEPT ![i].at = "asking", ![i].ttl = LeaseSeconds(i)]
    /\ UNCHANGED <<now, row, calls>>
Answered(i, attempt) == op' = [op EXCEPT ![i].at = "held", ![i].attempt = attempt, ![i].ttl = 0]
\* The transaction; an answer that is lost leaves the caller asking, and what
\* it took it is given again if it repeats.
Take(i) ==
    /\ At(i) = "asking"
    /\ \E reading \in Clock :
          /\ CanAcquire(row, reading)
          /\ row' = Acquired(row, op[i].id, reading, op[i].ttl)
    /\ Answered(i, row'.attempt) \/ UNCHANGED op
    /\ UNCHANGED <<now, calls>>
TakeAgain(i) ==
    /\ At(i) = "asking"
    /\ \E reading \in Clock : AlreadyOwned(row, op[i].id, reading)
    /\ Answered(i, row.attempt)
    /\ UNCHANGED <<now, row, calls>>
\* No time left, no lease, or no answer: the call ends without a lease to release.
Decline(i) ==
    /\ At(i) \in {"opened", "asking"}
    /\ op' = [op EXCEPT ![i] = Idle]
    /\ UNCHANGED <<now, row, calls>>

\* execute and _dispatch_publication look at the time again.
Begin(i) ==
    /\ At(i) = "held"
    /\ op' = [op EXCEPT ![i].at = IF Remaining(i) >= Kinds[op[i].kind] THEN "working" ELSE "finally"]
    /\ UNCHANGED <<now, row, calls>>
\* After the drain a publication follows if there is time for one; its own end is
\* its parent's.
Work(i) ==
    /\ At(i) = "working"
    /\ op' = [op EXCEPT ![i].at = IF op[i].kind = "maintenance" /\ Remaining(i) >= Reserve
                                  THEN "publishing" ELSE "finally"]
    /\ UNCHANGED <<now, row, calls>>
Publish(i) ==
    /\ At(i) = "publishing" /\ op' = [op EXCEPT ![i].at = "finally"]
    /\ UNCHANGED <<now, row, calls>>
\* Whatever was raised, the lease is released, if it is still this call's.
Release(i) ==
    /\ At(i) = "finally" /\ op' = [op EXCEPT ![i] = Idle]
    /\ \/ \E reading \in Clock :
             row' = IF OwnedActive(row, op[i].id, op[i].attempt, reading) THEN Released(row, reading) ELSE row
       \/ UNCHANGED row
    /\ UNCHANGED <<now, calls>>

\* The parent ends its child at the end of the budget, the platform an instance
\* at any time; what either leaves is a row that nobody releases.
Kill(i) ==
    /\ At(i) # "idle" /\ op' = [op EXCEPT ![i] = Idle]
    /\ UNCHANGED <<now, row, calls>>
Tick ==
    /\ now < MaxTime /\ now' = now + 1
    /\ \A i \in Instances : At(i) # "idle" => now < op[i].kill + Reaping
    /\ UNCHANGED <<row, op, calls>>

HeavyNext ==
    \/ Tick
    \/ \E i \in Instances :
          \/ Spawn(i) \/ OpenRuntime(i) \/ Ask(i) \/ Take(i) \/ TakeAgain(i) \/ Decline(i)
          \/ Begin(i) \/ Work(i) \/ Publish(i) \/ Release(i) \/ Kill(i)

-----------------------------------------------------------------------------
\* Long operations exclude each other, on whatever instances they run, although
\* calls die with the row taken, answers are lost and clocks differ.
OneAtATime ==
    \A i, j \in Instances :
        At(i) \in {"held", "working", "publishing"} /\ At(j) \in {"held", "working", "publishing"} => i = j
=============================================================================
