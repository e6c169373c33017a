------------------------------ MODULE UserQueue -----------------------------
(***************************************************************************)
(* cloud/user_jobs.py: requests of the user, one row of `jobs` per key     *)
(* ("m5:..."), whose checkpoint is the request, and `drain`, which a timer *)
(* calls to work off a few of them in the order of their keys.             *)
(*                                                                         *)
(* ReportJobs models one regeneration in detail; here a run is reduced to  *)
(* what it does to its request and to the ledger of paid calls, and the    *)
(* subject is several requests and several calls of drain.                 *)
(*                                                                         *)
(* A row's holder is the call that has its unexpired lease.  A call reads  *)
(* the request when it acquires the row and keeps that copy, `pay`.        *)
(***************************************************************************)
EXTENDS Integers, FiniteSets, SequencesExt, FiniteSetsExt

CONSTANTS
    Workers, Nobody,
    Other,       \* the scheduler, when it has the heavy-work lease
    Keys,        \* the sequence of all keys, in their order
    ReviewKey,   \* _REVIEW_KEY: the request of a model review
    MaxScan,     \* LIMIT in _pending_keys, _MAX_SCAN
    MaxJobs,     \* drain's max_jobs
    MaxClicks,   \* bound: requests of one report
    MaxStalls,   \* bound: leases that end while their owner runs
    MaxCrashes   \* bound: killed calls

KeySet == Range(Keys)
Reports == KeySet \ {ReviewKey}

ASSUME WorkersAssumption == {Nobody, Other} \cap Workers = {} /\ Nobody # Other
ASSUME KeysAssumption == Keys \in Seq(KeySet) /\ IsInjective(Keys) /\ ReviewKey \in KeySet
ASSUME LimitsAssumption ==
    /\ MaxScan \in Nat \ {0} /\ MaxJobs \in 1 .. MaxScan
    /\ {MaxClicks, MaxStalls, MaxCrashes} \subseteq Nat

VARIABLES
    rows,     \* key -> row of jobs
    heavy,    \* who has the heavy-work lease
    drain,    \* worker -> its call of drain
    open,     \* report -> nonce of its dispatched and unresolved AI request
    stored,   \* history: requests whose report was stored, and that were
              \* not written down as failed since
    clicks,   \* key -> requests registered
    stalls, crashes

vars == <<rows, heavy, drain, open, stored, clicks, stalls, crashes>>

NoNonce == 0
NoRequest == [status |-> "", nonce |-> NoNonce, saved |-> FALSE]
Row(state, holder, request) == [state |-> state, holder |-> holder, request |-> request]
Request(status, nonce) == [status |-> status, nonce |-> nonce, saved |-> FALSE]

\* todo: the positions, among all keys, of those that a call has yet to look at.
Idle == [step |-> "idle", todo |-> {}, results |-> 0, pay |-> NoRequest, out |-> ""]

Init ==
    /\ rows = [k \in KeySet |-> Row("absent", Nobody, NoRequest)]
    /\ heavy = Nobody
    /\ drain = [w \in Workers |-> Idle]
    /\ open = [r \in Reports |-> NoNonce]
    /\ stored = {}
    /\ clicks = [k \in KeySet |-> 0]
    /\ stalls = 0 /\ crashes = 0

At(w, step) == drain[w].step = step
Key(w) == Keys[Min(drain[w].todo)]
Pay(w) == drain[w].pay
Holds(w) == rows[Key(w)].state = "active" /\ rows[Key(w)].holder = w

Goto(w, step) == drain' = [drain EXCEPT ![w].step = step]
Outcome(w, out) == drain' = [drain EXCEPT ![w].step = "write", ![w].out = out]
Raise(w) == drain' = [drain EXCEPT ![w] = [Idle EXCEPT !.step = "leave"]]
NextKey(w) == drain' = [drain EXCEPT ![w].step = "look", ![w].todo = @ \ {Min(@)},
                                     ![w].pay = NoRequest, ![w].out = ""]

world == <<heavy, open, stored, clicks, stalls, crashes>>

-----------------------------------------------------------------------------
(* _queue: a click.                                                        *)

\* A request that failed keeps its payload.
Queued(k) ==
    IF rows[k].state = "done" /\ rows[k].request.status = "error"
    THEN [rows[k].request EXCEPT !.status = "queued"]
    ELSE Request("queued", IF k = ReviewKey THEN NoNonce ELSE clicks[k] + 1)

Enqueue(k) ==
    /\ rows[k].state \in {"absent", "done"} /\ clicks[k] < MaxClicks
    /\ rows' = [rows EXCEPT ![k] = Row("released", Nobody, Queued(k))]
    /\ clicks' = [clicks EXCEPT ![k] = @ + 1]
    /\ UNCHANGED <<heavy, drain, open, stored, stalls, crashes>>

-----------------------------------------------------------------------------
(* drain.                                                                  *)

Pending(k) == rows[k].state = "released" \/ (rows[k].state = "active" /\ rows[k].holder = Nobody)

\* The first of them in their order, up to the limit.
PendingKeys ==
    LET pending == {i \in DOMAIN Keys : Pending(Keys[i])}
    IN  {i \in pending : Cardinality({j \in pending : j < i}) < MaxScan}

\* The heavy-work lease is taken and the table is read, once.
Scan(w) ==
    /\ At(w, "idle") /\ heavy = Nobody
    /\ heavy' = w
    /\ drain' = [drain EXCEPT ![w] = [Idle EXCEPT !.step = "look", !.todo = PendingKeys]]
    /\ UNCHANGED <<rows, open, stored, clicks, stalls, crashes>>

\* The row may have been taken or finished since: the next key is tried.
Skip(w) ==
    /\ At(w, "look") /\ drain[w].todo # {} /\ drain[w].results < MaxJobs
    /\ ~Pending(Key(w))
    /\ NextKey(w)
    /\ UNCHANGED <<rows, world>>

\* Requests that wait for reconciliation are put back as they are.
Take(w) ==
    LET request == rows[Key(w)].request IN
    /\ At(w, "look") /\ drain[w].todo # {} /\ drain[w].results < MaxJobs
    /\ Pending(Key(w))
    /\ rows' = [rows EXCEPT ![Key(w)].state = "active", ![Key(w)].holder = w]
    /\ drain' = [drain EXCEPT
          ![w].step = IF request.status = "reconciliation_required" THEN "release" ELSE "run",
          ![w].pay = request]
    /\ UNCHANGED world

\* Nothing is left, enough was done, or less than 135 s remain.
Stop(w) ==
    /\ At(w, "look")
    /\ Raise(w)
    /\ UNCHANGED <<rows, world>>

\* The review or the report has another owner: the request stays as it is.
Busy(w) ==
    /\ At(w, "run")
    /\ drain' = [drain EXCEPT ![w].step = "release", ![w].results = @ + 1]
    /\ UNCHANGED <<rows, world>>

RunReview(w) ==
    /\ At(w, "run") /\ Key(w) = ReviewKey
    /\ Outcome(w, "success") \/ Outcome(w, "error")
    /\ UNCHANGED <<rows, world>>

\* A slip of _regenerate_owned: the phase is not looked at.
BeginAlways(w) ==
    /\ At(w, "run") /\ Key(w) \in Reports
    /\ IF Holds(w)
       THEN /\ rows' = [rows EXCEPT ![Key(w)].request = Request("running", Pay(w).nonce)]
            /\ Goto(w, "ask")
       ELSE Outcome(w, "error") /\ UNCHANGED rows
    /\ UNCHANGED world

\* _regenerate_owned: a request whose report is stored only needs its outcome.
Begin(w) ==
    /\ At(w, "run") /\ Key(w) \in Reports
    /\ IF Pay(w).saved THEN Outcome(w, "success") /\ UNCHANGED rows
       ELSE IF Holds(w)
       THEN /\ rows' = [rows EXCEPT ![Key(w)].request = Request("running", Pay(w).nonce)]
            /\ Goto(w, "ask")
       ELSE Outcome(w, "error") /\ UNCHANGED rows
    /\ UNCHANGED world

\* An unresolved request of the report goes first; a request without a nonce
\* raises before anything is computed.
MayAsk(w) == open[Key(w)] = NoNonce /\ Pay(w).nonce # NoNonce

Hindered(w) ==
    /\ At(w, "ask") /\ ~MayAsk(w)
    /\ Outcome(w, IF open[Key(w)] # NoNonce THEN "reconciliation_required" ELSE "error")
    /\ UNCHANGED <<rows, world>>

\* AIRequestDeferred: too little time for a request.
Defer(w) ==
    /\ At(w, "ask") /\ MayAsk(w)
    /\ Outcome(w, "queued")
    /\ UNCHANGED <<rows, world>>

\* Without AI, with a cached answer, or with an error.
Compute(w) ==
    /\ At(w, "ask") /\ MayAsk(w)
    /\ Goto(w, "save") \/ Outcome(w, "error")
    /\ UNCHANGED <<rows, world>>

Dispatch(w) ==
    /\ At(w, "ask") /\ MayAsk(w)
    /\ open' = [open EXCEPT ![Key(w)] = Pay(w).nonce]
    /\ Goto(w, "answer")
    /\ UNCHANGED <<rows, heavy, stored, clicks, stalls, crashes>>

Receive(w) ==
    /\ At(w, "answer")
    /\ \/ /\ open' = [open EXCEPT ![Key(w)] = IF @ = Pay(w).nonce THEN NoNonce ELSE @]
          /\ Goto(w, "save") \/ Outcome(w, "error")
       \/ UNCHANGED open /\ Outcome(w, "reconciliation_required")   \* the answer is lost
    /\ UNCHANGED <<rows, heavy, stored, clicks, stalls, crashes>>

\* save_report writes the report and the checkpoint, or raises; it may also
\* raise because the answer is lost.
SaveReport(w) ==
    /\ At(w, "save")
    /\ \/ /\ Holds(w)
          /\ rows' = [rows EXCEPT ![Key(w)].request.saved = TRUE]
          /\ stored' = stored \cup {<<Key(w), Pay(w).nonce>>}
          /\ Outcome(w, "success") \/ Outcome(w, "error")
       \/ Outcome(w, "error") /\ UNCHANGED <<rows, stored>>
    /\ UNCHANGED <<heavy, open, clicks, stalls, crashes>>

\* A slip of drain: an outcome other than success forgets the nonce.
WrittenBare(w) == Request(drain[w].out, NoNonce)

\* The outcome of a success has no nonce; all others keep the request's.
Written(w) == Request(drain[w].out, IF drain[w].out = "success" THEN NoNonce ELSE Pay(w).nonce)

WriteOutcome(w) ==
    /\ At(w, "write")
    /\ IF Holds(w)
       THEN /\ rows' = [rows EXCEPT ![Key(w)].request = Written(w)]
            /\ drain' = [drain EXCEPT
                  ![w].results = @ + 1,
                  ![w].step = IF drain[w].out \in {"success", "error"} THEN "complete" ELSE "release"]
            /\ stored' = IF drain[w].out = "error" THEN stored \ {<<Key(w), Pay(w).nonce>>} ELSE stored
       ELSE Raise(w) /\ UNCHANGED <<rows, stored>>
    /\ UNCHANGED <<heavy, open, clicks, stalls, crashes>>

Complete(w) ==
    /\ At(w, "complete")
    /\ IF Holds(w)
       THEN /\ rows' = [rows EXCEPT ![Key(w)].state = "done", ![Key(w)].holder = Nobody]
            /\ NextKey(w)
       ELSE Raise(w) /\ UNCHANGED rows
    /\ UNCHANGED world

ReleaseJob(w) ==
    /\ At(w, "release")
    /\ rows' = IF Holds(w)
               THEN [rows EXCEPT ![Key(w)].state = "released", ![Key(w)].holder = Nobody]
               ELSE rows
    /\ NextKey(w)
    /\ UNCHANGED world

Leave(w) ==
    /\ At(w, "leave")
    /\ drain' = [drain EXCEPT ![w] = Idle]
    /\ heavy' = IF heavy = w THEN Nobody ELSE heavy
    /\ UNCHANGED <<rows, open, stored, clicks, stalls, crashes>>

-----------------------------------------------------------------------------
(* The rest of the system.                                                 *)

Crash(w) ==
    /\ ~At(w, "idle") /\ crashes < MaxCrashes
    /\ drain' = [drain EXCEPT ![w] = Idle]
    /\ crashes' = crashes + 1
    /\ UNCHANGED <<rows, heavy, open, stored, clicks, stalls>>

\* The owner of a lease that ends is dead, or it is late.
Dead(w, k) == w # Other /\ (At(w, "idle") \/ drain[w].todo = {} \/ Key(w) # k)

Expire(k) ==
    /\ rows[k].holder # Nobody
    /\ IF Dead(rows[k].holder, k) THEN UNCHANGED stalls
       ELSE stalls < MaxStalls /\ stalls' = stalls + 1
    /\ rows' = [rows EXCEPT ![k].holder = Nobody]
    /\ UNCHANGED <<heavy, drain, open, stored, clicks, crashes>>

ExpireHeavy ==
    /\ heavy \in Workers
    /\ IF At(heavy, "idle") THEN UNCHANGED stalls
       ELSE stalls < MaxStalls /\ stalls' = stalls + 1
    /\ heavy' = Nobody
    /\ UNCHANGED <<rows, drain, open, stored, clicks, crashes>>

\* The scheduler takes the heavy-work lease and gives it back.
OtherBegins == heavy = Nobody /\ heavy' = Other /\ UNCHANGED <<rows, drain, open, stored, clicks, stalls, crashes>>
OtherEnds == heavy = Other /\ heavy' = Nobody /\ UNCHANGED <<rows, drain, open, stored, clicks, stalls, crashes>>

\* An operator settles the unresolved AI request; the user's row is untouched.
Reconcile(r) ==
    /\ open[r] # NoNonce
    /\ open' = [open EXCEPT ![r] = NoNonce]
    /\ UNCHANGED <<rows, heavy, drain, stored, clicks, stalls, crashes>>

Step(w) ==
    \/ Skip(w) \/ Take(w) \/ Stop(w) \/ Busy(w) \/ RunReview(w) \/ Begin(w)
    \/ Hindered(w) \/ Defer(w) \/ Compute(w) \/ Dispatch(w) \/ Receive(w)
    \/ SaveReport(w) \/ WriteOutcome(w) \/ Complete(w) \/ ReleaseJob(w) \/ Leave(w)

Next ==
    \/ \E w \in Workers : Scan(w) \/ Step(w) \/ Crash(w)
    \/ \E k \in KeySet : Enqueue(k) \/ Expire(k)
    \/ \E r \in Reports : Reconcile(r)
    \/ ExpireHeavy \/ OtherBegins \/ OtherEnds

Spec == Init /\ [][Next]_vars

-----------------------------------------------------------------------------
Statuses == {"", "queued", "running", "reconciliation_required", "success", "error"}
Requests == [status : Statuses, nonce : 0 .. MaxClicks, saved : BOOLEAN]
Steps == {"idle", "look", "run", "ask", "answer", "save", "write", "complete",
          "release", "leave"}

TypeOK ==
    /\ rows \in [KeySet -> [state : {"absent", "released", "active", "done"},
                            holder : Workers \cup {Nobody}, request : Requests]]
    /\ heavy \in Workers \cup {Nobody, Other}
    /\ \A w \in Workers :
          /\ drain[w].step \in Steps /\ drain[w].results \in 0 .. MaxJobs
          /\ drain[w].todo \subseteq DOMAIN Keys
          /\ drain[w].pay \in Requests /\ drain[w].out \in Statuses
    /\ open \in [Reports -> 0 .. MaxClicks]
    /\ stored \subseteq Reports \X (1 .. MaxClicks)
    /\ clicks \in [KeySet -> 0 .. MaxClicks]
    /\ stalls \in 0 .. MaxStalls /\ crashes \in 0 .. MaxCrashes

(* "Keep the original request identity" (drain): through deferral, errors, *)
(* repeated clicks, reconciliation, takeovers and crashes a request keeps  *)
(* its nonce, hence the identity of its paid call, until its report is     *)
(* stored.                                                                 *)
RequestKept ==
    [][\A r \in Reports :
          LET nonce == rows[r].request.nonce IN
          nonce # NoNonce /\ rows'[r].request.nonce # nonce => <<r, nonce>> \in stored]_vars

(* A request whose report was stored is not bought again, unless it was    *)
(* written down as failed: a call that has the lease dispatches nothing    *)
(* for it, whoever died or was late in between (phase "saved" in           *)
(* _regenerate_owned, and the outcome without a nonce).                    *)
StoredIsNotBought ==
    [][\A w \in Workers :
          At(w, "ask") /\ Holds(w) /\ At(w, "answer")' => <<Key(w), Pay(w).nonce>> \notin stored]_vars

(* A completed request may be explicitly started again (_queue), and a     *)
(* failed one says "repeat the request" (drain): what a click registers    *)
(* has the nonce without which a regeneration cannot run.                  *)
StartedAgain ==
    \A r \in Reports :
        rows[r].state = "released" /\ rows[r].request.status = "queued"
            => rows[r].request.nonce # NoNonce

=============================================================================
