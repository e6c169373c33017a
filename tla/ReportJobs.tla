----------------------------- MODULE ReportJobs -----------------------------
(***************************************************************************)
(* Everything that writes one report, at the grain of its transactions:    *)
(*                                                                         *)
(*   scheduled   cloud/report_jobs.py run_scheduled: keep a due report     *)
(*               fresh, buying an AI interpretation at most for the first  *)
(*               version                                                   *)
(*   requested   cloud/report_jobs.py run: a report asked for explicitly   *)
(*   regenerate  cloud/user_jobs.py drain: a user's request for a new      *)
(*               interpretation, queued by the web function                *)
(*                                                                         *)
(* An invocation draws a fresh uuid, so a member of Workers runs once.     *)
(* It owns the row of its job and the row "lock" (report-write:<id>), both *)
(* with the operators of Leases.  Time is abstract here: an unexpired      *)
(* lease has `until` 1 and the clock stands at 0; Expire ends a lease at   *)
(* any moment, however its owner is doing.                                 *)
(*                                                                         *)
(* `inputs` counts writes of anything a report is computed from; each of   *)
(* them also raises the publication revision `pub`, and so does the save   *)
(* of any report (_next_revision, _record_publication_change).             *)
(***************************************************************************)
EXTENDS Leases, FiniteSets

CONSTANTS
    Workers,
    Kinds,       \* lanes of this configuration, a subset of AllKinds
    WithAI,      \* lanes whose requests have use_ai set
    MaxInputs,   \* bound: input versions 0..MaxInputs
    MaxPub,      \* bound: other reports are saved up to this revision
    MaxRevision, \* bound: report revisions by context refreshes
    MaxClicks,   \* bound: user requests for a regeneration
    MaxStalled   \* bound: invocations whose leases expire

AllKinds == {"scheduled", "requested", "regenerate"}

ASSUME WorkersAssumption == NoOwner \notin Workers
ASSUME KindsAssumption == Kinds \subseteq AllKinds /\ WithAI \subseteq AllKinds
ASSUME BoundsAssumption ==
    {MaxInputs, MaxPub, MaxRevision, MaxClicks, MaxStalled} \subseteq Nat

VARIABLES
    jobs,         \* rows of the jobs in Kinds, and of the write lock
    inputs, pub,
    report,       \* the stored report; `policy`: its recommendations follow the
                  \* policy of this release
    ai,           \* the AI ledger, by request (see AiLedger)
    worker,       \* invocations
    clicks,       \* request nonces handed out
    stalled,      \* invocations some lease of which expired while active
    regenerated   \* a regeneration was committed since the last click

vars == <<jobs, inputs, pub, report, ai, worker, clicks, stalled, regenerated>>

Now == 0
TTL == 1

Torn == -1
None == -1
Lock == "lock"
Lane == {"scheduled", "requested"}
NoNonce == 0
NoPacket == [facts |-> None, nonce |-> None]
Facts == 0 .. MaxInputs \cup {Torn}
Packets == [facts : Facts, nonce : 0 .. MaxClicks]

NoReport == [revision |-> 0, facts |-> 0, ai |-> FALSE, policy |-> FALSE]
\* The version of an earlier release, refreshed as often as the bound allows.
OlderReport == [revision |-> MaxRevision + 1, facts |-> 0, ai |-> TRUE, policy |-> FALSE]
Exists == report.revision > 0

-----------------------------------------------------------------------------
(* Checkpoints: JSON objects that may lack a field.                        *)

Field(cp, name, default) == IF name \in DOMAIN cp THEN cp[name] ELSE default
Source(cp) == Field(cp, "source", None)
Prepared(cp) == Field(cp, "packet", NoPacket)
Nonce(cp) == Field(cp, "nonce", NoNonce)
Status(cp) == Field(cp, "status", "")

Collected == [phase |-> "analyze", fp |-> NoFingerprint]
Snapshotted(fp, source) == [phase |-> "analyze", fp |-> fp, source |-> source]
HandedOver(fp, source, packet) ==
    [phase |-> "analyze", fp |-> fp, source |-> source, packet |-> packet]
Saved(fp) == [phase |-> "saved", fp |-> fp]
Request(nonce, status) ==
    [phase |-> "none", fp |-> NoFingerprint, nonce |-> nonce, status |-> status]
Running(nonce, source) ==
    [phase |-> "analyze", fp |-> source, source |-> source,
     nonce |-> nonce, status |-> "running"]

-----------------------------------------------------------------------------
Steps == {"idle", "reuse", "reopen", "lock", "begin", "snapshot", "mark",
          "previous", "facts", "check", "buy", "awaiting", "handoff", "defer",
          "revision", "save", "complete", "unlock", "outcome", "finish",
          "release", "gone"}

Idle == [step |-> "idle", kind |-> "", attempt |-> 0, lock |-> 0,
         cp |-> NoCheckpoint, fp |-> NoFingerprint, source |-> None,
         base |-> None, facts |-> None, interp |-> "none", fallback |-> "none",
         expected |-> None, outcome |-> ""]
Gone == [Idle EXCEPT !.step = "gone"]

Init ==
    /\ jobs \in {f \in [Kinds \cup {Lock} ->
                           {AbsentRow, JobLease(NoOwner, 1, 0, "released", Collected)}] :
                    \A k \in DOMAIN f : k \notin Lane => f[k] = AbsentRow}
    /\ inputs = 0 /\ pub = 0
    /\ report \in {NoReport, OlderReport}
    /\ ai = [p \in Packets |-> "none"]
    /\ worker = [w \in Workers |-> Idle]
    /\ clicks = 0 /\ stalled = {}
    /\ regenerated = FALSE

At(w, step) == worker[w].step = step
Kind(w) == worker[w].kind
Goto(w, step) == worker' = [worker EXCEPT ![w].step = step]
Put(k, row) == jobs' = [jobs EXCEPT ![k] = row]

Owns(w) == OwnedActive(jobs[Kind(w)], w, worker[w].attempt, Now)
OwnsLock(w) == OwnedActive(jobs[Lock], w, worker[w].lock, Now)

\* An exception or an early return leaves through the two `finally` blocks;
\* for a user job drain then records the outcome.  What the analysis read is
\* not used again.
Leave(w, outcome) ==
    worker' = [worker EXCEPT ![w] =
        [Idle EXCEPT !.step = "unlock", !.outcome = outcome, !.kind = Kind(w),
                     !.attempt = worker[w].attempt, !.lock = worker[w].lock,
                     !.cp = IF Kind(w) = "regenerate" THEN worker[w].cp ELSE @]]

\* A slip of drain: a request that raised counts as served.
FailUnnoticed(w) == Leave(w, "success")

Fail(w) == Leave(w, "error")

\* A fenced checkpoint; its loss raises.
Write(w, cp, next) ==
    IF Owns(w)
    THEN Put(Kind(w), Checkpointed(jobs[Kind(w)], cp)) /\ Goto(w, next)
    ELSE Fail(w) /\ UNCHANGED jobs

world == <<inputs, pub, report, ai, clicks, stalled, regenerated>>

-----------------------------------------------------------------------------
(* Getting the two leases.                                                 *)

\* acquire the job; when it is done, look whether its result can be reused.
Start(w, k) ==
    LET lease == Acquired(jobs[k], w, Now, TTL) IN
    /\ At(w, "idle") /\ k \in Lane
    /\ \/ /\ CanAcquire(jobs[k], Now)
          /\ Put(k, lease)
          /\ worker' = [worker EXCEPT ![w] =
                [Idle EXCEPT !.step = "lock", !.kind = k,
                             !.attempt = lease.attempt, !.cp = lease.checkpoint]]
       \/ /\ jobs[k].state = "done"
          /\ worker' = [worker EXCEPT ![w] =
                [Idle EXCEPT !.step = "reuse", !.kind = k, !.cp = jobs[k].checkpoint]]
          /\ UNCHANGED jobs
    /\ UNCHANGED world

Reuse(w) ==
    /\ At(w, "reuse")
    /\ worker' = [worker EXCEPT ![w] =
          IF worker[w].cp.fp = inputs /\ Exists THEN Gone
          ELSE [@ EXCEPT !.step = "reopen", !.fp = inputs]]
    /\ UNCHANGED <<jobs, world>>

\* The version that was read is reopened, or somebody else has done so.
Reopen(w) ==
    LET k == Kind(w)
        lease == Reopened(jobs[k], w, Now, TTL)
    IN
    /\ At(w, "reopen")
    /\ IF CanReopen(jobs[k], worker[w].cp, worker[w].fp, ~Exists)
       THEN /\ Put(k, lease)
            /\ worker' = [worker EXCEPT ![w] =
                  [Idle EXCEPT !.step = "lock", !.kind = k,
                               !.attempt = lease.attempt, !.cp = lease.checkpoint]]
       ELSE worker' = [worker EXCEPT ![w] = Gone] /\ UNCHANGED jobs
    /\ UNCHANGED world

\* drain: a queued or abandoned user request; one that waits for
\* reconciliation is put back untouched.
StartRegeneration(w) ==
    LET k == "regenerate"
        lease == Acquired(jobs[k], w, Now, TTL)
        cp == lease.checkpoint
    IN
    /\ At(w, "idle") /\ k \in Kinds
    /\ jobs[k].state # "absent" /\ CanAcquire(jobs[k], Now)
    /\ Put(k, lease)
    /\ worker' = [worker EXCEPT ![w] =
          [Idle EXCEPT !.step = IF Status(cp) = "reconciliation_required"
                                THEN "release" ELSE "lock",
                       !.kind = k, !.attempt = lease.attempt, !.cp = cp]]
    /\ UNCHANGED world

AcquireLock(w) ==
    LET lease == Acquired(jobs[Lock], w, Now, TTL) IN
    /\ At(w, "lock")
    /\ IF CanAcquire(jobs[Lock], Now)
       THEN /\ Put(Lock, lease)
            /\ worker' = [worker EXCEPT ![w].step = "begin", ![w].lock = lease.attempt]
       ELSE Goto(w, "release") /\ UNCHANGED jobs
    /\ UNCHANGED world

-----------------------------------------------------------------------------
(* From the phase of the checkpoint to the facts.                          *)

\* Whether AI is on (AISettingsStore.effective_config).  The owner may switch
\* it between any two readings and nothing else depends on it, so a reading
\* is a choice.
AISwitch == BOOLEAN

\* _advance: one phase per invocation, none at all without enough time.
BeginPhase(w) ==
    LET cp == worker[w].cp
        saved == cp.phase = "saved" /\ cp.fp = inputs /\ Exists
    IN
    /\ At(w, "begin") /\ Kind(w) \in Lane
    /\ \E enabled \in AISwitch :
       \/ saved /\ Goto(w, "complete") /\ UNCHANGED jobs
       \/ /\ cp.phase = "saved" /\ ~saved
          /\ Goto(w, "snapshot") /\ UNCHANGED jobs
       \/ /\ cp.phase \in {"none", "collect"}
          /\ \E collected \in {CollectCheckpoint, Collected} : Write(w, collected, "unlock")
       \/ /\ cp.phase = "analyze" /\ Prepared(cp) = NoPacket
          /\ Goto(w, "snapshot") /\ UNCHANGED jobs
       \/ /\ cp.phase = "analyze" /\ Prepared(cp) # NoPacket
          /\ IF cp.fp = inputs /\ Kind(w) \in WithAI /\ enabled
             THEN /\ worker' = [worker EXCEPT ![w].step = "buy",
                                              ![w].interp = "prepared"]
                  /\ UNCHANGED jobs
             ELSE Write(w, Collected, "unlock")
       \/ ~saved /\ Leave(w, "pending") /\ UNCHANGED jobs
    /\ UNCHANGED world

\* _input_state: fingerprint and publication revision in one transaction.
Snapshot(w) ==
    /\ At(w, "snapshot")
    /\ worker' = [worker EXCEPT ![w].step = "mark", ![w].fp = inputs, ![w].source = pub]
    /\ UNCHANGED <<jobs, world>>

\* _regenerate_owned: a request whose report was saved only needs its outcome.
BeginRegeneration(w) ==
    /\ At(w, "begin") /\ Kind(w) = "regenerate"
    /\ IF worker[w].cp.phase = "saved" THEN Leave(w, "success")
       ELSE worker' = [worker EXCEPT ![w].step = "mark", ![w].source = pub]
    /\ UNCHANGED <<jobs, world>>

Mark(w) ==
    LET source == worker[w].source IN
    /\ At(w, "mark")
    /\ IF Kind(w) \in Lane
       THEN Write(w, Snapshotted(worker[w].fp, source), "previous")
       ELSE Write(w, Running(Nonce(worker[w].cp), source), "previous")
    /\ UNCHANGED world

Unresolved == {p \in Packets : ai[p] = "unresolved"}

\* A slip of _advance: the previous version's interpretation is not reused.
AIWishForgotten(w, enabled) ==
    IF enabled /\ (Kind(w) = "regenerate" \/ (Kind(w) \in WithAI /\ ~Exists))
    THEN "want" ELSE "off"

\* What an invocation shall do about the interpretation: a scheduled one keeps
\* that of a previous version made under the same policy and asks for one only
\* if there is no previous version; a regeneration, and a requested run with
\* use_ai, ask whenever AI is on.
AIWish(w, enabled) ==
    CASE Kind(w) = "scheduled" /\ Exists ->
           IF report.ai /\ report.policy THEN "kept" ELSE "none"
      [] OTHER ->
           IF enabled /\ Kind(w) \in WithAI \cup {"regenerate"} THEN "want" ELSE "off"

\* A regeneration that would ask looks for an earlier request of the report
\* that is unresolved.  One without a nonce, whose success was written but not
\* completed, raises; so does a run with AI on that lacks the key or the
\* confirmation, and a question with AI off.
Previous(w) ==
    /\ At(w, "previous")
    /\ \/ \E enabled \in AISwitch :
             IF Kind(w) = "regenerate" /\ enabled /\ Unresolved # {}
             THEN Leave(w, "reconciliation_required")
             ELSE IF Kind(w) = "regenerate" /\ Nonce(worker[w].cp) = NoNonce
             THEN Fail(w)
             ELSE worker' = [worker EXCEPT ![w].step = "facts",
                                           ![w].interp = AIWish(w, enabled)]
       \/ Kind(w) \in WithAI \cup {"regenerate"} /\ Fail(w)
    /\ UNCHANGED <<jobs, world>>

\* _analyze reads the inputs table by table ...
ReadFacts(w) ==
    /\ At(w, "facts")
    /\ worker' = [worker EXCEPT ![w].step = "check",
                                ![w].base = pub, ![w].facts = inputs]
    /\ UNCHANGED <<jobs, world>>

\* ... and gives up if a revision has moved meanwhile.
Mixed(w) == IF worker[w].facts = inputs THEN inputs ELSE Torn

Unchanged(w) == pub = worker[w].base

\* should_use_ai: unless the interpretation is forced, as by a regeneration,
\* the data may be too poor, or a day too ordinary, to ask for one.  The
\* version that a failed request falls back to is read here.
CheckFacts(w) ==
    LET wants == worker[w].interp = "want" IN
    /\ At(w, "check")
    /\ \/ /\ Unchanged(w) /\ wants
          /\ worker' = [worker EXCEPT ![w].step = "buy", ![w].facts = Mixed(w),
                ![w].fallback = IF report.ai /\ report.policy THEN "kept" ELSE "none"]
       \/ /\ Unchanged(w) /\ (wants => Kind(w) \in Lane)
          /\ worker' = [worker EXCEPT ![w].step = "revision", ![w].facts = Mixed(w),
                ![w].interp = IF wants THEN "off" ELSE @]
       \/ ~Unchanged(w) /\ Fail(w)
    /\ UNCHANGED <<jobs, world>>

-----------------------------------------------------------------------------
(* The paid interpretation.  AiLedger models the ledger call by call; here *)
(* a lookup with its reservation and dispatch gate is one step, the answer *)
(* another.                                                                *)

Packet(w) ==
    IF worker[w].interp = "prepared" THEN Prepared(worker[w].cp)
    ELSE [facts |-> worker[w].facts, nonce |-> Nonce(worker[w].cp)]

\* A slip of _require_dispatch_time: no deadline is set.
Unlimited(w) == TRUE

\* An invocation dispatches only if the request and the save fit before its
\* deadline, and both its leases outlive the deadline.
Timely(w) == Owns(w) /\ OwnsLock(w)

Answered(w) ==
    IF worker[w].interp = "prepared" THEN Goto(w, "handoff")
    ELSE worker' = [worker EXCEPT ![w].step = "revision", ![w].interp = "bought"]

\* A request that failed for good: a report falls back to its facts and to
\* the interpretation it had if that was made under the present policy; a
\* regeneration and a handed-over request raise.
Refused(w) ==
    IF worker[w].interp = "prepared" \/ Kind(w) = "regenerate" THEN Fail(w)
    ELSE worker' = [worker EXCEPT ![w].step = "revision",
                                ![w].interp = worker[w].fallback]

AskForAI(w) ==
    LET p == Packet(w) IN
    /\ At(w, "buy")
    /\ \/ ai[p] = "answered" /\ Answered(w) /\ UNCHANGED ai
       \/ ai[p] = "error" /\ Refused(w) /\ UNCHANGED ai
       \/ /\ ai[p] = "unresolved" \/ (ai[p] = "none" /\ Unresolved # {})
          /\ Leave(w, "reconciliation_required") /\ UNCHANGED ai
       \/ /\ ai[p] = "none" /\ Unresolved = {} /\ Timely(w)
          /\ ai' = [ai EXCEPT ![p] = "unresolved"]
          /\ Goto(w, "awaiting")
       \/ ai[p] = "none" /\ Unresolved = {} /\ Refused(w) /\ UNCHANGED ai  \* budget
       \/ ai[p] = "none" /\ Goto(w, "defer") /\ UNCHANGED ai
    /\ UNCHANGED <<jobs, inputs, pub, report, clicks, stalled, regenerated>>

ReceiveAI(w) ==
    LET p == Packet(w) IN
    /\ At(w, "awaiting")
    /\ \/ /\ ai[p] = "unresolved"
          /\ \/ ai' = [ai EXCEPT ![p] = "answered"] /\ Answered(w)
             \/ ai' = [ai EXCEPT ![p] = "error"] /\ Refused(w)
       \/ Leave(w, "reconciliation_required") /\ UNCHANGED ai
       \/ ai[p] # "unresolved" /\ Refused(w) /\ UNCHANGED ai
    /\ UNCHANGED <<jobs, inputs, pub, report, clicks, stalled, regenerated>>

\* The answer to a handed-over request is in the ledger: analyze next time.
HandOff(w) ==
    /\ At(w, "handoff")
    /\ Write(w, Collected, "unlock")
    /\ UNCHANGED world

\* AIRequestDeferred: the packet is kept if its inputs still stand (and it
\* is not too large).
DeferAI(w) ==
    LET cp == jobs[Kind(w)].checkpoint IN
    /\ At(w, "defer")
    /\ IF Kind(w) = "regenerate" THEN Leave(w, "queued") /\ UNCHANGED jobs
       ELSE \/ /\ cp.fp = inputs /\ Source(cp) = pub
               /\ Write(w, HandedOver(inputs, pub, Packet(w)), "unlock")
            \/ Leave(w, "pending") /\ UNCHANGED jobs
    /\ UNCHANGED world

-----------------------------------------------------------------------------
(* Saving.                                                                 *)

\* The last look at the inputs, then the revision the save shall replace.
ReadRevision(w) ==
    /\ At(w, "revision")
    /\ IF Unchanged(w)
       THEN worker' = [worker EXCEPT ![w].step = "save", ![w].expected = report.revision]
       ELSE Fail(w)
    /\ UNCHANGED <<jobs, world>>

\* run() saves with the revision of its analysis, the others with that of
\* the checkpoint.
SourceRevision(w) == IF Kind(w) = "requested" THEN worker[w].base ELSE worker[w].source

\* Slips of save_report: the publication revision is not compared again; all
\* tests but the job's phase are made before the writing transaction.
MaySaveStale(w) ==
    LET cp == jobs[Kind(w)].checkpoint IN
    /\ OwnsLock(w) /\ Owns(w)
    /\ cp.phase = "analyze" /\ Source(cp) = SourceRevision(w)
    /\ report.revision = worker[w].expected
MaySaveUnchecked(w) == jobs[Kind(w)].checkpoint.phase = "analyze"

\* save_report: both fences, the snapshot in the checkpoint, the publication
\* revision and the report revision are tested in the writing transaction.
MaySave(w) ==
    LET cp == jobs[Kind(w)].checkpoint IN
    /\ OwnsLock(w) /\ Owns(w)
    /\ cp.phase = "analyze" /\ Source(cp) = SourceRevision(w)
    /\ pub = SourceRevision(w)
    /\ report.revision = worker[w].expected

Save(w) ==
    /\ At(w, "save")
    /\ IF MaySave(w)
       THEN /\ report' = [revision |-> report.revision + 1, facts |-> worker[w].facts,
                          ai |-> worker[w].interp \in {"kept", "bought"},
                          policy |-> TRUE]
            /\ pub' = pub + 1
            /\ Put(Kind(w), Checkpointed(jobs[Kind(w)], Saved(jobs[Kind(w)].checkpoint.fp)))
            /\ regenerated' = (regenerated \/ Kind(w) = "regenerate")
            /\ \/ IF Kind(w) \in Lane THEN Goto(w, "complete") ELSE Leave(w, "success")
               \/ Fail(w)  \* the answer is lost
       ELSE Fail(w) /\ UNCHANGED <<jobs, pub, report, regenerated>>
    /\ UNCHANGED <<inputs, ai, clicks, stalled>>

-----------------------------------------------------------------------------
(* Leaving.                                                                *)

\* Publication comes first and may raise.
CompleteJob(w) ==
    /\ At(w, "complete")
    /\ Leave(w, "done")
    /\ \/ Owns(w) /\ Put(Kind(w), Completed(jobs[Kind(w)]))
       \/ UNCHANGED jobs
    /\ UNCHANGED world

Unlock(w) ==
    /\ At(w, "unlock")
    /\ Goto(w, IF Kind(w) \in Lane THEN "release" ELSE "outcome")
    /\ IF OwnsLock(w) THEN Put(Lock, Released(jobs[Lock], Now)) ELSE UNCHANGED jobs
    /\ UNCHANGED world

\* drain writes what became of the request: final, or to be tried again.
WriteOutcome(w) ==
    LET outcome == worker[w].outcome
        nonce == IF outcome = "success" THEN NoNonce ELSE Nonce(worker[w].cp)
    IN
    /\ At(w, "outcome")
    /\ IF Owns(w)
       THEN /\ Put(Kind(w), Checkpointed(jobs[Kind(w)], Request(nonce, outcome)))
            /\ Goto(w, IF outcome \in {"success", "error"} THEN "finish" ELSE "release")
       ELSE worker' = [worker EXCEPT ![w] = Gone] /\ UNCHANGED jobs
    /\ UNCHANGED world

FinishRequest(w) ==
    /\ At(w, "finish")
    /\ worker' = [worker EXCEPT ![w] = Gone]
    /\ IF Owns(w) THEN Put(Kind(w), Completed(jobs[Kind(w)])) ELSE UNCHANGED jobs
    /\ UNCHANGED world

ReleaseJob(w) ==
    /\ At(w, "release")
    /\ worker' = [worker EXCEPT ![w] = Gone]
    /\ IF Owns(w) THEN Put(Kind(w), Released(jobs[Kind(w)], Now)) ELSE UNCHANGED jobs
    /\ UNCHANGED world

\* The process is killed, or a transaction fails for good.
Crash(w) ==
    /\ ~At(w, "idle") /\ ~At(w, "gone")
    /\ worker' = [worker EXCEPT ![w] = Gone]
    /\ UNCHANGED <<jobs, world>>

-----------------------------------------------------------------------------
(* The rest of the system.                                                 *)

\* A click registers a request; a failed one keeps its nonce.
Enqueue ==
    LET row == jobs["regenerate"]
        failed == Status(row.checkpoint) = "error"
        nonce == IF failed THEN Nonce(row.checkpoint) ELSE clicks + 1
    IN
    /\ "regenerate" \in Kinds /\ Exists /\ clicks < MaxClicks
    /\ CanQueue(row)
    /\ Put("regenerate", Queued(row, Request(nonce, "queued")))
    /\ clicks' = clicks + 1
    /\ regenerated' = FALSE
    /\ UNCHANGED <<inputs, pub, report, ai, worker, stalled>>

ChangeInputs ==
    /\ inputs < MaxInputs
    /\ inputs' = inputs + 1 /\ pub' = pub + 1
    /\ UNCHANGED <<jobs, report, ai, worker, clicks, stalled, regenerated>>

SaveOtherReport ==
    /\ pub < MaxPub
    /\ pub' = pub + 1
    /\ UNCHANGED <<jobs, inputs, report, ai, worker, clicks, stalled, regenerated>>

\* replace_context, which leaves `pub` alone.
RefreshContext ==
    /\ Exists /\ report.revision < MaxRevision
    /\ report' = [report EXCEPT !.revision = @ + 1]
    /\ UNCHANGED <<jobs, inputs, pub, ai, worker, clicks, stalled, regenerated>>

\* The two leases of an invocation that is late, or dead, end one by one.
Expire(k) ==
    LET owner == jobs[k].owner IN
    /\ jobs[k].state = "active" /\ Unexpired(jobs[k], Now)
    /\ owner \in stalled \/ Cardinality(stalled) < MaxStalled
    /\ Put(k, [jobs[k] EXCEPT !.until = Now])
    /\ stalled' = stalled \cup {owner}
    /\ UNCHANGED <<inputs, pub, report, ai, worker, clicks, regenerated>>

\* An operator settles a request whose answer was lost.
Reconcile(p, state) ==
    /\ ai[p] = "unresolved"
    /\ ai' = [ai EXCEPT ![p] = state]
    /\ UNCHANGED <<jobs, inputs, pub, report, worker, clicks, stalled, regenerated>>

Step(w) ==
    \/ \E k \in Kinds : Start(w, k)
    \/ Reuse(w) \/ Reopen(w) \/ StartRegeneration(w) \/ AcquireLock(w)
    \/ BeginPhase(w) \/ Snapshot(w) \/ BeginRegeneration(w) \/ Mark(w)
    \/ Previous(w) \/ ReadFacts(w) \/ CheckFacts(w)
    \/ AskForAI(w) \/ ReceiveAI(w) \/ HandOff(w) \/ DeferAI(w)
    \/ ReadRevision(w) \/ Save(w) \/ CompleteJob(w)
    \/ Unlock(w) \/ WriteOutcome(w) \/ FinishRequest(w) \/ ReleaseJob(w)
    \/ Crash(w)

Next ==
    \/ \E w \in Workers : Step(w)
    \/ Enqueue \/ ChangeInputs \/ SaveOtherReport \/ RefreshContext
    \/ \E k \in DOMAIN jobs : Expire(k)
    \/ \E p \in Packets, state \in {"answered", "error"} : Reconcile(p, state)

Spec == Init /\ [][Next]_vars

-----------------------------------------------------------------------------
Checkpoints ==
    {NoCheckpoint, CollectCheckpoint, Collected}
    \cup [phase : {"analyze"}, fp : Nat, source : Nat]
    \cup [phase : {"analyze"}, fp : Nat, source : Nat, packet : Packets]
    \cup [phase : {"saved"}, fp : Nat]
    \cup [phase : {"none"}, fp : {NoFingerprint}, nonce : 0 .. MaxClicks,
          status : {"queued", "success", "error", "reconciliation_required"}]
    \cup [phase : {"analyze"}, fp : Nat, source : Nat, nonce : 0 .. MaxClicks,
          status : {"running"}]

Interps == {"none", "kept", "want", "off", "prepared", "bought"}
Outcomes == {"", "pending", "done", "queued", "success", "error",
             "reconciliation_required"}
Optional == Nat \cup {None}

Rows == [owner : Workers \cup {NoOwner}, attempt : Nat, until : {Now, TTL},
         state : JobStates, checkpoint : Checkpoints]

WorkerStates ==
    [step : Steps, kind : Kinds \cup {""}, attempt : Nat, lock : Nat,
     cp : Checkpoints, fp : Optional, source : Optional, base : Optional,
     facts : Facts, interp : Interps, fallback : {"none", "kept"},
     expected : Optional, outcome : Outcomes]

TypeOK ==
    /\ jobs \in [Kinds \cup {Lock} -> Rows]
    /\ inputs \in 0 .. MaxInputs /\ pub \in Nat
    /\ report \in [revision : Nat, facts : 0 .. MaxInputs, ai : BOOLEAN, policy : BOOLEAN]
    /\ ai \in [Packets -> {"none", "unresolved", "answered", "error"}]
    /\ worker \in [Workers -> WorkerStates]
    /\ clicks \in 0 .. MaxClicks /\ stalled \subseteq Workers /\ regenerated \in BOOLEAN

(* A finished report job stands for a stored report: the job is completed  *)
(* only by the attempt whose save, or whose predecessor's save, committed  *)
(* (report_jobs.py:_advance, _complete; reports.py:_save_job_checkpoint).  *)
DoneMeansSaved ==
    \A k \in Kinds \cap Lane :
        jobs[k].state = "done" => jobs[k].checkpoint.phase = "saved" /\ Exists

(* Reuse is fresh: whenever a job's saved fingerprint equals the present   *)
(* one, so that a run answers "done, reused" without analysis or resumes   *)
(* after a lost save, the stored report was computed from the present      *)
(* inputs (report_jobs.py:_run, _advance).                                 *)
ReuseIsFresh ==
    \A k \in Kinds \cap Lane :
        jobs[k].checkpoint.phase = "saved" /\ jobs[k].checkpoint.fp = inputs =>
            Exists /\ report.facts = inputs

(* What a user is told is true: success is shown only if a regeneration    *)
(* was committed since the last request was registered, whatever expired,  *)
(* crashed or was retried in between (user_jobs.py:_status, drain).        *)
SuccessIsReal ==
    "regenerate" \in Kinds =>
        LET cp == jobs["regenerate"].checkpoint IN
        cp.phase = "saved" \/ Status(cp) = "success" => regenerated

(* "A retry after a committed save must never buy the same period again"   *)
(* (report_jobs.py:_advance): a scheduled run dispatches no paid request   *)
(* once the report is stored, not even one that began before the save of   *)
(* a run that took its lease over.                                         *)
NoPurchaseAfterSave ==
    [][\A w \in Workers :
          At(w, "buy") /\ worker'[w].step = "awaiting" /\ Kind(w) = "scheduled"
              => ~Exists]_vars

(* An interpretation that was paid for is not lost to a failure, a refused *)
(* purchase or a concurrent lane: a save that replaces an interpretation   *)
(* made under the present policy by none is that of a run which did not    *)
(* ask for one, a regeneration because AI was off, a requested run because *)
(* AI was off or not wanted or had nothing to say, and never a scheduled   *)
(* run (report_jobs.py:_advance reuses it, analysis.py:_analyze falls back *)
(* to it, a regeneration without an answer raises).                        *)
DeclinedAI(w) ==
    At(w, "save") /\ worker'[w].step # "save"
    /\ worker[w].interp = "off" /\ Kind(w) # "scheduled"

InterpretationKept ==
    [][report.ai /\ report.policy /\ ~report'.ai => \E w \in Workers : DeclinedAI(w)]_vars

(* Every save implements an atomic register whose versions are computed    *)
(* from the inputs of the moment of their commit.                          *)
Register == INSTANCE ReportRegister WITH
    revision <- report.revision, facts <- report.facts

ImplementsRegister == Register!Spec
=============================================================================
