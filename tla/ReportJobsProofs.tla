-------------------------- MODULE ReportJobsProofs --------------------------
(***************************************************************************)
(* Report jobs are correct for every set of invocations and every bound,   *)
(* whatever expires, dies or is retried.  The inductive invariant Inv says *)
(* what the checks of save_report and the checkpoints rest on:             *)
(*                                                                         *)
(*   - of a row: a snapshot that is still current was taken of the present *)
(*     inputs, and a saved fingerprint that is still current belongs to    *)
(*     the stored report (LaneRowOK); a success stands for a regeneration  *)
(*     since the last click (UserRowOK);                                   *)
(*   - of an invocation: the revisions it carries are as old as its reads, *)
(*     and facts whose revision is still current are the present inputs    *)
(*     (Reads); while nobody has taken its row over, its row is as it left *)
(*     it (Carries); while nobody has taken its lock over, a report with   *)
(*     an interpretation under the present policy finds it kept, buying    *)
(*     one, or in a lane that may do without (Keeps); and where only one   *)
(*     lane makes reports, one that asks for a paid answer has no stored   *)
(*     report to ask for (FirstOnly).                                      *)
(*                                                                         *)
(* A lease may expire at any moment, so none of these facts is about       *)
(* leases that are still good: they are about owner and attempt, which     *)
(* change together whenever a row or the lock is taken over.               *)
(***************************************************************************)
EXTENDS ReportJobs, TLAPS

\* Its row, or the lock, has not been taken over since it got it, although
\* the lease may have ended.
HasRow(w) ==
    /\ Kind(w) \in Kinds
    /\ jobs[Kind(w)].owner = w
    /\ jobs[Kind(w)].attempt = worker[w].attempt
HasLock(w) ==
    /\ jobs[Lock].owner = w
    /\ jobs[Lock].attempt = worker[w].lock

UserOutcomes == {"queued", "success", "error", "reconciliation_required"}

\* It asks for what an earlier invocation has prepared.
Resumed(w) ==
    /\ worker[w].step \in {"buy", "awaiting", "handoff", "defer"}
    /\ At(w, "handoff") \/ worker[w].interp = "prepared"

\* Which kinds of invocation reach which step.
Roles(w) ==
    /\ worker[w].step \notin {"idle", "gone"} => Kind(w) \in Kinds
    /\ worker[w].step \in {"reuse", "reopen", "snapshot", "complete"} => Kind(w) \in Lane
    /\ worker[w].step \in {"outcome", "finish"} => Kind(w) = "regenerate"
    /\ worker[w].step \in {"unlock", "outcome"} /\ Kind(w) = "regenerate" =>
          worker[w].outcome \in UserOutcomes
    /\ Resumed(w) => Kind(w) \in Lane /\ Prepared(worker[w].cp) # NoPacket

\* It has analyzed the inputs.
Computed(w) ==
    \/ At(w, "check")
    \/ /\ worker[w].step \in {"buy", "awaiting", "defer", "revision", "save"}
       /\ worker[w].interp # "prepared"

\* What it has read, and what follows if the revision has not moved since.
Reads(w) ==
    /\ At(w, "mark") =>
          /\ worker[w].source \in 0 .. pub
          /\ Kind(w) \in Lane =>
                /\ worker[w].fp \in 0 .. inputs
                /\ worker[w].source = pub => worker[w].fp = inputs
    /\ worker[w].step \in {"previous", "facts"} => worker[w].source \in 0 .. pub
    /\ Computed(w) =>
          /\ worker[w].source \in 0 .. pub
          /\ worker[w].base \in worker[w].source .. pub
          /\ worker[w].facts \in 0 .. inputs
          /\ worker[w].base = pub => worker[w].facts = inputs
    /\ worker[w].step \in {"revision", "save"} => worker[w].interp # "prepared"
    /\ worker[w].step \in {"facts", "check"} => worker[w].interp # "prepared"

\* What it knows of its row.
Carries(w) ==
    HasRow(w) =>
        LET cp == jobs[Kind(w)].checkpoint IN
        /\ worker[w].step \in {"lock", "begin"} => worker[w].cp = cp
        /\ At(w, "complete") => cp.phase = "saved" /\ Exists
        /\ /\ worker[w].step \in {"unlock", "outcome"} /\ Kind(w) = "regenerate"
           /\ worker[w].outcome = "success"
           => regenerated

\* The stored report has an interpretation made under the present policy.
Interpreted == report.ai /\ report.policy

\* It was not to ask for an interpretation, nor to keep the one there is.
Declines(w) == worker[w].interp = "off" /\ Kind(w) # "scheduled"

\* What it knows of the interpretation of the stored report.
Keeps(w) ==
    HasLock(w) /\ Interpreted =>
        /\ worker[w].step \in {"facts", "check"} =>
              \/ worker[w].interp = "kept" \/ Declines(w)
              \/ worker[w].interp = "want" /\ Kind(w) # "scheduled"
        /\ worker[w].step \in {"buy", "awaiting"} /\ worker[w].interp # "prepared" =>
              worker[w].fallback = "kept"
        /\ worker[w].step \in {"revision", "save"} =>
              worker[w].interp \in {"kept", "bought"} \/ Declines(w)

\* It may still ask for a paid answer.
Asking(w) ==
    \/ worker[w].step \in {"buy", "awaiting", "handoff", "defer"}
    \/ worker[w].step \in {"facts", "check"} /\ worker[w].interp = "want"

\* Where no lane but the scheduled one makes reports, the first is bought once.
FirstOnly(w) ==
    "requested" \notin Kinds =>
        /\ Kind(w) = "regenerate" /\ ~At(w, "idle") /\ ~At(w, "gone") => Exists
        /\ Kind(w) = "scheduled" /\ HasRow(w) /\ Asking(w) => ~Exists

WorkerOK(w) == Roles(w) /\ Reads(w) /\ Carries(w) /\ Keeps(w) /\ FirstOnly(w)

LaneRowOK(row) ==
    LET cp == row.checkpoint IN
    /\ cp.fp <= inputs
    /\ cp.phase = "analyze" /\ Source(cp) # None =>
          Source(cp) <= pub /\ (Source(cp) = pub => cp.fp = inputs)
    /\ cp.phase = "saved" /\ cp.fp = inputs => Exists /\ report.facts = inputs
    /\ row.state = "done" => cp.phase = "saved" /\ Exists
    /\ "requested" \notin Kinds /\ Prepared(cp) # NoPacket => ~Exists

UserRowOK(row) ==
    LET cp == row.checkpoint IN
    /\ cp.phase = "saved" \/ Status(cp) = "success" => regenerated
    /\ "requested" \notin Kinds /\ row.state # "absent" => Exists

RowOK(k, row) == (k \in Lane => LaneRowOK(row)) /\ (k = "regenerate" => UserRowOK(row))

Inv ==
    /\ TypeOK
    /\ report.ai => Exists
    /\ \A k \in Kinds \cup {Lock} : jobs[k].state = "active" => jobs[k].owner # NoOwner
    /\ \A k \in Kinds : RowOK(k, jobs[k])
    /\ \A w \in Workers : WorkerOK(w)

-----------------------------------------------------------------------------
(* Values.                                                                 *)

LEMMA Names ==
    /\ Lock \notin Kinds /\ NoOwner \notin Workers
    /\ Kinds \subseteq {"scheduled", "requested", "regenerate"}
    /\ Lane = {"scheduled", "requested"}
BY KindsAssumption, WorkersAssumption DEF AllKinds, Lock, Lane

LEMMA Bounds == {MaxInputs, MaxClicks} \subseteq Nat
BY BoundsAssumption

LEMMA MoveValue ==
    ASSUME TypeOK, NEW w \in Workers, NEW next \in WorkerStates,
           worker' = [worker EXCEPT ![w] = next]
    PROVE  /\ worker' \in [Workers -> WorkerStates]
           /\ worker'[w] = next
           /\ \A v \in Workers : v # w => worker'[v] = worker[v]
BY DEF TypeOK

LEMMA PutValue ==
    ASSUME TypeOK, NEW k \in Kinds \cup {Lock}, NEW row \in Rows, Put(k, row)
    PROVE  /\ jobs' \in [Kinds \cup {Lock} -> Rows]
           /\ jobs'[k] = row
           /\ \A l \in Kinds \cup {Lock} : l # k => jobs'[l] = jobs[l]
BY DEF TypeOK, Put

LEMMA RecordTypes ==
    /\ Idle \in WorkerStates /\ Gone \in WorkerStates
    /\ AbsentRow \in Rows /\ AbsentRow.state = "absent"
    /\ NoCheckpoint \in Checkpoints /\ CollectCheckpoint \in Checkpoints
    /\ Collected \in Checkpoints
BY Bounds DEF Idle, Gone, WorkerStates, Rows, AbsentRow, JobLease, NoOwner, NoCheckpoint, Checkpoints,
   CollectCheckpoint, Collected, JobStates, Steps, Interps, Outcomes, Optional, Facts, None, Torn,
   NoFingerprint, Now, TTL

\* The fields of what the program writes into a checkpoint.
LEMMA Fields ==
    /\ \A fp : /\ Source(Saved(fp)) = None /\ Prepared(Saved(fp)) = NoPacket
              /\ Status(Saved(fp)) = "" /\ Nonce(Saved(fp)) = NoNonce
    /\ \A fp, s : /\ Source(Snapshotted(fp, s)) = s /\ Prepared(Snapshotted(fp, s)) = NoPacket
                 /\ Status(Snapshotted(fp, s)) = ""
    /\ \A fp, s, p : /\ Source(HandedOver(fp, s, p)) = s /\ Prepared(HandedOver(fp, s, p)) = p
                    /\ Status(HandedOver(fp, s, p)) = ""
    /\ \A n, st : /\ Source(Request(n, st)) = None /\ Prepared(Request(n, st)) = NoPacket
                 /\ Status(Request(n, st)) = st
    /\ \A n, s : Prepared(Running(n, s)) = NoPacket /\ Status(Running(n, s)) = "running"
    /\ \A cp \in {Collected, CollectCheckpoint, NoCheckpoint} :
          Source(cp) = None /\ Prepared(cp) = NoPacket /\ Status(cp) = ""
BY DEF Source, Prepared, Status, Nonce, Field, Saved, Snapshotted, HandedOver, Request, Running,
   Collected, CollectCheckpoint, NoCheckpoint

LEMMA CheckpointsMade ==
    /\ \A fp, s \in Nat : Snapshotted(fp, s) \in Checkpoints /\ Saved(fp) \in Checkpoints
    /\ \A fp, s \in Nat, p \in Packets : HandedOver(fp, s, p) \in Checkpoints
    /\ \A n \in 0 .. MaxClicks, s \in Nat : Running(n, s) \in Checkpoints
    /\ \A n \in 0 .. MaxClicks, o \in UserOutcomes : Request(n, o) \in Checkpoints
BY DEF Snapshotted, Saved, HandedOver, Running, Request, Checkpoints, UserOutcomes

LEMMA CheckpointTypes ==
    ASSUME NEW cp \in Checkpoints
    PROVE  /\ cp.phase \in {"none", "collect", "analyze", "saved"}
           /\ cp.fp \in Nat \cup {NoFingerprint}
           /\ Source(cp) \in Nat \cup {None} /\ Nonce(cp) \in 0 .. MaxClicks
           /\ Prepared(cp) \in Packets \cup {NoPacket}
BY Bounds DEF Checkpoints, Source, Nonce, Prepared, Field, NoNonce, NoCheckpoint, CollectCheckpoint,
   Collected, NoFingerprint, None

-----------------------------------------------------------------------------
(* A step of one invocation leaves what the others rely on.                *)

\* The world around the invocations stands still; an answer may arrive.
Still ==
    /\ UNCHANGED <<inputs, pub, report, clicks, stalled, regenerated>>
    /\ ai' \in [Packets -> {"none", "unresolved", "answered", "error"}]

LEMMA OthersKeep ==
    ASSUME TypeOK, TypeOK', NEW v \in Workers, WorkerOK(v), worker'[v] = worker[v],
           inputs <= inputs', pub <= pub', pub' = pub => inputs' = inputs,
           Exists => Exists',
           HasRow(v)' => /\ HasRow(v)
                         /\ jobs'[Kind(v)].checkpoint = jobs[Kind(v)].checkpoint
                         /\ Kind(v) = "regenerate" /\ regenerated => regenerated'
                         /\ "requested" \notin Kinds /\ Kind(v) = "scheduled" /\ Exists' => Exists,
           HasLock(v)' => HasLock(v) /\ (Interpreted' => Interpreted)
    PROVE  WorkerOK(v)'
<1> USE DEF TypeOK, Kind, At
<1>1. Roles(v)'
  BY DEF WorkerOK, Roles, Resumed
<1>2. Reads(v)'
  BY DEF WorkerOK, Reads, Computed
<1>3. Carries(v)'
  BY DEF WorkerOK, Carries
<1>4. Keeps(v)'
  BY DEF WorkerOK, Keeps, Declines
<1>5. FirstOnly(v)'
  BY DEF WorkerOK, FirstOnly, Asking
<1>6. QED
  BY <1>1, <1>2, <1>3, <1>4, <1>5 DEF WorkerOK

LEMMA LocalStep ==
    ASSUME Inv, NEW w \in Workers, Still,
           worker' \in [Workers -> WorkerStates],
           \A v \in Workers : v # w => worker'[v] = worker[v],
           jobs' \in [Kinds \cup {Lock} -> Rows],
           \A k \in Kinds \cup {Lock} : jobs'[k] = jobs[k] \/ jobs'[k].owner = w,
           \A k \in Kinds : RowOK(k, jobs'[k]),
           WorkerOK(w)'
    PROVE  Inv'
<1>1. TypeOK'
  BY DEF Inv, TypeOK, Still
<1>2. (report.ai => Exists)'
  BY DEF Inv, Still, Exists
<1>3. \A k \in Kinds \cup {Lock} : jobs'[k].state = "active" => jobs'[k].owner # NoOwner
  BY Names DEF Inv
<1>4. \A k \in Kinds : RowOK(k, jobs[k])'
  <2> SUFFICES ASSUME NEW k \in Kinds
               PROVE  RowOK(k, jobs[k])'
    OBVIOUS
  <2>1. RowOK(k, jobs'[k])
    OBVIOUS
  <2>2. QED
    BY <2>1 DEF Still, RowOK, LaneRowOK, UserRowOK, Exists
<1>5. ASSUME NEW v \in Workers, v # w
      PROVE  WorkerOK(v)'
  <2>1. TypeOK /\ WorkerOK(v) /\ worker'[v] = worker[v]
    BY <1>5 DEF Inv
  <2>2. /\ inputs <= inputs' /\ pub <= pub' /\ (pub' = pub => inputs' = inputs)
        /\ Exists <=> Exists'
        /\ regenerated' = regenerated /\ (Interpreted' <=> Interpreted)
    BY <2>1 DEF Still, TypeOK, Exists, Interpreted
  <2>3. HasRow(v)' => HasRow(v) /\ jobs'[Kind(v)].checkpoint = jobs[Kind(v)].checkpoint
    BY <2>1, <1>5 DEF HasRow, Kind
  <2>4. HasLock(v)' => HasLock(v)
    BY <2>1, <1>5 DEF HasLock
  <2>5. QED
    BY <1>1, <2>1, <2>2, <2>3, <2>4, OthersKeep
<1>6. QED
  BY <1>1, <1>2, <1>3, <1>4, <1>5 DEF Inv
-----------------------------------------------------------------------------
(* How an invocation moves on.                                             *)

\* Between its first step and its last.
Working(w) == worker[w].step \notin {"idle", "gone"}

LEMMA WorldTypes ==
    ASSUME Inv
    PROVE  /\ \A k \in Kinds \cup {Lock} : jobs[k] \in Rows
           /\ pub \in Nat /\ inputs \in Nat /\ inputs \in 0 .. MaxInputs /\ report.revision \in Nat
           /\ \A k \in Kinds \cup {Lock} : jobs[k].checkpoint \in Checkpoints
BY Bounds DEF Inv, TypeOK, Rows

LEMMA Types ==
    ASSUME Inv, NEW w \in Workers
    PROVE  /\ worker[w] \in WorkerStates
           /\ \A k \in Kinds \cup {Lock} : jobs[k] \in Rows
           /\ pub \in Nat /\ inputs \in Nat /\ inputs \in 0 .. MaxInputs /\ report.revision \in Nat
           /\ \A k \in Kinds \cup {Lock} : jobs[k].checkpoint \in Checkpoints
           /\ Working(w) => Kind(w) \in Kinds
BY WorldTypes DEF Inv, TypeOK, WorkerOK, Roles, Working

LEMMA LeaveValue ==
    ASSUME Inv, NEW w \in Workers, NEW outcome \in Outcomes, Working(w), Leave(w, outcome)
    PROVE  /\ worker' \in [Workers -> WorkerStates]
           /\ \A v \in Workers : v # w => worker'[v] = worker[v]
           /\ worker'[w].step = "unlock" /\ worker'[w].outcome = outcome
           /\ worker'[w].kind = Kind(w) /\ worker'[w].attempt = worker[w].attempt
           /\ worker'[w].lock = worker[w].lock
<1> DEFINE next == [Idle EXCEPT !.step = "unlock", !.outcome = outcome, !.kind = Kind(w),
                     !.attempt = worker[w].attempt, !.lock = worker[w].lock,
                     !.cp = IF Kind(w) = "regenerate" THEN worker[w].cp ELSE @]
<1>1. next \in WorkerStates
  <2> DEFINE cp == IF Kind(w) = "regenerate" THEN worker[w].cp ELSE Idle.cp
  <2>1. Idle \in WorkerStates /\ worker[w] \in WorkerStates /\ Kind(w) \in Kinds \cup {""}
    BY Types, RecordTypes
  <2>2. worker[w].attempt \in Nat /\ worker[w].lock \in Nat /\ cp \in Checkpoints
    BY <2>1 DEF WorkerStates
  <2>3. next = [Idle EXCEPT !.step = "unlock", !.outcome = outcome, !.kind = Kind(w),
                            !.attempt = worker[w].attempt, !.lock = worker[w].lock, !.cp = cp]
    OBVIOUS
  <2> HIDE DEF cp, next
  <2>4. QED
    BY <2>1, <2>2, <2>3 DEF WorkerStates, Steps
<1>2. worker' = [worker EXCEPT ![w] = next]
  BY DEF Leave
<1>3. TypeOK
  BY DEF Inv
<1> HIDE DEF next
<1>4. /\ worker' \in [Workers -> WorkerStates]
      /\ \A v \in Workers : v # w => worker'[v] = worker[v]
      /\ worker'[w] = next
  BY <1>1, <1>2, <1>3, MoveValue
<1>5. QED
  BY <1>4 DEF next, Idle

LEMMA LeaveOK ==
    ASSUME Inv, NEW w \in Workers, NEW outcome \in Outcomes, Working(w), Leave(w, outcome),
           Kind(w) = "regenerate" => outcome \in UserOutcomes,
           Exists => Exists',
           outcome = "success" /\ Kind(w) = "regenerate" /\ HasRow(w)' => regenerated'
    PROVE  WorkerOK(w)'
<1>1. /\ worker'[w].step = "unlock" /\ worker'[w].outcome = outcome
      /\ worker'[w].kind = Kind(w)
  BY LeaveValue
<1>2. Kind(w) \in Kinds /\ WorkerOK(w)
  BY Types DEF Inv
<1>3. Roles(w)' /\ Reads(w)'
  BY <1>1, <1>2 DEF Roles, Reads, Resumed, Computed, Kind, At
<1>4. Carries(w)' /\ Keeps(w)'
  BY <1>1, <1>2 DEF Carries, Keeps, Kind, At
<1>5. FirstOnly(w)'
  BY <1>1, <1>2 DEF FirstOnly, WorkerOK, Asking, Kind, At, Working
<1>6. QED
  BY <1>3, <1>4, <1>5 DEF WorkerOK

LEMMA LeavePreserves ==
    ASSUME Inv, NEW w \in Workers, NEW outcome \in Outcomes, Working(w), Still,
           Leave(w, outcome), UNCHANGED jobs,
           Kind(w) = "regenerate" => outcome \in UserOutcomes,
           outcome = "success" /\ Kind(w) = "regenerate" /\ HasRow(w) => regenerated
    PROVE  Inv'
<1>1. /\ worker' \in [Workers -> WorkerStates]
      /\ \A v \in Workers : v # w => worker'[v] = worker[v]
      /\ worker'[w].kind = Kind(w) /\ worker'[w].attempt = worker[w].attempt
  BY LeaveValue
<1>2. HasRow(w)' => HasRow(w)
  BY <1>1 DEF HasRow, Kind
<1>3. WorkerOK(w)'
  BY <1>2, LeaveOK DEF Still, Exists
<1>4. jobs' \in [Kinds \cup {Lock} -> Rows] /\ \A k \in Kinds : RowOK(k, jobs'[k])
  BY DEF Inv, TypeOK
<1>5. QED
  BY <1>1, <1>3, <1>4, LocalStep

LEMMA FailPreserves ==
    ASSUME Inv, NEW w \in Workers, Working(w), Still, Fail(w), UNCHANGED jobs
    PROVE  Inv'
BY LeavePreserves DEF Fail, Outcomes, UserOutcomes

\* A fenced write of the row of its own job.
LEMMA OwnRowValue ==
    ASSUME Inv, NEW w \in Workers, Working(w), NEW row \in Rows, row.owner = w,
           RowOK(Kind(w), row), Put(Kind(w), row)
    PROVE  /\ jobs' \in [Kinds \cup {Lock} -> Rows]
           /\ \A k \in Kinds \cup {Lock} : jobs'[k] = jobs[k] \/ jobs'[k].owner = w
           /\ \A k \in Kinds : RowOK(k, jobs'[k])
           /\ jobs'[Kind(w)] = row /\ jobs'[Lock] = jobs[Lock]
<1>1. TypeOK /\ Kind(w) \in Kinds
  BY Types DEF Inv
<1>2. /\ jobs' \in [Kinds \cup {Lock} -> Rows] /\ jobs'[Kind(w)] = row
      /\ \A l \in Kinds \cup {Lock} : l # Kind(w) => jobs'[l] = jobs[l]
  BY <1>1, PutValue
<1>3. QED
  BY <1>1, <1>2, Names DEF Inv

LEMMA WriteValue ==
    ASSUME Inv, NEW w \in Workers, Working(w), Owns(w), NEW cp \in Checkpoints
    PROVE  /\ Checkpointed(jobs[Kind(w)], cp) \in Rows
           /\ Checkpointed(jobs[Kind(w)], cp).owner = w
           /\ Checkpointed(jobs[Kind(w)], cp).attempt = worker[w].attempt
           /\ Checkpointed(jobs[Kind(w)], cp).state = "active"
           /\ Checkpointed(jobs[Kind(w)], cp).checkpoint = cp
           /\ HasRow(w) /\ jobs[Kind(w)].state = "active"
<1>1. Kind(w) \in Kinds /\ jobs[Kind(w)] \in Rows
  BY Types
<1>2. QED
  BY <1>1 DEF Checkpointed, Rows, Owns, OwnedActive, HasRow, Kind

LEMMA GotoValue ==
    ASSUME Inv, NEW w \in Workers, NEW step \in Steps, Goto(w, step)
    PROVE  /\ worker' \in [Workers -> WorkerStates]
           /\ \A v \in Workers : v # w => worker'[v] = worker[v]
           /\ worker'[w] = [worker[w] EXCEPT !.step = step]
<1>1. TypeOK /\ [worker[w] EXCEPT !.step = step] \in WorkerStates
  BY Types DEF Inv, WorkerStates
<1>2. worker' = [worker EXCEPT ![w] = [worker[w] EXCEPT !.step = step]]
  BY <1>1 DEF Goto, TypeOK
<1>3. QED
  BY <1>1, <1>2, MoveValue

LEMMA WritePreserves ==
    ASSUME Inv, NEW w \in Workers, Working(w), Still, NEW cp \in Checkpoints, NEW step \in Steps,
           Write(w, cp, step),
           Owns(w) => RowOK(Kind(w), Checkpointed(jobs[Kind(w)], cp)),
           jobs'[Kind(w)].checkpoint = cp /\ Goto(w, step) => WorkerOK(w)'
    PROVE  Inv'
<1>1. CASE Owns(w)
  <2> DEFINE row == Checkpointed(jobs[Kind(w)], cp)
  <2>1. row \in Rows /\ row.owner = w /\ row.checkpoint = cp
    BY <1>1, WriteValue
  <2>2. Put(Kind(w), row) /\ Goto(w, step)
    BY <1>1 DEF Write
  <2> HIDE DEF row
  <2>3. RowOK(Kind(w), row)
    BY <1>1 DEF row
  <2>4. /\ jobs' \in [Kinds \cup {Lock} -> Rows]
        /\ \A k \in Kinds \cup {Lock} : jobs'[k] = jobs[k] \/ jobs'[k].owner = w
        /\ \A k \in Kinds : RowOK(k, jobs'[k])
        /\ jobs'[Kind(w)] = row
    BY <2>1, <2>2, <2>3, OwnRowValue
  <2>5. QED
    BY <2>1, <2>2, <2>4, GotoValue, LocalStep
<1>2. CASE ~Owns(w)
  BY <1>2, FailPreserves DEF Write
<1>3. QED
  BY <1>1, <1>2

\* A step that neither writes a row nor ends the invocation.
LEMMA MovePreserves ==
    ASSUME Inv, NEW w \in Workers, Still, UNCHANGED jobs,
           NEW next \in WorkerStates, worker' = [worker EXCEPT ![w] = next], WorkerOK(w)'
    PROVE  Inv'
<1>1. TypeOK /\ \A k \in Kinds : RowOK(k, jobs'[k])
  BY DEF Inv
<1>2. jobs' \in [Kinds \cup {Lock} -> Rows]
  BY DEF Inv, TypeOK
<1>3. QED
  BY <1>1, <1>2, MoveValue, LocalStep

LEMMA GotoPreserves ==
    ASSUME Inv, NEW w \in Workers, Still, UNCHANGED jobs,
           NEW step \in Steps, Goto(w, step), WorkerOK(w)'
    PROVE  Inv'
<1>1. TypeOK /\ \A k \in Kinds : RowOK(k, jobs'[k])
  BY DEF Inv
<1>2. jobs' \in [Kinds \cup {Lock} -> Rows]
  BY DEF Inv, TypeOK
<1>3. QED
  BY <1>1, <1>2, GotoValue, LocalStep

LEMMA GoneOK ==
    ASSUME NEW w \in Workers, worker'[w] = Gone
    PROVE  WorkerOK(w)'
<1>1. worker'[w].step = "gone"
  BY DEF Gone, Idle
<1>2. Roles(w)' /\ Reads(w)'
  BY <1>1 DEF Roles, Resumed, Reads, Computed, At
<1>3. Carries(w)' /\ Keeps(w)'
  BY <1>1 DEF Carries, Keeps, At
<1>4. FirstOnly(w)'
  BY <1>1 DEF FirstOnly, Asking, At
<1>5. QED
  BY <1>2, <1>3, <1>4 DEF WorkerOK

-----------------------------------------------------------------------------
(* One lemma per action.                                                   *)

\* A lease taken over keeps its checkpoint, a completed version is opened anew.
LEMMA AcquiredRow ==
    ASSUME Inv, NEW w \in Workers, NEW k \in Kinds \cup {Lock}
    PROVE  LET row == Acquired(jobs[k], w, Now, TTL) IN
           /\ row \in Rows /\ row.owner = w /\ row.attempt = jobs[k].attempt + 1
           /\ row.attempt \in Nat /\ row.state = "active"
           /\ row.checkpoint = jobs[k].checkpoint
BY Types DEF Acquired, JobLease, Rows, Now, TTL, JobStates

LEMMA AcquiredOK ==
    ASSUME Inv, NEW w \in Workers, NEW k \in Kinds,
           k = "regenerate" => jobs[k].state # "absent"
    PROVE  RowOK(k, Acquired(jobs[k], w, Now, TTL))
<1>1. RowOK(k, jobs[k])
  BY DEF Inv
<1>2. QED
  BY <1>1, AcquiredRow DEF RowOK, LaneRowOK, UserRowOK

\* An invocation that has just got its job: before the lock, or at its end.
LEMMA BeginsOK ==
    ASSUME Inv, Inv => TypeOK, NEW w \in Workers, NEW k \in Kinds, Still,
           worker'[w].step \in {"lock", "release"}, worker'[w].kind = k,
           worker'[w].cp = jobs'[k].checkpoint,
           k = "regenerate" => jobs[k].state # "absent"
    PROVE  WorkerOK(w)'
<1>1. Roles(w)' /\ Reads(w)' /\ Keeps(w)'
  BY DEF Roles, Resumed, Reads, Computed, Keeps, Kind, At
<1>2. Carries(w)'
  BY DEF Carries, Kind, At
<1>3. UserRowOK(jobs[k]) \/ k # "regenerate"
  BY DEF Inv, RowOK
<1>4. FirstOnly(w)'
  BY <1>3 DEF FirstOnly, Asking, Kind, At, Still, UserRowOK, Exists
<1>5. QED
  BY <1>1, <1>2, <1>4 DEF WorkerOK

LEMMA TakePreserves ==
    ASSUME Inv, NEW w \in Workers, NEW k \in Kinds, Still, NEW row \in Rows, row.owner = w,
           RowOK(k, row), Put(k, row), NEW step \in {"lock", "release"},
           worker' = [worker EXCEPT ![w] = [Idle EXCEPT !.step = step, !.kind = k,
                                            !.attempt = row.attempt, !.cp = row.checkpoint]],
           k = "regenerate" => jobs[k].state # "absent"
    PROVE  Inv'
<1> DEFINE next == [Idle EXCEPT !.step = step, !.kind = k,
                                !.attempt = row.attempt, !.cp = row.checkpoint]
<1>1. next \in WorkerStates
  BY ZenonT(60), RecordTypes DEF WorkerStates, Steps, Rows
<1>2. next.step = step /\ next.kind = k /\ next.cp = row.checkpoint
  BY DEF Idle
<1>3. TypeOK /\ worker' = [worker EXCEPT ![w] = next]
  BY DEF Inv
<1> HIDE DEF next
<1>4. /\ worker' \in [Workers -> WorkerStates] /\ worker'[w] = next
      /\ \A v \in Workers : v # w => worker'[v] = worker[v]
  BY <1>1, <1>3, MoveValue
<1>5. /\ jobs' \in [Kinds \cup {Lock} -> Rows] /\ jobs'[k] = row
      /\ \A l \in Kinds \cup {Lock} : l # k => jobs'[l] = jobs[l]
  BY <1>3, PutValue
<1>6. WorkerOK(w)'
  BY <1>2, <1>3, <1>4, <1>5, BeginsOK
<1>7. \A l \in Kinds : RowOK(l, jobs'[l])
  BY <1>5 DEF Inv
<1>8. QED
  BY <1>4, <1>5, <1>6, <1>7, LocalStep

LEMMA StartPreserves ==
    ASSUME Inv, NEW w \in Workers, NEW k \in Kinds, Start(w, k)
    PROVE  Inv'
<1> DEFINE lease == Acquired(jobs[k], w, Now, TTL)
<1>1. Still /\ TypeOK /\ k \in Lane /\ k # "regenerate" /\ jobs[k].checkpoint \in Checkpoints
  BY Names, Types DEF Start, Still, world, Inv, TypeOK
<1>2. lease \in Rows /\ lease.owner = w /\ RowOK(k, lease)
  BY <1>1, AcquiredRow, AcquiredOK
<1> HIDE DEF lease
<1>3. CASE /\ Put(k, lease)
           /\ worker' = [worker EXCEPT ![w] =
                 [Idle EXCEPT !.step = "lock", !.kind = k,
                              !.attempt = lease.attempt, !.cp = lease.checkpoint]]
  BY <1>1, <1>2, <1>3, TakePreserves
<1>4. CASE /\ worker' = [worker EXCEPT ![w] =
                 [Idle EXCEPT !.step = "reuse", !.kind = k, !.cp = jobs[k].checkpoint]]
           /\ UNCHANGED jobs
  <2> DEFINE next == [Idle EXCEPT !.step = "reuse", !.kind = k, !.cp = jobs[k].checkpoint]
  <2>1. next \in WorkerStates
    BY ZenonT(60), <1>1, RecordTypes DEF WorkerStates, Steps
  <2>2. next.step = "reuse" /\ next.kind = k
    BY DEF Idle
  <2> HIDE DEF next
  <2>3. worker'[w] = next
    BY <1>1, <1>4, <2>1, MoveValue DEF next
  <2>4. WorkerOK(w)'
    BY <1>1, <2>2, <2>3 DEF WorkerOK, Roles, Resumed, Reads, Computed, Carries, Keeps, FirstOnly,
       Asking, Kind, At, Lane
  <2>5. QED
    BY <1>1, <1>4, <2>1, <2>4, MovePreserves DEF next
<1>5. QED
  BY <1>3, <1>4 DEF Start, lease

LEMMA GonePreserves ==
    ASSUME Inv, NEW w \in Workers, Still, worker' = [worker EXCEPT ![w] = Gone], UNCHANGED jobs
    PROVE  Inv'
<1>1. TypeOK /\ Gone \in WorkerStates
  BY RecordTypes DEF Inv
<1>2. worker'[w] = Gone
  BY <1>1, MoveValue
<1>3. QED
  BY <1>1, <1>2, GoneOK, MovePreserves

LEMMA ReusePreserves ==
    ASSUME Inv, NEW w \in Workers, Reuse(w)
    PROVE  Inv'
<1>1. Still /\ TypeOK /\ UNCHANGED jobs
  BY DEF Reuse, Still, world, Inv, TypeOK
<1>2. CASE worker' = [worker EXCEPT ![w] = Gone]
  BY <1>1, <1>2, GonePreserves
<1>3. CASE worker' = [worker EXCEPT ![w] = [worker[w] EXCEPT !.step = "reopen", !.fp = inputs]]
  <2> DEFINE next == [worker[w] EXCEPT !.step = "reopen", !.fp = inputs]
  <2>1. next \in WorkerStates
    BY ZenonT(60), Types DEF WorkerStates, Steps, Optional
  <2>2. next.step = "reopen" /\ next.kind = Kind(w)
    BY Types DEF WorkerStates, Kind
  <2>3. Kind(w) \in Kinds /\ Kind(w) \in {"scheduled", "requested"}
    BY DEF Reuse, Inv, WorkerOK, Roles, At, Lane
  <2> HIDE DEF next
  <2>4. worker'[w] = next
    BY <1>1, <1>3, <2>1, MoveValue DEF next
  <2>5. WorkerOK(w)'
    BY <2>2, <2>3, <2>4 DEF WorkerOK, Roles, Resumed, Reads, Computed, Carries, Keeps, FirstOnly,
       Asking, Kind, At, Lane
  <2>6. QED
    BY <1>1, <1>3, <2>1, <2>5, MovePreserves DEF next
<1>4. worker' = [worker EXCEPT ![w] = Gone] \/
      worker' = [worker EXCEPT ![w] = [worker[w] EXCEPT !.step = "reopen", !.fp = inputs]]
  BY <1>1 DEF Reuse, TypeOK
<1>5. QED
  BY <1>2, <1>3, <1>4

LEMMA ReopenPreserves ==
    ASSUME Inv, NEW w \in Workers, Reopen(w)
    PROVE  Inv'
<1> DEFINE k == Kind(w)
           lease == Reopened(jobs[k], w, Now, TTL)
<1>1. Still /\ k \in Kinds /\ k # "regenerate"
  BY DEF Reopen, Still, world, Inv, TypeOK, WorkerOK, Roles, At, Lane
<1>2. CASE worker' = [worker EXCEPT ![w] = Gone] /\ UNCHANGED jobs
  BY <1>1, <1>2, GonePreserves
<1>3. CASE /\ Put(k, lease)
           /\ worker' = [worker EXCEPT ![w] =
                 [Idle EXCEPT !.step = "lock", !.kind = k,
                              !.attempt = lease.attempt, !.cp = lease.checkpoint]]
  <2>1. /\ lease \in Rows /\ lease.owner = w /\ lease.state = "active"
        /\ lease.checkpoint = CollectCheckpoint
    BY <1>1, Types, RecordTypes DEF Reopened, JobLease, Rows, Now, TTL, JobStates
  <2>2. /\ Source(CollectCheckpoint) = None /\ Prepared(CollectCheckpoint) = NoPacket
        /\ CollectCheckpoint.phase = "collect" /\ CollectCheckpoint.fp = -1
    BY Fields DEF CollectCheckpoint, NoFingerprint
  <2> HIDE DEF lease
  <2>3. RowOK(k, lease)
    BY <1>1, <2>1, <2>2, Types DEF RowOK, LaneRowOK
  <2>4. QED
    BY <1>1, <1>3, <2>1, <2>3, TakePreserves
<1>4. QED
  BY <1>2, <1>3 DEF Reopen

LEMMA StartRegenerationPreserves ==
    ASSUME Inv, NEW w \in Workers, StartRegeneration(w)
    PROVE  Inv'
<1> DEFINE k == "regenerate"
           lease == Acquired(jobs[k], w, Now, TTL)
           step == IF Status(lease.checkpoint) = "reconciliation_required"
                   THEN "release" ELSE "lock"
<1>1. Still /\ TypeOK /\ k \in Kinds /\ jobs[k].state # "absent"
  BY DEF StartRegeneration, Still, world, Inv, TypeOK
<1>2. lease \in Rows /\ lease.owner = w /\ RowOK(k, lease) /\ Put(k, lease)
  BY <1>1, AcquiredRow, AcquiredOK DEF StartRegeneration
<1>3. worker' = [worker EXCEPT ![w] = [Idle EXCEPT !.step = step, !.kind = k,
                                       !.attempt = lease.attempt, !.cp = lease.checkpoint]]
  BY DEF StartRegeneration
<1>4. step \in {"lock", "release"}
  OBVIOUS
<1> HIDE DEF lease, step
<1>5. QED
  BY <1>1, <1>2, <1>3, <1>4, TakePreserves

LEMMA AcquireLockPreserves ==
    ASSUME Inv, NEW w \in Workers, AcquireLock(w)
    PROVE  Inv'
<1> DEFINE lease == Acquired(jobs[Lock], w, Now, TTL)
<1>1. /\ Still /\ TypeOK /\ Kind(w) \in Kinds /\ Kind(w) # Lock /\ At(w, "lock")
      /\ WorkerOK(w) /\ Working(w)
  BY Names DEF AcquireLock, Still, world, Inv, TypeOK, WorkerOK, Roles, At, Working
<1>2. lease \in Rows /\ lease.owner = w /\ lease.attempt \in Nat
  BY AcquiredRow
<1> HIDE DEF lease
<1>3. CASE Put(Lock, lease) /\ worker' = [worker EXCEPT ![w].step = "begin", ![w].lock = lease.attempt]
  <2> DEFINE next == [worker[w] EXCEPT !.step = "begin", !.lock = lease.attempt]
  <2>1. next \in WorkerStates
    BY ZenonT(60), <1>2, Types DEF WorkerStates, Steps
  <2>2. /\ next.step = "begin" /\ next.kind = Kind(w) /\ next.cp = worker[w].cp
        /\ next.attempt = worker[w].attempt
    BY Types DEF WorkerStates, Kind
  <2>3. worker' = [worker EXCEPT ![w] = next]
    BY <1>1, <1>3 DEF TypeOK
  <2> HIDE DEF next
  <2>4. /\ worker' \in [Workers -> WorkerStates] /\ worker'[w] = next
        /\ \A v \in Workers : v # w => worker'[v] = worker[v]
    BY <1>1, <2>1, <2>3, MoveValue
  <2>5. /\ jobs' \in [Kinds \cup {Lock} -> Rows] /\ jobs'[Lock] = lease
        /\ \A l \in Kinds : jobs'[l] = jobs[l]
    BY <1>1, <1>2, <1>3, PutValue, Names
  <2>6. Roles(w)' /\ Reads(w)' /\ Keeps(w)'
    BY <1>1, <2>2, <2>4 DEF Roles, Resumed, Reads, Computed, Keeps, Kind, At
  <2>7. HasRow(w)' => HasRow(w) /\ jobs'[Kind(w)] = jobs[Kind(w)]
    BY <1>1, <2>2, <2>4, <2>5 DEF HasRow, Kind
  <2>8. Carries(w)'
    BY <1>1, <2>2, <2>4, <2>7 DEF WorkerOK, Carries, Kind, At
  <2>9. FirstOnly(w)'
    BY <1>1, <2>2, <2>4 DEF WorkerOK, FirstOnly, Asking, Kind, At, Working, Still, Exists
  <2>10. QED
    BY <1>1, <1>2, <2>4, <2>5, <2>6, <2>8, <2>9, LocalStep DEF WorkerOK, Inv
<1>4. CASE Goto(w, "release") /\ UNCHANGED jobs
  <2>1. worker'[w] = [worker[w] EXCEPT !.step = "release"]
    BY <1>4, GotoValue DEF Steps
  <2>2. WorkerOK(w)'
    BY <1>1, <2>1, Types DEF WorkerOK, Roles, Resumed, Reads, Computed, Carries, Keeps, FirstOnly,
       Asking, Kind, At, WorkerStates, Working, Still, Exists
  <2>3. QED
    BY <1>1, <1>4, <2>2, GotoPreserves DEF Steps
<1>5. QED
  BY <1>3, <1>4 DEF AcquireLock, lease

\* What a checkpoint may be replaced with while the job is held.
LEMMA CollectingOK ==
    ASSUME Inv, NEW w \in Workers, Working(w), Owns(w), NEW cp \in {Collected, CollectCheckpoint}
    PROVE  RowOK(Kind(w), Checkpointed(jobs[Kind(w)], cp))
<1>1. /\ cp.fp = -1 /\ cp.phase # "saved" /\ Source(cp) = None /\ Prepared(cp) = NoPacket
      /\ Status(cp) = "" /\ cp \in Checkpoints
  <2>1. CASE cp = Collected
    BY <2>1, Fields, RecordTypes DEF Collected, NoFingerprint
  <2>2. CASE cp = CollectCheckpoint
    BY <2>2, Fields, RecordTypes DEF CollectCheckpoint, NoFingerprint
  <2>3. QED
    BY <2>1, <2>2
<1>2. /\ Checkpointed(jobs[Kind(w)], cp).state = "active" /\ jobs[Kind(w)].state = "active"
      /\ Checkpointed(jobs[Kind(w)], cp).checkpoint = cp
  <2>1. cp \in Checkpoints
    BY <1>1
  <2>2. QED
    BY <2>1, WriteValue
<1>3. RowOK(Kind(w), jobs[Kind(w)]) /\ inputs \in Nat
  BY Types DEF Inv
<1>4. QED
  <2> DEFINE row == Checkpointed(jobs[Kind(w)], cp)
  <2>1. row.state = "active" /\ row.checkpoint = cp
    BY <1>2
  <2> HIDE DEF row
  <2>5. row.checkpoint.fp = -1 /\ inputs \in Nat
    BY <1>1, <1>3, <2>1
  <2>6. Source(row.checkpoint) = None /\ Prepared(row.checkpoint) = NoPacket /\ row.checkpoint.phase # "saved"
    BY <1>1, <2>1
  <2>2. LaneRowOK(row)
    <3>1. row.checkpoint.fp <= inputs
      BY <2>5
    <3>2. QED
      BY <2>1, <2>6, <3>1 DEF LaneRowOK
  <2>3. Kind(w) = "regenerate" => UserRowOK(row)
    BY <1>1, <1>2, <1>3, <2>1 DEF RowOK, UserRowOK
  <2>4. QED
    BY <2>2, <2>3 DEF RowOK, row

LEMMA BeginPhasePreserves ==
    ASSUME Inv, NEW w \in Workers, BeginPhase(w)
    PROVE  Inv'
<1> DEFINE cp == worker[w].cp
<1>1. /\ Still /\ Working(w) /\ Kind(w) \in Kinds /\ Kind(w) \in Lane /\ Kind(w) # "regenerate"
      /\ At(w, "begin") /\ WorkerOK(w)
  BY DEF BeginPhase, Still, world, Inv, TypeOK, WorkerOK, Roles, At, Working, Lane
<1>2. CASE cp.phase = "saved" /\ cp.fp = inputs /\ Exists /\ Goto(w, "complete") /\ UNCHANGED jobs
  <2>1. worker'[w] = [worker[w] EXCEPT !.step = "complete"]
    BY <1>2, GotoValue DEF Steps
  <2>2. /\ worker'[w].step = "complete" /\ worker'[w].kind = Kind(w)
        /\ worker'[w].attempt = worker[w].attempt
    BY <2>1, Types DEF WorkerStates, Kind
  <2>3. HasRow(w)' => jobs'[Kind(w)].checkpoint = cp
    BY <1>1, <1>2, <2>2 DEF HasRow, Kind, WorkerOK, Carries, At
  <2>4. WorkerOK(w)'
    BY <1>1, <1>2, <2>2, <2>3 DEF WorkerOK, Roles, Resumed, Reads, Computed, Carries, Keeps, FirstOnly,
       Asking, Kind, At, Still, Exists
  <2>5. QED
    BY <1>1, <1>2, <2>4, GotoPreserves DEF Steps
<1>3. CASE Goto(w, "snapshot") /\ UNCHANGED jobs
  <2>1. worker'[w] = [worker[w] EXCEPT !.step = "snapshot"]
    BY <1>3, GotoValue DEF Steps
  <2>2. WorkerOK(w)'
    BY <1>1, <2>1, Types DEF WorkerOK, Roles, Resumed, Reads, Computed, Carries, Keeps, FirstOnly,
       Asking, Kind, At, WorkerStates, Working
  <2>3. QED
    BY <1>1, <1>3, <2>2, GotoPreserves DEF Steps
<1>4. ASSUME NEW collected \in {CollectCheckpoint, Collected}, Write(w, collected, "unlock")
      PROVE  Inv'
  <2>1. collected \in Checkpoints /\ "unlock" \in Steps
    BY RecordTypes DEF Steps
  <2>2. ASSUME Goto(w, "unlock")
        PROVE  WorkerOK(w)'
    <3>1. worker'[w] = [worker[w] EXCEPT !.step = "unlock"]
      BY <2>2, GotoValue DEF Steps
    <3>2. QED
      BY <1>1, <3>1, Types DEF WorkerOK, Roles, Resumed, Reads, Computed, Carries, Keeps, FirstOnly,
         Asking, Kind, At, WorkerStates, Working
  <2>3. QED
    BY <1>1, <1>4, <2>1, <2>2, CollectingOK, WritePreserves
<1>5. CASE /\ Prepared(cp) # NoPacket
           /\ worker' = [worker EXCEPT ![w].step = "buy", ![w].interp = "prepared"]
           /\ UNCHANGED jobs
  <2> DEFINE next == [worker[w] EXCEPT !.step = "buy", !.interp = "prepared"]
  <2>1. next \in WorkerStates
    BY ZenonT(60), Types DEF WorkerStates, Steps, Interps
  <2>2. /\ next.step = "buy" /\ next.interp = "prepared" /\ next.kind = Kind(w)
        /\ next.cp = cp /\ next.attempt = worker[w].attempt
    BY Types DEF WorkerStates, Kind
  <2>7. TypeOK /\ worker' = [worker EXCEPT ![w] = next]
    BY <1>5 DEF Inv, TypeOK
  <2> HIDE DEF next
  <2>3. worker'[w] = next
    BY <2>1, <2>7, MoveValue
  <2>4. HasRow(w)' => HasRow(w) /\ Prepared(jobs[Kind(w)].checkpoint) # NoPacket
    BY <1>1, <1>5, <2>2, <2>3 DEF HasRow, Kind, WorkerOK, Carries, At
  <2>5. FirstOnly(w)'
    BY <1>1, <2>2, <2>3, <2>4 DEF FirstOnly, Kind, Inv, RowOK, LaneRowOK, Still, Exists
  <2>6. QED
    BY <1>1, <1>5, <2>1, <2>2, <2>3, <2>5, <2>7, MovePreserves DEF WorkerOK, Roles, Resumed, Reads, Computed,
       Carries, Keeps, Kind, At
<1>6. CASE Leave(w, "pending") /\ UNCHANGED jobs
  BY <1>1, <1>6, LeavePreserves DEF Outcomes
<1>7. QED
  BY <1>2, <1>3, <1>4, <1>5, <1>6 DEF BeginPhase

LEMMA SnapshotPreserves ==
    ASSUME Inv, NEW w \in Workers, Snapshot(w)
    PROVE  Inv'
<1> DEFINE next == [worker[w] EXCEPT !.step = "mark", !.fp = inputs, !.source = pub]
<1>1. /\ Still /\ UNCHANGED jobs /\ Working(w) /\ WorkerOK(w) /\ Kind(w) \in Lane /\ Kind(w) \in Kinds
  BY DEF Snapshot, Still, world, Inv, TypeOK, WorkerOK, Roles, At, Working
<1>8. inputs \in Optional /\ pub \in Optional
  BY Types DEF Optional
<1>2. next \in WorkerStates
  BY ZenonT(60), <1>8, Types DEF WorkerStates, Steps
<1>7. TypeOK /\ worker' = [worker EXCEPT ![w] = next]
  BY DEF Snapshot, Inv, TypeOK
<1>3. next.step = "mark" /\ next.kind = Kind(w) /\ next.fp = inputs /\ next.source = pub
  BY Types DEF WorkerStates, Kind
<1> HIDE DEF next
<1>4. worker'[w] = next
  BY <1>2, <1>7, MoveValue
<1>5. WorkerOK(w)'
  BY <1>1, <1>3, <1>4, Types DEF WorkerOK, Roles, Resumed, Reads, Computed, Carries, Keeps, FirstOnly,
     Asking, Kind, At, Lane, Still
<1>6. QED
  BY <1>1, <1>2, <1>5, <1>7, MovePreserves

LEMMA BeginRegenerationPreserves ==
    ASSUME Inv, NEW w \in Workers, BeginRegeneration(w)
    PROVE  Inv'
<1>1. /\ Still /\ UNCHANGED jobs /\ Working(w) /\ WorkerOK(w) /\ Kind(w) \in Kinds
      /\ At(w, "begin") /\ Kind(w) = "regenerate" /\ TypeOK
  BY DEF BeginRegeneration, Still, world, Inv, TypeOK, WorkerOK, Roles, At, Working
<1>2. CASE worker[w].cp.phase = "saved" /\ Leave(w, "success")
  <2>1. HasRow(w) => regenerated
    BY <1>1, <1>2 DEF Inv, RowOK, UserRowOK, WorkerOK, Carries, HasRow, At
  <2>2. QED
    BY <1>1, <1>2, <2>1, LeavePreserves DEF Outcomes, UserOutcomes
<1>3. CASE worker' = [worker EXCEPT ![w].step = "mark", ![w].source = pub]
  <2> DEFINE next == [worker[w] EXCEPT !.step = "mark", !.source = pub]
  <2>1. next \in WorkerStates
    BY ZenonT(60), Types DEF WorkerStates, Steps, Optional
  <2>6. worker' = [worker EXCEPT ![w] = next]
    BY <1>1, <1>3 DEF TypeOK
  <2>2. next.step = "mark" /\ next.kind = "regenerate" /\ next.source = pub
    BY <1>1, Types DEF WorkerStates, Kind
  <2> HIDE DEF next
  <2>3. worker'[w] = next
    BY <1>1, <2>1, <2>6, MoveValue
  <2>4. WorkerOK(w)'
    BY <1>1, <2>2, <2>3, Types DEF WorkerOK, Roles, Resumed, Reads, Computed, Carries, Keeps, FirstOnly,
       Asking, Kind, At, Lane, Still, Working, Exists
  <2>5. QED
    BY <1>1, <2>1, <2>4, <2>6, MovePreserves
<1>4. QED
  BY <1>2, <1>3 DEF BeginRegeneration

LEMMA MarkPreserves ==
    ASSUME Inv, NEW w \in Workers, Mark(w)
    PROVE  Inv'
<1> DEFINE source == worker[w].source
           next == [worker[w] EXCEPT !.step = "previous"]
<1>1. /\ Still /\ Working(w) /\ WorkerOK(w) /\ Kind(w) \in Kinds /\ At(w, "mark") /\ source \in 0 .. pub
      /\ pub \in Nat /\ inputs \in Nat /\ source \in Nat /\ source # None
  BY Types DEF Mark, Still, world, Inv, TypeOK, WorkerOK, Roles, Reads, At, Working, None
<1>2. RowOK(Kind(w), jobs[Kind(w)])
  BY <1>1 DEF Inv
<1>3. ASSUME Goto(w, "previous")
      PROVE  WorkerOK(w)'
  <2>1. worker'[w] = next
    BY <1>3, GotoValue DEF Steps
  <2>2. /\ next.step = "previous" /\ next.kind = Kind(w) /\ next.source = source
    BY Types DEF WorkerStates, Kind
  <2> HIDE DEF next
  <2>3. QED
    BY <1>1, <2>1, <2>2 DEF WorkerOK, Roles, Resumed, Reads, Computed, Carries, Keeps, FirstOnly,
       Asking, Kind, At, Still, Working, Exists
<1>4. CASE Kind(w) \in Lane
  <2> DEFINE cp == Snapshotted(worker[w].fp, source)
  <2>1. Write(w, cp, "previous") /\ Kind(w) # "regenerate"
    BY <1>4, Names DEF Mark
  <2>2. worker[w].fp \in 0 .. inputs /\ (source = pub => worker[w].fp = inputs)
    BY <1>1, <1>4 DEF WorkerOK, Reads
  <2>3. /\ cp \in Checkpoints /\ cp.fp = worker[w].fp /\ cp.phase = "analyze"
        /\ Source(cp) = source /\ Prepared(cp) = NoPacket
    <3>1. worker[w].fp \in Nat
      BY <1>1, <2>2
    <3>2. cp.fp = worker[w].fp /\ cp.phase = "analyze"
      BY DEF Snapshotted
    <3>3. QED
      BY <1>1, <3>1, <3>2, Fields, CheckpointsMade
  <2> HIDE DEF cp
  <2>4. Owns(w) => RowOK(Kind(w), Checkpointed(jobs[Kind(w)], cp))
    BY <1>1, <2>1, <2>2, <2>3, WriteValue DEF RowOK, LaneRowOK
  <2>5. QED
    BY <1>1, <1>3, <2>1, <2>3, <2>4, WritePreserves DEF Steps
<1>5. CASE Kind(w) \notin Lane
  <2> DEFINE cp == Running(Nonce(worker[w].cp), source)
  <2>1. Write(w, cp, "previous")
    BY <1>5 DEF Mark
  <2>2. Nonce(worker[w].cp) \in 0 .. MaxClicks
    BY Types, CheckpointTypes DEF WorkerStates
  <2>3. cp \in Checkpoints /\ cp.phase = "analyze" /\ Status(cp) = "running"
    BY <1>1, <2>2, Fields, CheckpointsMade DEF Running
  <2> HIDE DEF cp
  <2>4. Owns(w) => RowOK(Kind(w), Checkpointed(jobs[Kind(w)], cp))
    BY <1>1, <1>2, <1>5, <2>3, WriteValue DEF RowOK, UserRowOK
  <2>5. QED
    BY <1>1, <1>3, <2>1, <2>3, <2>4, WritePreserves DEF Steps
<1>6. QED
  BY <1>4, <1>5

\* A step that only changes what the invocation holds; `next` is its new state.
LEMMA ThinkPreserves ==
    ASSUME Inv, NEW w \in Workers, Still, UNCHANGED jobs, NEW next \in WorkerStates,
           worker' = [worker EXCEPT ![w] = next],
           next.kind = Kind(w), next.attempt = worker[w].attempt, next.lock = worker[w].lock,
           worker'[w] = next /\ (HasRow(w)' <=> HasRow(w)) /\ (HasLock(w)' <=> HasLock(w))
              => WorkerOK(w)'
    PROVE  Inv'
<1>1. worker'[w] = next
  BY MoveValue DEF Inv
<1>2. (HasRow(w)' <=> HasRow(w)) /\ (HasLock(w)' <=> HasLock(w))
  BY <1>1 DEF HasRow, HasLock, Kind
<1>3. QED
  BY <1>1, <1>2, MovePreserves

LEMMA Wishes ==
    ASSUME Inv, NEW w \in Workers, NEW enabled \in BOOLEAN, Kind(w) \in Kinds
    PROVE  /\ AIWish(w, enabled) \in {"want", "kept", "none", "off"}
           /\ AIWish(w, enabled) = "want" /\ Kind(w) = "scheduled" => ~Exists
           /\ Interpreted => \/ AIWish(w, enabled) = "kept"
                             \/ Kind(w) # "scheduled" /\ AIWish(w, enabled) \in {"want", "off"}
<1> DEFINE asks == enabled /\ Kind(w) \in WithAI \cup {"regenerate"}
<1>1. report.ai => Exists
  BY DEF Inv
<1>2. CASE Kind(w) = "scheduled" /\ Exists
  <2>1. AIWish(w, enabled) = IF report.ai /\ report.policy THEN "kept" ELSE "none"
    BY <1>2 DEF AIWish
  <2>2. QED
    BY <1>2, <2>1 DEF Interpreted
<1>3. CASE ~(Kind(w) = "scheduled" /\ Exists)
  <2>1. AIWish(w, enabled) = IF asks THEN "want" ELSE "off"
    BY <1>3 DEF AIWish
  <2> HIDE DEF asks
  <2>2. AIWish(w, enabled) \in {"want", "off"}
    BY <2>1
  <2>3. QED
    BY <1>1, <1>3, <2>2 DEF Interpreted
<1>4. QED
  BY <1>2, <1>3

LEMMA PreviousPreserves ==
    ASSUME Inv, NEW w \in Workers, Previous(w)
    PROVE  Inv'
<1>1. /\ Still /\ UNCHANGED jobs /\ Working(w) /\ WorkerOK(w) /\ At(w, "previous")
      /\ TypeOK /\ Kind(w) \in Kinds
  BY DEF Previous, Still, world, Inv, TypeOK, WorkerOK, Roles, At, Working
<1>2. CASE Leave(w, "reconciliation_required")
  BY <1>1, <1>2, LeavePreserves DEF Outcomes, UserOutcomes
<1>3. CASE Fail(w)
  BY <1>1, <1>3, FailPreserves
<1>4. ASSUME NEW enabled \in BOOLEAN,
             worker' = [worker EXCEPT ![w].step = "facts", ![w].interp = AIWish(w, enabled)]
      PROVE  Inv'
  <2> DEFINE interp == AIWish(w, enabled)
             next == [worker[w] EXCEPT !.step = "facts", !.interp = interp]
  <2>1. /\ interp \in {"want", "kept", "none", "off"}
        /\ interp = "want" /\ Kind(w) = "scheduled" => ~Exists
        /\ Interpreted => interp = "kept" \/ (Kind(w) # "scheduled" /\ interp \in {"want", "off"})
    BY <1>1, Wishes
  <2>3. worker' = [worker EXCEPT ![w] = next]
    BY <1>1, <1>4 DEF TypeOK
  <2> HIDE DEF interp
  <2>2. next \in WorkerStates
    <3>1. interp \in Interps /\ "facts" \in Steps /\ worker[w] \in WorkerStates
      BY <2>1, Types DEF Interps, Steps
    <3>2. QED
      BY <3>1 DEF WorkerStates
  <2>4. /\ next.step = "facts" /\ next.interp = interp /\ next.kind = Kind(w)
        /\ next.attempt = worker[w].attempt /\ next.lock = worker[w].lock
        /\ next.source = worker[w].source
    BY Types DEF WorkerStates, Kind
  <2> HIDE DEF next
  <2>5. worker'[w] = next /\ (HasRow(w)' <=> HasRow(w)) /\ (HasLock(w)' <=> HasLock(w)) => WorkerOK(w)'
    BY <1>1, <2>1, <2>4 DEF WorkerOK, Roles, Resumed, Reads, Computed, Carries, Keeps, Declines,
       Interpreted, FirstOnly, Asking, Kind, At, Still, Working, Exists
  <2>6. QED
    BY <1>1, <2>2, <2>3, <2>4, <2>5, ThinkPreserves
<1>5. QED
  BY <1>2, <1>3, <1>4 DEF Previous, AISwitch

LEMMA ReadFactsPreserves ==
    ASSUME Inv, NEW w \in Workers, ReadFacts(w)
    PROVE  Inv'
<1> DEFINE next == [worker[w] EXCEPT !.step = "check", !.base = pub, !.facts = inputs]
<1>1. /\ Still /\ UNCHANGED jobs /\ Working(w) /\ WorkerOK(w) /\ At(w, "facts") /\ TypeOK
      /\ Kind(w) \in Kinds /\ worker[w].source \in 0 .. pub
  BY DEF ReadFacts, Still, world, Inv, TypeOK, WorkerOK, Roles, Reads, At, Working
<1>2. pub \in Optional /\ inputs \in Facts /\ pub \in Nat /\ inputs \in Nat
  BY Types DEF Optional, Facts
<1>3. next \in WorkerStates
  <2>1. "check" \in Steps /\ worker[w] \in WorkerStates
    BY Types DEF Steps
  <2>2. QED
    BY <1>2, <2>1 DEF WorkerStates
<1>4. worker' = [worker EXCEPT ![w] = next]
  BY <1>1 DEF ReadFacts, TypeOK
<1>5. /\ next.step = "check" /\ next.interp = worker[w].interp /\ next.kind = Kind(w)
      /\ next.attempt = worker[w].attempt /\ next.lock = worker[w].lock
      /\ next.source = worker[w].source /\ next.base = pub /\ next.facts = inputs
  BY Types DEF WorkerStates, Kind
<1> HIDE DEF next
<1>6. worker'[w] = next /\ (HasRow(w)' <=> HasRow(w)) /\ (HasLock(w)' <=> HasLock(w)) => WorkerOK(w)'
  BY <1>1, <1>2, <1>5, SMTT(30) DEF WorkerOK, Roles, Resumed, Reads, Computed, Carries, Keeps, Declines,
     Interpreted, FirstOnly,
     Asking, Kind, At, Still, Working, Exists
<1>7. QED
  BY <1>1, <1>3, <1>4, <1>5, <1>6, ThinkPreserves

LEMMA CheckFactsPreserves ==
    ASSUME Inv, NEW w \in Workers, CheckFacts(w)
    PROVE  Inv'
<1> DEFINE wants == worker[w].interp = "want"
           fallback == IF report.ai /\ report.policy THEN "kept" ELSE "none"
<1>1. /\ Still /\ UNCHANGED jobs /\ Working(w) /\ WorkerOK(w) /\ At(w, "check") /\ TypeOK
      /\ Kind(w) \in Kinds
      /\ worker[w].source \in 0 .. pub /\ worker[w].base \in worker[w].source .. pub
      /\ worker[w].base = pub => worker[w].facts = inputs
      /\ worker[w].interp # "prepared"
  BY DEF CheckFacts, Still, world, Inv, TypeOK, WorkerOK, Roles, Reads, Computed, At, Working
<1>2. inputs \in Facts /\ pub \in Nat /\ inputs \in Nat
  BY Types DEF Facts
<1>3. CASE Fail(w)
  BY <1>1, <1>3, FailPreserves
<1>4. CASE /\ Unchanged(w) /\ wants
           /\ worker' = [worker EXCEPT ![w].step = "buy", ![w].facts = Mixed(w), ![w].fallback = fallback]
  <2> DEFINE next == [worker[w] EXCEPT !.step = "buy", !.facts = inputs, !.fallback = fallback]
  <2>1. Mixed(w) = inputs
    BY <1>1, <1>4 DEF Mixed, Unchanged
  <2>2. worker' = [worker EXCEPT ![w] = next]
    BY <1>1, <1>4, <2>1 DEF TypeOK
  <2>3. fallback \in {"none", "kept"} /\ (Interpreted => fallback = "kept")
    BY DEF Interpreted
  <2> HIDE DEF fallback
  <2>4. next \in WorkerStates
    <3>1. "buy" \in Steps /\ worker[w] \in WorkerStates
      BY Types DEF Steps
    <3>2. QED
      BY <1>2, <2>3, <3>1 DEF WorkerStates
  <2>5. /\ next.step = "buy" /\ next.interp = "want" /\ next.kind = Kind(w)
        /\ next.attempt = worker[w].attempt /\ next.lock = worker[w].lock
        /\ next.source = worker[w].source /\ next.base = worker[w].base
        /\ next.facts = inputs /\ next.fallback = fallback
    BY <1>4, Types DEF WorkerStates, Kind
  <2>6. worker[w].interp = "want"
    BY <1>4
  <2> HIDE DEF next
  <2>7. ASSUME worker'[w] = next, HasRow(w)' <=> HasRow(w), HasLock(w)' <=> HasLock(w)
        PROVE  WorkerOK(w)'
    <3>1. Roles(w)' /\ Reads(w)' /\ Carries(w)'
      BY <1>1, <1>2, <2>5, <2>7 DEF Roles, Resumed, Reads, Computed, Carries, Kind, At, Still
    <3>2. Keeps(w)'
      BY <1>1, <2>3, <2>5, <2>7 DEF Keeps, Interpreted, Kind, At, Still
    <3>3. FirstOnly(w)'
      BY <1>1, <2>5, <2>6, <2>7 DEF WorkerOK, FirstOnly, Asking, Kind, At, Still, Working, Exists
    <3>4. QED
      BY <3>1, <3>2, <3>3 DEF WorkerOK
  <2>8. QED
    BY <1>1, <2>2, <2>4, <2>5, <2>7, ThinkPreserves
<1>5. CASE /\ Unchanged(w) /\ (wants => Kind(w) \in Lane)
           /\ worker' = [worker EXCEPT ![w].step = "revision", ![w].facts = Mixed(w),
                                       ![w].interp = IF wants THEN "off" ELSE @]
  <2> DEFINE interp == IF wants THEN "off" ELSE worker[w].interp
             next == [worker[w] EXCEPT !.step = "revision", !.facts = inputs, !.interp = interp]
  <2>1. Mixed(w) = inputs
    BY <1>1, <1>5 DEF Mixed, Unchanged
  <2>2. worker' = [worker EXCEPT ![w] = next]
    BY <1>1, <1>5, <2>1 DEF TypeOK
  <2>3. /\ interp \in Interps /\ interp # "prepared"
        /\ (wants /\ interp = "off") \/ (~wants /\ interp = worker[w].interp)
    BY <1>1, Types DEF WorkerStates, Interps
  <2> HIDE DEF interp
  <2>4. next \in WorkerStates
    <3>1. "revision" \in Steps /\ worker[w] \in WorkerStates
      BY Types DEF Steps
    <3>2. QED
      BY <1>2, <2>3, <3>1 DEF WorkerStates
  <2>5. /\ next.step = "revision" /\ next.interp = interp /\ next.kind = Kind(w)
        /\ next.attempt = worker[w].attempt /\ next.lock = worker[w].lock
        /\ next.source = worker[w].source /\ next.base = worker[w].base
        /\ next.facts = inputs
    BY Types DEF WorkerStates, Kind
  <2> HIDE DEF next
  <2>6. ASSUME worker'[w] = next, HasRow(w)' <=> HasRow(w), HasLock(w)' <=> HasLock(w)
        PROVE  WorkerOK(w)'
    <3>1. Roles(w)' /\ Reads(w)' /\ Carries(w)'
      BY <1>1, <1>2, <2>3, <2>5, <2>6 DEF Roles, Resumed, Reads, Computed, Carries, Kind, At, Still
    <3>2. Keeps(w)'
      BY <1>1, <2>3, <2>5, <2>6 DEF WorkerOK, Keeps, Declines, Interpreted, Kind, At, Still
    <3>3. FirstOnly(w)'
      BY <1>1, <2>3, <2>5, <2>6 DEF WorkerOK, FirstOnly, Asking, Kind, At, Still, Working, Exists
    <3>4. QED
      BY <3>1, <3>2, <3>3 DEF WorkerOK
  <2>7. QED
    BY <1>1, <2>2, <2>4, <2>5, <2>6, ThinkPreserves
<1>6. QED
  BY <1>3, <1>4, <1>5 DEF CheckFacts

LEMMA ReadRevisionPreserves ==
    ASSUME Inv, NEW w \in Workers, ReadRevision(w)
    PROVE  Inv'
<1> DEFINE next == [worker[w] EXCEPT !.step = "save", !.expected = report.revision]
<1>1. /\ Still /\ UNCHANGED jobs /\ Working(w) /\ WorkerOK(w) /\ At(w, "revision") /\ TypeOK
      /\ Kind(w) \in Kinds
  BY DEF ReadRevision, Still, world, Inv, TypeOK, WorkerOK, Roles, At, Working
<1>2. CASE ~Unchanged(w)
  BY <1>1, <1>2, FailPreserves DEF ReadRevision
<1>3. CASE Unchanged(w)
  <2>1. worker' = [worker EXCEPT ![w] = next]
    BY <1>1, <1>3 DEF ReadRevision, TypeOK
  <2>2. next \in WorkerStates
    BY ZenonT(60), Types DEF WorkerStates, Steps, Optional
  <2>3. /\ next.step = "save" /\ next.interp = worker[w].interp /\ next.kind = Kind(w)
        /\ next.attempt = worker[w].attempt /\ next.lock = worker[w].lock
        /\ next.source = worker[w].source /\ next.base = worker[w].base
        /\ next.facts = worker[w].facts
    BY Types DEF WorkerStates, Kind
  <2> HIDE DEF next
  <2>4. worker'[w] = next /\ (HasRow(w)' <=> HasRow(w)) /\ (HasLock(w)' <=> HasLock(w)) => WorkerOK(w)'
    BY <1>1, <2>3 DEF WorkerOK, Roles, Resumed, Reads, Computed, Carries, Keeps, Declines,
     Interpreted, FirstOnly,
       Asking, Kind, At, Still, Working, Exists
  <2>5. QED
    BY <1>1, <2>1, <2>2, <2>3, <2>4, ThinkPreserves
<1>4. QED
  BY <1>2, <1>3

LEMMA AnsweredPreserves ==
    ASSUME Inv, NEW w \in Workers, Still, UNCHANGED jobs,
           worker[w].step \in {"buy", "awaiting"}, Answered(w)
    PROVE  Inv'
<1>1. Working(w) /\ WorkerOK(w) /\ TypeOK /\ Kind(w) \in Kinds
  BY DEF Inv, TypeOK, WorkerOK, Roles, Working
<1>2. CASE worker[w].interp = "prepared"
  <2> DEFINE next == [worker[w] EXCEPT !.step = "handoff"]
  <2>1. worker' = [worker EXCEPT ![w] = next]
    BY <1>1, <1>2 DEF Answered, Goto, TypeOK
  <2>2. next \in WorkerStates
    BY ZenonT(60), Types DEF WorkerStates, Steps
  <2>3. /\ next.step = "handoff" /\ next.interp = "prepared" /\ next.kind = Kind(w)
        /\ next.attempt = worker[w].attempt /\ next.lock = worker[w].lock
        /\ next.cp = worker[w].cp
    BY <1>2, Types DEF WorkerStates, Kind
  <2> HIDE DEF next
  <2>4. worker'[w] = next /\ (HasRow(w)' <=> HasRow(w)) => WorkerOK(w)'
    BY <1>1, <1>2, <2>3 DEF WorkerOK, Roles, Resumed, Reads, Computed, Carries, Keeps, Declines,
     Interpreted, FirstOnly,
       Asking, Kind, At, Still, Working, Exists
  <2>5. QED
    BY <2>1, <2>2, <2>3, <2>4, ThinkPreserves
<1>3. CASE worker[w].interp # "prepared"
  <2> DEFINE next == [worker[w] EXCEPT !.step = "revision", !.interp = "bought"]
  <2>1. worker' = [worker EXCEPT ![w] = next]
    BY <1>1, <1>3 DEF Answered, TypeOK
  <2>2. next \in WorkerStates
    <3>1. "bought" \in Interps /\ "revision" \in Steps /\ worker[w] \in WorkerStates
      BY Types DEF Interps, Steps
    <3>2. QED
      BY <3>1 DEF WorkerStates
  <2>3. /\ next.step = "revision" /\ next.interp = "bought" /\ next.kind = Kind(w)
        /\ next.attempt = worker[w].attempt /\ next.lock = worker[w].lock
        /\ next.source = worker[w].source /\ next.base = worker[w].base
        /\ next.facts = worker[w].facts
    BY Types DEF WorkerStates, Kind
  <2> HIDE DEF next
  <2>4. worker'[w] = next /\ (HasRow(w)' <=> HasRow(w)) => WorkerOK(w)'
    BY <1>1, <1>3, <2>3 DEF WorkerOK, Roles, Resumed, Reads, Computed, Carries, Keeps, Declines,
     Interpreted, FirstOnly,
       Asking, Kind, At, Still, Working, Exists
  <2>5. QED
    BY <2>1, <2>2, <2>3, <2>4, ThinkPreserves
<1>4. QED
  BY <1>2, <1>3

LEMMA RefusedPreserves ==
    ASSUME Inv, NEW w \in Workers, Still, UNCHANGED jobs,
           worker[w].step \in {"buy", "awaiting"}, Refused(w)
    PROVE  Inv'
<1>1. /\ Working(w) /\ WorkerOK(w) /\ TypeOK /\ Kind(w) \in Kinds
      /\ worker[w].fallback \in {"none", "kept"}
  BY Types DEF Inv, TypeOK, WorkerOK, Roles, Working, WorkerStates
<1>2. CASE worker[w].interp = "prepared" \/ Kind(w) = "regenerate"
  BY <1>1, <1>2, FailPreserves DEF Refused
<1>3. CASE ~(worker[w].interp = "prepared" \/ Kind(w) = "regenerate")
  <2> DEFINE next == [worker[w] EXCEPT !.step = "revision", !.interp = worker[w].fallback]
  <2>1. worker' = [worker EXCEPT ![w] = next]
    BY <1>1, <1>3 DEF Refused, TypeOK
  <2>2. next \in WorkerStates
    <3>1. worker[w].fallback \in Interps /\ "revision" \in Steps /\ worker[w] \in WorkerStates
      BY <1>1, Types DEF Interps, Steps
    <3>2. QED
      BY <3>1 DEF WorkerStates
  <2>3. /\ next.step = "revision" /\ next.interp = worker[w].fallback /\ next.kind = Kind(w)
        /\ next.attempt = worker[w].attempt /\ next.lock = worker[w].lock
        /\ next.source = worker[w].source /\ next.base = worker[w].base
        /\ next.facts = worker[w].facts
    BY Types DEF WorkerStates, Kind
  <2> HIDE DEF next
  <2>4. worker'[w] = next /\ (HasRow(w)' <=> HasRow(w)) /\ (HasLock(w)' <=> HasLock(w)) => WorkerOK(w)'
    BY <1>1, <1>3, <2>3 DEF WorkerOK, Roles, Resumed, Reads, Computed, Carries, Keeps, Declines,
     Interpreted, FirstOnly,
       Asking, Kind, At, Still, Working, Exists
  <2>5. QED
    BY <2>1, <2>2, <2>3, <2>4, ThinkPreserves
<1>4. QED
  BY <1>2, <1>3

LEMMA OnwardPreserves ==
    ASSUME Inv, NEW w \in Workers, Still, UNCHANGED jobs, At(w, "buy"),
           NEW step \in {"awaiting", "defer"}, Goto(w, step)
    PROVE  Inv'
<1> DEFINE next == [worker[w] EXCEPT !.step = step]
<1>1. Working(w) /\ WorkerOK(w) /\ TypeOK /\ Kind(w) \in Kinds
  BY DEF Inv, TypeOK, WorkerOK, Roles, Working, At
<1>2. worker' = [worker EXCEPT ![w] = next]
  BY <1>1 DEF Goto, TypeOK
<1>3. next \in WorkerStates
  <2>1. step \in Steps /\ worker[w] \in WorkerStates
    BY Types DEF Steps
  <2>2. QED
    BY <2>1 DEF WorkerStates
<1>4. /\ next.step = step /\ next.interp = worker[w].interp /\ next.kind = Kind(w)
      /\ next.attempt = worker[w].attempt /\ next.lock = worker[w].lock
      /\ next.source = worker[w].source /\ next.base = worker[w].base
      /\ next.facts = worker[w].facts /\ next.fallback = worker[w].fallback
      /\ next.cp = worker[w].cp
  BY Types DEF WorkerStates, Kind
<1> HIDE DEF next
<1>5. ASSUME worker'[w] = next, HasRow(w)' <=> HasRow(w), HasLock(w)' <=> HasLock(w)
      PROVE  WorkerOK(w)'
  <2>1. Roles(w)' /\ Carries(w)'
    BY <1>1, <1>4, <1>5 DEF WorkerOK, Roles, Resumed, Carries, Kind, At, Still
  <2>2. Reads(w)'
    BY <1>1, <1>4, <1>5 DEF WorkerOK, Reads, Computed, Kind, At, Still
  <2>3. Keeps(w)'
    BY <1>1, <1>4, <1>5 DEF WorkerOK, Keeps, Interpreted, Kind, At, Still
  <2>4. FirstOnly(w)'
    BY <1>1, <1>4, <1>5 DEF WorkerOK, FirstOnly, Asking, Kind, At, Still, Working, Exists
  <2>5. QED
    BY <2>1, <2>2, <2>3, <2>4 DEF WorkerOK
<1>6. QED
  BY <1>2, <1>3, <1>4, <1>5, ThinkPreserves

LEMMA PacketType ==
    ASSUME Inv, NEW w \in Workers, worker[w].step \in {"buy", "awaiting", "defer"}
    PROVE  Packet(w) \in Packets /\ (Resumed(w) => Packet(w) # NoPacket)
<1>1. worker[w] \in WorkerStates /\ worker[w].cp \in Checkpoints /\ worker[w].facts \in Facts
  BY Types DEF WorkerStates
<1>2. Nonce(worker[w].cp) \in 0 .. MaxClicks /\ Prepared(worker[w].cp) \in Packets \cup {NoPacket}
  BY <1>1, CheckpointTypes
<1>3. CASE worker[w].interp = "prepared"
  BY <1>2, <1>3 DEF Packet, Inv, WorkerOK, Roles, Resumed
<1>4. CASE worker[w].interp # "prepared"
  BY <1>1, <1>2, <1>4 DEF Packet, Packets, Resumed, At
<1>5. QED
  BY <1>3, <1>4

LEMMA AskForAIPreserves ==
    ASSUME Inv, NEW w \in Workers, AskForAI(w)
    PROVE  Inv'
<1> DEFINE p == Packet(w)
<1>1. /\ Working(w) /\ Kind(w) \in Kinds /\ At(w, "buy") /\ worker[w].step \in {"buy", "awaiting"}
      /\ UNCHANGED jobs /\ ai \in [Packets -> {"none", "unresolved", "answered", "error"}]
      /\ UNCHANGED <<inputs, pub, report, clicks, stalled, regenerated>> /\ p \in Packets
  BY PacketType DEF AskForAI, Inv, TypeOK, WorkerOK, Roles, Working, At
<1> HIDE DEF p
<1>2. CASE ai' = [ai EXCEPT ![p] = "unresolved"] /\ Goto(w, "awaiting")
  <2>1. Still
    BY <1>1, <1>2 DEF Still
  <2>2. QED
    BY <1>1, <1>2, <2>1, OnwardPreserves
<1>3. CASE UNCHANGED ai
  <2>1. Still
    BY <1>1, <1>3 DEF Still
  <2>2. CASE Answered(w)
    BY <1>1, <2>1, <2>2, AnsweredPreserves
  <2>3. CASE Refused(w)
    BY <1>1, <2>1, <2>3, RefusedPreserves
  <2>4. CASE Leave(w, "reconciliation_required")
    BY <1>1, <2>1, <2>4, LeavePreserves DEF Outcomes, UserOutcomes
  <2>5. CASE Goto(w, "defer")
    BY <1>1, <2>1, <2>5, OnwardPreserves
  <2>6. Answered(w) \/ Refused(w) \/ Leave(w, "reconciliation_required") \/ Goto(w, "defer")
        \/ (ai' = [ai EXCEPT ![p] = "unresolved"] /\ Goto(w, "awaiting"))
    BY DEF AskForAI, p
  <2>7. QED
    BY <1>2, <2>2, <2>3, <2>4, <2>5, <2>6
<1>4. QED
  BY <1>2, <1>3 DEF AskForAI, p

LEMMA ReceiveAIPreserves ==
    ASSUME Inv, NEW w \in Workers, ReceiveAI(w)
    PROVE  Inv'
<1> DEFINE p == Packet(w)
<1>1. /\ Working(w) /\ Kind(w) \in Kinds /\ worker[w].step \in {"buy", "awaiting"}
      /\ UNCHANGED jobs /\ ai \in [Packets -> {"none", "unresolved", "answered", "error"}]
      /\ UNCHANGED <<inputs, pub, report, clicks, stalled, regenerated>> /\ p \in Packets
  BY PacketType DEF ReceiveAI, Inv, TypeOK, WorkerOK, Roles, Working, At
<1> HIDE DEF p
<1>2. /\ \/ ai' = [ai EXCEPT ![p] = "answered"] \/ ai' = [ai EXCEPT ![p] = "error"]
         \/ UNCHANGED ai
      /\ Answered(w) \/ Refused(w) \/ Leave(w, "reconciliation_required")
  BY DEF ReceiveAI, p
<1>3. Still
  BY <1>1, <1>2 DEF Still
<1>4. CASE Answered(w)
  BY <1>1, <1>3, <1>4, AnsweredPreserves
<1>5. CASE Refused(w)
  BY <1>1, <1>3, <1>5, RefusedPreserves
<1>6. CASE Leave(w, "reconciliation_required")
  BY <1>1, <1>3, <1>6, LeavePreserves DEF Outcomes, UserOutcomes
<1>7. QED
  BY <1>2, <1>4, <1>5, <1>6

\* Leaving with a result that has been written into the checkpoint.
LEMMA UnlockedOK ==
    ASSUME Inv, NEW w \in Workers, Working(w), Kind(w) \in Lane, Goto(w, "unlock")
    PROVE  WorkerOK(w)'
<1>1. worker'[w] = [worker[w] EXCEPT !.step = "unlock"]
  BY GotoValue DEF Steps
<1>2. worker'[w].step = "unlock" /\ worker'[w].kind = Kind(w)
  BY <1>1, Types DEF WorkerStates, Kind
<1>3. Kind(w) \in Kinds /\ Kind(w) \in {"scheduled", "requested"}
  BY Types DEF Lane
<1>4. QED
  BY <1>2, <1>3 DEF WorkerOK, Roles, Resumed, Reads, Computed, Carries, Keeps, FirstOnly,
     Asking, Kind, At

LEMMA HandOffPreserves ==
    ASSUME Inv, NEW w \in Workers, HandOff(w)
    PROVE  Inv'
<1>1. /\ Still /\ Working(w) /\ Kind(w) \in Lane /\ Write(w, Collected, "unlock")
      /\ Collected \in Checkpoints /\ "unlock" \in Steps
  BY RecordTypes DEF HandOff, Still, world, Inv, TypeOK, WorkerOK, Roles, Resumed, At, Working, Steps
<1>2. Owns(w) => RowOK(Kind(w), Checkpointed(jobs[Kind(w)], Collected))
  BY <1>1, CollectingOK
<1>3. QED
  BY <1>1, <1>2, UnlockedOK, WritePreserves

LEMMA DeferAIPreserves ==
    ASSUME Inv, NEW w \in Workers, DeferAI(w)
    PROVE  Inv'
<1>1. /\ Still /\ Working(w) /\ WorkerOK(w) /\ Kind(w) \in Kinds /\ At(w, "defer")
      /\ pub \in Nat /\ inputs \in Nat
  BY Types DEF DeferAI, Still, world, Inv, TypeOK, WorkerOK, Roles, At, Working
<1>2. CASE Kind(w) = "regenerate"
  BY <1>1, <1>2, LeavePreserves DEF DeferAI, Outcomes, UserOutcomes
<1>3. CASE Kind(w) # "regenerate" /\ Leave(w, "pending") /\ UNCHANGED jobs
  BY <1>1, <1>3, LeavePreserves DEF Outcomes
<1>4. CASE Kind(w) # "regenerate" /\ Write(w, HandedOver(inputs, pub, Packet(w)), "unlock")
  <2> DEFINE cp == HandedOver(inputs, pub, Packet(w))
  <2>1. Packet(w) \in Packets
    BY <1>1, PacketType DEF At
  <2>2. cp.phase = "analyze" /\ cp.fp = inputs
    BY DEF HandedOver
  <2>3. cp \in Checkpoints /\ Source(cp) = pub
    <3>1. pub \in Nat /\ inputs \in Nat
      BY Types
    <3>2. cp \in Checkpoints
      BY <2>1, <3>1, CheckpointsMade
    <3>3. Source(cp) = pub
      BY DEF Source, Field, HandedOver
    <3>4. QED
      BY <3>2, <3>3
  <2> HIDE DEF cp
  <2>4. Kind(w) \in Lane /\ ("requested" \notin Kinds => Kind(w) = "scheduled")
    BY <1>1, <1>4, Names
  <2>5. ASSUME Owns(w)
        PROVE  RowOK(Kind(w), Checkpointed(jobs[Kind(w)], cp))
    <3> DEFINE row == Checkpointed(jobs[Kind(w)], cp)
    <3>1. row.checkpoint = cp /\ row.state = "active" /\ HasRow(w)
      BY <1>1, <2>3, <2>5, WriteValue
    <3> HIDE DEF row
    <3>2. "requested" \notin Kinds => ~Exists
      BY <1>1, <2>4, <3>1 DEF WorkerOK, FirstOnly, Asking, At
    <3>3. LaneRowOK(row)
      BY <1>1, <2>2, <2>3, <3>1, <3>2 DEF LaneRowOK
    <3>4. QED
      BY <1>4, <3>3 DEF RowOK, row
  <2>6. QED
    BY <1>1, <1>4, <2>3, <2>4, <2>5, UnlockedOK, WritePreserves DEF cp, Steps
<1>5. QED
  BY <1>2, <1>3, <1>4 DEF DeferAI

\* What a save commits is computed from the inputs of the moment.
LEMMA SaveFacts ==
    ASSUME Inv, NEW w \in Workers, At(w, "save"), MaySave(w)
    PROVE  /\ worker[w].facts = inputs
           /\ jobs[Kind(w)].checkpoint.fp \in Nat
           /\ Saved(jobs[Kind(w)].checkpoint.fp) \in Checkpoints
<1> DEFINE cp == jobs[Kind(w)].checkpoint
<1>1. Kind(w) \in Kinds /\ WorkerOK(w)
  BY DEF Inv, WorkerOK, Roles, At
<1>2. /\ worker[w].source \in 0 .. pub /\ worker[w].base \in worker[w].source .. pub
      /\ worker[w].base = pub => worker[w].facts = inputs
      /\ pub \in Nat
  BY <1>1, Types DEF WorkerOK, Reads, Computed, At
<1>3. pub = SourceRevision(w)
  BY DEF MaySave
<1>4. worker[w].base = pub
  BY <1>2, <1>3 DEF SourceRevision
<1>5. cp \in Checkpoints /\ cp.phase = "analyze" /\ Source(cp) = pub
  BY <1>1, <1>3, Types DEF MaySave
<1> HIDE DEF cp
<1>6. cp.fp \in Nat
  <2>1. cp # NoCheckpoint /\ cp # CollectCheckpoint /\ cp # Collected
    <3>1. /\ Source(NoCheckpoint) = None /\ Source(CollectCheckpoint) = None
          /\ Source(Collected) = None
      BY Fields
    <3>2. QED
      BY <1>2, <1>5, <3>1 DEF None
  <2>2. cp.phase # "saved" /\ cp.phase # "none"
    BY <1>5
  <2>3. QED
    BY <1>5, <2>1, <2>2 DEF Checkpoints
<1>7. QED
  BY <1>2, <1>4, <1>6, CheckpointsMade DEF cp

LEMMA SavePreserves ==
    ASSUME Inv, NEW w \in Workers, Save(w)
    PROVE  Inv'
<1>1. /\ Working(w) /\ WorkerOK(w) /\ TypeOK /\ Kind(w) \in Kinds /\ At(w, "save")
      /\ pub \in Nat /\ inputs \in Nat /\ report.revision \in Nat
      /\ worker[w] \in WorkerStates /\ inputs \in 0 .. MaxInputs
  BY Types DEF Save, Inv, TypeOK, WorkerOK, Roles, At, Working
<1>2. CASE ~MaySave(w)
  <2>1. Still /\ Fail(w) /\ UNCHANGED jobs
    BY <1>1, <1>2 DEF Save, Still, TypeOK
  <2>2. QED
    BY <1>1, <2>1, FailPreserves
<1>3. CASE MaySave(w)
  <2>0. PICK k \in Kinds : Kind(w) = k
    BY <1>1
  <2> USE <2>0
  <2> DEFINE row == Checkpointed(jobs[k], Saved(jobs[k].checkpoint.fp))
  <2>1. /\ report' = [revision |-> report.revision + 1, facts |-> inputs,
                      ai |-> worker[w].interp \in {"kept", "bought"},
                      policy |-> TRUE]
        /\ pub' = pub + 1 /\ Put(k, row)
        /\ regenerated' = (regenerated \/ k = "regenerate")
        /\ \/ k \in Lane /\ Goto(w, "complete")
           \/ k \notin Lane /\ Leave(w, "success")
           \/ Leave(w, "error")
        /\ UNCHANGED <<inputs, ai, clicks, stalled>>
    BY <1>1, <1>3, SaveFacts DEF Save, Fail
  <2>2. Owns(w) /\ OwnsLock(w) /\ HasRow(w) /\ jobs[k].state = "active"
    BY <1>1, <1>3, RecordTypes, WriteValue DEF MaySave
  <2>3. /\ row \in Rows /\ row.owner = w /\ row.state = "active" /\ row.attempt = worker[w].attempt
        /\ row.checkpoint = Saved(jobs[k].checkpoint.fp)
        /\ row.checkpoint.phase = "saved"
    BY <1>1, <1>3, <2>2, SaveFacts, WriteValue DEF Saved
  <2> HIDE DEF row
  <2>4. /\ Source(row.checkpoint) = None /\ Prepared(row.checkpoint) = NoPacket
        /\ row.checkpoint.fp = jobs[k].checkpoint.fp
    <3>1. Source(row.checkpoint) = None /\ Prepared(row.checkpoint) = NoPacket
      BY <2>3, Fields
    <3>2. row.checkpoint.fp = jobs[k].checkpoint.fp
      BY <2>3 DEF Saved
    <3>3. QED
      BY <3>1, <3>2
  <2>5. /\ jobs' \in [Kinds \cup {Lock} -> Rows] /\ jobs'[k] = row
        /\ \A l \in Kinds \cup {Lock} : l # k => jobs'[l] = jobs[l]
    BY <1>1, <2>1, <2>3, PutValue
  <2>6. /\ worker' \in [Workers -> WorkerStates]
        /\ \A v \in Workers : v # w => worker'[v] = worker[v]
        /\ worker'[w].kind = k /\ worker'[w].attempt = worker[w].attempt
    <3>1. CASE Goto(w, "complete")
      <4>1. worker'[w] = [worker[w] EXCEPT !.step = "complete"]
        BY <3>1, GotoValue DEF Steps
      <4>2. QED
        BY <1>1, <3>1, <4>1, GotoValue DEF Steps, WorkerStates, Kind
    <3>2. ASSUME NEW o \in {"success", "error"}, Leave(w, o)
          PROVE  <2>6!1 /\ <2>6!2 /\ <2>6!3
      BY <1>1, <3>2, LeaveValue DEF Outcomes
    <3>3. QED
      BY <2>1, <3>1, <3>2
  <2>7. TypeOK' /\ Exists' /\ report'.facts = inputs'
    BY <1>1, <2>1, <2>5, <2>6 DEF TypeOK, Exists
  <2>8. \A l \in Kinds : RowOK(l, jobs[l])'
    <3>1. ASSUME NEW l \in Kinds, l # k
          PROVE  RowOK(l, jobs[l])'
      <4>1. RowOK(l, jobs[l]) /\ jobs'[l] = jobs[l]
        BY <2>5, <3>1 DEF Inv
      <4>2. "requested" \notin Kinds /\ l \in Lane => Exists
        BY <1>1, <3>1, Names DEF WorkerOK, FirstOnly, At
      <4>3. l = "regenerate" => (regenerated => regenerated')
        BY <2>1
      <4>4. jobs[l].checkpoint \in Checkpoints
        BY Types
      <4>5. Source(jobs[l].checkpoint) \in Nat \cup {None} /\ jobs[l].checkpoint.fp \in Nat \cup {-1}
        BY <4>4, CheckpointTypes DEF NoFingerprint
      <4>6. LaneRowOK(jobs[l]) /\ ("requested" \notin Kinds => Exists) => LaneRowOK(jobs[l])'
        BY <1>1, <2>1, <2>7, <4>1, <4>5 DEF LaneRowOK
      <4>7. UserRowOK(jobs[l]) => UserRowOK(jobs[l])'
        BY <2>1, <2>7, <4>1 DEF UserRowOK
      <4>8. QED
        BY <4>1, <4>2, <4>6, <4>7 DEF RowOK
    <3>2. RowOK(k, jobs[k])'
      <4>1. k \in Lane => LaneRowOK(jobs[k])
        BY <1>1 DEF Inv, RowOK
      <4>2. k \in Lane => LaneRowOK(jobs[k])'
        BY <1>1, <2>1, <2>3, <2>4, <2>5, <2>7, <4>1 DEF LaneRowOK
      <4>3. k = "regenerate" => UserRowOK(jobs[k])'
        BY <2>1, <2>7 DEF UserRowOK
      <4>4. QED
        BY <4>2, <4>3 DEF RowOK
    <3>3. QED
      BY <3>1, <3>2
  <2>9. ASSUME NEW v \in Workers, v # w
        PROVE  WorkerOK(v)'
    <3>1. WorkerOK(v) /\ worker'[v] = worker[v]
      BY <2>6, <2>9 DEF Inv
    <3>2. HasRow(v)' => /\ HasRow(v) /\ Kind(v) # k
                        /\ jobs'[Kind(v)].checkpoint = jobs[Kind(v)].checkpoint
      BY <2>3, <2>5, <2>9, <3>1 DEF HasRow, Kind
    <3>3. HasRow(v)' /\ "requested" \notin Kinds /\ Kind(v) = "scheduled" => Exists
      <4>1. SUFFICES ASSUME HasRow(v)', "requested" \notin Kinds, Kind(v) = "scheduled"
                     PROVE  Exists
        OBVIOUS
      <4>2. k = "regenerate"
        BY <1>1, <3>2, <4>1, Names
      <4>3. QED
        BY <1>1, <4>1, <4>2 DEF WorkerOK, FirstOnly, At
    <3>4. ~HasLock(v)'
      BY <1>1, <2>2, <2>5, <2>9, Names DEF HasLock, OwnsLock, OwnedActive
    <3>5. /\ inputs <= inputs' /\ pub <= pub' /\ (pub' = pub => inputs' = inputs)
      BY <1>1, <2>1
    <3>7. regenerated => regenerated'
      BY <2>1
    <3>6. QED
      BY <1>1, <2>7, <3>1, <3>2, <3>3, <3>4, <3>5, <3>7, OthersKeep
  <2>10. WorkerOK(w)'
    <3>1. CASE k \in Lane /\ Goto(w, "complete")
      <4>1. worker'[w].step = "complete"
        <5>1. worker'[w] = [worker[w] EXCEPT !.step = "complete"]
          BY <3>1, GotoValue DEF Steps
        <5>2. QED
          BY <1>1, <5>1 DEF WorkerStates
      <4>2. k # "regenerate"
        BY <3>1 DEF Lane
      <4>3. QED
        BY <1>1, <2>3, <2>5, <2>6, <2>7, <3>1, <4>1, <4>2 DEF WorkerOK, Roles, Resumed, Reads, Computed,
           Carries, Keeps, FirstOnly, Asking, Kind, At
    <3>2. CASE k \notin Lane /\ Leave(w, "success")
      <4>1. k = "regenerate"
        BY <1>1, <3>2, Names
      <4>2. QED
        BY <1>1, <2>1, <2>7, <3>2, <4>1, LeaveOK DEF Outcomes, UserOutcomes
    <3>3. CASE Leave(w, "error")
      BY <1>1, <2>7, <3>3, LeaveOK DEF Outcomes, UserOutcomes
    <3>4. QED
      BY <2>1, <3>1, <3>2, <3>3
  <2>11. \A l \in Kinds \cup {Lock} : jobs'[l].state = "active" => jobs'[l].owner # NoOwner
    BY <2>3, <2>5, Names DEF Inv
  <2>12. QED
    BY <2>7, <2>8, <2>9, <2>10, <2>11 DEF Inv
<1>4. QED
  BY <1>2, <1>3

\* The invocation closes its own row, or finds that it has lost it.
LEMMA ClosePreserves ==
    ASSUME Inv, NEW w \in Workers, Working(w), Still,
           worker' \in [Workers -> WorkerStates],
           \A v \in Workers : v # w => worker'[v] = worker[v],
           WorkerOK(w)',
           NEW row \in Rows, row.owner = w, RowOK(Kind(w), row),
           Put(Kind(w), row) \/ UNCHANGED jobs
    PROVE  Inv'
<1>1. CASE Put(Kind(w), row)
  BY <1>1, OwnRowValue, LocalStep
<1>2. CASE UNCHANGED jobs
  <2>1. jobs' \in [Kinds \cup {Lock} -> Rows] /\ \A k \in Kinds : RowOK(k, jobs'[k])
    BY <1>2 DEF Inv, TypeOK
  <2>2. QED
    BY <1>2, <2>1, LocalStep
<1>3. QED
  BY <1>1, <1>2

LEMMA ClosedRows ==
    ASSUME Inv, NEW w \in Workers, Working(w), HasRow(w)
    PROVE  /\ Completed(jobs[Kind(w)]) \in Rows /\ Completed(jobs[Kind(w)]).owner = w
           /\ Completed(jobs[Kind(w)]).checkpoint = jobs[Kind(w)].checkpoint
           /\ Released(jobs[Kind(w)], Now) \in Rows /\ Released(jobs[Kind(w)], Now).owner = w
           /\ Released(jobs[Kind(w)], Now).checkpoint = jobs[Kind(w)].checkpoint
           /\ Released(jobs[Kind(w)], Now).state = "released"
BY Types DEF Completed, Released, Rows, HasRow, JobStates, Now, TTL

LEMMA OwnsHasRow ==
    ASSUME Inv, NEW w \in Workers, Working(w), Owns(w)
    PROVE  HasRow(w) /\ jobs[Kind(w)].state = "active"
BY Types DEF Owns, OwnedActive, HasRow, Kind

LEMMA CompleteJobPreserves ==
    ASSUME Inv, NEW w \in Workers, CompleteJob(w)
    PROVE  Inv'
<1>1. /\ Still /\ Working(w) /\ Kind(w) \in Lane /\ Kind(w) # "regenerate" /\ At(w, "complete")
      /\ Leave(w, "done") /\ "done" \in Outcomes /\ WorkerOK(w) /\ Kind(w) \in Kinds
  BY DEF CompleteJob, Still, world, Inv, TypeOK, WorkerOK, Roles, At, Working, Lane, Outcomes
<1>2. CASE UNCHANGED jobs
  BY <1>1, <1>2, LeavePreserves
<1>3. CASE Owns(w) /\ Put(Kind(w), Completed(jobs[Kind(w)]))
  <2> DEFINE row == Completed(jobs[Kind(w)])
  <2>1. HasRow(w)
    BY <1>1, <1>3, OwnsHasRow
  <2>2. row \in Rows /\ row.owner = w /\ row.checkpoint = jobs[Kind(w)].checkpoint
    BY <1>1, <2>1, ClosedRows
  <2>3. LaneRowOK(jobs[Kind(w)]) /\ jobs[Kind(w)].checkpoint.phase = "saved" /\ Exists
    BY <1>1, <2>1 DEF Inv, RowOK, WorkerOK, Carries
  <2> HIDE DEF row
  <2>4. RowOK(Kind(w), row)
    BY <1>1, <2>2, <2>3 DEF RowOK, LaneRowOK
  <2>5. WorkerOK(w)'
    BY <1>1, LeaveOK DEF Still, Exists
  <2>6. QED
    BY <1>1, <1>3, <2>2, <2>4, <2>5, LeaveValue, ClosePreserves DEF row
<1>4. QED
  BY <1>2, <1>3 DEF CompleteJob

LEMMA UnlockPreserves ==
    ASSUME Inv, NEW w \in Workers, Unlock(w)
    PROVE  Inv'
<1> DEFINE step == IF Kind(w) \in Lane THEN "release" ELSE "outcome"
           next == [worker[w] EXCEPT !.step = step]
<1>1. /\ Still /\ Working(w) /\ WorkerOK(w) /\ Kind(w) \in Kinds /\ At(w, "unlock")
      /\ Kind(w) \in Lane \/ Kind(w) = "regenerate"
      /\ Goto(w, step) /\ step \in Steps /\ TypeOK
  BY Names DEF Unlock, Still, world, Inv, TypeOK, WorkerOK, Roles, At, Working, Steps
<1>2. /\ worker' \in [Workers -> WorkerStates] /\ worker'[w] = next
      /\ \A v \in Workers : v # w => worker'[v] = worker[v]
  BY <1>1, GotoValue
<1>3. /\ next.step = step /\ next.kind = Kind(w) /\ next.outcome = worker[w].outcome
      /\ next.attempt = worker[w].attempt
  BY Types DEF WorkerStates, Kind
<1> HIDE DEF next
<1>4. CASE OwnsLock(w) /\ Put(Lock, Released(jobs[Lock], Now))
  <2> DEFINE row == Released(jobs[Lock], Now)
  <2>1. row \in Rows /\ row.owner = w
    BY <1>4, Types DEF Released, OwnsLock, OwnedActive, Rows, JobStates, Now
  <2> HIDE DEF row
  <2>2. /\ jobs' \in [Kinds \cup {Lock} -> Rows] /\ jobs'[Lock] = row
        /\ \A l \in Kinds : jobs'[l] = jobs[l]
    BY <1>1, <1>4, <2>1, PutValue, Names DEF row
  <2>3. HasRow(w)' <=> HasRow(w)
    BY <1>1, <1>2, <1>3, <2>2 DEF HasRow, Kind
  <2>4. WorkerOK(w)'
    BY <1>1, <1>2, <1>3, <2>2, <2>3 DEF WorkerOK, Roles, Resumed, Reads, Computed, Carries, Keeps,
       FirstOnly, Asking, Kind, At, Lane, Still, Working, Exists
  <2>5. QED
    BY <1>1, <1>2, <2>1, <2>2, <2>4, LocalStep DEF Inv
<1>5. CASE UNCHANGED jobs
  <2>1. HasRow(w)' <=> HasRow(w)
    BY <1>1, <1>2, <1>3, <1>5 DEF HasRow, Kind
  <2>2. WorkerOK(w)'
    BY <1>1, <1>2, <1>3, <1>5, <2>1 DEF WorkerOK, Roles, Resumed, Reads, Computed, Carries, Keeps,
       FirstOnly, Asking, Kind, At, Lane, Still, Working, Exists
  <2>3. QED
    BY <1>1, <1>5, <2>2, GotoPreserves
<1>6. QED
  BY <1>4, <1>5 DEF Unlock

LEMMA WriteOutcomePreserves ==
    ASSUME Inv, NEW w \in Workers, WriteOutcome(w)
    PROVE  Inv'
<1> DEFINE outcome == worker[w].outcome
           nonce == IF outcome = "success" THEN NoNonce ELSE Nonce(worker[w].cp)
           step == IF outcome \in {"success", "error"} THEN "finish" ELSE "release"
           cp == Request(nonce, outcome)
<1>1. /\ Still /\ Working(w) /\ WorkerOK(w) /\ Kind(w) = "regenerate" /\ At(w, "outcome")
      /\ outcome \in UserOutcomes /\ step \in Steps /\ Kind(w) \in Kinds
  BY DEF WriteOutcome, Still, world, Inv, TypeOK, WorkerOK, Roles, At, Working, Steps
<1>2. CASE ~Owns(w)
  BY <1>1, <1>2, GonePreserves DEF WriteOutcome
<1>3. CASE Owns(w)
  <2>1. Put(Kind(w), Checkpointed(jobs[Kind(w)], cp)) /\ Goto(w, step)
    BY <1>3 DEF WriteOutcome
  <2>2. nonce \in 0 .. MaxClicks
    <3>1. worker[w].cp \in Checkpoints
      BY Types DEF WorkerStates
    <3>2. Nonce(worker[w].cp) \in 0 .. MaxClicks
      BY <3>1, CheckpointTypes
    <3>3. QED
      BY <3>2, Bounds DEF NoNonce
  <2>3. cp \in Checkpoints /\ Status(cp) = outcome
    BY <1>1, <2>2, CheckpointsMade, Fields
  <2>4. cp.phase = "none"
    BY DEF Request
  <2>5. RowOK(Kind(w), jobs[Kind(w)])
    BY <1>1 DEF Inv
  <2> HIDE DEF cp
  <2> DEFINE row == Checkpointed(jobs[Kind(w)], cp)
  <2>6. /\ row \in Rows /\ row.owner = w /\ row.state = "active" /\ row.checkpoint = cp /\ HasRow(w)
        /\ jobs[Kind(w)].state = "active"
    BY <1>1, <1>3, <2>3, WriteValue
  <2> HIDE DEF row
  <2>7. outcome = "success" => regenerated
    BY <1>1, <2>6 DEF WorkerOK, Carries, At
  <2>8. RowOK(Kind(w), row)
    BY <1>1, <2>3, <2>4, <2>5, <2>6, <2>7, Names DEF RowOK, UserRowOK
  <2>9. /\ worker' \in [Workers -> WorkerStates] /\ worker'[w] = [worker[w] EXCEPT !.step = step]
        /\ \A v \in Workers : v # w => worker'[v] = worker[v]
    BY <1>1, <2>1, GotoValue
  <2>10. worker'[w].step \in {"finish", "release"} /\ worker'[w].kind = "regenerate"
    BY <1>1, <2>9, Types DEF WorkerStates, Kind
  <2>11. WorkerOK(w)'
    BY <1>1, <2>10 DEF WorkerOK, Roles, Resumed, Reads, Computed, Carries, Keeps,
       FirstOnly, Asking, Kind, At, Lane, Still, Working, Exists
  <2>12. QED
    BY <1>1, <2>1, <2>6, <2>8, <2>9, <2>11, ClosePreserves DEF row, cp
<1>4. QED
  BY <1>2, <1>3

LEMMA GoneClosePreserves ==
    ASSUME Inv, NEW w \in Workers, Working(w), Still, worker' = [worker EXCEPT ![w] = Gone],
           NEW row \in Rows, row.owner = w, RowOK(Kind(w), row), Put(Kind(w), row)
    PROVE  Inv'
<1>1. /\ worker' \in [Workers -> WorkerStates] /\ worker'[w] = Gone
      /\ \A v \in Workers : v # w => worker'[v] = worker[v]
  BY RecordTypes, MoveValue DEF Inv
<1>2. WorkerOK(w)'
  BY <1>1, GoneOK
<1>3. QED
  BY <1>1, <1>2, ClosePreserves

LEMMA FinishRequestPreserves ==
    ASSUME Inv, NEW w \in Workers, FinishRequest(w)
    PROVE  Inv'
<1>1. /\ Still /\ Working(w) /\ Kind(w) = "regenerate" /\ Kind(w) \in Kinds
      /\ worker' = [worker EXCEPT ![w] = Gone]
  BY DEF FinishRequest, Still, world, Inv, TypeOK, WorkerOK, Roles, At, Working
<1>2. CASE UNCHANGED jobs
  BY <1>1, <1>2, GonePreserves
<1>3. CASE Owns(w) /\ Put(Kind(w), Completed(jobs[Kind(w)]))
  <2> DEFINE row == Completed(jobs[Kind(w)])
  <2>1. HasRow(w) /\ jobs[Kind(w)].state = "active"
    BY <1>1, <1>3, OwnsHasRow
  <2>2. row \in Rows /\ row.owner = w /\ row.checkpoint = jobs[Kind(w)].checkpoint
    BY <1>1, <2>1, ClosedRows
  <2>3. RowOK(Kind(w), jobs[Kind(w)])
    BY <1>1 DEF Inv
  <2> HIDE DEF row
  <2>4. RowOK(Kind(w), row)
    BY <1>1, <2>1, <2>2, <2>3, Names DEF RowOK, UserRowOK
  <2>5. QED
    BY <1>1, <1>3, <2>2, <2>4, GoneClosePreserves DEF row
<1>4. QED
  BY <1>2, <1>3 DEF FinishRequest

LEMMA ReleaseJobPreserves ==
    ASSUME Inv, NEW w \in Workers, ReleaseJob(w)
    PROVE  Inv'
<1>1. /\ Still /\ Working(w) /\ Kind(w) \in Kinds
      /\ worker' = [worker EXCEPT ![w] = Gone]
  BY DEF ReleaseJob, Still, world, Inv, TypeOK, WorkerOK, Roles, At, Working
<1>2. CASE UNCHANGED jobs
  BY <1>1, <1>2, GonePreserves
<1>3. CASE Owns(w) /\ Put(Kind(w), Released(jobs[Kind(w)], Now))
  <2> DEFINE row == Released(jobs[Kind(w)], Now)
  <2>1. HasRow(w) /\ jobs[Kind(w)].state = "active"
    BY <1>1, <1>3, OwnsHasRow
  <2>2. /\ row \in Rows /\ row.owner = w /\ row.checkpoint = jobs[Kind(w)].checkpoint
        /\ row.state = "released"
    BY <1>1, <2>1, ClosedRows
  <2>3. RowOK(Kind(w), jobs[Kind(w)])
    BY <1>1 DEF Inv
  <2> HIDE DEF row
  <2>4. RowOK(Kind(w), row)
    BY <1>1, <2>1, <2>2, <2>3 DEF RowOK, LaneRowOK, UserRowOK
  <2>5. QED
    BY <1>1, <1>3, <2>2, <2>4, GoneClosePreserves DEF row
<1>4. QED
  BY <1>2, <1>3 DEF ReleaseJob

LEMMA CrashPreserves ==
    ASSUME Inv, NEW w \in Workers, Crash(w)
    PROVE  Inv'
<1>1. Still /\ UNCHANGED jobs /\ worker' = [worker EXCEPT ![w] = Gone]
  BY DEF Crash, Still, world, Inv, TypeOK
<1>2. QED
  BY <1>1, GonePreserves

-----------------------------------------------------------------------------
(* The rest of the system.                                                 *)

LEMMA WorldStep ==
    ASSUME Inv, TypeOK', UNCHANGED worker, (report.ai => Exists)',
           inputs <= inputs', pub <= pub', pub' = pub => inputs' = inputs,
           Exists' <=> Exists, report'.ai => report.ai, report'.policy => report.policy,
           \A k \in Kinds \cup {Lock} :
              /\ jobs'[k].state = "active" => jobs'[k].owner # NoOwner
              /\ \/ /\ jobs'[k].owner = jobs[k].owner /\ jobs'[k].attempt = jobs[k].attempt
                    /\ jobs'[k].checkpoint = jobs[k].checkpoint
                    /\ k = "regenerate" /\ regenerated => regenerated'
                 \/ jobs'[k].owner = NoOwner,
           \A k \in Kinds : RowOK(k, jobs[k])'
    PROVE  Inv'
<1>1. ASSUME NEW v \in Workers
      PROVE  WorkerOK(v)'
  <2>1. TypeOK /\ WorkerOK(v) /\ v # NoOwner /\ worker'[v] = worker[v]
    BY Names DEF Inv
  <2>2. HasRow(v)' => /\ HasRow(v)
                      /\ jobs'[Kind(v)].checkpoint = jobs[Kind(v)].checkpoint
                      /\ Kind(v) = "regenerate" /\ regenerated => regenerated'
    BY <2>1 DEF HasRow, Kind
  <2>3. HasLock(v)' => HasLock(v)
    BY <2>1 DEF HasLock
  <2>4. Interpreted' => Interpreted
    BY DEF Interpreted
  <2>5. QED
    BY <2>1, <2>2, <2>3, <2>4, OthersKeep
<1>2. QED
  BY <1>1 DEF Inv

\* Rows whose inputs have moved on, and nothing else.
LEMMA RowsAge ==
    ASSUME Inv, NEW k \in Kinds, UNCHANGED <<jobs, report, regenerated>>, pub' = pub + 1,
           inputs' \in {inputs, inputs + 1}
    PROVE  RowOK(k, jobs[k])'
<1>1. /\ RowOK(k, jobs[k]) /\ jobs'[k] = jobs[k] /\ pub \in Nat /\ inputs \in Nat
      /\ jobs[k].checkpoint \in Checkpoints /\ (Exists' <=> Exists)
  BY WorldTypes DEF Inv, Exists
<1>2. /\ Source(jobs[k].checkpoint) \in Nat \cup {None}
      /\ jobs[k].checkpoint.fp \in Nat \cup {-1}
  BY <1>1, CheckpointTypes DEF NoFingerprint
<1>3. LaneRowOK(jobs[k]) => LaneRowOK(jobs[k])'
  BY <1>1, <1>2 DEF LaneRowOK, None
<1>4. UserRowOK(jobs[k]) => UserRowOK(jobs[k])'
  BY <1>1 DEF UserRowOK
<1>5. QED
  BY <1>1, <1>3, <1>4 DEF RowOK

LEMMA ChangeInputsPreserves == Inv /\ ChangeInputs => Inv'
<1> SUFFICES ASSUME Inv, ChangeInputs
             PROVE  Inv'
  OBVIOUS
<1>1. /\ TypeOK /\ pub \in Nat /\ inputs \in Nat /\ MaxInputs \in Nat
      /\ inputs' = inputs + 1 /\ pub' = pub + 1 /\ inputs < MaxInputs
      /\ UNCHANGED <<jobs, report, ai, worker, clicks, stalled, regenerated>>
  BY Bounds DEF ChangeInputs, Inv, TypeOK
<1>2. TypeOK' /\ (Exists' <=> Exists) /\ (report.ai => Exists)'
  BY <1>1 DEF TypeOK, Inv, Exists
<1>3. \A k \in Kinds : RowOK(k, jobs[k])'
  BY <1>1, RowsAge
<1>4. QED
  BY <1>1, <1>2, <1>3, WorldStep DEF Inv

LEMMA SaveOtherReportPreserves == Inv /\ SaveOtherReport => Inv'
<1> SUFFICES ASSUME Inv, SaveOtherReport
             PROVE  Inv'
  OBVIOUS
<1>1. /\ TypeOK /\ pub \in Nat /\ inputs \in Nat
      /\ inputs' = inputs /\ pub' = pub + 1
      /\ UNCHANGED <<jobs, inputs, report, ai, worker, clicks, stalled, regenerated>>
  BY Bounds DEF SaveOtherReport, Inv, TypeOK
<1>2. TypeOK' /\ (Exists' <=> Exists) /\ (report.ai => Exists)'
  BY <1>1 DEF TypeOK, Inv, Exists
<1>3. \A k \in Kinds : RowOK(k, jobs[k])'
  BY <1>1, RowsAge
<1>4. QED
  BY <1>1, <1>2, <1>3, WorldStep DEF Inv

LEMMA RefreshContextPreserves == Inv /\ RefreshContext => Inv'
<1> SUFFICES ASSUME Inv, RefreshContext
             PROVE  Inv'
  OBVIOUS
<1>1. /\ TypeOK /\ pub \in Nat /\ inputs \in Nat
      /\ report' = [report EXCEPT !.revision = @ + 1] /\ Exists
      /\ UNCHANGED <<jobs, inputs, pub, ai, worker, clicks, stalled, regenerated>>
  BY DEF RefreshContext, Inv, TypeOK
<1>2. /\ report'.revision = report.revision + 1 /\ report'.facts = report.facts
      /\ report'.ai = report.ai /\ report'.policy = report.policy
  BY <1>1 DEF TypeOK
<1>3. TypeOK' /\ Exists'
  BY <1>1 DEF TypeOK, Exists
<1>4. \A k \in Kinds : RowOK(k, jobs[k])'
  BY <1>1, <1>2, <1>3 DEF Inv, RowOK, LaneRowOK, UserRowOK
<1>5. QED
  BY <1>1, <1>2, <1>3, <1>4, WorldStep DEF Inv

LEMMA ReconcilePreserves ==
    ASSUME Inv, NEW p \in Packets, NEW state \in {"answered", "error"}, Reconcile(p, state)
    PROVE  Inv'
<1>1. /\ TypeOK /\ pub \in Nat /\ inputs \in Nat /\ ai' = [ai EXCEPT ![p] = state]
      /\ UNCHANGED <<jobs, inputs, pub, report, worker, clicks, stalled, regenerated>>
  BY DEF Reconcile, Inv, TypeOK
<1>2. TypeOK' /\ (Exists' <=> Exists) /\ (report.ai => Exists)'
  BY <1>1 DEF TypeOK, Inv, Exists
<1>3. \A k \in Kinds : RowOK(k, jobs[k])'
  BY <1>1, <1>2 DEF Inv, RowOK, LaneRowOK, UserRowOK
<1>4. QED
  BY <1>1, <1>2, <1>3, WorldStep DEF Inv

LEMMA ExpirePreserves ==
    ASSUME Inv, NEW k \in Kinds \cup {Lock}, Expire(k)
    PROVE  Inv'
<1> DEFINE row == [jobs[k] EXCEPT !.until = Now]
<1>1. /\ TypeOK /\ pub \in Nat /\ inputs \in Nat /\ Put(k, row) /\ jobs[k].state = "active"
      /\ stalled' = stalled \cup {jobs[k].owner}
      /\ UNCHANGED <<inputs, pub, report, ai, worker, clicks, regenerated>>
  BY DEF Expire, Inv, TypeOK
<1>2. /\ row \in Rows /\ row.owner = jobs[k].owner /\ row.attempt = jobs[k].attempt
      /\ row.state = jobs[k].state /\ row.checkpoint = jobs[k].checkpoint
  BY WorldTypes DEF Rows
<1>3. jobs[k].owner \in Workers
  BY <1>1, WorldTypes DEF Inv, Rows
<1> HIDE DEF row
<1>4. /\ jobs' \in [Kinds \cup {Lock} -> Rows] /\ jobs'[k] = row
      /\ \A l \in Kinds \cup {Lock} : l # k => jobs'[l] = jobs[l]
  BY <1>1, <1>2, PutValue
<1>5. TypeOK' /\ (Exists' <=> Exists) /\ (report.ai => Exists)'
  BY <1>1, <1>3, <1>4 DEF TypeOK, Inv, Exists
<1>6. \A l \in Kinds : RowOK(l, jobs[l])'
  <2>1. ASSUME NEW l \in Kinds
        PROVE  RowOK(l, jobs[l])'
    <3>1. /\ jobs'[l].checkpoint = jobs[l].checkpoint /\ jobs'[l].state = jobs[l].state
          /\ RowOK(l, jobs[l])
      BY <1>2, <1>4 DEF Inv
    <3>2. LaneRowOK(jobs[l]) => LaneRowOK(jobs[l])'
      BY <1>1, <1>5, <3>1 DEF LaneRowOK
    <3>3. UserRowOK(jobs[l]) => UserRowOK(jobs[l])'
      BY <1>1, <1>5, <3>1 DEF UserRowOK
    <3>4. QED
      BY <3>1, <3>2, <3>3 DEF RowOK
  <2>2. QED
    BY <2>1
<1>7. QED
  BY <1>1, <1>2, <1>4, <1>5, <1>6, WorldStep DEF Inv

LEMMA EnqueuePreserves == Inv /\ Enqueue => Inv'
<1> SUFFICES ASSUME Inv, Enqueue
             PROVE  Inv'
  OBVIOUS
<1> DEFINE k == "regenerate"
           old == jobs[k].checkpoint
           nonce == IF Status(old) = "error" THEN Nonce(old) ELSE clicks + 1
           cp == Request(nonce, "queued")
           row == Queued(jobs[k], cp)
<1>1. /\ TypeOK /\ pub \in Nat /\ inputs \in Nat /\ k \in Kinds /\ Put(k, row) /\ Exists
      /\ clicks' = clicks + 1 /\ regenerated' = FALSE /\ clicks < MaxClicks
      /\ UNCHANGED <<inputs, pub, report, ai, worker, stalled>>
  BY DEF Enqueue, Inv, TypeOK
<1>2. nonce \in 0 .. MaxClicks /\ clicks' \in 0 .. MaxClicks
  BY <1>1, WorldTypes, CheckpointTypes, Bounds DEF TypeOK
<1>3. cp \in Checkpoints /\ Status(cp) = "queued"
  BY <1>2, CheckpointsMade, Fields DEF UserOutcomes
<1>4. cp.phase = "none"
  BY DEF Request
<1> HIDE DEF cp
<1>5. /\ row \in Rows /\ row.owner = NoOwner /\ row.checkpoint = cp /\ row.state = "released"
  BY <1>1, <1>3, WorldTypes DEF Queued, JobLease, Rows, JobStates, Now
<1> HIDE DEF row
<1>6. /\ jobs' \in [Kinds \cup {Lock} -> Rows] /\ jobs'[k] = row
      /\ \A l \in Kinds \cup {Lock} : l # k => jobs'[l] = jobs[l]
  BY <1>1, <1>5, PutValue
<1>7. TypeOK' /\ (Exists' <=> Exists) /\ (report.ai => Exists)'
  BY <1>1, <1>2, <1>6 DEF TypeOK, Inv, Exists
<1>8. \A l \in Kinds : RowOK(l, jobs[l])'
  <2>1. ASSUME NEW l \in Kinds, l # k
        PROVE  RowOK(l, jobs[l])'
    <3>1. jobs'[l] = jobs[l] /\ RowOK(l, jobs[l])
      BY <1>6, <2>1 DEF Inv
    <3>2. LaneRowOK(jobs[l]) => LaneRowOK(jobs[l])'
      BY <1>1, <1>7, <3>1 DEF LaneRowOK
    <3>3. QED
      BY <2>1, <3>1, <3>2 DEF RowOK
  <2>2. RowOK(k, jobs[k])'
    BY <1>1, <1>3, <1>4, <1>5, <1>6, <1>7 DEF RowOK, UserRowOK, Lane
  <2>3. QED
    BY <2>1, <2>2
<1>9. QED
  BY <1>1, <1>5, <1>6, <1>7, <1>8, WorldStep DEF Inv

-----------------------------------------------------------------------------
LEMMA InitInv == Init => Inv
<1> SUFFICES ASSUME Init
             PROVE  Inv
  OBVIOUS
<1> DEFINE first == JobLease(NoOwner, 1, 0, "released", Collected)
<1>1. /\ first \in Rows /\ AbsentRow \in Rows
      /\ first.state = "released" /\ first.checkpoint = Collected
      /\ AbsentRow.state = "absent" /\ AbsentRow.checkpoint = NoCheckpoint
  BY RecordTypes DEF JobLease, Rows, AbsentRow, JobStates, Now
<1>2. /\ \A k \in Kinds \cup {Lock} : jobs[k] \in {AbsentRow, first}
      /\ \A k \in Kinds \cup {Lock} : k \notin Lane => jobs[k] = AbsentRow
      /\ jobs \in [Kinds \cup {Lock} -> Rows]
  BY <1>1 DEF Init
<1>3. TypeOK
  <2>1. report \in [revision : Nat, facts : 0 .. MaxInputs, ai : BOOLEAN, policy : BOOLEAN]
    <3>1. MaxRevision + 1 \in Nat /\ 0 \in 0 .. MaxInputs
      BY BoundsAssumption
    <3>2. NoReport \in [revision : Nat, facts : 0 .. MaxInputs, ai : BOOLEAN, policy : BOOLEAN]
      BY <3>1 DEF NoReport
    <3>3. OlderReport \in [revision : Nat, facts : 0 .. MaxInputs, ai : BOOLEAN, policy : BOOLEAN]
      BY <3>1 DEF OlderReport
    <3>4. QED
      BY <3>2, <3>3 DEF Init
  <2>2. ai \in [Packets -> {"none", "unresolved", "answered", "error"}]
    BY DEF Init
  <2>3. worker \in [Workers -> WorkerStates]
    BY RecordTypes DEF Init
  <2>4. inputs = 0 /\ pub = 0 /\ clicks = 0 /\ stalled = {} /\ regenerated = FALSE
    BY DEF Init
  <2>5. inputs \in 0 .. MaxInputs /\ clicks \in 0 .. MaxClicks
    BY <2>4, Bounds
  <2>6. QED
    BY <1>2, <2>1, <2>2, <2>3, <2>4, <2>5 DEF TypeOK
<1>4. \A cp \in {Collected, NoCheckpoint} :
         /\ cp.fp = -1 /\ cp.phase # "saved" /\ Source(cp) = None /\ Prepared(cp) = NoPacket
         /\ Status(cp) = ""
  <2>1. /\ Collected.fp = -1 /\ Collected.phase # "saved"
        /\ NoCheckpoint.fp = -1 /\ NoCheckpoint.phase # "saved"
    BY DEF Collected, NoCheckpoint, NoFingerprint
  <2>2. QED
    BY <2>1, Fields
<1>5. ASSUME NEW k \in Kinds
      PROVE  RowOK(k, jobs[k])
  <2>1. jobs[k].checkpoint \in {Collected, NoCheckpoint} /\ jobs[k].state \in {"absent", "released"}
    BY <1>1, <1>2
  <2>2. inputs = 0
    BY DEF Init
  <2>3. LaneRowOK(jobs[k])
    <3>1. /\ jobs[k].checkpoint.fp = -1 /\ jobs[k].checkpoint.phase # "saved"
          /\ Source(jobs[k].checkpoint) = None /\ Prepared(jobs[k].checkpoint) = NoPacket
      BY <1>4, <2>1
    <3>2. jobs[k].checkpoint.fp <= inputs
      BY <2>2, <3>1
    <3>3. QED
      BY <2>1, <3>1, <3>2 DEF LaneRowOK
  <2>4. k = "regenerate" => jobs[k].state = "absent"
    BY <1>1, <1>2 DEF Lane
  <2>5. k = "regenerate" => UserRowOK(jobs[k])
    BY <1>4, <2>1, <2>4 DEF UserRowOK
  <2>6. QED
    BY <2>3, <2>5 DEF RowOK
<1>6. ASSUME NEW w \in Workers
      PROVE  WorkerOK(w)
  <2>1. worker[w].step = "idle" /\ worker[w].kind = ""
    BY DEF Init, Idle
  <2>2. QED
    BY <2>1 DEF WorkerOK, Roles, Resumed, Reads, Computed, Carries, Keeps, FirstOnly, Asking, Kind, At
<1>7. \A k \in Kinds \cup {Lock} : jobs[k].state # "active"
  BY <1>1, <1>2
<1>8. report.ai => Exists
  BY BoundsAssumption DEF Init, NoReport, OlderReport, Exists
<1>9. QED
  BY <1>3, <1>5, <1>6, <1>7, <1>8 DEF Inv

LEMMA StepPreserves ==
    ASSUME Inv, NEW w \in Workers, Step(w)
    PROVE  Inv'
BY StartPreserves, ReusePreserves, ReopenPreserves, StartRegenerationPreserves, AcquireLockPreserves,
   BeginPhasePreserves, SnapshotPreserves, BeginRegenerationPreserves, MarkPreserves,
   PreviousPreserves, ReadFactsPreserves, CheckFactsPreserves, AskForAIPreserves,
   ReceiveAIPreserves, HandOffPreserves, DeferAIPreserves, ReadRevisionPreserves,
   SavePreserves, CompleteJobPreserves, UnlockPreserves, WriteOutcomePreserves,
   FinishRequestPreserves, ReleaseJobPreserves, CrashPreserves DEF Step

LEMMA StutterPreserves == Inv /\ UNCHANGED vars => Inv'
BY DEF vars, Inv, TypeOK, Interpreted, Declines, Exists, RowOK, LaneRowOK, UserRowOK, WorkerOK, Roles, Resumed, Reads,
   Computed, Carries, Keeps, FirstOnly, Asking, Kind, At, HasRow, HasLock

LEMMA NextInv == Inv /\ [Next]_vars => Inv'
<1> SUFFICES ASSUME Inv, [Next]_vars
             PROVE  Inv'
  OBVIOUS
<1>1. ASSUME NEW w \in Workers, Step(w)
      PROVE  Inv'
  BY <1>1, StepPreserves
<1>2. ASSUME NEW k \in DOMAIN jobs, Expire(k)
      PROVE  Inv'
  BY <1>2, ExpirePreserves DEF Inv, TypeOK
<1>3. QED
  BY <1>1, <1>2, EnqueuePreserves, ChangeInputsPreserves, SaveOtherReportPreserves,
     RefreshContextPreserves, ReconcilePreserves, StutterPreserves DEF Next

(* The inductive invariant holds of every reachable state.                 *)
THEOREM Invariance == Spec => []Inv
<1>1. QED
  BY InitInv, NextInv, PTL DEF Spec

-----------------------------------------------------------------------------
(* What follows.                                                           *)

(* Rows, checkpoints, invocations, report and ledger keep their types.     *)
THEOREM TypeCorrect == Spec => []TypeOK
<1>1. Inv => TypeOK
  BY DEF Inv
<1>2. QED
  BY Invariance, <1>1, PTL

(* A finished report job stands for a stored report, however many          *)
(* invocations worked on it and died (report_jobs.py:_complete).           *)
THEOREM DoneIsSaved == Spec => []DoneMeansSaved
<1>1. Inv => DoneMeansSaved
  BY DEF Inv, RowOK, LaneRowOK, DoneMeansSaved
<1>2. QED
  BY Invariance, <1>1, PTL

(* A result that is reused was computed from the present inputs            *)
(* (report_jobs.py:_run, _advance).                                        *)
THEOREM FreshReuse == Spec => []ReuseIsFresh
<1>1. Inv => ReuseIsFresh
  BY DEF Inv, RowOK, LaneRowOK, ReuseIsFresh
<1>2. QED
  BY Invariance, <1>1, PTL

(* Success is shown only for a regeneration committed since the click      *)
(* (user_jobs.py:drain).                                                   *)
THEOREM HonestSuccess == Spec => []SuccessIsReal
<1>1. Inv => SuccessIsReal
  BY DEF Inv, RowOK, UserRowOK, SuccessIsReal
<1>2. QED
  BY Invariance, <1>1, PTL

\* What a step may do to the stored report: nothing, or a save or a refresh.
LEMMA Saves ==
    ASSUME Inv, NEW w \in Workers, Save(w)
    PROVE  \/ UNCHANGED <<inputs, report>>
           \/ /\ MaySave(w) /\ At(w, "save") /\ UNCHANGED inputs /\ worker'[w].step # "save"
              /\ report' = [revision |-> report.revision + 1, facts |-> inputs,
                            ai |-> worker[w].interp \in {"kept", "bought"},
                            policy |-> TRUE]
<1>1. CASE MaySave(w)
  <2>1. Working(w) /\ worker[w] \in WorkerStates
    BY Types DEF Save, At, Working
  <2>2. ASSUME Goto(w, "complete")
        PROVE  worker'[w].step # "save"
    <3>1. worker'[w] = [worker[w] EXCEPT !.step = "complete"]
      BY <2>2, GotoValue DEF Steps
    <3>2. QED
      BY <2>1, <3>1 DEF WorkerStates
  <2>3. ASSUME NEW outcome \in {"success", "error"}, Leave(w, outcome)
        PROVE  worker'[w].step # "save"
    <3>1. worker'[w].step = "unlock"
      BY <2>1, <2>3, LeaveValue DEF Outcomes
    <3>2. QED
      BY <3>1
  <2>4. Goto(w, "complete") \/ Leave(w, "success") \/ Leave(w, "error")
    BY <1>1 DEF Save, Fail
  <2>5. worker'[w].step # "save"
    BY <2>2, <2>3, <2>4
  <2>6. QED
    BY <1>1, <2>5, SaveFacts DEF Save
<1>2. CASE ~MaySave(w)
  BY <1>2 DEF Save
<1>3. QED
  BY <1>1, <1>2

LEMMA OtherSteps ==
    ASSUME NEW w \in Workers, Step(w), ~Save(w)
    PROVE  UNCHANGED <<inputs, report>>
BY DEF Step, Start, Reuse, Reopen, StartRegeneration, AcquireLock, BeginPhase, Snapshot,
   BeginRegeneration, Mark, Previous, ReadFacts, CheckFacts, AskForAI, ReceiveAI, HandOff, DeferAI,
   ReadRevision, CompleteJob, Unlock, WriteOutcome, FinishRequest, ReleaseJob, Crash, world

LEMMA ReportSteps ==
    ASSUME Inv, [Next]_vars
    PROVE  \/ UNCHANGED <<inputs, report>>
           \/ \E w \in Workers :
                 /\ MaySave(w) /\ At(w, "save") /\ UNCHANGED inputs /\ worker'[w].step # "save"
                 /\ report' = [revision |-> report.revision + 1, facts |-> inputs,
                               ai |-> worker[w].interp \in {"kept", "bought"},
                               policy |-> TRUE]
           \/ RefreshContext \/ ChangeInputs
<1>1. ASSUME NEW w \in Workers, Step(w)
      PROVE  \/ UNCHANGED <<inputs, report>>
             \/ /\ MaySave(w) /\ At(w, "save") /\ UNCHANGED inputs /\ worker'[w].step # "save"
                /\ report' = [revision |-> report.revision + 1, facts |-> inputs,
                              ai |-> worker[w].interp \in {"kept", "bought"},
                              policy |-> TRUE]
  BY <1>1, Saves, OtherSteps
<1>2. CASE Enqueue \/ SaveOtherReport \/ UNCHANGED vars
  BY <1>2 DEF Enqueue, SaveOtherReport, vars
<1>3. CASE \E k \in DOMAIN jobs : Expire(k)
  BY <1>3 DEF Expire
<1>4. CASE \E p \in Packets, state \in {"answered", "error"} : Reconcile(p, state)
  BY <1>4 DEF Reconcile
<1>5. QED
  BY <1>1, <1>2, <1>3, <1>4 DEF Next

(* Every save is atomic: the stored report is a register whose versions    *)
(* are computed from the inputs of the moment of their commit, although    *)
(* they are read table by table long before (reports.py:save_report).      *)
THEOREM Implements == Spec => ImplementsRegister
<1>1. Init => Register!Init
  BY BoundsAssumption DEF Init, Register!Init, NoReport, OlderReport
<1>2. ASSUME Inv, [Next]_vars
      PROVE  [Register!Next]_(Register!vars)
  <2>1. CASE UNCHANGED <<inputs, report>>
    BY <2>1 DEF Register!vars
  <2>2. CASE \E w \in Workers :
                /\ UNCHANGED inputs
                /\ report' = [revision |-> report.revision + 1, facts |-> inputs,
                              ai |-> worker[w].interp \in {"kept", "bought"},
                              policy |-> TRUE]
    BY <2>2 DEF Register!Next, Register!Commit
  <2>3. CASE RefreshContext
    <3>1. report'.revision = report.revision + 1 /\ report'.facts = report.facts /\ UNCHANGED inputs
      BY <1>2, <2>3 DEF RefreshContext, Inv, TypeOK
    <3>2. report.revision > 0
      BY <2>3 DEF RefreshContext, Exists
    <3>3. QED
      BY <3>1, <3>2 DEF Register!Next, Register!Refresh
  <2>4. CASE ChangeInputs
    BY <2>4 DEF ChangeInputs, Register!Next, Register!ChangeInputs
  <2>5. QED
    BY <1>2, <2>1, <2>2, <2>3, <2>4, ReportSteps
<1>3. QED
  BY <1>1, <1>2, Invariance, PTL DEF Spec, ImplementsRegister, Register!Spec

(* An interpretation made under the present policy is lost to no failure,  *)
(* refused purchase or other lane: a save that replaces it by none is that *)
(* of a regeneration or a requested run that did not ask for one           *)
(* (report_jobs.py:_advance, analysis.py:_analyze).                        *)
THEOREM KeepsInterpretation == Spec => InterpretationKept
<1>1. ASSUME Inv, [Next]_vars, report.ai, report.policy, ~report'.ai
      PROVE  \E w \in Workers : DeclinedAI(w)
  <2>1. ~UNCHANGED report
    BY <1>1
  <2>2. ~RefreshContext
    <3>1. SUFFICES ASSUME RefreshContext
                   PROVE  FALSE
      OBVIOUS
    <3>2. report'.ai = report.ai
      BY <1>1, <3>1 DEF RefreshContext, Inv, TypeOK
    <3>3. QED
      BY <1>1, <3>2, Zenon
  <2>3. PICK w \in Workers :
           /\ MaySave(w) /\ At(w, "save") /\ worker'[w].step # "save"
           /\ report' = [revision |-> report.revision + 1, facts |-> inputs,
                         ai |-> worker[w].interp \in {"kept", "bought"},
                         policy |-> TRUE]
    BY <1>1, <2>1, <2>2, ReportSteps DEF ChangeInputs
  <2>4. worker[w].interp \notin {"kept", "bought"}
    <3>1. report'.ai = (worker[w].interp \in {"kept", "bought"})
      BY <2>3
    <3>2. QED
      BY <1>1, <3>1, Zenon
  <2>5. WorkerOK(w)
    BY <1>1 DEF Inv
  <2>6. HasLock(w)
    BY <2>3 DEF MaySave, OwnsLock, OwnedActive, HasLock
  <2>7. Declines(w)
    BY <1>1, <2>3, <2>4, <2>5, <2>6 DEF WorkerOK, Keeps, Interpreted, At
  <2>8. DeclinedAI(w)
    BY <2>3, <2>7 DEF Declines, DeclinedAI
  <2>9. QED
    BY <2>8
<1>2. Inv /\ [Next]_vars =>
        [report.ai /\ report.policy /\ ~report'.ai => \E w \in Workers : DeclinedAI(w)]_vars
  BY <1>1
<1>3. QED
  BY <1>2, Invariance, PTL DEF Spec, InterpretationKept

\* A step of one invocation is none of another one's.
LEMMA OnlyOwn ==
    ASSUME Inv, NEW w \in Workers, NEW v \in Workers, v # w, Step(v)
    PROVE  worker'[w] = worker[w]
<1> USE DEF Inv, TypeOK
<1>1. ASSUME NEW next, worker' = [worker EXCEPT ![v] = next]
      PROVE  worker'[w] = worker[w]
  BY <1>1
<1>2. \A step : Goto(v, step) => worker'[w] = worker[w]
  BY DEF Goto
<1>3. \A outcome : Leave(v, outcome) => worker'[w] = worker[w]
  BY DEF Leave
<1>4. \A cp, step : Write(v, cp, step) => worker'[w] = worker[w]
  BY <1>2, <1>3 DEF Write, Fail
<1>5. (Answered(v) => worker'[w] = worker[w]) /\ (Refused(v) => worker'[w] = worker[w])
  BY <1>2, <1>3 DEF Answered, Refused, Fail
<1>6. (\E k \in Kinds : Start(v, k)) => worker'[w] = worker[w]
  BY DEF Start
<1>7. Reuse(v) \/ Reopen(v) \/ StartRegeneration(v) => worker'[w] = worker[w]
  BY DEF Reuse, Reopen, StartRegeneration
<1>8. AcquireLock(v) \/ Snapshot(v) \/ ReadFacts(v) => worker'[w] = worker[w]
  BY <1>2 DEF AcquireLock, Snapshot, ReadFacts
<1>9. BeginPhase(v) \/ BeginRegeneration(v) \/ Mark(v) => worker'[w] = worker[w]
  BY <1>2, <1>3, <1>4 DEF BeginPhase, BeginRegeneration, Mark
<1>10. Previous(v) \/ CheckFacts(v) \/ ReadRevision(v) => worker'[w] = worker[w]
  BY <1>3 DEF Previous, CheckFacts, ReadRevision, Fail
<1>11. AskForAI(v) \/ ReceiveAI(v) \/ HandOff(v) \/ DeferAI(v) => worker'[w] = worker[w]
  BY <1>2, <1>3, <1>4, <1>5 DEF AskForAI, ReceiveAI, HandOff, DeferAI
<1>12. Save(v) \/ CompleteJob(v) \/ Unlock(v) => worker'[w] = worker[w]
  BY <1>2, <1>3 DEF Save, CompleteJob, Unlock, Fail
<1>13. WriteOutcome(v) \/ FinishRequest(v) \/ ReleaseJob(v) \/ Crash(v) => worker'[w] = worker[w]
  BY <1>2 DEF WriteOutcome, FinishRequest, ReleaseJob, Crash
<1>14. QED
  BY <1>6, <1>7, <1>8, <1>9, <1>10, <1>11, <1>12, <1>13 DEF Step

\* From the gate to the wait there is one way, and it asks for both leases.
LEMMA Dispatches ==
    ASSUME Inv, NEW w \in Workers, Step(w), At(w, "buy"), worker'[w].step = "awaiting"
    PROVE  Owns(w)
<1>1. AskForAI(w) \/ Crash(w)
  BY DEF Step, At, Start, Reuse, Reopen, StartRegeneration, AcquireLock, BeginPhase, Snapshot,
     BeginRegeneration, Mark, Previous, ReadFacts, CheckFacts, ReceiveAI, HandOff, DeferAI,
     ReadRevision, Save, CompleteJob, Unlock, WriteOutcome, FinishRequest, ReleaseJob
<1>2. ASSUME NEW step \in Steps, Goto(w, step)
      PROVE  worker'[w].step = step
  <2>1. worker'[w] = [worker[w] EXCEPT !.step = step]
    BY <1>2, GotoValue
  <2>2. worker[w] \in WorkerStates
    BY Types
  <2>3. QED
    BY <2>1, <2>2 DEF WorkerStates
<1>3. ~Crash(w)
  <2>1. SUFFICES ASSUME Crash(w)
                 PROVE  FALSE
    OBVIOUS
  <2>2. worker' = [worker EXCEPT ![w] = Gone] /\ TypeOK
    BY <2>1 DEF Crash, Inv
  <2>3. worker'[w] = Gone
    BY <2>2, RecordTypes, MoveValue
  <2>4. QED
    BY <2>3 DEF Gone, Idle
<1>4. Working(w)
  BY DEF At, Working
<1>5. ~Leave(w, "reconciliation_required") /\ ~Fail(w)
  BY <1>4, LeaveValue DEF Outcomes, Fail
<1>6. ~Answered(w) /\ ~Refused(w)
  <2>1. ~Goto(w, "handoff")
    BY <1>2 DEF Steps
  <2>2. ASSUME NEW i, worker' = [worker EXCEPT ![w].step = "revision", ![w].interp = i]
        PROVE  FALSE
    <3>1. worker'[w].step = "revision"
      BY <2>2, Types DEF Inv, TypeOK, WorkerStates
    <3>2. QED
      BY <3>1
  <2>3. QED
    BY <1>5, <2>1, <2>2 DEF Answered, Refused
<1>7. ~Goto(w, "defer")
  BY <1>2 DEF Steps
<1>8. QED
  BY <1>1, <1>3, <1>5, <1>6, <1>7 DEF AskForAI, Timely

(* A scheduled run buys nothing for a report that is stored, even if it    *)
(* began before the save of the run that took its lease over.  The         *)
(* hypothesis is needed: a requested run of the same period, with a job    *)
(* row of its own, may store the report after the scheduled run has looked *)
(* for it (report_jobs.py:441).                                            *)
THEOREM NeverBoughtAgain ==
    ASSUME "requested" \notin Kinds
    PROVE  Spec => NoPurchaseAfterSave
<1>1. ASSUME Inv, [Next]_vars, NEW w \in Workers,
             At(w, "buy"), worker'[w].step = "awaiting", Kind(w) = "scheduled"
      PROVE  ~Exists
  <2>1. worker'[w] # worker[w]
    BY <1>1 DEF At
  <2>2. PICK v \in Workers : Step(v)
    <3>1. ~UNCHANGED worker
      BY <2>1
    <3>2. QED
      BY <1>1, <3>1 DEF Next, vars, Enqueue, ChangeInputs, SaveOtherReport, RefreshContext, Expire, Reconcile
  <2>3. v = w
    BY <1>1, <2>1, <2>2, OnlyOwn
  <2>4. Owns(w)
    BY <1>1, <2>2, <2>3, Dispatches
  <2>5. HasRow(w)
    BY <1>1, <2>4, OwnsHasRow DEF At, Working
  <2>6. QED
    BY <1>1, <2>5 DEF Inv, WorkerOK, FirstOnly, Asking, At
<1>2. Inv /\ [Next]_vars =>
        [\A w \in Workers :
            At(w, "buy") /\ worker'[w].step = "awaiting" /\ Kind(w) = "scheduled" => ~Exists]_vars
  BY <1>1
<1>3. QED
  BY <1>2, Invariance, PTL DEF Spec, NoPurchaseAfterSave
=============================================================================
