--------------------------- MODULE UserQueueProofs ---------------------------
(***************************************************************************)
(* A request of the user keeps the identity of its paid call, and is not   *)
(* bought again once its report is stored: proofs about cloud/user_jobs.py *)
(* for any number of keys, callers, clicks, late calls and crashes.        *)
(*                                                                         *)
(* The invariant has three parts: what a request's row says is true of     *)
(* what was stored (Truthful); a call knows what it is at (Engaged); and a *)
(* call that has the lease of its row has in hand what the row says        *)
(* (Agrees).  Of a call that lost its lease nothing is said: the fences of *)
(* the row's writers refuse it.                                            *)
(***************************************************************************)
EXTENDS UserQueue, WellFoundedInduction, TLAPS

Calls == [step : Steps, todo : SUBSET (DOMAIN Keys), results : 0 .. MaxJobs,
          pay : Requests, out : Statuses]
States == {"absent", "released", "active", "done"}
Rows == [state : States, holder : Workers \cup {Nobody}, request : Requests]

Types ==
    /\ rows \in [KeySet -> Rows]
    /\ heavy \in Workers \cup {Nobody, Other}
    /\ drain \in [Workers -> Calls]
    /\ open \in [Reports -> 0 .. MaxClicks]
    /\ stored \subseteq Reports \X (1 .. MaxClicks)
    /\ clicks \in [KeySet -> 0 .. MaxClicks]
    /\ stalls \in 0 .. MaxStalls /\ crashes \in 0 .. MaxCrashes

\* What the row of a report says of its request.
Truthful(r, row, past, count) ==
    /\ row.request.nonce <= count
    /\ \A n \in 1 .. MaxClicks : <<r, n>> \in past => n <= count
    /\ row.request.saved <=> <<r, row.request.nonce>> \in past
    /\ row.request.status = "success" => row.request.nonce = NoNonce
    /\ row.state = "absent" => row.request.nonce = NoNonce
    /\ row.state = "done" => row.request.status \in {"success", "error"}

AtWork == {"run", "ask", "answer", "save", "write", "complete", "release"}

Engaged(call) ==
    /\ call.step \in AtWork => call.todo # {}
    /\ call.step \in AtWork \ {"complete", "release"} => call.results < MaxJobs
    /\ call.step \in {"ask", "answer", "save"} => Keys[Min(call.todo)] \in Reports
    /\ call.step \in {"answer", "save"} => call.pay.nonce # NoNonce

\* A call that has the lease of the row of report r.
Agrees(call, r, request, past) ==
    /\ call.step = "run" => request = call.pay
    /\ call.step \in {"ask", "answer", "save"} => request.nonce = call.pay.nonce /\ ~request.saved
    /\ call.step = "write" =>
          /\ request.nonce = call.pay.nonce
          /\ call.out = "success" => <<r, call.pay.nonce>> \in past
          /\ call.out \notin {"success", "error"} => ~request.saved
    /\ call.step = "complete" => request.status \in {"success", "error"}

Inv ==
    /\ Types
    /\ \A r \in Reports : Truthful(r, rows[r], stored, clicks[r])
    /\ \A w \in Workers : Engaged(drain[w])
    /\ \A w \in Workers : drain[w].step \in AtWork /\ Key(w) \in Reports /\ Holds(w) =>
          Agrees(drain[w], Key(w), rows[Key(w)].request, stored)

-----------------------------------------------------------------------------
(* Numbers and keys.                                                       *)

LEMMA MinOf ==
    ASSUME NEW S \in SUBSET Nat, S # {}
    PROVE  Min(S) \in S
<1>1. \E x \in S : \A y \in S : <<y, x>> \notin OpToRel(<, Nat)
  BY NatLessThanWellFounded, WFMin
<1>2. \A x, y \in Nat : <<y, x>> \notin OpToRel(<, Nat) => x <= y
  BY DEF OpToRel
<1>3. \E x \in S : \A y \in S : x <= y
  BY <1>1, <1>2
<1>4. QED
  BY <1>3 DEF Min

\* The key a call is at is a key.
LEMMA KeyIsKey ==
    ASSUME NEW todo \in SUBSET (DOMAIN Keys), todo # {}
    PROVE  Min(todo) \in todo /\ Keys[Min(todo)] \in KeySet
<1>1. DOMAIN Keys \subseteq Nat
  BY KeysAssumption
<1>2. Min(todo) \in DOMAIN Keys /\ Min(todo) \in todo
  BY <1>1, MinOf
<1>3. QED
  BY <1>2 DEF KeySet, Range

-----------------------------------------------------------------------------
(* A step of one call disturbs no other one.                               *)

\* The rows stay, and what has been stored; the call goes on.
LEMMA GoesOn ==
    ASSUME Inv, NEW w \in Workers, NEW call \in Calls,
           drain' = [drain EXCEPT ![w] = call],
           rows' = rows, stored' = stored, clicks' = clicks,
           heavy' \in Workers \cup {Nobody, Other}, open' \in [Reports -> 0 .. MaxClicks],
           stalls' \in 0 .. MaxStalls, crashes' \in 0 .. MaxCrashes,
           Engaged(call),
           call.step \in AtWork =>
               /\ call.todo = drain[w].todo
               /\ Key(w) \in Reports /\ Holds(w) => Agrees(call, Key(w), rows[Key(w)].request, stored)
    PROVE  Inv'
<1> USE DEF Inv
<1>1. Types'
  BY DEF Types
<1>2. \A v \in Workers : drain'[v] = IF v = w THEN call ELSE drain[v]
  BY DEF Types
<1>3. ASSUME NEW v \in Workers PROVE Engaged(drain'[v])
  BY <1>2
<1>4. ASSUME NEW v \in Workers, drain'[v].step \in AtWork, Keys[Min(drain'[v].todo)] \in Reports,
             rows[Keys[Min(drain'[v].todo)]].state = "active",
             rows[Keys[Min(drain'[v].todo)]].holder = v
      PROVE  Agrees(drain'[v], Keys[Min(drain'[v].todo)], rows[Keys[Min(drain'[v].todo)]].request, stored)
  <2>1. CASE v = w
    BY <1>2, <1>4, <2>1 DEF Key, Holds
  <2>2. CASE v # w
    BY <1>2, <1>4, <2>2 DEF Key, Holds
  <2>3. QED
    BY <2>1, <2>2
<1>5. QED
  BY <1>1, <1>3, <1>4 DEF Key, Holds

\* Others do not hold the row that is written, and their rows stay.
LEMMA Writes ==
    ASSUME Inv, NEW w \in Workers, NEW k \in KeySet, NEW call \in Calls, NEW row \in Rows,
           drain' = [drain EXCEPT ![w] = call], rows' = [rows EXCEPT ![k] = row],
           row.holder \in {w, Nobody}, clicks' = clicks,
           stored' \subseteq Reports \X (1 .. MaxClicks),
           \A r \in Reports \ {k}, n \in 0 .. MaxClicks : <<r, n>> \in stored' <=> <<r, n>> \in stored,
           UNCHANGED <<heavy, open, stalls, crashes>>,
           k \in Reports => Truthful(k, row, stored', clicks[k]),
           Engaged(call),
           call.step \in AtWork =>
               /\ Keys[Min(call.todo)] = k
               /\ k \in Reports /\ row.state = "active" /\ row.holder = w => Agrees(call, k, row.request, stored')
    PROVE  Inv'
<1> USE DEF Inv
<1>0. Nobody \notin Workers
  BY WorkersAssumption
<1>1. Types'
  BY DEF Types
<1>2. /\ \A v \in Workers : drain'[v] = IF v = w THEN call ELSE drain[v]
      /\ \A key \in KeySet : rows'[key] = IF key = k THEN row ELSE rows[key]
  BY DEF Types
<1>3. ASSUME NEW v \in Workers PROVE Engaged(drain'[v])
  BY <1>2
<1>4. ASSUME NEW r \in Reports PROVE Truthful(r, rows'[r], stored', clicks[r])
  <2>1. CASE r = k
    BY <1>2, <2>1 DEF Reports
  <2>2. CASE r # k
    <3>1. rows'[r] = rows[r] /\ Truthful(r, rows[r], stored, clicks[r])
      BY <1>2, <2>2 DEF Reports
    <3>2. rows[r].request.nonce \in 0 .. MaxClicks
      BY DEF Types, Rows, Requests, Reports
    <3>3. QED
      BY <2>2, <3>1, <3>2 DEF Truthful
  <2>3. QED
    BY <2>1, <2>2
<1>5. ASSUME NEW v \in Workers, drain'[v].step \in AtWork, Keys[Min(drain'[v].todo)] \in Reports,
             rows'[Keys[Min(drain'[v].todo)]].state = "active",
             rows'[Keys[Min(drain'[v].todo)]].holder = v
      PROVE  Agrees(drain'[v], Keys[Min(drain'[v].todo)], rows'[Keys[Min(drain'[v].todo)]].request, stored')
  <2>1. CASE v = w
    BY <1>2, <1>5, <2>1
  <2>2. CASE v # w
    <3>1. drain'[v] = drain[v] /\ Keys[Min(drain[v].todo)] \in KeySet
      BY <1>2, <1>5, <2>2 DEF Reports
    <3>2. Key(v) # k
      BY <1>0, <1>2, <1>5, <2>2, <3>1 DEF Key
    <3>3. rows'[Key(v)] = rows[Key(v)] /\ Agrees(drain[v], Key(v), rows[Key(v)].request, stored)
      BY <1>2, <1>5, <3>1, <3>2 DEF Key, Holds
    <3>4. drain[v].pay.nonce \in 0 .. MaxClicks
      BY DEF Types, Calls, Requests
    <3>5. <<Key(v), drain[v].pay.nonce>> \in stored' <=> <<Key(v), drain[v].pay.nonce>> \in stored
      BY <1>5, <3>1, <3>2, <3>4 DEF Key
    <3>6. QED
      BY <3>1, <3>3, <3>5 DEF Key, Agrees
  <2>3. QED
    BY <2>1, <2>2
<1>6. QED
  BY <1>1, <1>3, <1>4, <1>5 DEF Key, Holds

\* A row changes that nobody holds afterwards, and no call does.
LEMMA Frees ==
    ASSUME Inv, NEW k \in KeySet, NEW row \in Rows, NEW count \in 0 .. MaxClicks,
           rows' = [rows EXCEPT ![k] = row], row.holder = Nobody,
           clicks' = [clicks EXCEPT ![k] = count], stalls' \in 0 .. MaxStalls,
           UNCHANGED <<heavy, drain, open, stored, crashes>>,
           k \in Reports => Truthful(k, row, stored, count)
    PROVE  Inv'
<1> USE DEF Inv
<1>0. Nobody \notin Workers
  BY WorkersAssumption
<1>1. Types'
  BY DEF Types
<1>2. /\ \A key \in KeySet : rows'[key] = IF key = k THEN row ELSE rows[key]
      /\ \A key \in KeySet : clicks'[key] = IF key = k THEN count ELSE clicks[key]
  BY DEF Types
<1>4. ASSUME NEW r \in Reports PROVE Truthful(r, rows'[r], stored', clicks'[r])
  BY <1>2 DEF Reports
<1>5. ASSUME NEW v \in Workers, drain[v].step \in AtWork, Keys[Min(drain[v].todo)] \in Reports,
             rows'[Keys[Min(drain[v].todo)]].state = "active",
             rows'[Keys[Min(drain[v].todo)]].holder = v
      PROVE  Agrees(drain[v], Keys[Min(drain[v].todo)], rows'[Keys[Min(drain[v].todo)]].request, stored)
  <2>1. Key(v) \in KeySet /\ Key(v) # k
    BY <1>0, <1>2, <1>5 DEF Key, Reports
  <2>2. QED
    BY <1>2, <1>5, <2>1 DEF Key, Holds
<1>6. QED
  BY <1>1, <1>4, <1>5 DEF Key, Holds

-----------------------------------------------------------------------------
(* The steps.                                                              *)

LEMMA Bounds ==
    /\ MaxJobs \in Nat \ {0} /\ MaxScan \in Nat /\ MaxClicks \in Nat /\ MaxStalls \in Nat /\ MaxCrashes \in Nat
    /\ NoRequest \in Requests /\ Idle \in Calls
<1>1. MaxJobs \in Nat \ {0} /\ MaxScan \in Nat /\ MaxClicks \in Nat /\ MaxStalls \in Nat /\ MaxCrashes \in Nat
  BY LimitsAssumption
<1>2. NoRequest \in Requests
  BY <1>1 DEF NoRequest, Requests, Statuses, NoNonce
<1>3. Idle \in Calls
  BY <1>1, <1>2 DEF Idle, Calls, Steps, Statuses
<1>4. QED
  BY <1>1, <1>2, <1>3

LEMMA InitInv == Init => Inv
<1> SUFFICES ASSUME Init PROVE Inv
  OBVIOUS
<1>1. Row("absent", Nobody, NoRequest) \in Rows
  BY Bounds DEF Rows, Row, States
<1>2. stored \subseteq Reports \X (1 .. MaxClicks)
  BY DEF Init
<1>3. Types
  <2>1. rows \in [KeySet -> Rows] /\ drain \in [Workers -> Calls]
    BY <1>1, Bounds DEF Init
  <2>2. open \in [Reports -> 0 .. MaxClicks] /\ clicks \in [KeySet -> 0 .. MaxClicks]
    BY Bounds DEF Init, NoNonce
  <2>3. QED
    BY <1>2, <2>1, <2>2, Bounds DEF Init, Types
<1>4. \A r \in Reports : Truthful(r, rows[r], stored, clicks[r])
  <2>1. NoRequest.saved = FALSE /\ NoRequest.nonce = 0 /\ NoRequest.status = ""
    BY DEF NoRequest, NoNonce
  <2>2. ASSUME NEW r \in Reports
        PROVE  rows[r].state = "absent" /\ rows[r].request = NoRequest /\ clicks[r] = 0 /\ stored = {}
    BY DEF Init, Row, Reports
  <2>3. ASSUME NEW r \in Reports
        PROVE  rows[r].request.saved <=> <<r, rows[r].request.nonce>> \in stored
    BY <2>1, <2>2
  <2>4. ASSUME NEW r \in Reports
        PROVE  /\ rows[r].request.nonce = 0 /\ rows[r].request.status = ""
               /\ rows[r].state = "absent" /\ clicks[r] = 0 /\ stored = {}
    BY <2>1, <2>2
  <2>5. ASSUME NEW r \in Reports PROVE Truthful(r, rows[r], stored, clicks[r])
    <3>1. 0 <= 0
      OBVIOUS
    <3>2. rows[r].request.nonce = NoNonce
      BY <2>4 DEF NoNonce
    <3>3. rows[r].request.nonce <= clicks[r]
      BY <2>4, <3>1, Zenon
    <3>4. \A n \in 1 .. MaxClicks : <<r, n>> \in stored => n <= clicks[r]
      BY <2>4, Zenon
    <3>5. rows[r].state # "done" /\ rows[r].request.status # "success"
      BY <2>4
    <3>6. rows[r].request.saved <=> <<r, rows[r].request.nonce>> \in stored
      BY <2>3
    <3>7. QED
      BY <3>2, <3>3, <3>4, <3>5, <3>6, Zenon DEF Truthful
  <2>6. QED
    BY <2>5
<1>5. \A w \in Workers : drain[w].step = "idle"
  BY DEF Init, Idle
<1>6. QED
  BY <1>3, <1>4, <1>5 DEF Inv, Engaged, AtWork

LEMMA ScanInv == ASSUME Inv, NEW w \in Workers, Scan(w) PROVE Inv'
<1> DEFINE call == [Idle EXCEPT !.step = "look", !.todo = PendingKeys]
<1>1. PendingKeys \in SUBSET (DOMAIN Keys)
  BY DEF PendingKeys
<1>2. call \in Calls
  BY <1>1, Bounds DEF Calls, Steps
<1>3. call.step = "look"
  BY DEF Idle
<1>4. Engaged(call)
  BY <1>3 DEF Engaged, AtWork
<1>5. drain' = [drain EXCEPT ![w] = call]
  BY DEF Scan
<1> HIDE DEF call
<1>6. QED
  BY <1>2, <1>3, <1>4, <1>5, GoesOn DEF Scan, AtWork, Inv, Types

\* A call without a key at work.
LEMMA Rests ==
    ASSUME Inv, NEW w \in Workers, NEW call \in Calls, call.step \notin AtWork,
           drain' = [drain EXCEPT ![w] = call], UNCHANGED <<rows, open, stored, clicks, stalls>>,
           heavy' \in Workers \cup {Nobody, Other}, crashes' \in 0 .. MaxCrashes
    PROVE  Inv'
<1>1. Engaged(call)
  BY DEF Engaged, AtWork
<1>2. QED
  BY <1>1, GoesOn DEF Inv, Types

LEMMA NextCall ==
    ASSUME Inv, NEW w \in Workers
    PROVE  [drain[w] EXCEPT !.step = "look", !.todo = @ \ {Min(@)}, !.pay = NoRequest, !.out = ""] \in Calls
<1>1. drain[w] \in Calls
  BY DEF Inv, Types
<1>2. QED
  BY <1>1, Bounds DEF Calls, Steps, Statuses

LEMMA LeftCall == [Idle EXCEPT !.step = "leave"] \in Calls /\ Idle \in Calls
BY Bounds DEF Calls, Steps

LEMMA SkipInv == ASSUME Inv, NEW w \in Workers, Skip(w) PROVE Inv'
<1> DEFINE call == [drain[w] EXCEPT !.step = "look", !.todo = @ \ {Min(@)}, !.pay = NoRequest, !.out = ""]
<1>1. call \in Calls
  BY NextCall
<1>2. drain[w] \in Calls /\ drain \in [Workers -> Calls]
  BY DEF Inv, Types
<1>3. drain' = [drain EXCEPT ![w] = call] /\ call.step = "look"
  BY <1>2 DEF Skip, NextKey, Calls
<1> HIDE DEF call
<1>4. QED
  BY <1>1, <1>3, Rests DEF Skip, world, AtWork, Inv, Types

LEMMA StopInv == ASSUME Inv, NEW w \in Workers, Stop(w) PROVE Inv'
<1>1. [Idle EXCEPT !.step = "leave"].step = "leave"
  BY DEF Idle
<1>2. QED
  BY <1>1, LeftCall, Rests DEF Stop, Raise, world, AtWork, Inv, Types

LEMMA LeaveInv == ASSUME Inv, NEW w \in Workers, Leave(w) PROVE Inv'
<1>1. Idle.step = "idle"
  BY DEF Idle
<1>2. QED
  BY <1>1, LeftCall, Rests DEF Leave, AtWork, Inv, Types

LEMMA CrashInv == ASSUME Inv, NEW w \in Workers, Crash(w) PROVE Inv'
<1>1. Idle.step = "idle"
  BY DEF Idle
<1>2. crashes' \in 0 .. MaxCrashes
  BY LimitsAssumption DEF Crash, Inv, Types
<1>3. QED
  BY <1>1, <1>2, LeftCall, Rests DEF Crash, AtWork, Inv, Types

-----------------------------------------------------------------------------
(* A call at its key.                                                      *)

LEMMA OutcomeCall ==
    ASSUME Inv, NEW w \in Workers, drain[w].step \in {"run", "ask", "answer", "save"}, NEW out \in Statuses
    PROVE  LET call == [drain[w] EXCEPT !.step = "write", !.out = out]
           IN  /\ call \in Calls /\ Engaged(call) /\ call.todo = drain[w].todo
               /\ call.step = "write" /\ call.out = out /\ call.pay = Pay(w)
               /\ Outcome(w, out) => drain' = [drain EXCEPT ![w] = call]
<1>1. drain[w] \in Calls /\ drain \in [Workers -> Calls] /\ Engaged(drain[w])
  BY DEF Inv, Types
<1>2. QED
  BY <1>1 DEF Calls, Steps, Engaged, AtWork, Outcome, Pay

LEMMA GotoCall ==
    ASSUME Inv, NEW w \in Workers, drain[w].step \in {"ask", "answer"}, NEW step \in {"answer", "save"},
           Pay(w).nonce # NoNonce
    PROVE  LET call == [drain[w] EXCEPT !.step = step]
           IN  /\ call \in Calls /\ Engaged(call) /\ call.todo = drain[w].todo
               /\ call.step = step /\ call.pay = Pay(w)
               /\ Goto(w, step) => drain' = [drain EXCEPT ![w] = call]
<1>1. drain[w] \in Calls /\ drain \in [Workers -> Calls] /\ Engaged(drain[w])
  BY DEF Inv, Types
<1>2. QED
  BY <1>1 DEF Calls, Steps, Engaged, AtWork, Goto, Pay

\* An outcome that leaves the rows as they are.
LEMMA Concludes ==
    ASSUME Inv, NEW w \in Workers, drain[w].step \in {"run", "ask", "answer", "save"},
           NEW out \in Statuses, Outcome(w, out), UNCHANGED <<rows, heavy, stored, clicks, stalls, crashes>>,
           open' \in [Reports -> 0 .. MaxClicks],
           Key(w) \in Reports /\ Holds(w) =>
               \/ out = "success" /\ drain[w].step = "run" /\ Pay(w).saved
               \/ out = "error"
               \/ out # "success" /\ drain[w].step # "run"
    PROVE  Inv'
<1> DEFINE call == [drain[w] EXCEPT !.step = "write", !.out = out]
<1>1. /\ call \in Calls /\ Engaged(call) /\ call.todo = drain[w].todo
      /\ call.step = "write" /\ call.out = out /\ call.pay = Pay(w)
      /\ drain' = [drain EXCEPT ![w] = call]
  BY OutcomeCall
<1> HIDE DEF call
<1>2. ASSUME Key(w) \in Reports, Holds(w) PROVE Agrees(call, Key(w), rows[Key(w)].request, stored)
  <2>1. Agrees(drain[w], Key(w), rows[Key(w)].request, stored) /\ Truthful(Key(w), rows[Key(w)], stored, clicks[Key(w)])
    BY <1>2 DEF Inv, AtWork
  <2>2. QED
    BY <1>1, <1>2, <2>1 DEF Agrees, Truthful, Pay
<1>3. heavy \in Workers \cup {Nobody, Other} /\ stalls \in 0 .. MaxStalls /\ crashes \in 0 .. MaxCrashes
  BY DEF Inv, Types
<1>4. QED
  BY <1>1, <1>2, <1>3, GoesOn

LEMMA BusyInv == ASSUME Inv, NEW w \in Workers, Busy(w) PROVE Inv'
<1> DEFINE call == [drain[w] EXCEPT !.step = "release", !.results = @ + 1]
<1>1. drain[w] \in Calls /\ drain \in [Workers -> Calls] /\ Engaged(drain[w]) /\ drain[w].step = "run"
  BY DEF Inv, Types, Busy, At
<1>2. drain[w].results + 1 \in 0 .. MaxJobs
  BY <1>1, Bounds DEF Calls, Engaged, AtWork
<1>3. call \in Calls /\ call.step = "release" /\ call.todo = drain[w].todo
  BY <1>1, <1>2 DEF Calls, Steps
<1>4. Engaged(call)
  BY <1>1, <1>3 DEF Engaged, AtWork
<1>5. drain' = [drain EXCEPT ![w] = call]
  BY <1>1 DEF Busy, Calls
<1>6. Agrees(call, Key(w), rows[Key(w)].request, stored)
  BY <1>3 DEF Agrees
<1> HIDE DEF call
<1>7. QED
  BY <1>3, <1>4, <1>5, <1>6, GoesOn DEF Busy, world, Inv, Types

LEMMA RunReviewInv == ASSUME Inv, NEW w \in Workers, RunReview(w) PROVE Inv'
BY Concludes DEF RunReview, At, world, Reports, Statuses, Inv, Types

LEMMA HinderedInv == ASSUME Inv, NEW w \in Workers, Hindered(w) PROVE Inv'
<1> DEFINE out == IF open[Key(w)] # NoNonce THEN "reconciliation_required" ELSE "error"
<1>1. out \in Statuses /\ out # "success" /\ Outcome(w, out) /\ drain[w].step = "ask"
  BY DEF Hindered, Statuses, At
<1> HIDE DEF out
<1>2. QED
  BY <1>1, Concludes DEF Hindered, world, Inv, Types

LEMMA DeferInv == ASSUME Inv, NEW w \in Workers, Defer(w) PROVE Inv'
BY Concludes DEF Defer, At, world, Statuses, Inv, Types

\* A call goes on to the next step of a paid request.
LEMMA Proceeds ==
    ASSUME Inv, NEW w \in Workers, drain[w].step \in {"ask", "answer"}, NEW step \in {"answer", "save"},
           Pay(w).nonce # NoNonce, Goto(w, step), UNCHANGED <<rows, heavy, stored, clicks, stalls, crashes>>,
           open' \in [Reports -> 0 .. MaxClicks]
    PROVE  Inv'
<1> DEFINE call == [drain[w] EXCEPT !.step = step]
<1>1. /\ call \in Calls /\ Engaged(call) /\ call.todo = drain[w].todo
      /\ call.step = step /\ call.pay = Pay(w) /\ drain' = [drain EXCEPT ![w] = call]
  BY GotoCall
<1> HIDE DEF call
<1>2. ASSUME Key(w) \in Reports, Holds(w) PROVE Agrees(call, Key(w), rows[Key(w)].request, stored)
  <2>1. Agrees(drain[w], Key(w), rows[Key(w)].request, stored)
    BY <1>2 DEF Inv, AtWork
  <2>2. QED
    BY <1>1, <2>1 DEF Agrees, Pay
<1>3. heavy \in Workers \cup {Nobody, Other} /\ stalls \in 0 .. MaxStalls /\ crashes \in 0 .. MaxCrashes
  BY DEF Inv, Types
<1>4. QED
  BY <1>1, <1>2, <1>3, GoesOn

LEMMA ComputeInv == ASSUME Inv, NEW w \in Workers, Compute(w) PROVE Inv'
BY Concludes, Proceeds DEF Compute, MayAsk, At, world, Statuses, Inv, Types

LEMMA PayTyped == ASSUME Inv, NEW w \in Workers PROVE Pay(w) \in Requests /\ Pay(w).nonce \in 0 .. MaxClicks
BY DEF Inv, Types, Calls, Requests, Pay

LEMMA DispatchInv == ASSUME Inv, NEW w \in Workers, Dispatch(w) PROVE Inv'
<1>1. open' \in [Reports -> 0 .. MaxClicks]
  BY PayTyped DEF Dispatch, Inv, Types
<1>2. QED
  BY <1>1, Proceeds DEF Dispatch, MayAsk, At

LEMMA ReceiveInv == ASSUME Inv, NEW w \in Workers, Receive(w) PROVE Inv'
<1>1. open' \in [Reports -> 0 .. MaxClicks]
  BY LimitsAssumption DEF Receive, Inv, Types, NoNonce
<1>2. drain[w].step = "answer" /\ Pay(w).nonce # NoNonce
  BY DEF Receive, At, Inv, Engaged, Pay
<1>3. QED
  BY <1>1, <1>2, Concludes, Proceeds DEF Receive, Statuses

-----------------------------------------------------------------------------
(* Steps that write a row.                                                 *)

\* Where a call is at work, it is at a key, whose row is a row.
LEMMA AtKey ==
    ASSUME Inv, NEW w \in Workers, drain[w].step \in AtWork \/ drain[w].todo # {}
    PROVE  /\ Key(w) \in KeySet /\ rows[Key(w)] \in Rows /\ drain[w].todo # {}
           /\ Key(w) \in Reports => Truthful(Key(w), rows[Key(w)], stored, clicks[Key(w)])
           /\ drain[w].step \in AtWork /\ Key(w) \in Reports /\ Holds(w)
                => Agrees(drain[w], Key(w), rows[Key(w)].request, stored)
<1>1. drain[w].todo \in SUBSET (DOMAIN Keys) /\ drain[w].todo # {}
  BY DEF Inv, Types, Calls, Engaged
<1>2. Key(w) \in KeySet
  BY <1>1, KeyIsKey DEF Key
<1>3. QED
  BY <1>1, <1>2 DEF Inv, Types

LEMMA TakeInv == ASSUME Inv, NEW w \in Workers, Take(w) PROVE Inv'
<1> DEFINE k == Key(w)
           row == [rows[k] EXCEPT !.state = "active", !.holder = w]
           step == IF rows[k].request.status = "reconciliation_required" THEN "release" ELSE "run"
           call == [drain[w] EXCEPT !.step = step, !.pay = rows[k].request]
<1>1. /\ drain[w] \in Calls /\ drain \in [Workers -> Calls] /\ rows \in [KeySet -> Rows]
      /\ stored \subseteq Reports \X (1 .. MaxClicks)
  BY DEF Inv, Types
<1>2. k \in KeySet /\ rows[k] \in Rows /\ (k \in Reports => Truthful(k, rows[k], stored, clicks[k]))
  BY AtKey DEF Take
<1>3. row \in Rows /\ row.request = rows[k].request /\ row.state = "active" /\ row.holder = w
  BY <1>2 DEF Rows, States
<1>4. /\ call \in Calls /\ call.todo = drain[w].todo /\ call.pay = rows[k].request
      /\ call.results = drain[w].results /\ call.step = step
  BY <1>1, <1>2 DEF Calls, Steps, Rows
<1>5. Engaged(call)
  BY <1>4 DEF Engaged, Take, AtWork
<1>6. drain' = [drain EXCEPT ![w] = call] /\ rows' = [rows EXCEPT ![k] = row]
  BY <1>1, <1>2 DEF Take, Calls, Rows
<1>7. k \in Reports => Truthful(k, row, stored, clicks[k])
  BY <1>2, <1>3 DEF Truthful
<1>8. Keys[Min(call.todo)] = k
  BY <1>4 DEF Key
<1>9. call.step \in AtWork => Agrees(call, k, row.request, stored)
  BY <1>3, <1>4 DEF Agrees, AtWork
<1>10. UNCHANGED <<heavy, open, stored, clicks, stalls, crashes>>
  BY DEF Take, world
<1> HIDE DEF k, row, step, call
<1>11. QED
  BY <1>1, <1>2, <1>3, <1>4, <1>5, <1>6, <1>7, <1>8, <1>9, <1>10, Writes

LEMMA BeginInv == ASSUME Inv, NEW w \in Workers, Begin(w) PROVE Inv'
<1> DEFINE k == Key(w)
           request == Request("running", Pay(w).nonce)
           row == [rows[k] EXCEPT !.request = request]
           call == [drain[w] EXCEPT !.step = "ask"]
<1>1. /\ drain[w] \in Calls /\ drain \in [Workers -> Calls] /\ rows \in [KeySet -> Rows]
      /\ stored \subseteq Reports \X (1 .. MaxClicks) /\ drain[w].step = "run" /\ k \in Reports
  BY DEF Inv, Types, Begin, At
<1>2. UNCHANGED <<heavy, open, stored, clicks, stalls, crashes>> /\ open \in [Reports -> 0 .. MaxClicks]
  BY DEF Begin, world, Inv, Types
<1>3. CASE Pay(w).saved
  BY <1>1, <1>2, <1>3, Concludes DEF Begin, Statuses
<1>4. CASE ~Pay(w).saved /\ ~Holds(w)
  BY <1>1, <1>2, <1>4, Concludes DEF Begin, Statuses
<1>5. CASE ~Pay(w).saved /\ Holds(w)
  <2>1. /\ k \in KeySet /\ rows[k] \in Rows /\ Truthful(k, rows[k], stored, clicks[k])
        /\ rows[k].request = Pay(w) /\ drain[w].todo # {}
    BY <1>1, <1>5, AtKey DEF Agrees, AtWork, Pay
  <2>2. request \in Requests /\ request.nonce = Pay(w).nonce /\ request.saved = FALSE /\ request.status = "running"
    BY PayTyped DEF Request, Requests, Statuses
  <2>3. row \in Rows /\ row.request = request /\ row.state = "active" /\ row.holder = w
    BY <1>5, <2>1, <2>2 DEF Rows, Holds
  <2>4. /\ call \in Calls /\ call.todo = drain[w].todo /\ call.pay = Pay(w)
        /\ call.results = drain[w].results /\ call.step = "ask"
    BY <1>1 DEF Calls, Steps, Pay
  <2>5. Keys[Min(call.todo)] = k
    BY <2>4 DEF Key
  <2>6. Engaged(drain[w])
    BY DEF Inv
  <2>7. Engaged(call)
    BY <1>1, <2>4, <2>5, <2>6 DEF Engaged, AtWork
  <2>8. drain' = [drain EXCEPT ![w] = call] /\ rows' = [rows EXCEPT ![k] = row]
    BY <1>1, <1>5, <2>1 DEF Begin, Goto, Calls, Rows
  <2>9. Truthful(k, row, stored, clicks[k])
    BY <1>5, <2>1, <2>2, <2>3 DEF Truthful
  <2>10. Agrees(call, k, row.request, stored)
    BY <2>2, <2>3, <2>4 DEF Agrees
  <2> HIDE DEF k, request, row, call
  <2>11. QED
    BY <1>1, <1>2, <2>1, <2>3, <2>4, <2>5, <2>7, <2>8, <2>9, <2>10, Writes
<1>6. QED
  BY <1>3, <1>4, <1>5

LEMMA SaveReportInv == ASSUME Inv, NEW w \in Workers, SaveReport(w) PROVE Inv'
<1> DEFINE k == Key(w)
           n == Pay(w).nonce
           row == [rows[k] EXCEPT !.request.saved = TRUE]
<1>1. /\ drain[w] \in Calls /\ drain \in [Workers -> Calls] /\ rows \in [KeySet -> Rows]
      /\ stored \subseteq Reports \X (1 .. MaxClicks) /\ drain[w].step = "save"
      /\ k \in Reports /\ n # NoNonce /\ open \in [Reports -> 0 .. MaxClicks]
  BY DEF Inv, Types, SaveReport, At, Engaged, Pay, Key
<1>2. UNCHANGED <<heavy, open, clicks, stalls, crashes>>
  BY DEF SaveReport
<1>3. CASE Outcome(w, "error") /\ UNCHANGED <<rows, stored>>
  BY <1>1, <1>2, <1>3, Concludes DEF Statuses
<1>4. ASSUME Holds(w), rows' = [rows EXCEPT ![k].request.saved = TRUE],
             stored' = stored \cup {<<k, n>>}, NEW out \in {"success", "error"}, Outcome(w, out)
      PROVE  Inv'
  <2> DEFINE call == [drain[w] EXCEPT !.step = "write", !.out = out]
  <2>1. /\ k \in KeySet /\ rows[k] \in Rows /\ Truthful(k, rows[k], stored, clicks[k])
        /\ rows[k].request.nonce = n /\ drain[w].todo # {}
    BY <1>1, <1>4, AtKey DEF Agrees, AtWork, Pay
  <2>2. /\ row \in Rows /\ row.request.nonce = n /\ row.request.saved = TRUE
        /\ row.request.status = rows[k].request.status /\ row.state = "active" /\ row.holder = w
    BY <1>4, <2>1 DEF Rows, Requests, Holds
  <2>3. /\ call \in Calls /\ Engaged(call) /\ call.todo = drain[w].todo
        /\ call.step = "write" /\ call.out = out /\ call.pay = Pay(w)
        /\ drain' = [drain EXCEPT ![w] = call]
    <3>1. out \in Statuses
      BY DEF Statuses
    <3>2. QED
      BY <1>1, <1>4, <3>1, OutcomeCall
  <2>4. Keys[Min(call.todo)] = k
    BY <2>3 DEF Key
  <2>5. rows' = [rows EXCEPT ![k] = row]
    BY <1>1, <1>4, <2>1 DEF Rows, Requests
  <2>6. n \in 1 .. MaxClicks /\ n <= clicks[k]
    BY <1>1, <2>1, PayTyped, Bounds DEF Truthful, NoNonce
  <2>7. stored' \subseteq Reports \X (1 .. MaxClicks)
    BY <1>1, <1>4, <2>6
  <2>8. Truthful(k, row, stored', clicks[k])
    BY <1>1, <1>4, <2>1, <2>2, <2>6 DEF Truthful, NoNonce
  <2>9. Agrees(call, k, row.request, stored')
    BY <1>4, <2>2, <2>3 DEF Agrees
  <2>10. \A r \in Reports \ {k}, m \in 0 .. MaxClicks : <<r, m>> \in stored' <=> <<r, m>> \in stored
    BY <1>4
  <2> HIDE DEF k, n, row, call
  <2>11. QED
    BY <1>2, <2>1, <2>2, <2>3, <2>4, <2>5, <2>7, <2>8, <2>9, <2>10, Writes
<1>5. QED
  BY <1>3, <1>4 DEF SaveReport

LEMMA WriteOutcomeInv == ASSUME Inv, NEW w \in Workers, WriteOutcome(w) PROVE Inv'
<1> DEFINE k == Key(w)
           n == Pay(w).nonce
           out == drain[w].out
           row == [rows[k] EXCEPT !.request = Written(w)]
           step == IF out \in {"success", "error"} THEN "complete" ELSE "release"
           call == [drain[w] EXCEPT !.results = @ + 1, !.step = step]
<1>1. /\ drain[w] \in Calls /\ drain \in [Workers -> Calls] /\ rows \in [KeySet -> Rows]
      /\ stored \subseteq Reports \X (1 .. MaxClicks) /\ drain[w].step = "write" /\ Engaged(drain[w])
      /\ out \in Statuses
  BY DEF Inv, Types, WriteOutcome, At, Calls
<1>2. UNCHANGED <<heavy, open, clicks, stalls, crashes>>
  BY DEF WriteOutcome
<1>3. CASE ~Holds(w)
  <2>1. [Idle EXCEPT !.step = "leave"].step = "leave"
    BY DEF Idle
  <2>2. QED
    BY <1>2, <1>3, <2>1, LeftCall, Rests DEF WriteOutcome, Raise, AtWork, Inv, Types
<1>4. CASE Holds(w)
  <2>1. /\ k \in KeySet /\ rows[k] \in Rows
        /\ k \in Reports => /\ Truthful(k, rows[k], stored, clicks[k])
                            /\ Agrees(drain[w], k, rows[k].request, stored)
    BY <1>1, <1>4, AtKey DEF AtWork
  <2>2. /\ Written(w) \in Requests /\ Written(w).status = out /\ Written(w).saved = FALSE
        /\ Written(w).nonce = IF out = "success" THEN NoNonce ELSE n
    BY <1>1, PayTyped, Bounds DEF Written, Request, Requests, NoNonce
  <2>3. row \in Rows /\ row.request = Written(w) /\ row.state = "active" /\ row.holder = w
    BY <1>4, <2>1, <2>2 DEF Rows, Holds
  <2>4. drain[w].results + 1 \in 0 .. MaxJobs
    BY <1>1, Bounds DEF Calls, Engaged, AtWork
  <2>5. call \in Calls /\ call.todo = drain[w].todo /\ call.step = step
    BY <1>1, <2>4 DEF Calls, Steps
  <2>6. Keys[Min(call.todo)] = k /\ call.todo # {}
    BY <1>1, <2>5 DEF Key, Engaged, AtWork
  <2>7. Engaged(call)
    BY <2>5, <2>6 DEF Engaged, AtWork
  <2>8. drain' = [drain EXCEPT ![w] = call] /\ rows' = [rows EXCEPT ![k] = row]
    BY <1>1, <1>4, <2>1 DEF WriteOutcome, Calls, Rows
  <2>9. stored' = IF out = "error" THEN stored \ {<<k, n>>} ELSE stored
    BY <1>4 DEF WriteOutcome
  <2>10. /\ stored' \subseteq Reports \X (1 .. MaxClicks)
         /\ \A r \in Reports \ {k}, m \in 0 .. MaxClicks : <<r, m>> \in stored' <=> <<r, m>> \in stored
    BY <1>1, <2>9
  <2>11. ASSUME k \in Reports PROVE Truthful(k, row, stored', clicks[k])
    <3>1. /\ rows[k].request.nonce = n /\ n <= clicks[k] /\ 0 <= clicks[k]
          /\ out \notin {"success", "error"} => <<k, n>> \notin stored
          /\ \A m \in 1 .. MaxClicks : <<k, m>> \in stored => m <= clicks[k]
      BY <1>1, <2>1, <2>11 DEF Truthful, Agrees, Inv, Types, Pay
    <3>2. <<k, row.request.nonce>> \notin stored'
      BY <1>1, <2>2, <2>3, <2>9, <3>1 DEF NoNonce
    <3>3. QED
      BY <2>2, <2>3, <2>9, <3>1, <3>2 DEF Truthful, NoNonce
  <2>12. call.step \in AtWork => Agrees(call, k, row.request, stored')
    BY <2>2, <2>3, <2>5 DEF Agrees, AtWork
  <2> HIDE DEF k, n, out, row, step, call
  <2>13. QED
    BY <1>2, <2>1, <2>3, <2>5, <2>6, <2>7, <2>8, <2>10, <2>11, <2>12, Writes
<1>5. QED
  BY <1>3, <1>4

\* The row of a call that is through with its key is given back.
LEMMA Returns ==
    ASSUME Inv, NEW w \in Workers, drain[w].step \in {"complete", "release"}, drain[w].todo # {}, Holds(w),
           NEW state \in {"done", "released"}, state = "done" => drain[w].step = "complete",
           rows' = [rows EXCEPT ![Key(w)].state = state, ![Key(w)].holder = Nobody],
           NextKey(w), UNCHANGED world
    PROVE  Inv'
<1> DEFINE k == Key(w)
           row == [rows[k] EXCEPT !.state = state, !.holder = Nobody]
           call == [drain[w] EXCEPT !.step = "look", !.todo = @ \ {Min(@)}, !.pay = NoRequest, !.out = ""]
<1>1. /\ drain[w] \in Calls /\ drain \in [Workers -> Calls] /\ rows \in [KeySet -> Rows]
      /\ stored \subseteq Reports \X (1 .. MaxClicks)
  BY DEF Inv, Types
<1>2. /\ k \in KeySet /\ rows[k] \in Rows
      /\ k \in Reports => Truthful(k, rows[k], stored, clicks[k])
      /\ k \in Reports /\ state = "done" => rows[k].request.status \in {"success", "error"}
  BY AtKey DEF AtWork, Agrees
<1>3. row \in Rows /\ row.request = rows[k].request /\ row.state = state /\ row.holder = Nobody
  BY <1>2 DEF Rows, States
<1>4. call \in Calls /\ call.step = "look"
  BY <1>1, NextCall DEF Calls
<1>5. drain' = [drain EXCEPT ![w] = call] /\ rows' = [rows EXCEPT ![k] = row]
  BY <1>1, <1>2 DEF NextKey, Calls, Rows
<1>6. k \in Reports => Truthful(k, row, stored, clicks[k])
  BY <1>2, <1>3 DEF Truthful
<1>7. Engaged(call)
  BY <1>4 DEF Engaged, AtWork
<1>8. UNCHANGED <<heavy, open, stored, clicks, stalls, crashes>>
  BY DEF world
<1>9. row.holder \in {w, Nobody} /\ call.step \notin AtWork
  BY <1>3, <1>4 DEF AtWork
<1>10. /\ stored' \subseteq Reports \X (1 .. MaxClicks) /\ (k \in Reports => Truthful(k, row, stored', clicks[k]))
       /\ \A r \in Reports \ {k}, n \in 0 .. MaxClicks : <<r, n>> \in stored' <=> <<r, n>> \in stored
  BY <1>1, <1>6, <1>8
<1> HIDE DEF k, row, call
<1>11. k \in KeySet /\ call \in Calls /\ row \in Rows /\ (call.step \in AtWork => FALSE)
  BY <1>2, <1>3, <1>4, <1>9
<1>12. QED
  BY <1>5, <1>7, <1>8, <1>9, <1>10, <1>11, Writes

LEMMA CompleteInv == ASSUME Inv, NEW w \in Workers, Complete(w) PROVE Inv'
<1>1. CASE Holds(w)
  <2>1. drain[w].todo # {}
    BY DEF Complete, At, Inv, Engaged, AtWork
  <2>2. QED
    BY <1>1, <2>1, Returns DEF Complete, At
<1>2. CASE ~Holds(w)
  <2>1. [Idle EXCEPT !.step = "leave"].step = "leave"
    BY DEF Idle
  <2>2. QED
    BY <1>2, <2>1, LeftCall, Rests DEF Complete, Raise, AtWork, world, Inv, Types
<1>3. QED
  BY <1>1, <1>2

LEMMA ReleaseJobInv == ASSUME Inv, NEW w \in Workers, ReleaseJob(w) PROVE Inv'
<1>1. drain[w].step = "release" /\ drain[w].todo # {}
  BY DEF ReleaseJob, At, Inv, Engaged, AtWork
<1>2. CASE Holds(w)
  BY <1>1, <1>2, Returns DEF ReleaseJob
<1>3. CASE ~Holds(w)
  <2> DEFINE call == [drain[w] EXCEPT !.step = "look", !.todo = @ \ {Min(@)}, !.pay = NoRequest, !.out = ""]
  <2>1. drain[w] \in Calls /\ drain \in [Workers -> Calls]
    BY DEF Inv, Types
  <2>2. call \in Calls
    BY NextCall
  <2>3. drain' = [drain EXCEPT ![w] = call] /\ call.step = "look"
    BY <2>1 DEF ReleaseJob, NextKey, Calls
  <2> HIDE DEF call
  <2>4. QED
    BY <1>3, <2>2, <2>3, Rests DEF ReleaseJob, world, AtWork, Inv, Types
<1>4. QED
  BY <1>2, <1>3

-----------------------------------------------------------------------------
(* The rest of the system.                                                 *)

LEMMA EnqueueInv == ASSUME Inv, NEW k \in KeySet, Enqueue(k) PROVE Inv'
<1> DEFINE row == Row("released", Nobody, Queued(k))
<1>1. /\ rows[k] \in Rows /\ clicks[k] \in 0 .. MaxClicks /\ clicks[k] + 1 \in 1 .. MaxClicks
      /\ stored \subseteq Reports \X (1 .. MaxClicks) /\ k \in KeySet
  BY Bounds DEF Inv, Types, Enqueue
<1>2. Queued(k) \in Requests
  <2>1. rows[k].request \in Requests
    BY <1>1 DEF Rows
  <2>2. [rows[k].request EXCEPT !.status = "queued"] \in Requests
    BY <2>1 DEF Requests, Statuses
  <2>3. NoNonce \in 0 .. MaxClicks /\ clicks[k] + 1 \in 0 .. MaxClicks
    BY <1>1, Bounds DEF NoNonce
  <2>4. \A n \in 0 .. MaxClicks : Request("queued", n) \in Requests
    BY DEF Request, Requests, Statuses
  <2>5. QED
    BY <2>2, <2>3, <2>4 DEF Queued
<1>3. row \in Rows /\ row.holder = Nobody /\ row.state = "released" /\ row.request = Queued(k)
  BY <1>2 DEF Rows, Row, States
<1>4. ASSUME k \in Reports PROVE Truthful(k, row, stored, clicks[k] + 1)
  <2>1. Truthful(k, rows[k], stored, clicks[k]) /\ k # ReviewKey
    BY <1>4 DEF Inv, Reports
  <2>2. rows[k].request.nonce \in 0 .. MaxClicks
    BY <1>1 DEF Rows, Requests
  <2>3. CASE rows[k].state = "done" /\ rows[k].request.status = "error"
    <3>1. /\ Queued(k).nonce = rows[k].request.nonce /\ Queued(k).saved = rows[k].request.saved
          /\ Queued(k).status = "queued"
      BY <1>1, <2>3 DEF Queued, Rows, Requests
    <3>2. QED
      BY <1>1, <1>3, <2>1, <2>2, <3>1 DEF Truthful
  <2>4. CASE ~(rows[k].state = "done" /\ rows[k].request.status = "error")
    <3>1. Queued(k).nonce = clicks[k] + 1 /\ Queued(k).saved = FALSE /\ Queued(k).status = "queued"
      BY <2>1, <2>4 DEF Queued, Request
    <3>2. <<k, clicks[k] + 1>> \notin stored
      BY <1>1, <2>1 DEF Truthful
    <3>3. \A n \in 1 .. MaxClicks : <<k, n>> \in stored => n <= clicks[k] + 1
      BY <1>1, <2>1 DEF Truthful
    <3>4. QED
      BY <1>1, <1>3, <3>1, <3>2, <3>3 DEF Truthful
  <2>5. QED
    BY <2>3, <2>4
<1>5. /\ rows' = [rows EXCEPT ![k] = row] /\ clicks' = [clicks EXCEPT ![k] = clicks[k] + 1]
      /\ stalls' \in 0 .. MaxStalls /\ UNCHANGED <<heavy, drain, open, stored, crashes>>
      /\ clicks[k] + 1 \in 0 .. MaxClicks
  BY <1>1 DEF Enqueue, Inv, Types
<1> HIDE DEF row
<1>6. QED
  BY <1>3, <1>4, <1>5, Frees

LEMMA ExpireInv == ASSUME Inv, NEW k \in KeySet, Expire(k) PROVE Inv'
<1> DEFINE row == [rows[k] EXCEPT !.holder = Nobody]
<1>1. rows[k] \in Rows /\ clicks[k] \in 0 .. MaxClicks /\ rows \in [KeySet -> Rows] /\ clicks \in [KeySet -> 0 .. MaxClicks]
  BY DEF Inv, Types
<1>2. row \in Rows /\ row.holder = Nobody /\ row.state = rows[k].state /\ row.request = rows[k].request
  BY <1>1 DEF Rows
<1>3. k \in Reports => Truthful(k, row, stored, clicks[k])
  BY <1>2 DEF Inv, Truthful
<1>4. rows' = [rows EXCEPT ![k] = row] /\ clicks' = [clicks EXCEPT ![k] = clicks[k]]
  BY <1>1 DEF Expire, Rows
<1>5. stalls' \in 0 .. MaxStalls /\ UNCHANGED <<heavy, drain, open, stored, crashes>>
  BY Bounds DEF Expire, Inv, Types
<1> HIDE DEF row
<1>6. QED
  BY <1>1, <1>2, <1>3, <1>4, <1>5, Frees

\* Nothing that the invariant speaks of changes.
LEMMA Apart ==
    ASSUME Inv, UNCHANGED <<rows, drain, stored, clicks, crashes>>,
           heavy' \in Workers \cup {Nobody, Other}, open' \in [Reports -> 0 .. MaxClicks], stalls' \in 0 .. MaxStalls
    PROVE  Inv'
<1>1. Types'
  BY DEF Inv, Types
<1>2. QED
  BY <1>1 DEF Inv, Key, Holds

LEMMA ExpireHeavyInv == ASSUME Inv, ExpireHeavy PROVE Inv'
<1>1. stalls' \in 0 .. MaxStalls
  BY Bounds DEF ExpireHeavy, Inv, Types
<1>2. QED
  BY <1>1, Apart DEF ExpireHeavy, Inv, Types

LEMMA ReconcileInv == ASSUME Inv, NEW r \in Reports, Reconcile(r) PROVE Inv'
<1>1. open' \in [Reports -> 0 .. MaxClicks]
  BY Bounds DEF Reconcile, Inv, Types, NoNonce
<1>2. QED
  BY <1>1, Apart DEF Reconcile, Inv, Types

LEMMA OtherInv == ASSUME Inv, OtherBegins \/ OtherEnds PROVE Inv'
BY Apart DEF OtherBegins, OtherEnds, Inv, Types

LEMMA NextInv == ASSUME Inv, [Next]_vars PROVE Inv'
<1>1. ASSUME NEW w \in Workers, Scan(w) \/ Crash(w) \/ Step(w) PROVE Inv'
  BY <1>1, ScanInv, CrashInv, SkipInv, TakeInv, StopInv, BusyInv, RunReviewInv, BeginInv, HinderedInv, DeferInv,
     ComputeInv, DispatchInv, ReceiveInv, SaveReportInv, WriteOutcomeInv, CompleteInv, ReleaseJobInv, LeaveInv DEF Step
<1>2. CASE UNCHANGED vars
  BY <1>2, Apart DEF vars, Inv, Types
<1>3. QED
  BY <1>1, <1>2, EnqueueInv, ExpireInv, ReconcileInv, ExpireHeavyInv, OtherInv DEF Next

-----------------------------------------------------------------------------
(* What a row says of its request is true, and who has its lease has in    *)
(* hand what it says: the invariant, from which the rest follows.          *)
THEOREM Invariance == Spec => []Inv
<1>1. Init => Inv
  BY InitInv
<1>2. Inv /\ [Next]_vars => Inv'
  BY NextInv
<1>3. QED
  BY <1>1, <1>2, PTL DEF Spec

(* Every row, call and counter keeps its type, whatever keys, callers and  *)
(* limits there are (TypeOK of the specification).                         *)
THEOREM TypeCorrect == Spec => []TypeOK
<1>1. Inv => TypeOK
  BY DEF Inv, Types, TypeOK, Rows, States, Calls
<1>2. QED
  BY <1>1, Invariance, PTL

-----------------------------------------------------------------------------
(* "Keep the original request identity" (drain): a request keeps its nonce *)
(* until its report is stored, for any number of calls, clicks, late       *)
(* callers and crashes.                                                    *)

LEMMA WriterKeeps ==
    ASSUME Inv, NEW w \in Workers, Step(w), NEW r \in Reports,
           rows[r].request.nonce # NoNonce, rows'[r].request.nonce # rows[r].request.nonce
    PROVE  <<r, rows[r].request.nonce>> \in stored
<1>1. rows \in [KeySet -> Rows] /\ r \in KeySet /\ drain[w] \in Calls /\ rows[r] \in Rows
  BY DEF Inv, Types, Reports
<1>2. CASE Begin(w)
  <2>1. /\ Holds(w) /\ drain[w].step = "run" /\ ~Pay(w).saved
        /\ rows' = [rows EXCEPT ![Key(w)].request = Request("running", Pay(w).nonce)]
    BY <1>2 DEF Begin, At
  <2>2. Key(w) = r
    BY <1>1, <2>1 DEF Rows
  <2>3. rows[r].request = Pay(w)
    BY <2>1, <2>2 DEF Inv, AtWork, Agrees, Pay
  <2>4. rows'[r].request.nonce = Pay(w).nonce
    BY <1>1, <2>1, <2>2 DEF Rows, Request
  <2>5. QED
    BY <2>3, <2>4
<1>3. CASE SaveReport(w)
  BY <1>1, <1>3 DEF SaveReport, Rows, Requests
<1>4. CASE WriteOutcome(w)
  <2>1. Holds(w) /\ drain[w].step = "write" /\ rows' = [rows EXCEPT ![Key(w)].request = Written(w)]
    BY <1>4 DEF WriteOutcome, At
  <2>2. Key(w) = r
    BY <1>1, <2>1 DEF Rows
  <2>3. Agrees(drain[w], r, rows[r].request, stored)
    BY <2>1, <2>2 DEF Inv, AtWork
  <2>4. rows'[r].request.nonce = IF drain[w].out = "success" THEN NoNonce ELSE Pay(w).nonce
    BY <1>1, <2>1, <2>2 DEF Rows, Written, Request
  <2>5. QED
    BY <2>1, <2>3, <2>4 DEF Agrees, Pay
<1>5. CASE Take(w) \/ Complete(w) \/ ReleaseJob(w)
  BY <1>1, <1>5 DEF Take, Complete, ReleaseJob, Rows
<1>6. CASE rows' = rows
  BY <1>6
<1>7. QED
  BY <1>2, <1>3, <1>4, <1>5, <1>6 DEF Step, Skip, Stop, Busy, RunReview, Hindered, Defer, Compute, Dispatch, Receive, Leave

LEMMA ClickKeeps ==
    ASSUME Inv, NEW k \in KeySet, Enqueue(k) \/ Expire(k), NEW r \in Reports,
           rows[r].request.nonce # NoNonce
    PROVE  rows'[r].request.nonce = rows[r].request.nonce
<1>1. rows \in [KeySet -> Rows] /\ r \in KeySet /\ rows[r] \in Rows /\ Truthful(r, rows[r], stored, clicks[r])
  BY DEF Inv, Types, Reports
<1>2. CASE Expire(k)
  BY <1>1, <1>2 DEF Expire, Rows
<1>3. CASE Enqueue(k) /\ r # k
  BY <1>1, <1>3 DEF Enqueue
<1>4. CASE Enqueue(k) /\ r = k
  <2>1. rows[r].state = "done" /\ rows[r].request.status = "error"
    BY <1>1, <1>4 DEF Enqueue, Truthful
  <2>2. rows'[r].request = [rows[r].request EXCEPT !.status = "queued"]
    BY <1>1, <1>4, <2>1 DEF Enqueue, Queued, Row
  <2>3. QED
    BY <1>1, <2>2 DEF Rows, Requests
<1>5. QED
  BY <1>2, <1>3, <1>4

THEOREM KeepsRequest == Spec => RequestKept
<1> DEFINE Kept == \A r \in Reports :
               rows[r].request.nonce # NoNonce /\ rows'[r].request.nonce # rows[r].request.nonce
                   => <<r, rows[r].request.nonce>> \in stored
<1>1. ASSUME Inv, Next PROVE Kept
  <2>1. ASSUME NEW r \in Reports, rows[r].request.nonce # NoNonce,
               rows'[r].request.nonce # rows[r].request.nonce
        PROVE  <<r, rows[r].request.nonce>> \in stored
    <3>1. CASE \E w \in Workers : Step(w)
      BY <1>1, <2>1, <3>1, WriterKeeps
    <3>2. CASE \E k \in KeySet : Enqueue(k) \/ Expire(k)
      BY <1>1, <2>1, <3>2, ClickKeeps
    <3>3. CASE rows' = rows
      BY <2>1, <3>3
    <3>4. QED
      BY <1>1, <3>1, <3>2, <3>3 DEF Next, Scan, Crash, Reconcile, ExpireHeavy, OtherBegins, OtherEnds
  <2>2. QED
    BY <2>1
<1>2. Inv /\ [Next]_vars => [Kept]_vars
  BY <1>1
<1>3. [][Kept]_vars => RequestKept
  BY PTL DEF RequestKept
<1>4. QED
  BY <1>2, <1>3, Invariance, PTL DEF Spec

(* A call that has the lease of a request dispatches nothing for it when   *)
(* its report was stored, whoever died or was late in between.             *)
THEOREM NotBoughtAgain == Spec => StoredIsNotBought
<1> DEFINE Fresh == \A w \in Workers :
               At(w, "ask") /\ Holds(w) /\ At(w, "answer")' => <<Key(w), Pay(w).nonce>> \notin stored
<1>1. ASSUME Inv, NEW w \in Workers, At(w, "ask"), Holds(w) PROVE <<Key(w), Pay(w).nonce>> \notin stored
  <2>1. Key(w) \in Reports
    BY <1>1 DEF Inv, Engaged, At, Key
  <2>2. Agrees(drain[w], Key(w), rows[Key(w)].request, stored) /\ Truthful(Key(w), rows[Key(w)], stored, clicks[Key(w)])
    BY <1>1, <2>1 DEF Inv, AtWork, At
  <2>3. QED
    BY <1>1, <2>2 DEF Agrees, Truthful, At, Pay
<1>2. Inv /\ [Next]_vars => [Fresh]_vars
  BY <1>1
<1>3. QED
  BY <1>2, Invariance, PTL DEF Spec, StoredIsNotBought
=============================================================================
