--------------------------- MODULE AiLedgerProofs ---------------------------
(***************************************************************************)
(* The ledger's promises, for every set of callers, request keys and       *)
(* reports, every budget and every provider answer.  At most one dispatch  *)
(* needs the dispatch gate as an invariant: a caller that passed mark_sent *)
(* is alone with its key and has not dispatched it, and a call nobody took *)
(* through the gate has never been dispatched.  That the budget counters   *)
(* are sums of the ledger rests on facts about sums of finite sets.        *)
(***************************************************************************)
EXTENDS AiLedger, FiniteSetTheorems, WellFoundedInduction, TLAPS

DispatchGate ==
    /\ \A k \in Keys : calls[k].state \in {"none", "prepared"} => dispatched[k] = 0
    /\ \A c \in Callers : At(c, "calling") =>
          /\ calls[Key(c)].state \notin {"none", "prepared"}
          /\ dispatched[Key(c)] = 0
    /\ \A c, d \in Callers :
          At(c, "calling") /\ At(d, "calling") /\ Key(c) = Key(d) => c = d

\* A caller has a result only after the provider's answer or at the end.
ResultsInPlace ==
    \A c \in Callers :
        caller[c].result # NoResult => caller[c].step \in {"idle", "answered"}

\* Lookups start from the key of the current release.
LookupKeys ==
    \A c \in Callers : caller[c].step \in {"lookup", "legacy"} => Key(c) \in RequestKeys

\* A registered call belongs to a billing month.
MonthsKnown ==
    \A k \in Keys : calls[k].state \in Open => calls[k].month \in Months

Inv ==
    /\ TypeOK
    /\ MonthsKnown
    /\ DispatchGate
    /\ AtMostOneDispatch
    /\ OneUnresolvedPerJob
    /\ BudgetCap
    /\ ResultsInPlace
    /\ LookupKeys
    /\ SameAnswer

-----------------------------------------------------------------------------
CallRow == [state : CallStates, month : 0 .. LastMonth, charge : Nat]
Invocation == [step : Steps, key : Keys, result : Results \cup {NoResult}]

(* Where the moves of analyze put a caller, point by point.                *)
LEMMA MoveValue ==
    ASSUME TypeOK, NEW c \in Callers, NEW next \in Invocation,
           caller' = [caller EXCEPT ![c] = next]
    PROVE  /\ caller' \in [Callers -> Invocation]
           /\ caller'[c] = next
           /\ \A d \in Callers : d # c => caller'[d] = caller[d]
BY DEF TypeOK, Invocation

LEMMA GotoValue ==
    ASSUME TypeOK, NEW c \in Callers, NEW s \in Steps, Goto(c, s)
    PROVE  /\ caller' \in [Callers -> Invocation]
           /\ caller'[c] = [step |-> s, key |-> Key(c), result |-> caller[c].result]
           /\ \A d \in Callers : d # c => caller'[d] = caller[d]
BY DEF TypeOK, Goto, Invocation, Key

LEMMA RaiseValue ==
    ASSUME TypeOK, NEW c \in Callers, Raise(c)
    PROVE  /\ caller' \in [Callers -> Invocation]
           /\ caller'[c] = [step |-> "idle", key |-> Key(c), result |-> caller[c].result]
           /\ \A d \in Callers : d # c => caller'[d] = caller[d]
BY GotoValue DEF Raise, Steps

LEMMA ReturnValue ==
    ASSUME TypeOK, NEW c \in Callers, NEW k \in Keys,
           NEW r \in Results \cup {NoResult}, Return(c, k, r)
    PROVE  /\ caller' \in [Callers -> Invocation]
           /\ caller'[c] = [step |-> "idle", key |-> k, result |-> r]
           /\ \A d \in Callers : d # c => caller'[d] = caller[d]
BY DEF TypeOK, Return, Invocation, Steps

LEMMA ResolveValue ==
    ASSUME TypeOK, NEW c \in Callers, NEW k \in Keys, Resolve(c, k)
    PROVE  /\ caller' \in [Callers -> Invocation]
           /\ \A d \in Callers : d # c => caller'[d] = caller[d]
           /\ \/ /\ cache[k] # NoResult
                 /\ caller'[c] = [step |-> "idle", key |-> k, result |-> cache[k]]
              \/ caller'[c] = [step |-> "gate", key |-> k, result |-> caller[c].result]
              \/ caller'[c] = [step |-> "idle", key |-> Key(c), result |-> caller[c].result]
<1>0. cache[k] \in Results \cup {NoResult}
  BY DEF TypeOK
<1>1. CASE cache[k] # NoResult
  BY <1>0, <1>1, ReturnValue DEF Resolve
<1>2. CASE cache[k] = NoResult /\ calls[k].state = "prepared"
  BY <1>2 DEF Resolve, TypeOK, Invocation, Steps
<1>3. CASE cache[k] = NoResult /\ calls[k].state # "prepared"
  BY <1>3, RaiseValue DEF Resolve
<1> QED BY <1>1, <1>2, <1>3

(* What settling a call does to the ledger and the budget.                 *)
LEMMA SettleValue ==
    ASSUME TypeOK, MonthsKnown, NEW k \in Keys, NEW s \in Final,
           NEW charge \in 0 .. Estimate[k], MayFinish(k), Settle(k, s, charge)
    PROVE  /\ calls' \in [Keys -> CallRow]
           /\ calls'[k] = [calls[k] EXCEPT !.state = s, !.charge = charge]
           /\ calls'[k].state = s
           /\ calls'[k].month = calls[k].month
           /\ \A l \in Keys : l # k => calls'[l] = calls[l]
           /\ reserved' \in [Months -> Nat]
           /\ charged' \in [Months -> Nat]
           /\ \A m \in Months :
                 reserved'[m] + charged'[m] <= reserved[m] + charged[m]
<1> DEFINE m == calls[k].month
<1>0. m \in Months /\ Estimate[k] \in Nat /\ charge \in Nat /\ charge <= Estimate[k]
  BY BudgetAssumption DEF MonthsKnown, MayFinish, Unresolved, Open
<1>1. /\ calls' \in [Keys -> CallRow]
      /\ calls'[k] = [calls[k] EXCEPT !.state = s, !.charge = charge]
      /\ calls'[k].state = s
      /\ calls'[k].month = calls[k].month
      /\ \A l \in Keys : l # k => calls'[l] = calls[l]
  BY <1>0 DEF TypeOK, Settle, CallRow, Final, CallStates
<1>2. /\ reserved' = [reserved EXCEPT ![m] = reserved[m] - Estimate[k]]
      /\ charged' = [charged EXCEPT ![m] = charged[m] + charge]
      /\ reserved[m] >= Estimate[k]
  BY DEF Settle, MayFinish
<1>3. reserved \in [Months -> Nat] /\ charged \in [Months -> Nat]
  BY DEF TypeOK
<1> HIDE DEF m
<1>4. reserved' \in [Months -> Nat] /\ charged' \in [Months -> Nat]
  BY <1>0, <1>2, <1>3
<1>5. \A i \in Months : reserved'[i] + charged'[i] <= reserved[i] + charged[i]
  <2> TAKE i \in Months
  <2>1. CASE i = m
    BY <1>0, <1>2, <1>3, <2>1
  <2>2. CASE i # m
    BY <1>0, <1>2, <1>3, <2>2
  <2> QED BY <2>1, <2>2
<1> QED BY <1>1, <1>4, <1>5
-----------------------------------------------------------------------------
\* A caller the step leaves alone, or moves anywhere but past the gate.
SafeMove(d) ==
    \/ caller'[d] = caller[d]
    \/ /\ caller'[d].step # "calling"
       /\ caller'[d].step \in {"lookup", "legacy"} => caller'[d].key \in RequestKeys
       /\ caller'[d].result # NoResult =>
             \/ caller'[d].step = "answered"
             \/ /\ caller'[d].step = "idle"
                /\ cache'[caller'[d].key] = caller'[d].result

(* Every step that neither opens the gate nor dispatches: it may register, *)
(* give up or settle the call of one key, and move callers.                *)
LEMMA UpdatePreserves ==
    ASSUME Inv, NEW k \in Keys,
           calls' \in [Keys -> CallRow],
           \A l \in Keys : l # k => calls'[l] = calls[l],
           calls[k].state \in {"none", "prepared"}
               <=> calls'[k].state \in {"none", "prepared"},
           calls'[k].state \in Unresolved => calls[k].state \in Unresolved,
           calls'[k].state \in Open => calls'[k].month \in Months,
           cache' \in [Keys -> Results \cup {NoResult}],
           \A l \in Keys : cache[l] # NoResult => cache'[l] = cache[l],
           reserved' \in [Months -> Nat], charged' \in [Months -> Nat],
           BudgetCap',
           caller' \in [Callers -> Invocation],
           \A d \in Callers : SafeMove(d),
           UNCHANGED <<month, dispatched>>
    PROVE  Inv'
<1> USE DEF Inv
<1>1. TypeOK'
  BY DEF TypeOK, CallRow, Invocation
<1>2. MonthsKnown'
  BY DEF MonthsKnown
<1>3. DispatchGate'
  <2>1. \A l \in Keys : calls[l].state \in {"none", "prepared"}
                           <=> calls'[l].state \in {"none", "prepared"}
    OBVIOUS
  <2>2. \A d \in Callers : At(d, "calling")' =>
           At(d, "calling") /\ Key(d)' = Key(d) /\ Key(d) \in Keys
    BY DEF SafeMove, At, Key, TypeOK
  <2> QED BY <2>1, <2>2 DEF DispatchGate
<1>4. AtMostOneDispatch'
  BY DEF AtMostOneDispatch
<1>5. OneUnresolvedPerJob'
  <2>1. \A l \in Keys : calls'[l].state \in Unresolved => calls[l].state \in Unresolved
    OBVIOUS
  <2> QED BY <2>1 DEF OneUnresolvedPerJob
<1>6. ResultsInPlace'
  BY DEF ResultsInPlace, SafeMove
<1>7. SameAnswer'
  <2> SUFFICES ASSUME NEW d \in Callers, caller'[d].step = "idle",
                      caller'[d].result # NoResult
               PROVE  cache'[caller'[d].key] = caller'[d].result
    BY DEF SameAnswer, At, Key
  <2>1. CASE caller'[d] = caller[d]
    <3>1. cache[caller[d].key] = caller[d].result /\ caller[d].key \in Keys
      BY <2>1 DEF SameAnswer, At, Key, TypeOK
    <3> QED BY <2>1, <3>1
  <2>2. CASE caller'[d] # caller[d]
    BY <2>2 DEF SafeMove
  <2> QED BY <2>1, <2>2
<1>8. LookupKeys'
  BY DEF LookupKeys, SafeMove, Key
<1> QED BY <1>1, <1>2, <1>3, <1>4, <1>5, <1>6, <1>7, <1>8

(* A step that only moves callers.                                         *)
LEMMA MovePreserves ==
    ASSUME Inv, UNCHANGED <<ledger, month, dispatched>>,
           caller' \in [Callers -> Invocation],
           \A d \in Callers : SafeMove(d)
    PROVE  Inv'
<1>1. UNCHANGED <<calls, cache, reserved, charged>> /\ TypeOK /\ BudgetCap
  BY DEF ledger, Inv
<1>2. PICK k \in Keys : TRUE
  BY KeysAssumption
<1>3. calls[k].state \in Open => calls[k].month \in Months
  BY DEF Inv, MonthsKnown
<1>4. calls \in [Keys -> CallRow]
  BY <1>1 DEF TypeOK, CallRow
<1>5. BudgetCap'
  BY <1>1 DEF BudgetCap
<1> QED BY <1>1, <1>2, <1>3, <1>4, <1>5, UpdatePreserves DEF TypeOK

(* The ledger begins empty but for answers of earlier releases.            *)
THEOREM InitInv == Init => Inv
<1> SUFFICES ASSUME Init PROVE Inv
  OBVIOUS
<1> USE BudgetAssumption, KeysAssumption DEF Init
<1>0. Idle.key \in Keys /\ Idle.step = "idle" /\ Idle.result = NoResult
      /\ Idle \in Invocation
  BY DEF Idle, Invocation, Steps
<1>a. /\ NoCall \in CallRow /\ NoCall.state = "none"
      /\ [NoCall EXCEPT !.state = "succeeded"] \in CallRow
      /\ [NoCall EXCEPT !.state = "succeeded"].state = "succeeded"
  BY DEF NoCall, CallRow, CallStates
<1>1. calls \in [Keys -> CallRow] /\ cache \in [Keys -> Results \cup {NoResult}]
  BY <1>a
<1>2. TypeOK
  BY <1>0, <1>1 DEF TypeOK, CallRow, Invocation, Months
<1>3. \A k \in Keys : calls[k].state \in {"none", "succeeded"}
  BY <1>a
<1>4. MonthsKnown /\ OneUnresolvedPerJob
  BY <1>3 DEF MonthsKnown, OneUnresolvedPerJob, Open, Unresolved
<1>5. DispatchGate /\ AtMostOneDispatch
  BY <1>0 DEF DispatchGate, AtMostOneDispatch, At
<1>6. BudgetCap
  BY DEF BudgetCap
<1>7. ResultsInPlace /\ LookupKeys /\ SameAnswer
  BY <1>0 DEF ResultsInPlace, LookupKeys, SameAnswer
<1> QED BY <1>2, <1>4, <1>5, <1>6, <1>7 DEF Inv

-----------------------------------------------------------------------------
(* One lemma per action.                                                   *)

LEMMA StartPreserves ==
    ASSUME Inv, NEW c \in Callers, NEW k \in RequestKeys, Start(c, k)
    PROVE  Inv'
<1> DEFINE next == [step |-> "lookup", key |-> k, result |-> NoResult]
<1>1. next \in Invocation
  BY KeysAssumption DEF Invocation, Steps
<1>2. /\ caller' \in [Callers -> Invocation]
      /\ caller'[c] = next
      /\ \A d \in Callers : d # c => caller'[d] = caller[d]
  BY <1>1, MoveValue DEF Start, Inv
<1>3. \A d \in Callers : SafeMove(d)
  BY <1>2 DEF SafeMove
<1> QED BY <1>2, <1>3, MovePreserves DEF Start

\* The moves that Resolve and Raise make are safe.
LEMMA ResolveSafe ==
    ASSUME Inv, NEW c \in Callers, NEW k \in Keys, UNCHANGED cache,
           caller[c].result = NoResult, Resolve(c, k)
    PROVE  /\ caller' \in [Callers -> Invocation]
           /\ \A d \in Callers : SafeMove(d)
<1>1. /\ caller' \in [Callers -> Invocation]
      /\ \A d \in Callers : d # c => caller'[d] = caller[d]
      /\ \/ /\ cache[k] # NoResult
            /\ caller'[c] = [step |-> "idle", key |-> k, result |-> cache[k]]
         \/ caller'[c] = [step |-> "gate", key |-> k, result |-> caller[c].result]
         \/ caller'[c] = [step |-> "idle", key |-> Key(c), result |-> caller[c].result]
  BY ResolveValue DEF Inv
<1>2. SafeMove(c)
  BY <1>1 DEF SafeMove
<1> QED BY <1>1, <1>2 DEF SafeMove

LEMMA GotoSafe ==
    ASSUME Inv, NEW c \in Callers, NEW s \in Steps \ {"calling"}, UNCHANGED cache,
           s \in {"lookup", "legacy"} => Key(c) \in RequestKeys,
           caller[c].result = NoResult, Goto(c, s)
    PROVE  /\ caller' \in [Callers -> Invocation]
           /\ \A d \in Callers : SafeMove(d)
<1>1. /\ caller' \in [Callers -> Invocation]
      /\ caller'[c] = [step |-> s, key |-> Key(c), result |-> caller[c].result]
      /\ \A d \in Callers : d # c => caller'[d] = caller[d]
  BY GotoValue DEF Inv
<1> QED BY <1>1 DEF SafeMove

LEMMA NoResultYet ==
    ASSUME Inv, NEW c \in Callers, caller[c].step \notin {"idle", "answered"}
    PROVE  caller[c].result = NoResult
BY DEF Inv, ResultsInPlace

LEMMA LookupPreserves ==
    ASSUME Inv, NEW c \in Callers, Lookup(c)
    PROVE  Inv'
<1>1. caller[c].result = NoResult /\ UNCHANGED cache /\ Key(c) \in Keys
  BY NoResultYet DEF Lookup, At, ledger, Inv, TypeOK, Key
<1>2. CASE Resolve(c, Key(c))
  BY <1>1, <1>2, ResolveSafe, MovePreserves DEF Lookup
<1>3. CASE Goto(c, "legacy")
  <2>1. Key(c) \in RequestKeys
    BY DEF Lookup, At, Inv, LookupKeys
  <2> QED BY <1>1, <1>3, <2>1, GotoSafe, MovePreserves DEF Lookup, Steps
<1> QED BY <1>2, <1>3 DEF Lookup

LEMMA DeferPreserves ==
    ASSUME Inv, NEW c \in Callers, Defer(c)
    PROVE  Inv'
<1>1. caller[c].result = NoResult /\ UNCHANGED cache
  BY NoResultYet DEF Defer, At, ledger
<1> QED BY <1>1, GotoSafe, MovePreserves DEF Defer, Raise, Steps

LEMMA LookupLegacyPreserves ==
    ASSUME Inv, NEW c \in Callers, LookupLegacy(c)
    PROVE  Inv'
<1>0. Key(c) \in RequestKeys
  BY DEF LookupLegacy, At, Inv, LookupKeys
<1>1. caller[c].result = NoResult /\ UNCHANGED cache /\ Legacy[Key(c)] \in Keys
  BY <1>0, NoResultYet, KeysAssumption DEF LookupLegacy, At, ledger
<1>2. CASE Resolve(c, Legacy[Key(c)])
  BY <1>1, <1>2, ResolveSafe, MovePreserves DEF LookupLegacy
<1>3. CASE Goto(c, "reserve") \/ Raise(c)
  BY <1>1, <1>3, GotoSafe, MovePreserves DEF LookupLegacy, Raise, Steps
<1> QED BY <1>2, <1>3 DEF LookupLegacy

LEMMA ProviderAnswerPreserves ==
    ASSUME Inv, NEW c \in Callers, ProviderAnswer(c)
    PROVE  Inv'
<1>1. caller[c].result = NoResult /\ UNCHANGED cache /\ TypeOK
  BY NoResultYet DEF ProviderAnswer, At, ledger, Inv
<1>2. ASSUME NEW r \in Results, Receive(c, r) PROVE Inv'
  <2> DEFINE next == [step |-> "answered", key |-> Key(c), result |-> r]
  <2>1. next \in Invocation /\ next.step = "answered"
    BY <1>1 DEF TypeOK, Invocation, Steps, Key
  <2>2. /\ caller' \in [Callers -> Invocation]
        /\ caller'[c] = next
        /\ \A d \in Callers : d # c => caller'[d] = caller[d]
    BY <1>1, <1>2, <2>1, MoveValue DEF Receive
  <2> QED BY <2>1, <2>2, MovePreserves DEF SafeMove, ProviderAnswer
<1>3. CASE Goto(c, "rejected") \/ Goto(c, "dropped")
  BY <1>1, <1>3, GotoSafe, MovePreserves DEF ProviderAnswer, Steps
<1> QED BY <1>2, <1>3 DEF ProviderAnswer

LEMMA CrashPreserves ==
    ASSUME Inv, NEW c \in Callers, Crash(c)
    PROVE  Inv'
<1>1. /\ caller' \in [Callers -> Invocation]
      /\ caller'[c].step = "idle" /\ caller'[c].result = NoResult
      /\ \A d \in Callers : d # c => caller'[d] = caller[d]
  BY DEF Crash, Inv, TypeOK, Invocation, Steps
<1> QED BY <1>1, MovePreserves DEF SafeMove, Crash

LEMMA ReservePreserves ==
    ASSUME Inv, NEW c \in Callers, Reserve(c)
    PROVE  Inv'
<1> DEFINE k == Key(c)
<1>1. /\ caller[c].result = NoResult /\ UNCHANGED <<cache, charged, month, dispatched>>
      /\ k \in Keys /\ TypeOK
  BY NoResultYet DEF Reserve, At, Inv, TypeOK, Key
<1>2. CASE UNCHANGED <<calls, reserved>> /\ (Resolve(c, k) \/ Raise(c))
  BY <1>1, <1>2, ResolveSafe, GotoSafe, MovePreserves DEF Raise, Steps, ledger
<1>3. CASE /\ ~Known(k) /\ WithinBudget(k)
           /\ calls' = [calls EXCEPT ![k] = [state |-> "prepared",
                                             month |-> month, charge |-> 0]]
           /\ reserved' = [reserved EXCEPT ![month] = @ + Estimate[k]]
           /\ Goto(c, "gate")
  <2>1. caller' \in [Callers -> Invocation] /\ \A d \in Callers : SafeMove(d)
    BY <1>1, <1>3, GotoSafe DEF Steps
  <2>2. month \in Months /\ Months \subseteq 0 .. LastMonth
    BY DEF Inv, TypeOK, Months
  <2>3. /\ calls' \in [Keys -> CallRow]
        /\ calls'[k].state = "prepared" /\ calls'[k].month = month
        /\ \A l \in Keys : l # k => calls'[l] = calls[l]
    BY <1>1, <1>3, <2>2 DEF TypeOK, CallRow, CallStates
  <2>4. calls[k].state = "none"
    BY <1>3 DEF Known
  <2>5. Estimate[k] \in Nat /\ reserved \in [Months -> Nat] /\ charged \in [Months -> Nat]
        /\ Budget \in Nat
    BY <1>1, BudgetAssumption DEF TypeOK
  <2>6. /\ reserved' = [reserved EXCEPT ![month] = reserved[month] + Estimate[k]]
        /\ reserved[month] + charged[month] + Estimate[k] <= Budget
        /\ charged' = charged
    BY <1>1, <1>3 DEF WithinBudget
  <2> HIDE DEF k
  <2>7. reserved' \in [Months -> Nat]
    BY <2>2, <2>5, <2>6
  <2>8. BudgetCap'
    <3> SUFFICES ASSUME NEW m \in Months PROVE reserved'[m] + charged[m] <= Budget
      BY <2>6 DEF BudgetCap
    <3>1. CASE m = month
      BY <2>2, <2>5, <2>6, <3>1
    <3>2. CASE m # month
      BY <2>2, <2>5, <2>6, <3>2 DEF Inv, BudgetCap
    <3> QED BY <3>1, <3>2
  <2> QED BY <1>1, <2>1, <2>2, <2>3, <2>4, <2>5, <2>6, <2>7, <2>8, UpdatePreserves
          DEF Unresolved, TypeOK
<1> QED BY <1>2, <1>3 DEF Reserve

(* The gate: the call becomes sent, for this caller alone.                 *)
LEMMA MarkSentPreserves ==
    ASSUME Inv, NEW c \in Callers, MarkSent(c)
    PROVE  Inv'
<1> DEFINE k == Key(c)
<1>1. /\ caller[c].result = NoResult /\ k \in Keys /\ TypeOK
      /\ UNCHANGED <<cache, reserved, charged, month, dispatched>>
  BY NoResultYet DEF MarkSent, At, Inv, TypeOK, Key
<1>2. CASE UNCHANGED calls /\ Raise(c)
  BY <1>1, <1>2, GotoSafe, MovePreserves DEF Raise, Steps, ledger
<1>3. CASE /\ MayMarkSent(k)
           /\ calls' = [calls EXCEPT ![k].state = "sent"]
           /\ Goto(c, "calling") \/ Raise(c)
  <2>1. /\ calls' \in [Keys -> CallRow]
        /\ calls'[k].state = "sent" /\ calls'[k].month = calls[k].month
        /\ \A l \in Keys : l # k => calls'[l] = calls[l]
    BY <1>1, <1>3 DEF TypeOK, CallRow, CallStates
  <2>2. /\ calls[k].state = "prepared"
        /\ \A l \in Keys : JobOf[l] = JobOf[k] /\ l # k => calls[l].state \notin Unresolved
    BY <1>3 DEF MayMarkSent, UnresolvedOf
  <2>3. PICK s \in {"calling", "idle"} :
           /\ caller' \in [Callers -> Invocation]
           /\ caller'[c] = [step |-> s, key |-> k, result |-> NoResult]
           /\ \A d \in Callers : d # c => caller'[d] = caller[d]
    BY <1>1, <1>3, GotoValue DEF Raise, Steps
  <2>4. dispatched[k] = 0
    BY <1>1, <2>2 DEF Inv, DispatchGate
  <2>5. \A d \in Callers : At(d, "calling") => Key(d) # k
    BY <2>2 DEF Inv, DispatchGate
  <2> HIDE DEF k
  <2>6. TypeOK'
    BY <1>1, <2>1, <2>3 DEF TypeOK, CallRow, Invocation
  <2>7. MonthsKnown' /\ AtMostOneDispatch' /\ BudgetCap'
    BY <1>1, <2>1, <2>2 DEF Inv, MonthsKnown, AtMostOneDispatch, BudgetCap, Open
  <2>8. OneUnresolvedPerJob'
    BY <1>1, <2>1, <2>2 DEF Inv, OneUnresolvedPerJob
  <2>9. DispatchGate'
    <3>1. \A d \in Callers : At(d, "calling")' =>
             \/ d = c /\ Key(d)' = k
             \/ d # c /\ At(d, "calling") /\ Key(d)' = Key(d) /\ Key(d) # k /\ Key(d) \in Keys
      BY <1>1, <2>3, <2>5 DEF At, Key, TypeOK
    <3>2. \A l \in Keys : calls'[l].state \in {"none", "prepared"} =>
             calls[l].state \in {"none", "prepared"}
      BY <2>1
    <3> QED BY <1>1, <2>1, <2>4, <3>1, <3>2 DEF Inv, DispatchGate
  <2>10. ResultsInPlace' /\ LookupKeys' /\ SameAnswer'
    BY <1>1, <2>3 DEF Inv, ResultsInPlace, LookupKeys, SameAnswer, At, Key
  <2> QED BY <2>6, <2>7, <2>8, <2>9, <2>10 DEF Inv
<1> QED BY <1>2, <1>3 DEF MarkSent

(* The one caller past the gate dispatches, and leaves the gate.           *)
LEMMA DispatchPreserves ==
    ASSUME Inv, NEW c \in Callers, Dispatch(c)
    PROVE  Inv'
<1> DEFINE k == Key(c)
<1>1. /\ caller[c].result = NoResult /\ k \in Keys /\ TypeOK
      /\ UNCHANGED <<calls, cache, reserved, charged, month>>
      /\ At(c, "calling")
  BY NoResultYet DEF Dispatch, At, Inv, TypeOK, Key, ledger
<1>2. /\ caller' \in [Callers -> Invocation]
      /\ caller'[c] = [step |-> "awaiting", key |-> k, result |-> NoResult]
      /\ \A d \in Callers : d # c => caller'[d] = caller[d]
  BY <1>1, GotoValue DEF Dispatch, Steps
<1>3. /\ dispatched[k] = 0 /\ calls[k].state \notin {"none", "prepared"}
      /\ \A d \in Callers : At(d, "calling") /\ d # c => Key(d) # k
  BY <1>1 DEF Inv, DispatchGate
<1>4. /\ dispatched' = [dispatched EXCEPT ![k] = dispatched[k] + 1]
      /\ dispatched \in [Keys -> Nat]
  BY <1>1 DEF Dispatch, TypeOK
<1> HIDE DEF k
<1>5. /\ dispatched' \in [Keys -> Nat] /\ dispatched'[k] = 1
      /\ \A l \in Keys : l # k => dispatched'[l] = dispatched[l]
  BY <1>1, <1>3, <1>4
<1>6. TypeOK'
  BY <1>1, <1>2, <1>5 DEF TypeOK, Invocation
<1>7. MonthsKnown' /\ OneUnresolvedPerJob' /\ BudgetCap'
  BY <1>1 DEF Inv, MonthsKnown, OneUnresolvedPerJob, BudgetCap
<1>8. AtMostOneDispatch'
  BY <1>5 DEF Inv, AtMostOneDispatch
<1>9. DispatchGate'
  <2>1. \A d \in Callers : At(d, "calling")' =>
           d # c /\ At(d, "calling") /\ Key(d)' = Key(d) /\ Key(d) # k /\ Key(d) \in Keys
    BY <1>1, <1>2, <1>3 DEF At, Key, TypeOK
  <2> QED BY <1>1, <1>3, <1>5, <2>1 DEF Inv, DispatchGate
<1>10. ResultsInPlace' /\ LookupKeys' /\ SameAnswer'
  BY <1>1, <1>2 DEF Inv, ResultsInPlace, LookupKeys, SameAnswer, At, Key
<1> QED BY <1>6, <1>7, <1>8, <1>9, <1>10 DEF Inv

(* Settling a call, by its caller or by an operator.                       *)
LEMMA SettlePreserves ==
    ASSUME Inv, NEW k \in Keys, NEW s \in Final, NEW charge \in 0 .. Estimate[k],
           MayFinish(k), Settle(k, s, charge),
           \/ UNCHANGED cache
           \/ \E r \in Results : StoreResult(k, r),
           caller' \in [Callers -> Invocation],
           \A d \in Callers : SafeMove(d),
           UNCHANGED <<month, dispatched>>
    PROVE  Inv'
<1>1. /\ calls' \in [Keys -> CallRow]
      /\ calls'[k].state = s
      /\ \A l \in Keys : l # k => calls'[l] = calls[l]
      /\ reserved' \in [Months -> Nat]
      /\ charged' \in [Months -> Nat]
      /\ \A m \in Months :
            reserved'[m] + charged'[m] <= reserved[m] + charged[m]
  BY SettleValue DEF Inv
<1>2. BudgetCap'
  BY <1>1, BudgetAssumption DEF Inv, BudgetCap, TypeOK
<1>3. /\ cache' \in [Keys -> Results \cup {NoResult}]
      /\ \A l \in Keys : cache[l] # NoResult => cache'[l] = cache[l]
  BY DEF Inv, TypeOK, StoreResult
<1>4. /\ calls[k].state \in Unresolved
      /\ calls'[k].state \notin {"none", "prepared"}
      /\ calls'[k].state \notin Unresolved \cup Open
      /\ calls[k].state \notin {"none", "prepared"}
  BY <1>1 DEF MayFinish, Unresolved, Open, Final
<1> QED BY <1>1, <1>2, <1>3, <1>4, UpdatePreserves

LEMMA FinishSuccessPreserves ==
    ASSUME Inv, NEW c \in Callers, NEW charge \in 0 .. Estimate[Key(c)],
           FinishSuccess(c, charge)
    PROVE  Inv'
<1> DEFINE k == Key(c)
           r == caller[c].result
<1>1. k \in Keys /\ r \in Results \cup {NoResult} /\ TypeOK
      /\ UNCHANGED <<month, dispatched>>
  BY DEF Inv, TypeOK, Key, FinishSuccess
<1>2. CASE /\ MayFinish(k) /\ StoreResult(k, r) /\ Settle(k, "succeeded", charge)
           /\ Return(c, k, r)
  <2>1. /\ caller' \in [Callers -> Invocation]
        /\ caller'[c] = [step |-> "idle", key |-> k, result |-> r]
        /\ \A d \in Callers : d # c => caller'[d] = caller[d]
    BY <1>1, <1>2, ReturnValue
  <2>2. cache'[k] = r
    BY <1>1, <1>2 DEF StoreResult, TypeOK
  <2>3. UNCHANGED cache \/ r \in Results
    BY <1>1, <1>2 DEF StoreResult, TypeOK
  <2>4. \A d \in Callers : SafeMove(d)
    BY <2>1, <2>2 DEF SafeMove
  <2> QED BY <1>1, <1>2, <2>1, <2>3, <2>4, SettlePreserves DEF Final
<1>3. CASE UNCHANGED ledger /\ cache[k] = r /\ Return(c, k, r)
  <2>1. /\ caller' \in [Callers -> Invocation]
        /\ caller'[c] = [step |-> "idle", key |-> k, result |-> r]
        /\ \A d \in Callers : d # c => caller'[d] = caller[d]
    BY <1>1, <1>3, ReturnValue
  <2>2. \A d \in Callers : SafeMove(d)
    BY <1>3, <2>1 DEF SafeMove, ledger
  <2> QED BY <1>1, <1>3, <2>1, <2>2, MovePreserves
<1>4. CASE UNCHANGED ledger /\ Return(c, k, NoResult)
  <2>1. /\ caller' \in [Callers -> Invocation]
        /\ caller'[c] = [step |-> "idle", key |-> k, result |-> NoResult]
        /\ \A d \in Callers : d # c => caller'[d] = caller[d]
    BY <1>1, <1>4, ReturnValue
  <2>2. \A d \in Callers : SafeMove(d)
    BY <1>4, <2>1 DEF SafeMove
  <2> QED BY <1>1, <1>4, <2>1, <2>2, MovePreserves
<1> QED BY <1>2, <1>3, <1>4 DEF FinishSuccess

LEMMA FinishErrorPreserves ==
    ASSUME Inv, NEW c \in Callers, NEW charge \in 0 .. Estimate[Key(c)],
           FinishError(c, charge)
    PROVE  Inv'
<1>1. /\ caller[c].result = NoResult /\ UNCHANGED <<cache, month, dispatched>>
      /\ Key(c) \in Keys
  BY NoResultYet DEF FinishError, At, Inv, TypeOK, Key
<1>2. caller' \in [Callers -> Invocation] /\ \A d \in Callers : SafeMove(d)
  BY <1>1, GotoSafe DEF FinishError, Raise, Steps
<1>3. CASE MayFinish(Key(c)) /\ Settle(Key(c), "error", charge)
  BY <1>1, <1>2, <1>3, SettlePreserves DEF Final
<1>4. CASE UNCHANGED <<calls, reserved, charged>>
  BY <1>1, <1>2, <1>4, MovePreserves DEF ledger
<1> QED BY <1>3, <1>4 DEF FinishError

LEMMA MarkUnknownPreserves ==
    ASSUME Inv, NEW c \in Callers, MarkUnknown(c)
    PROVE  Inv'
<1> DEFINE k == Key(c)
<1>1. /\ caller[c].result = NoResult /\ k \in Keys /\ TypeOK
      /\ UNCHANGED <<cache, reserved, charged, month, dispatched>>
  BY NoResultYet DEF MarkUnknown, At, Inv, TypeOK, Key
<1>2. caller' \in [Callers -> Invocation] /\ \A d \in Callers : SafeMove(d)
  BY <1>1, GotoSafe DEF MarkUnknown, Raise, Steps
<1>3. CASE calls[k].state = "sent" /\ calls' = [calls EXCEPT ![k].state = "unknown"]
  <2>1. /\ calls' \in [Keys -> CallRow]
        /\ calls'[k].state = "unknown" /\ calls'[k].month = calls[k].month
        /\ \A l \in Keys : l # k => calls'[l] = calls[l]
    BY <1>1, <1>3 DEF TypeOK, CallRow, CallStates
  <2>2. calls[k].month \in Months
    BY <1>1, <1>3 DEF Inv, MonthsKnown, Open
  <2>3. BudgetCap'
    BY <1>1 DEF Inv, BudgetCap
  <2> QED BY <1>1, <1>2, <1>3, <2>1, <2>2, <2>3, UpdatePreserves DEF Unresolved, TypeOK
<1>4. CASE UNCHANGED calls
  BY <1>1, <1>2, <1>4, MovePreserves DEF ledger
<1> QED BY <1>3, <1>4 DEF MarkUnknown

LEMMA ReconcilePreserves ==
    ASSUME Inv, NEW k \in Keys, NEW charge \in 0 .. Estimate[k], Reconcile(k, charge)
    PROVE  Inv'
<1>1. /\ caller' \in [Callers -> Invocation]
      /\ \A d \in Callers : SafeMove(d)
  BY DEF Reconcile, Inv, TypeOK, Invocation, SafeMove
<1> QED BY <1>1, SettlePreserves DEF Reconcile, Final

LEMMA NewMonthPreserves ==
    ASSUME Inv, NewMonth
    PROVE  Inv'
<1>1. UNCHANGED <<calls, cache, reserved, charged, caller, dispatched>>
  BY DEF NewMonth, ledger
<1>2. TypeOK'
  BY <1>1, BudgetAssumption DEF Inv, TypeOK, NewMonth, Months
<1> QED BY <1>1, <1>2 DEF Inv, MonthsKnown, DispatchGate, AtMostOneDispatch,
        OneUnresolvedPerJob, BudgetCap, ResultsInPlace, LookupKeys, SameAnswer, At, Key

-----------------------------------------------------------------------------
(* The invariant is inductive.                                             *)
THEOREM NextInv == Inv /\ [Next]_vars => Inv'
<1> SUFFICES ASSUME Inv, [Next]_vars PROVE Inv'
  OBVIOUS
<1>1. ASSUME NEW c \in Callers, Step(c) PROVE Inv'
  BY <1>1, StartPreserves, LookupPreserves, LookupLegacyPreserves, ReservePreserves,
     MarkSentPreserves, DeferPreserves, DispatchPreserves, ProviderAnswerPreserves,
     FinishSuccessPreserves, FinishErrorPreserves, MarkUnknownPreserves,
     CrashPreserves DEF Step, Charges
<1>2. ASSUME NEW k \in Keys, NEW charge \in Charges(k), Reconcile(k, charge) PROVE Inv'
  BY <1>2, ReconcilePreserves DEF Charges
<1>3. CASE NewMonth
  BY <1>3, NewMonthPreserves
<1>4. CASE UNCHANGED vars
  BY <1>4 DEF vars, Inv, TypeOK, MonthsKnown, DispatchGate, AtMostOneDispatch,
     OneUnresolvedPerJob, BudgetCap, ResultsInPlace, LookupKeys, SameAnswer, At, Key
<1> QED BY <1>1, <1>2, <1>3, <1>4 DEF Next

(* The invariant holds in every state the ledger reaches.                  *)
THEOREM Invariance == Spec => []Inv
BY InitInv, NextInv, PTL DEF Spec

(* The ledger, the budget counters and the callers keep their types: the   *)
(* reservation of a month never underflows.                                *)
THEOREM TypeCorrect == Spec => []TypeOK
<1>1. Inv => TypeOK
  BY DEF Inv
<1> QED BY Invariance, <1>1, PTL

(* Every request key reaches the provider at most once.                    *)
THEOREM PaidOnce == Spec => []AtMostOneDispatch
<1>1. Inv => AtMostOneDispatch
  BY DEF Inv
<1> QED BY Invariance, <1>1, PTL

(* A report has at most one request whose outcome is open.                 *)
THEOREM SingleUnresolved == Spec => []OneUnresolvedPerJob
<1>1. Inv => OneUnresolvedPerJob
  BY DEF Inv
<1> QED BY Invariance, <1>1, PTL

(* The monthly budget bounds reservations and charges together.            *)
THEOREM BudgetRespected == Spec => []BudgetCap
<1>1. Inv => BudgetCap
  BY DEF Inv
<1> QED BY Invariance, <1>1, PTL

(* An answer a caller returned is the stored answer of its request.        *)
THEOREM AnswersAgree == Spec => []SameAnswer
<1>1. Inv => SameAnswer
  BY DEF Inv
<1> QED BY Invariance, <1>1, PTL

-----------------------------------------------------------------------------
(* What a step may do to a call.                                           *)

Forward ==
    \A k \in Keys :
        /\ Rank(calls'[k].state) >= Rank(calls[k].state)
        /\ calls[k].state \in Final => calls'[k] = calls[k] /\ cache'[k] = cache[k]
        /\ cache[k] # NoResult => cache'[k] = cache[k]

LEMMA Ranks ==
    \A s \in CallStates :
        /\ Rank(s) \in Nat
        /\ s \notin Final => Rank(s) < Rank("error") /\ Rank(s) < Rank("succeeded")
BY DEF Rank, CallStates, Final

\* A step that touches one open call, and moves it on.
LEMMA MovesOn ==
    ASSUME TypeOK, NEW k \in Keys, calls[k].state \notin Final,
           Rank(calls'[k].state) >= Rank(calls[k].state),
           cache[k] # NoResult => cache'[k] = cache[k],
           \A l \in Keys : l # k => calls'[l] = calls[l] /\ cache'[l] = cache[l]
    PROVE  Forward
<1>1. \A l \in Keys : calls[l].state \in CallStates
  BY DEF TypeOK
<1>2. \A l \in Keys : Rank(calls[l].state) >= Rank(calls[l].state)
  BY <1>1, Ranks
<1> QED BY <1>2 DEF Forward

LEMMA StandsStill ==
    ASSUME TypeOK, UNCHANGED <<calls, cache>>
    PROVE  Forward
<1>1. \A l \in Keys : calls[l].state \in CallStates
  BY DEF TypeOK
<1>2. \A l \in Keys : Rank(calls[l].state) >= Rank(calls[l].state)
  BY <1>1, Ranks
<1> QED BY <1>2 DEF Forward

LEMMA SettleForward ==
    ASSUME Inv, NEW k \in Keys, NEW s \in Final, NEW charge \in 0 .. Estimate[k],
           MayFinish(k), Settle(k, s, charge),
           UNCHANGED cache \/ \E r \in Results \cup {NoResult} : StoreResult(k, r)
    PROVE  Forward
<1>1. calls'[k].state = s /\ \A l \in Keys : l # k => calls'[l] = calls[l]
  BY SettleValue DEF Inv
<1>2. /\ \A l \in Keys : l # k => cache'[l] = cache[l]
      /\ cache[k] # NoResult => cache'[k] = cache[k]
  BY DEF Inv, TypeOK, StoreResult
<1>3. calls[k].state \in CallStates \ Final
  BY DEF MayFinish, Unresolved, Final, CallStates
<1>4. Rank(s) >= Rank(calls[k].state)
  BY <1>3, Ranks DEF Final, CallStates
<1> QED BY <1>1, <1>2, <1>3, <1>4, MovesOn DEF Inv

LEMMA StepForward ==
    ASSUME Inv, NEW c \in Callers, Step(c)
    PROVE  Forward
<1> TypeOK /\ Key(c) \in Keys
  BY DEF Inv, TypeOK, Key
<1>1. CASE UNCHANGED <<calls, cache>>
  BY <1>1, StandsStill
<1>2. CASE Reserve(c)
  <2> SUFFICES ASSUME ~Known(Key(c)),
                      calls' = [calls EXCEPT ![Key(c)] = [state |-> "prepared",
                                                          month |-> month, charge |-> 0]]
               PROVE  Forward
    BY <1>1, <1>2 DEF Reserve
  <2>1. calls[Key(c)].state = "none" /\ UNCHANGED cache
    BY <1>2 DEF Known, Reserve
  <2>2. calls'[Key(c)].state = "prepared" /\ \A l \in Keys : l # Key(c) => calls'[l] = calls[l]
    BY DEF TypeOK
  <2>3. Rank("prepared") >= Rank("none") /\ "none" \notin Final
    BY DEF Rank, Final
  <2> QED BY <2>1, <2>2, <2>3, MovesOn
<1>3. CASE MarkSent(c)
  <2> SUFFICES ASSUME MayMarkSent(Key(c)), calls' = [calls EXCEPT ![Key(c)].state = "sent"]
               PROVE  Forward
    BY <1>1, <1>3 DEF MarkSent
  <2>1. calls[Key(c)].state = "prepared" /\ UNCHANGED cache
    BY <1>3 DEF MayMarkSent, MarkSent
  <2>2. calls'[Key(c)].state = "sent" /\ \A l \in Keys : l # Key(c) => calls'[l] = calls[l]
    BY DEF TypeOK
  <2>3. Rank("sent") >= Rank("prepared") /\ "prepared" \notin Final
    BY DEF Rank, Final
  <2> QED BY <2>1, <2>2, <2>3, MovesOn
<1>4. CASE MarkUnknown(c)
  <2> SUFFICES ASSUME calls[Key(c)].state = "sent",
                      calls' = [calls EXCEPT ![Key(c)].state = "unknown"]
               PROVE  Forward
    BY <1>1, <1>4 DEF MarkUnknown
  <2>1. UNCHANGED cache
    BY <1>4 DEF MarkUnknown
  <2>2. calls'[Key(c)].state = "unknown" /\ \A l \in Keys : l # Key(c) => calls'[l] = calls[l]
    BY DEF TypeOK
  <2>3. Rank("unknown") >= Rank("sent") /\ "sent" \notin Final
    BY DEF Rank, Final
  <2> QED BY <2>1, <2>2, <2>3, MovesOn
<1>5. ASSUME NEW charge \in Charges(Key(c)), FinishSuccess(c, charge)
      PROVE  Forward
  <2>1. CASE UNCHANGED ledger
    BY <1>1, <2>1 DEF ledger
  <2>2. caller[c].result \in Results \cup {NoResult}
    BY DEF TypeOK
  <2> QED BY <1>5, <2>1, <2>2, SettleForward DEF FinishSuccess, Final, Charges
<1>6. ASSUME NEW charge \in Charges(Key(c)), FinishError(c, charge)
      PROVE  Forward
  BY <1>1, <1>6, SettleForward DEF FinishError, Final, Charges
<1> QED BY <1>1, <1>2, <1>3, <1>4, <1>5, <1>6
        DEF Step, ledger, Start, Lookup, LookupLegacy, Defer, Dispatch, ProviderAnswer, Crash

(* A call only moves forward, and what is final or answered stays as it is *)
(* (ai_usage.py:_finish).                                                  *)
THEOREM OnlyForward == Spec => LedgerForward
<1>1. Inv /\ [Next]_vars => [Forward]_vars
  <2> SUFFICES ASSUME Inv, Next PROVE Forward
    OBVIOUS
  <2>1. ASSUME NEW k \in Keys, NEW charge \in Charges(k), Reconcile(k, charge)
        PROVE  Forward
    BY <2>1, SettleForward DEF Reconcile, Final, Charges
  <2>2. CASE NewMonth
    BY <2>2, StandsStill DEF Inv, NewMonth, ledger
  <2> QED BY <2>1, <2>2, StepForward DEF Next
<1> QED BY <1>1, Invariance, PTL DEF Spec, LedgerForward, Forward

-----------------------------------------------------------------------------
(* Sums over finite sets.  MapThenSumSet is defined by recursion; here it  *)
(* is shown to count units, so that the facts about finite sets apply.     *)

\* The units of the weights w of a set: their number is the sum of the weights.
UnitsOf(w, k) == {k} \X (1 .. w[k])
Units(w, S) == UNION {UnitsOf(w, k) : k \in S}
Total(w, S) == Cardinality(Units(w, S))

\* A finite set of natural weights has a natural total.
LEMMA UnitsFinite ==
    ASSUME NEW S, IsFiniteSet(S), NEW w, \A k \in S : w[k] \in Nat
    PROVE  IsFiniteSet(Units(w, S)) /\ Total(w, S) \in Nat
<1> DEFINE sets == {UnitsOf(w, k) : k \in S}
<1>1. IsFiniteSet(sets)
  <2> DEFINE f == [k \in S |-> UnitsOf(w, k)]
  <2>1. f \in Surjection(S, sets)
    BY DEF Surjection
  <2> HIDE DEF f, sets
  <2> QED BY <2>1, FS_Surjection
<1>2. ASSUME NEW k \in S
      PROVE  IsFiniteSet(UnitsOf(w, k))
  <2>1. w[k] \in Int /\ 1 \in Int
    OBVIOUS
  <2>2. IsFiniteSet({k}) /\ IsFiniteSet(1 .. w[k])
    BY <2>1, FS_Singleton, FS_Interval
  <2> QED BY <2>2, FS_Product DEF UnitsOf
<1>3. IsFiniteSet(UNION sets)
  <2>1. \A s \in sets : IsFiniteSet(s)
    BY <1>2
  <2> HIDE DEF sets
  <2> QED BY <1>1, <2>1, FS_UNION
<1> QED BY <1>3, FS_CardinalityType DEF Units, Total

LEMMA TotalOfNone ==
    ASSUME NEW w
    PROVE  Total(w, {}) = 0
BY FS_EmptySet DEF Total, Units

\* One more member adds its weight.
LEMMA TotalOfMore ==
    ASSUME NEW S, IsFiniteSet(S), NEW w, NEW x, x \notin S,
           \A k \in S \cup {x} : w[k] \in Nat
    PROVE  Total(w, S \cup {x}) = Total(w, S) + w[x]
<1>1. Units(w, S \cup {x}) = Units(w, S) \cup UnitsOf(w, x)
  BY DEF Units
<1>2. Units(w, S) \cap UnitsOf(w, x) = {}
  BY DEF Units, UnitsOf
<1>3. IsFiniteSet(UnitsOf(w, x)) /\ Cardinality(UnitsOf(w, x)) = w[x]
  <2>1. IsFiniteSet({x}) /\ Cardinality({x}) = 1
    BY FS_Singleton
  <2>2. IsFiniteSet(1 .. w[x]) /\ Cardinality(1 .. w[x]) = w[x]
    BY FS_Interval
  <2>3. Cardinality(UnitsOf(w, x)) = Cardinality({x}) * Cardinality(1 .. w[x])
        /\ IsFiniteSet(UnitsOf(w, x))
    BY <2>1, <2>2, FS_Product DEF UnitsOf
  <2> QED BY <2>1, <2>2, <2>3
<1>4. IsFiniteSet(Units(w, S)) /\ Cardinality(Units(w, S)) \in Nat
  BY UnitsFinite DEF Total
<1>5. Cardinality(Units(w, S) \cap UnitsOf(w, x)) = 0
  BY <1>2, FS_EmptySet
<1>6. Cardinality(Units(w, S) \cup UnitsOf(w, x))
        = Cardinality(Units(w, S)) + Cardinality(UnitsOf(w, x))
             - Cardinality(Units(w, S) \cap UnitsOf(w, x))
  BY <1>3, <1>4, FS_Union
<1>7. w[x] \in Nat
  OBVIOUS
<1>8. Cardinality(Units(w, S) \cup UnitsOf(w, x)) = Cardinality(Units(w, S)) + w[x]
  BY <1>3, <1>4, <1>5, <1>6, <1>7
<1> QED BY <1>1, <1>8 DEF Total

\* The total depends on the weights of the members only.
LEMMA TotalIsOf ==
    ASSUME NEW S, NEW w, NEW v, \A k \in S : w[k] = v[k]
    PROVE  Total(w, S) = Total(v, S)
<1>1. Units(w, S) = Units(v, S)
  BY DEF Units, UnitsOf
<1> QED BY <1>1 DEF Total

\* The recursion of MapThenSumSet.
Pick(s) == CHOOSE x \in s : TRUE
Sums(f, w, S) ==
    f = [s \in SUBSET S |-> IF s = {} THEN 0 ELSE w[Pick(s)] + f[s \ {Pick(s)}]]

LEMMA PickOne ==
    ASSUME NEW s, s # {}
    PROVE  Pick(s) \in s
BY DEF Pick

\* The totals of the subsets satisfy it ...
LEMMA SumsExist ==
    ASSUME NEW S, IsFiniteSet(S), NEW w, \A k \in S : w[k] \in Nat
    PROVE  Sums([s \in SUBSET S |-> Total(w, s)], w, S)
<1> DEFINE t == [s \in SUBSET S |-> Total(w, s)]
<1>1. ASSUME NEW s \in SUBSET S
      PROVE  Total(w, s) = IF s = {} THEN 0 ELSE w[Pick(s)] + t[s \ {Pick(s)}]
  <2>1. CASE s = {}
    BY <2>1, TotalOfNone
  <2>2. CASE s # {}
    <3> DEFINE x == Pick(s)
               r == s \ {x}
    <3>1. x \in s
      BY <2>2, PickOne
    <3> HIDE DEF x
    <3>2. r \in SUBSET S /\ s = r \cup {x} /\ x \notin r /\ IsFiniteSet(r)
      BY <3>1, FS_Subset
    <3>3. \A k \in r \cup {x} : w[k] \in Nat
      BY <3>2
    <3>4. Total(w, s) = Total(w, r) + w[x] /\ Total(w, r) \in Nat /\ w[x] \in Nat
      <4> HIDE DEF r, t
      <4>1. Total(w, r) \in Nat
        BY <3>2, <3>3, UnitsFinite
      <4>2. Total(w, r \cup {x}) = Total(w, r) + w[x]
        BY <3>2, <3>3, TotalOfMore
      <4> QED BY <3>2, <3>3, <4>1, <4>2
    <3>5. t[r] = Total(w, r)
      BY <3>2
    <3> HIDE DEF t, r
    <3>6. Total(w, s) = w[x] + t[r]
      BY <3>4, <3>5
    <3> QED BY <2>2, <3>6 DEF x, r
  <2> QED BY <2>1, <2>2
<1>2. t = [s \in SUBSET S |-> IF s = {} THEN 0 ELSE w[Pick(s)] + t[s \ {Pick(s)}]]
  BY <1>1
<1> QED BY <1>2 DEF Sums

\* ... and whatever satisfies it is the total: take a least subset where it
\* is not.
LEMMA SumsAreTotal ==
    ASSUME NEW S, IsFiniteSet(S), NEW w, \A k \in S : w[k] \in Nat, NEW f, Sums(f, w, S)
    PROVE  f[S] = Total(w, S)
<1> DEFINE bad == {s \in SUBSET S : f[s] # Total(w, s)}
<1>1. SUFFICES ASSUME bad # {}
               PROVE  FALSE
  OBVIOUS
<1>2. IsWellFoundedOn(StrictSubsetOrdering(S), SUBSET S)
  BY FS_StrictSubsetOrderingWellFounded, FS_FiniteSubsetsOfFinite
<1>3. PICK s \in bad : \A r \in bad : <<r, s>> \notin StrictSubsetOrdering(S)
  BY <1>1, <1>2, WFMin
<1>4. f[s] = IF s = {} THEN 0 ELSE w[Pick(s)] + f[s \ {Pick(s)}]
  BY <1>3 DEF Sums
<1>5. s # {}
  BY <1>3, <1>4, TotalOfNone
<1> DEFINE x == Pick(s)
           r == s \ {x}
<1>6. x \in s
  BY <1>5, PickOne
<1>7. r \in SUBSET S /\ s = r \cup {x} /\ x \notin r /\ IsFiniteSet(r)
  BY <1>3, <1>6, FS_Subset
<1>8. <<r, s>> \in StrictSubsetOrdering(S)
  BY <1>3, <1>7 DEF StrictSubsetOrdering
<1>9. f[r] = Total(w, r)
  BY <1>3, <1>7, <1>8
<1>10. f[s] = w[x] + f[r]
  BY <1>4, <1>5
<1> HIDE DEF x, r, bad
<1>11. Total(w, s) = Total(w, r) + w[x] /\ Total(w, r) \in Nat /\ w[x] \in Nat
  <2>1. \A k \in r \cup {x} : w[k] \in Nat
    BY <1>3, <1>7 DEF bad
  <2> QED BY <1>7, <2>1, TotalOfMore, UnitsFinite
<1>12. f[s] = Total(w, s)
  BY <1>9, <1>10, <1>11
<1> QED BY <1>3, <1>12 DEF bad

\* So the sums that BudgetConserved writes are totals.
LEMMA SumIsTotal ==
    ASSUME NEW S, IsFiniteSet(S), NEW w, \A k \in S : w[k] \in Nat
    PROVE  MapThenSumSet(LAMBDA k : w[k], S) = Total(w, S)
<1> DEFINE F == CHOOSE f : Sums(f, w, S)
<1>1. MapThenSumSet(LAMBDA k : w[k], S) = F[S]
  BY DEF MapThenSumSet, MapThenFoldSet, Sums, Pick
<1>2. Sums(F, w, S)
  BY SumsExist
<1> HIDE DEF F
<1> QED BY <1>1, <1>2, SumsAreTotal

LEMMA ChargesAreTotal ==
    ASSUME NEW S, IsFiniteSet(S), NEW c, NEW w, \A k \in S : w[k] = c[k].charge /\ w[k] \in Nat
    PROVE  MapThenSumSet(LAMBDA k : c[k].charge, S) = Total(w, S)
<1> DEFINE Rec(f) ==
               f = [s \in SUBSET S |-> IF s = {} THEN 0 ELSE c[Pick(s)].charge + f[s \ {Pick(s)}]]
           F == CHOOSE f : Rec(f)
<1>1. MapThenSumSet(LAMBDA k : c[k].charge, S) = F[S]
  BY DEF MapThenSumSet, MapThenFoldSet, Pick
<1>2. \A s \in SUBSET S : s # {} => w[Pick(s)] = c[Pick(s)].charge
  BY PickOne
<1>3. ASSUME NEW f
      PROVE  Sums(f, w, S) <=> Rec(f)
  BY <1>2 DEF Sums
<1>4. Rec(F)
  BY <1>3, SumsExist
<1>5. Sums(F, w, S)
  BY <1>3, <1>4
<1> HIDE DEF F
<1> QED BY <1>1, <1>5, SumsAreTotal

-----------------------------------------------------------------------------
(* The two budget counters.                                                *)

OpenIn(c, m) == {k \in Keys : c[k].state \in Open /\ c[k].month = m}
FinalIn(c, m) == {k \in Keys : c[k].state \in Final /\ c[k].month = m}
ChargeOf(c) == [k \in Keys |-> c[k].charge]

Balanced ==
    \A m \in Months :
        /\ reserved[m] = Total(Estimate, OpenIn(calls, m))
        /\ charged[m] = Total(ChargeOf(calls), FinalIn(calls, m))

LEMMA Members ==
    ASSUME TypeOK
    PROVE  /\ \A m : /\ IsFiniteSet(OpenIn(calls, m)) /\ IsFiniteSet(FinalIn(calls, m))
                    /\ OpenIn(calls, m) \subseteq Keys /\ FinalIn(calls, m) \subseteq Keys
           /\ \A k \in Keys : Estimate[k] \in Nat /\ calls[k].charge \in Nat
           /\ \A k \in Keys : ChargeOf(calls)[k] = calls[k].charge
<1>1. \A m : OpenIn(calls, m) \in SUBSET Keys /\ FinalIn(calls, m) \in SUBSET Keys
  BY DEF OpenIn, FinalIn
<1>2. \A m : IsFiniteSet(OpenIn(calls, m)) /\ IsFiniteSet(FinalIn(calls, m))
  BY <1>1, KeysAssumption, FS_Subset
<1>3. \A k \in Keys : Estimate[k] \in Nat /\ calls[k].charge \in Nat
  BY BudgetAssumption DEF TypeOK
<1> QED BY <1>1, <1>2, <1>3 DEF ChargeOf

LEMMA BalancedIsConserved ==
    ASSUME TypeOK
    PROVE  Balanced <=> BudgetConserved
<1> SUFFICES ASSUME NEW m \in Months
             PROVE  /\ MapThenSumSet(LAMBDA k : Estimate[k], OpenIn(calls, m)) = Total(Estimate, OpenIn(calls, m))
                    /\ MapThenSumSet(LAMBDA k : calls[k].charge, FinalIn(calls, m))
                         = Total(ChargeOf(calls), FinalIn(calls, m))
  BY DEF Balanced, BudgetConserved, OpenIn, FinalIn
<1>1. MapThenSumSet(LAMBDA k : Estimate[k], OpenIn(calls, m)) = Total(Estimate, OpenIn(calls, m))
  BY Members, SumIsTotal
<1>2. \A k \in FinalIn(calls, m) : ChargeOf(calls)[k] = calls[k].charge /\ ChargeOf(calls)[k] \in Nat
  BY Members
<1>3. MapThenSumSet(LAMBDA k : calls[k].charge, FinalIn(calls, m)) = Total(ChargeOf(calls), FinalIn(calls, m))
  BY <1>2, Members, ChargesAreTotal
<1> QED BY <1>1, <1>3

\* A step that neither opens nor ends a call.
LEMMA KeepsBalance ==
    ASSUME Balanced, UNCHANGED <<reserved, charged>>,
           \A k \in Keys :
               /\ calls'[k].month = calls[k].month /\ calls'[k].charge = calls[k].charge
               /\ calls'[k].state \in Open <=> calls[k].state \in Open
               /\ calls'[k].state \in Final <=> calls[k].state \in Final
    PROVE  Balanced'
<1>1. \A m : OpenIn(calls', m) = OpenIn(calls, m) /\ FinalIn(calls', m) = FinalIn(calls, m)
  BY DEF OpenIn, FinalIn
<1>2. ChargeOf(calls') = ChargeOf(calls)
  BY DEF ChargeOf
<1> QED BY <1>1, <1>2 DEF Balanced, Months

\* A call is registered.
LEMMA OpensBalance ==
    ASSUME TypeOK, Balanced, NEW k \in Keys, NEW m \in Months, calls[k].state = "none",
           calls'[k].state = "prepared", calls'[k].month = m,
           \A l \in Keys : l # k => calls'[l] = calls[l],
           reserved' = [reserved EXCEPT ![m] = reserved[m] + Estimate[k]], UNCHANGED charged
    PROVE  Balanced'
<1>1. \A n : OpenIn(calls', n) = IF n = m THEN OpenIn(calls, n) \cup {k} ELSE OpenIn(calls, n)
  BY DEF OpenIn, Open
<1>2. \A n : FinalIn(calls', n) = FinalIn(calls, n) /\ k \notin FinalIn(calls, n)
  BY DEF FinalIn, Final
<1>3. k \notin OpenIn(calls, m)
  BY DEF OpenIn, Open
<1>4. Total(Estimate, OpenIn(calls, m) \cup {k}) = Total(Estimate, OpenIn(calls, m)) + Estimate[k]
  <2>1. /\ IsFiniteSet(OpenIn(calls, m))
        /\ \A l \in OpenIn(calls, m) \cup {k} : Estimate[l] \in Nat
    BY Members
  <2> QED BY <1>3, <2>1, TotalOfMore
<1>5. \A n \in Months : Total(ChargeOf(calls'), FinalIn(calls', n)) = Total(ChargeOf(calls), FinalIn(calls, n))
  <2> SUFFICES ASSUME NEW n \in Months
               PROVE  Total(ChargeOf(calls'), FinalIn(calls, n)) = Total(ChargeOf(calls), FinalIn(calls, n))
    BY <1>2
  <2>1. \A l \in FinalIn(calls, n) : ChargeOf(calls')[l] = ChargeOf(calls)[l]
    BY <1>2 DEF FinalIn, ChargeOf
  <2> HIDE DEF ChargeOf
  <2> QED BY <2>1, TotalIsOf
<1>6. reserved \in [Months -> Nat] /\ Months' = Months
  BY DEF TypeOK, Months
<1>7. ASSUME NEW n \in Months
      PROVE  reserved'[n] = Total(Estimate, OpenIn(calls', n))
  <2>1. CASE n = m
    BY <1>1, <1>4, <1>6, <2>1 DEF Balanced
  <2>2. CASE n # m
    BY <1>1, <1>6, <2>2 DEF Balanced
  <2> QED BY <2>1, <2>2
<1> QED BY <1>5, <1>6, <1>7 DEF Balanced

\* A call is settled.
LEMMA SettlesBalance ==
    ASSUME Inv, Balanced, NEW k \in Keys, NEW s \in Final, NEW charge \in 0 .. Estimate[k],
           MayFinish(k), Settle(k, s, charge)
    PROVE  Balanced'
<1> DEFINE m == calls[k].month
<1>1. TypeOK /\ m \in Months /\ calls[k].state \in Open \ Final /\ Estimate[k] \in Nat /\ charge \in Nat
  BY BudgetAssumption DEF Inv, MonthsKnown, MayFinish, Unresolved, Open, Final
<1>2. /\ calls'[k].state = s /\ calls'[k].month = m /\ calls'[k].charge = charge
      /\ \A l \in Keys : l # k => calls'[l] = calls[l]
  <2>1. calls \in [Keys -> CallRow]
    BY <1>1 DEF TypeOK, CallRow
  <2>2. calls' = [calls EXCEPT ![k].state = s, ![k].charge = charge]
    BY DEF Settle
  <2>3. calls'[k] = [calls[k] EXCEPT !.state = s, !.charge = charge]
    BY <2>1, <2>2
  <2> QED BY <2>1, <2>2, <2>3 DEF CallRow
<1>3. /\ reserved' = [reserved EXCEPT ![m] = reserved[m] - Estimate[k]]
      /\ charged' = [charged EXCEPT ![m] = charged[m] + charge]
  BY DEF Settle
<1>4. reserved \in [Months -> Nat] /\ charged \in [Months -> Nat] /\ Months' = Months
  BY <1>1 DEF TypeOK, Months
<1> HIDE DEF m
<1>5. ASSUME NEW n
      PROVE  /\ OpenIn(calls, n) = IF n = m THEN OpenIn(calls', n) \cup {k} ELSE OpenIn(calls', n)
             /\ FinalIn(calls', n) = IF n = m THEN FinalIn(calls, n) \cup {k} ELSE FinalIn(calls, n)
             /\ k \notin OpenIn(calls', n) /\ k \notin FinalIn(calls, n)
  <2> DEFINE open == OpenIn(calls, n)
             openNext == OpenIn(calls', n)
             final == FinalIn(calls, n)
             finalNext == FinalIn(calls', n)
  <2>1. /\ k \notin openNext /\ k \notin final
        /\ n = m => k \in open /\ k \in finalNext
        /\ n # m => k \notin open /\ k \notin finalNext
    BY <1>1, <1>2 DEF OpenIn, FinalIn, Open, Final, m
  <2>2. \A l : l # k => (l \in open <=> l \in openNext)
    BY <1>2 DEF OpenIn
  <2>3. \A l : l # k => (l \in final <=> l \in finalNext)
    BY <1>2 DEF FinalIn
  <2> HIDE DEF open, openNext, final, finalNext
  <2>4. open = IF n = m THEN openNext \cup {k} ELSE openNext
    BY <2>1, <2>2
  <2>5. finalNext = IF n = m THEN final \cup {k} ELSE final
    BY <2>1, <2>3
  <2> QED BY <2>1, <2>4, <2>5 DEF open, openNext, final, finalNext
<1>6. /\ IsFiniteSet(OpenIn(calls', m)) /\ IsFiniteSet(FinalIn(calls, m))
      /\ OpenIn(calls', m) \subseteq Keys /\ FinalIn(calls, m) \subseteq Keys
      /\ \A l \in Keys : Estimate[l] \in Nat /\ calls[l].charge \in Nat
  <2>1. OpenIn(calls', m) \in SUBSET OpenIn(calls, m)
    BY <1>5
  <2>2. /\ IsFiniteSet(OpenIn(calls, m)) /\ IsFiniteSet(FinalIn(calls, m))
        /\ OpenIn(calls, m) \subseteq Keys /\ FinalIn(calls, m) \subseteq Keys
    BY <1>1, Members
  <2>3. IsFiniteSet(OpenIn(calls', m))
    BY <2>1, <2>2, FS_Subset
  <2>4. \A l \in Keys : Estimate[l] \in Nat /\ calls[l].charge \in Nat
    BY <1>1, Members
  <2> QED BY <2>1, <2>2, <2>3, <2>4
<1>7. Total(Estimate, OpenIn(calls, m)) = Total(Estimate, OpenIn(calls', m)) + Estimate[k]
      /\ Total(Estimate, OpenIn(calls', m)) \in Nat
  <2>1. \A l \in OpenIn(calls', m) \cup {k} : Estimate[l] \in Nat
    BY <1>6
  <2>2. Total(Estimate, OpenIn(calls', m) \cup {k}) = Total(Estimate, OpenIn(calls', m)) + Estimate[k]
    BY <1>5, <1>6, <2>1, TotalOfMore
  <2>3. Total(Estimate, OpenIn(calls', m)) \in Nat
    BY <1>6, <2>1, UnitsFinite
  <2> QED BY <1>5, <2>2, <2>3
<1>8. \A n : Total(ChargeOf(calls'), FinalIn(calls, n)) = Total(ChargeOf(calls), FinalIn(calls, n))
  <2> SUFFICES ASSUME NEW n
               PROVE  Total(ChargeOf(calls'), FinalIn(calls, n)) = Total(ChargeOf(calls), FinalIn(calls, n))
    OBVIOUS
  <2>1. ASSUME NEW l \in FinalIn(calls, n)
        PROVE  ChargeOf(calls')[l] = ChargeOf(calls)[l]
    <3>1. l \in Keys /\ l # k
      BY <1>5 DEF FinalIn
    <3> QED BY <1>2, <3>1 DEF ChargeOf
  <2> HIDE DEF ChargeOf
  <2> QED BY <2>1, TotalIsOf
<1>9. Total(ChargeOf(calls'), FinalIn(calls, m) \cup {k}) = Total(ChargeOf(calls'), FinalIn(calls, m)) + charge
  <2>1. /\ \A l \in FinalIn(calls, m) \cup {k} : ChargeOf(calls')[l] \in Nat
        /\ ChargeOf(calls')[k] = charge
    BY <1>1, <1>2, <1>6 DEF ChargeOf
  <2> HIDE DEF ChargeOf
  <2>2. Total(ChargeOf(calls'), FinalIn(calls, m) \cup {k})
           = Total(ChargeOf(calls'), FinalIn(calls, m)) + ChargeOf(calls')[k]
    BY <1>5, <1>6, <2>1, TotalOfMore
  <2> QED BY <2>1, <2>2
<1>10. ASSUME NEW n \in Months
       PROVE  /\ reserved'[n] = Total(Estimate, OpenIn(calls', n))
              /\ charged'[n] = Total(ChargeOf(calls'), FinalIn(calls', n))
  <2>1. /\ reserved[n] = Total(Estimate, OpenIn(calls, n))
        /\ charged[n] = Total(ChargeOf(calls), FinalIn(calls, n))
    BY DEF Balanced
  <2>2. CASE n = m
    <3>1. reserved'[n] = reserved[n] - Estimate[k] /\ charged'[n] = charged[n] + charge
      BY <1>3, <1>4, <2>2
    <3>2. OpenIn(calls, n) = OpenIn(calls', n) \cup {k} /\ FinalIn(calls', n) = FinalIn(calls, n) \cup {k}
      BY <1>5, <2>2
    <3>3. Total(ChargeOf(calls'), FinalIn(calls', n)) = Total(ChargeOf(calls), FinalIn(calls, n)) + charge
      BY <1>8, <1>9, <2>2, <3>2
    <3> QED BY <1>1, <1>7, <2>1, <2>2, <3>1, <3>3
  <2>3. CASE n # m
    <3>1. reserved'[n] = reserved[n] /\ charged'[n] = charged[n]
      BY <1>3, <1>4, <2>3
    <3>2. OpenIn(calls, n) = OpenIn(calls', n) /\ FinalIn(calls', n) = FinalIn(calls, n)
      BY <1>5, <2>3
    <3> QED BY <1>8, <2>1, <3>1, <3>2
  <2> QED BY <2>2, <2>3
<1> QED BY <1>4, <1>10 DEF Balanced

LEMMA InitBalanced == Init => Balanced
<1> SUFFICES ASSUME Init, NEW m \in Months
             PROVE  /\ reserved[m] = Total(Estimate, OpenIn(calls, m))
                    /\ charged[m] = Total(ChargeOf(calls), FinalIn(calls, m))
  BY DEF Balanced
<1>1. \A k \in Keys : calls[k].month = 0
  BY DEF Init, NoCall
<1>2. OpenIn(calls, m) = {} /\ FinalIn(calls, m) = {}
  BY <1>1 DEF OpenIn, FinalIn, Months
<1> QED BY <1>2, TotalOfNone DEF Init

LEMMA StepBalanced ==
    ASSUME Inv, Balanced, NEW c \in Callers, Step(c)
    PROVE  Balanced'
<1> TypeOK /\ Key(c) \in Keys
  BY DEF Inv, TypeOK, Key
<1>1. CASE UNCHANGED <<calls, reserved, charged>>
  BY <1>1, KeepsBalance
<1>2. CASE Reserve(c)
  <2> SUFFICES ASSUME ~Known(Key(c)),
                      calls' = [calls EXCEPT ![Key(c)] = [state |-> "prepared",
                                                          month |-> month, charge |-> 0]],
                      reserved' = [reserved EXCEPT ![month] = @ + Estimate[Key(c)]]
               PROVE  Balanced'
    BY <1>1, <1>2 DEF Reserve
  <2>1. calls[Key(c)].state = "none" /\ UNCHANGED charged /\ month \in Months
    BY <1>2 DEF Known, Reserve, TypeOK
  <2>2. /\ calls'[Key(c)].state = "prepared" /\ calls'[Key(c)].month = month
        /\ \A l \in Keys : l # Key(c) => calls'[l] = calls[l]
    BY DEF TypeOK
  <2> QED BY <2>1, <2>2, OpensBalance
<1>3. ASSUME NEW state \in Open, calls[Key(c)].state \in Open,
             calls' = [calls EXCEPT ![Key(c)].state = state], UNCHANGED <<reserved, charged>>
      PROVE  Balanced'
  <2>1. /\ calls'[Key(c)] = [calls[Key(c)] EXCEPT !.state = state]
        /\ \A l \in Keys : l # Key(c) => calls'[l] = calls[l]
    BY <1>3 DEF TypeOK
  <2>2. /\ calls'[Key(c)].state = state /\ calls'[Key(c)].month = calls[Key(c)].month
        /\ calls'[Key(c)].charge = calls[Key(c)].charge
    BY <2>1 DEF TypeOK
  <2> QED BY <1>3, <2>1, <2>2, KeepsBalance DEF Open, Final
<1>4. CASE MarkSent(c)
  BY <1>1, <1>3, <1>4 DEF MarkSent, MayMarkSent, Open
<1>5. CASE MarkUnknown(c)
  BY <1>1, <1>3, <1>5 DEF MarkUnknown, Open
<1>6. ASSUME NEW charge \in Charges(Key(c)), FinishSuccess(c, charge) \/ FinishError(c, charge)
      PROVE  Balanced'
  BY <1>1, <1>6, SettlesBalance DEF FinishSuccess, FinishError, Final, Charges, ledger
<1> QED BY <1>1, <1>2, <1>4, <1>5, <1>6
        DEF Step, ledger, Start, Lookup, LookupLegacy, Defer, Dispatch, ProviderAnswer, Crash

(* The budget counters are the sums of the ledger, in every month          *)
(* (ai_usage.py:reserve, _finish).                                         *)
THEOREM BudgetAddsUp == Spec => []BudgetConserved
<1>1. Inv /\ Balanced /\ [Next]_vars => Balanced'
  <2> SUFFICES ASSUME Inv, Balanced, [Next]_vars PROVE Balanced'
    OBVIOUS
  <2>1. ASSUME NEW k \in Keys, NEW charge \in Charges(k), Reconcile(k, charge)
        PROVE  Balanced'
    BY <2>1, SettlesBalance DEF Reconcile, Final, Charges
  <2>2. CASE UNCHANGED <<calls, reserved, charged>>
    BY <2>2, KeepsBalance
  <2> QED BY <2>1, <2>2, StepBalanced DEF Next, NewMonth, ledger, vars
<1>2. Inv /\ Balanced => BudgetConserved
  BY BalancedIsConserved DEF Inv
<1> QED BY InitBalanced, <1>1, <1>2, Invariance, PTL DEF Spec
=============================================================================
