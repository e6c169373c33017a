------------------------------ MODULE AiLedger ------------------------------
(***************************************************************************)
(* Paid OpenAI requests: the durable ledger adapters/ydb/ai_usage.py and   *)
(* the one caller of it that reaches the network,                          *)
(* adapters/openai/provider.py:OpenAIAnalyst.analyze.                      *)
(*                                                                         *)
(* Several invocations may analyze the same packet at once (an expired     *)
(* report lease, a scheduled run beside a user's regeneration).  Every     *)
(* ledger call is one serializable transaction, so a caller is a sequence  *)
(* of transactions and one network request; it may die between any two.    *)
(* A request is named by the hash of its packet and settings; Legacy gives *)
(* the key the same packet had before release 9.2.                         *)
(***************************************************************************)
EXTENDS Integers, FiniteSets, FiniteSetsExt

CONSTANTS
    Callers,
    Keys,        \* request keys, legacy ones included: SHA-256 digests
    RequestKeys, \* keys the current release computes
    Legacy,      \* request key -> legacy key of the same packet
    Jobs,        \* report ids: the job_key of a ledger entry
    JobOf,       \* request key -> report id
    Estimate,    \* request key -> tokens reserved for it
    Budget,      \* monthly_token_budget
    Results,     \* parsed answers
    NoResult,
    LastMonth    \* bound: billing months 1..LastMonth

ASSUME KeysAssumption ==
    /\ IsFiniteSet(Keys)
    /\ RequestKeys \subseteq Keys /\ RequestKeys # {}
    /\ Legacy \in [RequestKeys -> Keys \ RequestKeys]
    /\ JobOf \in [Keys -> Jobs]
ASSUME BudgetAssumption ==
    /\ Budget \in Nat
    /\ LastMonth \in Nat \ {0}
    /\ Estimate \in [Keys -> Nat \ {0}]
ASSUME ResultsAssumption == NoResult \notin Results

VARIABLES
    calls,      \* llm_calls: request key -> state, billing month, charged tokens
    cache,      \* ai_response_cache: request key -> result
    reserved,   \* ai_budget_months.reserved_tokens
    charged,    \* ai_budget_months.charged_tokens
    month,      \* the current UTC month
    caller,     \* where each invocation is in analyze
    dispatched  \* requests that reached the provider, per key

vars == <<calls, cache, reserved, charged, month, caller, dispatched>>

Months == 1 .. LastMonth
CallStates == {"none", "prepared", "sent", "unknown", "succeeded", "error"}
Unresolved == {"sent", "unknown"}
Open == {"prepared", "sent", "unknown"}
Final == {"succeeded", "error"}

Steps == {"idle", "lookup", "legacy", "reserve", "gate", "calling",
          "awaiting", "answered", "rejected", "dropped"}

NoCall == [state |-> "none", month |-> 0, charge |-> 0]
Idle == [step |-> "idle", key |-> CHOOSE k \in RequestKeys : TRUE, result |-> NoResult]

TypeOK ==
    /\ calls \in [Keys -> [state : CallStates, month : 0 .. LastMonth, charge : Nat]]
    /\ cache \in [Keys -> Results \cup {NoResult}]
    /\ reserved \in [Months -> Nat]
    /\ charged \in [Months -> Nat]
    /\ month \in Months
    /\ caller \in [Callers -> [step : Steps, key : Keys,
                               result : Results \cup {NoResult}]]
    /\ dispatched \in [Keys -> Nat]

\* A legacy key may hold a finished answer from before the current release.
Init ==
    /\ cache \in {f \in [Keys -> Results \cup {NoResult}] :
                     \A k \in RequestKeys : f[k] = NoResult}
    /\ calls = [k \in Keys |-> IF cache[k] = NoResult THEN NoCall
                               ELSE [NoCall EXCEPT !.state = "succeeded"]]
    /\ reserved = [m \in Months |-> 0]
    /\ charged = [m \in Months |-> 0]
    /\ month = 1
    /\ caller = [c \in Callers |-> Idle]
    /\ dispatched = [k \in Keys |-> 0]

-----------------------------------------------------------------------------
(* Reading the ledger.                                                     *)

Key(c) == caller[c].key
At(c, step) == caller[c].step = step
UnresolvedOf(job) == {k \in Keys : JobOf[k] = job /\ calls[k].state \in Unresolved}

\* cached(): an answer, or a registered call, is known under the key.
Known(k) == cache[k] # NoResult \/ calls[k].state # "none"

Goto(c, step) == caller' = [caller EXCEPT ![c].step = step]

\* analyze returns the result, or raises: AIRequestPending, AIRequestDeferred
\* and RuntimeError all leave the caller without one.
Return(c, k, result) ==
    caller' = [caller EXCEPT ![c] = [step |-> "idle", key |-> k, result |-> result]]
Raise(c) == Goto(c, "idle")
Receive(c, r) ==
    caller' = [caller EXCEPT ![c] = [step |-> "answered", key |-> Key(c), result |-> r]]

\* What analyze does with a known request: return its answer, go on with a
\* prepared one, raise for a failed or a dispatched one.
Resolve(c, k) ==
    IF cache[k] # NoResult THEN Return(c, k, cache[k])
    ELSE IF calls[k].state = "prepared"
         THEN caller' = [caller EXCEPT ![c].step = "gate", ![c].key = k]
         ELSE Raise(c)

ledger == <<calls, cache, reserved, charged>>

-----------------------------------------------------------------------------
(* analyze, one action per transaction or network step.                    *)

Start(c, k) ==
    /\ At(c, "idle")
    /\ caller' = [caller EXCEPT ![c] = [step |-> "lookup", key |-> k,
                                        result |-> NoResult]]
    /\ UNCHANGED <<ledger, month, dispatched>>

Lookup(c) ==
    /\ At(c, "lookup")
    /\ IF Known(Key(c)) THEN Resolve(c, Key(c)) ELSE Goto(c, "legacy")
    /\ UNCHANGED <<ledger, month, dispatched>>

\* Without a legacy entry the invocation reserves, unless it has too little
\* time left for a request and a save (_require_dispatch_time).
LookupLegacy(c) ==
    /\ At(c, "legacy")
    /\ LET old == Legacy[Key(c)] IN
          IF Known(old) THEN Resolve(c, old) ELSE Goto(c, "reserve") \/ Raise(c)
    /\ UNCHANGED <<ledger, month, dispatched>>

\* A slip of reserve: open reservations are not counted.
WithinCharges(k) == charged[month] + Estimate[k] <= Budget

WithinBudget(k) == reserved[month] + charged[month] + Estimate[k] <= Budget

Reserve(c) ==
    LET k == Key(c) IN
    /\ At(c, "reserve")
    /\ IF Known(k)
       THEN Resolve(c, k) /\ UNCHANGED <<calls, reserved>>
       ELSE IF UnresolvedOf(JobOf[k]) # {} \/ ~WithinBudget(k)
       THEN Raise(c) /\ UNCHANGED <<calls, reserved>>
       ELSE /\ calls' = [calls EXCEPT ![k] = [state |-> "prepared",
                                              month |-> month, charge |-> 0]]
            /\ reserved' = [reserved EXCEPT ![month] = @ + Estimate[k]]
            /\ Goto(c, "gate")
    /\ UNCHANGED <<cache, charged, month, dispatched>>

\* Slips of mark_sent: a sent call passes the gate again; only the call's own
\* row is examined.
MayMarkSentAgain(k) ==
    calls[k].state \in {"prepared", "sent"} /\ UnresolvedOf(JobOf[k]) \ {k} = {}
MayMarkSentAlone(k) == calls[k].state = "prepared"

\* The durable dispatch gate (mark_sent).
MayMarkSent(k) ==
    calls[k].state = "prepared" /\ UnresolvedOf(JobOf[k]) \ {k} = {}

\* If the answer of mark_sent is lost, its replay finds the call sent and
\* returns False: the caller raises and nobody dispatches.
MarkSent(c) ==
    LET k == Key(c) IN
    /\ At(c, "gate")
    /\ \/ /\ MayMarkSent(k)
          /\ calls' = [calls EXCEPT ![k].state = "sent"]
          /\ Goto(c, "calling") \/ Raise(c)
       \/ /\ ~MayMarkSent(k)
          /\ Raise(c)
          /\ UNCHANGED calls
    /\ UNCHANGED <<cache, reserved, charged, month, dispatched>>

\* Too little time is left between the reservation and the gate.
Defer(c) ==
    /\ At(c, "gate")
    /\ Raise(c)
    /\ UNCHANGED <<ledger, month, dispatched>>

\* client.responses.parse, with max_retries = 0.
Dispatch(c) ==
    /\ At(c, "calling")
    /\ dispatched' = [dispatched EXCEPT ![Key(c)] = @ + 1]
    /\ Goto(c, "awaiting")
    /\ UNCHANGED <<ledger, month>>

\* The provider answers with a valid result or an unusable response, or the
\* request ends without one (an error before sending included).
ProviderAnswer(c) ==
    /\ \/ /\ At(c, "awaiting")
          /\ (\E r \in Results : Receive(c, r)) \/ Goto(c, "rejected")
       \/ (At(c, "awaiting") \/ At(c, "calling")) /\ Goto(c, "dropped")
    /\ UNCHANGED <<ledger, month, dispatched>>

\* A slip of _finish: only the reservation is tested, not the state.
MayFinishAgain(k) ==
    calls[k].month \in Months /\ reserved[calls[k].month] >= Estimate[k]

\* _finish: the reservation becomes a charge, once.
MayFinish(k) == calls[k].state \in Unresolved /\ reserved[calls[k].month] >= Estimate[k]

\* A slip of _finish: the reservation is kept.
SettleKeepingReservation(k, state, charge) ==
    /\ calls' = [calls EXCEPT ![k].state = state, ![k].charge = charge]
    /\ reserved' = reserved
    /\ charged' = [charged EXCEPT ![calls[k].month] = @ + charge]

Settle(k, state, charge) ==
    LET m == calls[k].month IN
    /\ calls' = [calls EXCEPT ![k].state = state, ![k].charge = charge]
    /\ reserved' = [reserved EXCEPT ![m] = @ - Estimate[k]]
    /\ charged' = [charged EXCEPT ![m] = @ + charge]

StoreResult(k, r) ==
    /\ cache[k] \in {NoResult, r}
    /\ cache' = [cache EXCEPT ![k] = r]

\* A slip of finish_success: its own answer is returned even on a conflict.
FinishSuccessAnyway(c, charge) ==
    LET k == Key(c)
        r == caller[c].result
    IN
    /\ At(c, "answered")
    /\ Return(c, k, r)
    /\ IF MayFinish(k) THEN StoreResult(k, r) /\ Settle(k, "succeeded", charge)
       ELSE UNCHANGED ledger
    /\ UNCHANGED <<month, dispatched>>

\* A conflict (already final, other result) raises and changes nothing.
FinishSuccess(c, charge) ==
    LET k == Key(c)
        r == caller[c].result
    IN
    /\ At(c, "answered")
    /\ \/ /\ MayFinish(k)
          /\ StoreResult(k, r)
          /\ Settle(k, "succeeded", charge)
          /\ Return(c, k, r)
       \/ /\ ~MayFinish(k) /\ calls[k].state = "succeeded" /\ cache[k] = r
          /\ Return(c, k, r)
          /\ UNCHANGED ledger
       \/ /\ ~MayFinish(k) /\ ~(calls[k].state = "succeeded" /\ cache[k] = r)
          /\ Return(c, k, NoResult)
          /\ UNCHANGED ledger
    /\ UNCHANGED <<month, dispatched>>

FinishError(c, charge) ==
    LET k == Key(c) IN
    /\ At(c, "rejected")
    /\ \/ MayFinish(k) /\ Settle(k, "error", charge)
       \/ ~MayFinish(k) /\ UNCHANGED <<calls, reserved, charged>>
    /\ Raise(c)
    /\ UNCHANGED <<cache, month, dispatched>>

MarkUnknown(c) ==
    LET k == Key(c) IN
    /\ At(c, "dropped")
    /\ \/ /\ calls[k].state = "sent"
          /\ calls' = [calls EXCEPT ![k].state = "unknown"]
       \/ calls[k].state # "sent" /\ UNCHANGED calls
    /\ Raise(c)
    /\ UNCHANGED <<cache, reserved, charged, month, dispatched>>

\* The invocation is killed, or a transaction fails for good.
Crash(c) ==
    /\ ~At(c, "idle")
    /\ caller' = [caller EXCEPT ![c].step = "idle", ![c].result = NoResult]
    /\ UNCHANGED <<ledger, month, dispatched>>

\* An operator settles a call whose answer was lost, through the same _finish.
Reconcile(k, charge) ==
    /\ MayFinish(k)
    /\ \/ \E r \in Results : StoreResult(k, r) /\ Settle(k, "succeeded", charge)
       \/ Settle(k, "error", charge) /\ UNCHANGED cache
    /\ UNCHANGED <<month, caller, dispatched>>

NewMonth ==
    /\ month < LastMonth
    /\ month' = month + 1
    /\ UNCHANGED <<ledger, caller, dispatched>>

\* The provider never bills more than was reserved: the estimate counts every
\* byte of the prompt as a token and max_output_tokens bounds the answer.
Charges(k) == 0 .. Estimate[k]

Step(c) ==
    \/ \E k \in RequestKeys : Start(c, k)
    \/ Lookup(c)
    \/ LookupLegacy(c)
    \/ Reserve(c)
    \/ MarkSent(c)
    \/ Defer(c)
    \/ Dispatch(c)
    \/ ProviderAnswer(c)
    \/ \E charge \in Charges(Key(c)) : FinishSuccess(c, charge) \/ FinishError(c, charge)
    \/ MarkUnknown(c)
    \/ Crash(c)

Next ==
    \/ \E c \in Callers : Step(c)
    \/ \E k \in Keys : \E charge \in Charges(k) : Reconcile(k, charge)
    \/ NewMonth

Spec == Init /\ [][Next]_vars

-----------------------------------------------------------------------------
(* A request is paid for at most once: however many invocations analyze    *)
(* the same packet, die, retry or lose answers, the provider sees each     *)
(* request key at most once (provider.py:analyze, "exactly one caller can  *)
(* mark it sent").                                                         *)
AtMostOneDispatch == \A k \in Keys : dispatched[k] <= 1

(* A report never has two dispatched requests with an open outcome, so a   *)
(* changed packet cannot buy a second answer while the first may still     *)
(* arrive (ai_usage.py:reserve and mark_sent).                             *)
OneUnresolvedPerJob ==
    \A k, l \in Keys :
        /\ JobOf[k] = JobOf[l]
        /\ calls[k].state \in Unresolved
        /\ calls[l].state \in Unresolved
        => k = l

(* The two budget counters are the sums of the ledger they summarise, in   *)
(* every month: open calls are reserved in full and final ones charged     *)
(* once, whoever settles them and whenever (ai_usage.py:reserve, _finish). *)
BudgetConserved ==
    \A m \in Months :
        /\ reserved[m] = MapThenSumSet(LAMBDA k : Estimate[k],
               {k \in Keys : calls[k].state \in Open /\ calls[k].month = m})
        /\ charged[m] = MapThenSumSet(LAMBDA k : calls[k].charge,
               {k \in Keys : calls[k].state \in Final /\ calls[k].month = m})

(* No month's reservations and charges together pass the monthly budget,   *)
(* although callers reserve concurrently and settle in a later month.      *)
BudgetCap == \A m \in Months : reserved[m] + charged[m] <= Budget

(* Whoever gets an answer for a request gets the stored one: a result      *)
(* returned by analyze is the cached result of its key, so late and        *)
(* reconciled answers cannot diverge from what a caller already used.      *)
SameAnswer ==
    \A c \in Callers :
        At(c, "idle") /\ caller[c].result # NoResult =>
            cache[Key(c)] = caller[c].result

(* A call only moves forward, and once it is final neither its outcome,    *)
(* its charge nor its cached answer changes (ai_usage.py:_finish).         *)
Rank(state) ==
    CASE state = "none" -> 0 [] state = "prepared" -> 1 [] state = "sent" -> 2
      [] state = "unknown" -> 3 [] OTHER -> 4

LedgerForward ==
    [][\A k \in Keys :
          /\ Rank(calls'[k].state) >= Rank(calls[k].state)
          /\ calls[k].state \in Final =>
                calls'[k] = calls[k] /\ cache'[k] = cache[k]
          /\ cache[k] # NoResult => cache'[k] = cache[k]]_vars
=============================================================================
