----------------------------- MODULE Invocations -----------------------------
(***************************************************************************)
(* The instance that serves the cloud (cloud/runtime.py): threads that     *)
(* take requests, one job at a time, each in a child process that reports  *)
(* through a pipe and is bounded in time.                                  *)
(*                                                                         *)
(* Time is a choice: the bound of a job, the deadline of a request's body  *)
(* and the stop of the server may come before any step of the others.      *)
(***************************************************************************)
EXTENDS Integers, FiniteSets, Sequences

CONSTANTS Requests, Statuses    \* of a finished job: what callable_ may end in

VARIABLES
    request,    \* request -> where its thread is
    input,      \* request -> its body: "open", "done" or "cut" by the timer
    reply,      \* request -> what was answered; 0 before
    busy,       \* active_job: the request that holds it
    child,      \* request -> its process
    pipe,       \* request -> messages not received yet
    effects,    \* requests whose job did its work
    counters,   \* successes, failures, timeouts
    stopping, ready, writes

NoHolder == "nobody"
Alive == {"spawned", "working", "sent"}
Counted == [ok |-> 0, failure |-> 0, timeout |-> 0]

InvocationsInit ==
    /\ request = [r \in Requests |-> "new"] /\ input = [r \in Requests |-> "open"] /\ reply = [r \in Requests |-> 0]
    /\ busy = NoHolder /\ child = [r \in Requests |-> "none"] /\ pipe = [r \in Requests |-> <<>>]
    /\ effects = {} /\ counters = Counted /\ stopping = FALSE /\ ready \in BOOLEAN /\ writes \in BOOLEAN

Goes(r, place) == request' = [request EXCEPT ![r] = place]
Answers(r, code) == /\ reply' = [reply EXCEPT ![r] = code] /\ Goes(r, "done")

Refuses(r, code) == Answers(r, code) /\ input' = [input EXCEPT ![r] = "done"]
\* _handle_observed: nobody known, another origin, no such route; timers come through a
\* private path and need neither.
Deny(r) ==
    /\ request[r] = "new" /\ ~stopping
    /\ \E code \in {401, 403, 404} : Refuses(r, code)
    /\ UNCHANGED <<busy, child, pipe, effects, counters, stopping, ready, writes>>
\* A job: maintenance and the tunnel stop all but monitoring, and a timer has no body to read.
Receive(r) ==
    /\ request[r] = "new" /\ ~stopping
    /\ \E monitoring, timer \in BOOLEAN :
          IF ~monitoring /\ (~writes \/ ~ready) THEN Refuses(r, 503)
          ELSE IF timer THEN Goes(r, "accepted") /\ input' = [input EXCEPT ![r] = "done"] /\ UNCHANGED reply
          ELSE Goes(r, "body") /\ UNCHANGED <<input, reply>>
    /\ UNCHANGED <<busy, child, pipe, effects, counters, stopping, ready, writes>>
\* _json_body: read in time, or refused.
ReadBody(r) ==
    /\ request[r] = "body"
    /\ \/ input[r] = "open" /\ Goes(r, "read") /\ UNCHANGED <<input, reply>>
       \/ Answers(r, 400) /\ input' = [input EXCEPT ![r] = IF @ = "cut" THEN "cut" ELSE "done"]
    /\ UNCHANGED <<busy, child, pipe, effects, counters, stopping, ready, writes>>
\* _close_input: the timer of the body, unless the body is done.
CutInput(r) ==
    /\ request[r] \in {"body", "read"} /\ input[r] = "open" /\ input' = [input EXCEPT ![r] = "cut"]
    /\ UNCHANGED <<request, reply, busy, child, pipe, effects, counters, stopping, ready, writes>>
\* _finish_input looks at nothing: a body read to its end goes on although the timer has
\* shut the connection meanwhile.
FinishInput(r) ==
    /\ request[r] = "read" /\ Goes(r, "accepted")
    /\ input' = [input EXCEPT ![r] = IF @ = "cut" THEN "cut" ELSE "done"]
    /\ UNCHANGED <<reply, busy, child, pipe, effects, counters, stopping, ready, writes>>

\* A slip: the slot is looked at, and taken later.
Unguarded == TRUE
Available == busy = NoHolder
Acquire(r) ==
    /\ request[r] = "accepted"
    /\ IF Available THEN /\ busy' = r /\ child' = [child EXCEPT ![r] = "spawned"] /\ Goes(r, "polling")
                         /\ UNCHANGED reply
       ELSE Answers(r, 409) /\ UNCHANGED <<busy, child>>
    /\ UNCHANGED <<input, pipe, effects, counters, stopping, ready, writes>>

-----------------------------------------------------------------------------
\* _child_entry: the job, its measurements on the way, one last message.
Work(r) ==
    /\ child[r] = "spawned" /\ child' = [child EXCEPT ![r] = "working"]
    /\ pipe' = [pipe EXCEPT ![r] = Append(@, "metric")]
    /\ UNCHANGED <<request, input, reply, busy, effects, counters, stopping, ready, writes>>
Send(r) ==
    /\ child[r] = "working" /\ child' = [child EXCEPT ![r] = "sent"]
    /\ \E status \in Statuses :
          /\ pipe' = [pipe EXCEPT ![r] = Append(@, status)]
          /\ effects' = IF status = "ok" THEN effects \cup {r} ELSE effects
    /\ UNCHANGED <<request, input, reply, busy, counters, stopping, ready, writes>>
\* The process ends, by itself or because it is killed from outside.
Exit(r) ==
    /\ child[r] \in Alive /\ child' = [child EXCEPT ![r] = "exited"]
    /\ UNCHANGED <<request, input, reply, busy, pipe, effects, counters, stopping, ready, writes>>

\* run_bounded: a message, the end of the pipe, or a moment without either.
Poll(r) ==
    /\ request[r] = "polling"
    /\ \/ /\ pipe[r] # <<>> /\ pipe' = [pipe EXCEPT ![r] = Tail(@)]
          /\ Goes(r, IF Head(pipe[r]) = "metric" THEN "polling" ELSE "join " \o Head(pipe[r]))
       \/ pipe[r] = <<>> /\ Goes(r, IF child[r] = "exited" THEN "end failure" ELSE "quiet") /\ UNCHANGED pipe
    /\ UNCHANGED <<input, reply, busy, child, effects, counters, stopping, ready, writes>>
\* exitcode is asked for after the pipe was found empty: a child that reports and
\* exits in between has failed.
Ask(r) ==
    /\ request[r] = "quiet" /\ Goes(r, IF child[r] = "exited" THEN "end failure" ELSE "polling")
    /\ UNCHANGED <<input, reply, busy, child, pipe, effects, counters, stopping, ready, writes>>
\* process.join
Join(r) ==
    /\ child[r] = "exited"
    /\ \E status \in Statuses : request[r] = "join " \o status /\ Goes(r, "end " \o status)
    /\ UNCHANGED <<input, reply, busy, child, pipe, effects, counters, stopping, ready, writes>>
\* The bound of the job, or the stop of the server, wherever the loop is.
Waiting == {"polling", "quiet"} \cup {"join " \o status : status \in Statuses}
Expire(r) ==
    /\ request[r] \in Waiting /\ Goes(r, "end timeout")
    /\ UNCHANGED <<input, reply, busy, child, pipe, effects, counters, stopping, ready, writes>>

\* finally: a child that is still alive is terminated, killed if need be, and joined.
Ended == {"end timeout"} \cup {"end " \o status : status \in {"failure"} \cup Statuses}
Reap(r) ==
    /\ request[r] \in Ended
    /\ child' = [child EXCEPT ![r] = "exited"]
    /\ Goes(r, CASE request[r] = "end ok" -> "reply 200" [] request[r] = "end timeout" -> "reply 504"
                 [] request[r] = "end validation" -> "reply 400" [] OTHER -> "reply 502")
    /\ UNCHANGED <<input, reply, busy, pipe, effects, counters, stopping, ready, writes>>

Code(r) == CASE request[r] = "reply 200" -> 200 [] request[r] = "reply 504" -> 504
             [] request[r] = "reply 400" -> 400 [] OTHER -> 502
\* Counters, the reply (lost where the connection is gone) and, finally, the slot.
Reply(r) ==
    /\ request[r] \in {"reply 200", "reply 504", "reply 400", "reply 502"}
    /\ counters' = [counters EXCEPT ![CASE Code(r) = 200 -> "ok" [] Code(r) = 504 -> "timeout" [] OTHER -> "failure"] = @ + 1]
    /\ Answers(r, IF input[r] = "cut" THEN 0 ELSE Code(r))
    /\ busy' = NoHolder
    /\ UNCHANGED <<input, child, pipe, effects, stopping, ready, writes>>

\* stop_server, a signal; the tunnel comes and goes; an operator changes the mode.
Stop == ~stopping /\ stopping' = TRUE /\ UNCHANGED <<request, input, reply, busy, child, pipe, effects, counters, ready, writes>>
TunnelFails == ready /\ ready' = FALSE /\ UNCHANGED <<request, input, reply, busy, child, pipe, effects, counters, stopping, writes>>

InvocationsNext ==
    \/ Stop \/ TunnelFails
    \/ \E r \in Requests :
          \/ Deny(r) \/ Receive(r) \/ ReadBody(r) \/ CutInput(r) \/ FinishInput(r) \/ Acquire(r)
          \/ Work(r) \/ Send(r) \/ Exit(r) \/ Poll(r) \/ Ask(r) \/ Join(r) \/ Expire(r) \/ Reap(r) \/ Reply(r)

-----------------------------------------------------------------------------
(* One job at a time: while a child is alive its own request holds the slot, and once the      *)
(* request is answered, after a timeout too, no work of it goes on ("no timed-out work remains *)
(* alive", run_bounded).                                                                       *)
NoStrayWork == \A r \in Requests : child[r] \in Alive => busy = r /\ request[r] # "done"

(* An answer says what happened: 200 only where the job did all its work, a refusal only where *)
(* it was never begun; the slot is free again after every answer, heard or not.                *)
AnswersAreTrue ==
    /\ \A r \in Requests :
          /\ reply[r] = 200 => r \in effects
          /\ reply[r] \in {401, 403, 404, 409, 503} => child[r] = "none" /\ r \notin effects
          /\ request[r] = "done" => busy # r
    /\ counters.ok + counters.failure + counters.timeout =
          Cardinality({r \in Requests : request[r] = "done" /\ child[r] # "none"})

=============================================================================
