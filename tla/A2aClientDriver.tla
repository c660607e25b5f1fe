-------------------------- MODULE A2aClientDriver --------------------------
(***************************************************************************)
(* driver-a2a-client, one task: invoke spawns one SendMessage to the       *)
(* remote A2A server, whose answer is the whole stream of the task; cancel *)
(* and provide_input address the remote task by the id that answer gave.   *)
(* The server speaks one of two JSON-RPC dialects, the wires; under Auto a *)
(* probe of the server finds which, once for the driver and again for each *)
(* invoke that starts before the driver knows (clone_state).               *)
(***************************************************************************)
EXTENDS Naturals, Sequences, FiniteSets

CONSTANTS MaxCalls   \* bound: calls of health, cancel and provide_input

VARIABLES
  wire,       \* config.wire_format: "sdk", "spec", "auto"
  speaks,     \* the dialect of the server
  cache,      \* auto_wire_cache of the driver: "none", "sdk", "spec"
  send,       \* the spawned task: "no", "resolving", "sending",
              \* "resolving again", "retrying", "told", "ended"
  using,      \* the wire of the spawned task: "none", "sdk", "spec"
  started,    \* remote tasks the server began for this invoke
  remote_ids, \* is the task in remote_task_ids?
  tokens,     \* is it in cancellation_tokens?
  canceling,  \* is a cancel waiting for its answer?
  events,     \* what the task's channel received
  calls

wireVars   == <<wire, speaks>>
a2aVars    == <<wireVars, cache, send, using, started, remote_ids, tokens, canceling,
                events, calls>>

Wires == {"sdk", "spec"}
Terminal == {"Completed", "Failed", "Cancelled"}

Init ==
  /\ wire \in Wires \cup {"auto"} /\ speaks \in Wires
  /\ cache = "none" /\ send = "no" /\ using = "none" /\ started = 0
  /\ remote_ids = FALSE /\ tokens = FALSE /\ canceling = FALSE
  /\ events = <<>> /\ calls = 0

-----------------------------------------------------------------------------
(* The server, as the driver sees it (external)                            *)

\* probe_wire_format: sdk first. A server that answers an unknown method with
\* some other error than "method not found" passes for one that knows it.
Probed == IF speaks = "sdk" THEN {"sdk"} ELSE {"sdk", "spec"}

\* What comes of one request under wire w, and whether the server began a
\* task: an error or a lost answer does not tell that it did not.
Answers(w) ==
  IF w = speaks
  THEN [what : {"terminal", "open", "error"}, begun : {1}]
         \cup [what : {"error"}, begun : {0}]
  ELSE [what : {"method not found", "error"}, begun : {0}]

\* task_to_terminal
EventOf(answer) ==
  CASE answer.what = "terminal" -> Terminal
    [] answer.what = "open"     -> {"InputRequired", "Progress"}
    [] OTHER                    -> {"Failed"}

-----------------------------------------------------------------------------
(* invoke and the task it spawns                                           *)

\* clone_state: the clone has the wire, or what the driver has found so far.
Invoke ==
  /\ send = "no"
  /\ tokens' = TRUE
  /\ events' = <<"Accepted">>
  /\ using' = IF wire = "auto" THEN cache ELSE wire
  /\ send' = IF using' = "none" THEN "resolving" ELSE "sending"
  /\ UNCHANGED <<wireVars, cache, started, remote_ids, canceling, calls>>

\* The answer's event is sent once the id it names is known to cancel.
Tells(answer) ==
  /\ send' = "told"
  /\ \E e \in EventOf(answer) : events' = Append(events, e)
  /\ remote_ids' = (answer.what \in {"terminal", "open"})


\* Behind a terminal event the task is forgotten; the channel closes.
Forget ==
  /\ send = "told"
  /\ send' = "ended"
  /\ IF events[Len(events)] \in Terminal
     THEN remote_ids' = FALSE /\ tokens' = FALSE
     ELSE UNCHANGED <<remote_ids, tokens>>
  /\ UNCHANGED <<wireVars, cache, using, started, canceling, events, calls>>

\* resolve_auto_wire, for the first request and, past the cache, the second.
Resolve ==
  /\ send \in {"resolving", "resolving again"}
  /\ \/ /\ using' \in Probed
        /\ send' = IF send = "resolving" THEN "sending" ELSE "retrying"
        /\ UNCHANGED <<remote_ids, events>>
     \/ /\ Tells([what |-> "error"])
        /\ UNCHANGED using
  /\ UNCHANGED <<wireVars, cache, started, tokens, canceling, calls>>

\* Mutant: any error of the first request is worth a second one.
RetryableAny(answer) == answer.what \in {"method not found", "error"}

\* Only a method the server does not know, and only under Auto.
Retryable(answer) == wire = "auto" /\ answer.what = "method not found"

\* Mutant: the answer of a task that is still open is no event.
AnsweredSilently(answer) ==
  IF answer.what = "open"
  THEN send' = "told" /\ remote_ids' = TRUE /\ UNCHANGED events
  ELSE Tells(answer)

Answered(answer) == Tells(answer)

\* execute: the request, and at most one more.
Request ==
  /\ send \in {"sending", "retrying"}
  /\ \E answer \in Answers(using) :
       /\ started' = started + answer.begun
       /\ IF send = "sending" /\ Retryable(answer)
          THEN send' = "resolving again" /\ UNCHANGED <<remote_ids, events>>
          ELSE Answered(answer)
  /\ UNCHANGED <<wireVars, cache, using, tokens, canceling, calls>>

-----------------------------------------------------------------------------
(* health, provide_input, cancel: on the driver itself                     *)

\* resolved_wire: what the first of them finds is kept for good.
Resolved == cache' \in IF wire = "auto" /\ cache = "none" THEN Probed \cup {"none"} ELSE {cache}

\* health sends an empty message, and provide_input one more to the remote
\* task: neither reads the answer. (Each may begin a remote task of its own:
\* health always, provide_input under the spec wire, which drops the task id.)
Message ==
  /\ calls < MaxCalls
  /\ calls' = calls + 1
  /\ Resolved
  /\ UNCHANGED <<wireVars, send, using, started, remote_ids, tokens, canceling,
                 events>>

\* cancel refuses a task whose remote id is not known.
CancelCall ==
  /\ calls < MaxCalls /\ remote_ids /\ ~canceling
  /\ calls' = calls + 1
  /\ canceling' = TRUE
  /\ Resolved
  /\ UNCHANGED <<wireVars, send, using, started, remote_ids, tokens, events>>

\* Whatever the answer, the task is forgotten.
CancelReturn ==
  /\ canceling
  /\ canceling' = FALSE
  /\ remote_ids' = FALSE /\ tokens' = FALSE
  /\ UNCHANGED <<wireVars, cache, send, using, started, events, calls>>

Next ==
  \/ Invoke \/ Resolve \/ Request \/ Forget
  \/ Message \/ CancelCall \/ CancelReturn

\* Every request has a timeout (config.timeout_secs).
Fairness ==
  /\ WF_a2aVars(Resolve) /\ WF_a2aVars(Request) /\ WF_a2aVars(Forget)
  /\ WF_a2aVars(CancelReturn)

Spec == Init /\ [][Next]_a2aVars /\ Fairness
-----------------------------------------------------------------------------
(* Properties                                                              *)

\* One invoke begins at most one task on the server: the second request of
\* execute follows only an answer that says the first was not understood.
OneRemoteTask == started <= 1

\* The stream of an accepted task ends, with the event of its answer.
StreamEnds == send \in {"resolving", "sending"} ~> (send = "ended" /\ Len(events) = 2)

\* The driver remembers the ids of a task only while it is being sent or the
\* server has left it open: a cancel cannot bring them back.
ForgetsFinished ==
  (send = "ended" /\ events[Len(events)] \in Terminal) => (~remote_ids /\ ~tokens)
=============================================================================
