--------------------------- MODULE HttpSseDriver ---------------------------
(***************************************************************************)
(* driver-http-sse, one task: invoke posts it to the agent and spawns      *)
(* stream_events, which reads the agent's SSE stream and connects again    *)
(* after a disconnect or an error. The agent numbers the events of the     *)
(* task 1, 2, ... and may send a connection events from any place not past *)
(* what it is asked for: `after_seq` is a wish. Frames the driver skips    *)
(* (no data, another protocol, another task) are not modelled; one it      *)
(* cannot decode is an error of the connection.                            *)
(***************************************************************************)
EXTENDS Naturals, Sequences, FiniteSets

CONSTANTS
  ReconnectAttempts,   \* config.reconnect_attempts (8)
  MaxRemote            \* bound: events of the remote task

VARIABLES
  sse,          \* stream_events: "idle", "refused", "connecting", "reading",
                \* "waiting" (the backoff), "ended"
  emitted,      \* how many events the remote task has emitted
  finished,     \* is the last of them terminal?
  sent,         \* how many of them this connection has carried or passed over
  after_seq, latest_seq,
  attempts,     \* saturates at ReconnectAttempts + 1: only > is asked
  given,        \* seqs put into the core's channel, 0 for stream_unavailable
  listening     \* does the core still hold the receiver?

remoteVars == <<emitted, finished>>
seqVars    == <<after_seq, latest_seq>>
sseVars    == <<sse, remoteVars, sent, seqVars, attempts, given, listening>>

Init ==
  /\ sse = "idle" /\ emitted = 0 /\ finished = FALSE /\ sent = 0
  /\ after_seq = 0 /\ latest_seq = 0 /\ attempts = 0
  /\ given = <<>> /\ listening = FALSE

\* invoke: the manifest, then the POST; either may fail, the POST even when
\* the agent has taken the task.
Invoke ==
  /\ sse = "idle"
  /\ \/ sse' = "connecting" /\ listening' = TRUE
     \/ sse' = "refused" /\ UNCHANGED listening
  /\ UNCHANGED <<remoteVars, sent, seqVars, attempts, given>>

\* The remote task goes on by itself.
Emit ==
  /\ sse \notin {"idle", "refused"} /\ ~finished /\ emitted < MaxRemote
  /\ emitted' = emitted + 1
  /\ finished' \in BOOLEAN
  /\ UNCHANGED <<sse, sent, seqVars, attempts, given, listening>>

\* run_driver leaves its loop, by the timeout or behind a terminal event.
Leave ==
  /\ listening
  /\ listening' = FALSE
  /\ UNCHANGED <<sse, remoteVars, sent, seqVars, attempts, given>>

-----------------------------------------------------------------------------
(* stream_events                                                           *)

\* Mutant: a connection starts the count again.
OneMoreReset == 1

OneMore == IF attempts > ReconnectAttempts THEN attempts ELSE attempts + 1

\* Err(_): after_seq stays where the connection began.
Fails ==
  /\ attempts' = OneMore
  /\ IF OneMore > ReconnectAttempts
     THEN /\ sse' = "ended"
          /\ given' = IF listening THEN Append(given, 0) ELSE given
     ELSE sse' = "waiting" /\ UNCHANGED given

\* Mutant: the last event of a connection that ends is asked for no more,
\* nor is the one behind it.
LastSeqAhead == latest_seq + 1

LastSeq == latest_seq

\* Ok(Disconnected(last_seq)): no limit here.
Disconnected ==
  /\ sse = "reading"
  /\ sse' = "waiting"
  /\ after_seq' = LastSeq
  /\ attempts' = OneMore
  /\ UNCHANGED <<remoteVars, sent, latest_seq, given, listening>>

WakeUp ==
  /\ sse = "waiting"
  /\ sse' = "connecting"
  /\ UNCHANGED <<remoteVars, sent, seqVars, attempts, given, listening>>

-----------------------------------------------------------------------------
(* read_sse                                                                *)

\* The request is sent with after_seq; the agent may start earlier.
Connect ==
  /\ sse = "connecting"
  /\ sse' = "reading"
  /\ latest_seq' = after_seq
  /\ \E from \in 0..after_seq : sent' = from
  /\ UNCHANGED <<remoteVars, after_seq, attempts, given, listening>>

\* No connection, no success status, a timeout (of the first event, of an
\* idle stream, of the request as a whole), a broken or oversized chunk.
Error ==
  /\ sse \in {"connecting", "reading"}
  /\ Fails
  /\ UNCHANGED <<remoteVars, sent, seqVars, listening>>

\* An event at or below latest_seq is skipped.
Skip ==
  /\ sse = "reading" /\ sent < emitted /\ sent + 1 <= latest_seq
  /\ sent' = sent + 1
  /\ UNCHANGED <<sse, remoteVars, seqVars, attempts, given, listening>>

\* Any other is given to the core and ends the stream if it is terminal.
Give ==
  /\ sse = "reading" /\ sent < emitted /\ sent + 1 > latest_seq /\ listening
  /\ sent' = sent + 1
  /\ latest_seq' = sent + 1
  /\ given' = Append(given, sent + 1)
  /\ sse' = IF finished /\ sent + 1 = emitted THEN "ended" ELSE sse
  /\ UNCHANGED <<remoteVars, after_seq, attempts, listening>>

\* tx.send fails when the core has left: an error as any other.
GiveNobody ==
  /\ sse = "reading" /\ sent < emitted /\ sent + 1 > latest_seq /\ ~listening
  /\ sent' = sent + 1
  /\ latest_seq' = sent + 1
  /\ Fails
  /\ UNCHANGED <<remoteVars, after_seq, listening>>

Next ==
  \/ Invoke \/ Emit \/ Leave
  \/ Connect \/ Error \/ Skip \/ Give \/ GiveNobody \/ Disconnected \/ WakeUp

\* The spawned task runs on, and its reads have timeouts.
Fairness ==
  /\ WF_sseVars(Connect \/ Error \/ Skip \/ Give \/ GiveNobody \/ Disconnected)
  /\ WF_sseVars(WakeUp)

Spec == Init /\ [][Next]_sseVars /\ Fairness
-----------------------------------------------------------------------------
(* Properties                                                              *)

\* The core gets an event only behind all earlier ones of the remote task:
\* no reconnect, clean or after an error, leaves a gap.
NoLoss ==
  \A i \in 1..Len(given) : given[i] > 1 => \E j \in 1..i - 1 : given[j] = given[i] - 1

\* A task's stream ends, by the terminal event or by stream_unavailable,
\* unless the agent closes connections in good order for ever.
StreamEnds ==
  []<><<Disconnected>>_sseVars \/ (sse = "connecting" ~> sse = "ended")

\* An event is given to the core once. (The code does not ensure it: after an
\* error the driver asks again for what the broken connection has carried.)
NoDuplicate ==
  \A i, j \in 1..Len(given) : given[i] = given[j] => i = j
=============================================================================
