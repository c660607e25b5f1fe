---------------------------- MODULE AgentDrivers ----------------------------
(***************************************************************************)
(* The drivers behind the core's AgentDriver trait. adapterd builds one    *)
(* for each configured agent, by the kind of its transport (build_driver); *)
(* they share no state, so a behaviour of this specification is one of one *)
(* driver, chosen at the start. (adapterd does not build the ANP driver    *)
(* yet; it is used as a library.)                                          *)
(***************************************************************************)
EXTENDS Naturals, Sequences, FiniteSets

CONSTANTS
  Task, NoTask, StdioCap, MaxLines,            \* StdioDriver
  ReconnectAttempts,                           \* HttpSseDriver
  MaxCalls,                                    \* A2aClientDriver
  AcpPage,                                     \* AcpClientDriver
  MaxRemote,                                   \* HttpSse-, AcpClientDriver
  MaxChanges, MaxProgress,                     \* McpDriver
  Caller, MaxSessions                          \* AnpClientDriver

ASSUME DriversAssumption ==
  /\ NoTask \notin Task
  /\ {StdioCap, AcpPage, MaxRemote} \subseteq Nat \ {0}
  /\ {MaxLines, ReconnectAttempts, MaxCalls, MaxChanges, MaxProgress, MaxSessions}
       \subseteq Nat

VARIABLES
  driver,                                      \* the kind of the driver
  process, lock, agent, stdout, lines, closed, pending, reader, sending, invoked,
  stream, taken, receiver,
  sse, emitted, finished, sent, after_seq, latest_seq, attempts, given, listening,
  wire, speaks, cache, send, using, started, remote_ids, tokens, canceling, events,
  calls,
  child, reader_loop, acp_emitted, acp_finished, acp, active, last_seq, acp_given,
  acp_listening,
  tools, notes, signal, mcp, watcher, pages, schemas, skills, stale,
  call, handle, token, progress, updates, outcome, out,
  state, peer, capabilities, negotiated, expired, sessions, at, holds, sends

Stdio == INSTANCE StdioDriver
Sse   == INSTANCE HttpSseDriver
A2a   == INSTANCE A2aClientDriver
Acp   == INSTANCE AcpClientDriver WITH emitted <- acp_emitted, finished <- acp_finished,
                                       given <- acp_given, listening <- acp_listening
Mcp   == INSTANCE McpDriver
Anp   == INSTANCE AnpClientDriver

stdioOwn == <<process, lock, agent, stdout, lines, closed, pending, reader, sending,
              invoked, stream, taken, receiver>>
sseOwn   == <<sse, emitted, finished, sent, after_seq, latest_seq, attempts, given,
              listening>>
acpOwn   == <<child, reader_loop, acp_emitted, acp_finished, acp, active, last_seq,
              acp_given, acp_listening>>
a2aOwn   == <<wire, speaks, cache, send, using, started, remote_ids, tokens, canceling,
              events, calls>>
mcpOwn   == <<tools, notes, signal, mcp, watcher, pages, schemas, skills, stale,
              call, handle, token, progress, updates, outcome, out>>
anpOwn   == <<state, peer, capabilities, negotiated, expired, sessions, at, holds, sends>>
vars     == <<driver, stdioOwn, sseOwn, acpOwn, a2aOwn, mcpOwn, anpOwn>>

Kind == {"stdio", "http_sse", "a2a_client", "acp_client", "mcp", "anp"}

\* build_driver
Init ==
  /\ driver \in Kind
  /\ Stdio!Init /\ Sse!Init /\ A2a!Init /\ Acp!Init /\ Mcp!Init /\ Anp!Init
  /\ driver # "a2a_client" => wire = "sdk" /\ speaks = "sdk"

Next ==
  \/ /\ driver = "stdio" /\ Stdio!Next
     /\ UNCHANGED <<driver, sseOwn, acpOwn, a2aOwn, mcpOwn, anpOwn>>
  \/ /\ driver = "http_sse" /\ Sse!Next
     /\ UNCHANGED <<driver, stdioOwn, acpOwn, a2aOwn, mcpOwn, anpOwn>>
  \/ /\ driver = "a2a_client" /\ A2a!Next
     /\ UNCHANGED <<driver, stdioOwn, sseOwn, acpOwn, mcpOwn, anpOwn>>
  \/ /\ driver = "acp_client" /\ Acp!Next
     /\ UNCHANGED <<driver, stdioOwn, sseOwn, a2aOwn, mcpOwn, anpOwn>>
  \/ /\ driver = "mcp" /\ Mcp!Next
     /\ UNCHANGED <<driver, stdioOwn, sseOwn, acpOwn, a2aOwn, anpOwn>>
  \/ /\ driver = "anp" /\ Anp!Next
     /\ UNCHANGED <<driver, stdioOwn, sseOwn, acpOwn, a2aOwn, mcpOwn>>

\* A driver that was not chosen has not been called: none of its steps that
\* are fair is enabled.
Spec ==
  /\ Init /\ [][Next]_vars
  /\ Stdio!Fairness /\ Sse!Fairness /\ A2a!Fairness /\ Acp!Fairness /\ Mcp!Fairness
-----------------------------------------------------------------------------
(* The properties of the drivers                                           *)

\* driver-stdio: a task's channel holds at most one terminal event and
\* nothing behind it, whatever the agent writes and whenever its stdout ends.
StdioNothingAfterTerminal == Stdio!NothingAfterTerminal

\* driver-stdio: a task that is pending when the agent's stdout ends loses its
\* sender, so that the core's loop ends.
StdioPendingReleased == Stdio!PendingReleased

\* driver-http-sse: the core gets an event only behind all earlier ones of the
\* remote task, whatever disconnects and errors there are between them.
SseNoLoss == Sse!NoLoss

\* driver-http-sse: a task's stream ends, unless the agent closes connections
\* in good order for ever.
SseStreamEnds == Sse!StreamEnds

\* driver-a2a-client: one invoke begins at most one task on the server, the
\* retry after a wrong dialect included.
A2aOneRemoteTask == A2a!OneRemoteTask


\* driver-a2a-client: the stream of an accepted task ends, with the event of
\* its answer.
A2aStreamEnds == A2a!StreamEnds


\* driver-acp-client: when the child exits, the loop of a task it was working
\* on ends.
AcpExitEndsLoop == Acp!ExitEndsLoop



\* driver-mcp: a call has one terminal event, whichever of response, timeout
\* and cancel comes first, and then its handle is gone.
McpOneTerminal == Mcp!OneTerminal

\* driver-anp-client: in TaskProfileReady the stored profile, peer and
\* capabilities are of one session, however many callers connect.
AnpReadyIsOneSession == Anp!ReadyIsOneSession
=============================================================================
