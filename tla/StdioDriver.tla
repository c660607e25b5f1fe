---------------------------- MODULE StdioDriver ----------------------------
(***************************************************************************)
(* driver-stdio: one agent process, started by the first call, shared by   *)
(* all tasks, never started again. invoke registers the task's sender in   *)
(* `pending` and writes the command, holding the lock on `process`. A      *)
(* reader task forwards what the agent writes and, when its stdout ends,   *)
(* fails what is pending. A line the reader skips (too long, no JSON,      *)
(* another protocol, an unknown type) is one the agent did not write.      *)
(***************************************************************************)
EXTENDS Naturals, Sequences, FiniteSets

CONSTANTS
  Task,
  StdioCap,    \* capacity of a task's mpsc channel (128)
  MaxLines,    \* bound: lines the agent writes
  NoTask

VARIABLES
  process,    \* is `process` Some? It never becomes None again.
  lock,       \* the task whose invoke holds the lock on `process`, or NoTask
  agent,      \* "absent", "alive", "exited"
  stdout,     \* lines written and not yet read
  lines,      \* how many the agent wrote
  closed,     \* has the agent closed its stdout?
  pending,    \* tasks whose sender the reader knows
  reader,     \* "none", "reading", "ended"
  sending,    \* the line the reader is sending: {} or {line}
  invoked,    \* [Task -> "no", "writing", "open", "refused", "dropped"]
  stream,     \* [Task -> events put into the task's channel]
  taken,      \* [Task -> how many of them the core has received]
  receiver    \* tasks whose receiver the core still holds

lockVars    == <<process, lock>>
agentVars   == <<agent, stdout, lines, closed>>
readerVars  == <<reader, sending>>
channelVars == <<stream, taken, receiver>>
stdioVars   == <<lockVars, agentVars, readerVars, pending, invoked, channelVars>>

\* What an event is to the reader and the core: one of the three that end a
\* task, or any other.
Kind == {"terminal", "update"}

Init ==
  /\ process = FALSE /\ lock = NoTask
  /\ agent = "absent" /\ stdout = <<>> /\ lines = 0 /\ closed = FALSE
  /\ pending = {} /\ reader = "none" /\ sending = {}
  /\ invoked = [t \in Task |-> "no"]
  /\ stream = [t \in Task |-> <<>>] /\ taken = [t \in Task |-> 0]
  /\ receiver = {}

\* ensure_started. A start that fails kills the child and leaves None.
Start ==
  IF process
  THEN UNCHANGED <<process, agent, reader>>
  ELSE process' = TRUE /\ agent' = "alive" /\ reader' = "reading"

\* invoke up to the write of the command.
Invoke(t) ==
  /\ invoked[t] = "no" /\ lock = NoTask
  /\ Start
  /\ pending'  = pending \cup {t}
  /\ receiver' = receiver \cup {t}
  /\ lock'     = t
  /\ invoked'  = [invoked EXCEPT ![t] = "writing"]
  /\ UNCHANGED <<stdout, lines, closed, sending, stream, taken>>

InvokeNotStarted(t) ==
  /\ invoked[t] = "no" /\ lock = NoTask /\ ~process
  /\ invoked' = [invoked EXCEPT ![t] = "refused"]
  /\ UNCHANGED <<lockVars, agentVars, pending, readerVars, channelVars>>

\* write_command returns; it fails on a closed stdin or a line too long.
Written(t) ==
  /\ invoked[t] = "writing"
  /\ lock' = NoTask
  /\ \/ /\ agent = "alive"
        /\ invoked' = [invoked EXCEPT ![t] = "open"]
        /\ UNCHANGED <<pending, receiver>>
     \/ /\ invoked'  = [invoked EXCEPT ![t] = "refused"]
        /\ pending'  = pending \ {t}
        /\ receiver' = receiver \ {t}
  /\ UNCHANGED <<process, agentVars, readerVars, stream, taken>>

\* The core's timeout drops invoke inside the write; `pending` keeps the task.
Dropped(t) ==
  /\ invoked[t] = "writing"
  /\ lock' = NoTask
  /\ invoked'  = [invoked EXCEPT ![t] = "dropped"]
  /\ receiver' = receiver \ {t}
  /\ UNCHANGED <<process, agentVars, pending, readerVars, stream, taken>>

\* cancel, provide_input and health, too, start the process.
Command ==
  /\ lock = NoTask /\ ~process
  /\ Start
  /\ UNCHANGED <<lock, stdout, lines, closed, pending, sending, invoked,
                 channelVars>>

-----------------------------------------------------------------------------
(* The agent: any lines, for any tasks                                     *)

AgentWrites(t, k) ==
  /\ agent = "alive" /\ ~closed /\ lines < MaxLines
  /\ lines'  = lines + 1
  /\ stdout' = Append(stdout, [task |-> t, kind |-> k])
  /\ UNCHANGED <<lockVars, agent, closed, pending, readerVars, invoked,
                 channelVars>>

AgentCloses ==
  /\ agent = "alive"
  /\ closed' = TRUE
  /\ agent' \in {"alive", "exited"}
  /\ UNCHANGED <<lockVars, stdout, lines, pending, readerVars, invoked,
                 channelVars>>

-----------------------------------------------------------------------------
(* spawn_stdout_reader                                                     *)

\* Mutant: the sender of a terminal event stays in `pending`.
ReadLineKeeps ==
  /\ reader = "reading" /\ sending = {} /\ stdout # <<>>
  /\ stdout' = Tail(stdout)
  /\ sending' = IF Head(stdout).task \in pending THEN {Head(stdout)} ELSE {}
  /\ UNCHANGED <<lockVars, agent, lines, closed, pending, reader, invoked,
                 channelVars>>

\* A terminal event takes the sender out of `pending`.
ReadLine ==
  /\ reader = "reading" /\ sending = {} /\ stdout # <<>>
  /\ stdout'  = Tail(stdout)
  /\ sending' = IF Head(stdout).task \in pending THEN {Head(stdout)} ELSE {}
  /\ pending' = IF Head(stdout).kind = "terminal" THEN pending \ {Head(stdout).task} ELSE pending
  /\ UNCHANGED <<lockVars, agent, lines, closed, reader, invoked, channelVars>>

HasRoom(t) == Len(stream[t]) - taken[t] < StdioCap

\* sender.send(event).await waits for room and ignores a closed channel.
SendLine ==
  /\ \E line \in sending :
       \/ /\ line.task \in receiver /\ HasRoom(line.task)
          /\ stream' = [stream EXCEPT ![line.task] = Append(@, line.kind)]
       \/ /\ line.task \notin receiver
          /\ UNCHANGED stream
  /\ sending' = {}
  /\ UNCHANGED <<lockVars, agentVars, pending, reader, invoked, taken,
                 receiver>>

\* Mutant: the reader ends without failing what is pending.
StdoutEndsSilently ==
  /\ reader = "reading" /\ sending = {} /\ stdout = <<>> /\ closed
  /\ reader' = "ended"
  /\ UNCHANGED <<lockVars, agentVars, pending, sending, invoked, channelVars>>

\* Every pending task is told by try_send, and its sender dropped.
StdoutEnds ==
  /\ reader = "reading" /\ sending = {} /\ stdout = <<>> /\ closed
  /\ reader'  = "ended"
  /\ stream'  = [t \in Task |-> IF t \in pending \cap receiver /\ HasRoom(t)
                                THEN Append(stream[t], "terminal") ELSE stream[t]]
  /\ pending' = {}
  /\ UNCHANGED <<lockVars, agentVars, sending, invoked, taken, receiver>>

-----------------------------------------------------------------------------
(* AdapterCore::run_driver                                                 *)

\* It takes the next event and stops behind a terminal one.
Take(t) ==
  /\ invoked[t] = "open" /\ t \in receiver /\ taken[t] < Len(stream[t])
  /\ taken' = [taken EXCEPT ![t] = @ + 1]
  /\ receiver' = IF stream[t][taken[t] + 1] = "terminal" THEN receiver \ {t} ELSE receiver
  /\ UNCHANGED <<lockVars, agentVars, pending, readerVars, invoked, stream>>

\* default_timeout, or an event the task no longer admits.
Leave(t) ==
  /\ invoked[t] = "open" /\ t \in receiver
  /\ receiver' = receiver \ {t}
  /\ UNCHANGED <<lockVars, agentVars, pending, readerVars, invoked, stream,
                 taken>>

Next ==
  \/ \E t \in Task : \/ Invoke(t) \/ InvokeNotStarted(t) \/ Written(t) \/ Dropped(t)
                     \/ Take(t) \/ Leave(t)
  \/ \E t \in Task, k \in Kind : AgentWrites(t, k)
  \/ Command \/ AgentCloses \/ ReadLine \/ SendLine \/ StdoutEnds

\* The reader task runs; a write ends or the core's timeout drops it; the
\* core takes what is there.
Fairness ==
  /\ WF_stdioVars(ReadLine) /\ WF_stdioVars(SendLine) /\ WF_stdioVars(StdoutEnds)
  /\ \A t \in Task : /\ WF_stdioVars(Written(t) \/ Dropped(t))
                     /\ WF_stdioVars(Take(t))

Spec == Init /\ [][Next]_stdioVars /\ Fairness
-----------------------------------------------------------------------------
(* Properties                                                              *)

\* A task's channel holds at most one terminal event and nothing behind it,
\* whatever the agent writes and whenever its stdout ends.
NothingAfterTerminal ==
  \A t \in Task : \A n \in 1..Len(stream[t]) - 1 : stream[t][n] # "terminal"

\* A task that is pending when the agent's stdout ends loses its sender, so
\* that the core's loop ends; a full channel of another task only delays it.
PendingReleased ==
  \A t \in Task : (t \in pending /\ closed /\ reader # "ended") ~> (t \notin pending)
=============================================================================
