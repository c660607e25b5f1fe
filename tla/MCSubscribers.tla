--------------------------- MODULE MCSubscribers ---------------------------
(***************************************************************************)
(* The two readers of a task's events: a client of ReliableTaskStream and  *)
(* the response stream of the A2A executor. They only read what the core   *)
(* stores and sends, so a behaviour has one of them, chosen at the start.  *)
(***************************************************************************)
EXTENDS ReliableTaskStream

VARIABLES
  consumer,    \* "stream" or "a2a"
  a2a_pc, history, history_end_seq, receiver, opened, out, ended

A2a == INSTANCE A2aExecutor WITH pc <- a2a_pc

a2aVars == <<a2a_pc, history, history_end_seq, receiver, opened, out, ended>>
allVars == <<consumer, vars, a2aVars>>

SubscribersInit ==
  /\ consumer \in {"stream", "a2a"}
  /\ Init /\ A2a!Init

StreamReads == consumer = "stream" /\ ReaderStep /\ UNCHANGED <<consumer, a2aVars>>
A2aReads    == consumer = "a2a" /\ A2a!ExecutorStep /\ UNCHANGED <<consumer, readerVars>>
Closes      == CloseChannel /\ UNCHANGED <<consumer, readerVars, a2aVars>>

SubscribersNext ==
  \/ consumer = "stream" /\ Next /\ UNCHANGED <<consumer, a2aVars>>
  \/ consumer = "a2a" /\ A2a!Next /\ UNCHANGED <<consumer, readerVars>>

\* The fairness of the two specifications, each for its own behaviours.
SubscribersSpec ==
  /\ SubscribersInit /\ [][SubscribersNext]_allVars
  /\ WF_allVars(StreamReads) /\ WF_allVars(A2aReads) /\ WF_allVars(Closes)
-----------------------------------------------------------------------------
\* Every variable of the channel and of both readers is of its type; no reader
\* holds a seq the store has not assigned.
SubscribersTypeOK == TypeOK /\ A2a!TypeOK

\* A client of ReliableTaskStream that keeps reading is given the terminal event.
StreamTerminalDelivered == consumer = "stream" => TerminalDelivered

\* Executor: no event is given out twice, in whatever order writers send.
A2aNoDuplicate == A2a!NoDuplicate


\* Executor: every response stream ends, whatever sends were lost.
A2aStreamEnds == consumer = "a2a" => A2a!StreamEnds
=============================================================================
