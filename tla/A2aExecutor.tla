---------------------------- MODULE A2aExecutor ----------------------------
(***************************************************************************)
(* protocol-a2a-server, executor.rs: the response stream of one A2A        *)
(* message. execute() dispatches the invoke, subscribes from seq 0, gives  *)
(* out the history and then what the receiver yields. It reads the         *)
(* subscription as it is, without the catch-up of ReliableTaskStream.      *)
(* The invoke may be a retry, so the task may be at any point of its life. *)
(***************************************************************************)
EXTENDS TaskSubscription

VARIABLES
  pc,               \* State::Init in three steps, Ready, Done
  history,          \* sub.history, what is left of it
  history_end_seq,  \* 0: None
  receiver,
  opened,           \* history variable: where in chan the receiver started
  out,              \* the seqs of the events the stream has given out
  ended             \* how it ended: "no", or its last item

executorVars == <<pc, history, history_end_seq, receiver, opened, out, ended>>
vars == <<eventVars, executorVars>>

Init ==
  /\ EventsInit
  /\ pc = "dispatch"
  /\ history = <<>> /\ history_end_seq = 0
  /\ receiver = 0 /\ opened = 0
  /\ out = <<>> /\ ended = "no"

End(item) == pc' = "done" /\ ended' = item

\* core.dispatch(Invoke): Created or Existing, or the stream is one error.
Dispatch ==
  /\ pc = "dispatch"
  /\ \/ pc' = "history" /\ UNCHANGED ended
     \/ End("error")
  /\ UNCHANGED <<eventVars, history, history_end_seq, receiver, opened, out>>

\* core.subscribe(task_id, 0): the history ...
ReadHistory ==
  /\ pc = "history"
  /\ history' = Page(0)
  /\ history_end_seq' = Len(Page(0))
  /\ pc' = "receiver"
  /\ UNCHANGED <<eventVars, receiver, opened, out, ended>>

\* ... then the receiver.
OpenReceiver ==
  /\ pc = "receiver"
  /\ receiver' = NewReceiver
  /\ opened' = Len(chan) + 1
  /\ pc' = "ready"
  /\ UNCHANGED <<eventVars, history, history_end_seq, out, ended>>

GiveHistory ==
  /\ pc = "ready" /\ history # <<>>
  /\ out' = Append(out, Head(history))
  /\ history' = Tail(history)
  /\ UNCHANGED <<eventVars, pc, history_end_seq, receiver, opened, ended>>

Receiving == pc = "ready" /\ history = <<>>

\* Mutant: the last event of the history is not recognised.
InHistoryStrictly(seq) == seq < history_end_seq

\* The filter for what history and channel both hold.
InHistory(seq) == seq <= history_end_seq

SkipDuplicate ==
  /\ Receiving /\ HasEvent(receiver)
  /\ InHistory(chan[receiver])
  /\ receiver' = receiver + 1
  /\ UNCHANGED <<eventVars, pc, history, history_end_seq, opened, out, ended>>

\* A terminal event is the last the stream gives out.
GiveLive ==
  /\ Receiving /\ HasEvent(receiver)
  /\ ~InHistory(chan[receiver])
  /\ out' = Append(out, chan[receiver])
  /\ IF final /\ chan[receiver] = stored THEN End("event") ELSE UNCHANGED <<pc, ended>>
  /\ receiver' = receiver + 1
  /\ UNCHANGED <<eventVars, history, history_end_seq, opened>>


\* RecvError::Closed is reported as a canceled task.
EndClosed ==
  /\ Receiving /\ IsClosed(receiver)
  /\ End("canceled")
  /\ UNCHANGED <<eventVars, history, history_end_seq, receiver, opened, out>>


\* RecvError::Lagged is an error with reason stream_lagged.
EndLagged ==
  /\ Receiving /\ Lagging(receiver)
  /\ End("lagged")
  /\ UNCHANGED <<eventVars, history, history_end_seq, receiver, opened, out>>

ExecutorStep ==
  \/ Dispatch \/ ReadHistory \/ OpenReceiver \/ GiveHistory
  \/ SkipDuplicate \/ GiveLive \/ EndClosed \/ EndLagged

Quiet == pc = "done" /\ channel = "closed" /\ unsent = {} /\ (final \/ stored = MaxEvents)

Next ==
  \/ EventStep /\ UNCHANGED executorVars
  \/ ExecutorStep
  \/ Quiet /\ UNCHANGED vars

Spec == Init /\ [][Next]_vars

\* The server polls the stream, and the task's worker ends and removes the
\* entry in `active`.
FairSpec ==
  Spec /\ WF_vars(ExecutorStep) /\ WF_vars(CloseChannel /\ UNCHANGED executorVars)
-----------------------------------------------------------------------------
(* Properties                                                              *)

TypeOK ==
  /\ pc \in {"dispatch", "history", "receiver", "ready", "done"}
  /\ history \in Seq(1..stored) /\ history_end_seq \in 0..stored
  /\ receiver \in Nat /\ opened \in Nat
  /\ out \in Seq(1..stored)
  /\ ended \in {"no", "event", "canceled", "lagged", "error"}

\* No event is given out twice, in whatever order writers send.
NoDuplicate ==
  \A m, n \in 1..Len(out) : out[m] = out[n] => m = n

\* Behind an open receiver nothing is lost: what was sent since, and read, is
\* in the history or was given out. A receiver that lags does not go on.
MissedOnlyBeforeOpening ==
  \A n \in opened..receiver - 1 :
    pc \in {"ready", "done"} =>
      chan[n] <= history_end_seq \/ chan[n] \in {out[m] : m \in 1..Len(out)}

\* Every response stream ends, whatever was lost: once the worker has removed
\* the task's entry, recv() has an event, an error or the end for it.
StreamEnds == <>(pc = "done")

\* "No loss occurs, only a duplicate is possible": an event is given out only
\* after all events before it.
NoLoss ==
  \A n \in 1..Len(out) : \A seq \in 1..out[n] : seq \in {out[m] : m \in 1..n}
=============================================================================
