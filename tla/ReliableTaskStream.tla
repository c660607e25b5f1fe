------------------------ MODULE ReliableTaskStream ------------------------
(***************************************************************************)
(* adapter-core, reliable_stream.rs, on top of AdapterCore::subscribe and  *)
(* ::history: one client that reads the events of one task through         *)
(* ReliableTaskStream, and after a lost connection subscribes again with   *)
(* the last seq it was given. next() is split where it awaits: at recv and *)
(* at the history read of catch_up.                                        *)
(***************************************************************************)
EXTENDS TaskSubscription

CONSTANTS
  MaxFaults    \* bound: lost connections, restarts, failed reads

ASSUME StreamAssumption == MaxFaults \in Nat

VARIABLES
  pc,          \* "off", "subscribing", "next", "catch_up" or "catch_up_closed"
  last_seq, pending, terminal,   \* the fields of ReliableTaskStream
  rx,          \* its receiver
  trailing,    \* the live event catch_up was called with; 0: none
  delivered,   \* seqs next() has returned to the client, over all connections
  early,       \* the receiver was taken before `active` had the entry
  faults

readerVars == <<pc, last_seq, pending, terminal, rx, trailing, delivered, early, faults>>
vars == <<eventVars, readerVars>>

Init ==
  /\ EventsInit
  /\ pc = "off"
  /\ last_seq = 0 /\ pending = <<>> /\ terminal = FALSE
  /\ rx = 0 /\ trailing = 0
  /\ delivered = <<>> /\ early = FALSE /\ faults = 0

\* subscribe: first the history ...
ReadHistory ==
  /\ pc = "off"
  /\ pending' = Page(last_seq)
  /\ pc' = "subscribing"
  /\ UNCHANGED <<eventVars, last_seq, terminal, rx, trailing, delivered, early, faults>>

\* ... then the receiver: a closed one if `active` has no entry, also while
\* invoke has stored the task and not yet made the entry.
OpenReceiver ==
  /\ pc = "subscribing"
  /\ rx' = NewReceiver
  /\ early' = (channel = "none")
  /\ pc' = "next"
  /\ UNCHANGED <<eventVars, last_seq, pending, terminal, trailing, delivered, faults>>

\* deliver()
Deliver(seq) ==
  /\ last_seq'  = seq
  /\ delivered' = Append(delivered, seq)
  /\ terminal'  = (final /\ seq = stored)

DeliverPending ==
  /\ pc = "next" /\ ~terminal /\ pending # <<>>
  /\ Deliver(Head(pending))
  /\ pending' = Tail(pending)
  /\ UNCHANGED <<eventVars, pc, rx, trailing, early, faults>>

\* next() is at receiver.recv().
Receiving == pc = "next" /\ ~terminal /\ pending = <<>>

RecvDuplicate ==
  /\ Receiving /\ HasEvent(rx)
  /\ chan[rx] <= last_seq
  /\ rx' = rx + 1
  /\ UNCHANGED <<eventVars, pc, last_seq, pending, terminal, trailing, delivered, early, faults>>

RecvNext ==
  /\ Receiving /\ HasEvent(rx)
  /\ chan[rx] = last_seq + 1
  /\ Deliver(chan[rx])
  /\ rx' = rx + 1
  /\ UNCHANGED <<eventVars, pc, pending, trailing, early, faults>>

RecvGap ==
  /\ Receiving /\ HasEvent(rx)
  /\ chan[rx] > last_seq + 1
  /\ trailing' = chan[rx]
  /\ rx' = rx + 1
  /\ pc' = "catch_up"
  /\ UNCHANGED <<eventVars, last_seq, pending, terminal, delivered, early, faults>>

\* RecvError::Lagged: the receiver moves to the oldest event still held.
RecvLagged ==
  /\ Receiving /\ Lagging(rx)
  /\ rx' = Oldest
  /\ trailing' = 0
  /\ pc' = "catch_up"
  /\ UNCHANGED <<eventVars, last_seq, pending, terminal, delivered, early, faults>>

\* Mutant: a closed channel ends the stream without the last durable read.
RecvClosedEnds ==
  /\ Receiving /\ IsClosed(rx)
  /\ terminal' = TRUE
  /\ UNCHANGED <<eventVars, pc, last_seq, pending, rx, trailing, delivered, early, faults>>

\* RecvError::Closed, once everything held has been read.
RecvClosed ==
  /\ Receiving /\ IsClosed(rx)
  /\ trailing' = 0
  /\ pc' = "catch_up_closed"
  /\ UNCHANGED <<eventVars, last_seq, pending, terminal, rx, delivered, early, faults>>

\* Mutant: takes the live event alone and leaves the history out.
CatchUpSkips ==
  /\ pc \in {"catch_up", "catch_up_closed"}
  /\ pending' = IF trailing = 0 THEN Page(last_seq) ELSE <<trailing>>
  /\ pc' = "next"
  /\ UNCHANGED <<eventVars, last_seq, terminal, rx, trailing, delivered, early, faults>>

\* catch_up: the page after last_seq, and the live event behind it. After
\* Closed an empty page ends the stream.
CatchUp ==
  LET page == Page(last_seq) IN
  /\ pc \in {"catch_up", "catch_up_closed"}
  /\ pending' = IF trailing > last_seq + Len(page) THEN Append(page, trailing) ELSE page
  /\ terminal' = (pc = "catch_up_closed" /\ page = <<>>)
  /\ pc' = "next"
  /\ UNCHANGED <<eventVars, last_seq, rx, trailing, delivered, early, faults>>

\* The history read fails: next() returns the error, and the live event it
\* was called with is gone.
CatchUpFails ==
  /\ pc \in {"catch_up", "catch_up_closed"}
  /\ faults < MaxFaults
  /\ faults' = faults + 1
  /\ pc' = "next"
  /\ UNCHANGED <<eventVars, last_seq, pending, terminal, rx, trailing, delivered, early>>

\* The stream is dropped; the client comes back with last_seq.
Gone ==
  /\ faults < MaxFaults /\ pc # "off" /\ ~terminal
  /\ faults' = faults + 1
  /\ pc' = "off"
  /\ pending' = <<>> /\ rx' = 0 /\ trailing' = 0 /\ early' = FALSE
  /\ UNCHANGED <<last_seq, terminal, delivered>>

Disconnect == Gone /\ UNCHANGED eventVars
DaemonRestart == Gone /\ Restart

ReaderStep ==
  \/ ReadHistory \/ OpenReceiver \/ DeliverPending
  \/ RecvDuplicate \/ RecvNext \/ RecvGap \/ RecvLagged \/ RecvClosed
  \/ CatchUp

\* next() has returned None and the channel has gone quiet.
Quiet == terminal /\ channel = "closed" /\ unsent = {} /\ (final \/ stored = MaxEvents)

Next ==
  \/ EventStep /\ UNCHANGED readerVars
  \/ ReaderStep
  \/ CatchUpFails
  \/ Disconnect
  \/ DaemonRestart
  \/ Quiet /\ UNCHANGED vars

Spec == Init /\ [][Next]_vars

\* The client keeps calling next(), and the task has a worker, which ends and
\* removes the entry in `active`. No send is assumed to happen.
Fairness ==
  /\ WF_vars(ReaderStep)
  /\ WF_vars(CloseChannel /\ UNCHANGED readerVars)

FairSpec == Spec /\ Fairness
-----------------------------------------------------------------------------
(* Properties.                                                             *)

TypeOK ==
  /\ stored \in 0..MaxEvents /\ final \in BOOLEAN
  /\ unsent \subseteq 1..stored /\ chan \in Seq(1..stored)
  /\ channel \in {"none", "open", "closed"}
  /\ pc \in {"off", "subscribing", "next", "catch_up", "catch_up_closed"}
  /\ last_seq \in 0..stored /\ pending \in Seq(1..stored)
  /\ terminal \in BOOLEAN
  /\ rx \in Nat /\ trailing \in 0..stored
  /\ delivered \in Seq(1..stored) /\ early \in BOOLEAN /\ faults \in 0..MaxFaults

\* "event.seq is strictly increasing, no duplicates, no gaps": over all its
\* connections the client is given event 1, 2, 3, ... whatever the channel
\* drops, reorders or repeats.
NoGapNoDuplicate ==
  \A n \in 1..Len(delivered) : delivered[n] = n

\* A terminal event that is stored reaches a client that keeps reading, even
\* if its broadcast was lost, lagged behind or came out of order. A client that
\* subscribed before the entry in `active` was made is left out: its receiver is
\* closed, and an empty page then ends its stream before the task has.
TerminalDelivered ==
  final ~> (terminal /\ (last_seq = stored \/ early))
=============================================================================
