------------------------- MODULE TaskSubscription -------------------------
(***************************************************************************)
(* AdapterCore::subscribe as its consumers use it: the history of a task,  *)
(* read first, and a receiver of its broadcast channel, opened after that. *)
(* A receiver is the index in chan of the event it takes next, and 0 when  *)
(* the task had no channel (closed_receiver). It is only as long as the    *)
(* channel's capacity behind; what is older it has lost.                   *)
(***************************************************************************)
EXTENDS TaskEvents, Integers

CONSTANTS
  Cap,     \* capacity of the broadcast channel (256)
  Limit    \* page size of events_after (500)

ASSUME SubscriptionAssumption == Cap \in Nat \ {0} /\ Limit \in Nat \ {0}

\* Mutant: the history starts at the seq asked for, not behind it.
PageInclusive(after) ==
  [n \in 1..(IF stored - after <= Limit THEN stored - after ELSE Limit) |-> after + n - 1]

\* events_after(task_id, after, Limit)
Page(after) ==
  [n \in 1..(IF stored - after <= Limit THEN stored - after ELSE Limit) |-> after + n]

\* tx.subscribe(): a new receiver starts at the end of the channel.
NewReceiver == IF channel = "open" THEN Len(chan) + 1 ELSE 0

\* What recv() on a receiver finds: an event, RecvError::Lagged (the oldest
\* event still held comes next), RecvError::Closed, or nothing yet.
Lagging(r)  == r # 0 /\ r + Cap <= Len(chan)
HasEvent(r) == r # 0 /\ r <= Len(chan) /\ ~Lagging(r)
IsClosed(r) == r = 0 \/ (channel = "closed" /\ r > Len(chan))
Oldest      == Len(chan) - Cap + 1
=============================================================================
