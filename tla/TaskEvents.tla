---------------------------- MODULE TaskEvents ----------------------------
(***************************************************************************)
(* What a subscriber sees of one task: its durable events, numbered 1, 2,  *)
(* ..., and the broadcast channel its entry in `active` holds. Several     *)
(* writers store and then send, so sends may come in another order than    *)
(* the events were stored, or never. AdapterCore implements this module    *)
(* for each of its tasks (EventsSpec there).                               *)
(***************************************************************************)
EXTENDS Naturals, Sequences, FiniteSets

CONSTANTS
  MaxEvents,   \* bound: events of the task's history
  Writers,     \* how many calls and workers write to the task
  Lossy        \* may a writer be dropped between its store and its send?

ASSUME EventsAssumption == MaxEvents \in Nat /\ Writers \in Nat /\ Lossy \in BOOLEAN

VARIABLES
  stored,    \* how many events the store holds: the last seq
  final,     \* is the last of them Completed, Failed or Cancelled?
  unsent,    \* seqs stored and not yet sent
  chan,      \* seqs sent to the channel, in order
  channel    \* "none" before the entry in `active`, "open", "closed" after it

eventVars == <<stored, final, unsent, chan, channel>>

EventsInit ==
  /\ stored = 0 /\ final = FALSE
  /\ unsent = {} /\ chan = <<>>
  /\ channel = "none"

\* append_event_and_transition: its writer sends before it stores again.
\* Only a task with an entry in `active` ends.
StoreEvent(last) ==
  /\ ~final /\ stored < MaxEvents
  /\ Cardinality(unsent) < Writers
  /\ last => channel = "open"
  /\ stored' = stored + 1
  /\ final'  = last
  /\ unsent' = unsent \cup {stored + 1}
  /\ UNCHANGED <<chan, channel>>

\* The send at the end of transition(); without an entry nothing is sent.
SendEvent(seq) ==
  /\ seq \in unsent
  /\ unsent' = unsent \ {seq}
  /\ chan'   = IF channel = "open" THEN Append(chan, seq) ELSE chan
  /\ UNCHANGED <<stored, final, channel>>

\* transition() is dropped, by the timeout or the transport, before its send.
LoseEvent(seq) ==
  /\ Lossy
  /\ seq \in unsent
  /\ unsent' = unsent \ {seq}
  /\ UNCHANGED <<stored, final, chan, channel>>

\* invoke inserts the entry in `active`.
OpenChannel ==
  /\ channel = "none"
  /\ channel' = "open"
  /\ UNCHANGED <<stored, final, unsent, chan>>

\* The worker removes the entry, or the call that would insert it is dropped.
CloseChannel ==
  /\ channel # "closed"
  /\ channel' = "closed"
  /\ UNCHANGED <<stored, final, unsent, chan>>

\* The daemon is restarted: the channel and every pending send are gone.
Restart ==
  /\ unsent' = {} /\ chan' = <<>>
  /\ channel' \in {channel, "closed"} \ {"open"}
  /\ UNCHANGED <<stored, final>>

EventStep ==
  \/ \E last \in BOOLEAN : StoreEvent(last)
  \/ \E seq \in unsent : SendEvent(seq) \/ LoseEvent(seq)
  \/ OpenChannel \/ CloseChannel

EventsNext == EventStep \/ Restart

EventsSpec == EventsInit /\ [][EventsNext]_eventVars
=============================================================================
