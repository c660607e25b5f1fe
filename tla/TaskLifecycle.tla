--------------------------- MODULE TaskLifecycle ---------------------------
(***************************************************************************)
(* What AdapterCore promises about every task, whoever calls it and        *)
(* however its calls interleave: a task is created once, each later step   *)
(* adds one event to its history and moves it along an edge of the life    *)
(* cycle, and nothing follows a terminal event.                            *)
(***************************************************************************)
EXTENDS TaskModel

CONSTANT Task

VARIABLES state,   \* [Task -> TaskState, or "Absent" before the row exists]
          log      \* [Task -> Seq(EventKind)], the durable history

vars == <<state, log>>

\* The states an event of this kind may follow, over all callers.
MayFollow(kind) ==
  CASE kind = "Accepted"        -> AcceptFrom
    [] kind = "Progress"        -> ProgressFrom \cup ResumeFrom
    [] kind = "Artifact"        -> ArtifactFrom
    [] kind = "InputRequired"   -> InputFrom
    [] kind = "CancelRequested" -> CancelFrom
    [] kind = "Completed"       -> CompleteFrom
    [] kind = "Failed"          -> FailFrom
    [] OTHER                    -> CancelledFrom

Init ==
  /\ state = [t \in Task |-> "Absent"]
  /\ log   = [t \in Task |-> <<>>]

Create(t) ==
  /\ state[t] = "Absent"
  /\ state' = [state EXCEPT ![t] = "Created"]
  /\ UNCHANGED log

Advance(t, kind) ==
  /\ state[t] \in MayFollow(kind)
  /\ state' = [state EXCEPT ![t] = StateOf(kind)]
  /\ log'   = [log EXCEPT ![t] = Append(@, kind)]

Next ==
  \E t \in Task :
    \/ Create(t)
    \/ \E kind \in EventKind : Advance(t, kind)

Spec == Init /\ [][Next]_vars
=============================================================================
