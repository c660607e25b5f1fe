----------------------------- MODULE TaskModel -----------------------------
(***************************************************************************)
(* The vocabulary of crate adapter-model: the states of a task, the kinds  *)
(* of event its history holds, and which states each kind may follow.      *)
(* Payloads (messages, artifacts, error texts) are left out: no property   *)
(* of this project tells two of them apart.                                *)
(***************************************************************************)
EXTENDS Naturals, Sequences

\* enum TaskState
TaskState ==
  {"Created", "Accepted", "Running", "WaitingForInput", "CancelRequested",
   "Completed", "Failed", "Cancelled"}

\* TaskState::terminal()
Terminal == {"Completed", "Failed", "Cancelled"}

\* enum CoreEventKind
EventKind ==
  {"Accepted", "Progress", "Artifact", "InputRequired", "CancelRequested",
   "Completed", "Failed", "Cancelled"}

\* Mutant: the kind is stored as the state.
StateOfRaw(kind) == kind

\* The state a task is in once an event of this kind is the last of its
\* history: the next_state each call of AdapterCore::transition passes.
StateOf(kind) ==
  CASE kind \in {"Progress", "Artifact"} -> "Running"
    [] kind = "InputRequired"            -> "WaitingForInput"
    [] OTHER                             -> kind

\* The allowed_states each call of AdapterCore::transition passes, by the kind
\* of event it stores. "Progress" has two callers: a driver's progress event
\* and provide_input.
Live == {"Accepted", "Running", "WaitingForInput"}

AcceptFrom    == {"Created"}
ProgressFrom  == {"Accepted", "Running"}
ResumeFrom    == {"WaitingForInput"}
\* Mutant: a late artifact is taken after a cancel.
ArtifactFromLate == Live \cup {"CancelRequested"}

ArtifactFrom  == Live
InputFrom     == {"Accepted", "Running"}
CompleteFrom  == Live
CancelledFrom == Live \cup {"CancelRequested"}
CancelFrom    == Live \cup {"Created"}
FailFrom      == Live \cup {"Created", "CancelRequested"}

\* What replaying a history leaves: its last event decides.
Replay(history) ==
  IF history = <<>> THEN "Created" ELSE StateOf(history[Len(history)])
=============================================================================
