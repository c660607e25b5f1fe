-------------------------- MODULE AcpClientDriver --------------------------
(***************************************************************************)
(* driver-acp-client, one task: invoke opens a session and prompts the     *)
(* child process; a spawned loop then polls it every 500 ms for the events *)
(* of the task and gives the core those it has not given yet. The child    *)
(* answers a poll with the task's history from its first event on, one     *)
(* page of it (session/update of protocol-acp-runtime). Events without a   *)
(* seq and of kinds the loop does not know are not modelled.               *)
(***************************************************************************)
EXTENDS Naturals, Sequences, FiniteSets

CONSTANTS
  AcpPage,       \* events one answer holds at most (500)
  MaxRemote      \* bound: events of the remote task

VARIABLES
  child,       \* the process: "alive", "exited"
  reader_loop, \* "reading", "ended"
  emitted,     \* how many events the remote task has emitted
  finished,    \* is the last of them terminal?
  acp,         \* invoke: "no", "session/new", "session/prompt", "refused",
               \* "dropped"; then the loop: "tick", "polling", "ended"
  active,      \* is the task in active_tasks?
  last_seq,
  given,       \* what the channel received: seqs, 0 for acp_process_exited
  listening    \* does the core hold the receiver?

remoteVars == <<emitted, finished>>
acpVars    == <<child, reader_loop, remoteVars, acp, active, last_seq, given,
                listening>>

Init ==
  /\ child = "alive" /\ reader_loop = "reading"
  /\ emitted = 0 /\ finished = FALSE
  /\ acp = "no" /\ active = FALSE /\ last_seq = 0
  /\ given = <<>> /\ listening = FALSE

-----------------------------------------------------------------------------
(* The child process (external)                                            *)

Emit ==
  /\ acp \in {"session/prompt", "tick", "polling"} /\ child = "alive"
  /\ ~finished /\ emitted < MaxRemote
  /\ emitted' = emitted + 1
  /\ finished' \in BOOLEAN
  /\ UNCHANGED <<child, reader_loop, acp, active, last_seq, given, listening>>

\* It closes both its pipes.
Exit ==
  /\ child = "alive"
  /\ child' = "exited"
  /\ UNCHANGED <<reader_loop, remoteVars, acp, active, last_seq, given,
                 listening>>

-----------------------------------------------------------------------------
(* invoke                                                                  *)

\* call: a oneshot is left in `pending`, the request written and the answer
\* awaited without a timeout.
Invoke ==
  /\ acp = "no"
  /\ acp' = "session/new"
  /\ UNCHANGED <<child, reader_loop, remoteVars, active, last_seq, given,
                 listening>>

\* A written request is answered through the reader loop; an error answer is
\* a null result, no error.
SessionOpened ==
  /\ acp = "session/new" /\ reader_loop = "reading"
  /\ acp' = "session/prompt"
  /\ active' = TRUE /\ listening' = TRUE
  /\ UNCHANGED <<child, reader_loop, remoteVars, last_seq, given>>

PromptAnswered ==
  /\ acp = "session/prompt" /\ reader_loop = "reading"
  /\ acp' = "tick"
  /\ UNCHANGED <<child, reader_loop, remoteVars, active, last_seq, given,
                 listening>>

\* A write to a child that has exited fails. Behind session/new there is no
\* task yet; behind session/prompt the core is told and the task forgotten.
CallFails ==
  /\ acp \in {"session/new", "session/prompt"} /\ child = "exited"
  /\ acp' = IF acp = "session/new" THEN "refused" ELSE "ended"
  /\ given' = IF acp = "session/prompt" /\ listening THEN Append(given, 0) ELSE given
  /\ active' = FALSE
  /\ UNCHANGED <<child, reader_loop, remoteVars, last_seq, listening>>

\* The core's timeout drops invoke in the middle of a call: this is the only
\* way out of one that was written and is never answered.
InvokeDropped ==
  /\ acp \in {"session/new", "session/prompt"}
  /\ acp' = "dropped"
  /\ listening' = FALSE
  /\ UNCHANGED <<child, reader_loop, remoteVars, active, last_seq, given>>

-----------------------------------------------------------------------------
(* The loop                                                                *)

\* Mutant: a poll that cannot be written is tried again.
PollLostGoesOn ==
  /\ acp = "tick" /\ child = "exited"
  /\ acp' = "tick"
  /\ UNCHANGED <<child, reader_loop, remoteVars, active, last_seq, given,
                 listening>>

\* The write fails: the loop ends and forgets the task.
PollLost ==
  /\ acp = "tick" /\ child = "exited"
  /\ acp' = "ended"
  /\ active' = FALSE
  /\ UNCHANGED <<child, reader_loop, remoteVars, last_seq, given, listening>>

Poll ==
  /\ acp = "tick" /\ child = "alive"
  /\ acp' = "polling"
  /\ UNCHANGED <<child, reader_loop, remoteVars, active, last_seq, given,
                 listening>>

\* Five seconds without an answer, or an answer without events. An answer
\* that comes later finds nobody: the next poll has another id.
PollTimesOut ==
  /\ acp = "polling"
  /\ acp' = "tick"
  /\ UNCHANGED <<child, reader_loop, remoteVars, active, last_seq, given,
                 listening>>


\* The events of a page with n events that are not given yet.
NewOf(n) == last_seq + 1..n


LastOf(n) == finished /\ n = emitted

\* An answer: the new events in order, and the end behind a terminal one.
PollAnswered ==
  /\ acp = "polling" /\ reader_loop = "reading"
  /\ LET n == IF emitted < AcpPage THEN emitted ELSE AcpPage
         new == [i \in 1..Cardinality(NewOf(n)) |-> n - Cardinality(NewOf(n)) + i]
     IN  /\ given' = IF listening THEN given \o new ELSE given
         /\ last_seq' = n
         /\ acp' = IF LastOf(n) THEN "ended" ELSE "tick"
         /\ active' = IF LastOf(n) THEN FALSE ELSE active
  /\ UNCHANGED <<child, reader_loop, remoteVars, listening>>

-----------------------------------------------------------------------------
(* The reader loop and the core                                            *)

\* The child's stdout has ended: every active task is told, none forgotten,
\* and no waiting oneshot is dropped.
ReaderEnds ==
  /\ reader_loop = "reading" /\ child = "exited"
  /\ reader_loop' = "ended"
  /\ given' = IF active /\ listening THEN Append(given, 0) ELSE given
  /\ UNCHANGED <<child, remoteVars, acp, active, last_seq, listening>>

\* run_driver leaves its loop.
Leave ==
  /\ acp \in {"tick", "polling", "ended"} /\ listening
  /\ listening' = FALSE
  /\ UNCHANGED <<child, reader_loop, remoteVars, acp, active, last_seq, given>>

Next ==
  \/ Emit \/ Exit
  \/ Invoke \/ SessionOpened \/ PromptAnswered \/ CallFails \/ InvokeDropped
  \/ Poll \/ PollLost \/ PollTimesOut \/ PollAnswered
  \/ ReaderEnds \/ Leave

\* The spawned tasks run on; the poll has a timeout; the core's timeout ends
\* an invoke that is not answered.
Fairness ==
  /\ WF_acpVars(Poll \/ PollLost) /\ WF_acpVars(PollTimesOut \/ PollAnswered)
  /\ WF_acpVars(SessionOpened \/ PromptAnswered \/ CallFails \/ InvokeDropped)
  /\ WF_acpVars(acp # "no" /\ ReaderEnds)

Spec == Init /\ [][Next]_acpVars /\ Fairness
-----------------------------------------------------------------------------
(* Properties                                                              *)

\* The core gets the remote events in order, each once and none left out,
\* whichever polls time out.
InOrderOnce ==
  LET seqs == SelectSeq(given, LAMBDA s : s # 0) IN seqs = [i \in 1..Len(seqs) |-> i]

\* When the child exits, the loop of a task it was working on ends.
ExitEndsLoop == (child = "exited" /\ acp \in {"tick", "polling"}) ~> (acp = "ended")

\* A remote task whose history fits into one page and that has finished is
\* seen to finish, if polls go on being answered.
FinishSeen ==
  []<><<PollAnswered>>_acpVars
    => ((finished /\ emitted <= AcpPage /\ acp = "tick") ~> (acp = "ended"))
=============================================================================
