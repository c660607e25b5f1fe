---------------------------- MODULE AdapterCore ----------------------------
(***************************************************************************)
(* crate adapter-core: dispatch of invoke, cancel and provide_input over   *)
(* one TaskStore, and the worker each accepted invoke spawns.              *)
(*                                                                         *)
(* A process is one call of dispatch; an accepted invoke goes on as its    *)
(* own worker. A step is what runs between two awaits, except that the     *)
(* permits, which other threads see change one at a time, are taken one    *)
(* per step, and that storing an event and broadcasting it are two steps:  *)
(* other threads run between them. The store is modelled by its contract   *)
(* (one atomic append per call, guarded by revision and allowed states),   *)
(* with the unique (caller, idempotency key) and task id of the SQL        *)
(* stores; module TaskStore has what the three stores do beyond that.      *)
(* Drivers are external: any event may come at any time, and the stream    *)
(* may close early. The CancellationToken of an active task has no         *)
(* listener in the repository and is left out.                             *)
(***************************************************************************)
EXTENDS TaskModel, FiniteSets

CONSTANTS
  Task, Caller, Key, Agent,
  Invokes, Cancels, Inputs,   \* the calls of dispatch, one process each
  TaskOf,                     \* [Proc -> Task]: the task id of the call
  CallerOf, KeyOf, AgentOf,   \* functions on Invokes: the request's fields
  Unserved,                   \* calls that authorize(), the idempotency-key
                              \* check or resolve() turns away
  AcceptsInput,               \* agents with the provide_input capability
  MaxConcurrent,              \* permits of the global pool
  CallerQuota,                \* permits of one caller
  MaxTasks, MaxQueued,        \* permits of one agent: running, queued
  MaxDriverEvents,            \* bound: events the driver streams yield in all
  Droppable,                  \* calls whose future the transport may drop
  StoreFaults,                \* may a store call fail (Unavailable)?
  MaxCrashes,                 \* bound: how often the daemon is killed
  NoCall                      \* no process

Proc == Invokes \cup Cancels \cup Inputs

ASSUME ProcAssumption ==
  /\ Invokes \cap Cancels = {} /\ Invokes \cap Inputs = {}
  /\ Cancels \cap Inputs = {}
  /\ NoCall \notin Proc
  /\ IsFiniteSet(Invokes)

ASSUME RequestAssumption ==
  /\ TaskOf \in [Proc -> Task]
  /\ CallerOf \in [Invokes -> Caller]
  /\ KeyOf \in [Invokes -> Key]
  /\ AgentOf \in [Invokes -> Agent]
  /\ Unserved \subseteq Proc /\ Droppable \subseteq Proc
  /\ AcceptsInput \subseteq Agent

ASSUME LimitAssumption ==
  /\ MaxConcurrent \in Nat /\ CallerQuota \in Nat
  /\ MaxTasks \in Nat /\ MaxQueued \in Nat /\ MaxDriverEvents \in Nat
  /\ MaxCrashes \in Nat /\ StoreFaults \in BOOLEAN

VARIABLES
  state,        \* [Task -> TaskState \cup {"Absent"}]: the stored snapshot
  revision,     \* its revision, which is also its last_seq
  log,          \* [Task -> Seq(EventKind)]: the stored events
  owner,        \* the invoke whose row this is: caller, key and agent
  active,       \* tasks with an entry (and so a Sender) in `active`
  published,    \* [Task -> Seq(Nat)]: seqs broadcast, in order of sending
  queue_held, caller_held, global_held, agent_held,  \* permit holders
  pc, ret,      \* where each process is; where it goes after broadcasting
  snap,         \* the snapshot each process last read
  event,        \* the driver event each worker is applying
  received,     \* how many driver events were taken in all
  result,       \* what each dispatch returned
  crashes       \* how often the daemon has been killed

store   == <<state, revision, log, owner>>
live    == <<active, published>>
permits == <<queue_held, caller_held, global_held, agent_held>>
stream  == <<event, received>>
vars    == <<store, live, permits, pc, ret, snap, stream, result, crashes>>

DriverEvent == EventKind \ {"CancelRequested"}

\* run_driver: the awaits that tokio::time::timeout can cut short.
RunPc == {"invoke", "recv", "apply", "commit", "publish", "check", "closed",
          "event_fail", "event_fail_commit"}
WorkerPc == RunPc \cup {"timed_out", "fail", "fail_commit", "remove"}

Label == {"start", "done", "activate", "accept", "queue", "caller", "global",
          "agent", "reject", "reject_commit", "driver"} \cup WorkerPc

Snapshot == [state : TaskState \cup {"Absent"}, revision : Nat]

Init ==
  /\ state     = [t \in Task |-> "Absent"]
  /\ revision  = [t \in Task |-> 0]
  /\ log       = [t \in Task |-> <<>>]
  /\ owner     = [t \in Task |-> NoCall]
  /\ active    = {}
  /\ published = [t \in Task |-> <<>>]
  /\ queue_held = {} /\ caller_held = {} /\ global_held = {} /\ agent_held = {}
  /\ pc        = [p \in Proc |-> "start"]
  /\ ret       = [p \in Proc |-> "done"]
  /\ snap      = [p \in Proc |-> [state |-> "Absent", revision |-> 0]]
  /\ event     = [i \in Invokes |-> "Accepted"]
  /\ received  = 0
  /\ result    = [p \in Proc |-> "None"]
  /\ crashes   = 0

-----------------------------------------------------------------------------
(* Steps every handler shares.                                             *)

Goto(p, label)    == pc' = [pc EXCEPT ![p] = label]
Return(p, answer) == Goto(p, "done") /\ result' = [result EXCEPT ![p] = answer]

\* store.get_snapshot: what p will compare and hand to transition() later.
ReadSnapshot(p) ==
  snap' = [snap EXCEPT ![p] = [state    |-> state[TaskOf[p]],
                               revision |-> revision[TaskOf[p]]]]

\* Mutant: the append checks neither revision nor state.
AppliesBlindly(p, from) == state[TaskOf[p]] # "Absent"

\* Mutant: the append checks the state only.
AppliesByState(p, from) ==
  /\ state[TaskOf[p]] # "Absent"
  /\ state[TaskOf[p]] \in from

\* append_event_and_transition's checks: the revision p read is still the
\* stored one, and the stored state is one the caller allows.
Applies(p, from) ==
  /\ state[TaskOf[p]] # "Absent"
  /\ revision[TaskOf[p]] = snap[p].revision
  /\ state[TaskOf[p]] \in from

\* append_event_and_transition, when it applies; p then broadcasts the event
\* and goes on at `then`.
Transition(p, from, next, kind, then) ==
  LET t == TaskOf[p] IN
  /\ Applies(p, from)
  /\ state'    = [state EXCEPT ![t] = next]
  /\ revision' = [revision EXCEPT ![t] = @ + 1]
  /\ log'      = [log EXCEPT ![t] = Append(@, kind)]
  /\ ret'      = [ret EXCEPT ![p] = then]
  /\ Goto(p, "publish")
  /\ UNCHANGED owner

\* Mutant: broadcasts the newest event of the task, not the one p stored.
PublishNewest(p) ==
  LET t == TaskOf[p] IN
  /\ pc[p] = "publish"
  /\ published' = IF t \in active
                  THEN [published EXCEPT ![t] = Append(@, revision[t])]
                  ELSE published
  /\ Goto(p, ret[p])
  /\ UNCHANGED <<store, active, permits, ret, snap, stream, result, crashes>>

\* The end of transition(): send to the task's channel, if it has one.
Publish(p) ==
  LET t == TaskOf[p] IN
  /\ pc[p] = "publish"
  /\ published' = IF t \in active
                  THEN [published EXCEPT ![t] = Append(@, snap[p].revision + 1)]
                  ELSE published
  /\ Goto(p, ret[p])
  /\ UNCHANGED <<store, active, permits, ret, snap, stream, result, crashes>>

\* dispatch: authorize() refuses; in invoke, an empty key or no agent.
Refuse(p) ==
  /\ pc[p] = "start" /\ p \in Unserved
  /\ Return(p, "InvalidRequest")
  /\ UNCHANGED <<store, live, permits, ret, snap, stream, crashes>>

-----------------------------------------------------------------------------
(* invoke                                                                  *)

\* Mutant: a retry is recognised only by its task id.
SameTaskId(i) == {t \in Task : owner[t] # NoCall /\ t = TaskOf[i]}

\* The rows create_or_get_idempotent finds under the request's key.
SameKey(i) ==
  {t \in Task : /\ owner[t] # NoCall
                /\ CallerOf[owner[t]] = CallerOf[i]
                /\ KeyOf[owner[t]] = KeyOf[i]}

InvokeExisting(i) ==
  /\ pc[i] = "start" /\ i \notin Unserved
  /\ SameKey(i) # {}
  /\ Return(i, "Existing")
  /\ UNCHANGED <<store, live, permits, ret, snap, stream, crashes>>

\* The task id is taken by a row with another key: the insert fails.
InvokeTaken(i) ==
  /\ pc[i] = "start" /\ i \notin Unserved
  /\ SameKey(i) = {} /\ owner[TaskOf[i]] # NoCall
  /\ Return(i, "StoreError")
  /\ UNCHANGED <<store, live, permits, ret, snap, stream, crashes>>

InvokeCreate(i) ==
  LET t == TaskOf[i] IN
  /\ pc[i] = "start" /\ i \notin Unserved
  /\ SameKey(i) = {} /\ owner[t] = NoCall
  /\ owner' = [owner EXCEPT ![t] = i]
  /\ state' = [state EXCEPT ![t] = "Created"]
  /\ snap'  = [snap EXCEPT ![i] = [state |-> "Created", revision |-> 0]]
  /\ Goto(i, "activate")
  /\ UNCHANGED <<revision, log, live, permits, ret, stream, result, crashes>>

InvokeActivate(i) ==
  /\ pc[i] = "activate"
  /\ active' = active \cup {TaskOf[i]}
  /\ Goto(i, "accept")
  /\ UNCHANGED <<store, published, permits, ret, snap, stream, result, crashes>>

\* Created -> Accepted. An error returns at once: the entry in `active` stays.
InvokeAccept(i) ==
  /\ pc[i] = "accept"
  /\ \/ /\ Transition(i, AcceptFrom, "Accepted", "Accepted", "queue")
        /\ UNCHANGED result
     \/ /\ ~Applies(i, AcceptFrom)
        /\ Return(i, "StoreError")
        /\ UNCHANGED <<store, ret>>
  /\ UNCHANGED <<live, permits, snap, stream, crashes>>

SameCaller(i, S) == {j \in S : CallerOf[j] = CallerOf[i]}
SameAgent(i, S)  == {j \in S : AgentOf[j] = AgentOf[i]}

\* The four try_acquire_owned, in order. Each refusal first drops what the
\* call holds, then fails the task.
AcquireQueue(i) ==
  /\ pc[i] = "queue"
  /\ IF Cardinality(SameAgent(i, queue_held)) < MaxQueued
     THEN /\ queue_held' = queue_held \cup {i}
          /\ Goto(i, "caller")
     ELSE /\ Goto(i, "reject")
          /\ UNCHANGED queue_held
  /\ UNCHANGED <<store, live, caller_held, global_held, agent_held, ret, snap,
                 stream, result, crashes>>

\* Mutant: a refused caller keeps its place in the queue.
AcquireCallerLeaky(i) ==
  /\ pc[i] = "caller"
  /\ IF Cardinality(SameCaller(i, caller_held)) < CallerQuota
     THEN caller_held' = caller_held \cup {i} /\ Goto(i, "global")
     ELSE Goto(i, "reject") /\ UNCHANGED caller_held
  /\ UNCHANGED <<store, live, queue_held, global_held, agent_held, ret, snap,
                 stream, result, crashes>>


AcquireCaller(i) ==
  /\ pc[i] = "caller"
  /\ IF Cardinality(SameCaller(i, caller_held)) < CallerQuota
     THEN /\ caller_held' = caller_held \cup {i}
          /\ Goto(i, "global")
          /\ UNCHANGED queue_held
     ELSE /\ queue_held' = queue_held \ {i}
          /\ Goto(i, "reject")
          /\ UNCHANGED caller_held
  /\ UNCHANGED <<store, live, global_held, agent_held, ret, snap, stream, result, crashes>>

AcquireGlobal(i) ==
  /\ pc[i] = "global"
  /\ IF Cardinality(global_held) < MaxConcurrent
     THEN /\ global_held' = global_held \cup {i}
          /\ Goto(i, "agent")
          /\ UNCHANGED <<queue_held, caller_held>>
     ELSE /\ queue_held'  = queue_held \ {i}
          /\ caller_held' = caller_held \ {i}
          /\ Goto(i, "reject")
          /\ UNCHANGED global_held
  /\ UNCHANGED <<store, live, agent_held, ret, snap, stream, result, crashes>>

\* With the last permit the worker is spawned and the queue permit dropped.
AcquireAgent(i) ==
  /\ pc[i] = "agent"
  /\ queue_held' = queue_held \ {i}
  /\ IF Cardinality(SameAgent(i, agent_held)) < MaxTasks
     THEN /\ agent_held' = agent_held \cup {i}
          /\ Goto(i, "invoke")
          /\ result' = [result EXCEPT ![i] = "Created"]
          /\ UNCHANGED <<caller_held, global_held>>
     ELSE /\ caller_held' = caller_held \ {i}
          /\ global_held' = global_held \ {i}
          /\ Goto(i, "reject")
          /\ UNCHANGED <<agent_held, result>>
  /\ UNCHANGED <<store, live, ret, snap, stream, crashes>>

\* fail_active after a refused permit; its error replaces ResourceExhausted.
RejectRead(i) ==
  /\ pc[i] = "reject"
  /\ ReadSnapshot(i)
  /\ IF state[TaskOf[i]] \in Terminal
     THEN Return(i, "ResourceExhausted")
     ELSE Goto(i, "reject_commit") /\ UNCHANGED result
  /\ UNCHANGED <<store, live, permits, ret, stream, crashes>>

RejectCommit(i) ==
  /\ pc[i] = "reject_commit"
  /\ \/ /\ Transition(i, FailFrom, "Failed", "Failed", "done")
        /\ result' = [result EXCEPT ![i] = "ResourceExhausted"]
     \/ /\ ~Applies(i, FailFrom)
        /\ Return(i, "StoreError")
        /\ UNCHANGED <<store, ret>>
  /\ UNCHANGED <<live, permits, snap, stream, crashes>>

-----------------------------------------------------------------------------
(* The spawned worker: timeout(default_timeout, run_driver), then           *)
(* fail_active on an error, then removal from `active`.                     *)


DriverInvoke(i) ==
  /\ pc[i] = "invoke"
  /\ \/ Goto(i, "recv")
     \/ Goto(i, "fail")                      \* driver.invoke failed
  /\ UNCHANGED <<store, live, permits, ret, snap, stream, result, crashes>>

\* stream.recv(): the next event, or the end of the stream.
DriverRecv(i) ==
  /\ pc[i] = "recv"
  /\ \/ /\ received < MaxDriverEvents
        /\ \E e \in DriverEvent : event' = [event EXCEPT ![i] = e]
        /\ received' = received + 1
        /\ Goto(i, "apply")
     \/ /\ Goto(i, "closed")
        /\ UNCHANGED stream
  /\ UNCHANGED <<store, live, permits, ret, snap, result, crashes>>

\* apply_driver_event up to its transition.
ApplyRead(i) ==
  /\ pc[i] = "apply"
  /\ ReadSnapshot(i)
  /\ Goto(i, IF event[i] = "Accepted" THEN "check"
             ELSE IF event[i] = "Failed" THEN "event_fail" ELSE "commit")
  /\ UNCHANGED <<store, live, permits, ret, stream, result, crashes>>

\* The allowed_states apply_driver_event passes for an event.
ApplyFrom(e) ==
  CASE e = "Progress"      -> ProgressFrom
    [] e = "Artifact"      -> ArtifactFrom
    [] e = "InputRequired" -> InputFrom
    [] e = "Completed"     -> CompleteFrom
    [] e = "Cancelled"     -> CancelledFrom
    [] OTHER               -> {}

\* Mutant: the first Progress does not start the task.
ApplyNextKeeps(e, seen) == IF e = "Progress" THEN seen ELSE StateOf(e)

\* The next_state: a Progress keeps whatever state the snapshot had, unless
\* that was Accepted.
ApplyNext(e, seen) ==
  IF e = "Progress" /\ seen # "Accepted" THEN seen ELSE StateOf(e)

ApplyCommit(i) ==
  /\ pc[i] = "commit"
  /\ \/ Transition(i, ApplyFrom(event[i]), ApplyNext(event[i], snap[i].state),
                   event[i], "check")
     \/ /\ ~Applies(i, ApplyFrom(event[i]))
        /\ Goto(i, "fail")
        /\ UNCHANGED <<store, ret>>
  /\ UNCHANGED <<live, permits, snap, stream, result, crashes>>

\* fail_active on a Failed event. Its error leaves run_driver and is met by
\* the worker's own fail_active.
EventFailRead(i) ==
  /\ pc[i] = "event_fail"
  /\ ReadSnapshot(i)
  /\ Goto(i, IF state[TaskOf[i]] \in Terminal THEN "check" ELSE "event_fail_commit")
  /\ UNCHANGED <<store, live, permits, ret, stream, result, crashes>>

EventFailCommit(i) ==
  /\ pc[i] = "event_fail_commit"
  /\ \/ Transition(i, FailFrom, "Failed", "Failed", "check")
     \/ /\ ~Applies(i, FailFrom)
        /\ Goto(i, "fail")
        /\ UNCHANGED <<store, ret>>
  /\ UNCHANGED <<live, permits, snap, stream, result, crashes>>

\* After each event, and after the stream's end: is the task over?
CheckTerminal(i) ==
  /\ pc[i] \in {"check", "closed"}
  /\ ReadSnapshot(i)
  /\ Goto(i, IF state[TaskOf[i]] \in Terminal THEN "remove"
             ELSE IF pc[i] = "check" THEN "recv" ELSE "fail")
  /\ UNCHANGED <<store, live, permits, ret, stream, result, crashes>>


\* The timeout drops run_driver at whatever await it is in. An append already
\* committed stays committed, and its broadcast is then lost.
Timeout(i) ==
  /\ pc[i] \in RunPc
  /\ pc[i] = "publish" => ret[i] = "check"
  /\ Goto(i, "timed_out")
  /\ UNCHANGED <<store, live, permits, ret, snap, stream, result, crashes>>

\* driver.cancel() returns, whatever it answers.
TimeoutCancel(i) ==
  /\ pc[i] = "timed_out"
  /\ Goto(i, "fail")
  /\ UNCHANGED <<store, live, permits, ret, snap, stream, result, crashes>>

\* Mutant: the entry in `active` is removed before fail_active.
FailReadRemoved(i) ==
  /\ pc[i] = "fail"
  /\ ReadSnapshot(i)
  /\ active' = active \ {TaskOf[i]}
  /\ Goto(i, IF state[TaskOf[i]] \in Terminal THEN "remove" ELSE "fail_commit")
  /\ UNCHANGED <<store, published, permits, ret, stream, result, crashes>>

\* The worker's fail_active, whose outcome is discarded.
FailRead(i) ==
  /\ pc[i] = "fail"
  /\ ReadSnapshot(i)
  /\ Goto(i, IF state[TaskOf[i]] \in Terminal THEN "remove" ELSE "fail_commit")
  /\ UNCHANGED <<store, live, permits, ret, stream, result, crashes>>

FailCommit(i) ==
  /\ pc[i] = "fail_commit"
  /\ \/ Transition(i, FailFrom, "Failed", "Failed", "remove")
     \/ /\ ~Applies(i, FailFrom)
        /\ Goto(i, "remove")
        /\ UNCHANGED <<store, ret>>
  /\ UNCHANGED <<live, permits, snap, stream, result, crashes>>

\* active.remove(), and the permits the worker owns are dropped.
WorkerEnd(i) ==
  /\ pc[i] = "remove"
  /\ active'      = active \ {TaskOf[i]}
  /\ caller_held' = caller_held \ {i}
  /\ global_held' = global_held \ {i}
  /\ agent_held'  = agent_held \ {i}
  /\ Goto(i, "done")
  /\ UNCHANGED <<store, published, queue_held, ret, snap, stream, result, crashes>>

-----------------------------------------------------------------------------
(* cancel and provide_input                                                *)

CancelRead(c) ==
  /\ pc[c] = "start" /\ c \notin Unserved
  /\ ReadSnapshot(c)
  /\ \/ state[TaskOf[c]] = "Absent" /\ Return(c, "NotFound")
     \/ state[TaskOf[c]] \in Terminal /\ Return(c, "CancelRequested")
     \/ /\ state[TaskOf[c]] \notin Terminal \cup {"Absent"}
        /\ Goto(c, "commit")
        /\ UNCHANGED result
  /\ UNCHANGED <<store, live, permits, ret, stream, crashes>>

CancelCommit(c) ==
  /\ pc[c] = "commit"
  /\ \/ /\ Transition(c, CancelFrom, "CancelRequested", "CancelRequested", "driver")
        /\ UNCHANGED result
     \/ /\ ~Applies(c, CancelFrom)
        /\ Return(c, "StoreError")
        /\ UNCHANGED <<store, ret>>
  /\ UNCHANGED <<live, permits, snap, stream, crashes>>

\* driver.cancel(), its answer ignored.
CancelDriver(c) ==
  /\ pc[c] = "driver"
  /\ Return(c, "CancelRequested")
  /\ UNCHANGED <<store, live, permits, ret, snap, stream, crashes>>

InputRead(p) ==
  /\ pc[p] = "start" /\ p \notin Unserved
  /\ ReadSnapshot(p)
  /\ IF /\ state[TaskOf[p]] = "WaitingForInput"
        /\ AgentOf[owner[TaskOf[p]]] \in AcceptsInput
     THEN Goto(p, "driver") /\ UNCHANGED result
     ELSE Return(p, IF state[TaskOf[p]] = "Absent" THEN "NotFound" ELSE "InvalidRequest")
  /\ UNCHANGED <<store, live, permits, ret, stream, crashes>>

\* The driver gets the input before the task leaves WaitingForInput.
InputDriver(p) ==
  /\ pc[p] = "driver"
  /\ \/ Goto(p, "commit") /\ UNCHANGED result
     \/ Return(p, "DriverError")
  /\ UNCHANGED <<store, live, permits, ret, snap, stream, crashes>>

InputCommit(p) ==
  /\ pc[p] = "commit"
  /\ \/ /\ Transition(p, ResumeFrom, "Running", "Progress", "done")
        /\ result' = [result EXCEPT ![p] = "InputAccepted"]
     \/ /\ ~Applies(p, ResumeFrom)
        /\ Return(p, "StoreError")
        /\ UNCHANGED <<store, ret>>
  /\ UNCHANGED <<live, permits, snap, stream, crashes>>

-----------------------------------------------------------------------------
(* The environment.                                                        *)

\* Is p, as a dispatch call, suspended at an await of its own?
HandlerAwait(p) ==
  IF p \in Invokes
  THEN \/ pc[p] \in {"activate", "accept", "reject", "reject_commit"}
       \/ pc[p] = "publish" /\ ret[p] \in {"queue", "done"}
  ELSE pc[p] \in {"commit", "driver", "publish"}

\* The transport drops the dispatch future where it awaits; what the store has
\* committed stays. A spawned worker is not part of that future.
Drop(p) ==
  /\ p \in Droppable /\ HandlerAwait(p)
  /\ Return(p, "Dropped")
  /\ UNCHANGED <<store, live, permits, ret, snap, stream, crashes>>

\* A store call of p fails without effect, and its `?` or `let _` decides where
\* p goes: out of the dispatch, to the worker's fail_active, or past it.
StoreFault(p) ==
  /\ StoreFaults
  /\ \/ /\ \/ pc[p] = "start" /\ p \notin Unserved
           \/ pc[p] \in {"accept", "reject", "reject_commit"}
           \/ pc[p] = "commit" /\ p \notin Invokes
        /\ Return(p, "StoreError")
     \/ /\ p \in Invokes
        /\ \/ /\ pc[p] \in {"apply", "commit", "event_fail", "event_fail_commit",
                            "check", "closed"}
              /\ Goto(p, "fail")
           \/ /\ pc[p] \in {"fail", "fail_commit"}
              /\ Goto(p, "remove")
        /\ UNCHANGED result
  /\ UNCHANGED <<store, live, permits, ret, snap, stream, crashes>>

\* The daemon dies and is started again on the same durable store. Nothing of
\* the process survives, and start-up touches no task.
Crash ==
  /\ crashes < MaxCrashes
  /\ crashes' = crashes + 1
  /\ pc' = [p \in Proc |-> IF pc[p] = "start" THEN "start" ELSE "done"]
  /\ active' = {}
  /\ published' = [t \in Task |-> <<>>]
  /\ queue_held' = {} /\ caller_held' = {} /\ global_held' = {} /\ agent_held' = {}
  /\ UNCHANGED <<store, ret, snap, stream, result>>

-----------------------------------------------------------------------------
InvokeStep(i) ==
  \/ Refuse(i) \/ InvokeExisting(i) \/ InvokeTaken(i) \/ InvokeCreate(i)
  \/ InvokeActivate(i) \/ InvokeAccept(i)
  \/ AcquireQueue(i) \/ AcquireCaller(i) \/ AcquireGlobal(i) \/ AcquireAgent(i)
  \/ RejectRead(i) \/ RejectCommit(i) \/ Publish(i)

WorkerStep(i) ==
  \/ DriverInvoke(i) \/ DriverRecv(i) \/ ApplyRead(i) \/ ApplyCommit(i)
  \/ EventFailRead(i) \/ EventFailCommit(i) \/ CheckTerminal(i)
  \/ TimeoutCancel(i) \/ FailRead(i) \/ FailCommit(i) \/ WorkerEnd(i)

CancelStep(c) ==
  Refuse(c) \/ CancelRead(c) \/ CancelCommit(c) \/ CancelDriver(c) \/ Publish(c)

InputStep(p) ==
  Refuse(p) \/ InputRead(p) \/ InputDriver(p) \/ InputCommit(p) \/ Publish(p)

\* Every call has returned and every worker has ended.
Quiet == \A p \in Proc : pc[p] = "done"

Next ==
  \/ \E i \in Invokes : InvokeStep(i) \/ WorkerStep(i) \/ Timeout(i)
  \/ \E c \in Cancels : CancelStep(c)
  \/ \E p \in Inputs  : InputStep(p)
  \/ \E p \in Proc    : Drop(p) \/ StoreFault(p)
  \/ Crash
  \/ Quiet /\ UNCHANGED vars

Spec == Init /\ [][Next]_vars

\* The runtime polls every ready task: each handler and worker goes on. The
\* timer of a worker fires. Nothing makes a driver send an event.
Fairness ==
  /\ \A i \in Invokes : /\ WF_vars(InvokeStep(i)) /\ WF_vars(Timeout(i))
                        /\ WF_vars(WorkerStep(i) /\ pc[i] \notin {"invoke", "recv"})
  /\ \A c \in Cancels : WF_vars(CancelStep(c))
  /\ \A p \in Inputs  : WF_vars(InputStep(p))

FairSpec == Spec /\ Fairness
-----------------------------------------------------------------------------
(* Properties.                                                             *)

TypeOK ==
  /\ state \in [Task -> TaskState \cup {"Absent"}]
  /\ revision \in [Task -> Nat]
  /\ log \in [Task -> Seq(EventKind)]
  /\ owner \in [Task -> Invokes \cup {NoCall}]
  /\ active \subseteq Task
  /\ published \in [Task -> Seq(Nat)]
  /\ queue_held \subseteq Invokes /\ caller_held \subseteq Invokes
  /\ global_held \subseteq Invokes /\ agent_held \subseteq Invokes
  /\ pc \in [Proc -> Label]
  /\ ret \in [Proc -> {"queue", "done", "check", "remove", "driver"}]
  /\ snap \in [Proc -> Snapshot]
  /\ event \in [Invokes -> DriverEvent]
  /\ received \in Nat
  /\ result \in [Proc -> {"None", "InvalidRequest", "Existing", "Created",
                         "StoreError", "ResourceExhausted", "NotFound",
                         "CancelRequested", "InputAccepted", "DriverError",
                         "Dropped"}]
  /\ crashes \in Nat

\* The stored snapshot is what replaying the stored history gives: every
\* append moves state, revision and history together, and no writer that
\* worked from an older snapshot gets its next_state in.
ReplayMatchesSnapshot ==
  \A t \in Task : owner[t] # NoCall =>
    /\ state[t] = Replay(log[t])
    /\ revision[t] = Len(log[t])

\* No event is ever stored behind a Completed, Failed or Cancelled, whichever
\* of worker, cancel, provide_input and rejected invoke race for the last word.
NothingAfterTerminal ==
  \A t \in Task : \A n \in 1..Len(log[t]) :
    StateOf(log[t][n]) \in Terminal => n = Len(log[t])

\* Durable first: what is broadcast is already stored, and no event is
\* broadcast twice.
DurableBeforeBroadcast ==
  \A t \in Task :
    /\ \A n \in 1..Len(published[t]) : published[t][n] \in 1..Len(log[t])
    /\ \A m, n \in 1..Len(published[t]) :
         published[t][m] = published[t][n] => m = n

\* i runs as a worker: its driver may be running.
Working(i) ==
  \/ pc[i] \in WorkerPc \ {"publish"}
  \/ pc[i] = "publish" /\ ret[i] \in {"check", "remove"}

Workers == {i \in Invokes : Working(i)}


\* A call that was turned away and a worker that ended hold no permit: no
\* early return, timeout, dropped future or crash leaks one.
PermitsReturned ==
  \A i \in Invokes :
    pc[i] \in {"done", "reject", "reject_commit"} =>
      i \notin queue_held \cup caller_held \cup global_held \cup agent_held

\* Of all invokes with one caller and one idempotency key, at most one is
\* answered Created, and so reaches a driver.
IdempotentInvoke ==
  \A i, j \in Invokes :
    /\ result[i] = "Created" /\ result[j] = "Created"
    /\ CallerOf[i] = CallerOf[j] /\ KeyOf[i] = KeyOf[j]
    => i = j

\* Once a cancel is recorded the task only ends: no late progress, artifact,
\* input or completion of the driver takes it back to work.
CancelSticks ==
  [][\A t \in Task : state[t] = "CancelRequested" =>
       state'[t] \in {"CancelRequested", "Cancelled", "Failed"}]_vars

Lifecycle == INSTANCE TaskLifecycle

\* AdapterCore implements the life cycle it promises.
LifecycleSpec == Lifecycle!Spec

\* One task as its subscribers see it.
Unsent(t) ==
  {snap[p].revision + 1 : p \in {q \in Proc : pc[q] = "publish" /\ TaskOf[q] = t}}

Channel(t) ==
  IF t \in active THEN "open"
  ELSE IF owner[t] = NoCall \/ pc[owner[t]] = "activate" THEN "none"
  ELSE "closed"

Events(t) == INSTANCE TaskEvents
  WITH stored <- revision[t], final <- state[t] \in Terminal,
       unsent <- Unsent(t), chan <- published[t], channel <- Channel(t),
       MaxEvents <- MaxDriverEvents + 2 * Cardinality(Proc),
       Writers <- Cardinality(Proc), Lossy <- TRUE

\* AdapterCore implements what module TaskEvents says a subscriber may rely
\* on: an event is sent at most once and only after it is stored, and a task
\* ends only while it has a channel.
EventsSpec ==
  /\ \A t \in Task : Events(t)!EventsInit
  /\ [][\A t \in Task : \/ Events(t)!EventsNext
                         \/ UNCHANGED Events(t)!eventVars]_vars



\* "... call the driver's cancel and move the task to the terminal timeout
\* state": a worker that has ended leaves its task terminal.
WorkerLeavesTerminal ==
  \A i \in Invokes :
    result[i] = "Created" /\ pc[i] = "done" => state[TaskOf[i]] \in Terminal
=============================================================================
