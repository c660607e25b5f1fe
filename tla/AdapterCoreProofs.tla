------------------------- MODULE AdapterCoreProofs -------------------------
(***************************************************************************)
(* Proofs about AdapterCore, for every set of tasks, calls and agents and  *)
(* all limits.                                                             *)
(***************************************************************************)
EXTENDS AdapterCore, TLAPS

\* Every kind of event leaves a task in one of its states.
LEMMA StateOfType ==
  ASSUME NEW kind \in EventKind
  PROVE  StateOf(kind) \in TaskState
BY DEF EventKind, StateOf, TaskState

\* So does the next_state apply_driver_event computes from a state it saw.
LEMMA ApplyNextType ==
  ASSUME NEW e \in DriverEvent, NEW seen \in TaskState \cup {"Absent"}
  PROVE  ApplyNext(e, seen) \in TaskState \cup {"Absent"}
BY StateOfType DEF ApplyNext, DriverEvent

\* Every variable starts with a value of its type.
LEMMA TypeInit == Init => TypeOK
BY DEF Init, TypeOK, DriverEvent, EventKind, Snapshot, TaskState, Label

\* The type of what an append that applies writes.
LEMMA TransitionType ==
  ASSUME TypeOK, NEW p \in Proc, NEW from, NEW next \in TaskState \cup {"Absent"},
         NEW kind \in EventKind, NEW then,
         then \in {"queue", "done", "check", "remove", "driver"},
         Transition(p, from, next, kind, then)
  PROVE  /\ state' \in [Task -> TaskState \cup {"Absent"}]
         /\ revision' \in [Task -> Nat]
         /\ log' \in [Task -> Seq(EventKind)]
         /\ owner' \in [Task -> Invokes \cup {NoCall}]
         /\ ret' \in [Proc -> {"queue", "done", "check", "remove", "driver"}]
         /\ pc' = [pc EXCEPT ![p] = "publish"]
<1> DEFINE t == TaskOf[p]
<1>1. t \in Task
  BY RequestAssumption
<1>2. /\ state' = [state EXCEPT ![t] = next]
      /\ revision' = [revision EXCEPT ![t] = @ + 1]
      /\ log' = [log EXCEPT ![t] = Append(@, kind)]
      /\ ret' = [ret EXCEPT ![p] = then]
      /\ pc' = [pc EXCEPT ![p] = "publish"]
      /\ owner' = owner
  BY DEF Transition, Goto
<1>3. log[t] \in Seq(EventKind)
  BY <1>1 DEF TypeOK
<1>4. Append(log[t], kind) \in Seq(EventKind)
  BY <1>3
<1> QED BY <1>1, <1>2, <1>4 DEF TypeOK

\* Every program counter a handler or worker is sent to is a label.
LEMMA Labels ==
  /\ {"start", "done", "activate", "accept", "queue", "caller", "global", "agent",
      "reject", "reject_commit", "driver"} \subseteq Label
  /\ WorkerPc \subseteq Label
  /\ {"invoke", "recv", "apply", "commit", "publish", "check", "closed", "event_fail",
      "event_fail_commit", "timed_out", "fail", "fail_commit", "remove"} \subseteq Label
BY DEF Label, WorkerPc, RunPc

\* What get_snapshot leaves in snap is a snapshot.
LEMMA ReadSnapshotType ==
  ASSUME TypeOK, NEW p \in Proc, ReadSnapshot(p)
  PROVE  snap' \in [Proc -> Snapshot]
BY RequestAssumption DEF TypeOK, ReadSnapshot, Snapshot

\* A dispatch returns one of its answers.
LEMMA ReturnType ==
  ASSUME TypeOK, NEW p \in Proc, NEW answer, Return(p, answer),
         answer \in {"None", "InvalidRequest", "Existing", "Created", "StoreError",
                     "ResourceExhausted", "NotFound", "CancelRequested",
                     "InputAccepted", "DriverError", "Dropped"}
  PROVE  /\ pc' \in [Proc -> Label]
         /\ result' \in [Proc -> {"None", "InvalidRequest", "Existing", "Created",
                         "StoreError", "ResourceExhausted", "NotFound",
                         "CancelRequested", "InputAccepted", "DriverError",
                         "Dropped"}]
BY Labels DEF TypeOK, Return, Goto

\* Broadcasting an event keeps the types.
LEMMA PublishType ==
  ASSUME TypeOK, NEW p \in Proc, Publish(p)
  PROVE  TypeOK'
<1>1. TaskOf[p] \in Task /\ snap[p].revision + 1 \in Nat
  BY RequestAssumption DEF TypeOK, Snapshot
<1>2. published[TaskOf[p]] \in Seq(Nat)
  BY <1>1 DEF TypeOK
<1>3. Append(published[TaskOf[p]], snap[p].revision + 1) \in Seq(Nat)
  BY <1>1, <1>2
<1>4. published' \in [Task -> Seq(Nat)]
  BY <1>1, <1>3 DEF TypeOK, Publish
<1>5. ret[p] \in Label
  BY Labels DEF TypeOK
<1>6. pc' \in [Proc -> Label]
  BY <1>5 DEF TypeOK, Publish, Goto
<1> QED BY <1>4, <1>6 DEF TypeOK, Publish, store, permits, stream

\* The steps of invoke up to the spawn of its worker keep the types.
LEMMA TypeInvoke ==
  ASSUME TypeOK, NEW i \in Invokes, InvokeStep(i)
  PROVE  TypeOK'
<1>p. i \in Proc
  BY DEF Proc
<1>1. CASE Refuse(i)
  BY <1>1, <1>p DEF TypeOK, Refuse, Return, Goto, Label, store, live, permits, stream
<1>2. CASE InvokeExisting(i)
  BY <1>2, <1>p DEF TypeOK, InvokeExisting, Return, Goto, Label, store, live, permits, stream
<1>3. CASE InvokeTaken(i)
  BY <1>3, <1>p DEF TypeOK, InvokeTaken, Return, Goto, Label, store, live, permits, stream
<1>4. CASE InvokeCreate(i)
  BY <1>4, <1>p, RequestAssumption
  DEF TypeOK, InvokeCreate, Goto, Label, live, permits, stream, Snapshot, TaskState
<1>5. CASE InvokeActivate(i)
  BY <1>5, <1>p, RequestAssumption DEF TypeOK, InvokeActivate, Goto, Label, store, permits, stream
<1>6. CASE InvokeAccept(i)
  <2>1. CASE Transition(i, AcceptFrom, "Accepted", "Accepted", "queue") /\ UNCHANGED result
    BY <1>6, <2>1, <1>p, TransitionType
    DEF TypeOK, InvokeAccept, live, permits, stream, TaskState, EventKind, Label, WorkerPc, RunPc
  <2>2. CASE Return(i, "StoreError") /\ UNCHANGED <<store, ret>>
    BY <1>6, <2>2, <1>p DEF TypeOK, InvokeAccept, Return, Goto, Label, store, live, permits, stream
  <2> QED BY <1>6, <2>1, <2>2 DEF InvokeAccept
<1>7. CASE AcquireQueue(i)
  BY <1>7, <1>p DEF TypeOK, AcquireQueue, Goto, Label, store, live, stream
<1>8. CASE AcquireCaller(i)
  BY <1>8, <1>p DEF TypeOK, AcquireCaller, Goto, Label, store, live, stream
<1>9. CASE AcquireGlobal(i)
  BY <1>9, <1>p DEF TypeOK, AcquireGlobal, Goto, Label, store, live, stream
<1>10. CASE AcquireAgent(i)
  <2>1. pc' \in [Proc -> Label]
    BY <1>10, <1>p, Labels DEF TypeOK, AcquireAgent, Goto
  <2>2. /\ queue_held' \subseteq Invokes /\ caller_held' \subseteq Invokes
        /\ global_held' \subseteq Invokes /\ agent_held' \subseteq Invokes
    BY <1>10 DEF TypeOK, AcquireAgent
  <2>3. result' = result \/ result' = [result EXCEPT ![i] = "Created"]
    BY <1>10 DEF AcquireAgent
  <2> QED BY <1>10, <1>p, <2>1, <2>2, <2>3 DEF TypeOK, AcquireAgent, store, live, stream
<1>11. CASE RejectRead(i)
  BY <1>11, <1>p, RequestAssumption
  DEF TypeOK, RejectRead, ReadSnapshot, Snapshot, Return, Goto, Label, store, live, permits, stream
<1>12. CASE RejectCommit(i)
  <2>1. CASE /\ Transition(i, FailFrom, "Failed", "Failed", "done")
             /\ result' = [result EXCEPT ![i] = "ResourceExhausted"]
    BY <1>12, <2>1, <1>p, TransitionType
    DEF TypeOK, RejectCommit, live, permits, stream, TaskState, EventKind, Label, WorkerPc, RunPc
  <2>2. CASE Return(i, "StoreError") /\ UNCHANGED <<store, ret>>
    BY <1>12, <2>2, <1>p DEF TypeOK, RejectCommit, Return, Goto, Label, store, live, permits, stream
  <2> QED BY <1>12, <2>1, <2>2 DEF RejectCommit
<1>13. CASE Publish(i)
  BY <1>13, <1>p, PublishType
<1> QED
  BY <1>1, <1>2, <1>3, <1>4, <1>5, <1>6, <1>7, <1>8, <1>9, <1>10, <1>11, <1>12, <1>13
  DEF InvokeStep

\* The steps of a worker, its timeout included, keep the types.
LEMMA TypeWorker ==
  ASSUME TypeOK, NEW i \in Invokes, WorkerStep(i) \/ Timeout(i)
  PROVE  TypeOK'
<1>p. i \in Proc
  BY DEF Proc
<1>1. CASE DriverInvoke(i)
  BY <1>1, <1>p, Labels DEF TypeOK, DriverInvoke, Goto, store, live, permits, stream
<1>2. CASE DriverRecv(i)
  <2>1. event' \in [Invokes -> DriverEvent] /\ received' \in Nat
    <3>1. CASE UNCHANGED stream
      BY <3>1 DEF TypeOK, stream
    <3>2. CASE received' = received + 1
               /\ \E e \in DriverEvent : event' = [event EXCEPT ![i] = e]
      BY <3>2 DEF TypeOK
    <3> QED BY <1>2, <3>1, <3>2 DEF DriverRecv
  <2>2. pc' \in [Proc -> Label]
    BY <1>2, <1>p, Labels DEF TypeOK, DriverRecv, Goto
  <2> QED BY <1>2, <2>1, <2>2 DEF TypeOK, DriverRecv, store, live, permits
<1>3. CASE ApplyRead(i)
  BY <1>3, <1>p, Labels, RequestAssumption
  DEF TypeOK, ApplyRead, ReadSnapshot, Snapshot, Goto, store, live, permits, stream
<1>4. CASE ApplyCommit(i)
  <2>1. CASE Transition(i, ApplyFrom(event[i]), ApplyNext(event[i], snap[i].state),
                        event[i], "check")
    <3>1. event[i] \in DriverEvent /\ event[i] \in EventKind
      BY DEF TypeOK, DriverEvent
    <3>2. snap[i].state \in TaskState \cup {"Absent"}
      BY <1>p DEF TypeOK, Snapshot
    <3>3. ApplyNext(event[i], snap[i].state) \in TaskState \cup {"Absent"}
      BY <3>1, <3>2, ApplyNextType
    <3> QED BY <1>4, <2>1, <3>1, <3>3, <1>p, TransitionType, Labels
            DEF TypeOK, ApplyCommit, live, permits, stream
  <2>2. CASE Goto(i, "fail") /\ UNCHANGED <<store, ret>>
    BY <1>4, <2>2, <1>p, Labels DEF TypeOK, ApplyCommit, Goto, store, live, permits, stream
  <2> QED BY <1>4, <2>1, <2>2 DEF ApplyCommit
<1>5. CASE EventFailRead(i)
  BY <1>5, <1>p, Labels, RequestAssumption
  DEF TypeOK, EventFailRead, ReadSnapshot, Snapshot, Goto, store, live, permits, stream
<1>6. CASE EventFailCommit(i)
  <2>1. CASE Transition(i, FailFrom, "Failed", "Failed", "check")
    BY <1>6, <2>1, <1>p, TransitionType, Labels
    DEF TypeOK, EventFailCommit, live, permits, stream, TaskState, EventKind
  <2>2. CASE Goto(i, "fail") /\ UNCHANGED <<store, ret>>
    BY <1>6, <2>2, <1>p, Labels DEF TypeOK, EventFailCommit, Goto, store, live, permits, stream
  <2> QED BY <1>6, <2>1, <2>2 DEF EventFailCommit
<1>7. CASE CheckTerminal(i)
  BY <1>7, <1>p, Labels, RequestAssumption
  DEF TypeOK, CheckTerminal, ReadSnapshot, Snapshot, Goto, store, live, permits, stream
<1>8. CASE TimeoutCancel(i)
  BY <1>8, <1>p, Labels DEF TypeOK, TimeoutCancel, Goto, store, live, permits, stream
<1>9. CASE FailRead(i)
  BY <1>9, <1>p, Labels, RequestAssumption
  DEF TypeOK, FailRead, ReadSnapshot, Snapshot, Goto, store, live, permits, stream
<1>10. CASE FailCommit(i)
  <2>1. CASE Transition(i, FailFrom, "Failed", "Failed", "remove")
    BY <1>10, <2>1, <1>p, TransitionType, Labels
    DEF TypeOK, FailCommit, live, permits, stream, TaskState, EventKind
  <2>2. CASE Goto(i, "remove") /\ UNCHANGED <<store, ret>>
    BY <1>10, <2>2, <1>p, Labels DEF TypeOK, FailCommit, Goto, store, live, permits, stream
  <2> QED BY <1>10, <2>1, <2>2 DEF FailCommit
<1>11. CASE WorkerEnd(i)
  BY <1>11, <1>p, Labels DEF TypeOK, WorkerEnd, Goto, store, stream
<1>12. CASE Timeout(i)
  BY <1>12, <1>p, Labels DEF TypeOK, Timeout, Goto, store, live, permits, stream
<1> QED
  BY <1>1, <1>2, <1>3, <1>4, <1>5, <1>6, <1>7, <1>8, <1>9, <1>10, <1>11, <1>12
  DEF WorkerStep

\* The steps of cancel keep the types.
LEMMA TypeCancel ==
  ASSUME TypeOK, NEW c \in Cancels, CancelStep(c)
  PROVE  TypeOK'
<1>p. c \in Proc
  BY DEF Proc
<1>1. CASE Refuse(c)
  BY <1>1, <1>p, Labels DEF TypeOK, Refuse, Return, Goto, store, live, permits, stream
<1>2. CASE CancelRead(c)
  <2>1. CASE Goto(c, "commit") /\ UNCHANGED result
    BY <1>2, <2>1, <1>p, Labels, ReadSnapshotType
    DEF TypeOK, CancelRead, Goto, store, live, permits, stream
  <2>2. CASE Return(c, "NotFound") \/ Return(c, "CancelRequested")
    BY <1>2, <2>2, <1>p, ReturnType, ReadSnapshotType
    DEF TypeOK, CancelRead, store, live, permits, stream
  <2> QED BY <1>2, <2>1, <2>2 DEF CancelRead
<1>3. CASE CancelCommit(c)
  <2>1. CASE Transition(c, CancelFrom, "CancelRequested", "CancelRequested", "driver")
             /\ UNCHANGED result
    BY <1>3, <2>1, <1>p, TransitionType, Labels
    DEF TypeOK, CancelCommit, live, permits, stream, TaskState, EventKind
  <2>2. CASE Return(c, "StoreError") /\ UNCHANGED <<store, ret>>
    BY <1>3, <2>2, <1>p, Labels
    DEF TypeOK, CancelCommit, Return, Goto, store, live, permits, stream
  <2> QED BY <1>3, <2>1, <2>2 DEF CancelCommit
<1>4. CASE CancelDriver(c)
  BY <1>4, <1>p, Labels DEF TypeOK, CancelDriver, Return, Goto, store, live, permits, stream
<1>5. CASE Publish(c)
  BY <1>5, <1>p, PublishType
<1> QED BY <1>1, <1>2, <1>3, <1>4, <1>5 DEF CancelStep

\* The steps of provide_input keep the types.
LEMMA TypeInput ==
  ASSUME TypeOK, NEW p \in Inputs, InputStep(p)
  PROVE  TypeOK'
<1>p. p \in Proc
  BY DEF Proc
<1>1. CASE Refuse(p)
  BY <1>1, <1>p, Labels DEF TypeOK, Refuse, Return, Goto, store, live, permits, stream
<1>2. CASE InputRead(p)
  <2>1. CASE Goto(p, "driver") /\ UNCHANGED result
    BY <1>2, <2>1, <1>p, Labels, ReadSnapshotType
    DEF TypeOK, InputRead, Goto, store, live, permits, stream
  <2>2. CASE Return(p, "NotFound") \/ Return(p, "InvalidRequest")
    BY <1>2, <2>2, <1>p, ReturnType, ReadSnapshotType
    DEF TypeOK, InputRead, store, live, permits, stream
  <2> QED BY <1>2, <2>1, <2>2 DEF InputRead
<1>3. CASE InputDriver(p)
  BY <1>3, <1>p, Labels DEF TypeOK, InputDriver, Return, Goto, store, live, permits, stream
<1>4. CASE InputCommit(p)
  <2>1. CASE /\ Transition(p, ResumeFrom, "Running", "Progress", "done")
             /\ result' = [result EXCEPT ![p] = "InputAccepted"]
    BY <1>4, <2>1, <1>p, TransitionType, Labels
    DEF TypeOK, InputCommit, live, permits, stream, TaskState, EventKind
  <2>2. CASE Return(p, "StoreError") /\ UNCHANGED <<store, ret>>
    BY <1>4, <2>2, <1>p, Labels
    DEF TypeOK, InputCommit, Return, Goto, store, live, permits, stream
  <2> QED BY <1>4, <2>1, <2>2 DEF InputCommit
<1>5. CASE Publish(p)
  BY <1>5, <1>p, PublishType
<1> QED BY <1>1, <1>2, <1>3, <1>4, <1>5 DEF InputStep

\* Dropped futures, failing store calls and crashes keep the types.
LEMMA TypeEnvironment ==
  ASSUME TypeOK,
         \/ \E p \in Proc : Drop(p) \/ StoreFault(p)
         \/ Crash
  PROVE  TypeOK'
<1>1. ASSUME NEW p \in Proc, Drop(p)
      PROVE  TypeOK'
  BY <1>1, Labels DEF TypeOK, Drop, Return, Goto, store, live, permits, stream
<1>2. ASSUME NEW p \in Proc, StoreFault(p)
      PROVE  TypeOK'
  BY <1>2, Labels DEF TypeOK, StoreFault, Return, Goto, store, live, permits, stream
<1>3. CASE Crash
  BY <1>3, Labels DEF TypeOK, Crash, store, stream
<1> QED BY <1>1, <1>2, <1>3

\* Every step keeps the types.
LEMMA TypeStep ==
  ASSUME TypeOK, [Next]_vars
  PROVE  TypeOK'
<1>1. CASE UNCHANGED vars
  BY <1>1 DEF TypeOK, vars, store, live, permits, stream
<1>2. CASE Next
  BY <1>1, <1>2, TypeInvoke, TypeWorker, TypeCancel, TypeInput, TypeEnvironment DEF Next
<1> QED BY <1>1, <1>2

\* Type correctness: every step of every handler, worker, fault and crash
\* leaves every variable within its type.
THEOREM TypeCorrect == Spec => []TypeOK
<1>1. TypeOK /\ [Next]_vars => TypeOK'
  BY TypeStep
<1> QED BY TypeInit, <1>1, PTL DEF Spec
=============================================================================
