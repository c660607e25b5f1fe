---------------------- MODULE AdapterCoreHistoryProofs ----------------------
(***************************************************************************)
(* The stored histories of AdapterCore: snapshot and history agree, nothing*)
(* follows a terminal event, a recorded cancel sticks, and AdapterCore     *)
(* implements TaskLifecycle. Each step of Next either leaves the store     *)
(* alone, creates a row, or appends one event along an edge of the life    *)
(* cycle (StoreSteps); the rest follows from these three kinds of step.    *)
(***************************************************************************)
EXTENDS AdapterCoreProofs

\* A row exists as soon as its invoke is past create_or_get_idempotent.
RowsExist ==
  /\ \A t \in Task : owner[t] = NoCall <=> state[t] = "Absent"
  /\ \A t \in Task : state[t] = "Absent" => log[t] = <<>> /\ revision[t] = 0
  /\ \A i \in Invokes : pc[i] \notin {"start", "done"} => state[TaskOf[i]] # "Absent"

\* A worker about to apply an event whose revision is still the stored one
\* has also seen the stored state: its next_state is not stale.
SeenIsCurrent ==
  \A i \in Invokes : pc[i] = "commit" =>
    /\ snap[i].revision <= revision[TaskOf[i]]
    /\ snap[i].revision = revision[TaskOf[i]] => snap[i].state = state[TaskOf[i]]

\* ReplayMatchesSnapshot alone is not inductive: apply_driver_event computes
\* next_state from what it read, so it also takes SeenIsCurrent.
HistoryInv ==
  TypeOK /\ RowsExist /\ SeenIsCurrent /\ ReplayMatchesSnapshot /\ NothingAfterTerminal

\* The three kinds of step.
Born(i) ==
  LET t == TaskOf[i] IN
  /\ owner[t] = NoCall
  /\ owner' = [owner EXCEPT ![t] = i]
  /\ state' = [state EXCEPT ![t] = "Created"]
  /\ UNCHANGED <<revision, log>>

Grown(t, kind) ==
  /\ state[t] \in Lifecycle!MayFollow(kind)
  /\ state'    = [state EXCEPT ![t] = StateOf(kind)]
  /\ revision' = [revision EXCEPT ![t] = @ + 1]
  /\ log'      = [log EXCEPT ![t] = Append(@, kind)]
  /\ UNCHANGED owner
-----------------------------------------------------------------------------
\* The edges of the life cycle, one kind of event at a time.
LEMMA MayFollowDef ==
  /\ Lifecycle!MayFollow("Accepted") = AcceptFrom
  /\ Lifecycle!MayFollow("Progress") = ProgressFrom \cup ResumeFrom
  /\ Lifecycle!MayFollow("Artifact") = ArtifactFrom
  /\ Lifecycle!MayFollow("InputRequired") = InputFrom
  /\ Lifecycle!MayFollow("CancelRequested") = CancelFrom
  /\ Lifecycle!MayFollow("Completed") = CompleteFrom
  /\ Lifecycle!MayFollow("Failed") = FailFrom
  /\ Lifecycle!MayFollow("Cancelled") = CancelledFrom
<1>1. Lifecycle!MayFollow("Accepted") = AcceptFrom
  BY DEF Lifecycle!MayFollow, Lifecycle!AcceptFrom, AcceptFrom
<1>2. Lifecycle!MayFollow("Progress") = ProgressFrom \cup ResumeFrom
  BY DEF Lifecycle!MayFollow, Lifecycle!ProgressFrom, Lifecycle!ResumeFrom, ProgressFrom, ResumeFrom
<1>3. Lifecycle!MayFollow("Artifact") = ArtifactFrom
  BY DEF Lifecycle!MayFollow, Lifecycle!ArtifactFrom, Lifecycle!Live, ArtifactFrom, Live
<1>4. Lifecycle!MayFollow("InputRequired") = InputFrom
  BY DEF Lifecycle!MayFollow, Lifecycle!InputFrom, InputFrom
<1>5. Lifecycle!MayFollow("CancelRequested") = CancelFrom
  BY DEF Lifecycle!MayFollow, Lifecycle!CancelFrom, Lifecycle!Live, CancelFrom, Live
<1>6. Lifecycle!MayFollow("Completed") = CompleteFrom
  BY DEF Lifecycle!MayFollow, Lifecycle!CompleteFrom, Lifecycle!Live, CompleteFrom, Live
<1>7. Lifecycle!MayFollow("Failed") = FailFrom
  BY DEF Lifecycle!MayFollow, Lifecycle!FailFrom, Lifecycle!Live, FailFrom, Live
<1>8. Lifecycle!MayFollow("Cancelled") = CancelledFrom
  BY DEF Lifecycle!MayFollow, Lifecycle!CancelledFrom, Lifecycle!Live, CancelledFrom, Live
<1> QED BY <1>1, <1>2, <1>3, <1>4, <1>5, <1>6, <1>7, <1>8

\* The state each kind of event leaves.
LEMMA StateOfDef ==
  /\ StateOf("Progress") = "Running" /\ StateOf("Artifact") = "Running"
  /\ StateOf("InputRequired") = "WaitingForInput"
  /\ StateOf("Accepted") = "Accepted" /\ StateOf("CancelRequested") = "CancelRequested"
  /\ StateOf("Completed") = "Completed" /\ StateOf("Failed") = "Failed"
  /\ StateOf("Cancelled") = "Cancelled"
BY DEF StateOf

\* No event may follow a terminal state.
LEMMA NoneFollowsTerminal ==
  ASSUME NEW kind \in EventKind
  PROVE  /\ Lifecycle!MayFollow(kind) \cap Terminal = {}
         /\ "Absent" \notin Lifecycle!MayFollow(kind)
         /\ "CancelRequested" \in Lifecycle!MayFollow(kind) =>
              kind \in {"Failed", "Cancelled"}
BY MayFollowDef
DEF EventKind, Terminal, Live, AcceptFrom, ProgressFrom, ResumeFrom, ArtifactFrom,
    InputFrom, CancelFrom, CompleteFrom, FailFrom, CancelledFrom

\* An append that applies takes an edge of the life cycle.
LEMMA TransitionGrows ==
  ASSUME NEW p \in Proc, NEW from, NEW kind \in EventKind, NEW then,
         Transition(p, from, StateOf(kind), kind, then),
         from \subseteq Lifecycle!MayFollow(kind)
  PROVE  Grown(TaskOf[p], kind)
BY DEF Transition, Applies, Grown

\* The allowed_states of apply_driver_event are those of the life cycle, and
\* its next_state too, given that what it saw is what is stored.
LEMMA ApplyEdge ==
  ASSUME NEW e \in DriverEvent, NEW seen \in ApplyFrom(e)
  PROVE  /\ ApplyFrom(e) \subseteq Lifecycle!MayFollow(e)
         /\ ApplyNext(e, seen) = StateOf(e)
<1>1. ApplyFrom("Progress") = ProgressFrom /\ ApplyFrom("Artifact") = ArtifactFrom
  BY DEF ApplyFrom
<1>2. ApplyFrom("InputRequired") = InputFrom /\ ApplyFrom("Completed") = CompleteFrom
  BY DEF ApplyFrom
<1>3. /\ ApplyFrom("Cancelled") = CancelledFrom
      /\ ApplyFrom("Failed") = {} /\ ApplyFrom("Accepted") = {}
  BY DEF ApplyFrom
<1>4. e \in {"Progress", "Artifact", "InputRequired", "Completed", "Cancelled",
             "Failed", "Accepted"}
  BY DEF DriverEvent, EventKind
<1>5. ApplyFrom(e) \subseteq Lifecycle!MayFollow(e)
  BY <1>1, <1>2, <1>3, <1>4, MayFollowDef
<1>6. ApplyNext(e, seen) = StateOf(e)
  <2>1. CASE e = "Progress"
    BY <2>1, <1>1, StateOfDef DEF ApplyNext, ProgressFrom
  <2>2. CASE e # "Progress"
    BY <2>2 DEF ApplyNext
  <2> QED BY <2>1, <2>2
<1> QED BY <1>5, <1>6

-----------------------------------------------------------------------------
\* What one step of process p does to the store and to the invokes: it leaves
\* the others where they are, takes at most one kind of step on the store, goes
\* to work only by creating its row, and reaches the append of
\* apply_driver_event only by having read the snapshot just now.
Effect(p) ==
  /\ \A q \in Invokes \ {p} : pc'[q] = pc[q] /\ snap'[q] = snap[q]
  /\ \/ UNCHANGED store
     \/ p \in Invokes /\ Born(p)
     \/ \E kind \in EventKind : Grown(TaskOf[p], kind)
  /\ p \in Invokes /\ pc'[p] \notin {"start", "done"} =>
       pc[p] \notin {"start", "done"} \/ Born(p)
  /\ p \in Invokes /\ pc'[p] = "commit" => UNCHANGED store /\ ReadSnapshot(p)

\* A step that goes on elsewhere, or returns, and leaves store and snapshots.
LEMMA EffectGoto ==
  ASSUME TypeOK, NEW p \in Proc, NEW label \in Label, Goto(p, label),
         UNCHANGED store, UNCHANGED snap,
         p \in Invokes => label # "commit",
         p \in Invokes => label = "done" \/ pc[p] \notin {"start", "done"}
  PROVE  Effect(p)
BY DEF TypeOK, Effect, Goto, Proc

\* A step that reads the snapshot.
LEMMA EffectRead ==
  ASSUME TypeOK, NEW p \in Proc, NEW label \in Label, Goto(p, label),
         UNCHANGED store, ReadSnapshot(p),
         p \in Invokes => label = "done" \/ pc[p] \notin {"start", "done"}
  PROVE  Effect(p)
<1>1. \A q \in Invokes \ {p} : pc'[q] = pc[q] /\ snap'[q] = snap[q]
  BY DEF TypeOK, Goto, ReadSnapshot, Proc
<1>2. p \in Invokes /\ pc'[p] \notin {"start", "done"} => pc[p] \notin {"start", "done"}
  BY DEF TypeOK, Goto
<1> QED BY <1>1, <1>2 DEF Effect

\* A step whose append applied.
LEMMA EffectAppend ==
  ASSUME TypeOK, NEW p \in Proc, NEW from, NEW kind \in EventKind, NEW next, NEW then,
         Transition(p, from, next, kind, then), UNCHANGED snap,
         next = StateOf(kind), from \subseteq Lifecycle!MayFollow(kind),
         p \in Invokes => pc[p] \notin {"start", "done"}
  PROVE  Effect(p)
<1>1. Grown(TaskOf[p], kind)
  BY TransitionGrows
<1>2. pc' = [pc EXCEPT ![p] = "publish"] /\ snap' = snap
  BY DEF Transition, Goto
<1>3. \A q \in Invokes \ {p} : pc'[q] = pc[q] /\ snap'[q] = snap[q]
  BY <1>2 DEF TypeOK, Proc
<1>4. pc'[p] = "publish"
  BY <1>2 DEF TypeOK
<1> QED BY <1>1, <1>3, <1>4 DEF Effect

\* invoke, up to the spawn of its worker.
LEMMA EffectInvoke ==
  ASSUME TypeOK, SeenIsCurrent, NEW i \in Invokes, InvokeStep(i)
  PROVE  Effect(i)
<1>p. i \in Proc
  BY DEF Proc
<1>1. CASE Refuse(i)
  BY <1>1, <1>p, Labels, EffectGoto DEF Refuse, Return
<1>2. CASE InvokeExisting(i)
  BY <1>2, <1>p, Labels, EffectGoto DEF InvokeExisting, Return
<1>3. CASE InvokeTaken(i)
  BY <1>3, <1>p, Labels, EffectGoto DEF InvokeTaken, Return
<1>4. CASE InvokeCreate(i)
  <2>1. Born(i)
    BY <1>4 DEF InvokeCreate, Born
  <2>2. /\ \A q \in Invokes \ {i} : pc'[q] = pc[q] /\ snap'[q] = snap[q]
        /\ pc'[i] = "activate"
    BY <1>4, <1>p DEF InvokeCreate, Goto, TypeOK, Proc
  <2> QED BY <2>1, <2>2 DEF Effect
<1>5. CASE InvokeActivate(i)
  BY <1>5, <1>p, Labels, EffectGoto DEF InvokeActivate
<1>6. CASE InvokeAccept(i)
  <2>1. CASE Transition(i, AcceptFrom, "Accepted", "Accepted", "queue")
    BY <1>6, <2>1, <1>p, EffectAppend, StateOfDef, MayFollowDef DEF InvokeAccept, EventKind
  <2>2. CASE Return(i, "StoreError") /\ UNCHANGED <<store, ret>>
    BY <1>6, <2>2, <1>p, Labels, EffectGoto DEF InvokeAccept, Return
  <2> QED BY <1>6, <2>1, <2>2 DEF InvokeAccept
<1>7. CASE AcquireQueue(i)
  BY <1>7, <1>p, Labels, EffectGoto DEF AcquireQueue
<1>8. CASE AcquireCaller(i)
  BY <1>8, <1>p, Labels, EffectGoto DEF AcquireCaller
<1>9. CASE AcquireGlobal(i)
  BY <1>9, <1>p, Labels, EffectGoto DEF AcquireGlobal
<1>10. CASE AcquireAgent(i)
  BY <1>10, <1>p, Labels, EffectGoto DEF AcquireAgent
<1>11. CASE RejectRead(i)
  BY <1>11, <1>p, Labels, EffectRead DEF RejectRead, Return
<1>12. CASE RejectCommit(i)
  <2>1. CASE Transition(i, FailFrom, "Failed", "Failed", "done")
    BY <1>12, <2>1, <1>p, EffectAppend, StateOfDef, MayFollowDef DEF RejectCommit, EventKind
  <2>2. CASE Return(i, "StoreError") /\ UNCHANGED <<store, ret>>
    BY <1>12, <2>2, <1>p, Labels, EffectGoto DEF RejectCommit, Return
  <2> QED BY <1>12, <2>1, <2>2 DEF RejectCommit
<1>13. CASE Publish(i)
  BY <1>13, <1>p, Labels, EffectGoto DEF Publish, TypeOK
<1> QED
  BY <1>1, <1>2, <1>3, <1>4, <1>5, <1>6, <1>7, <1>8, <1>9, <1>10, <1>11, <1>12, <1>13
  DEF InvokeStep

\* The worker and its timeout.
LEMMA EffectWorker ==
  ASSUME TypeOK, SeenIsCurrent, NEW i \in Invokes, WorkerStep(i) \/ Timeout(i)
  PROVE  Effect(i)
<1>p. i \in Proc
  BY DEF Proc
<1>1. CASE DriverInvoke(i)
  BY <1>1, <1>p, Labels, EffectGoto DEF DriverInvoke
<1>2. CASE DriverRecv(i)
  BY <1>2, <1>p, Labels, EffectGoto DEF DriverRecv
<1>3. CASE ApplyRead(i)
  BY <1>3, <1>p, Labels, EffectRead DEF ApplyRead
<1>4. CASE ApplyCommit(i)
  <2>1. CASE Transition(i, ApplyFrom(event[i]), ApplyNext(event[i], snap[i].state),
                        event[i], "check")
    <3>1. event[i] \in DriverEvent /\ event[i] \in EventKind
      BY DEF TypeOK, DriverEvent
    <3>2. state[TaskOf[i]] \in ApplyFrom(event[i]) /\ revision[TaskOf[i]] = snap[i].revision
      BY <2>1 DEF Transition, Applies
    <3>3. snap[i].state = state[TaskOf[i]]
      BY <1>4, <3>2 DEF ApplyCommit, SeenIsCurrent
    <3>4. /\ ApplyFrom(event[i]) \subseteq Lifecycle!MayFollow(event[i])
          /\ ApplyNext(event[i], snap[i].state) = StateOf(event[i])
      BY <3>1, <3>2, <3>3, ApplyEdge
    <3>5. UNCHANGED snap /\ pc[i] = "commit"
      BY <1>4 DEF ApplyCommit
    <3> QED BY <2>1, <1>p, <3>1, <3>4, <3>5, EffectAppend
  <2>2. CASE Goto(i, "fail") /\ UNCHANGED <<store, ret>>
    BY <1>4, <2>2, <1>p, Labels, EffectGoto DEF ApplyCommit
  <2> QED BY <1>4, <2>1, <2>2 DEF ApplyCommit
<1>5. CASE EventFailRead(i)
  BY <1>5, <1>p, Labels, EffectRead DEF EventFailRead
<1>6. CASE EventFailCommit(i)
  <2>1. CASE Transition(i, FailFrom, "Failed", "Failed", "check")
    BY <1>6, <2>1, <1>p, EffectAppend, StateOfDef, MayFollowDef DEF EventFailCommit, EventKind
  <2>2. CASE Goto(i, "fail") /\ UNCHANGED <<store, ret>>
    BY <1>6, <2>2, <1>p, Labels, EffectGoto DEF EventFailCommit
  <2> QED BY <1>6, <2>1, <2>2 DEF EventFailCommit
<1>7. CASE CheckTerminal(i)
  BY <1>7, <1>p, Labels, EffectRead DEF CheckTerminal
<1>8. CASE TimeoutCancel(i)
  BY <1>8, <1>p, Labels, EffectGoto DEF TimeoutCancel
<1>9. CASE FailRead(i)
  BY <1>9, <1>p, Labels, EffectRead DEF FailRead
<1>10. CASE FailCommit(i)
  <2>1. CASE Transition(i, FailFrom, "Failed", "Failed", "remove")
    BY <1>10, <2>1, <1>p, EffectAppend, StateOfDef, MayFollowDef DEF FailCommit, EventKind
  <2>2. CASE Goto(i, "remove") /\ UNCHANGED <<store, ret>>
    BY <1>10, <2>2, <1>p, Labels, EffectGoto DEF FailCommit
  <2> QED BY <1>10, <2>1, <2>2 DEF FailCommit
<1>11. CASE WorkerEnd(i)
  BY <1>11, <1>p, Labels, EffectGoto DEF WorkerEnd
<1>12. CASE Timeout(i)
  BY <1>12, <1>p, Labels, EffectGoto DEF Timeout, RunPc
<1> QED
  BY <1>1, <1>2, <1>3, <1>4, <1>5, <1>6, <1>7, <1>8, <1>9, <1>10, <1>11, <1>12
  DEF WorkerStep

\* cancel.
LEMMA EffectCancel ==
  ASSUME TypeOK, SeenIsCurrent, NEW c \in Cancels, CancelStep(c)
  PROVE  Effect(c)
<1>p. c \in Proc
  BY DEF Proc
<1>1. CASE Refuse(c)
  BY <1>1, <1>p, Labels, EffectGoto, ProcAssumption DEF Refuse, Return
<1>2. CASE CancelRead(c)
  BY <1>2, <1>p, Labels, EffectRead, ProcAssumption DEF CancelRead, Return
<1>3. CASE CancelCommit(c)
  <2>1. CASE Transition(c, CancelFrom, "CancelRequested", "CancelRequested", "driver")
    BY <1>3, <2>1, <1>p, EffectAppend, StateOfDef, MayFollowDef, ProcAssumption DEF CancelCommit, EventKind
  <2>2. CASE Return(c, "StoreError") /\ UNCHANGED <<store, ret>>
    BY <1>3, <2>2, <1>p, Labels, EffectGoto DEF CancelCommit, Return
  <2> QED BY <1>3, <2>1, <2>2 DEF CancelCommit
<1>4. CASE CancelDriver(c)
  BY <1>4, <1>p, Labels, EffectGoto, ProcAssumption DEF CancelDriver, Return
<1>5. CASE Publish(c)
  BY <1>5, <1>p, Labels, EffectGoto DEF Publish, TypeOK
<1> QED
  BY <1>1, <1>2, <1>3, <1>4, <1>5
  DEF CancelStep

\* provide_input.
LEMMA EffectInput ==
  ASSUME TypeOK, SeenIsCurrent, NEW p \in Inputs, InputStep(p)
  PROVE  Effect(p)
<1>p. p \in Proc
  BY DEF Proc
<1>1. CASE Refuse(p)
  BY <1>1, <1>p, Labels, EffectGoto, ProcAssumption DEF Refuse, Return
<1>2. CASE InputRead(p)
  BY <1>2, <1>p, Labels, EffectRead, ProcAssumption DEF InputRead, Return
<1>3. CASE InputDriver(p)
  BY <1>3, <1>p, Labels, EffectGoto, ProcAssumption DEF InputDriver, Return
<1>4. CASE InputCommit(p)
  <2>1. CASE Transition(p, ResumeFrom, "Running", "Progress", "done")
    BY <1>4, <2>1, <1>p, EffectAppend, StateOfDef, MayFollowDef, ProcAssumption DEF InputCommit, EventKind
  <2>2. CASE Return(p, "StoreError") /\ UNCHANGED <<store, ret>>
    BY <1>4, <2>2, <1>p, Labels, EffectGoto DEF InputCommit, Return
  <2> QED BY <1>4, <2>1, <2>2 DEF InputCommit
<1>5. CASE Publish(p)
  BY <1>5, <1>p, Labels, EffectGoto DEF Publish, TypeOK
<1> QED
  BY <1>1, <1>2, <1>3, <1>4, <1>5
  DEF InputStep

\* A dropped future and a failed store call.
LEMMA EffectFault ==
  ASSUME TypeOK, NEW p \in Proc, Drop(p) \/ StoreFault(p)
  PROVE  Effect(p)
<1>1. CASE Drop(p)
  BY <1>1, Labels, EffectGoto DEF Drop, Return
<1>2. CASE StoreFault(p)
  BY <1>2, Labels, EffectGoto DEF StoreFault, Return
<1> QED BY <1>1, <1>2

-----------------------------------------------------------------------------
\* The row of t stays, and if its revision did not move it did not change.
RowStays(t) ==
  /\ state[t] # "Absent" =>
       /\ state'[t] # "Absent" /\ revision[t] <= revision'[t]
       /\ revision'[t] = revision[t] => state'[t] = state[t]
  /\ owner'[t] = NoCall <=> state'[t] = "Absent"
  /\ state'[t] = "Absent" => log'[t] = <<>> /\ revision'[t] = 0

\* Whichever of the three steps is taken, rows stay.
LEMMA RowsStay ==
  ASSUME TypeOK, RowsExist,
         \/ UNCHANGED store
         \/ \E i \in Invokes : Born(i)
         \/ \E t \in Task, kind \in EventKind : Grown(t, kind)
  PROVE  \A t \in Task : RowStays(t)
<1> SUFFICES ASSUME NEW t \in Task PROVE RowStays(t)
  OBVIOUS
<1>0. revision[t] \in Nat /\ (owner[t] = NoCall <=> state[t] = "Absent")
      /\ (state[t] = "Absent" => log[t] = <<>> /\ revision[t] = 0)
  BY DEF TypeOK, RowsExist
<1>1. CASE UNCHANGED <<state[t], revision[t], log[t], owner[t]>>
  BY <1>0, <1>1 DEF RowStays
<1>2. CASE UNCHANGED store
  BY <1>1, <1>2 DEF store
<1>3. ASSUME NEW i \in Invokes, Born(i)
      PROVE  RowStays(t)
  <2>1. CASE t = TaskOf[i]
    <3>1. state'[t] = "Created" /\ owner'[t] = i /\ i # NoCall /\ state[t] = "Absent"
      BY <1>0, <1>3, <2>1, ProcAssumption DEF Born, TypeOK, Proc
    <3> QED BY <3>1 DEF RowStays
  <2>2. CASE t # TaskOf[i]
    BY <1>1, <1>3, <2>2 DEF Born, TypeOK
  <2> QED BY <2>1, <2>2
<1>4. ASSUME NEW u \in Task, NEW kind \in EventKind, Grown(u, kind)
      PROVE  RowStays(t)
  <2>1. CASE t = u
    <3>1. state[t] # "Absent" /\ StateOf(kind) # "Absent"
      BY <1>4, <2>1, NoneFollowsTerminal, StateOfType DEF Grown, TaskState
    <3>2. state'[t] = StateOf(kind) /\ revision'[t] = revision[t] + 1 /\ owner'[t] = owner[t]
      BY <1>4, <2>1 DEF Grown, TypeOK
    <3> QED BY <1>0, <3>1, <3>2 DEF RowStays
  <2>2. CASE t # u
    BY <1>1, <1>4, <2>2 DEF Grown, TypeOK
  <2> QED BY <2>1, <2>2
<1> QED BY <1>2, <1>3, <1>4

\* Snapshot and history move together, and only from a state that is not
\* terminal.
LEMMA HistoriesStay ==
  ASSUME HistoryInv,
         \/ UNCHANGED store
         \/ \E i \in Invokes : Born(i)
         \/ \E t \in Task, kind \in EventKind : Grown(t, kind)
  PROVE  ReplayMatchesSnapshot' /\ NothingAfterTerminal'
<1> USE DEF HistoryInv
<1>1. CASE UNCHANGED store
  BY <1>1 DEF ReplayMatchesSnapshot, NothingAfterTerminal, store
<1>2. ASSUME NEW i \in Invokes, Born(i)
      PROVE  ReplayMatchesSnapshot' /\ NothingAfterTerminal'
  <2>1. NothingAfterTerminal'
    BY <1>2 DEF NothingAfterTerminal, Born
  <2>2. ASSUME NEW t \in Task, owner'[t] # NoCall
        PROVE  state'[t] = Replay(log'[t]) /\ revision'[t] = Len(log'[t])
    <3>1. CASE t = TaskOf[i]
      <4>1. state'[t] = "Created" /\ log'[t] = <<>> /\ revision'[t] = 0
        BY <1>2, <3>1 DEF Born, RowsExist, TypeOK
      <4> QED BY <4>1 DEF Replay
    <3>2. CASE t # TaskOf[i]
      BY <1>2, <2>2, <3>2 DEF Born, TypeOK, ReplayMatchesSnapshot
    <3> QED BY <3>1, <3>2
  <2> QED BY <2>1, <2>2 DEF ReplayMatchesSnapshot
<1>3. ASSUME NEW u \in Task, NEW kind \in EventKind, Grown(u, kind)
      PROVE  ReplayMatchesSnapshot' /\ NothingAfterTerminal'
  <2>1. \A t \in Task \ {u} : /\ state'[t] = state[t] /\ revision'[t] = revision[t]
                             /\ log'[t] = log[t] /\ owner'[t] = owner[t]
    BY <1>3 DEF Grown, TypeOK
  <2>2. /\ state'[u] = StateOf(kind) /\ revision'[u] = revision[u] + 1
        /\ owner'[u] = owner[u] /\ log'[u] = Append(log[u], kind)
    BY <1>3 DEF Grown, TypeOK
  <2>3. log[u] \in Seq(EventKind)
    BY DEF TypeOK
  <2>4. /\ Len(log'[u]) = Len(log[u]) + 1 /\ Len(log[u]) \in Nat
        /\ log'[u][Len(log[u]) + 1] = kind /\ log'[u] # <<>>
        /\ \A n \in 1..Len(log[u]) : log'[u][n] = log[u][n]
    BY <2>2, <2>3
  <2>5. /\ state[u] \notin Terminal /\ state[u] # "Absent"
    BY <1>3, NoneFollowsTerminal DEF Grown
  <2>6. state[u] = Replay(log[u]) /\ revision[u] = Len(log[u])
    BY <2>5 DEF RowsExist, ReplayMatchesSnapshot
  <2>7. ReplayMatchesSnapshot'
    <3>1. state'[u] = Replay(log'[u]) /\ revision'[u] = Len(log'[u])
      BY <2>2, <2>4, <2>6 DEF Replay
    <3> QED BY <3>1, <2>1 DEF ReplayMatchesSnapshot
  <2>8. NothingAfterTerminal'
    <3>1. ASSUME NEW n \in 1..Len(log'[u]), StateOf(log'[u][n]) \in Terminal
          PROVE  n = Len(log'[u])
      <4>1. CASE n \in 1..Len(log[u])
        <5>1. n = Len(log[u]) /\ StateOf(log[u][n]) \in Terminal
          BY <4>1, <3>1, <2>4 DEF NothingAfterTerminal
        <5>2. log[u] # <<>>
          BY <4>1, <2>3
        <5> QED BY <5>1, <5>2, <2>5, <2>6 DEF Replay
      <4>2. CASE n \notin 1..Len(log[u])
        BY <4>2, <2>4
      <4> QED BY <4>1, <4>2
    <3> QED BY <3>1, <2>1 DEF NothingAfterTerminal
  <2> QED BY <2>7, <2>8
<1> QED BY <1>1, <1>2, <1>3

\* Every step of Next is the step of one process, a crash or a stutter.
LEMMA NextEffect ==
  ASSUME TypeOK, SeenIsCurrent, Next
  PROVE  (\E p \in Proc : Effect(p)) \/ Crash \/ UNCHANGED vars
BY EffectInvoke, EffectWorker, EffectCancel, EffectInput, EffectFault DEF Next, Proc

\* So the store takes one of the three kinds of step.
LEMMA StoreSteps ==
  ASSUME TypeOK, SeenIsCurrent, [Next]_vars
  PROVE  \/ UNCHANGED store
         \/ \E i \in Invokes : Born(i)
         \/ \E t \in Task, kind \in EventKind : Grown(t, kind)
<1>1. CASE UNCHANGED vars \/ Crash
  BY <1>1 DEF vars, Crash
<1>2. ASSUME NEW p \in Proc, Effect(p)
      PROVE  \/ UNCHANGED store
             \/ \E i \in Invokes : Born(i)
             \/ \E t \in Task, kind \in EventKind : Grown(t, kind)
  <2>1. TaskOf[p] \in Task
    BY RequestAssumption
  <2> QED BY <1>2, <2>1 DEF Effect
<1> QED BY <1>1, <1>2, NextEffect

\* The strengthened invariant is inductive.
LEMMA HistoryStep ==
  ASSUME HistoryInv, [Next]_vars
  PROVE  HistoryInv'
<1> USE DEF HistoryInv
<1>1. TypeOK'
  BY TypeStep
<1>2. ReplayMatchesSnapshot' /\ NothingAfterTerminal'
  BY StoreSteps, HistoriesStay
<1>3. \A t \in Task : RowStays(t)
  BY StoreSteps, RowsStay
<1>4. ASSUME NEW i \in Invokes
      PROVE  /\ pc'[i] \notin {"start", "done"} => state'[TaskOf[i]] # "Absent"
             /\ pc'[i] = "commit" =>
                  \/ pc[i] = "commit" /\ snap'[i] = snap[i]
                  \/ UNCHANGED store /\ ReadSnapshot(i)
  <2>1. TaskOf[i] \in Task /\ i \in Proc
    BY RequestAssumption DEF Proc
  <2>2. pc[i] \notin {"start", "done"} => state'[TaskOf[i]] # "Absent"
    BY <1>3, <2>1 DEF RowsExist, RowStays
  <2>3. Born(i) => state'[TaskOf[i]] # "Absent"
    BY <2>1 DEF Born, TypeOK
  <2>4. CASE UNCHANGED vars
    BY <2>2, <2>4 DEF vars
  <2>5. CASE Crash
    <3>1. pc'[i] \in {"start", "done"}
      BY <2>5, <2>1 DEF Crash
    <3> QED BY <3>1
  <2>6. ASSUME NEW p \in Proc, Effect(p)
        PROVE  /\ pc'[i] \notin {"start", "done"} => state'[TaskOf[i]] # "Absent"
               /\ pc'[i] = "commit" =>
                    \/ pc[i] = "commit" /\ snap'[i] = snap[i]
                    \/ UNCHANGED store /\ ReadSnapshot(i)
    <3>1. CASE p = i
      BY <2>2, <2>3, <2>6, <3>1 DEF Effect
    <3>2. CASE p # i
      BY <2>2, <2>6, <3>2 DEF Effect
    <3> QED BY <3>1, <3>2
  <2> QED BY <2>4, <2>5, <2>6, NextEffect
<1>5. RowsExist'
  BY <1>3, <1>4 DEF RowsExist, RowStays
<1>6. ASSUME NEW i \in Invokes, pc'[i] = "commit"
      PROVE  /\ snap'[i].revision <= revision'[TaskOf[i]]
             /\ snap'[i].revision = revision'[TaskOf[i]] => snap'[i].state = state'[TaskOf[i]]
  <2>1. TaskOf[i] \in Task /\ i \in Proc
    BY RequestAssumption DEF Proc
  <2>2. CASE UNCHANGED store /\ ReadSnapshot(i)
    <3>1. /\ snap'[i].revision = revision[TaskOf[i]] /\ snap'[i].state = state[TaskOf[i]]
          /\ revision[TaskOf[i]] \in Nat
      BY <2>1, <2>2 DEF ReadSnapshot, TypeOK
    <3>2. revision' = revision /\ state' = state
      BY <2>2 DEF store
    <3> QED BY <3>1, <3>2
  <2>3. CASE pc[i] = "commit" /\ snap'[i] = snap[i]
    <3>1. /\ snap[i].revision \in Nat /\ revision[TaskOf[i]] \in Nat
          /\ revision'[TaskOf[i]] \in Nat
      BY <1>1, <2>1 DEF TypeOK, Snapshot
    <3>2. /\ snap[i].revision <= revision[TaskOf[i]]
          /\ snap[i].revision = revision[TaskOf[i]] => snap[i].state = state[TaskOf[i]]
      BY <2>3 DEF SeenIsCurrent
    <3>3. state[TaskOf[i]] # "Absent"
      BY <2>3 DEF RowsExist
    <3>4. /\ revision[TaskOf[i]] <= revision'[TaskOf[i]]
          /\ revision'[TaskOf[i]] = revision[TaskOf[i]] =>
               state'[TaskOf[i]] = state[TaskOf[i]]
      BY <1>3, <2>1, <3>3 DEF RowStays
    <3> QED BY <2>3, <3>1, <3>2, <3>4
  <2> QED BY <1>4, <1>6, <2>2, <2>3
<1>7. SeenIsCurrent'
  BY <1>6 DEF SeenIsCurrent
<1> QED BY <1>1, <1>2, <1>5, <1>7

\* It holds initially, and so always.
LEMMA HistoryInvariant == Spec => []HistoryInv
<1>1. Init => HistoryInv
  <2> SUFFICES ASSUME Init PROVE HistoryInv
    OBVIOUS
  <2>1. TypeOK
    BY TypeInit
  <2>2. RowsExist /\ SeenIsCurrent
    BY DEF Init, RowsExist, SeenIsCurrent, Proc
  <2>3. ReplayMatchesSnapshot /\ NothingAfterTerminal
    BY DEF Init, ReplayMatchesSnapshot, NothingAfterTerminal
  <2> QED BY <2>1, <2>2, <2>3 DEF HistoryInv
<1>2. HistoryInv /\ [Next]_vars => HistoryInv'
  BY HistoryStep
<1> QED BY <1>1, <1>2, PTL DEF Spec
-----------------------------------------------------------------------------
\* Snapshot and history of every task agree at all times, although the worker
\* writes a next_state it computed from an earlier read.
THEOREM SnapshotIsReplay == Spec => []ReplayMatchesSnapshot
BY HistoryInvariant, PTL DEF HistoryInv

\* A terminal event is the last of its history, for any number of racing calls.
THEOREM TerminalIsLast == Spec => []NothingAfterTerminal
BY HistoryInvariant, PTL DEF HistoryInv

\* A recorded cancel is never undone.
THEOREM CancelIsFinal == Spec => CancelSticks
<1>1. HistoryInv /\ [Next]_vars =>
        [\A t \in Task : state[t] = "CancelRequested" =>
           state'[t] \in {"CancelRequested", "Cancelled", "Failed"}]_vars
  <2> SUFFICES ASSUME HistoryInv, [Next]_vars, NEW t \in Task, state[t] = "CancelRequested"
               PROVE  state'[t] \in {"CancelRequested", "Cancelled", "Failed"}
    OBVIOUS
  <2> USE DEF HistoryInv
  <2>1. CASE UNCHANGED store
    BY <2>1 DEF store
  <2>2. ASSUME NEW i \in Invokes, Born(i)
        PROVE  state'[t] \in {"CancelRequested", "Cancelled", "Failed"}
    BY <2>2 DEF Born, RowsExist, TypeOK
  <2>3. ASSUME NEW u \in Task, NEW kind \in EventKind, Grown(u, kind)
        PROVE  state'[t] \in {"CancelRequested", "Cancelled", "Failed"}
    BY <2>3, NoneFollowsTerminal, StateOfDef DEF Grown, TypeOK
  <2> QED BY <2>1, <2>2, <2>3, StoreSteps
<1> QED BY <1>1, HistoryInvariant, PTL DEF Spec, CancelSticks

\* Every step of AdapterCore is a step of the life cycle of one task, or none.
THEOREM ImplementsLifecycle == Spec => LifecycleSpec
<1>1. Init => Lifecycle!Init
  BY DEF Init, Lifecycle!Init
<1>2. HistoryInv /\ [Next]_vars => [Lifecycle!Next]_(Lifecycle!vars)
  <2> SUFFICES ASSUME HistoryInv, [Next]_vars
               PROVE  Lifecycle!Next \/ UNCHANGED Lifecycle!vars
    OBVIOUS
  <2> USE DEF HistoryInv
  <2>1. CASE UNCHANGED store
    BY <2>1 DEF store, Lifecycle!vars
  <2>2. ASSUME NEW i \in Invokes, Born(i)
        PROVE  Lifecycle!Next
    <3>1. TaskOf[i] \in Task
      BY RequestAssumption DEF Proc
    <3>2. Lifecycle!Create(TaskOf[i])
      BY <2>2, <3>1 DEF Born, RowsExist, Lifecycle!Create
    <3> QED BY <3>1, <3>2 DEF Lifecycle!Next
  <2>3. ASSUME NEW t \in Task, NEW kind \in EventKind, Grown(t, kind)
        PROVE  Lifecycle!Next
    <3>1. Lifecycle!StateOf(kind) = StateOf(kind)
      BY DEF StateOf, Lifecycle!StateOf
    <3>2. kind \in Lifecycle!EventKind
      BY DEF EventKind, Lifecycle!EventKind
    <3>3. Lifecycle!Advance(t, kind)
      BY <2>3, <3>1 DEF Grown, Lifecycle!Advance
    <3> QED BY <3>2, <3>3 DEF Lifecycle!Next
  <2> QED BY <2>1, <2>2, <2>3, StoreSteps
<1> QED BY <1>1, <1>2, HistoryInvariant, PTL DEF Spec, LifecycleSpec, Lifecycle!Spec
=============================================================================
