-------------------------- MODULE TaskServiceProofs --------------------------
(***************************************************************************)
(* Machine-checked proofs about the task service, for every number of      *)
(* tasks, workers and requests and every configuration. First the types    *)
(* and two invariants about the runs, RunningTaskOwned and RegistryLive,   *)
(* each of which is inductive together with TypeOK. Then the slots,        *)
(* NoLeakedReservation: the slot of a task in s.busy is never taken with   *)
(* nobody left to release it, whatever stop requests, full queues, failing *)
(* runs and crashes interleave. Then the queue, QueuedTaskOwned: a queued  *)
(* task always has a queue entry, a worker, a submitting handler or a      *)
(* recovery that leads it on, unless its recovery found the queue full.    *)
(***************************************************************************)
EXTENDS TaskProperties, TLAPS

(* Every mutation of the store keeps a record a record. *)
LEMMA RecordTypes ==
    ASSUME NEW r \in Record
    PROVE  /\ NoRecord \in Record /\ NewRecord \in Record
           /\ MarkRunning(r) \in Record
           /\ MarkRuntimeContainer(r) \in Record
           /\ MarkOpenCodeSession(r) \in Record
           /\ \A keep \in BOOLEAN : MarkCompleted(r, keep) \in Record
           /\ \A hasFlag, keep \in BOOLEAN : MarkFinished(r, hasFlag, keep) \in Record
           /\ MarkFailed(r) \in Record
           /\ MarkContainerClosed(r) \in Record
           /\ MarkStopped(r) \in Record
           /\ MarkRecovered(r) \in Record
           /\ ClearResult(r) \in Record
           /\ Reloaded(r) \in Record
  <1> USE DEF Record, Status, Steps
  <1>1. NoRecord \in Record /\ NewRecord \in Record
    BY DEF NoRecord, NewRecord
  <1>2. MarkRunning(r) \in Record /\ MarkRuntimeContainer(r) \in Record
    BY DEF MarkRunning, MarkRuntimeContainer
  <1>3. MarkOpenCodeSession(r) \in Record /\ MarkStopped(r) \in Record
    BY DEF MarkOpenCodeSession, MarkStopped
  <1>4. /\ \A keep \in BOOLEAN : MarkCompleted(r, keep) \in Record
        /\ \A hasFlag, keep \in BOOLEAN : MarkFinished(r, hasFlag, keep) \in Record
    BY DEF MarkCompleted, MarkFinished
  <1>5. MarkFailed(r) \in Record /\ MarkContainerClosed(r) \in Record
    BY DEF MarkFailed, MarkContainerClosed
  <1>6. MarkRecovered(r) \in Record /\ ClearResult(r) \in Record
    BY DEF MarkRecovered, ClearResult
  <1>7. Reloaded(r) \in Record
    <2>1. Loaded(r) \in Record
      BY DEF Loaded
    <2>2. MarkInterruptedContainerRetained(Loaded(r)) \in Record
      BY <2>1 DEF MarkInterruptedContainerRetained
    <2> QED BY <2>1, <2>2 DEF Reloaded
  <1> QED BY <1>1, <1>2, <1>3, <1>4, <1>5, <1>6, <1>7

(* A worker's local state, and that moving on keeps its task and message.  *)
LEMMA WorkerFields ==
    ASSUME NEW r \in WorkerState
    PROVE  /\ r.pc \in WorkerPcs /\ r.task \in Tasks \cup {NoTask}
           /\ r.msg \in Senders \cup {NoMessage} /\ r.round \in 0..Rounds
           /\ \A pc \in WorkerPcs :
                /\ [r EXCEPT !.pc = pc] \in WorkerState
                /\ [r EXCEPT !.pc = pc].pc = pc
                /\ [r EXCEPT !.pc = pc].task = r.task
                /\ [r EXCEPT !.pc = pc].msg = r.msg
  BY DEF WorkerState

(* Only worker w changes, to r. *)
LEMMA BecomeTypeOK ==
    ASSUME WorkerTypeOK, NEW w \in Workers, NEW r \in WorkerState, Become(w, r),
           r.pc \notin {"idle", "exited"} => r.task \in Tasks
    PROVE  /\ WorkerTypeOK'
           /\ worker'[w] = r
           /\ \A v \in Workers : v # w => worker'[v] = worker[v]
  BY DEF WorkerTypeOK, Become

(* A worker that moves on keeps its task. *)
LEMMA GotoTypeOK ==
    ASSUME WorkerTypeOK, NEW w \in Workers, NEW pc \in WorkerPcs, Goto(w, pc),
           worker[w].pc \notin {"idle", "exited"} \/ pc = "exited"
    PROVE  /\ WorkerTypeOK'
           /\ worker'[w] = [worker[w] EXCEPT !.pc = pc]
           /\ \A v \in Workers : v # w => worker'[v] = worker[v]
  <1> DEFINE r == [worker[w] EXCEPT !.pc = pc]
  <1>1. r \in WorkerState /\ r.pc = pc /\ r.task = worker[w].task
    BY WorkerFields DEF WorkerTypeOK
  <1>2. Become(w, r)
    BY DEF Goto
  <1>3. r.pc \notin {"idle", "exited"} => r.task \in Tasks
    BY <1>1 DEF WorkerTypeOK
  <1> HIDE DEF r
  <1>4. /\ WorkerTypeOK'
        /\ worker'[w] = r
        /\ \A v \in Workers : v # w => worker'[v] = worker[v]
    BY <1>1, <1>2, <1>3, BecomeTypeOK
  <1> QED BY <1>4 DEF r

LEMMA UpdateTypeOK ==
    ASSUME task \in [Tasks -> Record], NEW t \in Tasks, NEW r \in Record, Update(t, r)
    PROVE  task' \in [Tasks -> Record]
  BY DEF Update

LEMMA HeadTailType ==
    ASSUME NEW q \in Seq(Tasks), q # <<>>
    PROVE  /\ Head(q) \in Tasks /\ Tail(q) \in Seq(Tasks)
           /\ Len(Tail(q)) = Len(q) - 1 /\ Len(q) \in Nat
  OBVIOUS

LEMMA IdleWorkerType == IdleWorker \in WorkerState
  BY RoundsAssumption DEF IdleWorker, WorkerState, WorkerPcs

LEMMA ReleaseTypeOK ==
    ASSUME SlotTypeOK, runs' = runs, NEW t \in Tasks, ReleaseSlot(t)
    PROVE  SlotTypeOK'
  BY DEF SlotTypeOK, ReleaseSlot

LEMMA EnqueueTypeOK ==
    ASSUME SlotTypeOK, UNCHANGED <<busy, message, taken, runs>>,
           NEW t \in Tasks, CanEnqueue, queue' = Append(queue, t)
    PROVE  SlotTypeOK'
  BY QueueCapAssumption DEF SlotTypeOK, CanEnqueue

-----------------------------------------------------------------------------

LEMMA InitTypeOK == Init => TypeOK
  <1> SUFFICES ASSUME Init PROVE TypeOK
    OBVIOUS
  <1>1. DataTypeOK
    BY RecordTypes, MaxRestartsAssumption
    DEF Init, DataTypeOK, Phases, NoRecord, Record, Status, Steps
  <1>2. SlotTypeOK
    BY QueueCapAssumption DEF Init, SlotTypeOK
  <1>3. WorkerTypeOK
    BY IdleWorkerType DEF Init, WorkerTypeOK, IdleWorker
  <1>4. ClientTypeOK
    BY DEF Init, ClientTypeOK, SubmitPcs, SenderState, NewSender, SenderPcs, CloserState,
           NewCloser, CloserPcs, NoRecord, Record, Status, Steps
  <1> QED BY <1>1, <1>2, <1>3, <1>4 DEF TypeOK

LEMMA SubmitTypeOK ==
    ASSUME TypeOK, NEW t \in Tasks, SubmitStep(t)
    PROVE  TypeOK'
  <1>1. DataTypeOK'
    <2>1. CASE SubmitAdd(t) \/ SubmitFail(t)
      BY <2>1, RecordTypes, UpdateTypeOK
      DEF TypeOK, DataTypeOK, SubmitAdd, SubmitFail, procVars
    <2>2. CASE SubmitCheck(t) \/ SubmitEnqueue(t) \/ SubmitFull(t)
      BY <2>2 DEF TypeOK, DataTypeOK, SubmitCheck, SubmitEnqueue, SubmitFull, procVars
    <2> QED BY <2>1, <2>2 DEF SubmitStep
  <1>2. SlotTypeOK'
    <2>1. CASE SubmitEnqueue(t)
      BY <2>1, EnqueueTypeOK DEF TypeOK, SubmitEnqueue
    <2>2. CASE SubmitCheck(t) \/ SubmitAdd(t) \/ SubmitFull(t) \/ SubmitFail(t)
      BY <2>2 DEF TypeOK, SlotTypeOK, SubmitCheck, SubmitAdd, SubmitFull, SubmitFail, slotVars
    <2> QED BY <2>1, <2>2 DEF SubmitStep
  <1>3. WorkerTypeOK'
    BY DEF TypeOK, WorkerTypeOK, SubmitStep, SubmitCheck, SubmitAdd, SubmitEnqueue,
           SubmitFull, SubmitFail
  <1>4. ClientTypeOK'
    BY DEF TypeOK, ClientTypeOK, SubmitStep, SubmitCheck, SubmitAdd, SubmitEnqueue,
           SubmitFull, SubmitFail, SubmitPcs
  <1> QED BY <1>1, <1>2, <1>3, <1>4 DEF TypeOK

LEMMA SendTypeOK ==
    ASSUME TypeOK, NEW s \in Senders, SendStep(s)
    PROVE  TypeOK'
  <1>1. DataTypeOK'
    BY DEF TypeOK, DataTypeOK, SendStep, SendCheck, SendReserve, SendEnqueue, SendFull,
           SendUndo, procVars
  <1>2. SlotTypeOK'
    <2>1. CASE SendReserve(s)
      BY <2>1 DEF TypeOK, SlotTypeOK, ClientTypeOK, SendReserve
    <2>2. CASE SendEnqueue(s)
      BY <2>2, EnqueueTypeOK DEF TypeOK, ClientTypeOK, SendEnqueue
    <2>3. CASE SendUndo(s)
      BY <2>3, ReleaseTypeOK DEF TypeOK, ClientTypeOK, SendUndo
    <2>4. CASE (\E t \in Tasks : SendCheck(s, t)) \/ SendFull(s)
      BY <2>4 DEF TypeOK, SlotTypeOK, SendCheck, SendFull, slotVars
    <2> QED BY <2>1, <2>2, <2>3, <2>4 DEF SendStep
  <1>3. WorkerTypeOK'
    BY DEF TypeOK, WorkerTypeOK, SendStep, SendCheck, SendReserve, SendEnqueue, SendFull,
           SendUndo
  <1>4. ClientTypeOK'
    <2>1. CASE \E t \in Tasks : SendCheck(s, t)
      BY <2>1 DEF TypeOK, ClientTypeOK, SendCheck, SenderState, SenderPcs
    <2>2. CASE SendReserve(s) \/ SendEnqueue(s)
      BY <2>2 DEF TypeOK, ClientTypeOK, SendReserve, SendEnqueue, SenderState, SenderPcs
    <2>3. CASE SendFull(s) \/ SendUndo(s)
      BY <2>3 DEF TypeOK, ClientTypeOK, SendFull, SendUndo, SenderState, SenderPcs
    <2> QED BY <2>1, <2>2, <2>3 DEF SendStep
  <1> QED BY <1>1, <1>2, <1>3, <1>4 DEF TypeOK

LEMMA CloseTypeOK ==
    ASSUME TypeOK, NEW c \in Closers, CloseStep(c)
    PROVE  TypeOK'
  <1>1. DataTypeOK'
    <2>1. CASE CloseStopQueued(c) \/ CloseMark(c)
      BY <2>1, RecordTypes, UpdateTypeOK
      DEF TypeOK, DataTypeOK, ClientTypeOK, CloseStopQueued, CloseMark, procVars
    <2>2. CASE (\E t \in Tasks : CloseGet(c, t)) \/ CloseCancel(c) \/ CloseRelease(c)
               \/ CloseRemove(c) \/ CloseRemoveFails(c)
      BY <2>2 DEF TypeOK, DataTypeOK, CloseGet, CloseCancel, CloseRelease, CloseRemove,
                  CloseRemoveFails, procVars
    <2> QED BY <2>1, <2>2 DEF CloseStep
  <1>2. SlotTypeOK'
    <2>1. CASE CloseRelease(c)
      BY <2>1, ReleaseTypeOK DEF TypeOK, ClientTypeOK, CloseRelease
    <2>2. CASE ~CloseRelease(c)
      BY <2>2 DEF TypeOK, SlotTypeOK, CloseStep, CloseGet, CloseCancel, CloseStopQueued,
                  CloseRemove, CloseRemoveFails, CloseMark, slotVars
    <2> QED BY <2>1, <2>2
  <1>3. WorkerTypeOK'
    <2>1. CASE CloseCancel(c)
      <3> DEFINE w == runs[closer[c].task]
                 r == [worker[w] EXCEPT !.ctx = "dead"]
      <3>1. w \in Workers \cup {NoWorker}
        BY <2>1 DEF TypeOK, SlotTypeOK, ClientTypeOK, CloseCancel
      <3>2. CASE w = NoWorker
        BY <2>1, <3>2 DEF TypeOK, WorkerTypeOK, CloseCancel
      <3>3. CASE w \in Workers /\ w # NoWorker
        <4>1. r \in WorkerState /\ r.pc = worker[w].pc /\ r.task = worker[w].task
          BY <3>3 DEF TypeOK, WorkerTypeOK, WorkerState
        <4>2. Become(w, r)
          BY <2>1, <3>3 DEF CloseCancel
        <4>3. r.pc \notin {"idle", "exited"} => r.task \in Tasks
          BY <3>3, <4>1 DEF TypeOK, WorkerTypeOK
        <4> HIDE DEF w, r
        <4> QED BY <3>3, <4>1, <4>2, <4>3, BecomeTypeOK DEF TypeOK
      <3> QED BY <3>1, <3>2, <3>3
    <2>2. CASE ~CloseCancel(c)
      BY <2>2 DEF TypeOK, WorkerTypeOK, CloseStep, CloseGet, CloseRelease, CloseStopQueued,
                  CloseRemove, CloseRemoveFails, CloseMark
    <2> QED BY <2>1, <2>2
  <1>4. ClientTypeOK'
    <2>1. CASE \E t \in Tasks : CloseGet(c, t)
      BY <2>1 DEF TypeOK, DataTypeOK, ClientTypeOK, CloseGet, CloserState, CloserPcs
    <2>2. CASE CloseCancel(c) \/ CloseRelease(c)
      BY <2>2 DEF TypeOK, ClientTypeOK, CloseCancel, CloseRelease, CloserState, CloserPcs
    <2>3. CASE CloseStopQueued(c) \/ CloseRemove(c) \/ CloseRemoveFails(c) \/ CloseMark(c)
      BY <2>3 DEF TypeOK, ClientTypeOK, CloseStopQueued, CloseRemove, CloseRemoveFails,
                  CloseMark, CloserState, CloserPcs
    <2> QED BY <2>1, <2>2, <2>3 DEF CloseStep
  <1> QED BY <1>1, <1>2, <1>3, <1>4 DEF TypeOK

LEMMA DispatchTypeOK ==
    ASSUME TypeOK, NEW w \in Workers, DispatchStep(w)
    PROVE  TypeOK'
  <1>1. DataTypeOK'
    <2>1. CASE BeginRun(w)
      BY <2>1, RecordTypes, UpdateTypeOK
      DEF TypeOK, DataTypeOK, WorkerTypeOK, BeginRun, procVars
    <2>2. CASE ~BeginRun(w)
      BY <2>2 DEF TypeOK, DataTypeOK, DispatchStep, Pop, Exit, TakeMessage, TaskCheck,
                  ContCheck, Register, procVars
    <2> QED BY <2>1, <2>2
  <1>2. SlotTypeOK'
    <2>1. CASE Pop(w)
      <3>1. /\ Tail(queue) \in Seq(Tasks)
            /\ Len(Tail(queue)) = Len(queue) - 1 /\ Len(queue) \in Nat
        BY <2>1, HeadTailType DEF TypeOK, SlotTypeOK, Pop
      <3> QED BY <2>1, <3>1, QueueCapAssumption DEF TypeOK, SlotTypeOK, Pop
    <2>2. CASE TakeMessage(w)
      BY <2>2, NoMessageAssumption DEF TypeOK, SlotTypeOK, WorkerTypeOK, TakeMessage
    <2>3. CASE Register(w)
      BY <2>3 DEF TypeOK, SlotTypeOK, WorkerTypeOK, Register, slotVars
    <2>4. CASE Exit(w) \/ TaskCheck(w) \/ ContCheck(w) \/ BeginRun(w)
      BY <2>4 DEF TypeOK, SlotTypeOK, Exit, TaskCheck, ContCheck, BeginRun, slotVars
    <2> QED BY <2>1, <2>2, <2>3, <2>4 DEF DispatchStep
  <1>3. WorkerTypeOK'
    <2>1. CASE Pop(w)
      <3>1. Head(queue) \in Tasks
        BY <2>1, HeadTailType DEF TypeOK, SlotTypeOK, Pop
      <3>2. [worker[w] EXCEPT !.pc = "picked", !.task = Head(queue)] \in WorkerState
        BY <3>1 DEF TypeOK, WorkerTypeOK, WorkerState, WorkerPcs, StartPcs
      <3>3. [worker[w] EXCEPT !.pc = "picked", !.task = Head(queue)].task = Head(queue)
        BY DEF TypeOK, WorkerTypeOK, WorkerState
      <3> QED BY <2>1, <3>1, <3>2, <3>3, BecomeTypeOK DEF TypeOK, Pop
    <2>2. CASE TakeMessage(w)
      <3>1. CASE message[worker[w].task] = NoMessage
        BY <2>2, <3>1, GotoTypeOK DEF TypeOK, TakeMessage, WorkerPcs, StartPcs
      <3>2. CASE message[worker[w].task] # NoMessage
        <4> DEFINE r == [worker[w] EXCEPT !.pc = "contCheck", !.msg = message[worker[w].task]]
        <4>1. worker[w].task \in Tasks
          BY <2>2 DEF TypeOK, WorkerTypeOK, TakeMessage
        <4>2. r \in WorkerState /\ r.task = worker[w].task
          BY <4>1 DEF TypeOK, SlotTypeOK, WorkerTypeOK, WorkerState, WorkerPcs, StartPcs
        <4> QED BY <2>2, <3>2, <4>1, <4>2, BecomeTypeOK DEF TypeOK, TakeMessage
      <3> QED BY <3>1, <3>2
    <2>3. CASE TaskCheck(w)
      <3>1. CASE task[worker[w].task].status = "queued"
        BY <2>3, <3>1, GotoTypeOK DEF TypeOK, TaskCheck, WorkerPcs, StartPcs
      <3>2. CASE task[worker[w].task].status # "queued"
        BY <2>3, <3>2, IdleWorkerType, BecomeTypeOK DEF TypeOK, TaskCheck, IdleWorker
      <3> QED BY <3>1, <3>2
    <2>4. CASE Register(w)
      <3> DEFINE r == [worker[w] EXCEPT
                        !.pc = IF worker[w].msg = NoMessage THEN "start" ELSE "hint",
                        !.ctx = IF Done THEN "dead" ELSE "live"]
      <3>1. r \in WorkerState /\ r.task = worker[w].task
        BY DEF TypeOK, WorkerTypeOK, WorkerState, WorkerPcs, DockerPcs
      <3>2. worker[w].task \in Tasks
        BY <2>4 DEF TypeOK, WorkerTypeOK, Register
      <3> QED BY <2>4, <3>1, <3>2, BecomeTypeOK DEF TypeOK, Register
    <2>5. CASE Exit(w) \/ ContCheck(w) \/ BeginRun(w)
      BY <2>5, GotoTypeOK DEF TypeOK, Exit, ContCheck, BeginRun, WorkerPcs, StartPcs
    <2> QED BY <2>1, <2>2, <2>3, <2>4, <2>5 DEF DispatchStep
  <1>4. ClientTypeOK'
    BY DEF TypeOK, ClientTypeOK, DispatchStep, Pop, Exit, TakeMessage, TaskCheck, ContCheck,
           BeginRun, Register, clientVars
  <1> QED BY <1>1, <1>2, <1>3, <1>4 DEF TypeOK

LEMMA DockerTypeOK ==
    ASSUME TypeOK, NEW w \in Workers, DockerStep(w)
    PROVE  TypeOK'
  <1>1. DataTypeOK'
    <2>1. CASE SinkContainer(w) \/ AgentSession(w)
      BY <2>1, RecordTypes, UpdateTypeOK
      DEF TypeOK, DataTypeOK, WorkerTypeOK, SinkContainer, AgentSession, procVars
    <2>2. CASE StartContainer(w) \/ StartFails(w) \/ CancelledRemove(w)
      BY <2>2 DEF TypeOK, DataTypeOK, WorkerTypeOK, StartContainer, StartFails,
                  CancelledRemove, procVars
    <2>3. CASE StartHint(w) \/ HintFails(w) \/ AgentFails(w) \/ AgentCancelled(w)
               \/ \E result \in {"solved", "zero", "nonzero"} : AgentExits(w, result)
      BY <2>3 DEF TypeOK, DataTypeOK, StartHint, HintFails, AgentFails, AgentCancelled,
                  AgentExits, procVars
    <2> QED BY <2>1, <2>2, <2>3 DEF DockerStep
  <1>2. SlotTypeOK'
    BY DEF TypeOK, SlotTypeOK, DockerStep, StartContainer, StartFails, SinkContainer,
           StartHint, HintFails, AgentSession, AgentExits, AgentFails, AgentCancelled,
           CancelledRemove, slotVars
  <1>3. WorkerTypeOK'
    <2>1. CASE \E result \in {"solved", "zero", "nonzero"} : AgentExits(w, result)
      <3>1. PICK result \in {"solved", "zero", "nonzero"} : AgentExits(w, result)
        BY <2>1
      <3> DEFINE r == [worker[w] EXCEPT !.pc = IF result = "zero" THEN "round" ELSE "check",
                                        !.result = result]
      <3>2. r \in WorkerState /\ r.task = worker[w].task
        BY DEF TypeOK, WorkerTypeOK, WorkerState, WorkerPcs, FinishPcs
      <3>3. worker[w].task \in Tasks
        BY <3>1 DEF TypeOK, WorkerTypeOK, AgentExits
      <3> QED BY <3>1, <3>2, <3>3, BecomeTypeOK DEF TypeOK, AgentExits
    <2>2. CASE AgentSession(w)
      BY <2>2 DEF TypeOK, WorkerTypeOK, AgentSession
    <2>3. CASE StartContainer(w) \/ StartFails(w) \/ SinkContainer(w) \/ StartHint(w)
               \/ HintFails(w)
      BY <2>3, GotoTypeOK DEF TypeOK, StartContainer, StartFails, SinkContainer, StartHint,
                              HintFails, WorkerPcs, DockerPcs, FinishPcs
    <2>4. CASE AgentFails(w) \/ AgentCancelled(w) \/ CancelledRemove(w)
      BY <2>4, GotoTypeOK DEF TypeOK, AgentFails, AgentCancelled, CancelledRemove,
                              WorkerPcs, DockerPcs, FinishPcs
    <2> QED BY <2>1, <2>2, <2>3, <2>4 DEF DockerStep
  <1>4. ClientTypeOK'
    BY DEF TypeOK, ClientTypeOK, DockerStep, StartContainer, StartFails, SinkContainer,
           StartHint, HintFails, AgentSession, AgentExits, AgentFails, AgentCancelled,
           CancelledRemove, clientVars
  <1> QED BY <1>1, <1>2, <1>3, <1>4 DEF TypeOK

LEMMA FinishTypeOK ==
    ASSUME TypeOK, NEW w \in Workers, FinishStep(w)
    PROVE  TypeOK'
  <1>1. DataTypeOK'
    <2>1. CASE StoreResult(w) \/ FailRun(w)
      BY <2>1, RecordTypes, UpdateTypeOK
      DEF TypeOK, DataTypeOK, WorkerTypeOK, StoreResult, FailRun, procVars
    <2>2. CASE ~(StoreResult(w) \/ FailRun(w))
      BY <2>2 DEF TypeOK, DataTypeOK, FinishStep, NextRound, StopCheck, RemoveSolved,
                  FailCheck, ClearCancel, Release, procVars
    <2> QED BY <2>1, <2>2
  <1>2. SlotTypeOK'
    <2>1. CASE ClearCancel(w)
      BY <2>1 DEF TypeOK, SlotTypeOK, WorkerTypeOK, ClearCancel, slotVars
    <2>2. CASE Release(w)
      BY <2>2, ReleaseTypeOK DEF TypeOK, WorkerTypeOK, Release
    <2>3. CASE ~(ClearCancel(w) \/ Release(w))
      BY <2>3 DEF TypeOK, SlotTypeOK, FinishStep, NextRound, StopCheck, StoreResult,
                  RemoveSolved, FailCheck, FailRun, slotVars
    <2> QED BY <2>1, <2>2, <2>3
  <1>3. WorkerTypeOK'
    <2>1. CASE NextRound(w)
      <3> DEFINE r == [worker[w] EXCEPT !.pc = "hint", !.round = worker[w].round + 1]
      <3>1. worker[w] \in WorkerState /\ worker[w].task \in Tasks
        BY <2>1 DEF TypeOK, WorkerTypeOK, NextRound
      <3>2. CASE Goto(w, "check") \/ Goto(w, "failCheck")
        BY <2>1, <3>2, GotoTypeOK DEF TypeOK, NextRound, WorkerPcs, FinishPcs
      <3>3. CASE RoundsLeft(w) /\ Become(w, r)
        <4>1. worker[w].round + 1 \in 0..Rounds
          BY <3>1, <3>3, WorkerFields, RoundsAssumption DEF RoundsLeft
        <4>2. r \in WorkerState /\ r.task = worker[w].task
          BY <3>1, <4>1 DEF WorkerState, WorkerPcs, DockerPcs
        <4> QED BY <3>1, <3>3, <4>2, BecomeTypeOK DEF TypeOK
      <3> QED BY <2>1, <3>2, <3>3 DEF NextRound
    <2>2. CASE ClearCancel(w)
      <3> DEFINE r == [worker[w] EXCEPT !.pc = "release", !.ctx = "none"]
      <3>1. worker[w].task \in Tasks
        BY <2>2 DEF TypeOK, WorkerTypeOK, ClearCancel
      <3>2. r \in WorkerState /\ r.task = worker[w].task
        BY DEF TypeOK, WorkerTypeOK, WorkerState, WorkerPcs
      <3>3. CASE worker[w].msg = NoMessage
        BY <2>2, <3>3, IdleWorkerType, BecomeTypeOK DEF TypeOK, ClearCancel, IdleWorker
      <3>4. CASE worker[w].msg # NoMessage
        BY <2>2, <3>1, <3>2, <3>4, BecomeTypeOK DEF TypeOK, ClearCancel
      <3> QED BY <3>3, <3>4
    <2>3. CASE Release(w)
      BY <2>3, IdleWorkerType, BecomeTypeOK DEF TypeOK, Release, IdleWorker
    <2>4. CASE StopCheck(w) \/ StoreResult(w) \/ RemoveSolved(w) \/ FailCheck(w) \/ FailRun(w)
      BY <2>4, GotoTypeOK DEF TypeOK, StopCheck, StoreResult, RemoveSolved, FailCheck,
                              FailRun, WorkerPcs, FinishPcs
    <2> QED BY <2>1, <2>2, <2>3, <2>4 DEF FinishStep
  <1>4. ClientTypeOK'
    BY DEF TypeOK, ClientTypeOK, FinishStep, NextRound, StopCheck, StoreResult, RemoveSolved,
           FailCheck, FailRun, ClearCancel, Release, clientVars
  <1> QED BY <1>1, <1>2, <1>3, <1>4 DEF TypeOK

(* The end of the process leaves well-typed volatile state. *)
LEMMA ProcessGoneTypeOK ==
    ASSUME TypeOK, NEW pc \in {"idle", "exited"}, ProcessGone(pc)
    PROVE  /\ SlotTypeOK' /\ WorkerTypeOK' /\ ClientTypeOK'
           /\ containers' \subseteq Tasks /\ doomed' \subseteq Tasks
  <1>1. SlotTypeOK'
    BY QueueCapAssumption DEF TypeOK, SlotTypeOK, ProcessGone
  <1>2. WorkerTypeOK'
    BY RoundsAssumption DEF ProcessGone, WorkerTypeOK, WorkerState, IdleWorker, WorkerPcs
  <1>3. ClientTypeOK'
    <2>1. submit' \in [Tasks -> SubmitPcs]
      BY DEF TypeOK, ClientTypeOK, ProcessGone, SubmitPcs
    <2>2. /\ sender' \in [Senders -> SenderState]
          /\ \A s \in Senders : sender'[s].pc # "new" => sender'[s].task \in Tasks
      BY DEF TypeOK, ClientTypeOK, ProcessGone, SenderState, SenderPcs
    <2>3. /\ closer' \in [Closers -> CloserState]
          /\ \A c \in Closers : closer'[c].pc # "new" => closer'[c].task \in Tasks
      BY DEF TypeOK, ClientTypeOK, ProcessGone, CloserState, CloserPcs
    <2> QED BY <2>1, <2>2, <2>3 DEF ClientTypeOK
  <1>4. containers' \subseteq Tasks
    <2>1. {worker[w].task : w \in {v \in Workers : worker[v].pc = "start"}} \subseteq Tasks
      BY DEF TypeOK, WorkerTypeOK
    <2> QED BY <2>1 DEF TypeOK, DataTypeOK, ProcessGone
  <1> QED BY <1>1, <1>2, <1>3, <1>4 DEF ProcessGone

LEMMA ProcessTypeOK ==
    ASSUME TypeOK,
           \/ CancelAllRuns \/ CloseDone \/ GraceOver \/ CloseReturns \/ Restart
           \/ \E t \in Tasks : ForceRemove(t)
    PROVE  TypeOK'
  <1>1. CASE CancelAllRuns
    <2>1. WorkerTypeOK'
      BY <1>1 DEF TypeOK, WorkerTypeOK, CancelAllRuns, WorkerState
    <2> QED
      BY <1>1, <2>1 DEF TypeOK, DataTypeOK, SlotTypeOK, ClientTypeOK, CancelAllRuns, Phases,
                        slotVars, clientVars
  <1>2. CASE CloseDone
    BY <1>2 DEF TypeOK, DataTypeOK, SlotTypeOK, WorkerTypeOK, ClientTypeOK, CloseDone, Phases,
                slotVars, clientVars
  <1>3. CASE CloseReturns
    <2>1. ProcessGone("exited")
      BY <1>3 DEF CloseReturns
    <2> QED
      BY <1>3, <2>1, ProcessGoneTypeOK DEF TypeOK, DataTypeOK, CloseReturns, Phases
  <1>4. CASE Restart
    <2>1. ProcessGone("idle")
      BY <1>4 DEF Restart
    <2>2. DataTypeOK'
      BY <1>4, <2>1, ProcessGoneTypeOK, RecordTypes, MaxRestartsAssumption
      DEF TypeOK, DataTypeOK, Restart, Phases
    <2> QED
      BY <2>1, <2>2, ProcessGoneTypeOK DEF TypeOK
  <1>5. CASE GraceOver \/ \E t \in Tasks : ForceRemove(t)
    BY <1>5 DEF TypeOK, DataTypeOK, SlotTypeOK, WorkerTypeOK, ClientTypeOK, GraceOver,
                ForceRemove, Phases, slotVars, clientVars
  <1> QED BY <1>1, <1>2, <1>3, <1>4, <1>5

LEMMA NextTypeOK ==
    ASSUME TypeOK, [Next]_vars
    PROVE  TypeOK'
  <1>1. ASSUME NEW t \in Tasks, RecoverNext(t) PROVE TypeOK'
    <2>1. DataTypeOK'
      BY <1>1, RecordTypes, UpdateTypeOK DEF TypeOK, DataTypeOK, RecoverNext
    <2>2. SlotTypeOK'
      <3>1. CASE CanEnqueue
        BY <1>1, <3>1, EnqueueTypeOK DEF TypeOK, RecoverNext
      <3>2. CASE ~CanEnqueue
        BY <1>1, <3>2 DEF TypeOK, SlotTypeOK, RecoverNext
      <3> QED BY <3>1, <3>2
    <2> QED
      BY <1>1, <2>1, <2>2 DEF TypeOK, WorkerTypeOK, ClientTypeOK, RecoverNext, clientVars
  <1>2. ASSUME NEW w \in Workers, Deadline(w) PROVE TypeOK'
    <2> DEFINE r == [worker[w] EXCEPT !.ctx = "dead"]
    <2>1. WorkerTypeOK'
      <3>1. r \in WorkerState /\ r.pc = worker[w].pc /\ r.task = worker[w].task
        BY DEF TypeOK, WorkerTypeOK, WorkerState
      <3>2. r.pc \notin {"idle", "exited"} => r.task \in Tasks
        BY <3>1 DEF TypeOK, WorkerTypeOK
      <3>3. Become(w, r)
        BY <1>2 DEF Deadline
      <3> HIDE DEF r
      <3> QED BY <3>1, <3>2, <3>3, BecomeTypeOK DEF TypeOK
    <2> QED
      BY <1>2, <2>1 DEF TypeOK, DataTypeOK, SlotTypeOK, ClientTypeOK, Deadline, slotVars,
                        clientVars, procVars
  <1>3. CASE ClearResults
    BY <1>3, RecordTypes DEF TypeOK, DataTypeOK, SlotTypeOK, WorkerTypeOK, ClientTypeOK,
                             ClearResults, slotVars, clientVars, procVars
  <1>4. CASE UNCHANGED vars
    BY <1>4 DEF TypeOK, DataTypeOK, SlotTypeOK, WorkerTypeOK, ClientTypeOK, vars, slotVars,
                clientVars, procVars
  <1> QED
    BY <1>1, <1>2, <1>4, <1>3, SubmitTypeOK, SendTypeOK, CloseTypeOK, DispatchTypeOK, DockerTypeOK,
       FinishTypeOK, ProcessTypeOK DEF Next

(* The type invariant of the task service. *)
THEOREM TypeCorrect == Spec => []TypeOK
  BY InitTypeOK, NextTypeOK, PTL DEF Spec

-----------------------------------------------------------------------------
(* Runs: a running task has a worker, and a registered run is alive.       *)

(* What Goto leaves of the worker that moves and of the others. *)
LEMMA MoveFields ==
    ASSUME WorkerTypeOK, NEW w \in Workers, NEW pc \in WorkerPcs, Goto(w, pc)
    PROVE  /\ worker'[w].pc = pc
           /\ worker'[w].task = worker[w].task
           /\ worker'[w].msg = worker[w].msg
           /\ \A v \in Workers \ {w} : worker'[v] = worker[v]
  BY WorkerFields DEF WorkerTypeOK, Goto, Become

(* What Become leaves of the workers. *)
LEMMA PutFields ==
    ASSUME WorkerTypeOK, NEW w \in Workers, NEW r, Become(w, r)
    PROVE  /\ worker'[w] = r
           /\ \A v \in Workers \ {w} : worker'[v] = worker[v]
  BY DEF WorkerTypeOK, Become

(* Store.update replaces one record. *)
LEMMA StoredRecord ==
    ASSUME DataTypeOK, NEW t \in Tasks, NEW r, Update(t, r)
    PROVE  /\ task'[t] = r
           /\ \A u \in Tasks \ {t} : task'[u] = task[u]
  BY DEF DataTypeOK, Update

(* The status each mutation of the store leaves behind. *)
LEMMA RecordStatus ==
    ASSUME NEW r \in Record
    PROVE  /\ NewRecord.status = "queued"
           /\ MarkRunning(r).status = "running"
           /\ MarkRuntimeContainer(r).status = r.status
           /\ MarkOpenCodeSession(r).status = r.status
           /\ MarkFailed(r).status = "failed"
           /\ MarkContainerClosed(r).status \notin {"queued", "running"}
           /\ MarkStopped(r).status = "failed"
           /\ MarkRecovered(r).status # "running"
           /\ ClearResult(r).status = "running" => r.status = "running"
           /\ Reloaded(r).status = "running" => Recoverable(Reloaded(r))
  BY DEF Record, Status, NewRecord, NoRecord, MarkRunning, MarkRuntimeContainer, 
         MarkOpenCodeSession, MarkFailed, MarkContainerClosed, MarkStopped, MarkRecovered,
         ClearResult, Reloaded, Recoverable, Loaded, MarkInterruptedContainerRetained

(* The status a stored result leaves behind. *)
LEMMA ResultStatus ==
    ASSUME NEW r \in Record, NEW keep \in BOOLEAN, NEW hasFlag \in BOOLEAN
    PROVE  /\ MarkCompleted(r, keep).status = "completed"
           /\ MarkFinished(r, hasFlag, keep).status \in {"solved", "failed"}
  BY DEF Record, MarkCompleted, MarkFinished

-----------------------------------------------------------------------------
(* RunningTaskOwned.                                                       *)

(* What a worker step may do to the run of its task: only BeginRun makes a *)
(* task running, and a run ends only when the task is no longer running.   *)
RunKept(w) ==
    /\ \A v \in Workers \ {w} : worker'[v] = worker[v]
    /\ \A t \in Tasks : task'[t].status = "running" =>
          \/ task[t].status = "running"
          \/ worker'[w].task = t /\ worker'[w].pc \in ActivePcs
    /\ worker[w].pc \in ActivePcs =>
          \/ worker'[w].pc \in ActivePcs /\ worker'[w].task = worker[w].task
          \/ task'[worker[w].task].status # "running"
    /\ UNCHANGED <<phase, recover>>

(* The steps up to the registration of a run. *)
LEMMA DispatchKeepsRun ==
    ASSUME TypeOK, NEW w \in Workers, DispatchStep(w)
    PROVE  RunKept(w)
  <1> USE DEF TypeOK
  <1>1. CASE Pop(w) \/ Exit(w) \/ TakeMessage(w) \/ TaskCheck(w)
    <2>1. UNCHANGED <<task, phase, recover>>
      BY <1>1 DEF Pop, Exit, TakeMessage, TaskCheck, procVars
    <2>2. worker[w].pc \notin ActivePcs
      BY <1>1 DEF Pop, Exit, TakeMessage, TaskCheck, ActivePcs, RunPcs, DockerPcs, FinishPcs
    <2>3. \E r : Become(w, r)
      BY <1>1 DEF Pop, Exit, TakeMessage, TaskCheck, Goto
    <2> QED BY <2>1, <2>2, <2>3, PutFields DEF RunKept
  <1>2. CASE ContCheck(w)
    <2>1. UNCHANGED <<task, phase, recover>> /\ worker[w].pc = "contCheck"
      BY <1>2 DEF ContCheck, procVars
    <2>2. \E r : Become(w, r)
      BY <1>2 DEF ContCheck, Goto
    <2> QED BY <2>1, <2>2, PutFields DEF RunKept, ActivePcs, RunPcs, DockerPcs, FinishPcs
  <1>3. CASE BeginRun(w)
    <2>1. worker[w].pc = "mark" /\ worker[w].task \in Tasks /\ UNCHANGED <<phase, recover>>
      BY <1>3 DEF BeginRun, WorkerTypeOK, procVars
    <2>2. \A u \in Tasks \ {worker[w].task} : task'[u] = task[u]
      BY <1>3, <2>1, StoredRecord DEF BeginRun
    <2>3. /\ worker'[w].pc = "register" /\ worker'[w].task = worker[w].task
          /\ \A v \in Workers \ {w} : worker'[v] = worker[v]
      BY <1>3, MoveFields DEF BeginRun, WorkerPcs, StartPcs
    <2> QED BY <2>1, <2>2, <2>3 DEF RunKept, ActivePcs, RunPcs, DockerPcs, FinishPcs
  <1>4. CASE Register(w)
    <2> DEFINE r == [worker[w] EXCEPT
                    !.pc = IF worker[w].msg = NoMessage THEN "start" ELSE "hint",
                    !.ctx = IF Done THEN "dead" ELSE "live"]
    <2>1. UNCHANGED <<task, phase, recover>> /\ Become(w, r)
      BY <1>4 DEF Register, procVars
    <2>2. r.pc \in {"start", "hint"} /\ r.task = worker[w].task
      BY DEF WorkerTypeOK, WorkerState
    <2> QED BY <2>1, <2>2, PutFields DEF RunKept, ActivePcs, RunPcs, DockerPcs, FinishPcs
  <1> QED BY <1>1, <1>2, <1>3, <1>4 DEF DispatchStep

(* A step that only moves the worker, out of no active run. *)
LEMMA QuietMove ==
    ASSUME TypeOK, NEW w \in Workers, NEW pc \in WorkerPcs, Goto(w, pc),
           UNCHANGED <<phase, recover>>,
           \A t \in Tasks : task'[t].status = "running" => task[t].status = "running",
           \/ worker[w].pc \notin ActivePcs
           \/ pc \in ActivePcs
           \/ task'[worker[w].task].status # "running"
    PROVE  RunKept(w)
  BY MoveFields DEF TypeOK, RunKept

(* The steps inside a Docker runner keep the run active. *)
LEMMA DockerKeepsRun ==
    ASSUME TypeOK, NEW w \in Workers, DockerStep(w)
    PROVE  RunKept(w)
  <1> USE DEF TypeOK
  <1>1. CASE AgentSession(w)
    <2>1. UNCHANGED <<worker, phase, recover>> /\ worker[w].task \in Tasks
      BY <1>1 DEF AgentSession, WorkerTypeOK, procVars
    <2>2. \A t \in Tasks : task'[t].status = task[t].status
      BY <1>1, <2>1, StoredRecord, RecordStatus DEF AgentSession, DataTypeOK
    <2> QED BY <2>1, <2>2 DEF RunKept
  <1>2. ASSUME NEW result \in {"solved", "zero", "nonzero"}, AgentExits(w, result)
        PROVE  RunKept(w)
    <2> DEFINE r == [worker[w] EXCEPT !.pc = IF result = "zero" THEN "round" ELSE "check",
                                      !.result = result]
    <2>1. UNCHANGED <<task, phase, recover>> /\ Become(w, r)
      BY <1>2 DEF AgentExits, procVars
    <2>2. r.pc \in {"round", "check"} /\ r.task = worker[w].task
      BY DEF WorkerTypeOK, WorkerState
    <2> QED BY <2>1, <2>2, PutFields DEF RunKept, ActivePcs, RunPcs, DockerPcs, FinishPcs
  <1>3. CASE SinkContainer(w)
    <2>1. UNCHANGED <<phase, recover>> /\ worker[w].task \in Tasks /\ Goto(w, "agent")
      BY <1>3 DEF SinkContainer, WorkerTypeOK, procVars
    <2>2. \A t \in Tasks : task'[t].status = task[t].status
      BY <1>3, <2>1, StoredRecord, RecordStatus DEF SinkContainer, DataTypeOK
    <2>3. "agent" \in WorkerPcs /\ "agent" \in ActivePcs
      BY DEF WorkerPcs, ActivePcs, RunPcs, DockerPcs, FinishPcs
    <2> QED BY <2>1, <2>2, <2>3, QuietMove
  <1>4. CASE \/ StartContainer(w) \/ StartFails(w) \/ StartHint(w) \/ HintFails(w)
             \/ AgentFails(w) \/ AgentCancelled(w) \/ CancelledRemove(w)
    <2>1. UNCHANGED <<task, phase, recover>>
      BY <1>4 DEF StartContainer, StartFails, StartHint, HintFails, AgentFails, AgentCancelled,
                  CancelledRemove, procVars
    <2>2. PICK pc \in DockerPcs \cup {"failCheck"} : Goto(w, pc)
      BY <1>4 DEF StartContainer, StartFails, StartHint, HintFails, AgentFails, AgentCancelled,
                  CancelledRemove, DockerPcs
    <2>3. pc \in WorkerPcs /\ pc \in ActivePcs
      BY <2>2 DEF WorkerPcs, ActivePcs, RunPcs, DockerPcs, FinishPcs
    <2> QED BY <2>1, <2>2, <2>3, QuietMove
  <1> QED BY <1>1, <1>2, <1>3, <1>4 DEF DockerStep

(* finishRun leaves the active part only with a settled task. *)
LEMMA FinishKeepsRun ==
    ASSUME TypeOK, NEW w \in Workers, FinishStep(w)
    PROVE  RunKept(w)
  <1> USE DEF TypeOK
  <1>1. CASE NextRound(w)
    <2> DEFINE r == [worker[w] EXCEPT !.pc = "hint", !.round = worker[w].round + 1]
    <2>1. UNCHANGED <<task, phase, recover>>
      BY <1>1 DEF NextRound, procVars
    <2>2. r.pc = "hint" /\ r.task = worker[w].task
      BY DEF WorkerTypeOK, WorkerState
    <2>3. CASE Become(w, r)
      BY <2>1, <2>2, <2>3, PutFields DEF RunKept, ActivePcs, RunPcs, DockerPcs, FinishPcs
    <2>4. CASE \E pc \in {"check", "failCheck"} : Goto(w, pc)
      BY <2>1, <2>4, QuietMove DEF WorkerPcs, ActivePcs, RunPcs, DockerPcs, FinishPcs
    <2> QED BY <1>1, <2>3, <2>4 DEF NextRound
  <1>2. CASE StopCheck(w) \/ FailCheck(w)
    <2>1. UNCHANGED <<task, phase, recover>>
      BY <1>2 DEF StopCheck, FailCheck, procVars
    <2>2. CASE Goto(w, "clear") /\ WasStopped(task[worker[w].task])
      BY <2>1, <2>2, QuietMove DEF WasStopped, WorkerPcs, FinishPcs
    <2>3. CASE \E pc \in {"result", "failMark"} : Goto(w, pc)
      BY <2>1, <2>3, QuietMove DEF WorkerPcs, ActivePcs, RunPcs, DockerPcs, FinishPcs
    <2> QED BY <1>2, <2>2, <2>3 DEF StopCheck, FailCheck
  <1>3. CASE StoreResult(w) \/ FailRun(w)
    <2>1. UNCHANGED <<phase, recover>> /\ worker[w].task \in Tasks
      BY <1>3 DEF StoreResult, FailRun, WorkerTypeOK, procVars
    <2>2. \E r : Update(worker[w].task, r) /\ r.status # "running"
      <3> DEFINE old == task[worker[w].task]
                 result == worker[w].result
      <3>1. old \in Record
        BY <2>1 DEF DataTypeOK
      <3>2. CASE StoreResult(w)
        <4> DEFINE r == IF result = "zero" THEN MarkCompleted(old, TRUE)
                        ELSE MarkFinished(old, result = "solved", result # "solved")
        <4>1. Update(worker[w].task, r)
          BY <3>2 DEF StoreResult
        <4>2. r.status # "running"
          <5>1. MarkCompleted(old, TRUE).status = "completed"
            BY <3>1, ResultStatus
          <5>2. MarkFinished(old, result = "solved", result # "solved").status
                    \in {"solved", "failed"}
            BY <3>1, ResultStatus
          <5> QED BY <5>1, <5>2
        <4> HIDE DEF r
        <4> QED BY <4>1, <4>2
      <3>3. CASE FailRun(w)
        BY <3>1, <3>3, RecordStatus DEF FailRun
      <3> QED BY <1>3, <3>2, <3>3
    <2>3. \E pc \in {"solvedRm", "clear"} : Goto(w, pc)
      BY <1>3 DEF StoreResult, FailRun
    <2> QED BY <2>1, <2>2, <2>3, StoredRecord, QuietMove DEF WorkerPcs, FinishPcs
  <1>4. CASE RemoveSolved(w) \/ ClearCancel(w) \/ Release(w)
    <2>1. UNCHANGED <<task, phase, recover>>
      BY <1>4 DEF RemoveSolved, ClearCancel, Release, procVars
    <2>2. worker[w].pc \notin ActivePcs
      BY <1>4 DEF RemoveSolved, ClearCancel, Release, ActivePcs, RunPcs, DockerPcs, FinishPcs
    <2>3. \E r : Become(w, r)
      BY <1>4 DEF RemoveSolved, ClearCancel, Release, Goto
    <2> QED BY <2>1, <2>2, <2>3, PutFields DEF RunKept
  <1> QED BY <1>1, <1>2, <1>3, <1>4 DEF FinishStep

(* A deadline changes nothing but the context. *)
LEMMA DeadlineKeepsRun ==
    ASSUME TypeOK, NEW w \in Workers, Deadline(w)
    PROVE  RunKept(w)
  <1> DEFINE r == [worker[w] EXCEPT !.ctx = "dead"]
  <1>1. UNCHANGED <<task, phase, recover>> /\ Become(w, r)
    BY DEF Deadline, procVars
  <1>2. r.pc = worker[w].pc /\ r.task = worker[w].task
    BY DEF TypeOK, WorkerTypeOK, WorkerState
  <1> QED BY <1>1, <1>2, PutFields DEF TypeOK, RunKept

(* What every worker step does for the run of its task. *)
LEMMA WorkerKeepsRun ==
    ASSUME TypeOK, NEW w \in Workers,
           DispatchStep(w) \/ Deadline(w) \/ DockerStep(w) \/ FinishStep(w)
    PROVE  RunKept(w)
  BY DispatchKeepsRun, DeadlineKeepsRun, DockerKeepsRun, FinishKeepsRun

(* Such a step keeps RunningTaskOwned. *)
LEMMA RunKeptOwned ==
    ASSUME TypeOK, RunningTaskOwned, NEW w \in Workers, RunKept(w)
    PROVE  RunningTaskOwned'
  <1> SUFFICES ASSUME NEW t \in Tasks, task'[t].status = "running", phase # "exited"
               PROVE  WorkerOn(t, ActivePcs)' \/ t \in recover
    BY DEF RunningTaskOwned, RunKept
  <1>1. CASE task[t].status # "running"
    BY <1>1 DEF RunKept, WorkerOn
  <1>2. CASE task[t].status = "running" /\ t \notin recover
    <2>1. PICK v \in Workers : worker[v].task = t /\ worker[v].pc \in ActivePcs
      BY <1>2 DEF RunningTaskOwned, WorkerOn
    <2>2. CASE v = w
      BY <2>1, <2>2 DEF RunKept, WorkerOn
    <2>3. CASE v # w
      BY <2>1, <2>3 DEF RunKept, WorkerOn
    <2> QED BY <2>2, <2>3
  <1> QED BY <1>1, <1>2

(* A step that leaves every worker on its task and starts no run. *)
LEMMA RunUntouched ==
    ASSUME RunningTaskOwned,
           \A t \in Tasks : task'[t].status = "running" => task[t].status = "running",
           \A v \in Workers : worker'[v].pc = worker[v].pc /\ worker'[v].task = worker[v].task,
           phase' # "exited" => phase # "exited",
           \A t \in recover : t \in recover' \/ task'[t].status # "running"
    PROVE  RunningTaskOwned'
  <1> SUFFICES ASSUME NEW t \in Tasks, task'[t].status = "running", phase' # "exited"
               PROVE  WorkerOn(t, ActivePcs)' \/ t \in recover'
    BY DEF RunningTaskOwned
  <1>1. WorkerOn(t, ActivePcs) \/ t \in recover
    BY DEF RunningTaskOwned
  <1> QED BY <1>1 DEF WorkerOn

(* RunningTaskOwned is preserved by every step. *)
LEMMA RunningTaskOwnedStep ==
    ASSUME TypeOK, RunningTaskOwned, [Next]_vars
    PROVE  RunningTaskOwned'
  <1> USE DEF TypeOK, DataTypeOK
  <1>1. ASSUME NEW t \in Tasks, SubmitStep(t)
        PROVE  RunningTaskOwned'
    <2>1. UNCHANGED <<worker, phase, recover>>
      BY <1>1 DEF SubmitStep, SubmitCheck, SubmitAdd, SubmitEnqueue, SubmitFull, SubmitFail,
                  procVars
    <2>2. \A u \in Tasks : task'[u].status = "running" => task[u].status = "running"
      BY <1>1, StoredRecord, RecordStatus
         DEF SubmitStep, SubmitCheck, SubmitAdd, SubmitEnqueue, SubmitFull, SubmitFail
    <2> QED BY <2>1, <2>2, RunUntouched
  <1>2. ASSUME NEW t \in Tasks, RecoverNext(t)
        PROVE  RunningTaskOwned'
    <2>1. UNCHANGED <<worker, phase>> /\ recover' = recover \ {t}
      BY <1>2 DEF RecoverNext
    <2>2. /\ task'[t].status # "running"
          /\ \A u \in Tasks \ {t} : task'[u] = task[u]
      BY <1>2, StoredRecord, RecordStatus DEF RecoverNext
    <2> QED BY <2>1, <2>2, RunUntouched
  <1>3. ASSUME NEW s \in Senders, SendStep(s)
        PROVE  RunningTaskOwned'
    <2>1. UNCHANGED <<task, worker, phase, recover>>
      BY <1>3 DEF SendStep, SendCheck, SendReserve, SendEnqueue, SendFull, SendUndo, procVars
    <2> QED BY <2>1, RunUntouched
  <1>4. ASSUME NEW c \in Closers, CloseStep(c)
        PROVE  RunningTaskOwned'
    <2>1. UNCHANGED <<phase, recover>>
      BY <1>4 DEF CloseStep, CloseGet, CloseCancel, CloseRelease, CloseStopQueued, CloseRemove,
                  CloseRemoveFails, CloseMark, procVars
    <2>2. CASE CloseCancel(c)
      <3>1. UNCHANGED task
        BY <2>2 DEF CloseCancel
      <3>2. \A v \in Workers : worker'[v].pc = worker[v].pc /\ worker'[v].task = worker[v].task
        BY <2>2 DEF CloseCancel, Become, WorkerTypeOK, WorkerState
      <3> QED BY <2>1, <3>1, <3>2, RunUntouched
    <2>3. CASE CloseStopQueued(c) \/ CloseMark(c)
      <3>1. UNCHANGED worker /\ closer[c].task \in Tasks
        BY <2>3 DEF CloseStopQueued, CloseMark, ClientTypeOK
      <3>2. \A u \in Tasks : task'[u].status = "running" => task[u].status = "running"
        BY <2>3, <3>1, StoredRecord, RecordStatus DEF CloseStopQueued, CloseMark
      <3> QED BY <2>1, <3>1, <3>2, RunUntouched
    <2>4. CASE \/ \E t \in Tasks : CloseGet(c, t)
               \/ CloseRelease(c) \/ CloseRemove(c) \/ CloseRemoveFails(c)
      <3>1. UNCHANGED <<task, worker>>
        BY <2>4 DEF CloseGet, CloseRelease, CloseRemove, CloseRemoveFails
      <3> QED BY <2>1, <3>1, RunUntouched
    <2> QED BY <1>4, <2>2, <2>3, <2>4 DEF CloseStep
  <1>5. ASSUME NEW w \in Workers,
               DispatchStep(w) \/ Deadline(w) \/ DockerStep(w) \/ FinishStep(w)
        PROVE  RunningTaskOwned'
    BY <1>5, WorkerKeepsRun, RunKeptOwned
  <1>6. CASE CancelAllRuns
    <2>1. UNCHANGED <<task, recover>> /\ phase = "up"
      BY <1>6 DEF CancelAllRuns, Serving
    <2>2. \A v \in Workers : worker'[v].pc = worker[v].pc /\ worker'[v].task = worker[v].task
      BY <1>6 DEF CancelAllRuns, WorkerTypeOK, WorkerState
    <2> QED BY <2>1, <2>2, RunUntouched
  <1>7. CASE CloseDone \/ GraceOver \/ \E t \in Tasks : ForceRemove(t)
    <2>1. UNCHANGED <<task, worker, recover>> /\ phase # "exited"
      BY <1>7 DEF CloseDone, GraceOver, ForceRemove
    <2> QED BY <2>1, RunUntouched
  <1>8. CASE CloseReturns
    BY <1>8 DEF CloseReturns, RunningTaskOwned
  <1>9. CASE Restart
    <2>1. \A t \in Tasks : task'[t] \in {NoRecord, Reloaded(task[t])}
      BY <1>9 DEF Restart
    <2>2. recover' = {t \in Tasks : Recoverable(task'[t])}
      BY <1>9 DEF Restart
    <2> QED BY <2>1, <2>2, RecordStatus DEF RunningTaskOwned, NoRecord
  <1>10. CASE ClearResults
    <2>1. UNCHANGED <<worker, phase, recover>>
      BY <1>10 DEF ClearResults, procVars
    <2>2. \A t \in Tasks : task'[t].status = "running" => task[t].status = "running"
      BY <1>10, RecordStatus DEF ClearResults
    <2> QED BY <2>1, <2>2, RunUntouched
  <1>11. CASE UNCHANGED vars
    BY <1>11, RunUntouched DEF vars, procVars
  <1> QED BY <1>1, <1>2, <1>3, <1>4, <1>5, <1>6, <1>7, <1>8, <1>9, <1>10, <1>11
      DEF Next

(* A task is never left "running" with no worker behind it (finishRun,     *)
(* taskWasStopped, recoverInterruptedRunningContainers).                   *)
THEOREM RunningTasksOwned == Spec => []RunningTaskOwned
  <1>1. Init => RunningTaskOwned
    BY DEF Init, NoRecord, RunningTaskOwned
  <1>2. TypeOK /\ RunningTaskOwned /\ [Next]_vars => RunningTaskOwned'
    BY RunningTaskOwnedStep
  <1> QED BY <1>1, <1>2, TypeCorrect, PTL DEF Spec

-----------------------------------------------------------------------------
(* RegistryLive. *)

(* What a worker step does to the registry: its own run stays where it is, *)
(* or is entered, or is taken out.                                         *)
RegistryKept(w) ==
    LET t == worker[w].task IN
    /\ \A v \in Workers \ {w} : worker'[v] = worker[v]
    /\ \/ /\ UNCHANGED runs
          /\ worker[w].pc \in RunPcs => worker'[w].pc \in RunPcs /\ worker'[w].task = t
       \/ /\ runs' = [runs EXCEPT ![t] = w]
          /\ worker[w].pc \notin RunPcs /\ worker'[w].pc \in RunPcs /\ worker'[w].task = t
       \/ runs' = [runs EXCEPT ![t] = NoWorker] /\ worker[w].pc \in RunPcs

(* taskRunContext enters the run, the steps before it do not touch the registry. *)
LEMMA DispatchKeepsRegistry ==
    ASSUME TypeOK, NEW w \in Workers, DispatchStep(w)
    PROVE  RegistryKept(w)
  <1> USE DEF TypeOK
  <1>1. CASE Register(w)
    <2> DEFINE r == [worker[w] EXCEPT
                    !.pc = IF worker[w].msg = NoMessage THEN "start" ELSE "hint",
                    !.ctx = IF Done THEN "dead" ELSE "live"]
    <2>1. /\ runs' = [runs EXCEPT ![worker[w].task] = w] /\ worker[w].pc = "register"
          /\ Become(w, r)
      BY <1>1 DEF Register
    <2>2. r.pc \in {"start", "hint"} /\ r.task = worker[w].task
      BY DEF WorkerTypeOK, WorkerState
    <2> QED BY <2>1, <2>2, PutFields DEF RegistryKept, RunPcs, DockerPcs, FinishPcs
  <1>2. CASE Pop(w) \/ Exit(w) \/ TakeMessage(w) \/ TaskCheck(w) \/ ContCheck(w) \/ BeginRun(w)
    <2>1. UNCHANGED runs
      BY <1>2 DEF Pop, Exit, TakeMessage, TaskCheck, ContCheck, BeginRun
    <2>2. worker[w].pc \notin RunPcs
      BY <1>2 DEF Pop, Exit, TakeMessage, TaskCheck, ContCheck, BeginRun, RunPcs, DockerPcs,
                  FinishPcs
    <2>3. \E r : Become(w, r)
      BY <1>2 DEF Pop, Exit, TakeMessage, TaskCheck, ContCheck, BeginRun, Goto
    <2> QED BY <2>1, <2>2, <2>3, PutFields DEF RegistryKept
  <1> QED BY <1>1, <1>2 DEF DispatchStep

(* The runners do not touch the registry. *)
LEMMA DockerKeepsRegistry ==
    ASSUME TypeOK, NEW w \in Workers, DockerStep(w) \/ Deadline(w)
    PROVE  RegistryKept(w)
  <1> USE DEF TypeOK
  <1>1. UNCHANGED runs
    BY DEF DockerStep, Deadline, StartContainer, StartFails, SinkContainer, StartHint, HintFails,
           AgentSession, AgentExits, AgentFails, AgentCancelled, CancelledRemove
  <1>2. CASE AgentSession(w)
    BY <1>1, <1>2 DEF AgentSession, RegistryKept
  <1>3. CASE Deadline(w)
    <2> DEFINE r == [worker[w] EXCEPT !.ctx = "dead"]
    <2>1. Become(w, r)
      BY <1>3 DEF Deadline
    <2>2. r.pc = worker[w].pc /\ r.task = worker[w].task
      BY DEF WorkerTypeOK, WorkerState
    <2> QED BY <1>1, <2>1, <2>2, PutFields DEF RegistryKept
  <1>4. ASSUME NEW result \in {"solved", "zero", "nonzero"}, AgentExits(w, result)
        PROVE  RegistryKept(w)
    <2> DEFINE r == [worker[w] EXCEPT !.pc = IF result = "zero" THEN "round" ELSE "check",
                                      !.result = result]
    <2>1. Become(w, r)
      BY <1>4 DEF AgentExits
    <2>2. r.pc \in {"round", "check"} /\ r.task = worker[w].task
      BY DEF WorkerTypeOK, WorkerState
    <2> QED BY <1>1, <2>1, <2>2, PutFields DEF RegistryKept, RunPcs, FinishPcs
  <1>5. CASE \/ StartContainer(w) \/ StartFails(w) \/ SinkContainer(w) \/ StartHint(w)
             \/ HintFails(w) \/ AgentFails(w) \/ AgentCancelled(w) \/ CancelledRemove(w)
    <2>1. PICK pc \in DockerPcs \cup {"failCheck"} : Goto(w, pc)
      BY <1>5 DEF StartContainer, StartFails, SinkContainer, StartHint, HintFails, AgentFails,
                  AgentCancelled, CancelledRemove, DockerPcs
    <2>2. pc \in WorkerPcs /\ pc \in RunPcs
      BY <2>1 DEF WorkerPcs, RunPcs, DockerPcs, FinishPcs
    <2> QED BY <1>1, <2>1, <2>2, MoveFields DEF RegistryKept
  <1> QED BY <1>2, <1>3, <1>4, <1>5 DEF DockerStep

(* clearTaskCancel is the only step of finishRun that does. *)
LEMMA FinishKeepsRegistry ==
    ASSUME TypeOK, NEW w \in Workers, FinishStep(w)
    PROVE  RegistryKept(w)
  <1> USE DEF TypeOK
  <1>1. CASE NextRound(w)
    <2> DEFINE r == [worker[w] EXCEPT !.pc = "hint", !.round = worker[w].round + 1]
    <2>1. r.pc = "hint" /\ r.task = worker[w].task
      BY DEF WorkerTypeOK, WorkerState
    <2>2. UNCHANGED runs
      BY <1>1 DEF NextRound
    <2>3. CASE Become(w, r)
      BY <2>1, <2>2, <2>3, PutFields DEF RegistryKept, RunPcs, DockerPcs
    <2>4. CASE \E pc \in {"check", "failCheck"} : Goto(w, pc)
      BY <2>2, <2>4, MoveFields DEF RegistryKept, WorkerPcs, RunPcs, FinishPcs
    <2> QED BY <1>1, <2>3, <2>4 DEF NextRound
  <1>2. CASE StopCheck(w) \/ StoreResult(w) \/ RemoveSolved(w) \/ FailCheck(w) \/ FailRun(w)
    <2>1. UNCHANGED runs
      BY <1>2 DEF StopCheck, StoreResult, RemoveSolved, FailCheck, FailRun
    <2>2. PICK pc \in FinishPcs : Goto(w, pc)
      BY <1>2 DEF StopCheck, StoreResult, RemoveSolved, FailCheck, FailRun, FinishPcs
    <2> QED BY <2>1, <2>2, MoveFields DEF RegistryKept, WorkerPcs, RunPcs
  <1>3. CASE ClearCancel(w)
    <2>1. \E r : Become(w, r)
      BY <1>3 DEF ClearCancel
    <2> QED BY <1>3, <2>1, PutFields DEF ClearCancel, RegistryKept, RunPcs, FinishPcs
  <1>4. CASE Release(w)
    <2>1. worker[w].pc \notin RunPcs /\ UNCHANGED runs /\ Become(w, IdleWorker)
      BY <1>4 DEF Release, RunPcs, DockerPcs, FinishPcs
    <2> QED BY <2>1, PutFields DEF RegistryKept
  <1> QED BY <1>1, <1>2, <1>3, <1>4 DEF FinishStep

(* A worker step of this kind keeps RegistryLive. *)
LEMMA RegistryKeptLive ==
    ASSUME TypeOK, RegistryLive, NEW w \in Workers, RegistryKept(w)
    PROVE  RegistryLive'
  <1> SUFFICES ASSUME NEW t \in Tasks, runs'[t] # NoWorker
               PROVE  worker'[runs'[t]].task = t /\ worker'[runs'[t]].pc \in RunPcs
    BY DEF RegistryLive
  <1> USE DEF TypeOK, SlotTypeOK
  <1>1. CASE UNCHANGED runs
    BY <1>1 DEF RegistryLive, RegistryKept
  <1>2. CASE /\ runs' = [runs EXCEPT ![worker[w].task] = w]
             /\ worker[w].pc \notin RunPcs
             /\ worker'[w].pc \in RunPcs /\ worker'[w].task = worker[w].task
    <2>1. CASE t = worker[w].task
      BY <1>2, <2>1
    <2>2. CASE t # worker[w].task
      BY <1>2, <2>2 DEF RegistryLive, RegistryKept
    <2> QED BY <2>1, <2>2
  <1>3. CASE runs' = [runs EXCEPT ![worker[w].task] = NoWorker]
    BY <1>3 DEF RegistryLive, RegistryKept
  <1> QED BY <1>1, <1>2, <1>3 DEF RegistryKept

(* So does a step that moves no worker. *)
LEMMA RegistryUntouched ==
    ASSUME TypeOK, RegistryLive, UNCHANGED runs,
           \A v \in Workers : worker'[v].pc = worker[v].pc /\ worker'[v].task = worker[v].task
    PROVE  RegistryLive'
  BY DEF TypeOK, SlotTypeOK, RegistryLive

(* RegistryLive is preserved by every step. *)
LEMMA RegistryLiveStep ==
    ASSUME TypeOK, RegistryLive, [Next]_vars
    PROVE  RegistryLive'
  <1>1. CASE \/ \E t \in Tasks : SubmitStep(t) \/ RecoverNext(t)
             \/ \E s \in Senders : SendStep(s)
             \/ ClearResults \/ CloseDone \/ GraceOver \/ UNCHANGED vars
             \/ \E t \in Tasks : ForceRemove(t)
    <2>1. UNCHANGED <<runs, worker>>
      BY <1>1 DEF SubmitStep, SubmitCheck, SubmitAdd, SubmitEnqueue, SubmitFull, SubmitFail,
                  RecoverNext, SendStep, SendCheck, SendReserve, SendEnqueue, SendFull, SendUndo,
                  ClearResults, CloseDone, GraceOver, ForceRemove, vars
    <2> QED BY <2>1, RegistryUntouched
  <1>2. ASSUME NEW c \in Closers, CloseStep(c)
        PROVE  RegistryLive'
    <2>1. UNCHANGED runs
      BY <1>2 DEF CloseStep, CloseGet, CloseCancel, CloseRelease, CloseStopQueued, CloseRemove,
                  CloseRemoveFails, CloseMark
    <2>2. CASE CloseCancel(c)
      <3>1. \A v \in Workers : worker'[v].pc = worker[v].pc /\ worker'[v].task = worker[v].task
        BY <2>2 DEF CloseCancel, Become, TypeOK, WorkerTypeOK, WorkerState
      <3> QED BY <2>1, <3>1, RegistryUntouched
    <2>3. CASE ~CloseCancel(c)
      <3>1. UNCHANGED worker
        BY <1>2, <2>3 DEF CloseStep, CloseGet, CloseRelease, CloseStopQueued, CloseRemove,
                          CloseRemoveFails, CloseMark
      <3> QED BY <2>1, <3>1, RegistryUntouched
    <2> QED BY <2>2, <2>3
  <1>3. ASSUME NEW w \in Workers,
               DispatchStep(w) \/ Deadline(w) \/ DockerStep(w) \/ FinishStep(w)
        PROVE  RegistryLive'
    BY <1>3, DispatchKeepsRegistry, DockerKeepsRegistry, FinishKeepsRegistry, RegistryKeptLive
  <1>4. CASE CancelAllRuns
    <2>1. UNCHANGED runs
      BY <1>4 DEF CancelAllRuns
    <2>2. \A v \in Workers : worker'[v].pc = worker[v].pc /\ worker'[v].task = worker[v].task
      BY <1>4 DEF CancelAllRuns, TypeOK, WorkerTypeOK, WorkerState
    <2> QED BY <2>1, <2>2, RegistryUntouched
  <1>5. CASE CloseReturns \/ Restart
    <2>1. runs' = [t \in Tasks |-> NoWorker]
      BY <1>5 DEF CloseReturns, Restart, ProcessGone
    <2> QED BY <2>1 DEF RegistryLive
  <1> QED BY <1>1, <1>2, <1>3, <1>4, <1>5 DEF Next

(* A cancel function found under a task's id is that of a run of the task  *)
(* that is not over (taskRunContext, clearTaskCancel).                     *)
THEOREM RegistryStaysLive == Spec => []RegistryLive
  <1>1. Init => RegistryLive
    BY DEF Init, RegistryLive
  <1>2. TypeOK /\ RegistryLive /\ [Next]_vars => RegistryLive'
    BY RegistryLiveStep
  <1> QED BY <1>1, <1>2, TypeCorrect, PTL DEF Spec

-----------------------------------------------------------------------------
(* Slots, and then queued tasks.                                           *)

(* Where a worker has not taken a message yet. *)
NoMessagePcs == {"idle", "picked", "taskCheck"}

(* NoLeakedReservation is not inductive by itself: a worker that goes idle *)
(* could be the continuation that has to release the slot, and a message   *)
(* could wait on a slot that is not taken.                                 *)
SlotInv ==
    /\ \A t \in Tasks : message[t] # NoMessage => t \in busy
    /\ \A w \in Workers : worker[w].pc \in NoMessagePcs => worker[w].msg = NoMessage
    /\ \A t \in Tasks : t \in busy /\ ~Done =>
          IF message[t] = NoMessage THEN ContinuationOn(t)
          ELSE SenderOn(t, {"reserved", "undo"}) \/ InQueue(t) \/ WorkerOn(t, {"picked"})

(* Worker steps that concern no slot: the worker keeps its task and its    *)
(* message, or it goes idle without a message.                             *)
SlotQuiet(w) ==
    /\ \A v \in Workers \ {w} : worker'[v] = worker[v]
    /\ UNCHANGED <<busy, message, queue, phase, sender>>
    /\ worker'[w].task = worker[w].task /\ worker'[w].msg = worker[w].msg
    /\ worker'[w].pc = worker[w].pc \/ worker'[w].pc \notin NoMessagePcs
    /\ worker[w].pc = "picked" => worker'[w].pc = "picked" \/ Done

SlotIdle(w) ==
    /\ \A v \in Workers \ {w} : worker'[v] = worker[v]
    /\ UNCHANGED <<busy, message, queue, phase, sender>>
    /\ worker[w].pc # "picked" /\ worker[w].msg = NoMessage
    /\ worker'[w] = IdleWorker

(* Goto in an action that touches no slot is a quiet step. *)
LEMMA QuietMoveKeepsSlots ==
    ASSUME TypeOK, NEW w \in Workers, NEW pc \in WorkerPcs \ NoMessagePcs, Goto(w, pc),
           UNCHANGED <<busy, message, queue, phase, sender>>,
           worker[w].pc = "picked" => Done
    PROVE  SlotQuiet(w)
  BY MoveFields DEF TypeOK, SlotQuiet

-----------------------------------------------------------------------------
(* The worker steps other than Pop, TakeMessage and Release.               *)

(* No step inside a Docker runner concerns a slot. *)
LEMMA DockerSlots ==
    ASSUME TypeOK, SlotInv, NEW w \in Workers, DockerStep(w) \/ Deadline(w)
    PROVE  SlotQuiet(w)
  <1> USE DEF TypeOK
  <1>1. UNCHANGED <<busy, message, queue, phase, sender>>
    BY DEF DockerStep, Deadline, StartContainer, StartFails, SinkContainer, StartHint, HintFails,
           AgentSession, AgentExits, AgentFails, AgentCancelled, CancelledRemove, slotVars,
           clientVars, procVars
  <1>2. CASE AgentSession(w)
    BY <1>1, <1>2 DEF AgentSession, SlotQuiet, NoMessagePcs
  <1>3. CASE Deadline(w)
    <2> DEFINE r == [worker[w] EXCEPT !.ctx = "dead"]
    <2>1. Become(w, r) /\ worker[w].ctx = "live"
      BY <1>3 DEF Deadline
    <2>2. r.pc = worker[w].pc /\ r.task = worker[w].task /\ r.msg = worker[w].msg
      BY DEF WorkerTypeOK, WorkerState
    <2> QED BY <1>1, <2>1, <2>2, PutFields DEF SlotQuiet
  <1>4. ASSUME NEW result \in {"solved", "zero", "nonzero"}, AgentExits(w, result)
        PROVE  SlotQuiet(w)
    <2> DEFINE r == [worker[w] EXCEPT !.pc = IF result = "zero" THEN "round" ELSE "check",
                                      !.result = result]
    <2>1. Become(w, r) /\ worker[w].pc = "agent"
      BY <1>4 DEF AgentExits
    <2>2. r.pc \in {"round", "check"} /\ r.task = worker[w].task /\ r.msg = worker[w].msg
      BY DEF WorkerTypeOK, WorkerState
    <2> QED BY <1>1, <2>1, <2>2, PutFields DEF SlotQuiet, NoMessagePcs
  <1>5. CASE \/ StartContainer(w) \/ StartFails(w) \/ SinkContainer(w) \/ StartHint(w)
             \/ HintFails(w) \/ AgentFails(w) \/ AgentCancelled(w) \/ CancelledRemove(w)
    <2>1. PICK pc \in DockerPcs \cup {"failCheck"} : Goto(w, pc)
      BY <1>5 DEF StartContainer, StartFails, SinkContainer, StartHint, HintFails, AgentFails,
                  AgentCancelled, CancelledRemove, DockerPcs
    <2>2. pc \in WorkerPcs \ NoMessagePcs
      BY <2>1 DEF WorkerPcs, DockerPcs, FinishPcs, NoMessagePcs
    <2>3. worker[w].pc # "picked"
      BY <1>5 DEF StartContainer, StartFails, SinkContainer, StartHint, HintFails, AgentFails,
                  AgentCancelled, CancelledRemove
    <2> QED BY <1>1, <2>1, <2>2, <2>3, QuietMoveKeepsSlots
  <1> QED BY <1>2, <1>3, <1>4, <1>5 DEF DockerStep

(* Storing the outcome does not, and clearTaskCancel sends only the worker *)
(* of a first run to idle.                                                 *)
LEMMA FinishSlots ==
    ASSUME TypeOK, SlotInv, NEW w \in Workers, FinishStep(w), ~Release(w)
    PROVE  SlotQuiet(w) \/ SlotIdle(w)
  <1> USE DEF TypeOK
  <1>1. UNCHANGED <<busy, message, queue, phase, sender>>
    BY DEF FinishStep, NextRound, StopCheck, StoreResult, RemoveSolved, FailCheck, FailRun,
           ClearCancel, slotVars, clientVars, procVars
  <1>2. CASE NextRound(w)
    <2> DEFINE r == [worker[w] EXCEPT !.pc = "hint", !.round = worker[w].round + 1]
    <2>1. r.pc = "hint" /\ r.task = worker[w].task /\ r.msg = worker[w].msg
      BY DEF WorkerTypeOK, WorkerState
    <2>2. worker[w].pc = "round"
      BY <1>2 DEF NextRound
    <2>3. CASE Become(w, r)
      BY <1>1, <2>1, <2>2, <2>3, PutFields DEF SlotQuiet, NoMessagePcs
    <2>4. CASE \E pc \in {"check", "failCheck"} : Goto(w, pc)
      BY <1>1, <2>2, <2>4, QuietMoveKeepsSlots DEF WorkerPcs, FinishPcs, NoMessagePcs
    <2> QED BY <1>2, <2>3, <2>4 DEF NextRound
  <1>3. CASE StopCheck(w) \/ StoreResult(w) \/ RemoveSolved(w) \/ FailCheck(w) \/ FailRun(w)
    <2>1. PICK pc \in FinishPcs : Goto(w, pc)
      BY <1>3 DEF StopCheck, StoreResult, RemoveSolved, FailCheck, FailRun, FinishPcs
    <2>2. pc \in WorkerPcs \ NoMessagePcs
      BY DEF WorkerPcs, FinishPcs, NoMessagePcs
    <2>3. worker[w].pc # "picked"
      BY <1>3 DEF StopCheck, StoreResult, RemoveSolved, FailCheck, FailRun
    <2> QED BY <1>1, <2>1, <2>2, <2>3, QuietMoveKeepsSlots
  <1>4. CASE ClearCancel(w)
    <2> DEFINE r == [worker[w] EXCEPT !.pc = "release", !.ctx = "none"]
    <2>1. r.pc = "release" /\ r.task = worker[w].task /\ r.msg = worker[w].msg
      BY DEF WorkerTypeOK, WorkerState
    <2>2. worker[w].pc = "clear"
      BY <1>4 DEF ClearCancel
    <2>3. CASE worker[w].msg = NoMessage
      BY <1>1, <1>4, <2>2, <2>3, PutFields DEF ClearCancel, SlotIdle
    <2>4. CASE worker[w].msg # NoMessage
      BY <1>1, <1>4, <2>1, <2>2, <2>4, PutFields DEF ClearCancel, SlotQuiet, NoMessagePcs
    <2> QED BY <2>3, <2>4
  <1> QED BY <1>2, <1>3, <1>4 DEF FinishStep

(* The checks before a run: only a first run may be dropped at once. *)
LEMMA DispatchSlots ==
    ASSUME TypeOK, SlotInv, NEW w \in Workers, DispatchStep(w), ~Pop(w), ~TakeMessage(w)
    PROVE  SlotQuiet(w) \/ SlotIdle(w)
  <1> USE DEF TypeOK
  <1>1. UNCHANGED <<busy, message, queue, phase, sender>>
    BY DEF DispatchStep, Exit, TaskCheck, ContCheck, BeginRun, Register, slotVars,
           clientVars, procVars
  <1>2. CASE Exit(w)
    BY <1>1, <1>2, QuietMoveKeepsSlots DEF Exit, WorkerPcs, NoMessagePcs
  <1>3. CASE TaskCheck(w)
    <2>1. worker[w].pc = "taskCheck" /\ worker[w].msg = NoMessage
      BY <1>3 DEF TaskCheck, SlotInv, NoMessagePcs
    <2>2. CASE Goto(w, "mark")
      BY <1>1, <2>1, <2>2, QuietMoveKeepsSlots DEF WorkerPcs, StartPcs, NoMessagePcs
    <2>3. CASE Become(w, IdleWorker)
      BY <1>1, <2>1, <2>3, PutFields DEF SlotIdle
    <2> QED BY <1>3, <2>2, <2>3 DEF TaskCheck
  <1>4. CASE ContCheck(w) \/ BeginRun(w)
    <2>1. PICK pc \in {"mark", "release", "register"} : Goto(w, pc)
      BY <1>4 DEF ContCheck, BeginRun
    <2>2. pc \in WorkerPcs \ NoMessagePcs
      BY DEF WorkerPcs, StartPcs, NoMessagePcs
    <2>3. worker[w].pc # "picked"
      BY <1>4 DEF ContCheck, BeginRun
    <2> QED BY <1>1, <2>1, <2>2, <2>3, QuietMoveKeepsSlots
  <1>5. CASE Register(w)
    <2> DEFINE r == [worker[w] EXCEPT
                    !.pc = IF worker[w].msg = NoMessage THEN "start" ELSE "hint",
                    !.ctx = IF Done THEN "dead" ELSE "live"]
    <2>1. worker[w].pc = "register" /\ Become(w, r)
      BY <1>5 DEF Register
    <2>2. r.pc \in {"start", "hint"} /\ r.task = worker[w].task /\ r.msg = worker[w].msg
      BY DEF WorkerTypeOK, WorkerState
    <2> QED BY <1>1, <2>1, <2>2, PutFields DEF SlotQuiet, NoMessagePcs
  <1> QED BY <1>2, <1>3, <1>4, <1>5 DEF DispatchStep

(* How such a step leaves the evidence that a slot will be released. *)
LEMMA QuietKeepsSlotInv ==
    ASSUME TypeOK, SlotInv, NEW w \in Workers, SlotQuiet(w) \/ SlotIdle(w)
    PROVE  SlotInv'
  <1>1. \A t \in Tasks : message'[t] # NoMessage => t \in busy'
    BY DEF SlotInv, SlotQuiet, SlotIdle
  <1>2. \A v \in Workers : worker'[v].pc \in NoMessagePcs => worker'[v].msg = NoMessage
    BY DEF SlotInv, SlotQuiet, SlotIdle, IdleWorker
  <1>3. ASSUME NEW t \in Tasks, t \in busy', ~Done'
        PROVE  IF message'[t] = NoMessage THEN ContinuationOn(t)'
               ELSE SenderOn(t, {"reserved", "undo"})' \/ InQueue(t)' \/ WorkerOn(t, {"picked"})'
    <2>1. /\ t \in busy /\ ~Done /\ UNCHANGED <<queue, sender>>
          /\ message'[t] = message[t]
      BY <1>3 DEF SlotQuiet, SlotIdle, Done
    <2>2. CASE message[t] = NoMessage
      <3>1. PICK v \in Workers : worker[v].task = t /\ worker[v].msg # NoMessage
        BY <2>1, <2>2 DEF SlotInv, ContinuationOn
      <3>2. worker'[v].task = t /\ worker'[v].msg # NoMessage
        BY <3>1 DEF SlotQuiet, SlotIdle
      <3> QED BY <2>1, <2>2, <3>2 DEF ContinuationOn
    <2>3. CASE message[t] # NoMessage
      <3>1. CASE SenderOn(t, {"reserved", "undo"}) \/ InQueue(t)
        BY <2>1, <2>3, <3>1 DEF SenderOn, InQueue
      <3>2. CASE WorkerOn(t, {"picked"})
        BY <2>1, <2>3, <3>2 DEF WorkerOn, SlotQuiet, SlotIdle
      <3> QED BY <2>1, <2>3, <3>1, <3>2 DEF SlotInv
    <2> QED BY <2>2, <2>3
  <1> QED BY <1>1, <1>2, <1>3 DEF SlotInv

-----------------------------------------------------------------------------
(* Steps of the request handlers.                                          *)

(* What a step may do to one slot when no worker moves: nothing, free it,  *)
(* or take it for a handler.                                               *)
SlotKept(t) ==
    \/ /\ t \in busy' <=> t \in busy
       /\ message'[t] = message[t]
       /\ SenderOn(t, {"reserved", "undo"}) => SenderOn(t, {"reserved", "undo"})' \/ InQueue(t)'
    \/ t \notin busy' /\ message'[t] = NoMessage
    \/ t \in busy' /\ message'[t] # NoMessage /\ SenderOn(t, {"reserved", "undo"})'

WorkersStay ==
    \A v \in Workers : /\ worker'[v].pc = worker[v].pc
                       /\ worker'[v].task = worker[v].task
                       /\ worker'[v].msg = worker[v].msg

QueueGrows == \A t \in Tasks : InQueue(t) => InQueue(t)'

(* A step of a handler that keeps every slot in this sense keeps SlotInv. *)
LEMMA ClientKeepsSlotInv ==
    ASSUME TypeOK, SlotInv, WorkersStay, QueueGrows, Done => Done', \A t \in Tasks : SlotKept(t)
    PROVE  SlotInv'
  <1>1. \A t \in Tasks : message'[t] # NoMessage => t \in busy'
    BY DEF SlotInv, SlotKept
  <1>2. \A v \in Workers : worker'[v].pc \in NoMessagePcs => worker'[v].msg = NoMessage
    BY DEF SlotInv, WorkersStay
  <1>3. ASSUME NEW t \in Tasks, t \in busy', ~Done'
        PROVE  IF message'[t] = NoMessage THEN ContinuationOn(t)'
               ELSE SenderOn(t, {"reserved", "undo"})' \/ InQueue(t)' \/ WorkerOn(t, {"picked"})'
    <2>1. CASE /\ t \in busy /\ message'[t] = message[t]
               /\ SenderOn(t, {"reserved", "undo"}) =>
                     SenderOn(t, {"reserved", "undo"})' \/ InQueue(t)'
      <3>1. IF message[t] = NoMessage THEN ContinuationOn(t)
            ELSE SenderOn(t, {"reserved", "undo"}) \/ InQueue(t) \/ WorkerOn(t, {"picked"})
        BY <1>3, <2>1 DEF SlotInv
      <3>2. ContinuationOn(t) => ContinuationOn(t)'
        BY DEF ContinuationOn, WorkersStay
      <3>3. WorkerOn(t, {"picked"}) => WorkerOn(t, {"picked"})'
        BY DEF WorkerOn, WorkersStay
      <3> QED BY <2>1, <3>1, <3>2, <3>3 DEF QueueGrows
    <2>2. CASE message'[t] # NoMessage /\ SenderOn(t, {"reserved", "undo"})'
      BY <2>2
    <2> QED BY <1>3, <2>1, <2>2 DEF SlotKept
  <1> QED BY <1>1, <1>2, <1>3 DEF SlotInv

(* enqueue keeps what is in the queue and adds its task. *)
LEMMA AppendKeepsQueue ==
    ASSUME TypeOK, NEW t \in Tasks, queue' = Append(queue, t)
    PROVE  QueueGrows /\ InQueue(t)'
  <1>1. queue \in Seq(Tasks)
    BY DEF TypeOK, SlotTypeOK
  <1>2. Len(queue') = Len(queue) + 1 /\ queue'[Len(queue) + 1] = t
    BY <1>1
  <1>3. \A i \in 1..Len(queue) : queue'[i] = queue[i] /\ i \in 1..Len(queue')
    BY <1>1
  <1>4. InQueue(t)'
    BY <1>1, <1>2 DEF InQueue
  <1> QED BY <1>3, <1>4 DEF QueueGrows, InQueue

(* releaseTaskSlot frees one slot and leaves the others alone. *)
LEMMA FreedSlot ==
    ASSUME TypeOK, NEW t \in Tasks, ReleaseSlot(t)
    PROVE  /\ t \notin busy' /\ message'[t] = NoMessage
           /\ \A u \in Tasks \ {t} : (u \in busy' <=> u \in busy) /\ message'[u] = message[u]
           /\ UNCHANGED queue
  BY DEF TypeOK, SlotTypeOK, ReleaseSlot

(* SendTaskMessage takes a free slot and enqueues its task or frees it. *)
LEMMA SendKeepsSlots ==
    ASSUME TypeOK, SlotInv, NEW s \in Senders, SendStep(s)
    PROVE  SlotInv'
  <1> USE DEF TypeOK, ClientTypeOK
  <1>1. UNCHANGED <<worker, phase>>
    BY DEF SendStep, SendCheck, SendReserve, SendEnqueue, SendFull, SendUndo, procVars
  <1>2. WorkersStay /\ (Done => Done')
    BY <1>1 DEF WorkersStay, Done
  <1>3. CASE \E t \in Tasks : SendCheck(s, t)
    <2>1. UNCHANGED <<busy, message, queue>> /\ sender[s].pc = "new"
      BY <1>3 DEF SendCheck, slotVars
    <2>2. \A z \in Senders \ {s} : sender'[z] = sender[z]
      BY <1>3 DEF SendCheck
    <2>3. QueueGrows
      BY <2>1 DEF QueueGrows, InQueue
    <2>4. \A t \in Tasks : SlotKept(t)
      BY <2>1, <2>2 DEF SlotKept, SenderOn
    <2> QED BY <1>2, <2>3, <2>4, ClientKeepsSlotInv
  <1>4. CASE SendReserve(s) \/ SendEnqueue(s) \/ SendFull(s) \/ SendUndo(s)
    <2>0. sender[s].task \in Tasks
      BY <1>4 DEF SendReserve, SendEnqueue, SendFull, SendUndo
    <2> PICK u \in Tasks : u = sender[s].task
      BY <2>0
    <2>1. \A z \in Senders \ {s} : sender'[z] = sender[z]
      BY <1>4 DEF SendReserve, SendEnqueue, SendFull, SendUndo
    <2>2. CASE SendReserve(s)
      <3>1. UNCHANGED queue /\ sender[s].pc = "checked"
        BY <2>2 DEF SendReserve
      <3>2. CASE SlotFree(u)
        <4>1. /\ sender'[s].pc = "reserved" /\ sender'[s].task = u
              /\ busy' = busy \cup {u} /\ message' = [message EXCEPT ![u] = s]
          BY <2>2, <3>2 DEF SendReserve, SenderState
        <4>2. u \in busy' /\ message'[u] # NoMessage /\ SenderOn(u, {"reserved", "undo"})'
          BY <2>1, <4>1, NoMessageAssumption DEF SenderOn, SlotTypeOK
        <4>3. \A t \in Tasks \ {u} : SlotKept(t)
          BY <2>1, <3>1, <4>1 DEF SlotKept, SenderOn, SlotTypeOK
        <4>4. \A t \in Tasks : SlotKept(t)
          BY <4>2, <4>3 DEF SlotKept
        <4>5. QueueGrows
          BY <3>1 DEF QueueGrows, InQueue
        <4> QED BY <1>2, <4>4, <4>5, ClientKeepsSlotInv
      <3>3. CASE ~SlotFree(u)
        <4>1. UNCHANGED <<busy, message>>
          BY <2>2, <3>3 DEF SendReserve
        <4>2. \A t \in Tasks : SlotKept(t)
          BY <2>1, <3>1, <4>1 DEF SlotKept, SenderOn
        <4>3. QueueGrows
          BY <3>1 DEF QueueGrows, InQueue
        <4> QED BY <1>2, <4>2, <4>3, ClientKeepsSlotInv
      <3> QED BY <3>2, <3>3
    <2>3. CASE SendEnqueue(s)
      <3>1. UNCHANGED <<busy, message>> /\ queue' = Append(queue, u)
        BY <2>3 DEF SendEnqueue
      <3>2. QueueGrows /\ InQueue(u)'
        BY <2>1, <3>1, AppendKeepsQueue
      <3>3. \A t \in Tasks : SlotKept(t)
        BY <2>1, <3>1, <3>2 DEF SlotKept, SenderOn
      <3> QED BY <1>2, <3>2, <3>3, ClientKeepsSlotInv
    <2>4. CASE SendFull(s)
      <3>1. /\ UNCHANGED <<busy, message, queue>>
            /\ sender'[s].pc = "undo" /\ sender'[s].task = u
        BY <2>4 DEF SendFull, slotVars, SenderState
      <3>2. \A t \in Tasks : SlotKept(t)
        BY <2>1, <3>1 DEF SlotKept, SenderOn
      <3>3. QueueGrows
        BY <3>1 DEF QueueGrows, InQueue
      <3> QED BY <1>2, <3>2, <3>3, ClientKeepsSlotInv
    <2>5. CASE SendUndo(s)
      <3>1. ReleaseSlot(u)
        BY <2>5 DEF SendUndo
      <3>2. \A t \in Tasks \ {u} : SlotKept(t)
        BY <2>1, <3>1, FreedSlot DEF SlotKept, SenderOn
      <3>3. SlotKept(u) /\ UNCHANGED queue
        BY <2>1, <3>1, FreedSlot DEF SlotKept
      <3>4. QueueGrows
        BY <3>3 DEF QueueGrows, InQueue
      <3> QED BY <1>2, <3>2, <3>3, <3>4, ClientKeepsSlotInv
    <2> QED BY <1>4, <2>2, <2>3, <2>4, <2>5
  <1> QED BY <1>3, <1>4 DEF SendStep

(* A stop request frees the slot, whoever holds it. *)
LEMMA CloseKeepsSlots ==
    ASSUME TypeOK, SlotInv, NEW c \in Closers, CloseStep(c)
    PROVE  SlotInv'
  <1> USE DEF TypeOK, ClientTypeOK
  <1>1. UNCHANGED <<phase, queue, sender>>
    BY DEF CloseStep, CloseGet, CloseCancel, CloseRelease, CloseStopQueued, CloseRemove,
           CloseRemoveFails, CloseMark, slotVars, procVars, ReleaseSlot
  <1>2. QueueGrows /\ (Done => Done')
    BY <1>1 DEF QueueGrows, InQueue, Done
  <1>3. WorkersStay
    <2>1. CASE CloseCancel(c)
      BY <2>1 DEF CloseCancel, Become, WorkerTypeOK, WorkerState, WorkersStay
    <2>2. CASE ~CloseCancel(c)
      BY <2>2 DEF CloseStep, CloseGet, CloseRelease, CloseStopQueued, CloseRemove,
                  CloseRemoveFails, CloseMark, WorkersStay
    <2> QED BY <2>1, <2>2
  <1>4. CASE CloseRelease(c)
    <2>1. closer[c].task \in Tasks /\ ReleaseSlot(closer[c].task)
      BY <1>4 DEF CloseRelease
    <2>2. \A t \in Tasks : SlotKept(t)
      BY <1>1, <2>1, FreedSlot DEF SlotKept, SenderOn
    <2> QED BY <1>2, <1>3, <2>2, ClientKeepsSlotInv
  <1>5. CASE ~CloseRelease(c)
    <2>1. UNCHANGED <<busy, message>>
      BY <1>5 DEF CloseStep, CloseGet, CloseCancel, CloseStopQueued, CloseRemove,
                  CloseRemoveFails, CloseMark, slotVars
    <2>2. \A t \in Tasks : SlotKept(t)
      BY <1>1, <2>1 DEF SlotKept, SenderOn
    <2> QED BY <1>2, <1>3, <2>2, ClientKeepsSlotInv
  <1> QED BY <1>4, <1>5

(* Submissions and recovery only add to the queue. *)
LEMMA SubmitKeepsSlots ==
    ASSUME TypeOK, SlotInv, NEW t \in Tasks, SubmitStep(t) \/ RecoverNext(t)
    PROVE  SlotInv'
  <1>1. UNCHANGED <<busy, message, sender, worker, phase>>
    BY DEF SubmitStep, SubmitCheck, SubmitAdd, SubmitEnqueue, SubmitFull, SubmitFail,
           RecoverNext, slotVars, clientVars, procVars
  <1>2. QueueGrows
    <2>1. CASE queue' = Append(queue, t)
      BY <2>1, AppendKeepsQueue
    <2>2. CASE UNCHANGED queue
      BY <2>2 DEF QueueGrows, InQueue
    <2> QED BY <2>1, <2>2 DEF SubmitStep, SubmitCheck, SubmitAdd, SubmitEnqueue, SubmitFull,
               SubmitFail, RecoverNext, slotVars
  <1>3. WorkersStay /\ (Done => Done')
    BY <1>1 DEF WorkersStay, Done
  <1>4. \A u \in Tasks : SlotKept(u)
    BY <1>1 DEF SlotKept, SenderOn
  <1> QED BY <1>2, <1>3, <1>4, ClientKeepsSlotInv

-----------------------------------------------------------------------------
(* The three worker steps that move a slot on.                             *)

(* A queue entry becomes a worker that has picked the task. *)
LEMMA PopKeepsSlots ==
    ASSUME TypeOK, SlotInv, NEW w \in Workers, Pop(w)
    PROVE  SlotInv'
  <1> USE DEF TypeOK
  <1> DEFINE r == [worker[w] EXCEPT !.pc = "picked", !.task = Head(queue)]
  <1>1. /\ worker[w].pc = "idle" /\ worker[w].msg = NoMessage
        /\ queue \in Seq(Tasks) /\ queue # <<>> /\ queue' = Tail(queue)
        /\ UNCHANGED <<busy, message, sender, phase>>
    BY DEF Pop, SlotTypeOK, SlotInv, NoMessagePcs, clientVars, procVars
  <1>2. Become(w, r)
    BY DEF Pop
  <1>3. r.pc = "picked" /\ r.task = Head(queue) /\ r.msg = NoMessage
    BY <1>1 DEF WorkerTypeOK, WorkerState
  <1>4. /\ worker'[w].pc = "picked" /\ worker'[w].task = Head(queue) /\ worker'[w].msg = NoMessage
        /\ \A v \in Workers \ {w} : worker'[v] = worker[v]
    BY <1>2, <1>3, PutFields
  <1>5. \A t \in Tasks : message'[t] # NoMessage => t \in busy'
    BY <1>1 DEF SlotInv
  <1>6. \A v \in Workers : worker'[v].pc \in NoMessagePcs => worker'[v].msg = NoMessage
    BY <1>4 DEF SlotInv
  <1>7. ASSUME NEW t \in Tasks, t \in busy', ~Done'
        PROVE  IF message'[t] = NoMessage THEN ContinuationOn(t)'
               ELSE SenderOn(t, {"reserved", "undo"})' \/ InQueue(t)' \/ WorkerOn(t, {"picked"})'
    <2>1. IF message[t] = NoMessage THEN ContinuationOn(t)
          ELSE SenderOn(t, {"reserved", "undo"}) \/ InQueue(t) \/ WorkerOn(t, {"picked"})
      BY <1>1, <1>7 DEF SlotInv, Done
    <2>2. ContinuationOn(t) => ContinuationOn(t)'
      BY <1>1, <1>4 DEF ContinuationOn
    <2>3. SenderOn(t, {"reserved", "undo"}) => SenderOn(t, {"reserved", "undo"})'
      BY <1>1 DEF SenderOn
    <2>4. WorkerOn(t, {"picked"}) => WorkerOn(t, {"picked"})'
      BY <1>1, <1>4 DEF WorkerOn
    <2>5. InQueue(t) => InQueue(t)' \/ WorkerOn(t, {"picked"})'
      <3> SUFFICES ASSUME NEW i \in 1..Len(queue), queue[i] = t
                   PROVE  InQueue(t)' \/ WorkerOn(t, {"picked"})'
        BY DEF InQueue
      <3>1. CASE i = 1
        <4>1. Head(queue) = t
          BY <1>1, <3>1
        <4> QED BY <1>4, <4>1 DEF WorkerOn
      <3>2. CASE i # 1
        <4>1. i - 1 \in 1..Len(queue') /\ queue'[i - 1] = t
          BY <1>1, <3>2
        <4> QED BY <4>1 DEF InQueue
      <3> QED BY <3>1, <3>2
    <2> QED BY <1>1, <2>1, <2>2, <2>3, <2>4, <2>5
  <1> QED BY <1>5, <1>6, <1>7 DEF SlotInv

(* takeQueuedMessage turns the waiting message into the worker's own. *)
LEMMA TakeKeepsSlots ==
    ASSUME TypeOK, SlotInv, NEW w \in Workers, TakeMessage(w)
    PROVE  SlotInv'
  <1> USE DEF TypeOK
  <1>1. /\ worker[w].pc = "picked" /\ worker[w].msg = NoMessage /\ worker[w].task \in Tasks
        /\ UNCHANGED <<busy, queue, sender, phase>>
    BY DEF TakeMessage, WorkerTypeOK, SlotInv, NoMessagePcs, clientVars, procVars
  <1> PICK u \in Tasks : u = worker[w].task
    BY <1>1
  <1>2. /\ worker'[w].task = u /\ worker'[w].msg = message[u] /\ message'[u] = NoMessage
        /\ \A t \in Tasks \ {u} : message'[t] = message[t]
        /\ \A v \in Workers \ {w} : worker'[v] = worker[v]
        /\ worker'[w].pc \in {"contCheck", "taskCheck"}
        /\ worker'[w].pc = "taskCheck" => message[u] = NoMessage
    <2>1. CASE message[u] # NoMessage
      <3> DEFINE r == [worker[w] EXCEPT !.pc = "contCheck", !.msg = message[u]]
      <3>1. Become(w, r) /\ message' = [message EXCEPT ![u] = NoMessage]
        BY <2>1 DEF TakeMessage
      <3>2. r.pc = "contCheck" /\ r.task = u /\ r.msg = message[u]
        BY DEF WorkerTypeOK, WorkerState
      <3> QED BY <3>1, <3>2, PutFields DEF SlotTypeOK
    <2>2. CASE message[u] = NoMessage
      <3>1. Goto(w, "taskCheck") /\ UNCHANGED message
        BY <2>2 DEF TakeMessage
      <3> QED BY <1>1, <2>2, <3>1, MoveFields DEF WorkerPcs, StartPcs
    <2> QED BY <2>1, <2>2
  <1>3. \A t \in Tasks : message'[t] # NoMessage => t \in busy'
    BY <1>1, <1>2 DEF SlotInv
  <1>4. \A v \in Workers : worker'[v].pc \in NoMessagePcs => worker'[v].msg = NoMessage
    BY <1>2 DEF SlotInv, NoMessagePcs
  <1>5. ASSUME NEW t \in Tasks, t \in busy', ~Done'
        PROVE  IF message'[t] = NoMessage THEN ContinuationOn(t)'
               ELSE SenderOn(t, {"reserved", "undo"})' \/ InQueue(t)' \/ WorkerOn(t, {"picked"})'
    <2>1. IF message[t] = NoMessage THEN ContinuationOn(t)
          ELSE SenderOn(t, {"reserved", "undo"}) \/ InQueue(t) \/ WorkerOn(t, {"picked"})
      BY <1>1, <1>5 DEF SlotInv, Done
    <2>2. ContinuationOn(t) => ContinuationOn(t)'
      BY <1>1, <1>2 DEF ContinuationOn
    <2>3. CASE t = u
      BY <1>2, <2>1, <2>2, <2>3 DEF ContinuationOn
    <2>4. CASE t # u
      <3>1. SenderOn(t, {"reserved", "undo"}) => SenderOn(t, {"reserved", "undo"})'
        BY <1>1 DEF SenderOn
      <3>2. InQueue(t) => InQueue(t)'
        BY <1>1 DEF InQueue
      <3>3. WorkerOn(t, {"picked"}) => WorkerOn(t, {"picked"})'
        BY <1>2, <2>4 DEF WorkerOn
      <3> QED BY <1>2, <2>1, <2>2, <2>4, <3>1, <3>2, <3>3
    <2> QED BY <2>3, <2>4
  <1> QED BY <1>3, <1>4, <1>5 DEF SlotInv

(* The end of a continuation frees the slot. *)
LEMMA ReleaseKeepsSlots ==
    ASSUME TypeOK, SlotInv, NEW w \in Workers, Release(w)
    PROVE  SlotInv'
  <1> USE DEF TypeOK
  <1>1. /\ worker[w].pc = "release" /\ worker[w].task \in Tasks
        /\ UNCHANGED <<sender, phase>>
        /\ ReleaseSlot(worker[w].task) /\ Become(w, IdleWorker)
    BY DEF Release, WorkerTypeOK, clientVars, procVars
  <1> PICK u \in Tasks : u = worker[w].task
    BY <1>1
  <1>2. /\ worker'[w] = IdleWorker
        /\ \A v \in Workers \ {w} : worker'[v] = worker[v]
    BY <1>1, PutFields
  <1>3. /\ u \notin busy' /\ message'[u] = NoMessage /\ UNCHANGED queue
        /\ \A t \in Tasks \ {u} : (t \in busy' <=> t \in busy) /\ message'[t] = message[t]
    BY <1>1, FreedSlot
  <1>4. \A t \in Tasks : message'[t] # NoMessage => t \in busy'
    BY <1>3 DEF SlotInv
  <1>5. \A v \in Workers : worker'[v].pc \in NoMessagePcs => worker'[v].msg = NoMessage
    BY <1>2 DEF SlotInv, IdleWorker
  <1>6. ASSUME NEW t \in Tasks, t \in busy', ~Done'
        PROVE  IF message'[t] = NoMessage THEN ContinuationOn(t)'
               ELSE SenderOn(t, {"reserved", "undo"})' \/ InQueue(t)' \/ WorkerOn(t, {"picked"})'
    <2>1. t # u
      BY <1>3, <1>6
    <2>2. IF message[t] = NoMessage THEN ContinuationOn(t)
          ELSE SenderOn(t, {"reserved", "undo"}) \/ InQueue(t) \/ WorkerOn(t, {"picked"})
      BY <1>1, <1>3, <1>6, <2>1 DEF SlotInv, Done
    <2>3. ContinuationOn(t) => ContinuationOn(t)'
      BY <1>2, <2>1 DEF ContinuationOn
    <2>4. SenderOn(t, {"reserved", "undo"}) => SenderOn(t, {"reserved", "undo"})'
      BY <1>1 DEF SenderOn
    <2>5. InQueue(t) => InQueue(t)'
      BY <1>3 DEF InQueue
    <2>6. WorkerOn(t, {"picked"}) => WorkerOn(t, {"picked"})'
      BY <1>1, <1>2 DEF WorkerOn
    <2> QED BY <1>3, <2>1, <2>2, <2>3, <2>4, <2>5, <2>6
  <1> QED BY <1>4, <1>5, <1>6 DEF SlotInv

(* SlotInv is preserved by every step. *)
LEMMA SlotInvStep ==
    ASSUME TypeOK, SlotInv, [Next]_vars
    PROVE  SlotInv'
  <1>1. ASSUME NEW w \in Workers, DispatchStep(w)
        PROVE  SlotInv'
    BY <1>1, PopKeepsSlots, TakeKeepsSlots, DispatchSlots, QuietKeepsSlotInv
  <1>2. ASSUME NEW w \in Workers, DockerStep(w) \/ Deadline(w)
        PROVE  SlotInv'
    BY <1>2, DockerSlots, QuietKeepsSlotInv
  <1>3. ASSUME NEW w \in Workers, FinishStep(w)
        PROVE  SlotInv'
    BY <1>3, ReleaseKeepsSlots, FinishSlots, QuietKeepsSlotInv
  <1>4. CASE \/ ClearResults \/ CancelAllRuns \/ CloseDone \/ GraceOver \/ UNCHANGED vars
             \/ \E t \in Tasks : ForceRemove(t)
    <2>1. UNCHANGED <<queue, busy, message, sender>>
      BY <1>4 DEF ClearResults, CancelAllRuns, CloseDone, GraceOver, ForceRemove, vars, slotVars, clientVars
    <2>2. WorkersStay
      BY <1>4 DEF ClearResults, CancelAllRuns, CloseDone, GraceOver, ForceRemove, vars, WorkersStay, TypeOK,
                  WorkerTypeOK, WorkerState
    <2>3. Done => Done'
      BY <1>4 DEF ClearResults, CancelAllRuns, CloseDone, GraceOver, ForceRemove, vars, procVars, Serving, Done
    <2>4. QueueGrows
      BY <2>1 DEF QueueGrows, InQueue
    <2>5. \A t \in Tasks : SlotKept(t)
      BY <2>1 DEF SlotKept, SenderOn
    <2> QED BY <2>2, <2>3, <2>4, <2>5, ClientKeepsSlotInv
  <1>5. CASE CloseReturns \/ Restart
    <2>1. /\ busy' = {} /\ message' = [t \in Tasks |-> NoMessage]
          /\ \E pc : worker' = [w \in Workers |-> [IdleWorker EXCEPT !.pc = pc]]
      BY <1>5 DEF CloseReturns, Restart, ProcessGone
    <2> QED BY <2>1 DEF SlotInv, IdleWorker
  <1> QED BY <1>1, <1>2, <1>3, <1>4, <1>5, SubmitKeepsSlots, SendKeepsSlots, CloseKeepsSlots
          DEF Next

(* A task that answers 409 always has a handler, a queue entry or a worker *)
(* that will free its slot (reserveTaskMessage, releaseTaskSlot).          *)
THEOREM ReservationsNotLeaked == Spec => []NoLeakedReservation
  <1>1. Init => SlotInv
    BY DEF Init, SlotInv, IdleWorker, NoMessagePcs
  <1>2. TypeOK /\ SlotInv /\ [Next]_vars => SlotInv'
    BY SlotInvStep
  <1>3. SlotInv => NoLeakedReservation
    BY DEF SlotInv, NoLeakedReservation
  <1> QED BY <1>1, <1>2, <1>3, TypeCorrect, PTL DEF Spec

-----------------------------------------------------------------------------
(* Queued tasks.                                                           *)

Present(t) == task[t].status # "absent"

(* The task has begun: no continuation of it can find it queued. *)
Started(t) == task[t].status \notin {"absent", "queued"}

(* Messages and recovery exclude each other: a restart forgets every       *)
(* message, and takes new ones only once all tasks are recovered.          *)
MessageInv ==
    /\ \A s \in Senders :
          sender[s].pc \in {"checked", "reserved"} => Started(sender[s].task) /\ recover = {}
    /\ \A t \in Tasks : message[t] # NoMessage => Started(t) /\ recover = {}
    /\ \A w \in Workers :
          worker[w].pc = "contCheck" => Started(worker[w].task) /\ recover = {}

ClosingPcs == {"cancel", "release", "stop", "rm", "mark"}

(* Whatever works on a task works on a record that exists; a task that is  *)
(* still to be submitted has none.                                         *)
PresentInv ==
    /\ \A t \in Tasks : submit[t] \in {"new", "checked"} => task[t] = NoRecord
    /\ \A t \in Tasks : submit[t] \in {"added", "full"} => Present(t)
    /\ \A t \in Tasks : InQueue(t) => Present(t)
    /\ \A t \in recover : Present(t)
    /\ \A w \in Workers : worker[w].pc \notin {"idle", "exited"} => Present(worker[w].task)
    /\ \A c \in Closers : closer[c].pc \in ClosingPcs => Present(closer[c].task)

QueueInv == MessageInv /\ PresentInv /\ QueuedTaskOwned

(* No record disappears, and none is queued that was not. *)
StatusKept(t) ==
    /\ task[t].status # "absent" => task'[t].status # "absent"
    /\ task'[t].status = "queued" => task[t].status = "queued"

(* What the mutations do to a record that exists, or does not. *)
LEMMA RecordPresence ==
    ASSUME NEW r \in Record
    PROVE  /\ r.status # "absent" => MarkContainerClosed(r).status \notin {"absent", "queued"}
           /\ r.status # "absent" => MarkRecovered(r).status # "absent"
           /\ r.status # "absent" => ClearResult(r).status # "absent"
           /\ ClearResult(r).status = "queued" => r.status = "queued"
  <1>1. r.status # "absent" => MarkContainerClosed(r).status \notin {"absent", "queued"}
    BY DEF Record, Status, MarkContainerClosed
  <1>2. r.status # "absent" => MarkRecovered(r).status # "absent"
    BY DEF Record, MarkRecovered
  <1>3. /\ r.status # "absent" => ClearResult(r).status # "absent"
        /\ ClearResult(r).status = "queued" => r.status = "queued"
    BY DEF Record, ClearResult
  <1> QED
    BY <1>1, <1>2, <1>3

(* An absent record stays what it is. *)
LEMMA AbsentStays == ClearResult(NoRecord) = NoRecord /\ Reloaded(NoRecord) = NoRecord
  <1>1. NoRecord.flag = FALSE /\ NoRecord.status = "absent"
    BY DEF NoRecord
  <1>2. ClearResult(NoRecord) = NoRecord
    <2>1. NoRecord \in Record
      BY DEF NoRecord, Record, Status, Steps
    <2>2. [NoRecord EXCEPT !.flag = FALSE] = NoRecord
      BY <1>1, <2>1 DEF Record
    <2>3. [NoRecord EXCEPT !.status = "absent"] = NoRecord
      BY <1>1, <2>1 DEF Record
    <2> QED
      BY <1>1, <2>1, <2>2, <2>3 DEF ClearResult, Record
  <1>3. Reloaded(NoRecord) = NoRecord
    BY <1>1 DEF Reloaded, Loaded
  <1> QED
    BY <1>2, <1>3

-----------------------------------------------------------------------------
(* Worker steps other than Pop and TakeMessage.                            *)

(* The part of such a step outside the worker. *)
RecordKept(w) ==
    /\ UNCHANGED <<queue, phase, recover, submit, sender, closer, dropped>>
    /\ \A t \in Tasks : message'[t] \in {message[t], NoMessage}
    /\ worker[w].pc \in {"idle", "exited"} => UNCHANGED task
    /\ \A t \in Tasks \ {worker[w].task} : task'[t] = task[t]
    /\ \A t \in Tasks : StatusKept(t)

(* A worker about to run its task goes on, or the task is not queued.      *)
OwnKept(w) ==
    /\ RecordKept(w)
    /\ \A v \in Workers \ {w} : worker'[v] = worker[v]
    /\ \/ worker'[w].pc \in {"idle", "exited"}
       \/ worker'[w].task = worker[w].task /\ worker[w].pc \notin {"idle", "exited"}
    /\ worker'[w].pc = "contCheck" => worker[w].pc = "contCheck"
    /\ worker[w].pc \in {"picked", "taskCheck", "mark"} =>
          \/ worker'[w].pc \in {"picked", "taskCheck", "mark"} /\ worker'[w].task = worker[w].task
          \/ task'[worker[w].task].status # "queued"
          \/ Done

LEMMA UnchangedRecordKept ==
    ASSUME NEW w \in Workers, UNCHANGED <<task, queue, message>>,
           UNCHANGED <<phase, recover, submit, sender, closer, dropped>>
    PROVE  RecordKept(w)
  BY DEF RecordKept, StatusKept

(* A step that stores a record with another status than queued. *)
LEMMA StoredRecordKept ==
    ASSUME TypeOK, NEW w \in Workers, NEW r, worker[w].pc \notin {"idle", "exited"},
           Update(worker[w].task, r), r.status \notin {"absent", "queued"},
           UNCHANGED <<queue, message>>,
           UNCHANGED <<phase, recover, submit, sender, closer, dropped>>
    PROVE  RecordKept(w) /\ task'[worker[w].task].status # "queued"
  <1>1. worker[w].task \in Tasks
    BY DEF TypeOK, WorkerTypeOK
  <1>2. /\ task'[worker[w].task] = r
        /\ \A t \in Tasks \ {worker[w].task} : task'[t] = task[t]
    BY <1>1, StoredRecord DEF TypeOK
  <1> QED
    BY <1>2 DEF RecordKept, StatusKept

(* A step inside a run, whatever it stores under the status the task has.  *)
LEMMA OwnMove ==
    ASSUME TypeOK, NEW w \in Workers, NEW pc \in WorkerPcs \ {"contCheck"}, Goto(w, pc),
           RecordKept(w), worker[w].pc \notin {"idle", "exited", "picked", "taskCheck", "mark"}
    PROVE  OwnKept(w)
  BY MoveFields DEF TypeOK, OwnKept

LEMMA DispatchOwn ==
    ASSUME TypeOK, QueueInv, NEW w \in Workers, DispatchStep(w), ~Pop(w), ~TakeMessage(w)
    PROVE  OwnKept(w)
  <1> USE DEF TypeOK
  <1>1. CASE Exit(w)
    <2>1. RecordKept(w)
      BY <1>1, UnchangedRecordKept DEF Exit, slotVars, clientVars, procVars
    <2>2. worker'[w].pc = "exited" /\ \A v \in Workers \ {w} : worker'[v] = worker[v]
      BY <1>1, MoveFields DEF Exit, WorkerPcs
    <2> QED
      BY <1>1, <2>1, <2>2 DEF Exit, OwnKept
  <1>2. CASE TaskCheck(w)
    <2>1. RecordKept(w) /\ UNCHANGED task
      BY <1>2, UnchangedRecordKept DEF TaskCheck, slotVars, clientVars, procVars
    <2>2. worker[w].pc = "taskCheck"
      BY <1>2 DEF TaskCheck
    <2>3. CASE Goto(w, "mark")
      BY <2>1, <2>2, <2>3, MoveFields DEF OwnKept, WorkerPcs, StartPcs
    <2>4. CASE Become(w, IdleWorker) /\ task[worker[w].task].status # "queued"
      BY <2>1, <2>2, <2>4, PutFields DEF OwnKept, IdleWorker
    <2> QED
      BY <1>2, <2>3, <2>4 DEF TaskCheck
  <1>3. CASE ContCheck(w)
    <2>1. RecordKept(w)
      BY <1>3, UnchangedRecordKept DEF ContCheck, slotVars, clientVars, procVars
    <2>2. worker[w].pc = "contCheck" /\ \E pc \in {"mark", "release"} : Goto(w, pc)
      BY <1>3 DEF ContCheck
    <2> QED
      BY <2>1, <2>2, OwnMove DEF WorkerPcs, StartPcs
  <1>4. CASE BeginRun(w)
    <2> DEFINE r == MarkRunning(task[worker[w].task])
    <2>1. worker[w].pc = "mark" /\ Update(worker[w].task, r)
      BY <1>4 DEF BeginRun
    <2>2. r.status = "running"
      <3>1. task[worker[w].task] \in Record
        BY <2>1 DEF WorkerTypeOK, DataTypeOK
      <3> QED
        BY <3>1, RecordStatus
    <2>3. UNCHANGED <<queue, message, phase, recover, submit, sender, closer, dropped>>
      BY <1>4 DEF BeginRun, slotVars, clientVars, procVars
    <2> HIDE DEF r
    <2>4. RecordKept(w) /\ task'[worker[w].task].status # "queued"
      BY <2>1, <2>2, <2>3, StoredRecordKept
    <2>5. /\ worker'[w].pc = "register" /\ worker'[w].task = worker[w].task
          /\ \A v \in Workers \ {w} : worker'[v] = worker[v]
      BY <1>4, MoveFields DEF BeginRun, WorkerPcs, StartPcs
    <2> QED
      BY <2>1, <2>4, <2>5 DEF OwnKept
  <1>5. CASE Register(w)
    <2> DEFINE r == [worker[w] EXCEPT
                    !.pc = IF worker[w].msg = NoMessage THEN "start" ELSE "hint",
                    !.ctx = IF Done THEN "dead" ELSE "live"]
    <2>1. RecordKept(w)
      BY <1>5, UnchangedRecordKept DEF Register, slotVars, clientVars, procVars
    <2>2. worker[w].pc = "register" /\ Become(w, r)
      BY <1>5 DEF Register
    <2>3. r.pc \in {"start", "hint"} /\ r.task = worker[w].task
      BY DEF WorkerTypeOK, WorkerState
    <2> QED
      BY <2>1, <2>2, <2>3, PutFields DEF OwnKept
  <1> QED
    BY <1>1, <1>2, <1>3, <1>4, <1>5 DEF DispatchStep

LEMMA DockerOwn ==
    ASSUME TypeOK, QueueInv, NEW w \in Workers, DockerStep(w) \/ Deadline(w)
    PROVE  OwnKept(w)
  <1> USE DEF TypeOK
  <1>1. UNCHANGED <<queue, message, phase, recover, submit, sender, closer, dropped>>
    BY DEF DockerStep, Deadline, StartContainer, StartFails, SinkContainer, StartHint, HintFails,
           AgentSession, AgentExits, AgentFails, AgentCancelled, CancelledRemove, slotVars,
           clientVars, procVars
  <1>2. CASE Deadline(w)
    <2> DEFINE r == [worker[w] EXCEPT !.ctx = "dead"]
    <2>1. Become(w, r) /\ UNCHANGED task
      BY <1>2 DEF Deadline
    <2>2. r.pc = worker[w].pc /\ r.task = worker[w].task
      BY DEF WorkerTypeOK, WorkerState
    <2>3. RecordKept(w)
      BY <1>1, <2>1, UnchangedRecordKept
    <2> QED
      BY <2>1, <2>2, <2>3, PutFields DEF OwnKept
  <1>3. ASSUME NEW result \in {"solved", "zero", "nonzero"}, AgentExits(w, result)
        PROVE  OwnKept(w)
    <2> DEFINE r == [worker[w] EXCEPT !.pc = IF result = "zero" THEN "round" ELSE "check",
                                      !.result = result]
    <2>1. Become(w, r) /\ worker[w].pc = "agent" /\ UNCHANGED task
      BY <1>3 DEF AgentExits
    <2>2. r.pc \in {"round", "check"} /\ r.task = worker[w].task
      BY DEF WorkerTypeOK, WorkerState
    <2>3. RecordKept(w)
      BY <1>1, <2>1, UnchangedRecordKept
    <2> QED
      BY <2>1, <2>2, <2>3, PutFields DEF OwnKept
  <1>4. CASE AgentSession(w) \/ SinkContainer(w)
    <2>1. worker[w].pc \in {"agent", "sink"} /\ worker[w].task \in Tasks
      BY <1>4 DEF AgentSession, SinkContainer, WorkerTypeOK
    <2>2. task[worker[w].task] \in Record
      BY <2>1 DEF DataTypeOK
    <2>3. \E r : Update(worker[w].task, r) /\ r.status = task[worker[w].task].status
      BY <1>4, <2>2, RecordStatus DEF AgentSession, SinkContainer
    <2>4. /\ task'[worker[w].task].status = task[worker[w].task].status
          /\ \A t \in Tasks \ {worker[w].task} : task'[t] = task[t]
      BY <2>1, <2>3, StoredRecord
    <2>5. RecordKept(w)
      BY <1>1, <2>1, <2>4 DEF RecordKept, StatusKept
    <2>6. CASE AgentSession(w)
      BY <2>1, <2>5, <2>6 DEF AgentSession, OwnKept
    <2>7. CASE SinkContainer(w)
      BY <2>1, <2>5, <2>7, OwnMove DEF SinkContainer, WorkerPcs, DockerPcs
    <2> QED
      BY <1>4, <2>6, <2>7
  <1>5. CASE \/ StartContainer(w) \/ StartFails(w) \/ StartHint(w)
             \/ HintFails(w) \/ AgentFails(w) \/ AgentCancelled(w) \/ CancelledRemove(w)
    <2>1. PICK pc \in DockerPcs \cup {"failCheck"} : Goto(w, pc)
      BY <1>5 DEF StartContainer, StartFails, StartHint, HintFails, AgentFails,
                  AgentCancelled, CancelledRemove, DockerPcs
    <2>2. pc \in WorkerPcs \ {"contCheck"}
      BY <2>1 DEF WorkerPcs, DockerPcs, FinishPcs
    <2>3. worker[w].pc \in DockerPcs /\ UNCHANGED task
      BY <1>5 DEF StartContainer, StartFails, StartHint, HintFails, AgentFails,
                  AgentCancelled, CancelledRemove, DockerPcs
    <2>4. RecordKept(w)
      BY <1>1, <2>3, UnchangedRecordKept
    <2> QED
      BY <2>1, <2>2, <2>3, <2>4, OwnMove DEF DockerPcs
  <1> QED
    BY <1>2, <1>3, <1>4, <1>5 DEF DockerStep

LEMMA FinishOwn ==
    ASSUME TypeOK, QueueInv, NEW w \in Workers, FinishStep(w)
    PROVE  OwnKept(w)
  <1> USE DEF TypeOK
  <1>1. UNCHANGED <<queue, phase, recover, submit, sender, closer, dropped>>
    BY DEF FinishStep, NextRound, StopCheck, StoreResult, RemoveSolved, FailCheck, FailRun,
           ClearCancel, Release, ReleaseSlot, slotVars, clientVars, procVars
  <1>2. CASE NextRound(w)
    <2> DEFINE r == [worker[w] EXCEPT !.pc = "hint", !.round = worker[w].round + 1]
    <2>1. r.pc = "hint" /\ r.task = worker[w].task
      BY DEF WorkerTypeOK, WorkerState
    <2>2. worker[w].pc = "round" /\ RecordKept(w)
      BY <1>1, <1>2, UnchangedRecordKept DEF NextRound, slotVars
    <2>3. CASE Become(w, r)
      BY <2>1, <2>2, <2>3, PutFields DEF OwnKept
    <2>4. CASE \E pc \in {"check", "failCheck"} : Goto(w, pc)
      BY <2>2, <2>4, OwnMove DEF WorkerPcs, FinishPcs
    <2> QED
      BY <1>2, <2>3, <2>4 DEF NextRound
  <1>3. CASE StopCheck(w) \/ RemoveSolved(w) \/ FailCheck(w)
    <2>1. PICK pc \in FinishPcs : Goto(w, pc)
      BY <1>3 DEF StopCheck, RemoveSolved, FailCheck, FinishPcs
    <2>2. pc \in WorkerPcs \ {"contCheck"}
      BY DEF WorkerPcs, FinishPcs
    <2>3. worker[w].pc \in FinishPcs /\ UNCHANGED <<task, message>>
      BY <1>3 DEF StopCheck, RemoveSolved, FailCheck, FinishPcs, slotVars
    <2>4. RecordKept(w)
      BY <1>1, <2>3, UnchangedRecordKept
    <2> QED
      BY <2>1, <2>2, <2>3, <2>4, OwnMove DEF FinishPcs
  <1>4. CASE StoreResult(w) \/ FailRun(w)
    <2>1. worker[w].pc \in {"result", "failMark"} /\ worker[w].task \in Tasks /\ UNCHANGED message
      BY <1>4 DEF StoreResult, FailRun, WorkerTypeOK, slotVars
    <2>2. \E r : Update(worker[w].task, r) /\ r.status \notin {"absent", "queued"}
      <3> DEFINE old == task[worker[w].task]
                 result == worker[w].result
      <3>1. old \in Record
        BY <2>1 DEF DataTypeOK
      <3>2. CASE StoreResult(w)
        <4> DEFINE r == IF result = "zero" THEN MarkCompleted(old, TRUE)
                        ELSE MarkFinished(old, result = "solved", result # "solved")
        <4>1. Update(worker[w].task, r)
          BY <3>2 DEF StoreResult
        <4>2. r.status \notin {"absent", "queued"}
          <5>1. MarkCompleted(old, TRUE).status = "completed"
            BY <3>1, ResultStatus
          <5>2. MarkFinished(old, result = "solved", result # "solved").status
                    \in {"solved", "failed"}
            BY <3>1, ResultStatus
          <5> QED BY <5>1, <5>2
        <4> HIDE DEF r
        <4> QED BY <4>1, <4>2
      <3>3. CASE FailRun(w)
        BY <3>1, <3>3, RecordStatus DEF FailRun
      <3> QED BY <1>4, <3>2, <3>3
    <2>3. PICK pc \in {"solvedRm", "clear"} : Goto(w, pc)
      BY <1>4 DEF StoreResult, FailRun
    <2>4. RecordKept(w)
      BY <1>1, <1>4, <2>1, <2>2, StoredRecordKept DEF StoreResult, FailRun, slotVars
    <2> QED
      BY <2>1, <2>3, <2>4, OwnMove DEF WorkerPcs, FinishPcs
  <1>5. CASE ClearCancel(w)
    <2> DEFINE r == [worker[w] EXCEPT !.pc = "release", !.ctx = "none"]
    <2>1. r.pc = "release" /\ r.task = worker[w].task
      BY DEF WorkerTypeOK, WorkerState
    <2>2. worker[w].pc = "clear" /\ RecordKept(w)
      BY <1>1, <1>5, UnchangedRecordKept DEF ClearCancel, slotVars
    <2>3. CASE Become(w, IdleWorker)
      BY <2>2, <2>3, PutFields DEF OwnKept, IdleWorker
    <2>4. CASE Become(w, r)
      BY <2>1, <2>2, <2>4, PutFields DEF OwnKept
    <2> QED
      BY <1>5, <2>3, <2>4 DEF ClearCancel
  <1>6. CASE Release(w)
    <2>1. /\ worker[w].pc = "release" /\ worker[w].task \in Tasks /\ UNCHANGED task
          /\ ReleaseSlot(worker[w].task) /\ Become(w, IdleWorker)
      BY <1>6 DEF Release, WorkerTypeOK
    <2>2. \A t \in Tasks : message'[t] \in {message[t], NoMessage}
      BY <2>1, FreedSlot
    <2>3. RecordKept(w)
      BY <1>1, <2>1, <2>2 DEF RecordKept, StatusKept
    <2> QED
      BY <2>1, <2>3, PutFields DEF OwnKept, IdleWorker
  <1> QED
    BY <1>2, <1>3, <1>4, <1>5, <1>6 DEF FinishStep

(* A worker that keeps its own task in this sense keeps the others too. *)
LEMMA OwnKeptQueueInv ==
    ASSUME TypeOK, QueueInv, NEW w \in Workers, OwnKept(w)
    PROVE  QueueInv'
  <1>1. \A t \in Tasks : (Present(t) => Present(t)') /\ (Started(t) => Started(t)')
    BY DEF OwnKept, RecordKept, StatusKept, Present, Started
  <1>2. UNCHANGED <<queue, phase, recover, submit, sender, closer, dropped>>
    BY DEF OwnKept, RecordKept
  <1>3. \A t \in Tasks : InQueue(t)' <=> InQueue(t)
    BY <1>2 DEF InQueue
  <1>4. MessageInv'
    <2>1. ASSUME NEW s \in Senders, sender'[s].pc \in {"checked", "reserved"}
          PROVE  Started(sender[s].task)' /\ recover' = {}
      <3>1. sender[s].task \in Tasks
        BY <1>2, <2>1 DEF TypeOK, ClientTypeOK
      <3> QED
        BY <1>1, <1>2, <2>1, <3>1 DEF QueueInv, MessageInv
    <2>2. ASSUME NEW t \in Tasks, message'[t] # NoMessage
          PROVE  Started(t)' /\ recover' = {}
      BY <1>1, <1>2, <2>2 DEF QueueInv, MessageInv, OwnKept, RecordKept
    <2>3. ASSUME NEW v \in Workers, worker'[v].pc = "contCheck"
          PROVE  Started(worker[v].task)' /\ recover' = {}
      <3>1. worker[v].pc = "contCheck" /\ worker'[v].task = worker[v].task
        BY <2>3 DEF OwnKept
      <3>2. worker[v].task \in Tasks
        BY <3>1 DEF TypeOK, WorkerTypeOK
      <3> QED
        BY <1>1, <1>2, <3>1, <3>2 DEF QueueInv, MessageInv, Started
    <2> QED
      BY <1>2, <2>1, <2>2, <2>3 DEF MessageInv, Started
  <1>5. PresentInv'
    <2>1. ASSUME NEW t \in Tasks, submit'[t] \in {"new", "checked"}
          PROVE  task'[t] = NoRecord
      <3>1. task[t] = NoRecord /\ ~Present(t)
        BY <1>2, <2>1 DEF QueueInv, PresentInv, Present, NoRecord
      <3> QED
        BY <3>1 DEF QueueInv, PresentInv, OwnKept, RecordKept
    <2>2. ASSUME NEW v \in Workers, worker'[v].pc \notin {"idle", "exited"}
          PROVE  Present(worker[v].task)'
      <3>1. worker[v].pc \notin {"idle", "exited"} /\ worker'[v].task = worker[v].task
        BY <2>2 DEF OwnKept
      <3>2. worker[v].task \in Tasks
        BY <3>1 DEF TypeOK, WorkerTypeOK
      <3> QED
        BY <1>1, <3>1, <3>2 DEF QueueInv, PresentInv, Present
    <2>3. ASSUME NEW c \in Closers, closer'[c].pc \in ClosingPcs
          PROVE  Present(closer[c].task)'
      <3>1. closer[c].task \in Tasks /\ closer' = closer
        BY <1>2, <2>3 DEF TypeOK, ClientTypeOK, ClosingPcs
      <3> QED
        BY <1>1, <1>2, <2>3, <3>1 DEF QueueInv, PresentInv, Present
    <2>4. \A t \in recover : t \in Tasks
      BY DEF TypeOK, DataTypeOK
    <2> QED
      BY <1>1, <1>2, <1>3, <2>1, <2>2, <2>3, <2>4 DEF QueueInv, PresentInv, Present
  <1>6. QueuedTaskOwned'
    <2> SUFFICES ASSUME NEW t \in Tasks, task'[t].status = "queued", ~Done
                 PROVE  \/ InQueue(t)
                        \/ WorkerOn(t, {"picked", "taskCheck", "mark"})'
                        \/ submit[t] \in {"added", "full"}
                        \/ t \in recover
                        \/ t \in dropped
      BY <1>2, <1>3 DEF QueuedTaskOwned, Done
    <2>1. task[t].status = "queued"
      BY DEF OwnKept, RecordKept, StatusKept
    <2>2. CASE WorkerOn(t, {"picked", "taskCheck", "mark"})
      <3> PICK v \in Workers : worker[v].task = t /\ worker[v].pc \in {"picked", "taskCheck", "mark"}
        BY <2>2 DEF WorkerOn
      <3>1. worker'[v].task = t /\ worker'[v].pc \in {"picked", "taskCheck", "mark"}
        BY DEF OwnKept
      <3> QED
        BY <3>1 DEF WorkerOn
    <2> QED
      BY <2>1, <2>2 DEF QueueInv, QueuedTaskOwned
  <1> QED
    BY <1>4, <1>5, <1>6 DEF QueueInv

-----------------------------------------------------------------------------
(* The two worker steps that move an id on.                                *)

LEMMA PopQueueInv ==
    ASSUME TypeOK, QueueInv, NEW w \in Workers, Pop(w)
    PROVE  QueueInv'
  <1> USE DEF TypeOK
  <1> DEFINE r == [worker[w] EXCEPT !.pc = "picked", !.task = Head(queue)]
  <1>1. /\ worker[w].pc = "idle" /\ queue \in Seq(Tasks) /\ queue # <<>> /\ queue' = Tail(queue)
        /\ UNCHANGED <<task, message, submit, sender, closer, phase, recover, dropped>>
    BY DEF Pop, SlotTypeOK, clientVars, procVars
  <1>2. r.pc = "picked" /\ r.task = Head(queue) /\ Become(w, r)
    BY DEF Pop, WorkerTypeOK, WorkerState
  <1>3. /\ worker'[w].pc = "picked" /\ worker'[w].task = Head(queue)
        /\ \A v \in Workers \ {w} : worker'[v] = worker[v]
    BY <1>2, PutFields
  <1>4. InQueue(Head(queue)) /\ Head(queue) \in Tasks
    <2>1. 1 \in 1..Len(queue) /\ queue[1] = Head(queue)
      BY <1>1
    <2> QED
      BY <1>1, <2>1 DEF InQueue
  <1>5. \A t \in Tasks : InQueue(t)' => InQueue(t)
    <2> SUFFICES ASSUME NEW t \in Tasks, NEW i \in 1..Len(queue'), queue'[i] = t
                 PROVE  InQueue(t)
      BY DEF InQueue
    <2>1. i + 1 \in 1..Len(queue) /\ queue[i + 1] = t
      BY <1>1
    <2> QED
      BY <2>1 DEF InQueue
  <1>6. \A t \in Tasks : InQueue(t) => InQueue(t)' \/ t = Head(queue)
    <2> SUFFICES ASSUME NEW t \in Tasks, NEW i \in 1..Len(queue), queue[i] = t, t # Head(queue)
                 PROVE  InQueue(t)'
      BY DEF InQueue
    <2>1. i # 1
      BY <1>1
    <2>2. i - 1 \in 1..Len(queue') /\ queue'[i - 1] = t
      BY <1>1, <2>1
    <2> QED
      BY <2>2 DEF InQueue
  <1>7. MessageInv'
    BY <1>1, <1>3 DEF QueueInv, MessageInv, Started
  <1>8. PresentInv'
    BY <1>1, <1>3, <1>4, <1>5 DEF QueueInv, PresentInv, Present
  <1>9. QueuedTaskOwned'
    BY <1>1, <1>3, <1>4, <1>6 DEF QueueInv, QueuedTaskOwned, WorkerOn, Done
  <1> QED
    BY <1>7, <1>8, <1>9 DEF QueueInv

(* Only a task that has begun has a message to take. *)
LEMMA TakeQueueInv ==
    ASSUME TypeOK, QueueInv, NEW w \in Workers, TakeMessage(w)
    PROVE  QueueInv'
  <1> USE DEF TypeOK
  <1>1. /\ worker[w].pc = "picked" /\ worker[w].task \in Tasks
        /\ UNCHANGED <<task, queue, submit, sender, closer, phase, recover, dropped>>
    BY DEF TakeMessage, WorkerTypeOK, clientVars, procVars
  <1>2. /\ worker'[w].task = worker[w].task
        /\ \A v \in Workers \ {w} : worker'[v] = worker[v]
        /\ \A t \in Tasks : message'[t] \in {message[t], NoMessage}
        /\ \/ worker'[w].pc = "taskCheck"
           \/ worker'[w].pc = "contCheck" /\ message[worker[w].task] # NoMessage
    <2>1. CASE message[worker[w].task] # NoMessage
      <3> DEFINE r == [worker[w] EXCEPT !.pc = "contCheck", !.msg = message[worker[w].task]]
      <3>1. /\ Become(w, r)
            /\ message' = [message EXCEPT ![worker[w].task] = NoMessage]
        BY <2>1 DEF TakeMessage
      <3>2. r.pc = "contCheck" /\ r.task = worker[w].task
        BY DEF WorkerTypeOK, WorkerState
      <3> QED
        BY <2>1, <3>1, <3>2, PutFields DEF SlotTypeOK
    <2>2. CASE message[worker[w].task] = NoMessage
      <3>1. Goto(w, "taskCheck") /\ UNCHANGED message
        BY <2>2 DEF TakeMessage
      <3> QED
        BY <3>1, MoveFields DEF WorkerPcs, StartPcs
    <2> QED
      BY <2>1, <2>2
  <1>3. \A t \in Tasks : InQueue(t)' <=> InQueue(t)
    BY <1>1 DEF InQueue
  <1>4. MessageInv'
    BY <1>1, <1>2 DEF QueueInv, MessageInv, Started
  <1>5. PresentInv'
    BY <1>1, <1>2, <1>3 DEF QueueInv, PresentInv, Present
  <1>6. QueuedTaskOwned'
    <2> SUFFICES ASSUME NEW t \in Tasks, task[t].status = "queued", ~Done,
                        WorkerOn(t, {"picked", "taskCheck", "mark"})
                 PROVE  WorkerOn(t, {"picked", "taskCheck", "mark"})'
      BY <1>1, <1>3 DEF QueueInv, QueuedTaskOwned, Done
    <2>1. PICK v \in Workers : worker[v].task = t /\ worker[v].pc \in {"picked", "taskCheck", "mark"}
      BY DEF WorkerOn
    <2>2. ~Started(t)
      BY DEF Started
    <2>3. message[t] = NoMessage
      BY <2>2 DEF QueueInv, MessageInv
    <2>4. worker'[v].task = t /\ worker'[v].pc \in {"picked", "taskCheck", "mark"}
      BY <1>2, <2>1, <2>3
    <2> QED
      BY <2>4 DEF WorkerOn
  <1> QED
    BY <1>4, <1>5, <1>6 DEF QueueInv

-----------------------------------------------------------------------------
(* Steps of the request handlers and of the process.                       *)

(* No record disappears, and only Submit makes one that is queued. *)
RecordGoesOn(t) ==
    /\ Present(t) => Present(t)'
    /\ task'[t].status = "queued" =>
          task[t].status = "queued" \/ (task[t].status = "absent" /\ submit'[t] = "added")

(* A handler has put the task it submits into the queue, or marks it failed. *)
SubmitGoesOn(t) ==
    /\ submit'[t] \in {"new", "checked"} => task'[t] = NoRecord
    /\ submit'[t] \in {"added", "full"} => Present(t)'
    /\ submit[t] \in {"added", "full"} =>
          \/ submit'[t] \in {"added", "full"}
          \/ InQueue(t)'
          \/ task'[t].status # "queued"

LEMMA ClientQueueInv ==
    ASSUME TypeOK, QueueInv, WorkersStay, QueueGrows, Done => Done', UNCHANGED <<recover, dropped>>,
           \A t \in Tasks : RecordGoesOn(t) /\ SubmitGoesOn(t),
           \A t \in Tasks : InQueue(t)' => InQueue(t) \/ Present(t),
           \A s \in Senders : sender'[s].pc \in {"checked", "reserved"} =>
               sender'[s].task \in Tasks /\ Started(sender'[s].task) /\ recover = {},
           \A t \in Tasks : message'[t] # NoMessage => Started(t) /\ recover = {},
           \A c \in Closers : closer'[c].pc \in ClosingPcs =>
               closer'[c].task \in Tasks /\ Present(closer'[c].task)
    PROVE  QueueInv'
  <1>1. \A t \in Tasks : Started(t) => Started(t)'
    BY DEF RecordGoesOn, Started, Present
  <1>2. MessageInv'
    <2>1. ASSUME NEW v \in Workers, worker'[v].pc = "contCheck"
          PROVE  Started(worker[v].task)' /\ recover' = {}
      <3>1. worker[v].pc = "contCheck" /\ worker'[v].task = worker[v].task
        BY <2>1 DEF WorkersStay
      <3>2. worker[v].task \in Tasks
        BY <3>1 DEF TypeOK, WorkerTypeOK
      <3> QED
        BY <1>1, <3>1, <3>2 DEF QueueInv, MessageInv, Started
    <2> QED
      BY <1>1, <2>1 DEF MessageInv, Started
  <1>3. PresentInv'
    <2>1. ASSUME NEW v \in Workers, worker'[v].pc \notin {"idle", "exited"}
          PROVE  Present(worker[v].task)'
      <3>1. worker[v].pc \notin {"idle", "exited"} /\ worker'[v].task = worker[v].task
        BY <2>1 DEF WorkersStay
      <3>2. worker[v].task \in Tasks
        BY <3>1 DEF TypeOK, WorkerTypeOK
      <3> QED
        BY <3>1, <3>2 DEF QueueInv, PresentInv, RecordGoesOn, Present
    <2>2. \A t \in recover : t \in Tasks
      BY DEF TypeOK, DataTypeOK
    <2>3. \A t \in Tasks : Present(t) => Present(t)'
      BY DEF RecordGoesOn
    <2>4. \A t \in Tasks : InQueue(t)' => Present(t)'
      BY <2>3 DEF QueueInv, PresentInv
    <2> QED
      BY <2>1, <2>2, <2>3, <2>4 DEF QueueInv, PresentInv, SubmitGoesOn, Present
  <1>4. QueuedTaskOwned'
    <2> SUFFICES ASSUME NEW t \in Tasks, task'[t].status = "queued", ~Done'
                 PROVE  \/ InQueue(t)'
                        \/ WorkerOn(t, {"picked", "taskCheck", "mark"})'
                        \/ submit'[t] \in {"added", "full"}
                        \/ t \in recover
                        \/ t \in dropped
      BY DEF QueuedTaskOwned
    <2>1. CASE task[t].status = "queued"
      <3>1. WorkerOn(t, {"picked", "taskCheck", "mark"}) =>
               WorkerOn(t, {"picked", "taskCheck", "mark"})'
        BY DEF WorkersStay, WorkerOn
      <3> QED
        BY <2>1, <3>1 DEF QueueInv, QueuedTaskOwned, QueueGrows, SubmitGoesOn
    <2>2. CASE submit'[t] = "added"
      BY <2>2
    <2> QED
      BY <2>1, <2>2 DEF RecordGoesOn
  <1> QED
    BY <1>2, <1>3, <1>4 DEF QueueInv

(* enqueue adds its task and no other. *)
LEMMA AppendAddsOne ==
    ASSUME TypeOK, NEW t \in Tasks, queue' = Append(queue, t)
    PROVE  \A u \in Tasks : InQueue(u)' => InQueue(u) \/ u = t
  <1> SUFFICES ASSUME NEW u \in Tasks, NEW i \in 1..Len(queue'), queue'[i] = u, u # t
               PROVE  InQueue(u)
    BY DEF InQueue
  <1>1. queue \in Seq(Tasks)
    BY DEF TypeOK, SlotTypeOK
  <1>2. i \in 1..Len(queue) /\ queue[i] = u
    BY <1>1
  <1> QED
    BY <1>2 DEF InQueue

(* What QueueInv says of the handlers that a step leaves alone. *)
LEMMA SendersStarted ==
    ASSUME TypeOK, QueueInv, NEW s \in Senders, sender[s].pc \in {"checked", "reserved"}
    PROVE  sender[s].task \in Tasks /\ Started(sender[s].task) /\ recover = {}
  BY DEF TypeOK, ClientTypeOK, QueueInv, MessageInv

LEMMA ClosersPresent ==
    ASSUME TypeOK, QueueInv, NEW c \in Closers, closer[c].pc \in ClosingPcs
    PROVE  closer[c].task \in Tasks /\ Present(closer[c].task)
  BY DEF TypeOK, ClientTypeOK, QueueInv, PresentInv, ClosingPcs

LEMMA SubmitQueueInv ==
    ASSUME TypeOK, QueueInv, NEW t \in Tasks, SubmitStep(t)
    PROVE  QueueInv'
  <1> USE DEF TypeOK
  <1>1. UNCHANGED <<worker, sender, closer, message, phase, recover, dropped>>
    BY DEF SubmitStep, SubmitCheck, SubmitAdd, SubmitEnqueue, SubmitFull, SubmitFail,
           slotVars, procVars
  <1>2. WorkersStay /\ (Done => Done')
    BY <1>1 DEF WorkersStay, Done
  <1>3. \A u \in Tasks \ {t} : submit'[u] = submit[u] /\ task'[u] = task[u]
    BY DEF SubmitStep, SubmitCheck, SubmitAdd, SubmitEnqueue, SubmitFull, SubmitFail,
           ClientTypeOK, DataTypeOK, Update
  <1>4. /\ QueueGrows
        /\ \A u \in Tasks : InQueue(u)' => InQueue(u) \/ Present(u)
    <2>1. CASE SubmitEnqueue(t)
      <3>1. queue' = Append(queue, t) /\ submit[t] = "added"
        BY <2>1 DEF SubmitEnqueue
      <3>2. Present(t)
        BY <3>1 DEF QueueInv, PresentInv
      <3> QED
        BY <3>1, <3>2, AppendKeepsQueue, AppendAddsOne
    <2>2. CASE ~SubmitEnqueue(t)
      <3>1. UNCHANGED queue
        BY <2>2 DEF SubmitStep, SubmitCheck, SubmitAdd, SubmitFull, SubmitFail, slotVars
      <3> QED
        BY <3>1 DEF QueueGrows, InQueue
    <2> QED
      BY <2>1, <2>2
  <1>5. RecordGoesOn(t) /\ SubmitGoesOn(t)
    <2>1. CASE SubmitCheck(t)
      <3>1. submit[t] = "new" /\ submit'[t] \in {"checked", "rejected"} /\ UNCHANGED task
        BY <2>1 DEF SubmitCheck, ClientTypeOK
      <3> QED
        BY <3>1 DEF QueueInv, PresentInv, RecordGoesOn, SubmitGoesOn, Present
    <2>2. CASE SubmitAdd(t)
      <3>1. submit[t] = "checked" /\ submit'[t] = "added" /\ Update(t, NewRecord)
        BY <2>2 DEF SubmitAdd, ClientTypeOK
      <3>2. task'[t] = NewRecord /\ NewRecord.status = "queued"
        BY <3>1, StoredRecord DEF NewRecord, NoRecord
      <3>3. task[t].status = "absent"
        BY <3>1 DEF QueueInv, PresentInv, NoRecord
      <3> QED
        BY <3>1, <3>2, <3>3 DEF RecordGoesOn, SubmitGoesOn, Present
    <2>3. CASE SubmitEnqueue(t)
      <3>1. /\ submit[t] = "added" /\ submit'[t] = "accepted"
            /\ queue' = Append(queue, t) /\ UNCHANGED task
        BY <2>3 DEF SubmitEnqueue, ClientTypeOK
      <3>2. InQueue(t)'
        BY <3>1, AppendKeepsQueue
      <3> QED
        BY <3>1, <3>2 DEF RecordGoesOn, SubmitGoesOn, Present
    <2>4. CASE SubmitFull(t)
      <3>1. submit[t] = "added" /\ submit'[t] = "full" /\ UNCHANGED task
        BY <2>4 DEF SubmitFull, ClientTypeOK
      <3> QED
        BY <3>1 DEF QueueInv, PresentInv, RecordGoesOn, SubmitGoesOn, Present
    <2>5. CASE SubmitFail(t)
      <3>1. submit[t] = "full" /\ submit'[t] = "rejected" /\ Update(t, MarkFailed(task[t]))
        BY <2>5 DEF SubmitFail, ClientTypeOK
      <3>2. task'[t].status = "failed"
        BY <3>1, StoredRecord, RecordStatus DEF DataTypeOK
      <3> QED
        BY <3>1, <3>2 DEF RecordGoesOn, SubmitGoesOn, Present
    <2> QED
      BY <2>1, <2>2, <2>3, <2>4, <2>5 DEF SubmitStep
  <1>6. \A u \in Tasks : RecordGoesOn(u) /\ SubmitGoesOn(u)
    <2> SUFFICES ASSUME NEW u \in Tasks, u # t
                 PROVE  RecordGoesOn(u) /\ SubmitGoesOn(u)
      BY <1>5
    <2> QED
      BY <1>3 DEF QueueInv, PresentInv, RecordGoesOn, SubmitGoesOn, Present
  <1>7. \A u \in Tasks : message'[u] # NoMessage => Started(u) /\ recover = {}
    BY <1>1 DEF QueueInv, MessageInv
  <1> QED
    BY <1>1, <1>2, <1>4, <1>6, <1>7, SendersStarted, ClosersPresent, ClientQueueInv

(* SendTaskMessage looks only at tasks that have begun, with recovery over. *)
LEMMA SendQueueInv ==
    ASSUME TypeOK, QueueInv, NEW s \in Senders, SendStep(s)
    PROVE  QueueInv'
  <1> USE DEF TypeOK
  <1>1. UNCHANGED <<task, worker, submit, closer, phase, recover, dropped>>
    BY DEF SendStep, SendCheck, SendReserve, SendEnqueue, SendFull, SendUndo, procVars
  <1>2. WorkersStay /\ (Done => Done')
    BY <1>1 DEF WorkersStay, Done
  <1>3. \A t \in Tasks : RecordGoesOn(t) /\ SubmitGoesOn(t)
    BY <1>1 DEF QueueInv, PresentInv, RecordGoesOn, SubmitGoesOn, Present
  <1>4. \A z \in Senders \ {s} : sender'[z] = sender[z]
    BY DEF SendStep, SendCheck, SendReserve, SendEnqueue, SendFull, SendUndo, ClientTypeOK
  <1>5. sender'[s].pc \in {"checked", "reserved"} =>
           sender'[s].task \in Tasks /\ Started(sender'[s].task) /\ recover = {}
    <2>1. CASE \E t \in Tasks : SendCheck(s, t)
      <3>1. PICK t \in Tasks : SendCheck(s, t)
        BY <2>1
      <3>2. sender'[s].task = t /\ recover = {} /\ CanContinue(task[t])
        BY <3>1 DEF SendCheck, ClientTypeOK, Serving
      <3> QED
        BY <3>2 DEF CanContinue, Started
    <2>2. CASE SendReserve(s)
      <3>1. sender[s].pc = "checked" /\ sender'[s].task = sender[s].task
        BY <2>2 DEF SendReserve, ClientTypeOK, SenderState
      <3> QED
        BY <3>1, SendersStarted
    <2>3. CASE SendEnqueue(s) \/ SendFull(s) \/ SendUndo(s)
      BY <2>3 DEF SendEnqueue, SendFull, SendUndo, ClientTypeOK, SenderState
    <2> QED
      BY <2>1, <2>2, <2>3 DEF SendStep
  <1>6. \A z \in Senders : sender'[z].pc \in {"checked", "reserved"} =>
           sender'[z].task \in Tasks /\ Started(sender'[z].task) /\ recover = {}
    BY <1>4, <1>5, SendersStarted
  <1>7. \A t \in Tasks : message'[t] # NoMessage => Started(t) /\ recover = {}
    <2>1. CASE SendReserve(s)
      <3>1. /\ sender[s].pc = "checked"
            /\ \A t \in Tasks \ {sender[s].task} : message'[t] = message[t]
        BY <2>1 DEF SendReserve, SlotTypeOK
      <3>2. Started(sender[s].task) /\ recover = {}
        BY <3>1, SendersStarted
      <3> QED
        BY <3>1, <3>2 DEF QueueInv, MessageInv
    <2>2. CASE SendUndo(s)
      <3>1. \A t \in Tasks : message'[t] \in {message[t], NoMessage}
        BY <2>2 DEF SendUndo, ReleaseSlot, SlotTypeOK
      <3> QED
        BY <3>1 DEF QueueInv, MessageInv
    <2>3. CASE ~SendReserve(s) /\ ~SendUndo(s)
      <3>1. UNCHANGED message
        BY <2>3 DEF SendStep, SendCheck, SendEnqueue, SendFull, slotVars
      <3> QED
        BY <3>1 DEF QueueInv, MessageInv
    <2> QED
      BY <2>1, <2>2, <2>3
  <1>8. /\ QueueGrows
        /\ \A t \in Tasks : InQueue(t)' => InQueue(t) \/ Present(t)
    <2>1. CASE SendEnqueue(s)
      <3>1. sender[s].pc = "reserved" /\ queue' = Append(queue, sender[s].task)
        BY <2>1 DEF SendEnqueue
      <3>2. sender[s].task \in Tasks /\ Present(sender[s].task)
        BY <3>1, SendersStarted DEF Started, Present
      <3> QED
        BY <3>1, <3>2, AppendKeepsQueue, AppendAddsOne
    <2>2. CASE ~SendEnqueue(s)
      <3>1. UNCHANGED queue
        BY <2>2 DEF SendStep, SendCheck, SendReserve, SendFull, SendUndo, ReleaseSlot, slotVars
      <3> QED
        BY <3>1 DEF QueueGrows, InQueue
    <2> QED
      BY <2>1, <2>2
  <1> QED
    BY <1>1, <1>2, <1>3, <1>6, <1>7, <1>8, ClosersPresent, ClientQueueInv

(* A stop request only ends a task. *)
LEMMA CloseQueueInv ==
    ASSUME TypeOK, QueueInv, NEW c \in Closers, CloseStep(c)
    PROVE  QueueInv'
  <1> USE DEF TypeOK
  <1>1. UNCHANGED <<submit, sender, queue, phase, recover, dropped>>
    BY DEF CloseStep, CloseGet, CloseCancel, CloseRelease, CloseStopQueued, CloseRemove,
           CloseRemoveFails, CloseMark, ReleaseSlot, slotVars, procVars
  <1>2. /\ QueueGrows /\ (Done => Done')
        /\ \A t \in Tasks : InQueue(t)' => InQueue(t) \/ Present(t)
    BY <1>1 DEF QueueGrows, InQueue, Done
  <1>3. WorkersStay
    <2>1. CASE CloseCancel(c)
      BY <2>1 DEF CloseCancel, Become, WorkerTypeOK, WorkerState, WorkersStay
    <2>2. CASE ~CloseCancel(c)
      BY <2>2 DEF CloseStep, CloseGet, CloseRelease, CloseStopQueued, CloseRemove,
                  CloseRemoveFails, CloseMark, WorkersStay
    <2> QED
      BY <2>1, <2>2
  <1>4. \A d \in Closers \ {c} : closer'[d] = closer[d]
    BY DEF CloseStep, CloseGet, CloseCancel, CloseRelease, CloseStopQueued, CloseRemove,
           CloseRemoveFails, CloseMark, ClientTypeOK
  <1>5. closer'[c].pc \in ClosingPcs => closer'[c].task \in Tasks /\ Present(closer'[c].task)
    <2>1. CASE \E t \in Tasks : CloseGet(c, t)
      BY <2>1 DEF CloseGet, ClientTypeOK, Present
    <2>2. CASE ~\E t \in Tasks : CloseGet(c, t)
      <3>1. closer[c].pc \in ClosingPcs /\ closer'[c].task = closer[c].task
        BY <2>2 DEF CloseStep, CloseCancel, CloseRelease, CloseStopQueued, CloseRemove,
                    CloseRemoveFails, CloseMark, ClientTypeOK, CloserState, ClosingPcs
      <3> QED
        BY <3>1, ClosersPresent
    <2> QED
      BY <2>1, <2>2
  <1>6. \A t \in Tasks : message'[t] # NoMessage => Started(t) /\ recover = {}
    <2>1. CASE CloseRelease(c)
      <3>1. \A t \in Tasks : message'[t] \in {message[t], NoMessage}
        BY <2>1 DEF CloseRelease, ReleaseSlot, SlotTypeOK
      <3> QED
        BY <3>1 DEF QueueInv, MessageInv
    <2>2. CASE ~CloseRelease(c)
      <3>1. UNCHANGED message
        BY <2>2 DEF CloseStep, CloseGet, CloseCancel, CloseStopQueued, CloseRemove,
                    CloseRemoveFails, CloseMark, slotVars
      <3> QED
        BY <3>1 DEF QueueInv, MessageInv
    <2> QED
      BY <2>1, <2>2
  <1>7. \A t \in Tasks : RecordGoesOn(t) /\ SubmitGoesOn(t)
    <2>1. CASE CloseStopQueued(c) \/ CloseMark(c)
      <3> DEFINE u == closer[c].task
      <3>1. closer[c].pc \in ClosingPcs
        BY <2>1 DEF CloseStopQueued, CloseMark, ClosingPcs
      <3>2. u \in Tasks /\ Present(u) /\ task[u] \in Record
        BY <3>1, ClosersPresent DEF DataTypeOK
      <3>3. \E r : Update(u, r) /\ r.status \notin {"absent", "queued"}
        <4>1. MarkStopped(task[u]).status \notin {"absent", "queued"}
          BY <3>2 DEF Record, MarkStopped
        <4>2. MarkContainerClosed(task[u]).status \notin {"absent", "queued"}
          BY <3>2, RecordPresence DEF Present
        <4> QED
          BY <2>1, <4>1, <4>2 DEF CloseStopQueued, CloseMark
      <3>4. /\ task'[u].status \notin {"absent", "queued"}
            /\ \A t \in Tasks \ {u} : task'[t] = task[t]
        BY <3>2, <3>3, StoredRecord
      <3>5. task[u] # NoRecord
        BY <3>2 DEF Present, NoRecord
      <3> QED
        BY <1>1, <3>4, <3>5 DEF QueueInv, PresentInv, RecordGoesOn, SubmitGoesOn, Present
    <2>2. CASE ~CloseStopQueued(c) /\ ~CloseMark(c)
      <3>1. UNCHANGED task
        BY <2>2 DEF CloseStep, CloseGet, CloseCancel, CloseRelease, CloseRemove, CloseRemoveFails
      <3> QED
        BY <1>1, <3>1 DEF QueueInv, PresentInv, RecordGoesOn, SubmitGoesOn, Present
    <2> QED
      BY <2>1, <2>2
  <1>8. \A d \in Closers : closer'[d].pc \in ClosingPcs =>
           closer'[d].task \in Tasks /\ Present(closer'[d].task)
    BY <1>4, <1>5, ClosersPresent
  <1> QED
    BY <1>1, <1>2, <1>3, <1>6, <1>7, <1>8, SendersStarted, ClientQueueInv

(* The phases of Service.Close, and DELETE of the stored results. *)
LEMMA ProcessQueueInv ==
    ASSUME TypeOK, QueueInv,
           \/ ClearResults \/ CancelAllRuns \/ CloseDone \/ GraceOver \/ UNCHANGED vars
           \/ \E t \in Tasks : ForceRemove(t)
    PROVE  QueueInv'
  <1>1. UNCHANGED <<queue, message, submit, sender, closer, recover, dropped>>
    BY DEF ClearResults, CancelAllRuns, CloseDone, GraceOver, ForceRemove, vars, slotVars,
           clientVars, procVars
  <1>2. WorkersStay
    BY DEF ClearResults, CancelAllRuns, CloseDone, GraceOver, ForceRemove, vars, WorkersStay,
           TypeOK, WorkerTypeOK, WorkerState
  <1>3. Done => Done'
    BY DEF ClearResults, CancelAllRuns, CloseDone, GraceOver, ForceRemove, vars, procVars,
           Serving, Done
  <1>4. QueueGrows /\ \A t \in Tasks : InQueue(t)' => InQueue(t)
    BY <1>1 DEF QueueGrows, InQueue
  <1>5. \A t \in Tasks : RecordGoesOn(t) /\ SubmitGoesOn(t)
    <2>1. CASE ClearResults
      <3> SUFFICES ASSUME NEW t \in Tasks
                   PROVE  RecordGoesOn(t) /\ SubmitGoesOn(t)
        OBVIOUS
      <3>1. task'[t] = ClearResult(task[t]) /\ task[t] \in Record
        BY <2>1 DEF ClearResults, TypeOK, DataTypeOK
      <3>2. /\ task[t].status # "absent" => task'[t].status # "absent"
            /\ task'[t].status = "queued" => task[t].status = "queued"
            /\ task[t] = NoRecord => task'[t] = NoRecord
        BY <3>1, RecordPresence, AbsentStays
      <3> QED
        BY <1>1, <3>2 DEF QueueInv, PresentInv, RecordGoesOn, SubmitGoesOn, Present
    <2>2. CASE UNCHANGED task
      BY <1>1, <2>2 DEF QueueInv, PresentInv, RecordGoesOn, SubmitGoesOn, Present
    <2> QED
      BY <2>1, <2>2 DEF CancelAllRuns, CloseDone, GraceOver, ForceRemove, vars
  <1>6. \A t \in Tasks : message'[t] # NoMessage => Started(t) /\ recover = {}
    BY <1>1 DEF QueueInv, MessageInv
  <1> QED
    BY <1>1, <1>2, <1>3, <1>4, <1>5, <1>6, SendersStarted, ClosersPresent, ClientQueueInv

-----------------------------------------------------------------------------
(* Recovery, the end of the process and its restart.                       *)

(* While a task waits for its recovery nobody has a message. *)
LEMMA RecoverQueueInv ==
    ASSUME TypeOK, QueueInv, NEW t \in Tasks, RecoverNext(t)
    PROVE  QueueInv'
  <1> USE DEF TypeOK
  <1>1. /\ t \in recover /\ recover' = recover \ {t}
        /\ UNCHANGED <<message, worker, submit, sender, closer, phase>>
    BY DEF RecoverNext, clientVars
  <1>2. Present(t) /\ task[t] \in Record
    BY <1>1 DEF QueueInv, PresentInv, DataTypeOK
  <1>3. /\ task'[t] = MarkRecovered(task[t]) /\ Present(t)'
        /\ \A u \in Tasks \ {t} : task'[u] = task[u]
    <2>1. Update(t, MarkRecovered(task[t]))
      BY DEF RecoverNext
    <2>2. /\ task'[t] = MarkRecovered(task[t])
          /\ \A u \in Tasks \ {t} : task'[u] = task[u]
      BY <2>1, StoredRecord
    <2> QED
      BY <1>2, <2>2, RecordPresence DEF Present
  <1>4. \A u \in Tasks : Present(u) => Present(u)'
    BY <1>3 DEF Present
  <1>5. /\ QueueGrows /\ dropped \subseteq dropped'
        /\ InQueue(t)' \/ t \in dropped'
        /\ \A u \in Tasks : InQueue(u)' => InQueue(u) \/ u = t
    <2>1. CASE queue' = Append(queue, t) /\ UNCHANGED dropped
      BY <2>1, AppendKeepsQueue, AppendAddsOne
    <2>2. CASE dropped' = dropped \cup {t} /\ UNCHANGED queue
      BY <2>2 DEF QueueGrows, InQueue
    <2> QED
      BY <2>1, <2>2 DEF RecoverNext
  <1>6. MessageInv'
    BY <1>1 DEF QueueInv, MessageInv
  <1>7. PresentInv'
    <2>1. ASSUME NEW u \in Tasks, submit[u] \in {"new", "checked"}
          PROVE  task'[u] = NoRecord
      <3>1. task[u] = NoRecord
        BY <2>1 DEF QueueInv, PresentInv
      <3>2. u # t
        BY <1>2, <3>1 DEF Present, NoRecord
      <3> QED
        BY <1>3, <3>1, <3>2
    <2>2. ASSUME NEW v \in Workers, worker[v].pc \notin {"idle", "exited"}
          PROVE  Present(worker[v].task)'
      <3>1. worker[v].task \in Tasks
        BY <2>2 DEF WorkerTypeOK
      <3> QED
        BY <1>1, <1>4, <2>2, <3>1 DEF QueueInv, PresentInv, Present
    <2>3. ASSUME NEW c \in Closers, closer[c].pc \in ClosingPcs
          PROVE  Present(closer[c].task)'
      BY <1>1, <1>4, <2>3, ClosersPresent DEF Present
    <2>4. \A u \in recover : u \in Tasks
      BY DEF DataTypeOK
    <2>5. \A u \in Tasks : InQueue(u)' => Present(u)'
      BY <1>2, <1>4, <1>5 DEF QueueInv, PresentInv
    <2> QED
      BY <1>1, <1>4, <2>1, <2>2, <2>3, <2>4, <2>5 DEF QueueInv, PresentInv, Present
  <1>8. QueuedTaskOwned'
    <2> SUFFICES ASSUME NEW u \in Tasks, u # t, task'[u].status = "queued", ~Done
                 PROVE  \/ InQueue(u)'
                        \/ WorkerOn(u, {"picked", "taskCheck", "mark"})
                        \/ submit[u] \in {"added", "full"}
                        \/ u \in recover'
                        \/ u \in dropped'
      BY <1>1, <1>5 DEF QueuedTaskOwned, Done, WorkerOn
    <2> QED
      BY <1>1, <1>3, <1>5 DEF QueueInv, QueuedTaskOwned, QueueGrows
  <1> QED
    BY <1>6, <1>7, <1>8 DEF QueueInv

(* What ProcessGone leaves behind. *)
LEMMA GoneQueueInv ==
    ASSUME TypeOK, NEW pc \in {"idle", "exited"}, ProcessGone(pc)
    PROVE  /\ \A t \in Tasks : ~InQueue(t)' /\ message'[t] = NoMessage
           /\ \A t \in Tasks : submit'[t] \notin {"checked", "added", "full"}
           /\ \A t \in Tasks : submit'[t] = "new" => submit[t] = "new"
           /\ \A s \in Senders : sender'[s].pc \notin {"checked", "reserved"}
           /\ \A w \in Workers : worker'[w].pc \in {"idle", "exited"}
           /\ \A c \in Closers : closer'[c].pc \notin ClosingPcs
  <1> USE DEF TypeOK, ClientTypeOK
  <1>1. \A t \in Tasks : ~InQueue(t)' /\ message'[t] = NoMessage
    BY DEF ProcessGone, InQueue
  <1>2. /\ \A t \in Tasks : submit'[t] \notin {"checked", "added", "full"}
        /\ \A t \in Tasks : submit'[t] = "new" => submit[t] = "new"
    BY DEF ProcessGone
  <1>3. \A s \in Senders : sender'[s].pc \notin {"checked", "reserved"}
    BY DEF ProcessGone, SenderState
  <1>4. \A w \in Workers : worker'[w].pc \in {"idle", "exited"}
    BY DEF ProcessGone, IdleWorker
  <1>5. \A c \in Closers : closer'[c].pc \notin ClosingPcs
    BY DEF ProcessGone, CloserState, ClosingPcs
  <1> QED
    BY <1>1, <1>2, <1>3, <1>4, <1>5

LEMMA CloseReturnsQueueInv ==
    ASSUME TypeOK, QueueInv, CloseReturns
    PROVE  QueueInv'
  <1>1. ProcessGone("exited") /\ UNCHANGED <<task, recover>> /\ phase' = "exited"
    BY DEF CloseReturns
  <1>2. MessageInv'
    BY <1>1, GoneQueueInv DEF MessageInv
  <1>3. PresentInv'
    BY <1>1, GoneQueueInv DEF QueueInv, PresentInv, Present
  <1>4. QueuedTaskOwned'
    BY <1>1 DEF QueuedTaskOwned, Done
  <1> QED
    BY <1>2, <1>3, <1>4 DEF QueueInv

(* RecoverableIDs lists every task that is queued on disk. *)
LEMMA RestartQueueInv ==
    ASSUME TypeOK, QueueInv, Restart
    PROVE  QueueInv'
  <1> USE DEF TypeOK
  <1>1. ProcessGone("idle") /\ recover' = {t \in Tasks : Recoverable(task'[t])}
    BY DEF Restart
  <1>2. \A t \in Tasks : task'[t] \in {NoRecord, Reloaded(task[t])}
    BY DEF Restart
  <1>3. MessageInv'
    BY <1>1, GoneQueueInv DEF MessageInv
  <1>4. PresentInv'
    <2>1. ASSUME NEW t \in Tasks, submit[t] = "new"
          PROVE  task'[t] = NoRecord
      <3>1. task[t] = NoRecord
        BY <2>1 DEF QueueInv, PresentInv
      <3> QED
        BY <1>2, <3>1, AbsentStays
    <2>2. \A t \in recover' : Present(t)'
      BY <1>1 DEF Recoverable, Present
    <2> QED
      BY <1>1, <2>1, <2>2, GoneQueueInv DEF PresentInv, Present
  <1>5. QueuedTaskOwned'
    BY <1>1 DEF QueuedTaskOwned, Recoverable
  <1> QED
    BY <1>3, <1>4, <1>5 DEF QueueInv

-----------------------------------------------------------------------------

LEMMA QueueInvInit == Init => QueueInv
  <1> SUFFICES ASSUME Init PROVE QueueInv
    OBVIOUS
  <1>1. MessageInv
    BY DEF Init, MessageInv, NewSender, IdleWorker
  <1>2. PresentInv
    BY DEF Init, PresentInv, InQueue, IdleWorker, NewCloser, ClosingPcs
  <1>3. QueuedTaskOwned
    BY DEF Init, QueuedTaskOwned, NoRecord
  <1> QED
    BY <1>1, <1>2, <1>3 DEF QueueInv

(* QueueInv is preserved by every step. *)
LEMMA QueueInvStep ==
    ASSUME TypeOK, QueueInv, [Next]_vars
    PROVE  QueueInv'
  <1>1. ASSUME NEW w \in Workers, DispatchStep(w)
        PROVE  QueueInv'
    BY <1>1, PopQueueInv, TakeQueueInv, DispatchOwn, OwnKeptQueueInv
  <1>2. ASSUME NEW w \in Workers, DockerStep(w) \/ Deadline(w)
        PROVE  QueueInv'
    BY <1>2, DockerOwn, OwnKeptQueueInv
  <1>3. ASSUME NEW w \in Workers, FinishStep(w)
        PROVE  QueueInv'
    BY <1>3, FinishOwn, OwnKeptQueueInv
  <1>4. ASSUME NEW t \in Tasks, SubmitStep(t) \/ RecoverNext(t)
        PROVE  QueueInv'
    BY <1>4, SubmitQueueInv, RecoverQueueInv
  <1>5. CASE \/ \E s \in Senders : SendStep(s)
             \/ \E c \in Closers : CloseStep(c)
    BY <1>5, SendQueueInv, CloseQueueInv
  <1>6. CASE CloseReturns \/ Restart
    BY <1>6, CloseReturnsQueueInv, RestartQueueInv
  <1>7. CASE \/ ClearResults \/ CancelAllRuns \/ CloseDone \/ GraceOver \/ UNCHANGED vars
             \/ \E t \in Tasks : ForceRemove(t)
    BY <1>7, ProcessQueueInv
  <1> QED
    BY <1>1, <1>2, <1>3, <1>4, <1>5, <1>6, <1>7 DEF Next

(* A queued task is never forgotten: somebody leads it on to a worker,     *)
(* unless its recovery found the queue full (createTask, Submit, enqueue,  *)
(* NewService).                                                            *)
THEOREM QueuedTasksOwned == Spec => []QueuedTaskOwned
  <1>1. Init => QueueInv
    BY QueueInvInit
  <1>2. TypeOK /\ QueueInv /\ [Next]_vars => QueueInv'
    BY QueueInvStep
  <1>3. QueueInv => QueuedTaskOwned
    BY DEF QueueInv
  <1> QED
    BY <1>1, <1>2, <1>3, TypeCorrect, PTL DEF Spec
=============================================================================
