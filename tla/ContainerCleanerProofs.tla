----------------------- MODULE ContainerCleanerProofs -----------------------
(***************************************************************************)
(* What retentionCleaner and cleanupExpiredContainers may remove, however  *)
(* old the lists of containers and of tasks are that they work from, and   *)
(* that the service keeps its promises beside them. Every task is Past its *)
(* first run, which has started its container or never will, or that First *)
(* run is still ahead of it (StageInv). No step but a restart takes a task *)
(* back; only a docker run makes a container, so a container of a Past     *)
(* task that is old stays old; and only a run's result, or the recovery of *)
(* an interrupted run, makes a container retained, so what the cleaner     *)
(* finds expired is Past.                                                  *)
(***************************************************************************)
EXTENDS ContainerCleaner, TaskServiceProofs

(* A worker on its way from the queue to the start of a container. *)
StartingPcs == {"picked", "taskCheck", "mark", "register", "start"}

(* No outcome is stored, and a stop has only been noted. *)
Unsettled(r) == \/ r.status \in {"absent", "queued", "running"}
                \/ r.status = "failed" /\ r.step \in {"closed", "stopped"}

(* The first run of the task has started its container, or never will: no  *)
(* later step creates a container with this name before a restart.         *)
Past(t) ==
    /\ Started(t) /\ t \notin recover
    /\ \A w \in Workers : worker[w].task = t =>
          /\ worker[w].pc \in {"mark", "register"} => worker[w].msg # NoMessage
          /\ worker[w].pc # "start"

QueuedOnce(t) == \A i, j \in 1..Len(queue) : queue[i] = t /\ queue[j] = t => i = j

(* The first run is still to come: nothing is retained, nobody writes to   *)
(* the task, and one submission, recovery, queue entry or worker leads it. *)
First(t) ==
    /\ ~task[t].kept /\ Unsettled(task[t])
    /\ message[t] = NoMessage /\ ~SenderOn(t, {"checked", "reserved", "undo"})
    /\ \A w \in Workers : worker[w].task = t =>
          /\ worker[w].pc \in StartingPcs \cup {"exited"} /\ worker[w].msg = NoMessage
          /\ worker[w].pc \in {"register", "start"} => Started(t)
    /\ QueuedOnce(t)
    /\ \A w, v \in Workers :
          /\ worker[w].task = t /\ worker[w].pc # "exited"
          /\ worker[v].task = t /\ worker[v].pc # "exited"
          => w = v
    /\ WorkerOn(t, StartingPcs) => ~InQueue(t)
    /\ t \in recover \/ submit[t] \in {"added", "full"} =>
          ~InQueue(t) /\ ~WorkerOn(t, StartingPcs)
    /\ t \in recover => submit[t] \notin {"added", "full"}

StageInv ==
    /\ \A t \in Tasks : Past(t) \/ First(t)
    /\ \A w \in Workers : worker[w].pc = "contCheck" => worker[w].msg # NoMessage

Known == TypeOK /\ SlotInv /\ QueueInv /\ StageInv

(* What every step but a restart does: the stages are left in order. *)
Advances(t) == (Past(t)' \/ First(t)') /\ (Past(t) => Past(t)')
StagesAdvance ==
    /\ \A t \in Tasks : Advances(t)
    /\ \A w \in Workers : worker'[w].pc = "contCheck" => worker'[w].msg # NoMessage

-----------------------------------------------------------------------------
(* Steps that concern no first run of a task.                              *)

(* What a step may do to a task it is not about. *)
RecordStays(t) ==
    /\ Started(t) => Started(t)'
    /\ ~task[t].kept /\ Unsettled(task[t]) => ~task'[t].kept /\ Unsettled(task'[t])

WorkersSeen(t) ==
    \A w \in Workers : worker'[w].task = t =>
        worker[w].task = t /\ worker'[w].pc = worker[w].pc /\ worker'[w].msg = worker[w].msg

SlotStays(t) ==
    /\ message'[t] \in {message[t], NoMessage}
    /\ SenderOn(t, {"checked", "reserved", "undo"})' =>
          SenderOn(t, {"checked", "reserved", "undo"})

LeadStays(t) ==
    /\ InQueue(t)' => InQueue(t)
    /\ QueuedOnce(t) => QueuedOnce(t)'
    /\ submit'[t] \in {"added", "full"} => submit[t] \in {"added", "full"}

Untouched(t) ==
    /\ RecordStays(t) /\ WorkersSeen(t) /\ SlotStays(t) /\ LeadStays(t)
    /\ t \in recover' => t \in recover

(* A step about other tasks leaves the stage of a task as it is.           *)
LEMMA PastUntouched ==
    ASSUME NEW t \in Tasks, Past(t), RecordStays(t), WorkersSeen(t), t \in recover' => t \in recover
    PROVE  Past(t)'
  BY DEF Past, RecordStays, WorkersSeen

LEMMA FirstUntouched ==
    ASSUME NEW t \in Tasks, First(t), Untouched(t)
    PROVE  First(t)'
  <1>1. WorkerOn(t, StartingPcs)' => WorkerOn(t, StartingPcs)
    BY DEF WorkerOn, Untouched, WorkersSeen
  <1>2. ~task'[t].kept /\ Unsettled(task'[t])
    BY DEF First, Untouched, RecordStays
  <1>3. message'[t] = NoMessage /\ ~SenderOn(t, {"checked", "reserved", "undo"})'
    BY DEF First, Untouched, SlotStays
  <1>4. ASSUME NEW w \in Workers, worker'[w].task = t
        PROVE  /\ worker'[w].pc \in StartingPcs \cup {"exited"} /\ worker'[w].msg = NoMessage
               /\ worker'[w].pc \in {"register", "start"} => Started(t)'
    BY <1>4 DEF First, Untouched, WorkersSeen, RecordStays
  <1>5. \A w, v \in Workers :
          /\ worker'[w].task = t /\ worker'[w].pc # "exited"
          /\ worker'[v].task = t /\ worker'[v].pc # "exited"
          => w = v
    BY DEF First, Untouched, WorkersSeen
  <1> HIDE DEF StartingPcs
  <1> QED
    BY <1>1, <1>2, <1>3, <1>4, <1>5 DEF First, Untouched, LeadStays

(* Unchanged parts. *)
LEMMA SameRecord == ASSUME NEW t \in Tasks, task'[t] = task[t] PROVE RecordStays(t)
  BY DEF RecordStays, Started

LEMMA SameWorkers ==
    ASSUME NEW t \in Tasks, WorkersStay
    PROVE  WorkersSeen(t)
  BY DEF WorkersSeen, WorkersStay

LEMMA SameSlot ==
    ASSUME NEW t \in Tasks, message'[t] \in {message[t], NoMessage}, UNCHANGED sender
    PROVE  SlotStays(t)
  BY DEF SlotStays, SenderOn

LEMMA SameLead ==
    ASSUME NEW t \in Tasks, UNCHANGED <<queue, submit>>
    PROVE  LeadStays(t)
  BY DEF LeadStays, InQueue, QueuedOnce

-----------------------------------------------------------------------------
(* The queue and the records.                                              *)

(* The worker loop takes the first id from the queue.                      *)
LEMMA TailLeads ==
    ASSUME TypeOK, queue # <<>>, queue' = Tail(queue), NEW t \in Tasks
    PROVE  /\ InQueue(t)' => InQueue(t)
           /\ QueuedOnce(t) => QueuedOnce(t)'
           /\ t = Head(queue) => InQueue(t) /\ (QueuedOnce(t) => ~InQueue(t)')
  <1>1. /\ queue \in Seq(Tasks) /\ Len(queue) \in Nat \ {0} /\ Len(queue') = Len(queue) - 1
        /\ Head(queue) = queue[1] /\ 1 \in 1..Len(queue)
        /\ \A i \in 1..Len(queue') : queue'[i] = queue[i + 1]
    BY DEF TypeOK, SlotTypeOK
  <1>2. \A i \in 1..Len(queue') : i + 1 \in 1..Len(queue) /\ i + 1 # 1
    BY <1>1
  <1>3. InQueue(t)' => InQueue(t)
    BY <1>1, <1>2 DEF InQueue
  <1>4. QueuedOnce(t) => QueuedOnce(t)'
    BY <1>1, <1>2 DEF QueuedOnce
  <1>5. t = Head(queue) => InQueue(t)
    BY <1>1 DEF InQueue
  <1>6. t = Head(queue) /\ QueuedOnce(t) => ~InQueue(t)'
    BY <1>1, <1>2 DEF InQueue, QueuedOnce
  <1> QED BY <1>3, <1>4, <1>5, <1>6

(* enqueue puts an id at its end.                                          *)
LEMMA AppendLeads ==
    ASSUME TypeOK, NEW u \in Tasks, queue' = Append(queue, u), NEW t \in Tasks
    PROVE  /\ t # u => (InQueue(t)' => InQueue(t)) /\ (QueuedOnce(t) => QueuedOnce(t)')
           /\ ~InQueue(u) => QueuedOnce(u)'
  <1>1. /\ queue \in Seq(Tasks) /\ Len(queue') = Len(queue) + 1 /\ Len(queue) \in Nat
        /\ queue'[Len(queue) + 1] = u
        /\ \A i \in 1..Len(queue) : queue'[i] = queue[i]
    BY DEF TypeOK, SlotTypeOK
  <1>2. \A i \in 1..Len(queue') : i \in 1..Len(queue) \/ i = Len(queue) + 1
    BY <1>1
  <1>3. t # u => (InQueue(t)' => InQueue(t)) /\ (QueuedOnce(t) => QueuedOnce(t)')
    BY <1>1, <1>2 DEF InQueue, QueuedOnce
  <1>4. ~InQueue(u) => QueuedOnce(u)'
    BY <1>1, <1>2 DEF InQueue, QueuedOnce
  <1> QED BY <1>3, <1>4

(* RecordStays, of a record and what becomes of it. *)
GoesTo(r, s) ==
    /\ r.status \notin {"absent", "queued"} => s.status \notin {"absent", "queued"}
    /\ ~r.kept /\ Unsettled(r) => ~s.kept /\ Unsettled(s)

LEMMA GoesToStays ==
    ASSUME NEW t \in Tasks, GoesTo(task[t], task'[t])
    PROVE  RecordStays(t)
  BY DEF GoesTo, RecordStays, Started

(* The mutations that may happen before the outcome of the first run.      *)
LEMMA RecordGoes ==
    ASSUME NEW r \in Record
    PROVE  /\ GoesTo(r, r) /\ GoesTo(NoRecord, NewRecord)
           /\ GoesTo(r, MarkRunning(r)) /\ GoesTo(r, MarkRuntimeContainer(r))
           /\ GoesTo(r, MarkOpenCodeSession(r)) /\ GoesTo(r, MarkStopped(r))
           /\ GoesTo(r, MarkContainerClosed(r)) /\ GoesTo(r, ClearResult(r))
  <1>1. GoesTo(r, r) /\ GoesTo(NoRecord, NewRecord)
    BY DEF GoesTo, Unsettled, NoRecord, NewRecord
  <1>2. GoesTo(r, MarkRunning(r)) /\ GoesTo(r, MarkRuntimeContainer(r))
    BY DEF Record, GoesTo, Unsettled, MarkRunning, MarkRuntimeContainer
  <1>3. GoesTo(r, MarkOpenCodeSession(r)) /\ GoesTo(r, MarkStopped(r))
    BY DEF Record, GoesTo, Unsettled, MarkOpenCodeSession, MarkStopped
  <1>4. GoesTo(r, MarkContainerClosed(r))
    BY DEF Record, GoesTo, Unsettled, MarkContainerClosed
  <1>5. GoesTo(r, ClearResult(r))
    BY DEF Record, GoesTo, Unsettled, ClearResult
  <1> QED BY <1>1, <1>2, <1>3, <1>4, <1>5

(* Only the result of a run, or the recovery of an interrupted one, makes  *)
(* a container retained, and both name it and leave a step of their own.   *)
KeepsTo(r, s) ==
    /\ s.kept /\ ~r.kept => s.named /\ s.step = "other"
    /\ s.kept /\ r.kept /\ r.named => s.named

(* Every mutation of the store.                                            *)
LEMMA RecordKeeps ==
    ASSUME NEW r \in Record
    PROVE  /\ KeepsTo(r, r) /\ KeepsTo(r, NoRecord) /\ KeepsTo(r, NewRecord)
           /\ KeepsTo(r, MarkRunning(r)) /\ KeepsTo(r, MarkRuntimeContainer(r))
           /\ KeepsTo(r, MarkOpenCodeSession(r)) /\ KeepsTo(r, MarkStopped(r))
           /\ \A keep \in BOOLEAN : KeepsTo(r, MarkCompleted(r, keep))
           /\ \A hasFlag, keep \in BOOLEAN : KeepsTo(r, MarkFinished(r, hasFlag, keep))
           /\ KeepsTo(r, MarkFailed(r)) /\ KeepsTo(r, MarkContainerClosed(r))
           /\ KeepsTo(r, ClearResult(r)) /\ KeepsTo(r, MarkRecovered(r)) /\ KeepsTo(r, Reloaded(r))
  <1>1. KeepsTo(r, r) /\ KeepsTo(r, NoRecord) /\ KeepsTo(r, NewRecord)
    BY DEF KeepsTo, NoRecord, NewRecord
  <1>2. KeepsTo(r, MarkRunning(r)) /\ KeepsTo(r, MarkRuntimeContainer(r))
    BY DEF Record, KeepsTo, MarkRunning, MarkRuntimeContainer
  <1>3. KeepsTo(r, MarkOpenCodeSession(r)) /\ KeepsTo(r, MarkStopped(r))
    BY DEF Record, KeepsTo, MarkOpenCodeSession, MarkStopped
  <1>4. /\ \A keep \in BOOLEAN : KeepsTo(r, MarkCompleted(r, keep))
        /\ \A hasFlag, keep \in BOOLEAN : KeepsTo(r, MarkFinished(r, hasFlag, keep))
    BY DEF Record, KeepsTo, MarkCompleted, MarkFinished
  <1>5. KeepsTo(r, MarkFailed(r)) /\ KeepsTo(r, MarkContainerClosed(r))
    BY DEF Record, KeepsTo, MarkFailed, MarkContainerClosed
  <1>6. KeepsTo(r, ClearResult(r)) /\ KeepsTo(r, MarkRecovered(r))
    BY DEF Record, KeepsTo, ClearResult, MarkRecovered
  <1>7. KeepsTo(r, Reloaded(r))
    <2>1. Loaded(r) \in Record /\ (Loaded(r).kept => r.kept) /\ Loaded(r).named = r.named
      BY DEF Record, Status, Loaded
    <2>2. ASSUME Loaded(r).named
          PROVE  LET s == MarkInterruptedContainerRetained(Loaded(r)) IN s.named /\ s.step = "other"
      BY <2>1, <2>2 DEF Record, MarkInterruptedContainerRetained
    <2> QED BY <2>1, <2>2 DEF KeepsTo, Reloaded
  <1> QED BY <1>1, <1>2, <1>3, <1>4, <1>5, <1>6, <1>7

-----------------------------------------------------------------------------
(* The request handlers.                                                   *)

(* createTask and Submit. *)
LEMMA SubmitStage ==
    ASSUME Known, NEW u \in Tasks, SubmitStep(u)
    PROVE  StagesAdvance
  <1> USE DEF Known
  <1>1. UNCHANGED <<worker, sender, message, recover>>
    BY DEF SubmitStep, SubmitCheck, SubmitAdd, SubmitEnqueue, SubmitFull, SubmitFail, slotVars,
           procVars
  <1>2. WorkersStay
    BY <1>1 DEF WorkersStay
  <1>3. ASSUME NEW t \in Tasks, t # u
        PROVE  Advances(t)
    <2>1. task'[t] = task[t] /\ submit'[t] = submit[t]
      BY <1>3, StoredRecord DEF TypeOK, ClientTypeOK, SubmitStep, SubmitCheck, SubmitAdd,
                  SubmitEnqueue, SubmitFull, SubmitFail
    <2>2. (InQueue(t)' => InQueue(t)) /\ (QueuedOnce(t) => QueuedOnce(t)')
      <3>1. UNCHANGED queue \/ queue' = Append(queue, u)
        BY DEF SubmitStep, SubmitCheck, SubmitAdd, SubmitEnqueue, SubmitFull, SubmitFail, slotVars
      <3> QED BY <1>3, <3>1, AppendLeads DEF InQueue, QueuedOnce
    <2>3. Untouched(t)
      BY <1>1, <1>2, <2>1, <2>2, SameRecord, SameWorkers, SameSlot DEF Untouched, LeadStays
    <2> QED BY <2>3, PastUntouched, FirstUntouched DEF StageInv, Untouched, Advances
  <1>4. Advances(u)
    <2>1. CASE SubmitCheck(u) \/ SubmitFull(u)
      <3>1. UNCHANGED <<task, queue>>
        BY <2>1 DEF SubmitCheck, SubmitFull, slotVars
      <3>2. submit'[u] \in {"added", "full"} => submit[u] \in {"added", "full"}
        BY <2>1 DEF SubmitCheck, SubmitFull, TypeOK, ClientTypeOK
      <3>3. Untouched(u)
        BY <1>1, <1>2, <3>1, <3>2, SameRecord, SameWorkers, SameSlot
           DEF Untouched, LeadStays, InQueue, QueuedOnce
      <3> QED BY <3>3, PastUntouched, FirstUntouched DEF StageInv, Untouched, Advances
    <2>2. CASE SubmitAdd(u)
      <3>1. task[u] = NoRecord /\ ~Present(u)
        BY <2>2 DEF SubmitAdd, QueueInv, PresentInv, Present, NoRecord
      <3>2. task'[u] = NewRecord /\ UNCHANGED queue
        BY <2>2, StoredRecord DEF SubmitAdd, TypeOK, slotVars
      <3>3. First(u)
        BY <3>1 DEF StageInv, Past, Started, Present
      <3>4. ~InQueue(u) /\ u \notin recover
        BY <3>1 DEF QueueInv, PresentInv
      <3>5. \A w \in Workers : worker[w].task = u => worker[w].pc \in {"idle", "exited"}
        BY <3>1 DEF QueueInv, PresentInv
      <3>6. ~WorkerOn(u, StartingPcs) /\ ~WorkerOn(u, StartingPcs)'
        BY <1>1, <3>5 DEF WorkerOn, StartingPcs
      <3>7. ~InQueue(u)' /\ QueuedOnce(u)' /\ ~SenderOn(u, {"checked", "reserved", "undo"})'
        BY <1>1, <3>2, <3>3, <3>4 DEF First, InQueue, QueuedOnce, SenderOn
      <3>8. ~task'[u].kept /\ Unsettled(task'[u])
        BY <3>2 DEF NewRecord, NoRecord, Unsettled
      <3>9. \A w \in Workers : worker'[w].task = u =>
              /\ worker'[w].pc \in StartingPcs \cup {"exited"} /\ worker'[w].msg = NoMessage
              /\ worker'[w].pc \notin {"register", "start"}
        BY <1>1, <3>3, <3>5 DEF First, StartingPcs
      <3>10. \A w, v \in Workers :
              /\ worker'[w].task = u /\ worker'[w].pc # "exited"
              /\ worker'[v].task = u /\ worker'[v].pc # "exited"
              => w = v
        BY <1>1, <3>3 DEF First
      <3> HIDE DEF StartingPcs
      <3>11. First(u)'
        BY <1>1, <3>3, <3>4, <3>6, <3>7, <3>8, <3>9, <3>10 DEF First
      <3>12. ~Past(u)
        BY <3>1 DEF Past, Started, Present
      <3> QED BY <3>11, <3>12 DEF Advances
    <2>3. CASE SubmitEnqueue(u)
      <3>1. UNCHANGED task /\ queue' = Append(queue, u)
        BY <2>3 DEF SubmitEnqueue
      <3>2. submit[u] = "added" /\ submit'[u] = "accepted"
        BY <2>3 DEF SubmitEnqueue, TypeOK, ClientTypeOK
      <3>3. ASSUME Past(u) PROVE Past(u)'
        BY <1>1, <3>1, <3>3 DEF Past, Started
      <3>4. ASSUME First(u) PROVE First(u)'
        <4>1. ~InQueue(u) /\ ~WorkerOn(u, StartingPcs) /\ u \notin recover
          BY <3>2, <3>4 DEF First
        <4>2. QueuedOnce(u)'
          BY <3>1, <4>1, AppendLeads
        <4>3. ~WorkerOn(u, StartingPcs)' /\ ~SenderOn(u, {"checked", "reserved", "undo"})'
          BY <1>1, <3>4, <4>1 DEF First, WorkerOn, SenderOn
        <4> HIDE DEF StartingPcs
        <4> QED BY <1>1, <3>1, <3>2, <3>4, <4>1, <4>2, <4>3 DEF First, Started
      <3> QED BY <3>3, <3>4 DEF StageInv, Advances
    <2>4. CASE SubmitFail(u)
      <3>1. submit[u] = "full" /\ task'[u].status = "failed"
        BY <2>4, StoredRecord, RecordStatus DEF SubmitFail, TypeOK, DataTypeOK
      <3>2. ASSUME Past(u) PROVE Past(u)'
        BY <1>1, <3>1, <3>2 DEF Past, Started
      <3>3. ASSUME First(u) PROVE Past(u)'
        <4>1. u \notin recover /\ ~WorkerOn(u, StartingPcs)
          BY <3>1, <3>3 DEF First
        <4> QED BY <1>1, <3>1, <4>1 DEF Past, Started, WorkerOn, StartingPcs
      <3> QED BY <3>2, <3>3 DEF StageInv, Advances
    <2> QED BY <2>1, <2>2, <2>3, <2>4 DEF SubmitStep
  <1>5. \A w \in Workers : worker'[w].pc = "contCheck" => worker'[w].msg # NoMessage
    BY <1>1 DEF StageInv
  <1> QED BY <1>3, <1>4, <1>5 DEF StagesAdvance

(* SendTaskMessage acts on a task whose container is retained. *)
LEMMA SendStage ==
    ASSUME Known, NEW s \in Senders, SendStep(s)
    PROVE  StagesAdvance
  <1> USE DEF Known
  <1>1. UNCHANGED <<task, worker, submit, recover>>
    BY DEF SendStep, SendCheck, SendReserve, SendEnqueue, SendFull, SendUndo, procVars
  <1>2. ASSUME NEW t \in Tasks, Past(t)
        PROVE  Past(t)'
    BY <1>1, <1>2 DEF Past, Started
  <1>3. ASSUME NEW t \in Tasks, First(t)
        PROVE  First(t)'
    <2>1. /\ \A x \in Senders \ {s} : sender'[x] = sender[x]
          /\ sender'[s].task = t => sender'[s].pc \notin {"checked", "reserved", "undo"}
      <3>1. ASSUME NEW u \in Tasks, SendCheck(s, u)
            PROVE  u # t
        BY <1>3, <3>1 DEF SendCheck, First, CanContinue
      <3>2. sender[s].pc \in {"checked", "reserved", "undo"} => sender[s].task # t
        BY <1>3 DEF First, SenderOn
      <3> QED BY <3>1, <3>2 DEF SendStep, SendCheck, SendReserve, SendEnqueue, SendFull, SendUndo,
                  TypeOK, ClientTypeOK, SenderState
    <2>2. message'[t] \in {message[t], NoMessage}
      <3>1. CASE \E u \in Tasks : SendCheck(s, u)
        BY <3>1 DEF SendCheck, slotVars
      <3>2. CASE SendReserve(s)
        <4>1. sender[s].task # t
          BY <1>3, <3>2 DEF SendReserve, First, SenderOn
        <4> QED BY <3>2, <4>1 DEF SendReserve, TypeOK, SlotTypeOK
      <3>3. CASE SendEnqueue(s) \/ SendFull(s) \/ SendUndo(s)
        BY <3>3 DEF SendEnqueue, SendFull, SendUndo, ReleaseSlot, slotVars, TypeOK, SlotTypeOK
      <3> QED BY <3>1, <3>2, <3>3 DEF SendStep
    <2>3. (InQueue(t)' => InQueue(t)) /\ (QueuedOnce(t) => QueuedOnce(t)')
      <3>1. CASE SendEnqueue(s)
        <4>1. sender[s].task # t /\ sender[s].task \in Tasks
          BY <1>3, <3>1 DEF SendEnqueue, First, SenderOn, TypeOK, ClientTypeOK
        <4>2. queue' = Append(queue, sender[s].task)
          BY <3>1 DEF SendEnqueue
        <4> QED BY <4>1, <4>2, AppendLeads
      <3>2. CASE ~SendEnqueue(s)
        <4>1. UNCHANGED queue
          BY <3>2 DEF SendStep, SendCheck, SendReserve, SendFull, SendUndo, ReleaseSlot, slotVars
        <4> QED BY <4>1 DEF InQueue, QueuedOnce
      <3> QED BY <3>1, <3>2
    <2>4. Untouched(t)
      <3>1. SlotStays(t)
        BY <2>1, <2>2 DEF SlotStays, SenderOn
      <3>2. WorkersStay
        BY <1>1 DEF WorkersStay
      <3>3. RecordStays(t)
        BY <1>1, SameRecord
      <3> QED BY <1>1, <2>3, <3>1, <3>2, <3>3, SameWorkers DEF Untouched, LeadStays
    <2> QED BY <1>3, <2>4, FirstUntouched
  <1>4. \A w \in Workers : worker'[w].pc = "contCheck" => worker'[w].msg # NoMessage
    BY <1>1 DEF StageInv
  <1> QED BY <1>2, <1>3, <1>4 DEF StageInv, StagesAdvance, Advances

(* A stop request, ClearResultData and the shutdown up to the return of    *)
(* Close start nothing.                                                    *)
LEMMA QuietStage ==
    ASSUME Known, WorkersStay, UNCHANGED <<queue, submit, sender, recover>>,
           \A t \in Tasks : message'[t] \in {message[t], NoMessage},
           \A t \in Tasks : GoesTo(task[t], task'[t])
    PROVE  StagesAdvance
  <1>1. ASSUME NEW t \in Tasks
        PROVE  Untouched(t)
    BY GoesToStays, SameWorkers, SameSlot, SameLead DEF Untouched
  <1>2. \A t \in Tasks : Advances(t)
    BY <1>1, PastUntouched, FirstUntouched DEF Untouched, Known, StageInv, Advances
  <1>3. \A w \in Workers : worker'[w].pc = "contCheck" => worker'[w].msg # NoMessage
    BY DEF WorkersStay, Known, StageInv
  <1> QED BY <1>2, <1>3 DEF StagesAdvance

(* CloseTaskContainer.                                                     *)
LEMMA CloseStage ==
    ASSUME Known, NEW c \in Closers, CloseStep(c)
    PROVE  StagesAdvance
  <1> USE DEF Known
  <1>1. UNCHANGED <<queue, submit, sender, recover>>
    BY DEF CloseStep, CloseGet, CloseCancel, CloseRelease, CloseStopQueued, CloseRemove,
           CloseRemoveFails, CloseMark, ReleaseSlot, slotVars, procVars
  <1>2. WorkersStay
    BY DEF CloseStep, CloseGet, CloseCancel, CloseRelease, CloseStopQueued, CloseRemove,
           CloseRemoveFails, CloseMark, WorkersStay, Become, TypeOK, WorkerTypeOK, WorkerState
  <1>3. \A t \in Tasks : message'[t] \in {message[t], NoMessage}
    BY DEF CloseStep, CloseGet, CloseCancel, CloseRelease, CloseStopQueued, CloseRemove,
           CloseRemoveFails, CloseMark, ReleaseSlot, slotVars, TypeOK, SlotTypeOK
  <1>4. ASSUME NEW t \in Tasks
        PROVE  GoesTo(task[t], task'[t])
    <2>1. task[t] \in Record
      BY DEF TypeOK, DataTypeOK
    <2>2. CASE CloseStopQueued(c) \/ CloseMark(c)
      <3> DEFINE u == closer[c].task
      <3>1. u \in Tasks
        BY <2>2 DEF CloseStopQueued, CloseMark, TypeOK, ClientTypeOK
      <3>2. Update(u, MarkStopped(task[u])) \/ Update(u, MarkContainerClosed(task[u]))
        BY <2>2 DEF CloseStopQueued, CloseMark
      <3>3. task'[t] \in {task[t], MarkStopped(task[t]), MarkContainerClosed(task[t])}
        BY <3>1, <3>2, StoredRecord DEF TypeOK
      <3> QED BY <2>1, <3>3, RecordGoes
    <2>3. CASE ~CloseStopQueued(c) /\ ~CloseMark(c)
      <3>1. UNCHANGED task
        BY <2>3 DEF CloseStep, CloseGet, CloseCancel, CloseRelease, CloseRemove, CloseRemoveFails
      <3> QED BY <2>1, <3>1, RecordGoes
    <2> QED BY <2>2, <2>3
  <1> QED BY <1>1, <1>2, <1>3, <1>4, QuietStage

(* ClearResultData and the steps of Close.                                 *)
LEMMA ProcessStage ==
    ASSUME Known, \/ ClearResults \/ CancelAllRuns \/ CloseDone \/ GraceOver
                  \/ \E t \in Tasks : ForceRemove(t)
    PROVE  StagesAdvance
  <1> USE DEF Known
  <1>1. UNCHANGED <<queue, message, submit, sender, recover>>
    BY DEF ClearResults, CancelAllRuns, CloseDone, GraceOver, ForceRemove, slotVars, clientVars,
           procVars
  <1>2. WorkersStay
    BY DEF ClearResults, CancelAllRuns, CloseDone, GraceOver, ForceRemove, WorkersStay, TypeOK,
           WorkerTypeOK, WorkerState
  <1>3. ASSUME NEW t \in Tasks
        PROVE  GoesTo(task[t], task'[t])
    <2>1. task[t] \in Record
      BY DEF TypeOK, DataTypeOK
    <2>2. task'[t] \in {task[t], ClearResult(task[t])}
      BY DEF ClearResults, CancelAllRuns, CloseDone, GraceOver, ForceRemove
    <2> QED BY <2>1, <2>2, RecordGoes
  <1> QED BY <1>1, <1>2, <1>3, QuietStage

-----------------------------------------------------------------------------
(* The workers.                                                            *)

(* Another worker has not moved, and the moving one concerns its own task. *)
LEMMA OtherTask ==
    ASSUME Known, NEW w \in Workers, NEW t \in Tasks,
           \A v \in Workers \ {w} : worker'[v] = worker[v],
           worker'[w].task # t, UNCHANGED <<submit, sender, recover>>,
           GoesTo(task[t], task'[t]), message'[t] \in {message[t], NoMessage},
           InQueue(t)' => InQueue(t), QueuedOnce(t) => QueuedOnce(t)'
    PROVE  Advances(t)
  <1>1. WorkersSeen(t)
    BY DEF WorkersSeen
  <1>2. Untouched(t)
    BY <1>1, GoesToStays, SameSlot DEF Untouched, LeadStays
  <1> QED BY <1>2, PastUntouched, FirstUntouched DEF Untouched, Known, StageInv, Advances

(* A worker whose task is past its first run does not begin another.       *)
LEMMA OwnPast ==
    ASSUME Known, NEW w \in Workers, NEW t \in Tasks, Past(t),
           \A v \in Workers \ {w} : worker'[v] = worker[v],
           Started(t)', UNCHANGED recover,
           worker'[w].task = t =>
              /\ worker'[w].pc \in {"mark", "register"} => worker'[w].msg # NoMessage
              /\ worker'[w].pc # "start"
    PROVE  Past(t)'
  BY DEF Past

(* The first run moves on, in the hands of the worker that leads it.       *)
LEMMA OwnFirst ==
    ASSUME Known, NEW w \in Workers, NEW t \in Tasks, First(t), worker[w].task = t,
           worker[w].pc \in StartingPcs, \A v \in Workers \ {w} : worker'[v] = worker[v],
           UNCHANGED <<queue, submit, sender, recover>>, message'[t] = NoMessage,
           RecordStays(t),
           worker'[w].task = t =>
              /\ worker'[w].pc \in StartingPcs \cup {"exited"} /\ worker'[w].msg = NoMessage
              /\ worker'[w].pc \in {"register", "start"} => Started(t)'
    PROVE  First(t)'
  <1>1. WorkerOn(t, StartingPcs)
    BY DEF WorkerOn
  <1>2. ~InQueue(t) /\ t \notin recover /\ submit[t] \notin {"added", "full"}
    BY <1>1 DEF First
  <1>3. ~InQueue(t)' /\ QueuedOnce(t)' /\ ~SenderOn(t, {"checked", "reserved", "undo"})'
    BY <1>2 DEF First, InQueue, QueuedOnce, SenderOn
  <1>4. worker[w].pc # "exited"
    BY DEF StartingPcs
  <1>5. \A v \in Workers : worker'[v].task = t /\ worker'[v].pc # "exited" => v = w
    BY <1>4 DEF First
  <1>6. ASSUME NEW v \in Workers, worker'[v].task = t
        PROVE  /\ worker'[v].pc \in StartingPcs \cup {"exited"} /\ worker'[v].msg = NoMessage
               /\ worker'[v].pc \in {"register", "start"} => Started(t)'
    <2>1. CASE v = w
      BY <1>6, <2>1
    <2>2. CASE v # w
      BY <1>6, <2>2 DEF First, RecordStays
    <2> QED BY <2>1, <2>2
  <1> HIDE DEF StartingPcs
  <1> QED BY <1>2, <1>3, <1>5, <1>6 DEF First, RecordStays

(* A worker that leads the first run leads it alone. *)
LEMMA LeaderAlone ==
    ASSUME NEW w \in Workers, NEW t \in Tasks, First(t), worker[w].task = t,
           worker[w].pc # "exited"
    PROVE  /\ worker[w].pc \in StartingPcs /\ worker[w].msg = NoMessage
           /\ \A v \in Workers \ {w} : worker[v].task = t => worker[v].pc = "exited"
           /\ t \notin recover
  <1>1. worker[w].pc \in StartingPcs /\ worker[w].msg = NoMessage
    BY DEF First
  <1>2. t \notin recover
    BY <1>1 DEF First, WorkerOn
  <1> QED BY <1>1, <1>2 DEF First

(* A worker takes an id: a first run is led by one worker from here on.    *)
LEMMA PopStage ==
    ASSUME Known, NEW w \in Workers, Pop(w)
    PROVE  StagesAdvance
  <1> USE DEF Known
  <1>0. PICK h \in Tasks : h = Head(queue)
    BY HeadTailType DEF Pop, TypeOK, SlotTypeOK
  <1> DEFINE r == [worker[w] EXCEPT !.pc = "picked", !.task = h]
  <1>1. /\ worker[w].pc = "idle" /\ queue # <<>> /\ queue' = Tail(queue) /\ Become(w, r)
        /\ UNCHANGED <<task, message, submit, sender, recover>>
    BY <1>0 DEF Pop, clientVars, procVars
  <1>2. /\ worker[w].msg = NoMessage
        /\ r.pc = "picked" /\ r.task = h /\ r.msg = NoMessage
    <2>1. worker[w].msg = NoMessage
      BY <1>1 DEF SlotInv, NoMessagePcs
    <2>2. worker[w] \in WorkerState
      BY DEF TypeOK, WorkerTypeOK
    <2> QED BY <2>1, <2>2 DEF WorkerState
  <1> HIDE DEF r
  <1>3. /\ worker'[w] = r
        /\ \A v \in Workers \ {w} : worker'[v] = worker[v]
    BY <1>1, PutFields DEF TypeOK
  <1>4. \A t \in Tasks : GoesTo(task[t], task'[t])
    BY <1>1, RecordGoes DEF TypeOK, DataTypeOK
  <1>5. ASSUME NEW t \in Tasks, t # h
        PROVE  Advances(t)
    BY <1>1, <1>2, <1>3, <1>4, <1>5, OtherTask, TailLeads
  <1>6. ASSUME Past(h)
        PROVE  Past(h)'
    <2>1. Started(h)'
      BY <1>1, <1>6 DEF Past, Started
    <2> QED BY <1>1, <1>2, <1>3, <1>6, <2>1, OwnPast
  <1>7. ASSUME First(h)
        PROVE  First(h)'
    <2>1. InQueue(h) /\ ~InQueue(h)' /\ QueuedOnce(h)'
      BY <1>0, <1>1, <1>7, TailLeads DEF First
    <2>2. ~WorkerOn(h, StartingPcs) /\ h \notin recover /\ submit[h] \notin {"added", "full"}
      BY <1>7, <2>1 DEF First
    <2>3. \A v \in Workers : worker[v].task = h => worker[v].pc = "exited"
      BY <1>7, <2>2 DEF First, WorkerOn
    <2>4. \A v \in Workers : worker'[v].task = h /\ worker'[v].pc # "exited" => v = w
      BY <1>3, <2>3
    <2>5. \A v \in Workers : worker'[v].task = h =>
            /\ worker'[v].pc \in {"picked", "exited"} /\ worker'[v].msg = NoMessage
      BY <1>2, <1>3, <1>7, <2>3 DEF First
    <2>6. ~SenderOn(h, {"checked", "reserved", "undo"})'
      BY <1>1, <1>7 DEF First, SenderOn
    <2> QED BY <1>1, <1>7, <2>1, <2>2, <2>4, <2>5, <2>6 DEF First, StartingPcs
  <1>8. \A v \in Workers : worker'[v].pc = "contCheck" => worker'[v].msg # NoMessage
    BY <1>2, <1>3 DEF StageInv
  <1>9. Past(h) \/ First(h)
    BY DEF StageInv
  <1> QED BY <1>5, <1>6, <1>7, <1>8, <1>9 DEF StagesAdvance, Advances

(* So it is enough to look at the task of the worker that moves. *)
LEMMA OwnStage ==
    ASSUME Known, NEW w \in Workers, \A v \in Workers \ {w} : worker'[v] = worker[v],
           UNCHANGED <<queue, submit, sender, recover>>,
           \A t \in Tasks : message'[t] \in {message[t], NoMessage},
           \A t \in Tasks \ {worker[w].task} : task'[t] = task[t],
           worker'[w].task \in {worker[w].task, NoTask},
           \A t \in Tasks : t = worker[w].task => Advances(t),
           worker'[w].pc = "contCheck" => worker'[w].msg # NoMessage
    PROVE  StagesAdvance
  <1>1. ASSUME NEW t \in Tasks, t # worker[w].task
        PROVE  Advances(t)
    <2>1. GoesTo(task[t], task'[t])
      BY <1>1 DEF GoesTo
    <2>2. worker'[w].task # t
      BY <1>1, NoTaskAssumption
    <2>3. (InQueue(t)' => InQueue(t)) /\ (QueuedOnce(t) => QueuedOnce(t)')
      BY DEF InQueue, QueuedOnce
    <2> QED BY <2>1, <2>2, <2>3, OtherTask
  <1>2. \A v \in Workers : worker'[v].pc = "contCheck" => worker'[v].msg # NoMessage
    BY DEF Known, StageInv
  <1> QED BY <1>1, <1>2 DEF StagesAdvance

(* The steps between the queue and the start of the run: the worker moves  *)
(* to pc with its message msg, or gives up.                                *)
LEMMA ApproachStage ==
    ASSUME Known, NEW w \in Workers, \A v \in Workers \ {w} : worker'[v] = worker[v],
           UNCHANGED <<queue, submit, sender, recover>>,
           \A t \in Tasks : message'[t] \in {message[t], NoMessage},
           \A t \in Tasks \ {worker[w].task} : task'[t] = task[t],
           worker'[w].task \in {worker[w].task, NoTask},
           worker[w].pc \in {"idle", "contCheck"} \cup StartingPcs,
           \A t \in Tasks : t = worker[w].task => RecordStays(t),
           worker'[w].pc = "contCheck" => worker'[w].msg # NoMessage,
           ASSUME NEW t \in Tasks, t = worker[w].task, Past(t), worker'[w].task = t
           PROVE  /\ worker'[w].pc \in {"mark", "register"} => worker'[w].msg # NoMessage
                  /\ worker'[w].pc # "start",
           ASSUME NEW t \in Tasks, t = worker[w].task, First(t), worker'[w].task = t,
                  worker[w].pc \in StartingPcs, worker[w].msg = NoMessage
           PROVE  /\ worker'[w].pc \in StartingPcs \cup {"exited"} /\ worker'[w].msg = NoMessage
                  /\ worker'[w].pc \in {"register", "start"} => Started(t)'
    PROVE  StagesAdvance
  <1>1. ASSUME NEW t \in Tasks, t = worker[w].task
        PROVE  Advances(t)
    <2>1. ASSUME Past(t) PROVE Past(t)'
      <3>1. Started(t)'
        BY <1>1, <2>1 DEF Past, RecordStays
      <3> QED BY <1>1, <2>1, <3>1, OwnPast
    <2>2. ASSUME First(t) PROVE First(t)'
      <3>1. worker[w].pc \in StartingPcs /\ worker[w].msg = NoMessage
        BY <1>1, <2>2, LeaderAlone DEF StartingPcs
      <3>2. message'[t] = NoMessage
        BY <2>2 DEF First
      <3> QED BY <1>1, <2>2, <3>1, <3>2, OwnFirst
    <2> QED BY <2>1, <2>2 DEF Known, StageInv, Advances
  <1> QED BY <1>1, OwnStage

(* From the id to the start of a run: a first run becomes Past only when   *)
(* it is given up; a continuation needs a message, so its task is Past.    *)
LEMMA DispatchStage ==
    ASSUME Known, NEW w \in Workers, DispatchStep(w), ~Pop(w)
    PROVE  StagesAdvance
  <1> USE DEF Known
  <1>1. UNCHANGED <<queue, submit, sender, recover>>
    BY DEF DispatchStep, Exit, TakeMessage, TaskCheck, ContCheck, BeginRun, Register, slotVars,
           clientVars, procVars
  <1>2. /\ \A t \in Tasks : message'[t] \in {message[t], NoMessage}
        /\ worker[w].pc # "idle" => worker[w].task \in Tasks
    BY DEF DispatchStep, Exit, TakeMessage, TaskCheck, ContCheck, BeginRun, Register, slotVars,
           TypeOK, SlotTypeOK, WorkerTypeOK
  <1>3. worker[w] \in WorkerState
    BY DEF TypeOK, WorkerTypeOK
  <1>4. CASE Exit(w)
    <2>1. /\ worker'[w].pc = "exited" /\ worker'[w].task = worker[w].task
          /\ worker'[w].msg = worker[w].msg /\ \A v \in Workers \ {w} : worker'[v] = worker[v]
      BY <1>4, MoveFields DEF Exit, WorkerPcs, TypeOK
    <2>2. UNCHANGED task /\ worker[w].pc \in {"idle", "picked"}
      BY <1>4 DEF Exit
    <2> QED BY <1>1, <1>2, <2>1, <2>2, SameRecord, ApproachStage DEF StartingPcs
  <1>5. CASE TakeMessage(w)
    <2> DEFINE r == [worker[w] EXCEPT !.pc = "contCheck", !.msg = message[worker[w].task]]
    <2>1. UNCHANGED task /\ worker[w].pc = "picked"
      BY <1>5 DEF TakeMessage
    <2>2. CASE message[worker[w].task] # NoMessage
      <3>1. Become(w, r)
        BY <1>5, <2>2 DEF TakeMessage
      <3>2. r.pc = "contCheck" /\ r.task = worker[w].task /\ r.msg = message[worker[w].task]
        BY <1>3 DEF WorkerState
      <3> HIDE DEF r
      <3>3. worker'[w] = r /\ \A v \in Workers \ {w} : worker'[v] = worker[v]
        BY <3>1, PutFields DEF TypeOK
      <3> QED BY <1>1, <1>2, <2>1, <2>2, <3>2, <3>3, SameRecord, ApproachStage
              DEF StartingPcs, First
    <2>3. CASE message[worker[w].task] = NoMessage
      <3>1. Goto(w, "taskCheck")
        BY <1>5, <2>3 DEF TakeMessage
      <3>2. /\ worker'[w].pc = "taskCheck" /\ worker'[w].task = worker[w].task
            /\ worker'[w].msg = worker[w].msg /\ \A v \in Workers \ {w} : worker'[v] = worker[v]
        BY <3>1, MoveFields DEF WorkerPcs, StartPcs, TypeOK
      <3> QED BY <1>1, <1>2, <2>1, <3>2, SameRecord, ApproachStage DEF StartingPcs
    <2> QED BY <2>2, <2>3
  <1>6. CASE TaskCheck(w)
    <2>1. UNCHANGED task /\ worker[w].pc = "taskCheck"
      BY <1>6 DEF TaskCheck
    <2>2. CASE task[worker[w].task].status = "queued"
      <3>1. Goto(w, "mark")
        BY <1>6, <2>2 DEF TaskCheck
      <3>2. /\ worker'[w].pc = "mark" /\ worker'[w].task = worker[w].task
            /\ worker'[w].msg = worker[w].msg /\ \A v \in Workers \ {w} : worker'[v] = worker[v]
        BY <3>1, MoveFields DEF WorkerPcs, StartPcs, TypeOK
      <3>3. ~Past(worker[w].task)
        BY <2>2 DEF Past, Started
      <3> QED BY <1>1, <1>2, <2>1, <3>2, <3>3, SameRecord, ApproachStage DEF StartingPcs
    <2>3. CASE task[worker[w].task].status # "queued"
      <3>1. Become(w, IdleWorker)
        BY <1>6, <2>3 DEF TaskCheck
      <3>2. worker'[w] = IdleWorker /\ \A v \in Workers \ {w} : worker'[v] = worker[v]
        BY <3>1, PutFields DEF TypeOK
      <3>3. worker'[w].task = NoTask /\ worker'[w].pc = "idle"
        BY <3>2 DEF IdleWorker
      <3> QED BY <1>1, <1>2, <2>1, <3>2, <3>3, SameRecord, ApproachStage, NoTaskAssumption
              DEF StartingPcs
    <2> QED BY <2>2, <2>3
  <1>7. CASE ContCheck(w)
    <2>1. UNCHANGED task /\ worker[w].pc = "contCheck" /\ worker[w].msg # NoMessage
      BY <1>7 DEF ContCheck, StageInv
    <2>2. PICK pc \in {"mark", "release"} : Goto(w, pc)
      BY <1>7 DEF ContCheck
    <2>3. /\ worker'[w].pc = pc /\ worker'[w].task = worker[w].task
          /\ worker'[w].msg = worker[w].msg /\ \A v \in Workers \ {w} : worker'[v] = worker[v]
      BY <2>2, MoveFields DEF WorkerPcs, StartPcs, TypeOK
    <2> QED BY <1>1, <1>2, <2>1, <2>3, SameRecord, ApproachStage DEF StartingPcs
  <1>8. CASE BeginRun(w)
    <2>1. worker[w].pc = "mark"
      BY <1>8 DEF BeginRun
    <2>2. PICK t \in Tasks : t = worker[w].task
      BY <1>2, <2>1
    <2>3. task'[t] = MarkRunning(task[t]) /\ \A u \in Tasks \ {t} : task'[u] = task[u]
      BY <1>8, <2>2, StoredRecord DEF BeginRun, TypeOK
    <2>4. /\ worker'[w].pc = "register" /\ worker'[w].task = worker[w].task
          /\ worker'[w].msg = worker[w].msg /\ \A v \in Workers \ {w} : worker'[v] = worker[v]
      BY <1>8, MoveFields DEF BeginRun, WorkerPcs, StartPcs, TypeOK
    <2>5. task[t] \in Record
      BY DEF TypeOK, DataTypeOK
    <2>6. RecordStays(t) /\ Started(t)'
      BY <2>3, <2>5, RecordGoes, RecordStatus, GoesToStays DEF Started
    <2> QED BY <1>1, <1>2, <2>1, <2>2, <2>3, <2>4, <2>6, ApproachStage DEF StartingPcs, Past
  <1>9. CASE Register(w)
    <2> DEFINE r == [worker[w] EXCEPT
                      !.pc = IF worker[w].msg = NoMessage THEN "start" ELSE "hint",
                      !.ctx = IF Done THEN "dead" ELSE "live"]
    <2>1. UNCHANGED task /\ worker[w].pc = "register" /\ Become(w, r)
      BY <1>9 DEF Register
    <2>2. /\ r.pc = (IF worker[w].msg = NoMessage THEN "start" ELSE "hint")
          /\ r.task = worker[w].task /\ r.msg = worker[w].msg
      BY <1>3 DEF WorkerState
    <2> HIDE DEF r
    <2>3. worker'[w] = r /\ \A v \in Workers \ {w} : worker'[v] = worker[v]
      BY <2>1, PutFields DEF TypeOK
    <2>4. ASSUME NEW t \in Tasks, t = worker[w].task, First(t)
          PROVE  Started(t)'
      BY <2>1, <2>4 DEF First, Started
    <2> QED BY <1>1, <1>2, <2>1, <2>2, <2>3, <2>4, SameRecord, ApproachStage
            DEF StartingPcs, Past
  <1> QED BY <1>4, <1>5, <1>6, <1>7, <1>8, <1>9 DEF DispatchStep

(* A run that has begun, in Docker or at its end. *)
LEMMA RunMoves ==
    ASSUME Known, NEW w \in Workers, DockerStep(w) \/ FinishStep(w)
    PROVE  /\ \A v \in Workers \ {w} : worker'[v] = worker[v]
           /\ UNCHANGED <<queue, submit, sender, recover>>
           /\ \A t \in Tasks : message'[t] \in {message[t], NoMessage}
           /\ \A t \in Tasks \ {worker[w].task} : task'[t] = task[t]
           /\ worker[w].pc \in DockerPcs \cup FinishPcs \cup {"release"}
           /\ worker'[w].pc \notin StartingPcs \cup {"contCheck"}
           /\ worker'[w].task \in {worker[w].task, NoTask}
           /\ \A t \in Tasks : t = worker[w].task /\ Started(t) => Started(t)'
  <1> USE DEF Known
  <1>1. OwnKept(w)
    BY DockerOwn, FinishOwn
  <1>2. worker[w].pc \in DockerPcs \cup FinishPcs \cup {"release"} /\ worker[w].task \in Tasks
    BY DEF DockerStep, StartContainer, StartFails, SinkContainer, StartHint, HintFails,
           AgentSession, AgentExits, AgentFails, AgentCancelled, CancelledRemove, FinishStep,
           NextRound, StopCheck, StoreResult, RemoveSolved, FailCheck, FailRun, ClearCancel,
           Release, DockerPcs, FinishPcs, TypeOK, WorkerTypeOK
  <1>3. worker[w] \in WorkerState
    BY DEF TypeOK, WorkerTypeOK
  <1>4. /\ worker'[w].pc \notin StartingPcs \cup {"contCheck"}
        /\ worker'[w].task \in {worker[w].task, NoTask}
    <2>1. CASE \E pc \in (DockerPcs \cup FinishPcs) \ {"start"} : Goto(w, pc)
      BY <2>1, MoveFields DEF WorkerPcs, DockerPcs, FinishPcs, StartingPcs, TypeOK
    <2>2. CASE \/ \E result \in {"solved", "zero", "nonzero"} : AgentExits(w, result)
               \/ NextRound(w) \/ ClearCancel(w) \/ Release(w)
      <3>1. ASSUME NEW x, Become(w, x), x.task \in {worker[w].task, NoTask},
                   x.pc \in {"round", "check", "failCheck", "hint", "idle", "release"}
            PROVE  /\ worker'[w].pc \notin StartingPcs \cup {"contCheck"}
                   /\ worker'[w].task \in {worker[w].task, NoTask}
        BY <3>1, PutFields DEF TypeOK, StartingPcs
      <3>2. CASE \E result \in {"solved", "zero", "nonzero"} : AgentExits(w, result)
        <4>1. PICK result \in {"solved", "zero", "nonzero"} : AgentExits(w, result)
          BY <3>2
        <4> DEFINE r == [worker[w] EXCEPT !.pc = IF result = "zero" THEN "round" ELSE "check",
                                          !.result = result]
        <4>2. Become(w, r)
          BY <4>1 DEF AgentExits
        <4>3. r.pc \in {"round", "check"} /\ r.task = worker[w].task
          BY <1>3 DEF WorkerState
        <4> HIDE DEF r
        <4> QED BY <3>1, <4>2, <4>3
      <3>3. CASE NextRound(w)
        <4> DEFINE r == [worker[w] EXCEPT !.pc = "hint", !.round = worker[w].round + 1]
        <4>1. r.pc = "hint" /\ r.task = worker[w].task
          BY <1>3 DEF WorkerState
        <4>2. Goto(w, "check") \/ Goto(w, "failCheck") \/ Become(w, r)
          BY <3>3 DEF NextRound
        <4> HIDE DEF r
        <4>3. CASE Become(w, r)
          BY <3>1, <4>1, <4>3
        <4>4. CASE Goto(w, "check") \/ Goto(w, "failCheck")
          BY <2>1, <4>4 DEF FinishPcs
        <4> QED BY <4>2, <4>3, <4>4
      <3>4. CASE ClearCancel(w) \/ Release(w)
        <4> DEFINE r == [worker[w] EXCEPT !.pc = "release", !.ctx = "none"]
        <4>1. r.pc = "release" /\ r.task = worker[w].task
          BY <1>3 DEF WorkerState
        <4>2. Become(w, IdleWorker) \/ Become(w, r)
          BY <3>4 DEF ClearCancel, Release
        <4>3. IdleWorker.pc = "idle" /\ IdleWorker.task = NoTask
          BY DEF IdleWorker
        <4> HIDE DEF r
        <4> QED BY <3>1, <4>1, <4>2, <4>3
      <3> QED BY <2>2, <3>2, <3>3, <3>4
    <2>3. CASE AgentSession(w)
      BY <2>3 DEF AgentSession, StartingPcs
    <2>4. CASE \/ StartContainer(w) \/ StartFails(w) \/ SinkContainer(w) \/ StartHint(w)
               \/ HintFails(w) \/ AgentFails(w) \/ AgentCancelled(w) \/ CancelledRemove(w)
      <3>1. \E pc \in {"sink", "failCheck", "agent", "ctxRm"} : Goto(w, pc)
        BY <2>4 DEF StartContainer, StartFails, SinkContainer, StartHint, HintFails, AgentFails,
                    AgentCancelled, CancelledRemove
      <3> QED BY <2>1, <3>1 DEF DockerPcs, FinishPcs
    <2>5. CASE StopCheck(w) \/ StoreResult(w) \/ RemoveSolved(w) \/ FailCheck(w) \/ FailRun(w)
      <3>1. \E pc \in {"clear", "result", "solvedRm", "failMark"} : Goto(w, pc)
        BY <2>5 DEF StopCheck, StoreResult, RemoveSolved, FailCheck, FailRun
      <3> QED BY <2>1, <3>1 DEF DockerPcs, FinishPcs
    <2> QED BY <2>2, <2>3, <2>4, <2>5 DEF DockerStep, FinishStep
  <1> QED BY <1>1, <1>2, <1>4 DEF OwnKept, RecordKept, StatusKept, Started

(* docker run is the end of the stage: what follows is past it. *)
LEMMA RunIsPast ==
    ASSUME Known, NEW w \in Workers, DockerStep(w) \/ FinishStep(w)
    PROVE  \A t \in Tasks : t = worker[w].task => Past(t)'
  <1>1. ASSUME NEW t \in Tasks, t = worker[w].task
        PROVE  Past(t)'
    <2>1. CASE Past(t)
      <3>1. Started(t)'
        BY <1>1, <2>1, RunMoves DEF Past
      <3> QED BY <2>1, <3>1, RunMoves, OwnPast DEF StartingPcs
    <2>2. CASE First(t)
      <3>1. worker[w].pc \in DockerPcs \cup FinishPcs \cup {"release"}
        BY RunMoves
      <3>2. /\ worker[w].pc \in StartingPcs /\ t \notin recover
            /\ \A v \in Workers \ {w} : worker[v].task = t => worker[v].pc = "exited"
        BY <1>1, <2>2, <3>1, LeaderAlone DEF DockerPcs, FinishPcs
      <3>3. worker[w].pc = "start"
        BY <3>1, <3>2 DEF StartingPcs, DockerPcs, FinishPcs
      <3>4. Started(t)'
        BY <1>1, <2>2, <3>3, RunMoves DEF First
      <3> QED BY <3>2, <3>4, RunMoves DEF Past, StartingPcs
    <2> QED BY <2>1, <2>2 DEF Known, StageInv
  <1> QED BY <1>1

(* Inside a run only its own task can be concerned, and it is Past after   *)
(* the docker run.                                                         *)
LEMMA RunStage ==
    ASSUME Known, NEW w \in Workers, DockerStep(w) \/ FinishStep(w)
    PROVE  StagesAdvance
  <1>1. \A t \in Tasks : t = worker[w].task => Advances(t)
    BY RunIsPast DEF Advances
  <1>2. worker'[w].pc # "contCheck"
    BY RunMoves
  <1> QED BY <1>1, <1>2, RunMoves, OwnStage DEF Advances

(* A timeout only cancels the run.                                         *)
LEMMA DeadlineStage ==
    ASSUME Known, NEW w \in Workers, Deadline(w)
    PROVE  StagesAdvance
  <1>1. UNCHANGED <<task, queue, submit, sender, recover, message>>
    BY DEF Deadline, slotVars, clientVars, procVars
  <1>2. WorkersStay
    BY DEF Deadline, WorkersStay, Become, Known, TypeOK, WorkerTypeOK, WorkerState
  <1>3. \A t \in Tasks : GoesTo(task[t], task'[t])
    BY <1>1, RecordGoes DEF Known, TypeOK, DataTypeOK
  <1> QED BY <1>1, <1>2, <1>3, QuietStage

-----------------------------------------------------------------------------
(* Recovery, the end of the process and the next start.                    *)

(* NewService's recovery loop: a task is led by it, then by the queue.     *)
LEMMA RecoverStage ==
    ASSUME Known, NEW u \in Tasks, RecoverNext(u)
    PROVE  StagesAdvance
  <1> USE DEF Known
  <1>1. /\ UNCHANGED <<message, worker, submit, sender>>
        /\ u \in recover /\ recover' = recover \ {u}
    BY DEF RecoverNext, clientVars
  <1>2. /\ task'[u] = MarkRecovered(task[u])
        /\ \A t \in Tasks \ {u} : task'[t] = task[t]
    BY StoredRecord DEF RecoverNext, TypeOK
  <1>3. WorkersStay
    BY <1>1 DEF WorkersStay
  <1>4. UNCHANGED queue \/ queue' = Append(queue, u)
    BY DEF RecoverNext
  <1>5. ASSUME NEW t \in Tasks, t # u
        PROVE  Advances(t)
    <2>1. (InQueue(t)' => InQueue(t)) /\ (QueuedOnce(t) => QueuedOnce(t)')
      BY <1>4, <1>5, AppendLeads DEF InQueue, QueuedOnce
    <2>2. Untouched(t)
      BY <1>1, <1>2, <1>3, <1>5, <2>1, SameRecord, SameWorkers, SameSlot DEF Untouched, LeadStays
    <2> QED BY <2>2, PastUntouched, FirstUntouched DEF StageInv, Untouched, Advances
  <1>6. Past(u)' \/ First(u)'
    <2>1. First(u)
      BY <1>1 DEF StageInv, Past
    <2>2. ~InQueue(u) /\ ~WorkerOn(u, StartingPcs) /\ submit[u] \notin {"added", "full"}
      BY <1>1, <2>1 DEF First
    <2>3. Present(u) /\ task[u] \in Record
      BY <1>1 DEF QueueInv, PresentInv, TypeOK, DataTypeOK
    <2>4. /\ task'[u].status # "absent"
          /\ task[u].status \in {"queued", "running"} => task'[u].status = "queued"
          /\ task[u].status \notin {"queued", "running"} => task'[u] = task[u]
          /\ task'[u].kept => task[u].kept
      BY <1>2, <2>3 DEF Present, MarkRecovered, Record
    <2>5. CASE task[u].status \in {"queued", "running"}
      <3>1. ~task'[u].kept /\ Unsettled(task'[u])
        BY <2>1, <2>4, <2>5 DEF First, Unsettled
      <3>2. QueuedOnce(u)'
        BY <1>4, <2>1, <2>2, AppendLeads DEF First, QueuedOnce
      <3>3. ~WorkerOn(u, StartingPcs)' /\ ~SenderOn(u, {"checked", "reserved", "undo"})'
        BY <1>1, <2>1, <2>2 DEF First, WorkerOn, SenderOn
      <3>4. \A w \in Workers : worker[w].task = u => worker[w].pc = "exited"
        BY <2>1, <2>2 DEF First, WorkerOn
      <3>5. \A w \in Workers : worker'[w].task = u =>
              /\ worker'[w].pc \in StartingPcs \cup {"exited"} /\ worker'[w].msg = NoMessage
              /\ worker'[w].pc \notin {"register", "start"}
        BY <1>1, <2>1, <3>4 DEF First
      <3> HIDE DEF StartingPcs
      <3> QED BY <1>1, <2>1, <2>2, <3>1, <3>2, <3>3, <3>4, <3>5 DEF First
    <2>6. CASE task[u].status \notin {"queued", "running"}
      <3>1. Started(u)'
        BY <2>3, <2>4, <2>6 DEF Started, Present
      <3> QED BY <1>1, <2>2, <3>1 DEF Past, WorkerOn, StartingPcs
    <2> QED BY <2>5, <2>6
  <1>7. \A w \in Workers : worker'[w].pc = "contCheck" => worker'[w].msg # NoMessage
    BY <1>1 DEF StageInv
  <1>8. ~Past(u)
    BY <1>1 DEF Past
  <1> QED BY <1>5, <1>6, <1>7, <1>8 DEF StagesAdvance, Advances

(* What the end of the process leaves of handlers, workers and queue. *)
LEMMA GoneLeavesNobody ==
    ASSUME TypeOK, NEW pc \in {"idle", "exited"}, ProcessGone(pc), NEW t \in Tasks
    PROVE  /\ message'[t] = NoMessage /\ ~SenderOn(t, {"checked", "reserved", "undo"})'
           /\ \A w \in Workers : worker'[w].task = NoTask /\ worker'[w].pc = pc
           /\ ~InQueue(t)' /\ QueuedOnce(t)' /\ ~WorkerOn(t, StartingPcs)'
           /\ submit'[t] \notin {"added", "full"}
  <1>1. message'[t] = NoMessage /\ queue' = <<>>
    BY DEF ProcessGone
  <1>2. \A w \in Workers : worker'[w].task = NoTask /\ worker'[w].pc = pc
    BY DEF ProcessGone, IdleWorker
  <1>3. submit'[t] \notin {"added", "full"}
    BY DEF ProcessGone
  <1>4. ~SenderOn(t, {"checked", "reserved", "undo"})'
    BY DEF ProcessGone, SenderOn, TypeOK, ClientTypeOK, SenderState
  <1>5. ~InQueue(t)' /\ QueuedOnce(t)' /\ ~WorkerOn(t, StartingPcs)'
    BY <1>1, <1>2 DEF InQueue, QueuedOnce, WorkerOn, StartingPcs
  <1> QED BY <1>1, <1>2, <1>3, <1>4, <1>5

(* A process that ends takes its workers, handlers and queue with it.      *)
LEMMA EndStage ==
    ASSUME Known, NEW pc \in {"idle", "exited"}, ProcessGone(pc),
           \A t \in Tasks : Started(t)' \/ (~task'[t].kept /\ Unsettled(task'[t])),
           \A t \in Tasks :
              Started(t)' => t \notin recover' \/ (~task'[t].kept /\ Unsettled(task'[t]))
    PROVE  /\ StageInv'
           /\ \A t \in Tasks : Started(t)' /\ t \notin recover' => Past(t)'
  <1>1. ASSUME NEW t \in Tasks
        PROVE  /\ Past(t)' \/ First(t)'
               /\ Started(t)' /\ t \notin recover' => Past(t)'
    <2>1. /\ message'[t] = NoMessage /\ ~SenderOn(t, {"checked", "reserved", "undo"})'
          /\ \A w \in Workers : worker'[w].task # t
          /\ ~InQueue(t)' /\ QueuedOnce(t)' /\ ~WorkerOn(t, StartingPcs)'
          /\ submit'[t] \notin {"added", "full"}
      BY GoneLeavesNobody, NoTaskAssumption DEF Known
    <2>2. ASSUME Started(t)', t \notin recover'
          PROVE  Past(t)'
      BY <2>1, <2>2 DEF Past
    <2>3. CASE ~task'[t].kept /\ Unsettled(task'[t])
      BY <2>1, <2>2, <2>3 DEF First
    <2> QED BY <2>2, <2>3
  <1>2. \A w \in Workers : worker'[w].pc = "contCheck" => worker'[w].msg # NoMessage
    BY DEF ProcessGone, IdleWorker
  <1> QED BY <1>1, <1>2 DEF StageInv

(* After a shutdown everything that has begun is Past.                     *)
LEMMA CloseReturnsPast ==
    ASSUME Known, CloseReturns
    PROVE  /\ StageInv'
           /\ \A t \in Tasks : Started(t) /\ t \notin recover => Past(t)'
  <1>1. ProcessGone("exited") /\ UNCHANGED <<task, recover>>
    BY DEF CloseReturns
  <1>2. \A t \in Tasks : Past(t) \/ First(t)
    BY DEF Known, StageInv
  <1>3. StageInv' /\ \A t \in Tasks : Started(t)' /\ t \notin recover' => Past(t)'
    BY <1>1, <1>2, EndStage DEF Past, First, Started
  <1> QED BY <1>1, <1>3 DEF Started

LEMMA CloseReturnsStage ==
    ASSUME Known, CloseReturns
    PROVE  StagesAdvance
  BY CloseReturnsPast DEF StageInv, StagesAdvance, Advances, Past

(* A retained container has a name in the record, so that a restart does   *)
(* not recover its task.                                                   *)
KeptNamed == \A t \in Tasks : task[t].kept => task[t].named

(* After a restart a recovered task is First again, whatever it was: a     *)
(* record that retains a container names it, and is not recovered.         *)
LEMMA RestartStage ==
    ASSUME Known, KeptNamed, Restart
    PROVE  StageInv'
  <1>1. /\ ProcessGone("idle")
        /\ recover' = {t \in Tasks : Recoverable(task'[t])}
        /\ \A t \in Tasks : task'[t] \in {NoRecord, Reloaded(task[t])}
    BY DEF Restart
  <1>2. ASSUME NEW t \in Tasks
        PROVE  /\ Started(t)' \/ (~task'[t].kept /\ Unsettled(task'[t]))
               /\ Started(t)' => t \notin recover' \/ (~task'[t].kept /\ Unsettled(task'[t]))
    <2>1. task[t] \in Record /\ Loaded(task[t]) \in Record
      BY DEF Known, TypeOK, DataTypeOK, Record, Status, Loaded
    <2>2. CASE task'[t] = NoRecord
      BY <2>2 DEF NoRecord, Unsettled
    <2>3. CASE task'[t] = Reloaded(task[t])
      <3>1. ~Started(t) => ~task[t].kept
        BY DEF Known, StageInv, Past, First
      <3>2. task[t].kept => task[t].named
        BY DEF KeptNamed
      <3>3. ~Started(t)' => ~Started(t) /\ (task'[t].kept => task[t].kept)
        BY <2>1, <2>3 DEF Started, Reloaded, Loaded, MarkInterruptedContainerRetained, Record
      <3>4. Started(t)' /\ t \in recover' => ~task'[t].kept
        BY <1>1, <2>1, <2>3, <3>2 DEF Started, Recoverable, Reloaded, Loaded,
           MarkInterruptedContainerRetained, Record
      <3>5. Recoverable(task'[t]) \/ ~Started(t)' => Unsettled(task'[t])
        BY DEF Started, Recoverable, Unsettled
      <3> QED BY <1>1, <3>1, <3>3, <3>4, <3>5
    <2> QED BY <1>1, <2>2, <2>3
  <1> QED BY <1>1, <1>2, EndStage

-----------------------------------------------------------------------------
(* Every step of the service.                                              *)

(* Every step of the service but a restart.                                *)
LEMMA NextAdvances ==
    ASSUME Known, Next, ~Restart
    PROVE  StagesAdvance
  <1>1. ASSUME NEW w \in Workers, DispatchStep(w)
        PROVE  StagesAdvance
    BY <1>1, PopStage, DispatchStage
  <1>2. CASE \/ ClearResults \/ CancelAllRuns \/ CloseDone \/ GraceOver
             \/ \E t \in Tasks : ForceRemove(t)
    BY <1>2, ProcessStage
  <1> QED BY <1>1, <1>2, SubmitStage, RecoverStage, SendStage, CloseStage, RunStage,
             DeadlineStage, CloseReturnsStage DEF Next

(* StageInv is inductive.                                                  *)
LEMMA NextStage ==
    ASSUME Known, KeptNamed, Next
    PROVE  StageInv'
  <1>1. CASE Restart
    BY <1>1, RestartStage
  <1>2. CASE ~Restart
    BY <1>2, NextAdvances DEF StagesAdvance, Advances, StageInv
  <1> QED BY <1>1, <1>2

(* Whatever a step does to a record, it retains a container in these ways only. *)
LEMMA KeepsStep ==
    ASSUME TypeOK, Next, NEW t \in Tasks
    PROVE  KeepsTo(task[t], task'[t])
  <1>1. task[t] \in Record
    BY DEF TypeOK, DataTypeOK
  <1>2. ASSUME NEW u \in Tasks, NEW r, Update(u, r), KeepsTo(task[u], r)
        PROVE  KeepsTo(task[t], task'[t])
    <2>1. task'[u] = r /\ \A x \in Tasks \ {u} : task'[x] = task[x]
      BY <1>2, StoredRecord DEF TypeOK
    <2> QED BY <1>1, <1>2, <2>1, RecordKeeps
  <1>3. CASE UNCHANGED task
    BY <1>1, <1>3, RecordKeeps
  <1>4. \A u \in Tasks : task[u] \in Record
    BY DEF TypeOK, DataTypeOK
  <1>5. ASSUME NEW u \in Tasks, SubmitStep(u) \/ RecoverNext(u)
        PROVE  KeepsTo(task[t], task'[t])
    <2>1. \/ UNCHANGED task \/ Update(u, NewRecord) \/ Update(u, MarkFailed(task[u]))
          \/ Update(u, MarkRecovered(task[u]))
      BY <1>5 DEF SubmitStep, SubmitCheck, SubmitAdd, SubmitEnqueue, SubmitFull, SubmitFail,
                  RecoverNext
    <2> QED BY <1>2, <1>3, <1>4, <2>1, RecordKeeps
  <1>6. ASSUME NEW c \in Closers, CloseStep(c)
        PROVE  KeepsTo(task[t], task'[t])
    <2>1. \/ UNCHANGED task
          \/ \E u \in Tasks :
                Update(u, MarkStopped(task[u])) \/ Update(u, MarkContainerClosed(task[u]))
      <3>1. CASE CloseStopQueued(c) \/ CloseMark(c)
        <4>1. closer[c].task \in Tasks
          BY <3>1 DEF CloseStopQueued, CloseMark, TypeOK, ClientTypeOK
        <4> QED BY <3>1, <4>1 DEF CloseStopQueued, CloseMark
      <3> QED BY <1>6, <3>1 DEF CloseStep, CloseGet, CloseCancel, CloseRelease, CloseRemove,
                  CloseRemoveFails
    <2> QED BY <1>2, <1>3, <1>4, <2>1, RecordKeeps
  <1>7. ASSUME NEW w \in Workers, DispatchStep(w)
        PROVE  KeepsTo(task[t], task'[t])
    <2>1. CASE BeginRun(w)
      <3>1. worker[w].task \in Tasks /\ Update(worker[w].task, MarkRunning(task[worker[w].task]))
        BY <2>1 DEF BeginRun, TypeOK, WorkerTypeOK
      <3> QED BY <1>2, <1>4, <3>1, RecordKeeps
    <2>2. CASE ~BeginRun(w)
      BY <1>3, <1>7, <2>2 DEF DispatchStep, Pop, Exit, TakeMessage, TaskCheck, ContCheck, Register
    <2> QED BY <2>1, <2>2
  <1>8. ASSUME NEW w \in Workers, DockerStep(w)
        PROVE  KeepsTo(task[t], task'[t])
    <2>1. CASE SinkContainer(w) \/ AgentSession(w)
      <3>1. PICK u \in Tasks : u = worker[w].task
        BY <2>1 DEF SinkContainer, AgentSession, TypeOK, WorkerTypeOK
      <3>2. Update(u, MarkRuntimeContainer(task[u])) \/ Update(u, MarkOpenCodeSession(task[u]))
        BY <2>1, <3>1 DEF SinkContainer, AgentSession
      <3> QED BY <1>2, <1>4, <3>2, RecordKeeps
    <2>2. CASE ~(SinkContainer(w) \/ AgentSession(w))
      BY <1>3, <1>8, <2>2 DEF DockerStep, StartContainer, StartFails, StartHint, HintFails,
         AgentExits, AgentFails, AgentCancelled, CancelledRemove
    <2> QED BY <2>1, <2>2
  <1>9. ASSUME NEW w \in Workers, FinishStep(w)
        PROVE  KeepsTo(task[t], task'[t])
    <2>1. CASE StoreResult(w) \/ FailRun(w)
      <3>1. PICK u \in Tasks : u = worker[w].task
        BY <2>1 DEF StoreResult, FailRun, TypeOK, WorkerTypeOK
      <3>2. \/ Update(u, MarkCompleted(task[u], TRUE)) \/ Update(u, MarkFailed(task[u]))
            \/ \E hasFlag, keep \in BOOLEAN : Update(u, MarkFinished(task[u], hasFlag, keep))
        BY <2>1, <3>1 DEF StoreResult, FailRun
      <3> QED BY <1>2, <1>4, <3>2, RecordKeeps
    <2>2. CASE ~(StoreResult(w) \/ FailRun(w))
      BY <1>3, <1>9, <2>2 DEF FinishStep, NextRound, StopCheck, RemoveSolved, FailCheck,
         ClearCancel, Release
    <2> QED BY <2>1, <2>2
  <1>10. CASE ClearResults \/ Restart
    <2>1. task'[t] \in {ClearResult(task[t]), NoRecord, Reloaded(task[t])}
      BY <1>10 DEF ClearResults, Restart
    <2> QED BY <1>1, <2>1, RecordKeeps
  <1>11. CASE \/ \E s \in Senders : SendStep(s)
              \/ \E w \in Workers : Deadline(w)
              \/ CancelAllRuns \/ CloseDone \/ GraceOver \/ CloseReturns
              \/ \E u \in Tasks : ForceRemove(u)
    BY <1>3, <1>11 DEF SendStep, SendCheck, SendReserve, SendEnqueue, SendFull, SendUndo, Deadline,
       CancelAllRuns, CloseDone, GraceOver, CloseReturns, ForceRemove
  <1> QED BY <1>5, <1>6, <1>7, <1>8, <1>9, <1>10, <1>11 DEF Next

(* A retained container is a named one.                                    *)
LEMMA KeptNamedStep ==
    ASSUME TypeOK, KeptNamed, Next
    PROVE  KeptNamed'
  BY KeepsStep DEF KeptNamed, KeepsTo

(* Only docker run makes a container. *)
LEMMA NewContainers ==
    ASSUME Next, NEW t \in containers', t \notin containers
    PROVE  \E w \in Workers : /\ worker[w].task = t /\ worker[w].pc = "start"
                              /\ DockerStep(w) \/ CloseReturns \/ Restart
  <1>1. ASSUME NEW w \in Workers, DockerStep(w)
        PROVE  worker[w].task = t /\ worker[w].pc = "start"
    BY <1>1 DEF DockerStep, StartContainer, StartFails, SinkContainer, StartHint, HintFails,
       AgentSession, AgentExits, AgentFails, AgentCancelled, CancelledRemove
  <1>2. CASE CloseReturns \/ Restart
    <2>1. ProcessGone("exited") \/ ProcessGone("idle")
      BY <1>2 DEF CloseReturns, Restart
    <2>2. \E w \in Workers : worker[w].task = t /\ worker[w].pc = "start"
      BY <2>1 DEF ProcessGone
    <2> QED BY <1>2, <2>2
  <1>3. ASSUME NEW w \in Workers, FinishStep(w)
        PROVE  FALSE
    BY <1>3 DEF FinishStep, NextRound, StopCheck, StoreResult, RemoveSolved, FailCheck, FailRun,
       ClearCancel, Release
  <1>4. ASSUME NEW c \in Closers, CloseStep(c)
        PROVE  FALSE
    BY <1>4 DEF CloseStep, CloseGet, CloseCancel, CloseRelease, CloseStopQueued, CloseRemove,
       CloseRemoveFails, CloseMark
  <1>5. ASSUME NEW u \in Tasks, SubmitStep(u) \/ RecoverNext(u) \/ ForceRemove(u)
        PROVE  FALSE
    BY <1>5 DEF SubmitStep, SubmitCheck, SubmitAdd, SubmitEnqueue, SubmitFull, SubmitFail,
       RecoverNext, ForceRemove
  <1>6. ASSUME NEW s \in Senders, SendStep(s)
        PROVE  FALSE
    BY <1>6 DEF SendStep, SendCheck, SendReserve, SendEnqueue, SendFull, SendUndo
  <1>7. ASSUME NEW w \in Workers, DispatchStep(w) \/ Deadline(w)
        PROVE  FALSE
    BY <1>7 DEF DispatchStep, Pop, Exit, TakeMessage, TaskCheck, ContCheck, BeginRun, Register,
       Deadline
  <1>8. CASE ClearResults \/ CancelAllRuns \/ CloseDone \/ GraceOver
    BY <1>8 DEF ClearResults, CancelAllRuns, CloseDone, GraceOver
  <1> QED BY <1>1, <1>2, <1>3, <1>4, <1>5, <1>6, <1>7, <1>8 DEF Next

-----------------------------------------------------------------------------
(* Containers of a task that is past its first run.                        *)

(* The container of t, if there is one, was created a retention time ago. *)
Old(t) == t \in containers => t \in aged

(* It stays old: no step creates another with its name. *)
LEMMA OldStays ==
    ASSUME ServiceStep, NEW t \in Tasks, Past(t), Old(t)
    PROVE  Old(t)'
  <1>1. \A w \in Workers : ~(worker[w].task = t /\ worker[w].pc = "start")
    BY DEF Past
  <1>2. t \in containers' => t \in containers
    BY <1>1, NewContainers DEF ServiceStep
  <1> QED BY <1>1, <1>2 DEF Old, ServiceStep, Recreated

(* Before any restart, a task that has a container is past its first run.  *)
LEMMA ContainersPast ==
    ASSUME Known, Next, ~Restart, NEW t \in Tasks, t \in containers', t \in containers => Past(t)
    PROVE  Past(t)'
  <1>1. CASE t \in containers
    BY <1>1, NextAdvances DEF StagesAdvance, Advances
  <1>2. CASE t \notin containers
    <2>1. PICK w \in Workers : /\ worker[w].task = t /\ worker[w].pc = "start"
                               /\ DockerStep(w) \/ CloseReturns
      BY <1>2, NewContainers
    <2>2. CASE DockerStep(w)
      BY <2>1, <2>2, RunIsPast
    <2>3. CASE CloseReturns
      <3>1. First(t)
        BY <2>1 DEF Known, StageInv, Past
      <3>2. Started(t) /\ t \notin recover
        BY <2>1, <3>1, LeaderAlone DEF First
      <3> QED BY <2>3, <3>2, CloseReturnsPast
    <2> QED BY <2>1, <2>2, <2>3
  <1> QED BY <1>1, <1>2

(* What a record finished a retention time ago tells: the container is old *)
(* as well, unless a run holds it or the task was stopped.                 *)
HeldOrStopped(r) ==
    \/ r.status = "running"
    \/ r.status = "failed" /\ r.step \in {"closed", "stopped"} /\ ~r.kept

(* An expired record of a task past its first run.                         *)
ExpiredInv == \A t \in expired : Past(t) => Old(t) \/ HeldOrStopped(task[t])

(* A change of the record that does not set FinishedAt leaves it so. *)
LEMMA HeldUntilFinished ==
    ASSUME NEW r \in Record, NEW s \in Record, KeepsTo(r, s), ~Finishes(r, s),
           HeldOrStopped(r) \/ (Unsettled(r) /\ ~r.kept),
           s.status \notin {"absent", "queued"}
    PROVE  HeldOrStopped(s)
  <1>1. s.status \in {"running", "completed", "solved", "failed"}
    BY DEF Record, Status
  <1>2. CASE s.status = "running"
    BY <1>2 DEF HeldOrStopped
  <1>3. CASE Settled(s)
    <2>1. r.status = s.status /\ (r.step = s.step \/ s.step = "closed")
      BY <1>3 DEF Finishes
    <2>2. r.status = "failed" /\ r.step \in {"closed", "stopped"} /\ ~r.kept
      BY <1>3, <2>1 DEF HeldOrStopped, Unsettled, Settled
    <2>3. s.step \in {"closed", "stopped"} /\ ~s.kept
      BY <2>1, <2>2 DEF KeepsTo
    <2> QED BY <2>1, <2>2, <2>3 DEF HeldOrStopped
  <1> QED BY <1>1, <1>2, <1>3 DEF Settled

(* An expired record of a Past task: its container is old, or the record   *)
(* is running or stopped.                                                  *)
LEMMA ExpiredInvStep ==
    ASSUME Known, ExpiredInv, expired \subseteq Tasks, ServiceStep
    PROVE  ExpiredInv'
  <1> SUFFICES ASSUME NEW t \in expired', Past(t)'
               PROVE  Old(t)' \/ HeldOrStopped(task'[t])
    BY DEF ExpiredInv
  <1>1. t \in expired /\ t \in Tasks /\ ~Finishes(task[t], task'[t])
    BY DEF ServiceStep
  <1>2. Next
    BY DEF ServiceStep
  <1>3. task[t] \in Record /\ task'[t] \in Record
    BY <1>1, <1>2, NextTypeOK DEF Known, TypeOK, DataTypeOK
  <1>4. KeepsTo(task[t], task'[t])
    BY <1>1, <1>2, KeepsStep DEF Known
  <1>5. task'[t].status \notin {"absent", "queued"}
    BY DEF Past, Started
  <1>6. CASE Past(t) /\ Old(t)
    BY <1>1, <1>6, OldStays
  <1>7. CASE HeldOrStopped(task[t]) \/ (Unsettled(task[t]) /\ ~task[t].kept)
    BY <1>1, <1>3, <1>4, <1>5, <1>7, HeldUntilFinished
  <1>8. First(t) => Unsettled(task[t]) /\ ~task[t].kept
    BY DEF First
  <1> QED BY <1>1, <1>6, <1>7, <1>8 DEF Known, StageInv, ExpiredInv

-----------------------------------------------------------------------------
(* The cleaner.                                                            *)

CleanerTypeOK == cleaner \in CleanerState /\ aged \subseteq Tasks /\ expired \subseteq Tasks

(* What the cleaner means to do concerns tasks past their first run, so    *)
(* that the two snapshots it decides on do not become wrong.               *)
Chosen(t) == t \in cleaner.gone \cup cleaner.due \/ (cleaner.pc = "mark" /\ cleaner.at = t)

CleanerInv ==
    /\ \A t \in Tasks : Chosen(t) => Past(t)
    /\ \A t \in Tasks : t \in cleaner.due => Old(t)
    /\ cleaner.pc \in {"mark", "rm"} => cleaner.at \in Tasks

(* A restart may run a task again whose container the cleaner has seen.    *)
Seen(t) == t \in containers \cup cleaner.ps \cup cleaner.orphans

Condemned(t) == cleaner.pc = "rm" /\ cleaner.at = t

(* Before the first restart whatever docker ps has listed belongs to a     *)
(* task past its first run, and what is about to be removed is old.        *)
OrphanInv ==
    /\ recover = {}
    /\ \A t \in Tasks : Seen(t) \/ Condemned(t) => Past(t)
    /\ \A t \in Tasks : Condemned(t) => Old(t)

ServiceInv == Known /\ KeptNamed /\ RunningTaskOwned /\ RegistryLive

(* The states between two cleanups.                                        *)
LEMMA NewCleanerFields ==
    /\ NewCleaner \in CleanerState /\ Waiting \in CleanerState
    /\ [Waiting EXCEPT !.pc = "exited"] \in CleanerState
    /\ \A c \in {NewCleaner, Waiting, [Waiting EXCEPT !.pc = "exited"]} :
          /\ c.pc \in {"ps", "wait", "exited"}
          /\ c.ps = {} /\ c.gone = {} /\ c.due = {} /\ c.orphans = {}
  <1> DEFINE c0 == [Waiting EXCEPT !.pc = "exited"]
  <1>1. /\ NewCleaner \in CleanerState /\ NewCleaner.pc = "ps"
        /\ NewCleaner.ps = {} /\ NewCleaner.gone = {} /\ NewCleaner.due = {}
        /\ NewCleaner.orphans = {}
    BY DEF NewCleaner, CleanerState, CleanerPcs
  <1>2. /\ Waiting \in CleanerState /\ Waiting.pc = "wait"
        /\ Waiting.ps = {} /\ Waiting.gone = {} /\ Waiting.due = {} /\ Waiting.orphans = {}
    BY <1>1 DEF Waiting, CleanerState, CleanerPcs
  <1>3. /\ c0 \in CleanerState /\ c0.pc = "exited"
        /\ c0.ps = {} /\ c0.gone = {} /\ c0.due = {} /\ c0.orphans = {}
    BY <1>2 DEF CleanerState, CleanerPcs
  <1> QED BY <1>1, <1>2, <1>3

(* restarts counts the restarts.                                           *)
LEMMA OnlyRestartCounts ==
    ASSUME Next, ~Restart
    PROVE  UNCHANGED restarts
  BY DEF Next, SubmitStep, SubmitCheck, SubmitAdd, SubmitEnqueue, SubmitFull,
     SubmitFail, RecoverNext, SendStep, SendCheck, SendReserve, SendEnqueue, SendFull, SendUndo,
     CloseStep, CloseGet, CloseCancel, CloseRelease, CloseStopQueued, CloseRemove,
     CloseRemoveFails, CloseMark, DispatchStep, Pop, Exit, TakeMessage, TaskCheck, ContCheck,
     BeginRun, Register, Deadline, DockerStep, StartContainer, StartFails, SinkContainer,
     StartHint, HintFails, AgentSession, AgentExits, AgentFails, AgentCancelled,
     CancelledRemove, FinishStep, NextRound, StopCheck, StoreResult, RemoveSolved, FailCheck,
     FailRun, ClearCancel, Release, ClearResults, CancelAllRuns, CloseDone, GraceOver,
     CloseReturns, ForceRemove, procVars

(* A service step leaves the cleaner where it is, or ends it. *)
LEMMA ServiceLeavesCleaner ==
    ASSUME TypeOK, ServiceStep
    PROVE  \/ UNCHANGED cleaner /\ ~Restart
           \/ cleaner' \in {NewCleaner, [Waiting EXCEPT !.pc = "exited"]}
  <1>1. CASE Restart
    <2>1. restarts' # restarts
      BY <1>1 DEF Restart, TypeOK, DataTypeOK
    <2> QED BY <2>1 DEF ServiceStep
  <1>2. CASE ~Restart
    BY <1>2, OnlyRestartCounts DEF ServiceStep
  <1> QED BY <1>1, <1>2

(* What TaskServiceProofs has shown, in one step.                          *)
LEMMA ServiceStepInv ==
    ASSUME ServiceInv, [Next]_vars
    PROVE  ServiceInv'
  <1>1. TypeOK' /\ SlotInv' /\ QueueInv' /\ RunningTaskOwned' /\ RegistryLive'
    BY NextTypeOK, SlotInvStep, QueueInvStep, RunningTaskOwnedStep, RegistryLiveStep
       DEF ServiceInv, Known
  <1>2. CASE Next
    BY <1>1, <1>2, NextStage, KeptNamedStep DEF ServiceInv, Known
  <1>3. CASE UNCHANGED vars
    <2>1. StageInv'
      <3>1. UNCHANGED <<task, queue, message, worker, submit, sender, recover>>
        BY <1>3 DEF vars, slotVars, clientVars, procVars
      <3> QED BY <3>1 DEF ServiceInv, Known, StageInv, Past, First, Started, QueuedOnce, InQueue,
                          WorkerOn, SenderOn
    <2>2. KeptNamed'
      BY <1>3 DEF ServiceInv, KeptNamed, vars
    <2> QED BY <1>1, <2>1, <2>2 DEF ServiceInv, Known
  <1> QED BY <1>2, <1>3

(* The service under a cleanup: what the cleaner's lists name stays Past,  *)
(* what it has found due stays old.                                        *)
LEMMA ServiceKeepsCleanerInv ==
    ASSUME Known, CleanerTypeOK, CleanerInv, ServiceStep
    PROVE  CleanerTypeOK' /\ CleanerInv'
  <1>1. Next
    BY DEF ServiceStep
  <1>2. CleanerTypeOK'
    <2>1. cleaner' \in CleanerState
      BY ServiceLeavesCleaner, NewCleanerFields DEF Known, CleanerTypeOK
    <2>2. aged' \subseteq Tasks /\ expired' \subseteq Tasks
      BY DEF ServiceStep, CleanerTypeOK
    <2> QED BY <2>1, <2>2 DEF CleanerTypeOK
  <1>3. CASE UNCHANGED cleaner /\ ~Restart
    <2>1. \A t \in Tasks : Past(t) => Past(t)'
      BY <1>1, <1>3, NextAdvances DEF StagesAdvance, Advances
    <2>2. \A t \in Tasks : Past(t) /\ Old(t) => Old(t)'
      BY OldStays
    <2>3. \A t \in Tasks : t \in cleaner.due => Chosen(t)
      BY DEF Chosen
    <2>4. \A t \in Tasks : Chosen(t)' => Chosen(t)
      BY <1>3 DEF Chosen
    <2> QED BY <1>2, <1>3, <2>1, <2>2, <2>3, <2>4 DEF CleanerInv
  <1>4. CASE cleaner' \in {NewCleaner, [Waiting EXCEPT !.pc = "exited"]}
    BY <1>2, <1>4, NewCleanerFields DEF CleanerInv, Chosen
  <1> QED BY <1>2, <1>3, <1>4, ServiceLeavesCleaner DEF Known

(* The same of the containers listed by docker ps, up to the first         *)
(* restart.                                                                *)
LEMMA ServiceKeepsOrphanInv ==
    ASSUME Known, CleanerTypeOK, restarts = 0 => OrphanInv, ServiceStep, restarts' = 0
    PROVE  OrphanInv'
  <1>1. Next
    BY DEF ServiceStep
  <1>2. ~Restart
    BY DEF Restart, Known, TypeOK, DataTypeOK
  <1>0. OrphanInv
    BY <1>1, <1>2, OnlyRestartCounts
  <1>3. \A t \in Tasks : Past(t) => Past(t)'
    BY <1>1, <1>2, NextAdvances DEF StagesAdvance, Advances
  <1>4. \A t \in Tasks : t \in containers' /\ (t \in containers => Past(t)) => Past(t)'
    BY <1>1, <1>2, ContainersPast
  <1>5. \A t \in Tasks : Past(t) /\ Old(t) => Old(t)'
    BY OldStays
  <1>6. recover' \subseteq recover
    <2>1. CASE \E u \in Tasks : RecoverNext(u)
      BY <2>1 DEF RecoverNext
    <2>2. CASE ~(\E u \in Tasks : RecoverNext(u))
      BY <1>1, <1>2, <2>2 DEF Next, SubmitStep, SubmitCheck, SubmitAdd, SubmitEnqueue, SubmitFull,
         SubmitFail, SendStep, SendCheck, SendReserve, SendEnqueue, SendFull, SendUndo,
         CloseStep, CloseGet, CloseCancel, CloseRelease, CloseStopQueued, CloseRemove,
         CloseRemoveFails, CloseMark, DispatchStep, Pop, Exit, TakeMessage, TaskCheck, ContCheck,
         BeginRun, Register, Deadline, DockerStep, StartContainer, StartFails, SinkContainer,
         StartHint, HintFails, AgentSession, AgentExits, AgentFails, AgentCancelled,
         CancelledRemove, FinishStep, NextRound, StopCheck, StoreResult, RemoveSolved, FailCheck,
         FailRun, ClearCancel, Release, ClearResults, CancelAllRuns, CloseDone, GraceOver,
         CloseReturns, ForceRemove, procVars
    <2> QED BY <2>1, <2>2
  <1>7. \/ UNCHANGED cleaner
        \/ cleaner'.pc # "rm" /\ cleaner'.ps = {} /\ cleaner'.orphans = {}
    BY ServiceLeavesCleaner, NewCleanerFields DEF Known
  <1>8. ASSUME NEW t \in Tasks, Condemned(t)'
        PROVE  Condemned(t)
    BY <1>7, <1>8 DEF Condemned
  <1>9. ASSUME NEW t \in Tasks, Seen(t)'
        PROVE  Past(t)'
    <2>1. t \in containers => Past(t)
      BY <1>0 DEF OrphanInv, Seen
    <2>2. CASE t \in containers'
      BY <1>4, <2>1, <2>2
    <2>3. CASE t \notin containers'
      <3>1. t \in cleaner.ps \cup cleaner.orphans
        BY <1>7, <1>9, <2>3 DEF Seen
      <3> QED BY <1>0, <1>3, <3>1 DEF OrphanInv, Seen
    <2> QED BY <2>2, <2>3
  <1> QED BY <1>0, <1>3, <1>5, <1>6, <1>8, <1>9 DEF OrphanInv

(* A step that leaves tasks and workers alone leaves the stages alone.     *)
LEMMA SamePast ==
    ASSUME NEW t \in Tasks, UNCHANGED <<task, recover, worker>>
    PROVE  Past(t)' <=> Past(t)
  BY DEF Past, Started

(* MarkContainerClosed on a record that the cleaner has chosen: it is past *)
(* its first run, and so no queued task is lost.                           *)
LEMMA ClosedByCleaner ==
    ASSUME ServiceInv, NEW u \in Tasks, Past(u), Update(u, MarkContainerClosed(task[u])),
           UNCHANGED <<containers, slotVars, runs, worker, clientVars, procVars>>
    PROVE  /\ ServiceInv'
           /\ \A t \in Tasks : Past(t)' <=> Past(t)
           /\ \A t \in Tasks \ {u} : task'[t] = task[t]
           /\ task'[u] = MarkContainerClosed(task[u])
  <1> USE DEF ServiceInv, Known
  <1>1. task'[u] = MarkContainerClosed(task[u]) /\ \A t \in Tasks \ {u} : task'[t] = task[t]
    BY StoredRecord DEF TypeOK
  <1>2. /\ UNCHANGED <<queue, busy, message, taken, submit, sender, closer>>
        /\ UNCHANGED <<phase, doomed, recover, restarts, dropped>>
    BY DEF slotVars, clientVars, procVars
  <1>3. task[u] \in Record /\ \A t \in Tasks : task[t] \in Record
    BY DEF TypeOK, DataTypeOK
  <1>4. Started(u) /\ task[u].status \notin {"absent", "queued"}
    BY DEF Past, Started
  <1>5. task'[u].status \notin {"absent", "queued", "running"} /\ ~task'[u].kept
    BY <1>1, <1>3, <1>4 DEF MarkContainerClosed, Record, Status
  <1>6. TypeOK'
    <2>1. task' \in [Tasks -> Record]
      BY <1>3, UpdateTypeOK, RecordTypes DEF TypeOK, DataTypeOK
    <2> QED BY <1>2, <2>1 DEF TypeOK, DataTypeOK, SlotTypeOK, WorkerTypeOK, ClientTypeOK
  <1>7. WorkersStay /\ (Done' <=> Done)
    BY <1>2 DEF WorkersStay, Done
  <1>8. \A t \in Tasks : InQueue(t)' <=> InQueue(t)
    BY <1>2 DEF InQueue
  <1>9. SlotInv'
    <2>1. \A t \in Tasks : SlotKept(t)
      BY <1>2 DEF SlotKept, SenderOn
    <2> QED BY <1>7, <1>8, <2>1, ClientKeepsSlotInv DEF QueueGrows
  <1>10. QueueInv'
    <2>1. \A t \in Tasks : RecordGoesOn(t)
      BY <1>1, <1>5 DEF RecordGoesOn, Present
    <2>2. \A t \in Tasks : SubmitGoesOn(t)
      <3>1. ASSUME NEW t \in Tasks
            PROVE  SubmitGoesOn(t)
        <4>1. submit'[t] \in {"new", "checked"} => t # u
          BY <1>2, <1>4 DEF QueueInv, PresentInv, NoRecord
        <4>2. submit'[t] \in {"new", "checked"} => task'[t] = NoRecord
          BY <1>1, <1>2, <4>1 DEF QueueInv, PresentInv
        <4>3. submit'[t] \in {"added", "full"} => Present(t)'
          BY <1>1, <1>2, <1>5 DEF QueueInv, PresentInv, Present
        <4> QED BY <1>2, <4>2, <4>3 DEF SubmitGoesOn
      <3> QED BY <3>1
    <2>3. \A s \in Senders : sender'[s].pc \in {"checked", "reserved"} =>
               sender'[s].task \in Tasks /\ Started(sender'[s].task) /\ recover = {}
      BY <1>2 DEF QueueInv, MessageInv, TypeOK, ClientTypeOK
    <2>4. \A t \in Tasks : message'[t] # NoMessage => Started(t) /\ recover = {}
      BY <1>2 DEF QueueInv, MessageInv
    <2>5. \A c \in Closers : closer'[c].pc \in ClosingPcs =>
               closer'[c].task \in Tasks /\ Present(closer'[c].task)
      BY <1>2 DEF QueueInv, PresentInv, TypeOK, ClientTypeOK, ClosingPcs
    <2> QED BY <1>2, <1>7, <1>8, <2>1, <2>2, <2>3, <2>4, <2>5, ClientQueueInv DEF QueueGrows
  <1>11. RunningTaskOwned'
    <2>1. \A t \in Tasks : task'[t].status = "running" => task[t].status = "running"
      BY <1>1, <1>5
    <2> QED BY <1>2, <2>1, RunUntouched
  <1>12. RegistryLive'
    BY RegistryUntouched
  <1>13. \A t \in Tasks : GoesTo(task[t], task'[t]) /\ KeepsTo(task[t], task'[t])
    BY <1>1, <1>3, RecordGoes, RecordKeeps
  <1>14. StagesAdvance
    BY <1>2, <1>7, <1>13, QuietStage
  <1>15. StageInv'
    BY <1>14 DEF StagesAdvance, Advances, StageInv
  <1>16. KeptNamed'
    BY <1>13 DEF KeptNamed, KeepsTo
  <1>17. \A t \in Tasks : Past(t)' <=> Past(t)
    <2>1. \A t \in Tasks : Past(t) => Past(t)'
      BY <1>14 DEF StagesAdvance, Advances
    <2>2. \A t \in Tasks \ {u} : Past(t)' => Past(t)
      BY <1>1, <1>2 DEF Past, Started
    <2> QED BY <2>1, <2>2
  <1> QED BY <1>1, <1>6, <1>9, <1>10, <1>11, <1>12, <1>15, <1>16, <1>17

(* The cleaner's steps that leave the service alone, and time. *)
LEMMA QuietService ==
    ASSUME ServiceInv, UNCHANGED <<task, slotVars, runs, worker, clientVars, procVars>>,
           containers' \subseteq containers
    PROVE  ServiceInv' /\ \A t \in Tasks : Past(t)' <=> Past(t)
  <1> USE DEF ServiceInv, Known
  <1>1. /\ UNCHANGED <<queue, busy, message, taken, submit, sender, closer>>
        /\ UNCHANGED <<phase, doomed, recover, restarts, dropped>>
    BY DEF slotVars, clientVars, procVars
  <1>2. TypeOK'
    BY <1>1 DEF TypeOK, DataTypeOK, SlotTypeOK, WorkerTypeOK, ClientTypeOK
  <1>3. /\ \A t \in Tasks : InQueue(t)' <=> InQueue(t)
        /\ \A t \in Tasks : QueuedOnce(t)' <=> QueuedOnce(t)
        /\ \A t \in Tasks : \A pcs : WorkerOn(t, pcs)' <=> WorkerOn(t, pcs)
        /\ \A t \in Tasks : \A pcs : SenderOn(t, pcs)' <=> SenderOn(t, pcs)
        /\ Done' <=> Done
    BY <1>1 DEF InQueue, QueuedOnce, WorkerOn, SenderOn, Done
  <1>4. SlotInv'
    BY <1>1, <1>3 DEF SlotInv, ContinuationOn
  <1>5. QueueInv'
    BY <1>1, <1>3 DEF QueueInv, MessageInv, PresentInv, QueuedTaskOwned, Present, Started
  <1>6. RunningTaskOwned' /\ RegistryLive' /\ KeptNamed'
    BY <1>1, <1>3 DEF RunningTaskOwned, RegistryLive, KeptNamed
  <1>7. \A t \in Tasks : Past(t)' <=> Past(t)
    BY <1>1 DEF Past, Started
  <1>8. \A t \in Tasks : First(t)' <=> First(t)
    BY <1>1, <1>3 DEF First, Started
  <1>9. StageInv'
    BY <1>7, <1>8 DEF StageInv
  <1> QED BY <1>2, <1>4, <1>5, <1>6, <1>7, <1>9

(* The inductive invariant of the composed system.                         *)
CleanInv == ServiceInv /\ CleanerTypeOK /\ ExpiredInv /\ CleanerInv

(* What the expiry of a record needs to know of a step of the cleaner. *)
LEMMA ExpiredUntouched ==
    ASSUME ExpiredInv, expired \subseteq Tasks, UNCHANGED expired,
           \A t \in Tasks : Past(t)' <=> Past(t),
           \A t \in Tasks : Old(t) => Old(t)',
           \A t \in Tasks : HeldOrStopped(task[t]) => HeldOrStopped(task'[t])
    PROVE  ExpiredInv'
  BY DEF ExpiredInv

(* A docker rm leaves the remaining containers as old as they were. *)
LEMMA RemovedOld ==
    ASSUME NEW u, \/ UNCHANGED <<containers, aged>>
                  \/ containers' = containers \ {u} /\ aged' = aged \ {u}
    PROVE  \A t \in Tasks : Old(t) => Old(t)'
  BY DEF Old

(* The snapshot of the records is taken after docker ps: what is retained  *)
(* then is past its first run, and old if it is due.                       *)
LEMMA ListChooses ==
    ASSUME ServiceInv, ExpiredInv, NEW t \in Tasks, NEW ps
    PROVE  /\ Gone(t, ps) \/ Due(t, ps) => Past(t)
           /\ Due(t, ps) => Old(t)
  <1>1. task[t].kept => Past(t)
    BY DEF ServiceInv, Known, StageInv, First
  <1>2. Due(t, ps) => ~HeldOrStopped(task[t])
    BY DEF Due, HeldOrStopped
  <1> QED BY <1>1, <1>2 DEF Gone, Due, ExpiredInv

(* Every step of the cleaner keeps all invariants.                         *)
LEMMA CleanerStepInv ==
    ASSUME CleanInv, CleanerStep
    PROVE  CleanInv'
  <1> USE DEF CleanInv
  <1>0. cleaner \in CleanerState /\ aged \subseteq Tasks /\ expired \subseteq Tasks
    BY DEF CleanerTypeOK
  <1>1. ASSUME UNCHANGED <<vars, aged, expired>>, cleaner' \in CleanerState,
               \A t \in Tasks : Chosen(t)' => Chosen(t) \/ Past(t),
               \A t \in Tasks : t \in cleaner'.due => t \in cleaner.due \/ Old(t),
               cleaner'.pc \in {"mark", "rm"} => cleaner'.at \in Tasks
        PROVE  CleanInv'
    <2>1. /\ UNCHANGED <<task, slotVars, runs, worker, clientVars, procVars>>
          /\ containers' = containers
      BY <1>1 DEF vars
    <2>2. ServiceInv' /\ \A t \in Tasks : Past(t)' <=> Past(t)
      BY <2>1, QuietService
    <2>3. \A t \in Tasks : Old(t)' <=> Old(t)
      BY <1>1, <2>1 DEF Old
    <2>4. ExpiredInv'
      BY <1>0, <1>1, <2>1, <2>2, <2>3, ExpiredUntouched
    <2>5. CleanerInv'
      BY <1>1, <2>2, <2>3 DEF CleanerInv
    <2>6. CleanerTypeOK'
      BY <1>0, <1>1 DEF CleanerTypeOK
    <2> QED BY <2>2, <2>4, <2>5, <2>6
  <1>2. CASE CleanPs
    <2> DEFINE c == [cleaner EXCEPT !.pc = "list", !.ps = containers]
    <2>1. /\ c \in CleanerState /\ c.pc = "list" /\ c.gone = cleaner.gone /\ c.due = cleaner.due
      BY <1>0 DEF CleanerState, CleanerPcs, ServiceInv, Known, TypeOK, DataTypeOK
    <2>2. cleaner' = c /\ UNCHANGED <<vars, aged, expired>>
      BY <1>2 DEF CleanPs
    <2> HIDE DEF c
    <2> QED BY <1>1, <2>1, <2>2 DEF Chosen
  <1>3. CASE CleanPsFails \/ CleanFinished
    <2>1. cleaner' = Waiting /\ UNCHANGED <<vars, aged, expired>>
      BY <1>3 DEF CleanPsFails, CleanFinished
    <2> QED BY <1>1, <2>1, NewCleanerFields DEF Chosen
  <1>4. CASE Tick
    <2>1. cleaner' = NewCleaner /\ UNCHANGED <<vars, aged, expired>>
      BY <1>4 DEF Tick
    <2> QED BY <1>1, <2>1, NewCleanerFields DEF Chosen
  <1>5. CASE CleanList
    <2> DEFINE named == {t \in Tasks : task[t].named}
               gone == {t \in named : Gone(t, cleaner.ps)}
               due == {t \in named : Due(t, cleaner.ps)}
               c == [cleaner EXCEPT !.pc = "scan", !.gone = gone, !.due = due,
                                    !.orphans = cleaner.ps \ named]
    <2>1. gone \subseteq Tasks /\ due \subseteq Tasks
      OBVIOUS
    <2>2. \A t \in Tasks : (t \in gone \cup due => Past(t)) /\ (t \in due => Old(t))
      BY ListChooses
    <2>3. cleaner' = c /\ UNCHANGED <<vars, aged, expired>>
      BY <1>5 DEF CleanList
    <2> HIDE DEF gone, due, named
    <2>4. c \in CleanerState /\ c.pc = "scan" /\ c.gone = gone /\ c.due = due
      BY <1>0, <2>1 DEF CleanerState, CleanerPcs
    <2> HIDE DEF c
    <2> QED BY <1>1, <2>2, <2>3, <2>4 DEF Chosen
  <1>6. CASE CleanOrphans
    <2> DEFINE c == [cleaner EXCEPT !.pc = "orphans"]
    <2>1. c \in CleanerState /\ c.pc = "orphans" /\ c.gone = cleaner.gone /\ c.due = cleaner.due
      BY <1>0 DEF CleanerState, CleanerPcs
    <2>2. cleaner' = c /\ UNCHANGED <<vars, aged, expired>>
      BY <1>6 DEF CleanOrphans
    <2> HIDE DEF c
    <2> QED BY <1>1, <2>1, <2>2 DEF Chosen
  <1>7. CASE CleanerExit
    <2> DEFINE c == [cleaner EXCEPT !.pc = "exited"]
    <2>1. c \in CleanerState /\ c.pc = "exited" /\ c.gone = cleaner.gone /\ c.due = cleaner.due
      BY <1>0 DEF CleanerState, CleanerPcs
    <2>2. cleaner' = c /\ UNCHANGED <<vars, aged, expired>>
      BY <1>7 DEF CleanerExit
    <2> HIDE DEF c
    <2> QED BY <1>1, <2>1, <2>2 DEF Chosen
  <1>8. ASSUME NEW u \in Tasks, CleanExpiredFails(u)
        PROVE  CleanInv'
    <2> DEFINE c == [cleaner EXCEPT !.due = cleaner.due \ {u}]
    <2>1. /\ c \in CleanerState /\ c.pc = cleaner.pc /\ c.at = cleaner.at
          /\ c.gone = cleaner.gone /\ c.due = cleaner.due \ {u}
      BY <1>0 DEF CleanerState
    <2>2. cleaner' = c /\ UNCHANGED <<vars, aged, expired>>
      BY <1>8 DEF CleanExpiredFails
    <2> HIDE DEF c
    <2> QED BY <1>1, <2>1, <2>2 DEF Chosen, CleanerInv
  <1>9. ASSUME NEW u \in Tasks, CleanInspect(u)
        PROVE  CleanInv'
    <2> DEFINE old == u \in containers /\ u \in aged
               c == [cleaner EXCEPT !.orphans = cleaner.orphans \ {u},
                                    !.pc = IF old THEN "rm" ELSE "orphans",
                                    !.at = IF old THEN u ELSE NoTask]
    <2>1. /\ c \in CleanerState /\ c.pc = (IF old THEN "rm" ELSE "orphans")
          /\ c.at = (IF old THEN u ELSE NoTask)
          /\ c.gone = cleaner.gone /\ c.due = cleaner.due
      BY <1>0 DEF CleanerState, CleanerPcs
    <2>2. cleaner' = c /\ UNCHANGED <<vars, aged, expired>>
      BY <1>9 DEF CleanInspect
    <2> HIDE DEF c, old
    <2> QED BY <1>1, <2>1, <2>2 DEF Chosen
  <1>10. ASSUME NEW u \in Tasks, cleaner.pc \in {"scan", "mark"}, Past(u),
                Update(u, MarkContainerClosed(task[u])),
                UNCHANGED <<containers, slotVars, runs, worker, clientVars, procVars>>,
                UNCHANGED <<aged, expired>>,
                cleaner' \in CleanerState, cleaner'.pc = "scan",
                cleaner'.gone \subseteq cleaner.gone, cleaner'.due = cleaner.due
         PROVE  CleanInv'
    <2>1. /\ ServiceInv' /\ \A t \in Tasks : Past(t)' <=> Past(t)
          /\ \A t \in Tasks \ {u} : task'[t] = task[t]
          /\ task'[u] = MarkContainerClosed(task[u])
      BY <1>10, ClosedByCleaner
    <2>2. \A t \in Tasks : Old(t)' <=> Old(t)
      BY <1>10 DEF Old
    <2>3. HeldOrStopped(task[u]) => HeldOrStopped(task'[u])
      <3>1. task[u] \in Record
        BY DEF ServiceInv, Known, TypeOK, DataTypeOK
      <3> QED BY <2>1, <3>1 DEF HeldOrStopped, MarkContainerClosed, Record
    <2>4. ExpiredInv'
      BY <1>0, <1>10, <2>1, <2>2, <2>3, ExpiredUntouched
    <2>5. CleanerInv'
      BY <1>10, <2>1, <2>2 DEF CleanerInv, Chosen
    <2> QED BY <1>0, <1>10, <2>1, <2>4, <2>5 DEF CleanerTypeOK
  <1>11. ASSUME NEW u \in Tasks, CleanGone(u)
         PROVE  CleanInv'
    <2> DEFINE c == [cleaner EXCEPT !.gone = cleaner.gone \ {u}]
    <2>1. /\ c \in CleanerState /\ c.pc = cleaner.pc
          /\ c.gone = cleaner.gone \ {u} /\ c.due = cleaner.due
      BY <1>0 DEF CleanerState
    <2>2. /\ cleaner' = c /\ cleaner.pc = "scan" /\ u \in cleaner.gone
          /\ Update(u, MarkContainerClosed(task[u]))
          /\ UNCHANGED <<containers, slotVars, runs, worker, clientVars, procVars, aged, expired>>
      BY <1>11 DEF CleanGone
    <2>3. Past(u)
      BY <2>2 DEF CleanerInv, Chosen
    <2> HIDE DEF c
    <2> QED BY <1>10, <2>1, <2>2, <2>3
  <1>12. CASE CleanMark
    <2> DEFINE c == [cleaner EXCEPT !.pc = "scan", !.at = NoTask]
    <2>1. PICK u \in Tasks : u = cleaner.at
      BY <1>12 DEF CleanMark, CleanerInv
    <2>2. c \in CleanerState /\ c.pc = "scan" /\ c.gone = cleaner.gone /\ c.due = cleaner.due
      BY <1>0 DEF CleanerState, CleanerPcs
    <2>3. /\ cleaner' = c /\ cleaner.pc = "mark"
          /\ Update(u, MarkContainerClosed(task[u]))
          /\ UNCHANGED <<containers, slotVars, runs, worker, clientVars, procVars, aged, expired>>
      BY <1>12, <2>1 DEF CleanMark
    <2>4. Past(u)
      BY <2>1, <2>3 DEF CleanerInv, Chosen
    <2> HIDE DEF c
    <2> QED BY <1>10, <2>2, <2>3, <2>4
  <1>13. ASSUME NEW u \in Tasks,
                UNCHANGED <<task, slotVars, runs, worker, clientVars, procVars, expired>>,
                \/ UNCHANGED <<containers, aged>>
                \/ containers' = containers \ {u} /\ aged' = aged \ {u},
                cleaner' \in CleanerState,
                \A t \in Tasks : Chosen(t)' => Chosen(t),
                cleaner'.due \subseteq cleaner.due,
                cleaner'.pc \in {"mark", "rm"} => cleaner'.at \in Tasks
         PROVE  CleanInv'
    <2>1. ServiceInv' /\ \A t \in Tasks : Past(t)' <=> Past(t)
      BY <1>13, QuietService
    <2>2. \A t \in Tasks : Old(t) => Old(t)'
      BY <1>13, RemovedOld
    <2>3. ExpiredInv'
      BY <1>0, <1>13, <2>1, <2>2, ExpiredUntouched
    <2>4. CleanerInv'
      BY <1>13, <2>1, <2>2 DEF CleanerInv
    <2> QED BY <1>0, <1>13, <2>1, <2>3, <2>4 DEF CleanerTypeOK
  <1>14. ASSUME NEW u \in Tasks, CleanExpired(u)
         PROVE  CleanInv'
    <2> DEFINE c == [cleaner EXCEPT !.pc = "mark", !.due = cleaner.due \ {u}, !.at = u]
    <2>1. /\ c \in CleanerState /\ c.pc = "mark" /\ c.at = u
          /\ c.gone = cleaner.gone /\ c.due = cleaner.due \ {u}
      BY <1>0 DEF CleanerState, CleanerPcs
    <2>2. /\ cleaner' = c /\ u \in cleaner.due
          /\ containers' = containers \ {u} /\ aged' = aged \ {u}
          /\ UNCHANGED <<task, slotVars, runs, worker, clientVars, procVars, expired>>
      BY <1>14 DEF CleanExpired
    <2> HIDE DEF c
    <2>3. \A t \in Tasks : Chosen(t)' => Chosen(t)
      BY <2>1, <2>2 DEF Chosen
    <2> QED BY <1>13, <2>1, <2>2, <2>3
  <1>15. CASE CleanOrphan
    <2> DEFINE c == [cleaner EXCEPT !.pc = "orphans", !.at = NoTask]
    <2>1. PICK u \in Tasks : u = cleaner.at
      BY <1>15 DEF CleanOrphan, CleanerInv
    <2>2. c \in CleanerState /\ c.pc = "orphans" /\ c.gone = cleaner.gone /\ c.due = cleaner.due
      BY <1>0 DEF CleanerState, CleanerPcs
    <2>3. /\ cleaner' = c
          /\ \/ UNCHANGED <<containers, aged>>
             \/ containers' = containers \ {u} /\ aged' = aged \ {u}
          /\ UNCHANGED <<task, slotVars, runs, worker, clientVars, procVars, expired>>
      BY <1>15, <2>1 DEF CleanOrphan
    <2> HIDE DEF c
    <2>4. \A t \in Tasks : Chosen(t)' => Chosen(t)
      BY <2>2, <2>3 DEF Chosen
    <2> QED BY <1>13, <2>2, <2>3, <2>4
  <1> QED BY <1>2, <1>3, <1>4, <1>5, <1>6, <1>7, <1>8, <1>9, <1>11, <1>12, <1>14, <1>15
          DEF CleanerStep

(* What a step of the cleaner does to its two snapshots. *)
LEMMA CleanerMoves ==
    ASSUME cleaner \in CleanerState, CleanerStep
    PROVE  /\ cleaner'.ps \subseteq cleaner.ps \cup containers
           /\ cleaner'.orphans \subseteq cleaner.orphans \cup cleaner.ps
           /\ cleaner'.pc = "rm" => \E u \in Tasks : CleanInspect(u)
  <1>1. CASE CleanPsFails \/ CleanFinished \/ Tick
    BY <1>1, NewCleanerFields DEF CleanPsFails, CleanFinished, Tick
  <1>2. CASE CleanPs \/ CleanOrphans \/ CleanerExit
    BY <1>2 DEF CleanPs, CleanOrphans, CleanerExit, CleanerState
  <1>3. CASE CleanList
    BY <1>3 DEF CleanList, CleanerState
  <1>4. CASE CleanMark \/ CleanOrphan
    BY <1>4 DEF CleanMark, CleanOrphan, CleanerState
  <1>5. ASSUME NEW u \in Tasks, CleanGone(u) \/ CleanExpired(u) \/ CleanExpiredFails(u)
        PROVE  /\ cleaner'.ps \subseteq cleaner.ps \cup containers
               /\ cleaner'.orphans \subseteq cleaner.orphans \cup cleaner.ps
               /\ cleaner'.pc # "rm"
    BY <1>5 DEF CleanGone, CleanExpired, CleanExpiredFails, CleanerState
  <1>6. ASSUME NEW u \in Tasks, CleanInspect(u)
        PROVE  /\ cleaner'.ps \subseteq cleaner.ps \cup containers
               /\ cleaner'.orphans \subseteq cleaner.orphans \cup cleaner.ps
    BY <1>6 DEF CleanInspect, CleanerState
  <1> QED BY <1>1, <1>2, <1>3, <1>4, <1>5, <1>6 DEF CleanerStep

(* A container found without a record that tracks it is Past, as docker ps *)
(* listed it before.                                                       *)
LEMMA CleanerKeepsOrphanInv ==
    ASSUME CleanInv, OrphanInv, CleanerStep
    PROVE  OrphanInv'
  <1> USE DEF CleanInv
  <1>0. cleaner \in CleanerState
    BY DEF CleanerTypeOK
  <1>1. UNCHANGED recover
    BY DEF CleanerStep, CleanPs, CleanPsFails, CleanList, CleanMark, CleanGone, CleanExpired,
       CleanExpiredFails, CleanInspect, CleanOrphans, CleanOrphan, CleanFinished, Tick,
       CleanerExit, vars, procVars
  <1>2. containers' \subseteq containers
    BY DEF CleanerStep, CleanPs, CleanPsFails, CleanList, CleanMark, CleanGone, CleanExpired,
       CleanExpiredFails, CleanInspect, CleanOrphans, CleanOrphan, CleanFinished, Tick,
       CleanerExit, vars
  <1>3. \A t \in Tasks : Past(t) => Past(t)'
    <2>1. ASSUME NEW u \in Tasks, Past(u), Update(u, MarkContainerClosed(task[u])),
                 UNCHANGED <<containers, slotVars, runs, worker, clientVars, procVars>>
          PROVE  \A t \in Tasks : Past(t) => Past(t)'
      BY <2>1, ClosedByCleaner
    <2>2. CASE CleanMark
      <3>1. PICK u \in Tasks : u = cleaner.at
        BY <2>2 DEF CleanMark, CleanerInv
      <3>2. Past(u)
        BY <2>2, <3>1 DEF CleanMark, CleanerInv, Chosen
      <3> QED BY <2>1, <2>2, <3>1, <3>2 DEF CleanMark
    <2>3. ASSUME NEW u \in Tasks, CleanGone(u)
          PROVE  \A t \in Tasks : Past(t) => Past(t)'
      <3>1. Past(u)
        BY <2>3 DEF CleanGone, CleanerInv, Chosen
      <3> QED BY <2>1, <2>3, <3>1 DEF CleanGone
    <2>4. CASE ~CleanMark /\ ~(\E u \in Tasks : CleanGone(u))
      <3>1. UNCHANGED <<task, recover, worker>>
        BY <2>4 DEF CleanerStep, CleanPs, CleanPsFails, CleanList, CleanExpired,
           CleanExpiredFails, CleanInspect, CleanOrphans, CleanOrphan, CleanFinished, Tick,
           CleanerExit, vars, procVars
      <3> QED BY <3>1, SamePast
    <2> QED BY <2>2, <2>3, <2>4
  <1>4. /\ cleaner'.ps \subseteq cleaner.ps \cup containers
        /\ cleaner'.orphans \subseteq cleaner.orphans \cup cleaner.ps
        /\ cleaner'.pc = "rm" => \E u \in Tasks : CleanInspect(u)
    BY <1>0, CleanerMoves
  <1>5. ASSUME NEW t \in Tasks, Condemned(t)'
        PROVE  Seen(t) /\ Old(t)'
    <2>1. PICK u \in Tasks : CleanInspect(u)
      BY <1>4, <1>5 DEF Condemned
    <2>2. t = u /\ u \in cleaner.orphans /\ u \in aged /\ UNCHANGED <<containers, aged>>
      BY <1>0, <1>5, <2>1 DEF CleanInspect, Condemned, CleanerState, vars
    <2> QED BY <2>2 DEF Seen, Old
  <1>6. \A t \in Tasks : Seen(t)' => Seen(t)
    BY <1>2, <1>4 DEF Seen
  <1> QED BY <1>1, <1>3, <1>5, <1>6 DEF OrphanInv

(* Time only makes a container, or the end of a run, older. *)
LEMMA TimeStepInv ==
    ASSUME CleanInv, NEW u \in Tasks, ContainerAges(u) \/ RecordExpires(u)
    PROVE  CleanInv' /\ (OrphanInv => OrphanInv')
  <1> USE DEF CleanInv
  <1>1. UNCHANGED <<vars, cleaner>>
    BY DEF ContainerAges, RecordExpires
  <1>2. UNCHANGED <<task, containers, slotVars, runs, worker, clientVars, procVars>>
    BY <1>1 DEF vars
  <1>3. ServiceInv' /\ \A t \in Tasks : Past(t)' <=> Past(t)
    BY <1>2, QuietService
  <1>4. aged \subseteq aged' /\ CleanerTypeOK'
    BY <1>1 DEF ContainerAges, RecordExpires, CleanerTypeOK
  <1>5. \A t \in Tasks : Old(t) => Old(t)'
    BY <1>2, <1>4 DEF Old
  <1>6. \A t \in expired' : t \in expired \/ Old(t)
    BY DEF ContainerAges, RecordExpires, Old
  <1>7. expired' \subseteq Tasks
    BY <1>4 DEF CleanerTypeOK
  <1>8. ExpiredInv'
    BY <1>2, <1>3, <1>5, <1>6, <1>7 DEF ExpiredInv
  <1>9. CleanerInv'
    BY <1>1, <1>3, <1>5 DEF CleanerInv, Chosen
  <1>10. OrphanInv => OrphanInv'
    BY <1>1, <1>2, <1>3, <1>5 DEF OrphanInv, Seen, Condemned, procVars
  <1> QED BY <1>3, <1>4, <1>8, <1>9, <1>10

(* Stuttering.                                                             *)
LEMMA StoppedInv ==
    ASSUME CleanInv, UNCHANGED allVars
    PROVE  CleanInv' /\ (OrphanInv => OrphanInv')
  <1> USE DEF CleanInv
  <1>1. UNCHANGED <<task, containers, slotVars, runs, worker, clientVars, procVars>>
    BY DEF allVars, vars
  <1>2. UNCHANGED <<cleaner, aged, expired>>
    BY DEF allVars, cleanerVars
  <1>3. ServiceInv' /\ \A t \in Tasks : Past(t)' <=> Past(t)
    BY <1>1, QuietService
  <1>4. \A t \in Tasks : Old(t)' <=> Old(t)
    BY <1>1, <1>2 DEF Old
  <1>5. ExpiredInv' /\ CleanerTypeOK' /\ CleanerInv'
    BY <1>1, <1>2, <1>3, <1>4 DEF ExpiredInv, CleanerTypeOK, CleanerInv, Chosen
  <1>6. OrphanInv => OrphanInv'
    BY <1>1, <1>2, <1>3, <1>4 DEF OrphanInv, Seen, Condemned, procVars
  <1> QED BY <1>3, <1>5, <1>6

LEMMA CleanInvInit == CleanerInit => CleanInv /\ OrphanInv
  <1> SUFFICES ASSUME CleanerInit
               PROVE  CleanInv /\ OrphanInv
    OBVIOUS
  <1>1. Init /\ cleaner = NewCleaner /\ aged = {} /\ expired = {}
    BY DEF CleanerInit
  <1>2. TypeOK /\ QueueInv
    BY <1>1, InitTypeOK, QueueInvInit
  <1>3. SlotInv
    BY <1>1 DEF Init, SlotInv, IdleWorker, NoMessagePcs
  <1>4. RunningTaskOwned /\ RegistryLive /\ KeptNamed
    BY <1>1 DEF Init, NoRecord, RunningTaskOwned, RegistryLive, KeptNamed
  <1>5. \A t \in Tasks : ~task[t].kept /\ Unsettled(task[t])
    BY <1>1 DEF Init, NoRecord, Unsettled
  <1>6. /\ \A w \in Workers : worker[w].task = NoTask /\ worker[w].pc = "idle"
        /\ \A s \in Senders : sender[s].pc = "new"
        /\ \A t \in Tasks : submit[t] = "new" /\ message[t] = NoMessage
        /\ queue = <<>> /\ recover = {}
    BY <1>1 DEF Init, IdleWorker, NewSender
  <1>7. \A t \in Tasks : ~SenderOn(t, {"checked", "reserved", "undo"}) /\ ~WorkerOn(t, StartingPcs)
    BY <1>6 DEF SenderOn, WorkerOn, StartingPcs
  <1>8. StageInv
    BY <1>5, <1>6, <1>7, NoTaskAssumption DEF StageInv, First, QueuedOnce, InQueue
  <1>9. CleanerTypeOK /\ CleanerInv /\ ExpiredInv
    BY <1>1, NewCleanerFields DEF CleanerTypeOK, CleanerInv, Chosen, ExpiredInv
  <1>10. OrphanInv
    BY <1>1, NewCleanerFields DEF Init, OrphanInv, Seen, Condemned
  <1> QED BY <1>2, <1>3, <1>4, <1>8, <1>9, <1>10 DEF CleanInv, ServiceInv, Known

(* The invariants together are inductive.                                  *)
LEMMA CleanInvStep ==
    ASSUME CleanInv, [CleanerNext]_allVars
    PROVE  CleanInv'
  <1>1. CASE ServiceStep
    <2>1. ServiceInv'
      BY <1>1, ServiceStepInv DEF CleanInv, ServiceStep
    <2>2. CleanerTypeOK' /\ CleanerInv'
      BY <1>1, ServiceKeepsCleanerInv DEF CleanInv, ServiceInv
    <2>3. ExpiredInv'
      BY <1>1, ExpiredInvStep DEF CleanInv, ServiceInv, CleanerTypeOK
    <2> QED BY <2>1, <2>2, <2>3 DEF CleanInv
  <1> QED BY <1>1, CleanerStepInv, TimeStepInv, StoppedInv DEF CleanerNext

LEMMA OrphanInvStep ==
    ASSUME CleanInv, restarts = 0 => OrphanInv, [CleanerNext]_allVars
    PROVE  (restarts = 0 => OrphanInv)'
  <1>1. CASE ServiceStep
    BY <1>1, ServiceKeepsOrphanInv DEF CleanInv, ServiceInv
  <1>2. CASE CleanerStep
    <2>1. UNCHANGED restarts
      BY <1>2 DEF CleanerStep, CleanPs, CleanPsFails, CleanList, CleanMark, CleanGone,
         CleanExpired, CleanExpiredFails, CleanInspect, CleanOrphans, CleanOrphan, CleanFinished,
         Tick, CleanerExit, vars, procVars
    <2> QED BY <1>2, <2>1, CleanerKeepsOrphanInv
  <1>3. CASE UNCHANGED allVars \/ \E t \in Tasks : ContainerAges(t) \/ RecordExpires(t)
    <2>1. UNCHANGED restarts
      BY <1>3 DEF ContainerAges, RecordExpires, allVars, vars, procVars
    <2> QED BY <1>3, <2>1, TimeStepInv, StoppedInv
  <1> QED BY <1>1, <1>2, <1>3 DEF CleanerNext

LEMMA CleanInvHolds == CleanerSpec => []CleanInv
  <1>1. CleanerInit => CleanInv
    BY CleanInvInit
  <1>2. CleanInv /\ [CleanerNext]_allVars => CleanInv'
    BY CleanInvStep
  <1> QED BY <1>1, <1>2, PTL DEF CleanerSpec

(* The types of the composed system (retentionCleaner beside the service). *)
THEOREM CleanerTypes == CleanerSpec => [](TypeOK /\ CleanerTypeOK)
  <1>1. CleanInv => TypeOK /\ CleanerTypeOK
    BY DEF CleanInv, ServiceInv, Known
  <1> QED BY <1>1, CleanInvHolds, PTL

(* What the service promises of slots, queued and running tasks and the    *)
(* registry, it promises beside the cleaner too, whose MarkContainerClosed *)
(* changes records between any two of its steps.                           *)
THEOREM CleanerKeepsService ==
    CleanerSpec => [](NoLeakedReservation /\ QueuedTaskOwned /\ RunningTaskOwned /\ RegistryLive)
  <1>1. CleanInv => NoLeakedReservation /\ QueuedTaskOwned /\ RunningTaskOwned /\ RegistryLive
    BY DEF CleanInv, ServiceInv, Known, SlotInv, NoLeakedReservation, QueueInv
  <1> QED BY <1>1, CleanInvHolds, PTL

(* A container that the cleaner removes because its record is expired was  *)
(* created a retention time ago, through any crash and restart: the tasks  *)
(* listed after docker ps get no new container.                            *)
THEOREM ExpiredContainersAreOld ==
    CleanerSpec => [][\A t \in Tasks : CleanExpired(t) => (t \in containers => t \in aged)]_allVars
  <1>1. CleanInv => (\A t \in Tasks : CleanExpired(t) => (t \in containers => t \in aged))
    BY DEF CleanInv, CleanerInv, CleanExpired, Old
  <1> QED BY <1>1, CleanInvHolds, PTL

(* Until the process is first restarted the same holds of the containers   *)
(* it removes as orphans (cleanupExpiredContainers), however old its two   *)
(* snapshots are.                                                          *)
THEOREM OrphansAreOld ==
    CleanerSpec => [][restarts = 0 => \A t \in Tasks : CleanOrphan /\ cleaner.at = t
                                         => (t \in containers => t \in aged)]_allVars
  <1>1. CleanerInit => (restarts = 0 => OrphanInv)
    BY CleanInvInit
  <1>2. CleanInv /\ (restarts = 0 => OrphanInv) /\ [CleanerNext]_allVars
           => (restarts = 0 => OrphanInv)'
    BY OrphanInvStep
  <1>3. (restarts = 0 => OrphanInv) =>
           (restarts = 0 => \A t \in Tasks : CleanOrphan /\ cleaner.at = t
                                         => (t \in containers => t \in aged))
    BY DEF OrphanInv, CleanOrphan, Condemned, Old
  <1> QED BY <1>1, <1>2, <1>3, CleanInvHolds, PTL DEF CleanerSpec

(* So a service that is not restarted never loses a fresh container to the *)
(* cleaner.                                                                *)
THEOREM FreshContainersKept ==
    ASSUME MaxRestarts = 0
    PROVE  CleanerSpec => FreshContainerKept
  <1>1. TypeOK => restarts = 0
    BY DEF TypeOK, DataTypeOK
  <1>2. (restarts = 0 => \A t \in Tasks : CleanOrphan /\ cleaner.at = t
                                         => (t \in containers => t \in aged))
        /\ (\A t \in Tasks : CleanExpired(t) => (t \in containers => t \in aged))
        /\ restarts = 0
        => (\A t \in Tasks : CleanExpired(t) \/ (CleanOrphan /\ cleaner.at = t)
                             => (t \in containers => t \in aged))
    OBVIOUS
  <1> QED BY <1>1, <1>2, CleanerTypes, ExpiredContainersAreOld, OrphansAreOld, PTL
          DEF FreshContainerKept
=============================================================================
