------------------------- MODULE TaskLifecycleProofs -------------------------
(***************************************************************************)
(* What holds as long as nobody asks for a stop: a task is led to its next *)
(* run by one queue entry, handler, worker or recovery at a time, and the  *)
(* task service implements TaskLifecycle. Where nothing else cancels a run *)
(* either, the records and Docker agree.                                   *)
(***************************************************************************)
EXTENDS TaskServiceProofs

(* The outcome of a run is stored. *)
Settled(t) == task[t].status \notin {"absent", "queued", "running"}

(* A worker leads its task from the moment it takes the id from the queue  *)
(* to the stored outcome; with a message it holds the slot to the release. *)
LeadPcs == {"picked", "taskCheck", "contCheck", "mark"} \cup ActivePcs
Leading(w) == worker[w].pc \in LeadPcs \/ worker[w].msg # NoMessage

Submitting(t) == submit[t] \in {"added", "full"}
Reserving(t) == SenderOn(t, {"reserved", "undo"})
Led(t) == \E w \in Workers : worker[w].task = t /\ Leading(w)

(* Of the five ways to lead a task no two are taken at once. *)
LeadAlone(t) ==
    /\ Submitting(t) => ~InQueue(t) /\ ~Led(t) /\ t \notin recover /\ ~Reserving(t)
    /\ InQueue(t) => ~Led(t) /\ t \notin recover /\ ~Reserving(t)
    /\ Led(t) => t \notin recover /\ ~Reserving(t)
    /\ t \in recover => ~Reserving(t)

QueueOnce == \A i, j \in 1..Len(queue) : queue[i] = queue[j] => i = j

LedOnce ==
    \A w, v \in Workers :
        Leading(w) /\ Leading(v) /\ worker[w].task = worker[v].task => w = v

OneLead == QueueOnce /\ LedOnce /\ \A t \in Tasks : LeadAlone(t)

(* What the record of a task says depends on who leads it. *)
TaskFits(t) ==
    /\ Submitting(t) => task[t].status = "queued"
    /\ InQueue(t) /\ message[t] = NoMessage => task[t].status = "queued"
    /\ t \in recover => task[t].status \in {"queued", "running"}
    /\ message[t] # NoMessage =>
          /\ Settled(t)
          /\ sender[message[t]].task = t
          /\ sender[message[t]].pc \in {"reserved", "undo", "accepted"}

WorkerFits(w) ==
    LET t == worker[w].task
        pc == worker[w].pc
        first == worker[w].msg = NoMessage IN
    /\ pc \in {"idle", "exited", "picked", "taskCheck"} => first
    /\ pc \in {"contCheck", "release"} => ~first
    /\ ~first => t \in busy
    /\ Leading(w) /\ pc # "picked" => message[t] = NoMessage
    /\ pc \in {"picked", "taskCheck", "mark"} /\ first /\ message[t] = NoMessage =>
          task[t].status = "queued"
    /\ pc \in {"contCheck", "mark"} /\ ~first => Settled(t)
    /\ pc \in ActivePcs => task[t].status = "running"

(* A handler that has found the task continuable may still be on its way   *)
(* when another continuation begins, but never when a first run does.      *)
SenderFits(s) ==
    /\ sender[s].pc \in {"reserved", "undo"} => message[sender[s].task] = s
    /\ sender[s].pc = "checked" =>
          /\ phase # "exited"
          /\ \A w \in Workers : worker[w].task = sender[s].task /\ worker[w].pc \in ActivePcs
                                => worker[w].msg # NoMessage
    /\ s \in taken => sender[s].pc = "accepted"

LeadInv ==
    /\ OneLead
    /\ \A t \in Tasks : TaskFits(t)
    /\ \A w \in Workers : WorkerFits(w)
    /\ \A s \in Senders : SenderFits(s)

(* What is known of every state. *)
Known == TypeOK /\ SlotInv /\ QueueInv /\ RunningTaskOwned

-----------------------------------------------------------------------------
(* Worker steps other than Pop and TakeMessage.                            *)

(* Only a leading worker touches the record or the slot of its task, and   *)
(* no step makes a worker lead that did not.                               *)
WorkerGoes(w) ==
    LET t == worker[w].task IN
    /\ \A v \in Workers \ {w} : worker'[v] = worker[v]
    /\ UNCHANGED <<queue, submit, sender, recover, phase>>
    /\ \A u \in Tasks \ {t} : /\ task'[u].status = task[u].status
                              /\ message'[u] = message[u]
                              /\ u \in busy' <=> u \in busy
    /\ \A u \in Tasks : message'[u] \in {message[u], NoMessage}
    /\ \/ Leading(w) /\ worker[w].pc # "picked"
       \/ /\ \A u \in Tasks : task'[u].status = task[u].status
          /\ UNCHANGED busy
          /\ Leading(w) \/ UNCHANGED message
    /\ Leading(w)' => Leading(w) /\ worker'[w].task = t
    /\ worker'[w].pc \in ActivePcs /\ worker'[w].msg = NoMessage =>
          \/ worker[w].pc \in ActivePcs /\ worker[w].msg = NoMessage
          \/ task[t].status = "queued"

(* A worker on another task, or one that does not lead, is not affected.   *)
LEMMA OthersFit ==
    ASSUME TypeOK, LeadInv, NEW w \in Workers, WorkerGoes(w), NEW v \in Workers \ {w}
    PROVE  WorkerFits(v)'
  <1>1. worker'[v] = worker[v] /\ WorkerFits(v)
    BY DEF WorkerGoes, LeadInv
  <1>2. CASE ~Leading(v)
    BY <1>1, <1>2 DEF WorkerFits, Leading, LeadPcs
  <1>3. CASE Leading(v)
    <2>1. worker[v].task \in Tasks
      BY <1>1, <1>3 DEF WorkerFits, Leading, LeadPcs, TypeOK, WorkerTypeOK, ActivePcs, RunPcs,
                        DockerPcs, FinishPcs
    <2>2. worker[v].task = worker[w].task => ~Leading(w)
      BY <1>3 DEF LeadInv, OneLead, LedOnce
    <2>3. /\ task'[worker[v].task].status = task[worker[v].task].status
          /\ message'[worker[v].task] = message[worker[v].task]
          /\ worker[v].task \in busy' <=> worker[v].task \in busy
      BY <2>1, <2>2 DEF WorkerGoes
    <2> QED BY <1>1, <2>3 DEF WorkerFits, Leading, Settled
  <1> QED BY <1>2, <1>3

LEMMA WorkerKeepsOneLead ==
    ASSUME TypeOK, LeadInv, NEW w \in Workers, WorkerGoes(w)
    PROVE  OneLead'
  <1>1. \A v \in Workers : Leading(v)' => Leading(v) /\ worker'[v].task = worker[v].task
    BY DEF WorkerGoes, Leading
  <1>2. LedOnce'
    BY <1>1 DEF LeadInv, OneLead, LedOnce
  <1>3. QueueOnce'
    BY DEF LeadInv, OneLead, QueueOnce, WorkerGoes
  <1>4. ASSUME NEW t \in Tasks
        PROVE  LeadAlone(t)'
    <2>1. LeadAlone(t)
      BY DEF LeadInv, OneLead
    <2>2. Led(t)' => Led(t)
      BY <1>1 DEF Led
    <2>3. /\ Submitting(t)' <=> Submitting(t)
          /\ InQueue(t)' <=> InQueue(t)
          /\ Reserving(t)' <=> Reserving(t)
          /\ recover' = recover
      BY DEF WorkerGoes, Submitting, InQueue, Reserving, SenderOn
    <2> QED BY <2>1, <2>2, <2>3 DEF LeadAlone
  <1> QED BY <1>2, <1>3, <1>4 DEF OneLead

LEMMA WorkerKeepsTasksFit ==
    ASSUME TypeOK, LeadInv, NEW w \in Workers, WorkerGoes(w), NEW t \in Tasks
    PROVE  TaskFits(t)'
  <1>1. TaskFits(t) /\ LeadAlone(t)
    BY DEF LeadInv, OneLead
  <1>2. /\ Submitting(t)' <=> Submitting(t)
        /\ InQueue(t)' <=> InQueue(t)
        /\ recover' = recover /\ sender' = sender
        /\ message'[t] \in {message[t], NoMessage}
    BY DEF WorkerGoes, Submitting, InQueue
  <1>3. CASE task'[t].status = task[t].status /\ message'[t] = message[t]
    BY <1>1, <1>2, <1>3 DEF TaskFits, Settled
  <1>4. CASE task'[t].status # task[t].status \/ message'[t] # message[t]
    <2>1. t = worker[w].task /\ Leading(w)
      BY <1>4 DEF WorkerGoes
    <2>2. Led(t)
      BY <2>1 DEF Led
    <2>3. ~Submitting(t) /\ ~InQueue(t) /\ t \notin recover
      BY <1>1, <2>2 DEF LeadAlone
    <2>4. message'[t] = NoMessage
      <3>1. CASE worker[w].pc = "picked"
        BY <1>2, <1>4, <3>1 DEF WorkerGoes
      <3>2. CASE worker[w].pc # "picked"
        BY <1>2, <2>1, <3>2 DEF LeadInv, WorkerFits
      <3> QED BY <3>1, <3>2
    <2> QED BY <1>2, <2>3, <2>4 DEF TaskFits
  <1> QED BY <1>3, <1>4

LEMMA WorkerKeepsLeadInv ==
    ASSUME Known, LeadInv, NEW w \in Workers, WorkerGoes(w), WorkerFits(w)',
           \A s \in taken' \ taken : sender[s].pc = "accepted"
    PROVE  LeadInv'
  <1> USE DEF Known
  <1>1. OneLead'
    BY WorkerKeepsOneLead
  <1>2. \A t \in Tasks : TaskFits(t)'
    BY WorkerKeepsTasksFit
  <1>3. \A v \in Workers : WorkerFits(v)'
    BY OthersFit
  <1>4. ASSUME NEW s \in Senders
        PROVE  SenderFits(s)'
    <2>1. SenderFits(s) /\ sender' = sender
      BY DEF LeadInv, WorkerGoes
    <2>2. ASSUME sender[s].pc \in {"reserved", "undo"}
          PROVE  message'[sender[s].task] = s
      <3> DEFINE t == sender[s].task
      <3>1. t \in Tasks
        BY <2>2 DEF TypeOK, ClientTypeOK
      <3>2. Reserving(t)
        BY <2>2 DEF Reserving, SenderOn
      <3>3. ~Led(t)
        BY <3>1, <3>2 DEF LeadInv, OneLead, LeadAlone
      <3>4. t = worker[w].task => ~Leading(w)
        BY <3>3 DEF Led
      <3>5. message'[t] = message[t]
        BY <3>1, <3>4 DEF WorkerGoes
      <3> QED BY <2>1, <2>2, <3>5 DEF SenderFits
    <2>3. ASSUME sender[s].pc = "checked", NEW v \in Workers,
                 worker'[v].task = sender[s].task, worker'[v].pc \in ActivePcs
          PROVE  worker'[v].msg # NoMessage
      <3>1. CASE v # w
        BY <2>1, <2>3, <3>1 DEF SenderFits, WorkerGoes
      <3>2. CASE v = w /\ worker'[w].msg = NoMessage
        <4>1. Leading(w)'
          BY <2>3, <3>2 DEF Leading, LeadPcs
        <4>2. worker'[w].task = worker[w].task
          BY <4>1 DEF WorkerGoes
        <4>3. task[sender[s].task].status # "queued"
          BY <2>3 DEF QueueInv, MessageInv, Started
        <4>4. worker[w].pc \in ActivePcs /\ worker[w].msg = NoMessage
          BY <2>3, <3>2, <4>2, <4>3 DEF WorkerGoes
        <4> QED BY <2>1, <2>3, <3>2, <4>2, <4>4 DEF SenderFits
      <3> QED BY <3>1, <3>2
    <2>4. s \in taken' => sender[s].pc = "accepted"
      BY <2>1 DEF SenderFits
    <2>5. sender[s].pc = "checked" => phase' # "exited"
      BY <2>1 DEF SenderFits, WorkerGoes
    <2> QED BY <2>1, <2>2, <2>3, <2>4, <2>5 DEF SenderFits
  <1> QED BY <1>1, <1>2, <1>3, <1>4 DEF LeadInv

(* A step inside a run. *)
LEMMA ActiveMove ==
    ASSUME Known, LeadInv, NEW w \in Workers,
           \A v \in Workers \ {w} : worker'[v] = worker[v],
           UNCHANGED <<queue, submit, sender, recover, phase, busy, message, taken>>,
           \A u \in Tasks : task'[u].status = task[u].status,
           worker'[w].task = worker[w].task, worker'[w].msg = worker[w].msg,
           worker[w].pc \in ActivePcs, worker'[w].pc \in ActivePcs
    PROVE  LeadInv'
  <1>1. worker[w].task \in Tasks
    BY DEF Known, TypeOK, WorkerTypeOK, ActivePcs, RunPcs, DockerPcs, FinishPcs
  <1>2. WorkerFits(w)
    BY DEF LeadInv
  <1>3. WorkerGoes(w)
    BY DEF WorkerGoes, Leading, LeadPcs
  <1>4. WorkerFits(w)'
    BY <1>1, <1>2 DEF WorkerFits, Leading, LeadPcs, ActivePcs, RunPcs, DockerPcs, FinishPcs
  <1> QED BY <1>3, <1>4, WorkerKeepsLeadInv

(* The runners do not touch the status. *)
LEMMA DockerStatus ==
    ASSUME TypeOK, NEW w \in Workers, DockerStep(w)
    PROVE  \A u \in Tasks : task'[u].status = task[u].status
  <1> USE DEF TypeOK, DataTypeOK
  <1>1. CASE AgentSession(w)
    BY <1>1, StoredRecord, RecordStatus DEF AgentSession, WorkerTypeOK
  <1>2. CASE SinkContainer(w)
    BY <1>2, StoredRecord, RecordStatus DEF SinkContainer, WorkerTypeOK
  <1>3. CASE ~AgentSession(w) /\ ~SinkContainer(w)
    BY <1>3 DEF DockerStep, StartContainer, StartFails, StartHint, HintFails, AgentExits,
                AgentFails, AgentCancelled, CancelledRemove
  <1> QED BY <1>1, <1>2, <1>3

LEMMA DockerLead ==
    ASSUME Known, LeadInv, NEW w \in Workers, DockerStep(w)
    PROVE  LeadInv'
  <1> USE DEF Known
  <1>1. UNCHANGED <<queue, submit, sender, recover, phase, busy, message, taken>>
    BY DEF DockerStep, StartContainer, StartFails, SinkContainer, StartHint, HintFails,
           AgentSession, AgentExits, AgentFails, AgentCancelled, CancelledRemove, slotVars,
           clientVars, procVars
  <1>2. \A u \in Tasks : task'[u].status = task[u].status
    BY DockerStatus
  <1>3. /\ \A v \in Workers \ {w} : worker'[v] = worker[v]
        /\ worker'[w].task = worker[w].task /\ worker'[w].msg = worker[w].msg
    BY DockerSlots DEF SlotQuiet
  <1>4. worker[w].pc \in ActivePcs /\ worker[w].task \in Tasks
    BY DEF DockerStep, StartContainer, StartFails, SinkContainer, StartHint, HintFails,
           AgentSession, AgentExits, AgentFails, AgentCancelled, CancelledRemove, ActivePcs,
           RunPcs, DockerPcs, FinishPcs, TypeOK, WorkerTypeOK
  <1>5. task[worker[w].task].status = "running"
    BY <1>4 DEF LeadInv, WorkerFits
  <1>6. worker'[w].pc \in ActivePcs
    BY <1>2, <1>4, <1>5, DockerKeepsRun DEF RunKept
  <1> QED BY <1>1, <1>2, <1>3, <1>4, <1>6, ActiveMove

(* A deadline changes the context of a run and nothing else. *)
LEMMA DeadlineLead ==
    ASSUME Known, LeadInv, NEW w \in Workers, Deadline(w)
    PROVE  LeadInv'
  <1> USE DEF Known
  <1>1. UNCHANGED <<task, queue, submit, sender, recover, phase, busy, message, taken>>
    BY DEF Deadline, slotVars, clientVars, procVars
  <1>2. /\ \A v \in Workers \ {w} : worker'[v] = worker[v]
        /\ worker'[w].task = worker[w].task /\ worker'[w].msg = worker[w].msg
        /\ worker'[w].pc = worker[w].pc
    <2> DEFINE r == [worker[w] EXCEPT !.ctx = "dead"]
    <2>1. Become(w, r)
      BY DEF Deadline
    <2>2. r.pc = worker[w].pc /\ r.task = worker[w].task /\ r.msg = worker[w].msg
      BY DEF TypeOK, WorkerTypeOK, WorkerState
    <2> HIDE DEF r
    <2> QED BY <2>1, <2>2, PutFields DEF TypeOK
  <1>3. WorkerGoes(w)
    BY <1>1, <1>2 DEF WorkerGoes, Leading
  <1>4. WorkerFits(w)'
    BY <1>1, <1>2 DEF LeadInv, WorkerFits, Leading, Settled
  <1> QED BY <1>1, <1>3, <1>4, WorkerKeepsLeadInv

-----------------------------------------------------------------------------
(* finishRun: the outcome ends the lead of a first run, the release that   *)
(* of a continuation.                                                      *)

LEMMA FinishLead ==
    ASSUME Known, LeadInv, NEW w \in Workers, FinishStep(w)
    PROVE  LeadInv'
  <1> USE DEF Known
  <1>1. UNCHANGED <<queue, submit, sender, recover, phase, taken>>
    BY DEF FinishStep, NextRound, StopCheck, StoreResult, RemoveSolved, FailCheck, FailRun,
           ClearCancel, Release, ReleaseSlot, slotVars, clientVars, procVars
  <1>2. worker[w].pc \in FinishPcs \cup {"release"} /\ worker[w].task \in Tasks
    BY DEF FinishStep, NextRound, StopCheck, StoreResult, RemoveSolved, FailCheck, FailRun,
           ClearCancel, Release, FinishPcs, TypeOK, WorkerTypeOK
  <1>3. WorkerFits(w)
    BY DEF LeadInv
  <1>4. CASE NextRound(w)
    <2>1. UNCHANGED <<task, busy, message>> /\ worker[w].pc = "round"
      BY <1>4 DEF NextRound, slotVars
    <2>2. worker[w].pc \in ActivePcs /\ task[worker[w].task].status = "running"
      BY <1>2, <1>3, <2>1 DEF WorkerFits, ActivePcs, RunPcs, DockerPcs, FinishPcs
    <2>3. worker'[w].pc \in ActivePcs
      BY <1>2, <2>1, <2>2, FinishKeepsRun DEF RunKept
    <2>4. /\ \A v \in Workers \ {w} : worker'[v] = worker[v]
          /\ worker'[w].task = worker[w].task /\ worker'[w].msg = worker[w].msg
      <3>1. ~Release(w)
        BY <2>1 DEF Release
      <3>2. ~SlotIdle(w)
        BY <2>3 DEF SlotIdle, IdleWorker, ActivePcs, RunPcs, DockerPcs, FinishPcs
      <3> QED BY <3>1, <3>2, FinishSlots DEF SlotQuiet
    <2> QED BY <1>1, <2>1, <2>2, <2>3, <2>4, ActiveMove
  <1>5. CASE StopCheck(w) \/ RemoveSolved(w) \/ FailCheck(w) \/ StoreResult(w) \/ FailRun(w)
    <2>1. PICK pc \in FinishPcs : Goto(w, pc)
      BY <1>5 DEF StopCheck, RemoveSolved, FailCheck, StoreResult, FailRun, FinishPcs
    <2>2. /\ \A v \in Workers \ {w} : worker'[v] = worker[v]
          /\ worker'[w].task = worker[w].task /\ worker'[w].msg = worker[w].msg
          /\ worker'[w].pc = pc
      BY <2>1, MoveFields DEF TypeOK, WorkerPcs
    <2>3. UNCHANGED <<busy, message>>
      BY <1>5 DEF StopCheck, RemoveSolved, FailCheck, StoreResult, FailRun, slotVars
    <2>4. \A u \in Tasks \ {worker[w].task} : task'[u] = task[u]
      BY <1>2, <1>5 DEF StopCheck, RemoveSolved, FailCheck, StoreResult, FailRun, Update, TypeOK,
                      DataTypeOK
    <2>5. CASE UNCHANGED task /\ pc \in {"result", "failMark"} /\ ~RemoveSolved(w)
      <3>1. worker[w].pc \in ActivePcs /\ pc \in ActivePcs
        BY <1>5, <2>5 DEF StopCheck, FailCheck, StoreResult, FailRun, ActivePcs, RunPcs,
                          DockerPcs, FinishPcs
      <3> QED BY <1>1, <2>2, <2>3, <2>5, <3>1, ActiveMove
    <2>6. CASE pc \in {"solvedRm", "clear"}
      <3>1. WorkerGoes(w)
        <4>1. worker[w].pc \in ActivePcs \/ UNCHANGED task
          BY <1>5 DEF StopCheck, RemoveSolved, FailCheck, StoreResult, FailRun, ActivePcs, RunPcs,
                      DockerPcs, FinishPcs
        <4>2. pc \notin LeadPcs
          BY <2>6 DEF LeadPcs, ActivePcs, RunPcs, DockerPcs, FinishPcs
        <4> QED BY <1>1, <1>2, <2>2, <2>3, <2>4, <4>1, <4>2
                DEF WorkerGoes, Leading, LeadPcs, FinishPcs
      <3>2. WorkerFits(w)'
        BY <1>2, <1>3, <2>2, <2>3, <2>6
           DEF WorkerFits, Leading, LeadPcs, ActivePcs, RunPcs, DockerPcs, FinishPcs
      <3> QED BY <1>1, <3>1, <3>2, WorkerKeepsLeadInv
    <2>7. CASE RemoveSolved(w)
      BY <2>2, <2>6, <2>7, MoveFields DEF RemoveSolved, TypeOK, WorkerPcs, FinishPcs
    <2>8. CASE ~RemoveSolved(w)
      BY <1>5, <2>2, <2>5, <2>6, <2>8, MoveFields
         DEF StopCheck, FailCheck, StoreResult, FailRun, TypeOK, WorkerPcs, FinishPcs
    <2> QED BY <2>7, <2>8
  <1>6. CASE ClearCancel(w)
    <2> DEFINE r == [worker[w] EXCEPT !.pc = "release", !.ctx = "none"]
    <2>1. UNCHANGED <<task, busy, message>> /\ worker[w].pc = "clear"
      BY <1>6 DEF ClearCancel, slotVars
    <2>2. r.pc = "release" /\ r.task = worker[w].task /\ r.msg = worker[w].msg
      BY DEF TypeOK, WorkerTypeOK, WorkerState
    <2> HIDE DEF r
    <2>3. CASE worker[w].msg = NoMessage /\ Become(w, IdleWorker)
      <3>1. worker'[w] = IdleWorker /\ \A v \in Workers \ {w} : worker'[v] = worker[v]
        BY <2>3, PutFields DEF TypeOK
      <3>2. WorkerGoes(w) /\ WorkerFits(w)'
        BY <1>1, <2>1, <3>1 DEF WorkerGoes, WorkerFits, Leading, LeadPcs, IdleWorker, ActivePcs,
                                RunPcs, DockerPcs, FinishPcs
      <3> QED BY <1>1, <3>2, WorkerKeepsLeadInv
    <2>4. CASE worker[w].msg # NoMessage /\ Become(w, r)
      <3>1. worker'[w] = r /\ \A v \in Workers \ {w} : worker'[v] = worker[v]
        BY <2>4, PutFields DEF TypeOK
      <3>2. WorkerGoes(w)
        BY <1>1, <2>1, <2>2, <2>4, <3>1 DEF WorkerGoes, Leading, ActivePcs, RunPcs, DockerPcs,
                                        FinishPcs
      <3>3. WorkerFits(w)'
        BY <1>2, <1>3, <2>1, <2>2, <2>4, <3>1
           DEF WorkerFits, Leading, LeadPcs, ActivePcs, RunPcs, DockerPcs, FinishPcs
      <3> QED BY <1>1, <3>2, <3>3, WorkerKeepsLeadInv
    <2> QED BY <1>6, <2>3, <2>4 DEF ClearCancel, r
  <1>7. CASE Release(w)
    <2>1. /\ UNCHANGED task /\ worker[w].pc = "release" /\ Become(w, IdleWorker)
          /\ ReleaseSlot(worker[w].task)
      BY <1>7 DEF Release
    <2>2. worker'[w] = IdleWorker /\ \A v \in Workers \ {w} : worker'[v] = worker[v]
      BY <2>1, PutFields DEF TypeOK
    <2>3. /\ message'[worker[w].task] = NoMessage
          /\ \A u \in Tasks \ {worker[w].task} : (u \in busy' <=> u \in busy)
                                              /\ message'[u] = message[u]
      BY <1>2, <2>1, FreedSlot
    <2>4. Leading(w)
      BY <1>3, <2>1 DEF WorkerFits, Leading
    <2>5. WorkerGoes(w) /\ WorkerFits(w)'
      BY <1>1, <2>1, <2>2, <2>3, <2>4
         DEF WorkerGoes, WorkerFits, Leading, LeadPcs, IdleWorker, ActivePcs, RunPcs, DockerPcs,
             FinishPcs
    <2> QED BY <1>1, <2>5, WorkerKeepsLeadInv
  <1> QED BY <1>4, <1>5, <1>6, <1>7 DEF FinishStep

-----------------------------------------------------------------------------
(* The way from the queue to the run.                                      *)

(* Taking the head of a queue without repetitions. *)
LEMMA HeadLeaves ==
    ASSUME TypeOK, QueueOnce, queue # <<>>, queue' = Tail(queue)
    PROVE  /\ QueueOnce'
           /\ \E h \in Tasks :
                 /\ h = Head(queue) /\ InQueue(h) /\ ~InQueue(h)'
                 /\ \A u \in Tasks \ {h} : InQueue(u)' <=> InQueue(u)
  <1>1. /\ queue \in Seq(Tasks) /\ Len(queue) \in Nat \ {0} /\ Len(queue') = Len(queue) - 1
        /\ Head(queue) = queue[1] /\ Head(queue) \in Tasks
        /\ \A i \in 1..Len(queue') : queue'[i] = queue[i + 1]
    BY DEF TypeOK, SlotTypeOK
  <1>2. \A i \in 1..Len(queue) : i # 1 => i - 1 \in 1..Len(queue') /\ queue'[i - 1] = queue[i]
    BY <1>1
  <1>3. \A i \in 1..Len(queue') : i + 1 \in 1..Len(queue) /\ i + 1 # 1
    BY <1>1
  <1>4. QueueOnce'
    BY <1>1, <1>3 DEF QueueOnce
  <1>5. PICK h \in Tasks : h = Head(queue)
    BY <1>1
  <1>6. InQueue(h)
    BY <1>1, <1>5 DEF InQueue
  <1>7. ~InQueue(h)'
    <2> SUFFICES ASSUME NEW i \in 1..Len(queue'), queue'[i] = h
                 PROVE  FALSE
      BY DEF InQueue
    <2>1. queue[i + 1] = queue[1] /\ i + 1 \in 1..Len(queue) /\ 1 \in 1..Len(queue) /\ i + 1 # 1
      BY <1>1, <1>3, <1>5
    <2> QED BY <2>1 DEF QueueOnce
  <1>8. \A u \in Tasks \ {h} : InQueue(u)' <=> InQueue(u)
    BY <1>1, <1>2, <1>3, <1>5 DEF InQueue
  <1> QED BY <1>4, <1>5, <1>6, <1>7, <1>8

(* The lead of a task goes from its queue entry to the worker. *)
LEMMA PopLead ==
    ASSUME Known, LeadInv, NEW w \in Workers, Pop(w)
    PROVE  LeadInv'
  <1> USE DEF Known
  <1>1. /\ worker[w].pc = "idle" /\ queue # <<>> /\ queue' = Tail(queue)
        /\ Become(w, [worker[w] EXCEPT !.pc = "picked", !.task = Head(queue)])
        /\ UNCHANGED <<task, submit, sender, recover, phase, busy, message, taken>>
    BY DEF Pop, clientVars, procVars
  <1>2. PICK t \in Tasks : /\ t = Head(queue) /\ InQueue(t) /\ ~InQueue(t)' /\ QueueOnce'
                           /\ \A u \in Tasks \ {t} : InQueue(u)' <=> InQueue(u)
    BY <1>1, HeadLeaves DEF LeadInv, OneLead
  <1> DEFINE r == [worker[w] EXCEPT !.pc = "picked", !.task = t]
  <1>3. r.pc = "picked" /\ r.task = t /\ r.msg = worker[w].msg
    BY DEF TypeOK, WorkerTypeOK, WorkerState
  <1>4. worker'[w] = r /\ \A v \in Workers \ {w} : worker'[v] = worker[v]
    BY <1>1, <1>2, PutFields DEF TypeOK
  <1>5. worker[w].msg = NoMessage /\ ~Leading(w)
    BY <1>1 DEF LeadInv, WorkerFits, Leading, LeadPcs, ActivePcs, RunPcs, DockerPcs, FinishPcs
  <1>6. LeadAlone(t) /\ TaskFits(t)
    BY <1>2 DEF LeadInv, OneLead
  <1>7. ~Led(t) /\ ~Submitting(t) /\ t \notin recover /\ ~Reserving(t)
    BY <1>2, <1>6 DEF LeadAlone
  <1> HIDE DEF r
  <1>8. \A v \in Workers \ {w} : (Leading(v)' <=> Leading(v)) /\ worker'[v].task = worker[v].task
    BY <1>4 DEF Leading
  <1>9. LedOnce'
    <2>1. \A v \in Workers \ {w} : Leading(v) => worker[v].task # t
      BY <1>7 DEF Led
    <2> QED BY <1>3, <1>4, <1>8, <2>1 DEF LeadInv, OneLead, LedOnce
  <1>10. ASSUME NEW u \in Tasks
         PROVE  LeadAlone(u)' /\ TaskFits(u)'
    <2>1. LeadAlone(u) /\ TaskFits(u)
      BY DEF LeadInv, OneLead
    <2>2. /\ Submitting(u)' <=> Submitting(u)
          /\ Reserving(u)' <=> Reserving(u)
          /\ recover' = recover
      BY <1>1 DEF Submitting, Reserving, SenderOn
    <2>3. CASE u = t
      <3>1. ~Submitting(t)' /\ ~InQueue(t)' /\ t \notin recover' /\ ~Reserving(t)'
        BY <1>2, <1>7, <2>2, <2>3
      <3>2. LeadAlone(t)'
        BY <3>1 DEF LeadAlone
      <3>3. TaskFits(t)'
        BY <1>1, <1>6, <3>1 DEF TaskFits, Settled
      <3> QED BY <2>3, <3>2, <3>3
    <2>4. CASE u # t
      <3>1. Led(u)' => Led(u)
        BY <1>3, <1>4, <1>8, <2>4 DEF Led
      <3> QED BY <1>1, <1>2, <2>1, <2>2, <2>4, <3>1 DEF LeadAlone, TaskFits, Settled
    <2> QED BY <2>3, <2>4
  <1>11. ASSUME NEW v \in Workers
         PROVE  WorkerFits(v)'
    <2>1. CASE v = w
      BY <1>1, <1>2, <1>3, <1>4, <1>5, <1>6, <2>1
         DEF WorkerFits, TaskFits, Leading, ActivePcs, RunPcs, DockerPcs, FinishPcs
    <2>2. CASE v # w
      BY <1>1, <1>4, <2>2 DEF LeadInv, WorkerFits, Leading, Settled
    <2> QED BY <2>1, <2>2
  <1>12. \A s \in Senders : SenderFits(s)'
    BY <1>1, <1>3, <1>4 DEF LeadInv, SenderFits, ActivePcs, RunPcs, DockerPcs, FinishPcs
  <1> QED BY <1>2, <1>9, <1>10, <1>11, <1>12 DEF LeadInv, OneLead

LEMMA DispatchLead ==
    ASSUME Known, LeadInv, NEW w \in Workers, DispatchStep(w), ~Pop(w)
    PROVE  LeadInv'
  <1> USE DEF Known
  <1>1. UNCHANGED <<queue, busy, submit, sender, recover, phase>>
    BY DEF DispatchStep, Exit, TakeMessage, TaskCheck, ContCheck, BeginRun, Register, slotVars,
           clientVars, procVars
  <1>2. WorkerFits(w)
    BY DEF LeadInv
  <1>3. CASE Exit(w)
    <2>1. UNCHANGED <<task, message, taken>> /\ worker[w].pc \in {"idle", "picked"}
      BY <1>3 DEF Exit, slotVars
    <2>2. /\ \A v \in Workers \ {w} : worker'[v] = worker[v]
          /\ worker'[w].pc = "exited" /\ worker'[w].msg = worker[w].msg
      BY <1>3, MoveFields DEF Exit, TypeOK, WorkerPcs
    <2>3. WorkerGoes(w) /\ WorkerFits(w)'
      BY <1>1, <1>2, <2>1, <2>2 DEF WorkerGoes, WorkerFits, Leading, LeadPcs, ActivePcs, RunPcs,
                                    DockerPcs, FinishPcs
    <2> QED BY <2>1, <2>3, WorkerKeepsLeadInv
  <1>4. CASE TakeMessage(w)
    <2> DEFINE t == worker[w].task
               r == [worker[w] EXCEPT !.pc = "contCheck", !.msg = message[t]]
    <2>1. UNCHANGED task /\ worker[w].pc = "picked" /\ t \in Tasks
      BY <1>4 DEF TakeMessage, TypeOK, WorkerTypeOK
    <2>2. worker[w].msg = NoMessage /\ Leading(w) /\ TaskFits(t) /\ ~Reserving(t)
      <3>1. Leading(w)
        BY <2>1 DEF Leading, LeadPcs
      <3>2. Led(t)
        BY <3>1 DEF Led
      <3> QED BY <1>2, <2>1, <3>1, <3>2 DEF LeadInv, OneLead, LeadAlone, WorkerFits
    <2>3. CASE message[t] = NoMessage
      <3>1. Goto(w, "taskCheck") /\ UNCHANGED <<message, taken>>
        BY <1>4, <2>3 DEF TakeMessage
      <3>2. /\ \A v \in Workers \ {w} : worker'[v] = worker[v]
            /\ worker'[w].pc = "taskCheck" /\ worker'[w].msg = worker[w].msg
            /\ worker'[w].task = t
        BY <3>1, MoveFields DEF TypeOK, WorkerPcs, StartPcs
      <3>3. WorkerGoes(w) /\ WorkerFits(w)'
        BY <1>1, <1>2, <2>1, <2>2, <2>3, <3>1, <3>2
           DEF WorkerGoes, WorkerFits, Leading, LeadPcs, ActivePcs, RunPcs, DockerPcs, FinishPcs
      <3> QED BY <3>1, <3>3, WorkerKeepsLeadInv
    <2>4. CASE message[t] # NoMessage
      <3>1. /\ Become(w, r) /\ message' = [message EXCEPT ![t] = NoMessage]
            /\ taken' = taken \cup {message[t]}
        BY <1>4, <2>4 DEF TakeMessage
      <3>2. message[t] \in Senders
        BY <2>1, <2>4 DEF TypeOK, SlotTypeOK
      <3>3. sender[message[t]].pc = "accepted"
        BY <2>2, <2>4, <3>2 DEF TaskFits, Reserving, SenderOn
      <3>4. r.pc = "contCheck" /\ r.task = t /\ r.msg = message[t]
        BY DEF TypeOK, WorkerTypeOK, WorkerState
      <3>5. worker'[w] = r /\ \A v \in Workers \ {w} : worker'[v] = worker[v]
        BY <3>1, PutFields DEF TypeOK
      <3>6. /\ message'[t] = NoMessage
            /\ \A u \in Tasks \ {t} : message'[u] = message[u]
        BY <2>1, <3>1 DEF TypeOK, SlotTypeOK
      <3>7. t \in busy /\ Settled(t)
        BY <2>1, <2>2, <2>4 DEF SlotInv, TaskFits
      <3> HIDE DEF r
      <3>8. WorkerGoes(w)
        BY <1>1, <2>1, <2>2, <3>4, <3>5, <3>6
           DEF WorkerGoes, ActivePcs, RunPcs, DockerPcs, FinishPcs
      <3>9. WorkerFits(w)'
        BY <1>1, <2>1, <2>4, <3>4, <3>5, <3>6, <3>7
           DEF WorkerFits, Settled, ActivePcs, RunPcs, DockerPcs, FinishPcs
      <3> QED BY <3>1, <3>3, <3>8, <3>9, WorkerKeepsLeadInv
    <2> QED BY <2>3, <2>4
  <1>5. CASE TaskCheck(w)
    <2>1. /\ UNCHANGED <<task, message, taken>> /\ worker[w].pc = "taskCheck"
          /\ worker[w].task \in Tasks
      BY <1>5 DEF TaskCheck, slotVars, TypeOK, WorkerTypeOK
    <2>2. CASE Goto(w, "mark") /\ task[worker[w].task].status = "queued"
      <3>1. /\ \A v \in Workers \ {w} : worker'[v] = worker[v]
            /\ worker'[w].pc = "mark" /\ worker'[w].msg = worker[w].msg
            /\ worker'[w].task = worker[w].task
        BY <2>2, MoveFields DEF TypeOK, WorkerPcs, StartPcs
      <3>2. WorkerGoes(w) /\ WorkerFits(w)'
        BY <1>1, <1>2, <2>1, <2>2, <3>1
           DEF WorkerGoes, WorkerFits, Leading, LeadPcs, ActivePcs, RunPcs, DockerPcs, FinishPcs
      <3> QED BY <2>1, <3>2, WorkerKeepsLeadInv
    <2>3. CASE Become(w, IdleWorker)
      <3>1. worker'[w] = IdleWorker /\ \A v \in Workers \ {w} : worker'[v] = worker[v]
        BY <2>3, PutFields DEF TypeOK
      <3>2. WorkerGoes(w) /\ WorkerFits(w)'
        BY <1>1, <2>1, <3>1 DEF WorkerGoes, WorkerFits, Leading, LeadPcs, IdleWorker, ActivePcs,
                                RunPcs, DockerPcs, FinishPcs
      <3> QED BY <2>1, <3>2, WorkerKeepsLeadInv
    <2> QED BY <1>5, <2>2, <2>3 DEF TaskCheck
  <1>6. CASE ContCheck(w)
    <2>1. /\ UNCHANGED <<task, message, taken>> /\ worker[w].pc = "contCheck"
          /\ worker[w].task \in Tasks
      BY <1>6 DEF ContCheck, slotVars, TypeOK, WorkerTypeOK
    <2>2. PICK pc \in {"mark", "release"} : Goto(w, pc)
      BY <1>6 DEF ContCheck
    <2>3. /\ \A v \in Workers \ {w} : worker'[v] = worker[v]
          /\ worker'[w].pc = pc /\ worker'[w].msg = worker[w].msg
          /\ worker'[w].task = worker[w].task
      BY <2>2, MoveFields DEF TypeOK, WorkerPcs, StartPcs
    <2>4. WorkerGoes(w) /\ WorkerFits(w)'
      BY <1>1, <1>2, <2>1, <2>3
         DEF WorkerGoes, WorkerFits, Leading, LeadPcs, Settled, ActivePcs, RunPcs, DockerPcs,
             FinishPcs
    <2> QED BY <2>1, <2>4, WorkerKeepsLeadInv
  <1>7. CASE BeginRun(w)
    <2> DEFINE t == worker[w].task
    <2>1. /\ UNCHANGED <<message, taken>> /\ worker[w].pc = "mark" /\ t \in Tasks
          /\ Goto(w, "register") /\ Update(t, MarkRunning(task[t]))
      BY <1>7 DEF BeginRun, slotVars, TypeOK, WorkerTypeOK
    <2>2. task'[t].status = "running" /\ \A u \in Tasks \ {t} : task'[u] = task[u]
      BY <2>1, StoredRecord, RecordStatus DEF TypeOK, DataTypeOK
    <2>3. /\ \A v \in Workers \ {w} : worker'[v] = worker[v]
          /\ worker'[w].pc = "register" /\ worker'[w].msg = worker[w].msg
          /\ worker'[w].task = t
      BY <2>1, MoveFields DEF TypeOK, WorkerPcs, StartPcs
    <2>4. message[t] = NoMessage /\ (worker[w].msg = NoMessage => task[t].status = "queued")
      BY <1>2, <2>1 DEF WorkerFits, Leading, LeadPcs
    <2>5. WorkerGoes(w)
      BY <1>1, <2>1, <2>2, <2>3, <2>4 DEF WorkerGoes, Leading, LeadPcs
    <2>6. WorkerFits(w)'
      BY <1>1, <1>2, <2>1, <2>2, <2>3, <2>4
         DEF WorkerFits, Leading, ActivePcs, RunPcs, DockerPcs, FinishPcs
    <2> QED BY <2>1, <2>5, <2>6, WorkerKeepsLeadInv
  <1>8. CASE Register(w)
    <2> DEFINE r == [worker[w] EXCEPT
                    !.pc = IF worker[w].msg = NoMessage THEN "start" ELSE "hint",
                    !.ctx = IF Done THEN "dead" ELSE "live"]
    <2>1. /\ UNCHANGED <<task, message, taken>> /\ worker[w].pc = "register" /\ Become(w, r)
      BY <1>8 DEF Register, slotVars
    <2>2. r.pc \in {"start", "hint"} /\ r.task = worker[w].task /\ r.msg = worker[w].msg
      BY DEF TypeOK, WorkerTypeOK, WorkerState
    <2> HIDE DEF r
    <2>3. worker'[w] = r /\ \A v \in Workers \ {w} : worker'[v] = worker[v]
      BY <2>1, PutFields DEF TypeOK
    <2> QED BY <1>1, <2>1, <2>2, <2>3, ActiveMove DEF ActivePcs, RunPcs, DockerPcs, FinishPcs
  <1> QED BY <1>3, <1>4, <1>5, <1>6, <1>7, <1>8 DEF DispatchStep

-----------------------------------------------------------------------------
(* Steps of the request handlers and of the recovery.                      *)

(* Nothing happens to the lead of a task; the outcome may be rewritten.    *)
TaskStays(u) ==
    /\ submit'[u] = submit[u] /\ message'[u] = message[u]
    /\ InQueue(u)' <=> InQueue(u)
    /\ u \in recover' <=> u \in recover
    /\ u \in busy' <=> u \in busy
    /\ task'[u].status = task[u].status \/ (Settled(u) /\ Settled(u)')

(* A worker whose task stays as it is still fits. *)
LEMMA StayingWorkerFits ==
    ASSUME TypeOK, LeadInv, WorkersStay, NEW w \in Workers,
           worker[w].task \in Tasks => TaskStays(worker[w].task)
    PROVE  WorkerFits(w)'
  <1>1. WorkerFits(w)
    BY DEF LeadInv
  <1>2. /\ worker'[w].pc = worker[w].pc /\ worker'[w].msg = worker[w].msg
        /\ worker'[w].task = worker[w].task
    BY DEF WorkersStay
  <1>3. CASE worker[w].task \in Tasks
    BY <1>1, <1>2, <1>3 DEF WorkerFits, TaskStays, Leading, Settled
  <1>4. CASE worker[w].task \notin Tasks
    BY <1>1, <1>2, <1>4 DEF TypeOK, WorkerTypeOK, WorkerFits, Leading, LeadPcs, ActivePcs, RunPcs,
                        DockerPcs, FinishPcs
  <1> QED BY <1>3, <1>4

(* A step of a handler or of the recovery concerns one task. *)
LEMMA ClientKeepsLeadInv ==
    ASSUME Known, LeadInv, WorkersStay, NEW t \in Tasks,
           \A u \in Tasks \ {t} : TaskStays(u) /\ (Reserving(u)' => Reserving(u)),
           \A s \in Senders : \/ sender'[s] = sender[s] \/ sender[s].task = t
                              \/ sender[s].pc = "new",
           QueueOnce', LeadAlone(t)', TaskFits(t)',
           \A w \in Workers : worker[w].task = t => WorkerFits(w)',
           \A s \in Senders : SenderFits(s)'
    PROVE  LeadInv'
  <1> USE DEF Known
  <1>1. \A w \in Workers : (Leading(w)' <=> Leading(w)) /\ worker'[w].task = worker[w].task
    BY DEF WorkersStay, Leading
  <1>2. LedOnce'
    BY <1>1 DEF LeadInv, OneLead, LedOnce
  <1>3. ASSUME NEW u \in Tasks \ {t}
        PROVE  LeadAlone(u)'
    <2>1. Led(u)' <=> Led(u)
      BY <1>1 DEF Led
    <2>2. Submitting(u)' <=> Submitting(u)
      BY DEF TaskStays, Submitting
    <2>3. LeadAlone(u)
      BY DEF LeadInv, OneLead
    <2> QED BY <2>1, <2>2, <2>3 DEF LeadAlone, TaskStays
  <1>4. ASSUME NEW u \in Tasks \ {t}
        PROVE  TaskFits(u)'
    <2>1. TaskFits(u) /\ TaskStays(u)
      BY DEF LeadInv
    <2>2. message[u] # NoMessage => sender'[message[u]] = sender[message[u]]
      <3> SUFFICES ASSUME message[u] # NoMessage
                   PROVE  sender'[message[u]] = sender[message[u]]
        OBVIOUS
      <3>1. message[u] \in Senders
        BY DEF TypeOK, SlotTypeOK
      <3>2. sender[message[u]].task = u /\ sender[message[u]].pc # "new"
        BY <2>1 DEF TaskFits
      <3> QED BY <3>1, <3>2
    <2> QED BY <2>1, <2>2 DEF TaskFits, TaskStays, Submitting, Settled
  <1>5. \A w \in Workers : WorkerFits(w)'
    <2> SUFFICES ASSUME NEW w \in Workers, worker[w].task # t
                 PROVE  WorkerFits(w)'
      OBVIOUS
    <2> QED BY StayingWorkerFits
  <1> QED BY <1>2, <1>3, <1>4, <1>5 DEF LeadInv, OneLead

(* No message is touched: every request still fits. *)
LEMMA StayingSendersFit ==
    ASSUME LeadInv, WorkersStay, UNCHANGED <<sender, message, taken, phase>>
    PROVE  \A s \in Senders : SenderFits(s)'
  BY DEF LeadInv, SenderFits, WorkersStay

LEMMA AppendOnce ==
    ASSUME TypeOK, QueueOnce, NEW t \in Tasks, ~InQueue(t), queue' = Append(queue, t)
    PROVE  /\ QueueOnce'
           /\ InQueue(t)'
           /\ \A u \in Tasks \ {t} : InQueue(u)' <=> InQueue(u)
  <1>1. /\ queue \in Seq(Tasks) /\ Len(queue') = Len(queue) + 1 /\ Len(queue) \in Nat
        /\ queue'[Len(queue) + 1] = t
        /\ \A i \in 1..Len(queue) : queue'[i] = queue[i] /\ queue[i] # t
    BY DEF TypeOK, SlotTypeOK, InQueue
  <1>2. \A i \in 1..Len(queue') : i \in 1..Len(queue) \/ i = Len(queue) + 1
    BY <1>1
  <1>3. QueueOnce'
    BY <1>1, <1>2 DEF QueueOnce
  <1> QED BY <1>3, AppendKeepsQueue, AppendAddsOne DEF QueueGrows

(* createTask and Submit. *)
LEMMA SubmitLead ==
    ASSUME Known, LeadInv, NEW t \in Tasks, SubmitStep(t)
    PROVE  LeadInv'
  <1> USE DEF Known
  <1>1. /\ UNCHANGED <<worker, sender, message, taken, busy, recover, phase>>
        /\ WorkersStay
    BY DEF SubmitStep, SubmitCheck, SubmitAdd, SubmitEnqueue, SubmitFull, SubmitFail,
           slotVars, procVars, WorkersStay
  <1>2. \A s \in Senders : SenderFits(s)'
    BY <1>1, StayingSendersFit
  <1>3. /\ \A u \in Tasks \ {t} : submit'[u] = submit[u] /\ task'[u] = task[u]
        /\ \A u \in Tasks : Reserving(u)' <=> Reserving(u)
        /\ \A u \in Tasks : Led(u)' <=> Led(u)
    BY <1>1 DEF SubmitStep, SubmitCheck, SubmitAdd, SubmitEnqueue, SubmitFull, SubmitFail,
           TypeOK, ClientTypeOK, DataTypeOK, Update, Reserving, SenderOn, Led, Leading
  <1>4. LeadAlone(t) /\ TaskFits(t) /\ QueueOnce /\ \A w \in Workers : WorkerFits(w)
    BY DEF LeadInv, OneLead
  <1>5. CASE SubmitCheck(t) \/ SubmitFull(t)
    <2>1. UNCHANGED <<task, queue>> /\ (Submitting(t)' <=> Submitting(t))
      BY <1>5 DEF SubmitCheck, SubmitFull, Submitting, slotVars, TypeOK, ClientTypeOK
    <2>2. \A u \in Tasks : InQueue(u)' <=> InQueue(u)
      BY <2>1 DEF InQueue
    <2>3. QueueOnce' /\ LeadAlone(t)' /\ TaskFits(t)'
      BY <1>1, <1>3, <1>4, <2>1, <2>2 DEF QueueOnce, LeadAlone, TaskFits, Settled
    <2>4. \A w \in Workers : WorkerFits(w)'
      BY <1>1, <1>4, <2>1 DEF WorkerFits, Leading, Settled
    <2> QED BY <1>1, <1>2, <1>3, <2>2, <2>3, <2>4, ClientKeepsLeadInv DEF TaskStays
  <1>6. CASE SubmitAdd(t)
    <2>1. /\ UNCHANGED queue /\ submit[t] = "checked" /\ submit'[t] = "added"
          /\ Update(t, NewRecord)
      BY <1>6 DEF SubmitAdd, slotVars, TypeOK, ClientTypeOK
    <2>2. task'[t].status = "queued"
      BY <2>1, StoredRecord, RecordStatus DEF TypeOK, NewRecord, NoRecord
    <2>3. \A u \in Tasks : InQueue(u)' <=> InQueue(u)
      BY <2>1 DEF InQueue
    <2>4. ~Present(t) /\ ~Started(t)
      BY <2>1 DEF QueueInv, PresentInv, Present, Started, NoRecord
    <2>5. ~InQueue(t) /\ t \notin recover /\ message[t] = NoMessage
      BY <2>4 DEF QueueInv, PresentInv, MessageInv
    <2>6. \A w \in Workers : worker[w].task = t => worker[w].pc \in {"idle", "exited"}
      BY <2>4 DEF QueueInv, PresentInv
    <2>7. ~Led(t)
      BY <1>4, <2>6 DEF Led, Leading, LeadPcs, WorkerFits, ActivePcs, RunPcs, DockerPcs, FinishPcs
    <2>8. ~Reserving(t)
      BY <2>5, NoMessageAssumption DEF LeadInv, SenderFits, Reserving, SenderOn
    <2>9. QueueOnce' /\ LeadAlone(t)' /\ TaskFits(t)'
      BY <1>1, <1>3, <1>4, <2>1, <2>2, <2>3, <2>5, <2>7, <2>8 DEF QueueOnce, LeadAlone, TaskFits
    <2>10. \A w \in Workers : worker[w].task = t => WorkerFits(w)'
      BY <1>1, <1>4, <2>6 DEF WorkerFits, Leading, LeadPcs, ActivePcs, RunPcs, DockerPcs, FinishPcs
    <2> QED BY <1>1, <1>2, <1>3, <2>3, <2>9, <2>10, ClientKeepsLeadInv DEF TaskStays
  <1>7. CASE SubmitEnqueue(t)
    <2>1. /\ UNCHANGED task /\ submit[t] = "added" /\ submit'[t] = "accepted"
          /\ queue' = Append(queue, t)
      BY <1>7 DEF SubmitEnqueue, TypeOK, ClientTypeOK
    <2>2. Submitting(t) /\ ~Submitting(t)'
      BY <2>1 DEF Submitting
    <2>3. ~InQueue(t) /\ ~Led(t) /\ t \notin recover /\ ~Reserving(t)
      BY <1>4, <2>2 DEF LeadAlone
    <2>4. /\ QueueOnce'
          /\ \A u \in Tasks \ {t} : InQueue(u)' <=> InQueue(u)
      BY <1>4, <2>1, <2>3, AppendOnce
    <2>5. LeadAlone(t)'
      BY <1>1, <1>3, <2>2, <2>3 DEF LeadAlone
    <2>6. TaskFits(t)'
      BY <1>1, <1>4, <2>1, <2>2 DEF TaskFits, Settled
    <2>7. \A w \in Workers : WorkerFits(w)'
      BY <1>1, <1>4, <2>1 DEF WorkerFits, Leading, Settled
    <2> QED BY <1>1, <1>2, <1>3, <2>4, <2>5, <2>6, <2>7, ClientKeepsLeadInv DEF TaskStays
  <1>8. CASE SubmitFail(t)
    <2>1. /\ UNCHANGED queue /\ submit[t] = "full" /\ submit'[t] = "rejected"
          /\ Update(t, MarkFailed(task[t]))
      BY <1>8 DEF SubmitFail, slotVars, TypeOK, ClientTypeOK
    <2>2. Submitting(t) /\ ~Submitting(t)'
      BY <2>1 DEF Submitting
    <2>3. ~InQueue(t) /\ ~Led(t) /\ t \notin recover /\ ~Reserving(t)
      BY <1>4, <2>2 DEF LeadAlone
    <2>4. \A u \in Tasks : InQueue(u)' <=> InQueue(u)
      BY <2>1 DEF InQueue
    <2>5. QueueOnce' /\ LeadAlone(t)'
      BY <1>1, <1>3, <1>4, <2>1, <2>2, <2>3, <2>4 DEF QueueOnce, LeadAlone
    <2>6. task'[t].status = "failed"
      BY <2>1, StoredRecord, RecordStatus DEF TypeOK, DataTypeOK
    <2>7. TaskFits(t)'
      BY <1>1, <1>4, <2>2, <2>3, <2>4, <2>6 DEF TaskFits, Settled
    <2>8. \A w \in Workers : worker[w].task = t => WorkerFits(w)'
      BY <1>1, <1>4, <2>3 DEF WorkerFits, Led, Leading, LeadPcs
    <2> QED BY <1>1, <1>2, <1>3, <2>4, <2>5, <2>7, <2>8, ClientKeepsLeadInv DEF TaskStays
  <1> QED BY <1>5, <1>6, <1>7, <1>8 DEF SubmitStep

(* A task whose slot a handler holds has no other such handler. *)
LEMMA OneReserves ==
    ASSUME LeadInv, NEW s \in Senders, NEW z \in Senders,
           sender[s].pc \in {"reserved", "undo"}, sender[z].pc \in {"reserved", "undo"},
           sender[s].task = sender[z].task
    PROVE  s = z
  BY DEF LeadInv, SenderFits

LEMMA OtherSendersFit ==
    ASSUME LeadInv, NEW s \in Senders, UNCHANGED <<worker, phase, taken>>,
           \A z \in Senders \ {s} :
              /\ sender'[z] = sender[z]
              /\ sender[z].pc \in {"reserved", "undo"} =>
                    message'[sender[z].task] = message[sender[z].task]
    PROVE  \A z \in Senders \ {s} : SenderFits(z)'
  BY DEF LeadInv, SenderFits

(* SendTaskMessage: the reservation becomes the lead of the task. *)
LEMMA SendLead ==
    ASSUME Known, LeadInv, NEW s \in Senders, SendStep(s)
    PROVE  LeadInv'
  <1> USE DEF Known, TypeOK, ClientTypeOK
  <1>1. /\ UNCHANGED <<task, worker, submit, recover, phase, taken>>
        /\ WorkersStay
        /\ \A u \in Tasks : (Led(u)' <=> Led(u)) /\ (Submitting(u)' <=> Submitting(u))
    BY DEF SendStep, SendCheck, SendReserve, SendEnqueue, SendFull, SendUndo, ReleaseSlot,
           slotVars, procVars, WorkersStay, Led, Leading, Submitting
  <1>2. /\ \A z \in Senders \ {s} : sender'[z] = sender[z]
        /\ \A z \in Senders : sender'[z] = sender[z] \/ z = s
    BY DEF SendStep, SendCheck, SendReserve, SendEnqueue, SendFull, SendUndo
  <1>3. QueueOnce /\ SenderFits(s) /\ \A w \in Workers : WorkerFits(w)
    BY DEF LeadInv, OneLead
  <1>4. CASE \E t \in Tasks : SendCheck(s, t)
    <2>1. PICK t \in Tasks : SendCheck(s, t)
      BY <1>4
    <2>2. /\ UNCHANGED <<busy, message, queue>> /\ sender[s].pc = "new" /\ phase = "up"
          /\ sender'[s].pc = "checked" /\ sender'[s].task = t /\ Settled(t)
      BY <2>1 DEF SendCheck, Serving, CanContinue, Settled, slotVars
    <2>3. /\ \A u \in Tasks : InQueue(u)' <=> InQueue(u)
          /\ \A u \in Tasks : Reserving(u)' <=> Reserving(u)
      BY <1>2, <2>2 DEF InQueue, Reserving, SenderOn
    <2>4. QueueOnce' /\ LeadAlone(t)' /\ TaskFits(t)'
      <3>1. LeadAlone(t) /\ TaskFits(t)
        BY DEF LeadInv, OneLead
      <3>2. QueueOnce' /\ LeadAlone(t)'
        BY <1>1, <1>3, <2>2, <2>3, <3>1 DEF QueueOnce, LeadAlone
      <3>3. message[t] # NoMessage => message[t] \in Senders \ {s}
        BY <2>2, <3>1 DEF TaskFits, SlotTypeOK
      <3>4. TaskFits(t)'
        BY <1>1, <1>2, <2>2, <2>3, <3>1, <3>3 DEF TaskFits, Settled
      <3> QED BY <3>2, <3>4
    <2>5. \A w \in Workers : WorkerFits(w)'
      BY <1>1, <1>3, <2>2 DEF WorkerFits, Leading, Settled
    <2>6. \A z \in Senders : SenderFits(z)'
      <3>1. SenderFits(s)'
        BY <1>1, <1>3, <2>2 DEF SenderFits, WorkerFits, Settled
      <3> QED BY <1>1, <1>2, <2>2, <3>1, OtherSendersFit
    <2>7. \A u \in Tasks \ {t} : TaskStays(u)
      BY <1>1, <2>2, <2>3 DEF TaskStays
    <2>8. \A z \in Senders : sender'[z] = sender[z] \/ sender[z].pc = "new"
      BY <1>2, <2>2
    <2> QED BY <1>1, <2>3, <2>4, <2>5, <2>6, <2>7, <2>8, ClientKeepsLeadInv
  <1>5. CASE SendReserve(s) \/ SendEnqueue(s) \/ SendFull(s) \/ SendUndo(s)
    <2>0. sender[s].task \in Tasks
      BY <1>5 DEF SendReserve, SendEnqueue, SendFull, SendUndo
    <2> PICK t \in Tasks : t = sender[s].task
      BY <2>0
    <2>1. sender'[s].task = t
      BY <1>5 DEF SendReserve, SendEnqueue, SendFull, SendUndo, SenderState
    <2>2. \A u \in Tasks \ {t} : Reserving(u)' => Reserving(u)
      BY <1>2, <2>1 DEF Reserving, SenderOn
    <2>3. LeadAlone(t) /\ TaskFits(t)
      BY DEF LeadInv, OneLead
    <2>4. \A z \in Senders : sender'[z] = sender[z] \/ sender[z].task = t
      BY <1>2
    <2>5. CASE SendReserve(s) /\ ~SlotFree(t)
      <3>1. /\ UNCHANGED <<busy, message, queue>> /\ sender[s].pc = "checked"
            /\ sender'[s].pc = "busy"
        BY <2>5 DEF SendReserve, SenderState
      <3>2. /\ \A u \in Tasks : InQueue(u)' <=> InQueue(u)
            /\ Reserving(t)' <=> Reserving(t)
        BY <1>2, <3>1 DEF InQueue, Reserving, SenderOn
      <3>3. QueueOnce' /\ LeadAlone(t)'
        BY <1>1, <1>3, <2>3, <3>1, <3>2 DEF QueueOnce, LeadAlone
      <3>4. message[t] # NoMessage => message[t] \in Senders \ {s}
        BY <2>3, <3>1 DEF TaskFits, SlotTypeOK
      <3>5. TaskFits(t)'
        BY <1>1, <1>2, <2>3, <3>1, <3>2, <3>4 DEF TaskFits, Settled
      <3>6. \A w \in Workers : WorkerFits(w)'
        BY <1>1, <1>3, <3>1 DEF WorkerFits, Leading, Settled
      <3>7. \A z \in Senders : SenderFits(z)'
        <4>1. SenderFits(s)'
          BY <1>1, <1>3, <3>1 DEF SenderFits
        <4> QED BY <1>1, <1>2, <3>1, <4>1, OtherSendersFit
      <3>8. \A u \in Tasks \ {t} : TaskStays(u)
        BY <1>1, <3>1, <3>2 DEF TaskStays
      <3> QED BY <1>1, <2>2, <2>4, <3>3, <3>5, <3>6, <3>7, <3>8, ClientKeepsLeadInv
    <2>6. CASE SendReserve(s) /\ SlotFree(t)
      <3>1. /\ UNCHANGED queue /\ sender[s].pc = "checked" /\ t \notin busy
            /\ sender'[s].pc = "reserved"
            /\ busy' = busy \cup {t} /\ message' = [message EXCEPT ![t] = s]
        BY <2>6 DEF SendReserve, SlotFree, SenderState
      <3>2. message[t] = NoMessage /\ Started(t) /\ recover = {} /\ phase # "exited"
        BY <1>3, <3>1, SendersStarted DEF SlotInv, SenderFits
      <3>3. /\ message'[t] = s /\ \A u \in Tasks \ {t} : message'[u] = message[u]
            /\ \A u \in Tasks : InQueue(u)' <=> InQueue(u)
        BY <3>1 DEF SlotTypeOK, InQueue
      <3>4. \A w \in Workers : worker[w].task = t =>
               worker[w].msg = NoMessage /\ worker[w].pc \notin ActivePcs
        BY <1>3, <3>1 DEF WorkerFits, SenderFits
      <3>5. Settled(t)
        BY <3>2, <3>4 DEF RunningTaskOwned, WorkerOn, Started, Settled
      <3>6. ~Submitting(t) /\ ~InQueue(t) /\ t \notin recover
        BY <2>3, <3>2, <3>5 DEF TaskFits, Settled
      <3>7. ASSUME NEW w \in Workers, worker[w].task = t
            PROVE  ~Leading(w)
        BY <1>3, <3>2, <3>4, <3>5, <3>7 DEF WorkerFits, Leading, LeadPcs, Settled
      <3>8. QueueOnce' /\ LeadAlone(t)'
        <4>1. ~Led(t)
          BY <3>7 DEF Led
        <4> QED BY <1>1, <1>3, <3>1, <3>3, <3>6, <4>1 DEF QueueOnce, LeadAlone
      <3>9. TaskFits(t)'
        BY <1>1, <2>1, <3>1, <3>3, <3>5, <3>6 DEF TaskFits, Settled
      <3>10. \A w \in Workers : worker[w].task = t => WorkerFits(w)'
        BY <1>1, <1>3, <3>1, <3>7 DEF WorkerFits, Leading, LeadPcs
      <3>11. \A z \in Senders : SenderFits(z)'
        <4>1. SenderFits(s)'
          BY <1>1, <1>3, <2>1, <3>1, <3>3 DEF SenderFits
        <4>2. ASSUME NEW z \in Senders \ {s}, sender[z].pc \in {"reserved", "undo"}
              PROVE  message'[sender[z].task] = message[sender[z].task]
          <5>1. sender[z].task # t
            BY <3>2, <4>2, NoMessageAssumption DEF LeadInv, SenderFits
          <5> QED BY <3>3, <4>2, <5>1
        <4> QED BY <1>1, <1>2, <4>1, <4>2, OtherSendersFit
      <3>12. \A u \in Tasks \ {t} : TaskStays(u)
        BY <1>1, <3>1, <3>3 DEF TaskStays
      <3> QED BY <1>1, <2>2, <2>4, <3>8, <3>9, <3>10, <3>11, <3>12, ClientKeepsLeadInv
    <2>7. CASE SendEnqueue(s) \/ SendFull(s) \/ SendUndo(s)
      <3>1. sender[s].pc \in {"reserved", "undo"} /\ message[t] = s /\ s # NoMessage
        BY <1>3, <2>7, NoMessageAssumption DEF SendEnqueue, SendFull, SendUndo, SenderFits
      <3>2. Reserving(t)
        BY <3>1 DEF Reserving, SenderOn
      <3>3. ~Submitting(t) /\ ~InQueue(t) /\ ~Led(t) /\ t \notin recover /\ Settled(t)
        BY <2>3, <3>1, <3>2 DEF LeadAlone, TaskFits
      <3>4. \A z \in Senders \ {s} : sender[z].pc \in {"reserved", "undo"} => sender[z].task # t
        BY <3>1, OneReserves
      <3>5. sender'[s].pc \notin {"reserved", "undo"} => ~Reserving(t)'
        BY <1>2, <3>4 DEF Reserving, SenderOn
      <3>6. \A w \in Workers : worker[w].task = t => ~Leading(w)
        BY <3>3 DEF Led
      <3>7. s \notin taken
        BY <1>3, <3>1 DEF SenderFits
      <3>8. CASE SendEnqueue(s)
        <4>1. /\ UNCHANGED <<busy, message>> /\ queue' = Append(queue, t)
              /\ sender'[s].pc = "accepted"
          BY <3>8 DEF SendEnqueue, SenderState
        <4>2. QueueOnce' /\ \A u \in Tasks \ {t} : InQueue(u)' <=> InQueue(u)
          BY <1>3, <3>3, <4>1, AppendOnce
        <4>3. LeadAlone(t)' /\ TaskFits(t)'
          BY <1>1, <2>1, <3>1, <3>3, <3>5, <4>1 DEF LeadAlone, TaskFits, Settled
        <4>4. \A w \in Workers : WorkerFits(w)'
          BY <1>1, <1>3, <4>1 DEF WorkerFits, Leading, Settled
        <4>5. \A z \in Senders : SenderFits(z)'
          <5>1. SenderFits(s)'
            BY <4>1 DEF SenderFits
          <5> QED BY <1>1, <1>2, <4>1, <5>1, OtherSendersFit
        <4>6. \A u \in Tasks \ {t} : TaskStays(u)
          BY <1>1, <4>1, <4>2 DEF TaskStays
        <4> QED BY <1>1, <2>2, <2>4, <4>2, <4>3, <4>4, <4>5, <4>6, ClientKeepsLeadInv
      <3>9. CASE SendFull(s)
        <4>1. UNCHANGED <<busy, message, queue>> /\ sender'[s].pc = "undo"
          BY <3>9 DEF SendFull, slotVars, SenderState
        <4>2. \A u \in Tasks : InQueue(u)' <=> InQueue(u)
          BY <4>1 DEF InQueue
        <4>3. QueueOnce' /\ LeadAlone(t)' /\ TaskFits(t)'
          BY <1>1, <1>3, <2>1, <3>1, <3>3, <4>1, <4>2 DEF QueueOnce, LeadAlone, TaskFits, Settled
        <4>4. \A w \in Workers : WorkerFits(w)'
          BY <1>1, <1>3, <4>1 DEF WorkerFits, Leading, Settled
        <4>5. \A z \in Senders : SenderFits(z)'
          <5>1. SenderFits(s)'
            BY <1>1, <2>1, <3>1, <3>7, <4>1 DEF SenderFits
          <5> QED BY <1>1, <1>2, <4>1, <5>1, OtherSendersFit
        <4>6. \A u \in Tasks \ {t} : TaskStays(u)
          BY <1>1, <4>1, <4>2 DEF TaskStays
        <4> QED BY <1>1, <2>2, <2>4, <4>3, <4>4, <4>5, <4>6, ClientKeepsLeadInv
      <3>10. CASE SendUndo(s)
        <4>1. sender'[s].pc = "full" /\ ReleaseSlot(t)
          BY <3>10 DEF SendUndo, SenderState
        <4>2. /\ message'[t] = NoMessage /\ UNCHANGED queue
              /\ \A u \in Tasks \ {t} : (u \in busy' <=> u \in busy) /\ message'[u] = message[u]
          BY <4>1, FreedSlot
        <4>3. \A u \in Tasks : InQueue(u)' <=> InQueue(u)
          BY <4>2 DEF InQueue
        <4>4. QueueOnce' /\ LeadAlone(t)' /\ TaskFits(t)'
          BY <1>1, <1>3, <3>3, <3>5, <4>1, <4>2, <4>3 DEF QueueOnce, LeadAlone, TaskFits
        <4>5. \A w \in Workers : worker[w].task = t => WorkerFits(w)'
          BY <1>1, <1>3, <3>6 DEF WorkerFits, Leading, LeadPcs
        <4>6. \A z \in Senders : SenderFits(z)'
          <5>1. SenderFits(s)'
            BY <1>1, <3>7, <4>1 DEF SenderFits
          <5>2. \A z \in Senders \ {s} : sender[z].pc \in {"reserved", "undo"} =>
                   message'[sender[z].task] = message[sender[z].task]
            BY <3>4, <4>2
          <5> QED BY <1>1, <1>2, <5>1, <5>2, OtherSendersFit
        <4>7. \A u \in Tasks \ {t} : TaskStays(u)
          BY <1>1, <4>2, <4>3 DEF TaskStays
        <4> QED BY <1>1, <2>2, <2>4, <4>4, <4>5, <4>6, <4>7, ClientKeepsLeadInv
      <3> QED BY <2>7, <3>8, <3>9, <3>10
    <2> QED BY <1>5, <2>5, <2>6, <2>7
  <1> QED BY <1>4, <1>5 DEF SendStep

(* The recovery loop of NewService: the lead goes to a queue entry, or the *)
(* full queue ends it.                                                     *)
LEMMA RecoverLead ==
    ASSUME Known, LeadInv, NEW t \in Tasks, RecoverNext(t)
    PROVE  LeadInv'
  <1> USE DEF Known, TypeOK
  <1>1. /\ t \in recover /\ recover' = recover \ {t} /\ Update(t, MarkRecovered(task[t]))
        /\ UNCHANGED <<worker, submit, sender, message, busy, taken, phase>>
        /\ WorkersStay
    BY DEF RecoverNext, clientVars, WorkersStay
  <1>2. /\ \A u \in Tasks : Led(u)' <=> Led(u)
        /\ \A u \in Tasks : Submitting(u)' <=> Submitting(u)
        /\ \A u \in Tasks : Reserving(u)' <=> Reserving(u)
    BY <1>1 DEF Led, Leading, Submitting, Reserving, SenderOn
  <1>3. QueueOnce /\ LeadAlone(t) /\ TaskFits(t)
    BY DEF LeadInv, OneLead
  <1>4. /\ ~Submitting(t) /\ ~InQueue(t) /\ ~Led(t) /\ ~Reserving(t)
        /\ task[t].status \in {"queued", "running"} /\ message[t] = NoMessage
    BY <1>1, <1>3 DEF LeadAlone, TaskFits, QueueInv, MessageInv
  <1>5. /\ task'[t].status = "queued" /\ \A u \in Tasks \ {t} : task'[u] = task[u]
    <2>1. /\ task'[t] = MarkRecovered(task[t]) /\ task[t] \in Record
          /\ \A u \in Tasks \ {t} : task'[u] = task[u]
      BY <1>1, StoredRecord DEF DataTypeOK
    <2> QED BY <1>4, <2>1 DEF MarkRecovered, Record
  <1>6. QueueOnce' /\ \A u \in Tasks \ {t} : InQueue(u)' <=> InQueue(u)
    <2>1. CASE queue' = Append(queue, t)
      BY <1>3, <1>4, <2>1, AppendOnce
    <2>2. CASE UNCHANGED queue
      BY <1>3, <2>2 DEF QueueOnce, InQueue
    <2> QED BY <2>1, <2>2 DEF RecoverNext
  <1>7. LeadAlone(t)' /\ TaskFits(t)'
    BY <1>1, <1>2, <1>4, <1>5 DEF LeadAlone, TaskFits
  <1>8. \A w \in Workers : worker[w].task = t => WorkerFits(w)'
    BY <1>1, <1>4 DEF LeadInv, WorkerFits, Led, Leading, LeadPcs
  <1>9. \A s \in Senders : SenderFits(s)'
    BY <1>1, StayingSendersFit
  <1>10. \A u \in Tasks \ {t} : TaskStays(u)
    BY <1>1, <1>5, <1>6 DEF TaskStays
  <1> QED BY <1>1, <1>2, <1>6, <1>7, <1>8, <1>9, <1>10, ClientKeepsLeadInv

-----------------------------------------------------------------------------
(* Shutdown, the end of the process and its restart.                       *)

(* Clearing the results rewrites outcomes only.                            *)
LEMMA ClearedStatus ==
    ASSUME TypeOK, ClearResults, NEW t \in Tasks
    PROVE  task'[t].status = task[t].status \/ (Settled(t) /\ Settled(t)')
  <1>1. task'[t] = ClearResult(task[t]) /\ task[t] \in Record
    BY DEF ClearResults, TypeOK, DataTypeOK
  <1>2. \/ task'[t].status = task[t].status
        \/ task[t].status = "solved" /\ task'[t].status = "completed"
    BY <1>1 DEF ClearResult, Record
  <1> QED BY <1>2 DEF Settled

LEMMA ProcessLead ==
    ASSUME Known, LeadInv,
           \/ ClearResults \/ CancelAllRuns \/ CloseDone \/ GraceOver \/ UNCHANGED vars
           \/ \E t \in Tasks : ForceRemove(t)
    PROVE  LeadInv'
  <1> USE DEF Known, TypeOK
  <1>1. UNCHANGED <<queue, message, busy, taken, submit, sender, recover>>
    BY DEF ClearResults, CancelAllRuns, CloseDone, GraceOver, ForceRemove, vars, slotVars,
           clientVars, procVars
  <1>2. WorkersStay
    BY DEF ClearResults, CancelAllRuns, CloseDone, GraceOver, ForceRemove, vars, WorkersStay,
           WorkerTypeOK, WorkerState
  <1>3. phase # "exited" => phase' # "exited"
    BY DEF ClearResults, CancelAllRuns, CloseDone, GraceOver, ForceRemove, vars, procVars
  <1>4. \A t \in Tasks : TaskStays(t)
    <2>1. \A t \in Tasks : task'[t].status = task[t].status \/ (Settled(t) /\ Settled(t)')
      <3>1. CASE ClearResults
        BY <3>1, ClearedStatus
      <3>2. CASE UNCHANGED task
        BY <3>2
      <3> QED BY <3>1, <3>2 DEF CancelAllRuns, CloseDone, GraceOver, ForceRemove, vars
    <2> QED BY <1>1, <2>1 DEF TaskStays, InQueue
  <1>5. OneLead'
    <2>1. \A w \in Workers : (Leading(w)' <=> Leading(w)) /\ worker'[w].task = worker[w].task
      BY <1>2 DEF WorkersStay, Leading
    <2>2. /\ \A t \in Tasks : Led(t)' <=> Led(t)
          /\ \A t \in Tasks : Submitting(t)' <=> Submitting(t)
          /\ \A t \in Tasks : Reserving(t)' <=> Reserving(t)
          /\ \A t \in Tasks : InQueue(t)' <=> InQueue(t)
      BY <1>1, <2>1 DEF Led, Submitting, Reserving, SenderOn, InQueue
    <2> QED BY <1>1, <2>1, <2>2 DEF LeadInv, OneLead, QueueOnce, LedOnce, LeadAlone
  <1>6. ASSUME NEW t \in Tasks
        PROVE  TaskFits(t)'
    BY <1>1, <1>4 DEF LeadInv, TaskFits, TaskStays, Submitting, Settled
  <1>7. \A w \in Workers : WorkerFits(w)'
    BY <1>2, <1>4, StayingWorkerFits
  <1>8. \A s \in Senders : SenderFits(s)'
    BY <1>1, <1>2, <1>3 DEF LeadInv, SenderFits, WorkersStay
  <1> QED BY <1>5, <1>6, <1>7, <1>8 DEF LeadInv

(* Nothing leads a task in a process that is gone.                         *)
LEMMA GoneLead ==
    ASSUME Known, LeadInv, NEW pc \in {"idle", "exited"}, ProcessGone(pc),
           \A t \in recover' : task'[t].status \in {"queued", "running"}
    PROVE  LeadInv'
  <1> USE DEF Known, TypeOK
  <1>1. /\ queue' = <<>> /\ taken' = taken
        /\ \A t \in Tasks : ~InQueue(t)' /\ message'[t] = NoMessage /\ ~Submitting(t)'
    BY DEF ProcessGone, InQueue, Submitting
  <1>2. \A w \in Workers : worker'[w].pc \in {"idle", "exited"} /\ worker'[w].msg = NoMessage
    BY DEF ProcessGone, IdleWorker
  <1>3. \A w \in Workers : ~Leading(w)'
    BY <1>2 DEF Leading, LeadPcs, ActivePcs, RunPcs, DockerPcs, FinishPcs
  <1>4. /\ \A s \in Senders : sender'[s].pc \notin {"checked", "reserved", "undo"}
        /\ \A s \in Senders : sender[s].pc = "accepted" => sender'[s].pc = "accepted"
    BY DEF ProcessGone, ClientTypeOK, SenderState
  <1>5. OneLead'
    <2>1. \A t \in Tasks : ~Led(t)' /\ ~Reserving(t)'
      BY <1>3, <1>4 DEF Led, Reserving, SenderOn
    <2> QED BY <1>1, <1>3, <2>1 DEF OneLead, QueueOnce, LedOnce, LeadAlone
  <1>6. \A t \in Tasks : TaskFits(t)'
    BY <1>1 DEF TaskFits
  <1>7. \A w \in Workers : WorkerFits(w)'
    BY <1>2, <1>3 DEF WorkerFits, ActivePcs, RunPcs, DockerPcs, FinishPcs
  <1>8. \A s \in Senders : SenderFits(s)'
    BY <1>1, <1>4 DEF LeadInv, SenderFits
  <1> QED BY <1>5, <1>6, <1>7, <1>8 DEF LeadInv

LEMMA EndLead ==
    ASSUME Known, LeadInv, CloseReturns \/ Restart
    PROVE  LeadInv'
  <1>1. CASE CloseReturns
    <2>1. ProcessGone("exited") /\ UNCHANGED <<task, recover>>
      BY <1>1 DEF CloseReturns
    <2>2. \A t \in recover : task[t].status \in {"queued", "running"}
      BY DEF Known, TypeOK, DataTypeOK, LeadInv, TaskFits
    <2> QED BY <2>1, <2>2, GoneLead
  <1>2. CASE Restart
    <2>1. ProcessGone("idle") /\ recover' = {t \in Tasks : Recoverable(task'[t])}
      BY <1>2 DEF Restart
    <2> QED BY <2>1, GoneLead DEF Recoverable
  <1> QED BY <1>1, <1>2

-----------------------------------------------------------------------------

LEMMA LeadInvInit == Init => LeadInv
  <1> SUFFICES ASSUME Init PROVE LeadInv
    OBVIOUS
  <1>1. \A w \in Workers : worker[w].pc = "idle" /\ worker[w].msg = NoMessage /\ ~Leading(w)
    BY DEF Init, IdleWorker, Leading, LeadPcs, ActivePcs, RunPcs, DockerPcs, FinishPcs
  <1>2. OneLead
    <2>1. \A t \in Tasks : ~Led(t) /\ ~InQueue(t) /\ ~Submitting(t) /\ ~Reserving(t)
      BY <1>1 DEF Init, Led, InQueue, Submitting, Reserving, SenderOn, NewSender
    <2> QED BY <1>1, <2>1 DEF Init, OneLead, QueueOnce, LedOnce, LeadAlone
  <1>3. \A t \in Tasks : TaskFits(t)
    BY DEF Init, TaskFits, Submitting, InQueue
  <1>4. \A w \in Workers : WorkerFits(w)
    BY <1>1 DEF WorkerFits, ActivePcs, RunPcs, DockerPcs, FinishPcs
  <1>5. \A s \in Senders : SenderFits(s)
    BY DEF Init, SenderFits, NewSender
  <1> QED BY <1>2, <1>3, <1>4, <1>5 DEF LeadInv

(* Nobody has asked for a stop yet.  A stop request frees the slot and     *)
(* settles the task in the middle of a run, so LeadInv ends with the first.*)
Unstopped == \A c \in Closers : closer[c].pc = "new"

LEMMA UnstoppedBefore ==
    ASSUME TypeOK, [Next]_vars, Unstopped'
    PROVE  Unstopped /\ ~\E c \in Closers : CloseStep(c)
  <1> USE DEF TypeOK, ClientTypeOK
  <1>1. CASE \E c \in Closers : CloseStep(c)
    <2>1. PICK c \in Closers : CloseStep(c)
      BY <1>1
    <2>2. closer'[c].pc # "new"
      BY <2>1 DEF CloseStep, CloseGet, CloseCancel, CloseRelease, CloseStopQueued, CloseRemove,
                  CloseRemoveFails, CloseMark, CloserState
    <2> QED BY <2>2 DEF Unstopped
  <1>2. CASE (CloseReturns \/ Restart) /\ ~\E c \in Closers : CloseStep(c)
    <2>1. PICK pc : ProcessGone(pc)
      BY <1>2 DEF CloseReturns, Restart
    <2>2. \A c \in Closers : closer'[c].pc = "new" => closer[c].pc = "new"
      BY <2>1 DEF ProcessGone, CloserState
    <2> QED BY <1>2, <2>2 DEF Unstopped
  <1>3. CASE ~(CloseReturns \/ Restart) /\ ~\E c \in Closers : CloseStep(c)
    <2>1. UNCHANGED closer
      <3>1. ASSUME NEW t \in Tasks, SubmitStep(t) \/ RecoverNext(t) \/ ForceRemove(t)
            PROVE  UNCHANGED closer
        BY <3>1 DEF SubmitStep, SubmitCheck, SubmitAdd, SubmitEnqueue, SubmitFull, SubmitFail,
                    RecoverNext, ForceRemove, clientVars
      <3>2. ASSUME NEW s \in Senders, SendStep(s)
            PROVE  UNCHANGED closer
        BY <3>2 DEF SendStep, SendCheck, SendReserve, SendEnqueue, SendFull, SendUndo
      <3>3. ASSUME NEW w \in Workers, DispatchStep(w) \/ Deadline(w)
            PROVE  UNCHANGED closer
        BY <3>3 DEF DispatchStep, Deadline, Pop, Exit, TakeMessage, TaskCheck, ContCheck, BeginRun,
                    Register, clientVars
      <3>4. ASSUME NEW w \in Workers, DockerStep(w)
            PROVE  UNCHANGED closer
        BY <3>4 DEF DockerStep, StartContainer, StartFails, SinkContainer, StartHint, HintFails,
                    AgentSession, AgentExits, AgentFails, AgentCancelled, CancelledRemove,
                    clientVars
      <3>5. ASSUME NEW w \in Workers, FinishStep(w)
            PROVE  UNCHANGED closer
        BY <3>5 DEF FinishStep, NextRound, StopCheck, StoreResult, RemoveSolved, FailCheck,
                    FailRun, ClearCancel, Release, clientVars
      <3>6. CASE ClearResults \/ CancelAllRuns \/ CloseDone \/ GraceOver \/ UNCHANGED vars
        BY <3>6 DEF ClearResults, CancelAllRuns, CloseDone, GraceOver, vars, clientVars
      <3> QED BY <1>3, <3>1, <3>2, <3>3, <3>4, <3>5, <3>6 DEF Next
    <2> QED BY <1>3, <2>1 DEF Unstopped
  <1> QED BY <1>1, <1>2, <1>3

(* LeadInv is preserved by every other step.                               *)
LEMMA LeadInvStep ==
    ASSUME Known, LeadInv, [Next]_vars, ~\E c \in Closers : CloseStep(c)
    PROVE  LeadInv'
  <1>1. ASSUME NEW w \in Workers, DispatchStep(w) \/ DockerStep(w) \/ Deadline(w) \/ FinishStep(w)
        PROVE  LeadInv'
    BY <1>1, PopLead, DispatchLead, DockerLead, DeadlineLead, FinishLead
  <1>2. ASSUME NEW t \in Tasks, SubmitStep(t) \/ RecoverNext(t)
        PROVE  LeadInv'
    BY <1>2, SubmitLead, RecoverLead
  <1>3. CASE \E s \in Senders : SendStep(s)
    BY <1>3, SendLead
  <1>4. CASE CloseReturns \/ Restart
    BY <1>4, EndLead
  <1>5. CASE \/ ClearResults \/ CancelAllRuns \/ CloseDone \/ GraceOver \/ UNCHANGED vars
             \/ \E t \in Tasks : ForceRemove(t)
    BY <1>5, ProcessLead
  <1> QED BY <1>1, <1>2, <1>3, <1>4, <1>5 DEF Next

-----------------------------------------------------------------------------
(* AcceptedMessageHeld.                                                    *)

(* Nothing but its worker takes an accepted message out of the map.        *)
MessagesHeld ==
    \A s \in Senders : sender[s].pc = "accepted" /\ ~Done /\ restarts = 0 =>
        s \in taken \/ message[sender[s].task] = s

(* A worker that frees a slot has taken the message before.                *)
LEMMA WorkerHoldsMessages ==
    ASSUME Known, LeadInv, NEW w \in Workers,
           DispatchStep(w) \/ DockerStep(w) \/ Deadline(w) \/ FinishStep(w)
    PROVE  /\ UNCHANGED <<sender, phase, restarts>> /\ taken \subseteq taken'
           /\ \A t \in Tasks : message'[t] = message[t] \/ message[t] \in taken'
  <1> USE DEF Known, TypeOK, slotVars, clientVars, procVars
  <1>1. CASE DispatchStep(w)
    <2>1. CASE TakeMessage(w)
      <3>1. worker[w].task \in Tasks
        BY <2>1 DEF TakeMessage, WorkerTypeOK
      <3> QED BY <2>1, <3>1 DEF TakeMessage, SlotTypeOK
    <2>2. CASE ~TakeMessage(w)
      BY <1>1, <2>2 DEF DispatchStep, Pop, Exit, TaskCheck, ContCheck, BeginRun, Register
    <2> QED BY <2>1, <2>2
  <1>2. CASE DockerStep(w) \/ Deadline(w)
    BY <1>2 DEF DockerStep, StartContainer, StartFails, SinkContainer, StartHint, HintFails,
                AgentSession, AgentExits, AgentFails, AgentCancelled, CancelledRemove, Deadline
  <1>3. CASE FinishStep(w)
    <2>1. CASE Release(w)
      <3>1. worker[w].task \in Tasks /\ worker[w].pc = "release"
        BY <2>1 DEF Release, WorkerTypeOK
      <3>2. message[worker[w].task] = NoMessage
        BY <3>1 DEF LeadInv, WorkerFits, Leading
      <3> QED BY <2>1, <3>1, <3>2, FreedSlot DEF Release, ReleaseSlot
    <2>2. CASE ~Release(w)
      BY <1>3, <2>2 DEF FinishStep, NextRound, StopCheck, StoreResult, RemoveSolved, FailCheck,
                        FailRun, ClearCancel
    <2> QED BY <2>1, <2>2
  <1> QED BY <1>1, <1>2, <1>3

LEMMA SendHoldsMessages ==
    ASSUME Known, LeadInv, NEW s \in Senders, SendStep(s), MessagesHeld
    PROVE  MessagesHeld'
  <1> USE DEF Known, TypeOK, ClientTypeOK
  <1>1. /\ UNCHANGED <<phase, restarts, taken>>
        /\ \A z \in Senders \ {s} : sender'[z] = sender[z]
    BY DEF SendStep, SendCheck, SendReserve, SendEnqueue, SendFull, SendUndo, ReleaseSlot,
           slotVars, procVars
  <1>2. CASE SendEnqueue(s)
    <2>1. /\ UNCHANGED message /\ sender[s].pc = "reserved" /\ sender'[s].task = sender[s].task
      BY <1>2 DEF SendEnqueue, SenderState
    <2>2. message[sender[s].task] = s
      BY <2>1 DEF LeadInv, SenderFits
    <2> QED BY <1>1, <2>1, <2>2 DEF MessagesHeld, Done
  <1>3. CASE ~SendEnqueue(s)
    <2>1. sender'[s].pc # "accepted"
      BY <1>3 DEF SendStep, SendCheck, SendReserve, SendFull, SendUndo, SenderState
    <2>2. ASSUME NEW z \in Senders \ {s}, sender[z].pc = "accepted", message[sender[z].task] = z
          PROVE  message'[sender[z].task] = z
      <3>1. sender[z].task \in Tasks /\ z # NoMessage
        BY <2>2, NoMessageAssumption
      <3>2. CASE SendReserve(s)
        <4>1. sender[z].task \in busy
          BY <2>2, <3>1 DEF SlotInv
        <4> QED BY <2>2, <3>1, <3>2, <4>1 DEF SendReserve, SlotFree, SlotTypeOK
      <3>3. CASE SendUndo(s)
        <4>1. message[sender[s].task] = s /\ sender[s].task \in Tasks
          BY <3>3 DEF SendUndo, LeadInv, SenderFits
        <4> QED BY <2>2, <3>1, <3>3, <4>1, FreedSlot DEF SendUndo
      <3>4. CASE ~SendReserve(s) /\ ~SendUndo(s)
        BY <1>3, <2>2, <3>4 DEF SendStep, SendCheck, SendFull, slotVars
      <3> QED BY <3>2, <3>3, <3>4
    <2> QED BY <1>1, <2>1, <2>2 DEF MessagesHeld, Done
  <1> QED BY <1>2, <1>3

LEMMA MessagesHeldStep ==
    ASSUME Known, LeadInv, MessagesHeld, [Next]_vars, ~\E c \in Closers : CloseStep(c)
    PROVE  MessagesHeld'
  <1>1. ASSUME NEW w \in Workers, DispatchStep(w) \/ DockerStep(w) \/ Deadline(w) \/ FinishStep(w)
        PROVE  MessagesHeld'
    <2> SUFFICES ASSUME NEW s \in Senders, sender'[s].pc = "accepted", ~Done', restarts' = 0
                 PROVE  s \in taken' \/ message'[sender'[s].task] = s
      BY DEF MessagesHeld
    <2>1. sender'[s] = sender[s] /\ (s \in taken \/ message[sender[s].task] = s)
      BY <1>1, WorkerHoldsMessages DEF MessagesHeld, Done
    <2>2. sender[s].task \in Tasks
      BY <2>1 DEF Known, TypeOK, ClientTypeOK
    <2> QED BY <1>1, <2>1, <2>2, WorkerHoldsMessages
  <1>2. CASE CloseReturns \/ Restart
    <2>1. Done' \/ restarts' # 0
      BY <1>2, MaxRestartsAssumption DEF CloseReturns, Restart, Done, Known, TypeOK, DataTypeOK
    <2> QED BY <2>1 DEF MessagesHeld
  <1>3. CASE \/ \E t \in Tasks : SubmitStep(t) \/ RecoverNext(t) \/ ForceRemove(t)
             \/ ClearResults \/ CancelAllRuns \/ CloseDone \/ GraceOver \/ UNCHANGED vars
    <2>1. UNCHANGED <<sender, taken, message, restarts>> /\ (Done => Done')
      BY <1>3 DEF SubmitStep, SubmitCheck, SubmitAdd, SubmitEnqueue, SubmitFull, SubmitFail,
                  RecoverNext, ForceRemove, ClearResults, CancelAllRuns, CloseDone, GraceOver,
                  vars, slotVars, clientVars, procVars, Serving, Done
    <2> QED BY <2>1 DEF MessagesHeld
  <1> QED BY <1>1, <1>2, <1>3, SendHoldsMessages DEF Next

-----------------------------------------------------------------------------
(* The invariant and what it is for.                                       *)

LeadKnown == Known /\ (Unstopped => LeadInv /\ MessagesHeld)

LEMMA LeadKnownSafe ==
    ASSUME LeadKnown, Unstopped
    PROVE  OneRunPerTask /\ RefusedMessageNotRun /\ AcceptedMessageHeld
  <1> USE DEF LeadKnown
  <1>1. OneRunPerTask
    BY DEF LeadInv, OneLead, LedOnce, OneRunPerTask, Leading, LeadPcs
  <1>2. RefusedMessageNotRun
    BY DEF LeadInv, SenderFits, RefusedMessageNotRun
  <1>3. ASSUME NEW s \in Senders, sender[s].pc = "accepted", ~Done, restarts = 0, s \notin taken
        PROVE  /\ message[sender[s].task] = s
               /\ InQueue(sender[s].task) \/ WorkerOn(sender[s].task, {"picked"})
    <2> PICK t \in Tasks : t = sender[s].task
      BY <1>3 DEF Known, TypeOK, ClientTypeOK
    <2>1. message[t] = s /\ s # NoMessage
      BY <1>3, NoMessageAssumption DEF MessagesHeld
    <2>2. ~SenderOn(t, {"reserved", "undo"})
      BY <1>3, <2>1 DEF SenderOn, LeadInv, SenderFits
    <2> QED BY <1>3, <2>1, <2>2 DEF Known, SlotInv
  <1> QED BY <1>1, <1>2, <1>3 DEF AcceptedMessageHeld

LEMMA LeadKnownInit == Init => LeadKnown
  <1>1. Init => SlotInv
    BY DEF Init, SlotInv, IdleWorker, NoMessagePcs
  <1>2. Init => RunningTaskOwned
    BY DEF Init, RunningTaskOwned, NoRecord
  <1>3. Init => MessagesHeld
    BY DEF Init, MessagesHeld, NewSender
  <1> QED BY <1>1, <1>2, <1>3, InitTypeOK, QueueInvInit, LeadInvInit DEF LeadKnown, Known

LEMMA LeadKnownStep ==
    ASSUME LeadKnown, [Next]_vars
    PROVE  LeadKnown'
  <1>1. TypeOK' /\ SlotInv' /\ QueueInv' /\ RunningTaskOwned'
    BY NextTypeOK, SlotInvStep, QueueInvStep, RunningTaskOwnedStep DEF LeadKnown, Known
  <1>2. ASSUME Unstopped'
        PROVE  LeadInv' /\ MessagesHeld'
    <2>1. Unstopped /\ ~\E c \in Closers : CloseStep(c)
      BY <1>2, UnstoppedBefore DEF LeadKnown, Known
    <2> QED BY <2>1, LeadInvStep, MessagesHeldStep DEF LeadKnown
  <1> QED BY <1>1, <1>2 DEF LeadKnown, Known

(* As long as nobody asks for a stop, two workers never run agents for the *)
(* same task (runTask, runContinuation, reserveTaskMessage), across        *)
(* restarts, shutdowns and every failing call.                             *)
THEOREM OneRunForEachTask == Spec => [](Unstopped => OneRunPerTask)
  <1>1. LeadKnown => (Unstopped => OneRunPerTask)
    BY LeadKnownSafe
  <1> QED BY <1>1, LeadKnownInit, LeadKnownStep, PTL DEF Spec

(* As long as nobody asks for a stop, a message answered with 409 or 429   *)
(* is never given to an agent (SendTaskMessage, takeQueuedMessage).        *)
THEOREM RefusedMessagesNotRun == Spec => [](Unstopped => RefusedMessageNotRun)
  <1>1. LeadKnown => (Unstopped => RefusedMessageNotRun)
    BY LeadKnownSafe
  <1> QED BY <1>1, LeadKnownInit, LeadKnownStep, PTL DEF Spec

(* As long as nobody asks for a stop, a message answered with 202 waits in *)
(* the map, behind a queue entry or the worker that has just taken one,    *)
(* until a worker takes it (SendTaskMessage, enqueue, takeQueuedMessage).  *)
THEOREM AcceptedMessagesHeld == Spec => [](Unstopped => AcceptedMessageHeld)
  <1>1. LeadKnown => (Unstopped => AcceptedMessageHeld)
    BY LeadKnownSafe
  <1> QED BY <1>1, LeadKnownInit, LeadKnownStep, PTL DEF Spec

-----------------------------------------------------------------------------
(* The lifecycle of a task, and its container.                             *)

(* A flag is stored with the status solved and a solved task keeps no      *)
(* container; a refused submission never had one.                          *)
RecordFits(t) ==
    /\ task[t].flag => task[t].status = "solved"
    /\ task[t].status = "solved" => ~task[t].kept
    /\ submit[t] \in {"added", "full", "rejected"} => ~task[t].kept /\ ~task[t].named
    /\ submit[t] = "rejected" => task[t].status \in {"absent", "failed"}

(* The record a continuation has looked at has not changed since.          *)
ContinuesOpen(w) ==
    worker[w].pc = "mark" /\ worker[w].msg # NoMessage => CanContinue(task[worker[w].task])

OpenInv ==
    /\ \A t \in Tasks : RecordFits(t)
    /\ \A w \in Workers : ContinuesOpen(w)

-----------------------------------------------------------------------------
(* What the mutations do to the fields a client sees.                      *)

LEMMA RunRecords ==
    ASSUME NEW r \in Record
    PROVE  /\ MarkRunning(r).status = "running" /\ MarkRunning(r).flag = r.flag
           /\ MarkRunning(r).kept = r.kept /\ MarkRunning(r).named = r.named
           /\ MarkRunning(r).session = r.session
           /\ MarkRuntimeContainer(r).status = r.status /\ MarkRuntimeContainer(r).flag = r.flag
           /\ MarkRuntimeContainer(r).kept = r.kept
           /\ MarkOpenCodeSession(r).status = r.status /\ MarkOpenCodeSession(r).flag = r.flag
           /\ MarkOpenCodeSession(r).kept = r.kept
  BY DEF Record, MarkRunning, MarkRuntimeContainer, MarkOpenCodeSession

LEMMA OutcomeRecords ==
    ASSUME NEW r \in Record, NEW hasFlag \in BOOLEAN, NEW keep \in BOOLEAN
    PROVE  /\ MarkCompleted(r, keep).status = "completed" /\ ~MarkCompleted(r, keep).flag
           /\ MarkFinished(r, hasFlag, keep).status = IF hasFlag THEN "solved" ELSE "failed"
           /\ MarkFinished(r, hasFlag, keep).flag = hasFlag
           /\ MarkFinished(r, hasFlag, keep).kept = keep
  BY DEF Record, MarkCompleted, MarkFinished

LEMMA FailedRecord ==
    ASSUME NEW r \in Record
    PROVE  /\ MarkFailed(r).status = "failed" /\ MarkFailed(r).flag = r.flag
           /\ MarkFailed(r).kept = r.kept /\ MarkFailed(r).named = r.named
           /\ MarkFailed(r).session = r.session
  BY DEF Record, MarkFailed

-----------------------------------------------------------------------------
(* How a step shows.                                                       *)

(* Steps that change neither the records nor what was answered.            *)
LEMMA NothingShows ==
    ASSUME UNCHANGED task,
           \A t \in Tasks : submit'[t] = "rejected" <=> submit[t] = "rejected"
    PROVE  UNCHANGED Lifecycle!vars
  BY DEF Lifecycle!vars, LifeStatus, LifeOpen

(* A step that stores one record, of a task that is not refused.           *)
LEMMA OneShows ==
    ASSUME TypeOK, NEW t \in Tasks, NEW r \in Record, Update(t, r), UNCHANGED submit,
           submit[t] # "rejected"
    PROVE  /\ LifeStatus[t] = task[t].status
           /\ LifeOpen[t] = (task[t].kept /\ task[t].named /\ task[t].session)
           /\ LifeStatus' = [LifeStatus EXCEPT ![t] = r.status]
           /\ LifeOpen' = [LifeOpen EXCEPT ![t] = r.kept /\ r.named /\ r.session]
  <1>1. task'[t] = r /\ \A u \in Tasks \ {t} : task'[u] = task[u]
    BY StoredRecord DEF TypeOK
  <1>2. LifeStatus[t] = task[t].status /\ LifeStatus' = [LifeStatus EXCEPT ![t] = r.status]
    BY <1>1 DEF LifeStatus
  <1>3. /\ LifeOpen[t] = (task[t].kept /\ task[t].named /\ task[t].session)
        /\ LifeOpen' = [LifeOpen EXCEPT ![t] = r.kept /\ r.named /\ r.session]
    BY <1>1 DEF LifeOpen
  <1> QED BY <1>2, <1>3

(* A run, or the worker about to begin one, stores a record.               *)
LEMMA RunStores ==
    ASSUME Known, LeadInv, OpenInv, NEW w \in Workers, NEW r \in Record,
           worker[w].pc \in ActivePcs \cup {"mark"}, Update(worker[w].task, r),
           UNCHANGED submit, \A v \in Workers \ {w} : worker'[v] = worker[v],
           worker'[w].pc # "mark",
           r.flag => r.status = "solved", r.status = "solved" => ~r.kept
    PROVE  /\ OpenInv'
           /\ worker[w].task \in Tasks /\ submit[worker[w].task] # "rejected"
  <1> USE DEF Known
  <1>1. worker[w].task \in Tasks /\ Leading(w) /\ WorkerFits(w)
    BY DEF TypeOK, WorkerTypeOK, LeadInv, Leading, LeadPcs, ActivePcs, RunPcs, DockerPcs,
           FinishPcs
  <1> PICK t \in Tasks : t = worker[w].task
    BY <1>1
  <1>2. task'[t] = r /\ \A u \in Tasks \ {t} : task'[u] = task[u]
    BY StoredRecord DEF TypeOK
  <1>3. ~Submitting(t)
    BY <1>1 DEF LeadInv, OneLead, LeadAlone, Led
  <1>4. submit[t] \notin {"added", "full", "rejected"}
    <2>1. RecordFits(t) /\ ContinuesOpen(w)
      BY DEF OpenInv
    <2>2. CASE worker[w].pc \in ActivePcs
      BY <1>1, <1>3, <2>1, <2>2 DEF WorkerFits, RecordFits, Submitting
    <2>3. CASE worker[w].pc = "mark" /\ worker[w].msg = NoMessage
      BY <1>1, <1>3, <2>1, <2>3 DEF WorkerFits, RecordFits, Submitting, LeadPcs
    <2>4. CASE worker[w].pc = "mark" /\ worker[w].msg # NoMessage
      BY <1>3, <2>1, <2>4 DEF ContinuesOpen, CanContinue, RecordFits, Submitting
    <2> QED BY <2>2, <2>3, <2>4
  <1>5. \A u \in Tasks : RecordFits(u)'
    BY <1>2, <1>4 DEF OpenInv, RecordFits
  <1>6. ASSUME NEW v \in Workers
        PROVE  ContinuesOpen(v)'
    <2> SUFFICES ASSUME v # w, worker[v].pc = "mark", worker[v].msg # NoMessage
                 PROVE  CanContinue(task'[worker[v].task])
      BY DEF ContinuesOpen
    <2>1. worker[v].task \in Tasks /\ Leading(v)
      BY DEF TypeOK, WorkerTypeOK, Leading
    <2>2. worker[v].task # t
      BY <1>1, <2>1 DEF LeadInv, OneLead, LedOnce
    <2> QED BY <1>2, <2>1, <2>2 DEF OpenInv, ContinuesOpen
  <1> QED BY <1>4, <1>5, <1>6 DEF OpenInv

(* Steps that store nothing and begin no continuation.                     *)
LEMMA NothingStored ==
    ASSUME OpenInv, UNCHANGED <<task, submit>>,
           \A v \in Workers : worker'[v].pc = "mark" /\ worker'[v].msg # NoMessage =>
              \/ worker[v].pc = "mark" /\ worker[v].msg # NoMessage
                                       /\ worker'[v].task = worker[v].task
              \/ CanContinue(task[worker'[v].task])
    PROVE  OpenInv' /\ UNCHANGED Lifecycle!vars
  <1>1. UNCHANGED Lifecycle!vars
    BY NothingShows
  <1>2. \A t \in Tasks : RecordFits(t)'
    BY DEF OpenInv, RecordFits
  <1>3. \A v \in Workers : ContinuesOpen(v)'
    BY DEF OpenInv, ContinuesOpen
  <1> QED BY <1>1, <1>2, <1>3 DEF OpenInv

LifeStep == [Lifecycle!Next]_(Lifecycle!vars)

-----------------------------------------------------------------------------
(* One lemma for each group of actions.                                    *)

LEMMA BeginRunLife ==
    ASSUME Known, LeadInv, OpenInv, NEW w \in Workers, BeginRun(w)
    PROVE  OpenInv' /\ LifeStep
  <1> USE DEF Known
  <1>1. /\ worker[w].pc = "mark" /\ UNCHANGED submit /\ WorkerFits(w) /\ ContinuesOpen(w)
        /\ worker[w].task \in Tasks
    BY DEF BeginRun, clientVars, LeadInv, OpenInv, TypeOK, WorkerTypeOK
  <1> PICK t \in Tasks : t = worker[w].task
    BY <1>1
  <1>2. task[t] \in Record /\ RecordFits(t)
    BY DEF TypeOK, DataTypeOK, OpenInv
  <1> DEFINE r == MarkRunning(task[t])
  <1>3. /\ r \in Record /\ r.status = "running" /\ r.flag = task[t].flag
        /\ r.kept = task[t].kept /\ r.named = task[t].named /\ r.session = task[t].session
    BY <1>2, RunRecords, RecordTypes
  <1>4. Update(t, r)
    BY DEF BeginRun
  <1> HIDE DEF r
  <1>5. \/ worker[w].msg = NoMessage /\ task[t].status = "queued"
        \/ task[t].status \in {"completed", "failed"} /\ task[t].kept /\ task[t].named
                                                      /\ task[t].session
    <2>1. CASE worker[w].msg = NoMessage
      BY <1>1, <2>1 DEF WorkerFits, Leading, LeadPcs
    <2>2. CASE worker[w].msg # NoMessage
      BY <1>1, <1>2, <2>2 DEF ContinuesOpen, CanContinue, RecordFits, Record, Status
    <2> QED BY <2>1, <2>2
  <1>6. task[t].status # "solved"
    BY <1>5
  <1>7. ~r.flag
    BY <1>2, <1>3, <1>6 DEF RecordFits, Record
  <1>8. worker'[w].pc = "register" /\ \A v \in Workers \ {w} : worker'[v] = worker[v]
    BY MoveFields DEF BeginRun, TypeOK, WorkerPcs, StartPcs
  <1>9. OpenInv' /\ submit[t] # "rejected"
    BY <1>1, <1>3, <1>4, <1>7, <1>8, RunStores
  <1>10. /\ LifeStatus[t] = task[t].status
         /\ LifeOpen[t] = (task[t].kept /\ task[t].named /\ task[t].session)
         /\ LifeStatus' = [LifeStatus EXCEPT ![t] = "running"]
         /\ LifeOpen' = [LifeOpen EXCEPT ![t] = r.kept /\ r.named /\ r.session]
    BY <1>1, <1>3, <1>4, <1>9, OneShows
  <1>11. UNCHANGED LifeOpen
    BY <1>3, <1>10 DEF LifeOpen
  <1>12. Lifecycle!Start(t) \/ Lifecycle!Continue(t)
    BY <1>5, <1>10, <1>11 DEF Lifecycle!Start, Lifecycle!Continue
  <1> QED BY <1>9, <1>12 DEF LifeStep, Lifecycle!Next

LEMMA DispatchLife ==
    ASSUME Known, LeadInv, OpenInv, NEW w \in Workers, DispatchStep(w)
    PROVE  OpenInv' /\ LifeStep
  <1> USE DEF Known
  <1>1. CASE BeginRun(w)
    BY <1>1, BeginRunLife
  <1>2. CASE ~BeginRun(w)
    <2>1. UNCHANGED <<task, submit>>
      BY <1>2 DEF DispatchStep, Pop, Exit, TakeMessage, TaskCheck, ContCheck, Register, clientVars
    <2>2. /\ \A v \in Workers \ {w} : worker'[v] = worker[v]
          /\ worker'[w].pc = "mark" /\ worker'[w].msg # NoMessage
                => CanContinue(task[worker'[w].task])
      <3>1. CASE Exit(w)
        BY <3>1, MoveFields DEF Exit, TypeOK, WorkerPcs
      <3>2. CASE TaskCheck(w)
        <4>1. worker[w].msg = NoMessage
          BY <3>2 DEF TaskCheck, LeadInv, WorkerFits
        <4>2. CASE Goto(w, "mark")
          BY <4>1, <4>2, MoveFields DEF TypeOK, WorkerPcs, StartPcs
        <4>3. CASE Become(w, IdleWorker)
          BY <4>3, PutFields DEF TypeOK, IdleWorker
        <4> QED BY <3>2, <4>2, <4>3 DEF TaskCheck
      <3>3. CASE ContCheck(w)
        <4>1. CASE CanContinue(task[worker[w].task]) /\ Goto(w, "mark")
          BY <4>1, MoveFields DEF TypeOK, WorkerPcs, StartPcs
        <4>2. CASE Goto(w, "release")
          BY <4>2, MoveFields DEF TypeOK, WorkerPcs
        <4> QED BY <3>3, <4>1, <4>2 DEF ContCheck
      <3>4. CASE Pop(w)
        <4> DEFINE r == [worker[w] EXCEPT !.pc = "picked", !.task = Head(queue)]
        <4>1. Become(w, r) /\ r.pc = "picked"
          BY <3>4 DEF Pop, TypeOK, WorkerTypeOK, WorkerState
        <4> HIDE DEF r
        <4> QED BY <4>1, PutFields DEF TypeOK
      <3>5. CASE TakeMessage(w)
        <4> DEFINE r == [worker[w] EXCEPT !.pc = "contCheck", !.msg = message[worker[w].task]]
        <4>1. r.pc = "contCheck"
          BY DEF TypeOK, WorkerTypeOK, WorkerState
        <4>2. CASE Become(w, r)
          <5> HIDE DEF r
          <5> QED BY <4>1, <4>2, PutFields DEF TypeOK
        <4>3. CASE Goto(w, "taskCheck")
          BY <4>3, MoveFields DEF TypeOK, WorkerPcs, StartPcs
        <4> QED BY <3>5, <4>2, <4>3 DEF TakeMessage
      <3>6. CASE Register(w)
        <4> DEFINE r == [worker[w] EXCEPT
                          !.pc = IF worker[w].msg = NoMessage THEN "start" ELSE "hint",
                          !.ctx = IF Done THEN "dead" ELSE "live"]
        <4>1. Become(w, r) /\ r.pc # "mark"
          BY <3>6 DEF Register, TypeOK, WorkerTypeOK, WorkerState
        <4> HIDE DEF r
        <4> QED BY <4>1, PutFields DEF TypeOK
      <3> QED BY <1>2, <3>1, <3>2, <3>3, <3>4, <3>5, <3>6 DEF DispatchStep
    <2>3. OpenInv' /\ UNCHANGED Lifecycle!vars
      BY <2>1, <2>2, NothingStored
    <2> QED BY <2>3 DEF LifeStep
  <1> QED BY <1>1, <1>2

(* Inside a run the record gets its container's name and the session.      *)
LEMMA DockerLife ==
    ASSUME Known, LeadInv, OpenInv, NEW w \in Workers, DockerStep(w)
    PROVE  OpenInv' /\ LifeStep
  <1> USE DEF Known
  <1>1. worker[w].pc \in ActivePcs /\ worker[w].task \in Tasks /\ UNCHANGED submit
    BY DEF DockerStep, StartContainer, StartFails, SinkContainer, StartHint, HintFails,
           AgentSession, AgentExits, AgentFails, AgentCancelled, CancelledRemove, clientVars,
           ActivePcs, RunPcs, DockerPcs, FinishPcs, TypeOK, WorkerTypeOK
  <1> PICK t \in Tasks : t = worker[w].task
    BY <1>1
  <1>2. task[t].status = "running" /\ task[t] \in Record /\ RecordFits(t)
    BY <1>1 DEF LeadInv, WorkerFits, OpenInv, TypeOK, DataTypeOK
  <1>3. /\ \A v \in Workers \ {w} : worker'[v] = worker[v]
        /\ worker'[w].pc \in ActivePcs
    BY <1>1, <1>2, DockerSlots, DockerStatus, DockerKeepsRun DEF SlotQuiet, RunKept
  <1>4. worker'[w].pc # "mark"
    BY <1>3 DEF ActivePcs, RunPcs, DockerPcs, FinishPcs
  <1>5. ASSUME NEW r \in Record, Update(t, r), r.status = "running", r.flag = task[t].flag,
               r.kept = task[t].kept
        PROVE  OpenInv' /\ LifeStep
    <2>1. OpenInv' /\ submit[t] # "rejected"
      BY <1>1, <1>2, <1>3, <1>4, <1>5, RunStores DEF RecordFits
    <2>2. /\ LifeStatus[t] = "running"
          /\ LifeStatus' = [LifeStatus EXCEPT ![t] = "running"]
          /\ LifeOpen' = [LifeOpen EXCEPT ![t] = r.kept /\ r.named /\ r.session]
      BY <1>1, <1>2, <1>5, <2>1, OneShows
    <2>3. UNCHANGED LifeStatus
      BY <2>2 DEF LifeStatus
    <2>4. Lifecycle!Work(t)
      BY <2>2, <2>3 DEF Lifecycle!Work
    <2> QED BY <2>1, <2>4 DEF LifeStep, Lifecycle!Next
  <1>6. CASE UNCHANGED task
    <2>1. OpenInv' /\ UNCHANGED Lifecycle!vars
      BY <1>1, <1>3, <1>4, <1>6, NothingStored
    <2> QED BY <2>1 DEF LifeStep
  <1>7. CASE SinkContainer(w)
    <2> DEFINE r == MarkRuntimeContainer(task[t])
    <2>1. Update(t, r)
      BY <1>7 DEF SinkContainer
    <2>2. /\ r \in Record /\ r.status = "running" /\ r.flag = task[t].flag
          /\ r.kept = task[t].kept
      BY <1>2, RunRecords, RecordTypes
    <2> HIDE DEF r
    <2> QED BY <1>5, <2>1, <2>2
  <1>8. CASE AgentSession(w)
    <2> DEFINE r == MarkOpenCodeSession(task[t])
    <2>1. Update(t, r)
      BY <1>8 DEF AgentSession
    <2>2. /\ r \in Record /\ r.status = "running" /\ r.flag = task[t].flag
          /\ r.kept = task[t].kept
      BY <1>2, RunRecords, RecordTypes
    <2> HIDE DEF r
    <2> QED BY <1>5, <2>1, <2>2
  <1>9. CASE ~SinkContainer(w) /\ ~AgentSession(w)
    BY <1>6, <1>9 DEF DockerStep, StartContainer, StartFails, StartHint, HintFails, AgentExits,
                      AgentFails, AgentCancelled, CancelledRemove
  <1> QED BY <1>7, <1>8, <1>9

(* finishRun stores the outcome.                                           *)
LEMMA FinishLife ==
    ASSUME Known, LeadInv, OpenInv, NEW w \in Workers, FinishStep(w)
    PROVE  OpenInv' /\ LifeStep
  <1> USE DEF Known
  <1>1. UNCHANGED submit /\ worker[w].task \in Tasks
    BY DEF FinishStep, NextRound, StopCheck, StoreResult, RemoveSolved, FailCheck, FailRun,
           ClearCancel, Release, clientVars, TypeOK, WorkerTypeOK
  <1> PICK t \in Tasks : t = worker[w].task
    BY <1>1
  <1>2. task[t] \in Record /\ RecordFits(t)
    BY DEF OpenInv, TypeOK, DataTypeOK
  <1>3. CASE StoreResult(w) \/ FailRun(w)
    <2>1. worker[w].pc \in ActivePcs
      BY <1>3 DEF StoreResult, FailRun, ActivePcs, RunPcs, DockerPcs, FinishPcs
    <2>2. task[t].status = "running" /\ ~task[t].flag
      BY <1>2, <2>1 DEF LeadInv, WorkerFits, RecordFits, Record
    <2> DEFINE Outcome(r) == /\ r \in Record /\ r.status \in {"completed", "solved", "failed"}
                             /\ r.flag => r.status = "solved"
                             /\ r.status = "solved" => ~r.kept
    <2>3. PICK r : Update(t, r) /\ Outcome(r)
      <3>1. CASE FailRun(w)
        <4>1. Outcome(MarkFailed(task[t]))
          BY <1>2, <2>2, FailedRecord, RecordTypes
        <4>2. Update(t, MarkFailed(task[t]))
          BY <3>1 DEF FailRun
        <4> HIDE DEF Outcome
        <4> QED BY <4>1, <4>2
      <3>2. CASE StoreResult(w) /\ worker[w].result = "zero"
        <4>1. Outcome(MarkCompleted(task[t], TRUE))
          BY <1>2, OutcomeRecords, RecordTypes
        <4>2. Update(t, MarkCompleted(task[t], TRUE))
          BY <3>2 DEF StoreResult
        <4> HIDE DEF Outcome
        <4> QED BY <4>1, <4>2
      <3>3. CASE StoreResult(w) /\ worker[w].result # "zero"
        <4>1. \/ Update(t, MarkFinished(task[t], TRUE, FALSE))
              \/ Update(t, MarkFinished(task[t], FALSE, TRUE))
          BY <3>3 DEF StoreResult
        <4>2. Outcome(MarkFinished(task[t], TRUE, FALSE))
          BY <1>2, OutcomeRecords, RecordTypes
        <4>3. Outcome(MarkFinished(task[t], FALSE, TRUE))
          BY <1>2, OutcomeRecords, RecordTypes
        <4> HIDE DEF Outcome
        <4> QED BY <4>1, <4>2, <4>3
      <3> HIDE DEF Outcome
      <3> QED BY <1>3, <3>1, <3>2, <3>3
    <2>4. PICK pc \in {"solvedRm", "clear"} : Goto(w, pc)
      BY <1>3 DEF StoreResult, FailRun
    <2>5. worker'[w].pc # "mark" /\ \A v \in Workers \ {w} : worker'[v] = worker[v]
      BY <2>4, MoveFields DEF TypeOK, WorkerPcs, FinishPcs
    <2>6. OpenInv' /\ submit[t] # "rejected"
      BY <1>1, <2>1, <2>3, <2>5, RunStores
    <2>7. /\ LifeStatus[t] = "running"
          /\ LifeStatus' = [LifeStatus EXCEPT ![t] = r.status]
          /\ LifeOpen' = [LifeOpen EXCEPT ![t] = r.kept /\ r.named /\ r.session]
      BY <1>1, <2>2, <2>3, <2>6, OneShows
    <2>8. Lifecycle!Finish(t, r.status)
      BY <2>3, <2>7 DEF Lifecycle!Finish
    <2> QED BY <2>3, <2>6, <2>8 DEF LifeStep, Lifecycle!Next, Lifecycle!Outcomes
  <1>4. CASE ~StoreResult(w) /\ ~FailRun(w)
    <2>1. UNCHANGED task
      BY <1>4 DEF FinishStep, NextRound, StopCheck, RemoveSolved, FailCheck, ClearCancel, Release
    <2>2. PICK r : Become(w, r) /\ r.pc # "mark"
      <3>1. \A pc \in {"check", "failCheck", "clear", "result", "failMark"} :
               [worker[w] EXCEPT !.pc = pc].pc = pc
        BY DEF TypeOK, WorkerTypeOK, WorkerState
      <3>2. [worker[w] EXCEPT !.pc = "hint", !.round = worker[w].round + 1].pc = "hint"
        BY DEF TypeOK, WorkerTypeOK, WorkerState
      <3>3. [worker[w] EXCEPT !.pc = "release", !.ctx = "none"].pc = "release"
        BY DEF TypeOK, WorkerTypeOK, WorkerState
      <3>4. IdleWorker.pc = "idle"
        BY DEF IdleWorker
      <3>5. CASE \E pc \in {"check", "failCheck", "clear", "result", "failMark"} : Goto(w, pc)
        BY <3>1, <3>5 DEF Goto
      <3>6. CASE Release(w) \/ ClearCancel(w)
        BY <3>3, <3>4, <3>6 DEF Release, ClearCancel
      <3>7. CASE NextRound(w)
        BY <3>2, <3>5, <3>7 DEF NextRound
      <3>8. CASE StopCheck(w) \/ RemoveSolved(w) \/ FailCheck(w)
        BY <3>5, <3>8 DEF StopCheck, RemoveSolved, FailCheck
      <3> QED BY <1>4, <3>6, <3>7, <3>8 DEF FinishStep
    <2>3. worker'[w].pc # "mark" /\ \A v \in Workers \ {w} : worker'[v] = worker[v]
      BY <2>2, PutFields DEF TypeOK
    <2>4. OpenInv' /\ UNCHANGED Lifecycle!vars
      BY <1>1, <2>1, <2>3, NothingStored
    <2> QED BY <2>4 DEF LifeStep
  <1> QED BY <1>3, <1>4

(* createTask and Submit. *)
LEMMA SubmitLife ==
    ASSUME Known, LeadInv, OpenInv, NEW t \in Tasks, SubmitStep(t)
    PROVE  OpenInv' /\ LifeStep
  <1> USE DEF Known
  <1>1. /\ UNCHANGED worker
        /\ \A u \in Tasks \ {t} : submit'[u] = submit[u] /\ task'[u] = task[u]
    BY DEF SubmitStep, SubmitCheck, SubmitAdd, SubmitEnqueue, SubmitFull, SubmitFail, TypeOK,
           ClientTypeOK, DataTypeOK, Update
  <1>2. RecordFits(t) /\ task[t] \in Record
    BY DEF OpenInv, TypeOK, DataTypeOK
  <1>3. submit[t] \in {"new", "checked"} => task[t] = NoRecord
    BY DEF QueueInv, PresentInv
  <1>4. \A v \in Workers : ContinuesOpen(v) /\ worker[v].pc = "mark" => worker[v].task \in Tasks
    BY DEF OpenInv, TypeOK, WorkerTypeOK
  <1>5. CASE SubmitCheck(t) \/ SubmitEnqueue(t) \/ SubmitFull(t)
    <2>1. /\ UNCHANGED task /\ submit[t] \in {"new", "added"}
          /\ submit'[t] \in {"checked", "rejected", "accepted", "full"}
          /\ submit'[t] = "full" => submit[t] = "added"
          /\ submit'[t] = "rejected" => submit[t] = "new"
      BY <1>5 DEF SubmitCheck, SubmitEnqueue, SubmitFull, TypeOK, ClientTypeOK
    <2>2. RecordFits(t)'
      BY <1>2, <1>3, <2>1 DEF RecordFits, NoRecord
    <2>3. OpenInv'
      BY <1>1, <2>1, <2>2 DEF OpenInv, RecordFits, ContinuesOpen
    <2>4. LifeStatus' = LifeStatus
      <3>1. submit'[t] = "rejected" => task[t].status = "absent"
        BY <1>3, <2>1 DEF NoRecord
      <3> QED BY <1>1, <2>1, <3>1 DEF LifeStatus
    <2>5. UNCHANGED Lifecycle!vars
      BY <2>1, <2>4 DEF Lifecycle!vars, LifeOpen
    <2> QED BY <2>3, <2>5 DEF LifeStep
  <1>6. CASE SubmitAdd(t)
    <2>1. /\ submit[t] = "checked" /\ submit'[t] = "added" /\ task[t] = NoRecord
          /\ task'[t] = NewRecord
      BY <1>3, <1>6, StoredRecord DEF SubmitAdd, TypeOK, ClientTypeOK
    <2>2. /\ NewRecord.status = "queued" /\ ~NewRecord.flag /\ ~NewRecord.kept
          /\ ~NewRecord.named
      BY DEF NewRecord, NoRecord
    <2>3. NoRecord.status = "absent" /\ ~NoRecord.kept
      BY DEF NoRecord
    <2>4. RecordFits(t)'
      BY <2>1, <2>2 DEF RecordFits
    <2>5. ASSUME NEW v \in Workers
          PROVE  ContinuesOpen(v)'
      BY <1>1, <1>4, <2>1, <2>3 DEF OpenInv, ContinuesOpen, CanContinue
    <2>6. OpenInv'
      BY <1>1, <2>4, <2>5 DEF OpenInv, RecordFits
    <2>7. LifeStatus[t] = "absent" /\ LifeStatus' = [LifeStatus EXCEPT ![t] = "queued"]
      BY <1>1, <2>1, <2>2, <2>3 DEF LifeStatus
    <2>8. LifeOpen' = LifeOpen
      BY <1>1, <2>1, <2>2, <2>3 DEF LifeOpen
    <2>9. Lifecycle!Submit(t)
      BY <2>7, <2>8 DEF Lifecycle!Submit
    <2> QED BY <2>6, <2>9 DEF LifeStep, Lifecycle!Next
  <1>7. CASE SubmitFail(t)
    <2>1. /\ submit[t] = "full" /\ submit'[t] = "rejected" /\ task'[t] = MarkFailed(task[t])
      BY <1>7, StoredRecord DEF SubmitFail, TypeOK, ClientTypeOK
    <2>2. task[t].status = "queued"
      BY <2>1 DEF LeadInv, TaskFits, Submitting
    <2>3. /\ task'[t].status = "failed" /\ task'[t].flag = task[t].flag
          /\ task'[t].kept = task[t].kept /\ task'[t].named = task[t].named
          /\ task'[t].session = task[t].session
      BY <1>2, <2>1, FailedRecord
    <2>4. RecordFits(t)'
      BY <1>2, <2>1, <2>2, <2>3 DEF RecordFits
    <2>5. ASSUME NEW v \in Workers
          PROVE  ContinuesOpen(v)'
      BY <1>1, <1>2, <1>4, <2>1 DEF OpenInv, ContinuesOpen, CanContinue, RecordFits
    <2>6. OpenInv'
      BY <1>1, <2>4, <2>5 DEF OpenInv, RecordFits
    <2>7. LifeStatus[t] = "queued" /\ LifeStatus' = [LifeStatus EXCEPT ![t] = "refused"]
      BY <1>1, <2>1, <2>2, <2>3 DEF LifeStatus
    <2>8. LifeOpen' = LifeOpen
      BY <1>1, <2>3 DEF LifeOpen
    <2>9. Lifecycle!Refuse(t)
      BY <2>7, <2>8 DEF Lifecycle!Refuse
    <2> QED BY <2>6, <2>9 DEF LifeStep, Lifecycle!Next
  <1> QED BY <1>5, <1>6, <1>7 DEF SubmitStep

LEMMA SendLife ==
    ASSUME OpenInv, NEW s \in Senders, SendStep(s)
    PROVE  OpenInv' /\ LifeStep
  <1>1. UNCHANGED <<task, submit, worker>>
    BY DEF SendStep, SendCheck, SendReserve, SendEnqueue, SendFull, SendUndo
  <1>2. OpenInv' /\ UNCHANGED Lifecycle!vars
    BY <1>1, NothingStored
  <1> QED BY <1>2 DEF LifeStep

(* Recovery queues a running task again. *)
LEMMA RecoverLife ==
    ASSUME Known, LeadInv, OpenInv, NEW t \in Tasks, RecoverNext(t)
    PROVE  OpenInv' /\ LifeStep
  <1> USE DEF Known
  <1>1. t \in recover /\ UNCHANGED <<worker, submit>> /\ Update(t, MarkRecovered(task[t]))
    BY DEF RecoverNext, clientVars
  <1>2. RecordFits(t) /\ task[t] \in Record /\ task[t].status \in {"queued", "running"}
    BY <1>1 DEF OpenInv, TypeOK, DataTypeOK, LeadInv, TaskFits
  <1>3. submit[t] # "rejected"
    BY <1>2 DEF RecordFits
  <1>4. ~Led(t) /\ ~Submitting(t)
    BY <1>1 DEF LeadInv, OneLead, LeadAlone
  <1> DEFINE r == MarkRecovered(task[t])
  <1>5. /\ r \in Record /\ r.status = "queued" /\ r.flag = task[t].flag
        /\ r = task[t] \/ (task[t].status = "running" /\ ~r.kept)
    <2>1. r \in Record
      BY <1>2, RecordTypes
    <2> QED BY <1>2, <2>1 DEF MarkRecovered, Record
  <1>6. Update(t, r)
    BY <1>1
  <1> HIDE DEF r
  <1>7. task'[t] = r /\ \A u \in Tasks \ {t} : task'[u] = task[u]
    BY <1>6, StoredRecord DEF TypeOK
  <1>8. RecordFits(t)'
    BY <1>1, <1>2, <1>3, <1>4, <1>5, <1>7 DEF RecordFits, Submitting
  <1>9. ASSUME NEW v \in Workers
        PROVE  ContinuesOpen(v)'
    <2> SUFFICES ASSUME worker[v].pc = "mark", worker[v].msg # NoMessage
                 PROVE  CanContinue(task'[worker[v].task])
      BY <1>1 DEF ContinuesOpen
    <2>1. worker[v].task \in Tasks /\ worker[v].task # t
      BY <1>4 DEF TypeOK, WorkerTypeOK, Led, Leading
    <2> QED BY <1>7, <2>1 DEF OpenInv, ContinuesOpen
  <1>10. OpenInv'
    BY <1>1, <1>7, <1>8, <1>9 DEF OpenInv, RecordFits
  <1>11. /\ LifeStatus[t] = task[t].status
         /\ LifeOpen[t] = (task[t].kept /\ task[t].named /\ task[t].session)
         /\ LifeStatus' = [LifeStatus EXCEPT ![t] = "queued"]
         /\ LifeOpen' = [LifeOpen EXCEPT ![t] = r.kept /\ r.named /\ r.session]
    BY <1>1, <1>3, <1>5, <1>6, OneShows
  <1>12. CASE r = task[t]
    <2>1. UNCHANGED Lifecycle!vars
      BY <1>5, <1>11, <1>12 DEF Lifecycle!vars, LifeStatus, LifeOpen
    <2> QED BY <1>10, <2>1 DEF LifeStep
  <1>13. CASE task[t].status = "running" /\ ~r.kept
    <2>1. LifeOpen' = [LifeOpen EXCEPT ![t] = FALSE]
      BY <1>11, <1>13
    <2>2. Lifecycle!Requeue(t)
      BY <1>11, <1>13, <2>1 DEF Lifecycle!Requeue
    <2> QED BY <1>10, <2>2 DEF LifeStep, Lifecycle!Next
  <1> QED BY <1>5, <1>12, <1>13

(* ClearResultData takes the flags back. *)
LEMMA ClearLife ==
    ASSUME Known, LeadInv, OpenInv, ClearResults
    PROVE  OpenInv' /\ LifeStep
  <1> USE DEF Known
  <1>1. UNCHANGED <<worker, submit>>
    BY DEF ClearResults, clientVars
  <1>2. ASSUME NEW t \in Tasks
        PROVE  /\ ~task'[t].flag /\ task'[t].kept = task[t].kept
               /\ task'[t].named = task[t].named /\ task'[t].session = task[t].session
               /\ task'[t].status = IF task[t].status = "solved" THEN "completed"
                                    ELSE task[t].status
    <2>1. task'[t] = ClearResult(task[t]) /\ task[t] \in Record
      BY DEF ClearResults, TypeOK, DataTypeOK
    <2> QED BY <2>1 DEF ClearResult, Record
  <1>3. \A t \in Tasks : RecordFits(t)'
    BY <1>1, <1>2 DEF OpenInv, RecordFits
  <1>4. ASSUME NEW v \in Workers
        PROVE  ContinuesOpen(v)'
    <2> SUFFICES ASSUME worker[v].pc = "mark", worker[v].msg # NoMessage
                 PROVE  CanContinue(task'[worker[v].task])
      BY <1>1 DEF ContinuesOpen
    <2>1. worker[v].task \in Tasks /\ CanContinue(task[worker[v].task])
      BY DEF TypeOK, WorkerTypeOK, OpenInv, ContinuesOpen
    <2> QED BY <1>2, <2>1 DEF CanContinue
  <1>5. Lifecycle!Clear
    <2>1. LifeStatus' = [t \in Tasks |-> IF LifeStatus[t] = "solved" THEN "completed"
                                         ELSE LifeStatus[t]]
      BY <1>1, <1>2 DEF LifeStatus
    <2>2. LifeOpen' = LifeOpen
      BY <1>2 DEF LifeOpen
    <2> QED BY <2>1, <2>2 DEF Lifecycle!Clear
  <1> QED BY <1>3, <1>4, <1>5 DEF OpenInv, LifeStep, Lifecycle!Next

LEMMA ProcessLife ==
    ASSUME Known, OpenInv,
           \/ CancelAllRuns \/ CloseDone \/ GraceOver \/ UNCHANGED vars
           \/ \E t \in Tasks : ForceRemove(t)
    PROVE  OpenInv' /\ LifeStep
  <1>1. UNCHANGED <<task, submit>>
    BY DEF CancelAllRuns, CloseDone, GraceOver, ForceRemove, vars, clientVars
  <1>2. WorkersStay
    BY DEF CancelAllRuns, CloseDone, GraceOver, ForceRemove, vars, WorkersStay, Known, TypeOK,
           WorkerTypeOK, WorkerState
  <1>3. OpenInv' /\ UNCHANGED Lifecycle!vars
    BY <1>1, <1>2, NothingStored DEF WorkersStay
  <1> QED BY <1>3 DEF LifeStep

LEMMA CloseReturnsLife ==
    ASSUME Known, OpenInv, CloseReturns
    PROVE  OpenInv' /\ LifeStep
  <1>1. UNCHANGED task /\ ProcessGone("exited")
    BY DEF CloseReturns
  <1>2. /\ \A t \in Tasks : submit'[t] = "rejected" <=> submit[t] = "rejected"
        /\ \A t \in Tasks : submit'[t] \notin {"added", "full"}
        /\ \A w \in Workers : worker'[w].pc \in {"idle", "exited"}
    BY <1>1, GoneQueueInv DEF ProcessGone, Known
  <1>3. OpenInv'
    BY <1>1, <1>2 DEF OpenInv, RecordFits, ContinuesOpen
  <1>4. UNCHANGED Lifecycle!vars
    BY <1>1, <1>2, NothingShows
  <1> QED BY <1>3, <1>4 DEF LifeStep

(* What a restart makes of a record. *)
LEMMA ReloadedRecord ==
    ASSUME NEW r \in Record, r.flag => r.status = "solved"
    PROVE  /\ r.status # "running" => Reloaded(r) = r
           /\ r.status = "running" => /\ Reloaded(r).status \in {"running", "failed"}
                                      /\ ~Reloaded(r).flag
  BY DEF Record, Reloaded, Loaded, MarkInterruptedContainerRetained

LEMMA RestartLife ==
    ASSUME Known, OpenInv, Restart
    PROVE  OpenInv' /\ LifeStep
  <1> USE DEF Known
  <1>1. PICK gone \in SUBSET {t \in Tasks : submit[t] = "rejected"} :
           task' = [t \in Tasks |-> IF t \in gone THEN NoRecord ELSE Reloaded(task[t])]
    BY DEF Restart
  <1>2. ProcessGone("idle")
    BY DEF Restart
  <1>3. /\ \A t \in Tasks : submit'[t] = "rejected" <=> submit[t] = "rejected"
        /\ \A t \in Tasks : submit'[t] \notin {"added", "full"}
        /\ \A w \in Workers : worker'[w].pc \in {"idle", "exited"}
    BY <1>2, GoneQueueInv DEF ProcessGone
  <1>4. ASSUME NEW t \in Tasks
        PROVE  /\ task[t].status # "running" =>
                     \/ task'[t] = task[t]
                     \/ submit[t] = "rejected" /\ task'[t] = NoRecord
               /\ task[t].status = "running" =>
                     /\ submit[t] # "rejected" /\ ~task'[t].flag
                     /\ task'[t].status \in {"running", "failed"}
    <2>1. RecordFits(t) /\ task[t] \in Record
      BY DEF OpenInv, TypeOK, DataTypeOK
    <2>2. task'[t] = IF t \in gone THEN NoRecord ELSE Reloaded(task[t])
      BY <1>1
    <2>3. t \in gone => submit[t] = "rejected"
      OBVIOUS
    <2> QED BY <2>1, <2>2, <2>3, ReloadedRecord DEF RecordFits
  <1>5. NoRecord.status = "absent" /\ ~NoRecord.flag /\ ~NoRecord.kept /\ ~NoRecord.named
    BY DEF NoRecord
  <1>6. OpenInv'
    <2>1. ASSUME NEW t \in Tasks
          PROVE  RecordFits(t)'
      BY <1>3, <1>4, <1>5 DEF OpenInv, RecordFits
    <2>2. \A w \in Workers : ContinuesOpen(w)'
      BY <1>3 DEF ContinuesOpen
    <2> QED BY <2>1, <2>2 DEF OpenInv
  <1> DEFINE f == [t \in Tasks |-> IF task[t].status = "running" THEN task'[t].status
                                   ELSE "failed"]
             r == [t \in Tasks |-> IF task'[t].status = "absent" THEN "absent" ELSE "refused"]
             o == [t \in Tasks |-> task'[t].kept /\ task'[t].named /\ task'[t].session]
  <1>7. /\ f \in [Tasks -> {"running", "failed"}] /\ r \in [Tasks -> {"refused", "absent"}]
        /\ o \in [Tasks -> BOOLEAN]
    <2>1. f \in [Tasks -> {"running", "failed"}] /\ r \in [Tasks -> {"refused", "absent"}]
      BY <1>4
    <2>2. task' \in [Tasks -> Record]
      BY NextTypeOK DEF Next, TypeOK, DataTypeOK
    <2>3. o \in [Tasks -> BOOLEAN]
      BY <2>2 DEF Record
    <2> QED BY <2>1, <2>3
  <1>8. LifeStatus' = [t \in Tasks |-> CASE LifeStatus[t] = "running" -> f[t]
                                         [] LifeStatus[t] = "refused" -> r[t]
                                         [] OTHER -> LifeStatus[t]]
    <2> SUFFICES ASSUME NEW t \in Tasks
                 PROVE  LifeStatus'[t] = CASE LifeStatus[t] = "running" -> f[t]
                                           [] LifeStatus[t] = "refused" -> r[t]
                                           [] OTHER -> LifeStatus[t]
      BY DEF LifeStatus
    <2>1. /\ LifeStatus[t] = IF submit[t] = "rejected" /\ task[t].status = "failed"
                             THEN "refused" ELSE task[t].status
          /\ LifeStatus'[t] = IF submit[t] = "rejected" /\ task'[t].status = "failed"
                              THEN "refused" ELSE task'[t].status
      BY <1>3 DEF LifeStatus
    <2>2. RecordFits(t) /\ task[t] \in Record
      BY DEF OpenInv, TypeOK, DataTypeOK
    <2>3. CASE task[t].status = "running"
      BY <1>4, <2>1, <2>3
    <2>4. CASE task[t].status # "running" /\ task'[t] = task[t]
      BY <2>1, <2>2, <2>4 DEF Record, Status
    <2>5. CASE submit[t] = "rejected" /\ task[t].status # "running" /\ task'[t] = NoRecord
      BY <1>5, <2>1, <2>2, <2>5 DEF RecordFits
    <2> QED BY <1>4, <2>3, <2>4, <2>5
  <1>9. LifeOpen' = [t \in Tasks |-> IF LifeStatus[t] = "running" THEN o[t] ELSE LifeOpen[t]]
    <2> SUFFICES ASSUME NEW t \in Tasks
                 PROVE  LifeOpen'[t] = IF LifeStatus[t] = "running" THEN o[t] ELSE LifeOpen[t]
      BY DEF LifeOpen
    <2>1. /\ LifeOpen'[t] = o[t]
          /\ LifeOpen[t] = (task[t].kept /\ task[t].named /\ task[t].session)
          /\ LifeStatus[t] = "running" <=> task[t].status = "running"
      BY DEF LifeOpen, LifeStatus
    <2>2. CASE task[t].status # "running" /\ task'[t] = task[t]
      BY <2>1, <2>2
    <2>3. CASE submit[t] = "rejected" /\ task[t].status # "running" /\ task'[t] = NoRecord
      <3>1. ~task[t].kept
        BY <2>3 DEF OpenInv, RecordFits
      <3> QED BY <1>5, <2>1, <2>3, <3>1
    <2> QED BY <1>4, <2>1, <2>2, <2>3
  <1> HIDE DEF f, r, o
  <1>10. Lifecycle!Restart
    BY <1>7, <1>8, <1>9 DEF Lifecycle!Restart
  <1> QED BY <1>6, <1>10 DEF LifeStep, Lifecycle!Next

-----------------------------------------------------------------------------

LifeKnown == LeadKnown /\ (Unstopped => OpenInv)

LEMMA LifeInit == Init => OpenInv /\ Lifecycle!Init
  <1> SUFFICES ASSUME Init PROVE OpenInv /\ Lifecycle!Init
    OBVIOUS
  <1>1. OpenInv
    BY DEF Init, OpenInv, RecordFits, ContinuesOpen, NoRecord, IdleWorker
  <1>2. Lifecycle!Init
    BY DEF Init, Lifecycle!Init, LifeStatus, LifeOpen, NoRecord
  <1> QED BY <1>1, <1>2

LEMMA LifeNext ==
    ASSUME LifeKnown, [Next]_vars
    PROVE  LifeKnown' /\ (Unstopped' => LifeStep)
  <1> SUFFICES ASSUME Unstopped'
               PROVE  OpenInv' /\ LifeStep
    BY LeadKnownStep DEF LifeKnown
  <1>1. /\ Unstopped /\ Known /\ LeadInv /\ OpenInv /\ TypeOK
        /\ ~\E c \in Closers : CloseStep(c)
    BY UnstoppedBefore DEF LeadKnown, LifeKnown, Known
  <1>2. ASSUME NEW w \in Workers, DispatchStep(w) \/ DockerStep(w) \/ FinishStep(w)
        PROVE  OpenInv' /\ LifeStep
    BY <1>1, <1>2, DispatchLife, DockerLife, FinishLife
  <1>3. ASSUME NEW w \in Workers, Deadline(w)
        PROVE  OpenInv' /\ LifeStep
    <2> DEFINE r == [worker[w] EXCEPT !.ctx = "dead"]
    <2>1. Become(w, r) /\ UNCHANGED <<task, submit>>
      BY <1>3 DEF Deadline, clientVars
    <2>2. r.pc = worker[w].pc /\ r.task = worker[w].task /\ r.msg = worker[w].msg
      BY <1>1 DEF Known, TypeOK, WorkerTypeOK, WorkerState
    <2> HIDE DEF r
    <2>3. OpenInv' /\ UNCHANGED Lifecycle!vars
      BY <1>1, <2>1, <2>2, PutFields, NothingStored DEF Known, TypeOK
    <2> QED BY <2>3 DEF LifeStep
  <1>4. ASSUME NEW t \in Tasks, SubmitStep(t) \/ RecoverNext(t)
        PROVE  OpenInv' /\ LifeStep
    BY <1>1, <1>4, SubmitLife, RecoverLife
  <1>5. ASSUME NEW s \in Senders, SendStep(s)
        PROVE  OpenInv' /\ LifeStep
    BY <1>1, <1>5, SendLife
  <1>6. CASE ClearResults \/ CloseReturns \/ Restart
    BY <1>1, <1>6, ClearLife, CloseReturnsLife, RestartLife
  <1>7. CASE \/ CancelAllRuns \/ CloseDone \/ GraceOver \/ UNCHANGED vars
             \/ \E t \in Tasks : ForceRemove(t)
    BY <1>1, <1>7, ProcessLife
  <1> QED BY <1>1, <1>2, <1>3, <1>4, <1>5, <1>6, <1>7 DEF Next

(* Without stop requests the task service implements the lifecycle of its  *)
(* tasks, whatever runs, continuations, failing calls, shutdowns, crashes  *)
(* and recoveries come together (service.go, store.go, DATA_MODEL.md).     *)
THEOREM ServiceRefinesLifecycle ==
    ASSUME Closers = {}
    PROVE  Spec => RefinesLifecycle
  <1>1. Init => LifeKnown /\ Lifecycle!Init
    BY LeadKnownInit, LifeInit DEF LifeKnown
  <1>2. LifeKnown /\ [Next]_vars => LifeKnown' /\ [Lifecycle!Next]_(Lifecycle!vars)
    BY LifeNext DEF LifeStep, Unstopped
  <1> QED BY <1>1, <1>2, PTL DEF Spec, RefinesLifecycle, Lifecycle!Spec

-----------------------------------------------------------------------------
(* Containers. A run that is not cancelled leaves its container where the  *)
(* record says it is.                                                      *)

(* From the container's start to the stored outcome the container exists;  *)
(* the record names it once the sink has run.                              *)
StartedPcs == {"sink", "hint", "agent", "round", "check", "result"}
NamedPcs == ActivePcs \ {"register", "start", "sink"}

RecordPlace(t) ==
    /\ task[t].status = "queued" => ~task[t].kept /\ ~task[t].named
    /\ task[t].kept => task[t].named /\ t \in containers
    /\ task[t].status = "running" /\ task[t].named => t \in containers
    /\ "run" \notin Faults /\ t \in containers =>
          /\ task[t].named \/ task[t].status \in {"queued", "running"}
          /\ submit[t] \notin {"added", "full", "rejected"}

RunPlace(w) ==
    LET t == worker[w].task
        pc == worker[w].pc IN
    /\ pc # "ctxRm" /\ worker[w].ctx # "dead"
    /\ pc = "register" => IF worker[w].msg = NoMessage THEN ~task[t].kept /\ ~task[t].named
                          ELSE task[t].named
    /\ pc = "start" => ~task[t].kept /\ ~task[t].named
    /\ pc \in StartedPcs => t \in containers
    /\ pc = "solvedRm" => ~task[t].kept /\ task[t].status \in {"solved", "completed"}
    /\ "run" \notin Faults /\ pc \in NamedPcs => task[t].named

PlaceInv ==
    /\ phase = "up"
    /\ \A t \in Tasks : RecordPlace(t)
    /\ \A w \in Workers : RunPlace(w)

Placed == Known /\ LeadInv /\ OpenInv /\ PlaceInv

-----------------------------------------------------------------------------

(* No two workers are in a run of the same task, and none is while another *)
(* removes the container of a solved run.                                  *)
LEMMA RunsApart ==
    ASSUME Placed, NEW w \in Workers, NEW v \in Workers \ {w},
           worker[v].task = worker[w].task,
           worker[w].pc \in ActivePcs \cup {"mark", "solvedRm"},
           worker[v].pc \in ActivePcs \cup {"solvedRm"}
    PROVE  worker[w].pc = "solvedRm" /\ worker[v].pc = "solvedRm"
  <1> USE DEF Placed
  <1>1. WorkerFits(w) /\ WorkerFits(v) /\ RunPlace(w) /\ RunPlace(v) /\ ContinuesOpen(w)
    BY DEF LeadInv, PlaceInv, OpenInv
  <1>2. CASE worker[w].pc # "solvedRm" /\ worker[v].pc # "solvedRm"
    BY <1>2 DEF LeadInv, OneLead, LedOnce, Leading, LeadPcs
  <1>3. CASE worker[w].pc = "solvedRm" /\ worker[v].pc # "solvedRm"
    BY <1>1, <1>3 DEF WorkerFits, RunPlace
  <1>4. CASE worker[w].pc \in ActivePcs /\ worker[v].pc = "solvedRm"
    BY <1>1, <1>4 DEF WorkerFits, RunPlace
  <1>5. CASE worker[w].pc = "mark" /\ worker[v].pc = "solvedRm"
    <2>1. CASE worker[w].msg = NoMessage
      BY <1>1, <1>5, <2>1 DEF WorkerFits, RunPlace, Leading, LeadPcs
    <2>2. CASE worker[w].msg # NoMessage
      BY <1>1, <1>5, <2>2 DEF ContinuesOpen, CanContinue, RunPlace
    <2> QED BY <2>1, <2>2
  <1> QED BY <1>2, <1>3, <1>4, <1>5

(* A worker's step that leaves the other tasks alone.                      *)
LEMMA WorkerPlace ==
    ASSUME Placed, NEW w \in Workers, UNCHANGED <<submit, phase>>,
           \A v \in Workers \ {w} : worker'[v] = worker[v],
           \A u \in Tasks : u # worker[w].task =>
               task'[u] = task[u] /\ (u \in containers' <=> u \in containers),
           \/ UNCHANGED <<task, containers>>
           \/ worker[w].pc \in ActivePcs \cup {"mark"}
           \/ worker[w].pc = "solvedRm" /\ UNCHANGED task,
           \A u \in Tasks : u = worker[w].task => RecordPlace(u)',
           RunPlace(w)'
    PROVE  PlaceInv'
  <1> USE DEF Placed
  <1>1. ASSUME NEW u \in Tasks
        PROVE  RecordPlace(u)'
    BY DEF PlaceInv, RecordPlace
  <1>2. ASSUME NEW v \in Workers \ {w}
        PROVE  RunPlace(v)'
    <2>1. RunPlace(v) /\ worker'[v] = worker[v]
      BY DEF PlaceInv
    <2>2. CASE UNCHANGED <<task, containers>>
      BY <2>1, <2>2 DEF RunPlace
    <2>3. CASE worker[v].pc \notin ActivePcs \cup {"solvedRm"}
      BY <2>1, <2>3 DEF RunPlace, StartedPcs, NamedPcs, ActivePcs, RunPcs, DockerPcs, FinishPcs
    <2>4. CASE worker[v].pc \in ActivePcs \cup {"solvedRm"} /\ ~UNCHANGED <<task, containers>>
      <3>1. worker[v].task \in Tasks
        BY <2>4 DEF Known, TypeOK, WorkerTypeOK, ActivePcs, RunPcs, DockerPcs, FinishPcs
      <3>2. CASE worker[v].task # worker[w].task
        BY <2>1, <3>1, <3>2 DEF RunPlace
      <3>3. CASE worker[v].task = worker[w].task
        <4>1. worker[w].pc = "solvedRm" /\ worker[v].pc = "solvedRm"
          BY <2>4, <3>3, RunsApart
        <4>2. UNCHANGED task
          BY <2>4, <4>1 DEF ActivePcs, RunPcs, DockerPcs, FinishPcs
        <4> QED BY <2>1, <4>1, <4>2 DEF RunPlace, StartedPcs, NamedPcs, ActivePcs
      <3> QED BY <3>2, <3>3
    <2> QED BY <2>2, <2>3, <2>4
  <1> QED BY <1>1, <1>2 DEF PlaceInv

(* A worker's step that stores nothing and leaves Docker alone.            *)
LEMMA WorkerMoves ==
    ASSUME Placed, NEW w \in Workers, UNCHANGED <<submit, phase, task, containers>>,
           \A v \in Workers \ {w} : worker'[v] = worker[v],
           RunPlace(w)'
    PROVE  PlaceInv'
  <1>1. \A u \in Tasks : RecordPlace(u)'
    BY DEF Placed, PlaceInv, RecordPlace
  <1> QED BY <1>1, WorkerPlace

-----------------------------------------------------------------------------

LEMMA DispatchPlace ==
    ASSUME Placed, NEW w \in Workers, DispatchStep(w), ~BeginRun(w)
    PROVE  PlaceInv'
  <1> USE DEF Placed, Known
  <1>1. UNCHANGED <<submit, phase, task, containers>> /\ RunPlace(w) /\ phase = "up"
    BY DEF DispatchStep, Pop, Exit, TakeMessage, TaskCheck, ContCheck, Register, clientVars,
           procVars, PlaceInv
  <1>2. ~Done
    BY <1>1 DEF Done
  <1>3. worker[w] \in WorkerState
    BY DEF TypeOK, WorkerTypeOK
  <1> DEFINE Waits(r) == r.pc \in {"idle", "picked", "taskCheck", "contCheck", "mark", "release"}
                         /\ r.ctx # "dead"
  <1>4. ASSUME NEW r, Become(w, r), Waits(r)
        PROVE  PlaceInv'
    <2>1. worker'[w] = r /\ \A v \in Workers \ {w} : worker'[v] = worker[v]
      BY <1>4, PutFields DEF TypeOK
    <2>2. RunPlace(w)'
      BY <1>4, <2>1 DEF RunPlace, StartedPcs, NamedPcs, ActivePcs, RunPcs, DockerPcs, FinishPcs
    <2> QED BY <1>1, <2>1, <2>2, WorkerMoves
  <1>5. \A pc \in {"taskCheck", "mark", "release"} : Waits([worker[w] EXCEPT !.pc = pc])
    BY <1>1, <1>3 DEF WorkerState, RunPlace
  <1>6. Waits(IdleWorker)
    BY DEF IdleWorker
  <1>7. CASE Pop(w)
    <2>1. Waits([worker[w] EXCEPT !.pc = "picked", !.task = Head(queue)])
      BY <1>1, <1>3 DEF WorkerState, RunPlace
    <2>2. Become(w, [worker[w] EXCEPT !.pc = "picked", !.task = Head(queue)])
      BY <1>7 DEF Pop
    <2> HIDE DEF Waits
    <2> QED BY <1>4, <2>1, <2>2
  <1>8. CASE TakeMessage(w)
    <2>1. Waits([worker[w] EXCEPT !.pc = "contCheck", !.msg = message[worker[w].task]])
      BY <1>1, <1>3 DEF WorkerState, RunPlace
    <2>2. \/ Become(w, [worker[w] EXCEPT !.pc = "contCheck", !.msg = message[worker[w].task]])
          \/ Become(w, [worker[w] EXCEPT !.pc = "taskCheck"])
      BY <1>8 DEF TakeMessage, Goto
    <2> HIDE DEF Waits
    <2> QED BY <1>4, <1>5, <2>1, <2>2
  <1>9. CASE TaskCheck(w) \/ ContCheck(w)
    <2>1. \/ Become(w, IdleWorker)
          \/ \E pc \in {"taskCheck", "mark", "release"} : Become(w, [worker[w] EXCEPT !.pc = pc])
      BY <1>9 DEF TaskCheck, ContCheck, Goto
    <2> HIDE DEF Waits
    <2> QED BY <1>4, <1>5, <1>6, <2>1
  <1>10. CASE Register(w)
    <2> DEFINE r == [worker[w] EXCEPT
                      !.pc = IF worker[w].msg = NoMessage THEN "start" ELSE "hint",
                      !.ctx = IF Done THEN "dead" ELSE "live"]
    <2>1. Become(w, r) /\ worker[w].pc = "register"
      BY <1>10 DEF Register
    <2>2. /\ r.pc = IF worker[w].msg = NoMessage THEN "start" ELSE "hint"
          /\ r.ctx = "live" /\ r.task = worker[w].task
      BY <1>2, <1>3 DEF WorkerState
    <2> HIDE DEF r
    <2>3. worker'[w] = r /\ \A v \in Workers \ {w} : worker'[v] = worker[v]
      BY <2>1, PutFields DEF TypeOK
    <2>4. worker[w].task \in Tasks /\ task[worker[w].task].status = "running"
      BY <2>1 DEF TypeOK, WorkerTypeOK, LeadInv, WorkerFits, ActivePcs
    <2>5. RecordPlace(worker[w].task)
      BY <2>4 DEF PlaceInv
    <2>6. CASE worker[w].msg = NoMessage
      <3>1. worker'[w].pc = "start" /\ ~task[worker[w].task].kept /\ ~task[worker[w].task].named
        BY <1>1, <2>1, <2>2, <2>3, <2>6 DEF RunPlace
      <3>2. RunPlace(w)'
        BY <1>1, <2>2, <2>3, <3>1 DEF RunPlace, StartedPcs, NamedPcs
      <3> QED BY <1>1, <2>3, <3>2, WorkerMoves
    <2>7. CASE worker[w].msg # NoMessage
      <3>1. worker'[w].pc = "hint" /\ task[worker[w].task].named
        BY <1>1, <2>1, <2>2, <2>3, <2>7 DEF RunPlace
      <3>2. worker[w].task \in containers
        BY <2>4, <2>5, <3>1 DEF RecordPlace
      <3>3. RunPlace(w)'
        BY <1>1, <2>2, <2>3, <3>1, <3>2 DEF RunPlace, StartedPcs, NamedPcs
      <3> QED BY <1>1, <2>3, <3>3, WorkerMoves
    <2> QED BY <2>6, <2>7
  <1>11. ~Exit(w)
    BY <1>2 DEF Exit
  <1> QED BY <1>7, <1>8, <1>9, <1>10, <1>11 DEF DispatchStep

LEMMA BeginRunPlace ==
    ASSUME Placed, NEW w \in Workers, BeginRun(w)
    PROVE  PlaceInv'
  <1> USE DEF Placed, Known
  <1>1. /\ worker[w].pc = "mark" /\ UNCHANGED <<submit, phase, containers>> /\ RunPlace(w)
        /\ WorkerFits(w) /\ ContinuesOpen(w) /\ worker[w].task \in Tasks
        /\ worker[w] \in WorkerState
    BY DEF BeginRun, clientVars, procVars, PlaceInv, LeadInv, OpenInv, TypeOK, WorkerTypeOK
  <1> PICK t \in Tasks : t = worker[w].task
    BY <1>1
  <1>2. task[t] \in Record /\ RecordPlace(t)
    BY DEF TypeOK, DataTypeOK, PlaceInv
  <1> DEFINE r == MarkRunning(task[t])
  <1>3. Update(t, r)
    BY DEF BeginRun
  <1>4. r.status = "running" /\ r.kept = task[t].kept /\ r.named = task[t].named
    BY <1>2, RunRecords
  <1> HIDE DEF r
  <1>5. task'[t] = r /\ \A u \in Tasks \ {t} : task'[u] = task[u]
    BY <1>3, StoredRecord DEF TypeOK
  <1>6. /\ \A v \in Workers \ {w} : worker'[v] = worker[v]
        /\ worker'[w].pc = "register" /\ worker'[w].task = t /\ worker'[w].msg = worker[w].msg
    BY MoveFields DEF BeginRun, TypeOK, WorkerPcs, StartPcs
  <1>7. worker'[w].ctx = worker[w].ctx
    <2>1. [worker[w] EXCEPT !.pc = "register"].ctx = worker[w].ctx
      BY <1>1 DEF WorkerState
    <2>2. worker'[w] = [worker[w] EXCEPT !.pc = "register"]
      BY PutFields DEF BeginRun, Goto, TypeOK
    <2> QED BY <2>1, <2>2
  <1>8. IF worker[w].msg = NoMessage THEN ~task[t].kept /\ ~task[t].named
        ELSE task[t].kept /\ task[t].named /\ t \in containers
    <2>1. CASE worker[w].msg = NoMessage
      BY <1>1, <1>2, <2>1 DEF WorkerFits, RecordPlace, Leading, LeadPcs
    <2>2. CASE worker[w].msg # NoMessage
      BY <1>1, <1>2, <2>2 DEF ContinuesOpen, CanContinue, RecordPlace
    <2> QED BY <2>1, <2>2
  <1>9. RecordPlace(t)'
    BY <1>1, <1>2, <1>4, <1>5, <1>8 DEF RecordPlace
  <1>10. RunPlace(w)'
    BY <1>1, <1>4, <1>5, <1>6, <1>7, <1>8 DEF RunPlace, StartedPcs, NamedPcs
  <1> QED BY <1>1, <1>5, <1>6, <1>9, <1>10, WorkerPlace

LEMMA MoveKeepsCtx ==
    ASSUME WorkerTypeOK, NEW w \in Workers, NEW pc \in WorkerPcs, Goto(w, pc)
    PROVE  worker'[w].ctx = worker[w].ctx
  <1>1. [worker[w] EXCEPT !.pc = pc].ctx = worker[w].ctx
    BY DEF WorkerTypeOK, WorkerState
  <1> QED BY <1>1, PutFields DEF Goto

(* The container of a run exists from its start on, and keeps its name.    *)
LEMMA DockerPlace ==
    ASSUME Placed, NEW w \in Workers, DockerStep(w)
    PROVE  PlaceInv'
  <1> USE DEF Placed, Known
  <1>1. /\ worker[w].pc \in ActivePcs /\ worker[w].task \in Tasks /\ UNCHANGED <<submit, phase>>
        /\ RunPlace(w) /\ worker[w] \in WorkerState
    BY DEF DockerStep, StartContainer, StartFails, SinkContainer, StartHint, HintFails,
           AgentSession, AgentExits, AgentFails, AgentCancelled, CancelledRemove, clientVars,
           procVars, ActivePcs, RunPcs, DockerPcs, FinishPcs, TypeOK, WorkerTypeOK, PlaceInv
  <1> PICK t \in Tasks : t = worker[w].task
    BY <1>1
  <1>2. /\ task[t].status = "running" /\ task[t] \in Record /\ RecordPlace(t)
        /\ submit[t] \notin {"added", "full", "rejected"}
    <2>1. task[t].status = "running" /\ task[t] \in Record /\ RecordPlace(t) /\ RecordFits(t)
      BY <1>1 DEF LeadInv, WorkerFits, OpenInv, TypeOK, DataTypeOK, PlaceInv
    <2> QED BY <2>1 DEF LeadInv, TaskFits, Submitting, RecordFits
  <1>3. ASSUME NEW pc \in WorkerPcs, Goto(w, pc)
        PROVE  /\ worker'[w].pc = pc /\ worker'[w].task = t /\ worker'[w].ctx # "dead"
               /\ \A v \in Workers \ {w} : worker'[v] = worker[v]
    BY <1>1, <1>3, MoveFields, MoveKeepsCtx DEF TypeOK, RunPlace
  <1>4. CASE StartContainer(w)
    <2>1. /\ containers' = containers \cup {t} /\ UNCHANGED task /\ worker[w].pc = "start"
          /\ worker'[w].pc = "sink" /\ worker'[w].task = t /\ worker'[w].ctx # "dead"
          /\ \A v \in Workers \ {w} : worker'[v] = worker[v]
      BY <1>3, <1>4 DEF StartContainer, WorkerPcs, DockerPcs
    <2>2. ~task[t].kept /\ ~task[t].named
      BY <1>1, <2>1 DEF RunPlace
    <2>3. RecordPlace(t)'
      BY <1>1, <1>2, <2>1, <2>2 DEF RecordPlace
    <2>4. RunPlace(w)'
      BY <2>1 DEF RunPlace, NamedPcs
    <2> QED BY <1>1, <2>1, <2>3, <2>4, WorkerPlace
  <1>5. CASE StartFails(w)
    <2>1. /\ containers' \in {containers \ {t}, containers \cup {t}} /\ UNCHANGED task
          /\ worker[w].pc = "start" /\ "run" \in Faults
          /\ worker'[w].pc = "failCheck" /\ worker'[w].task = t /\ worker'[w].ctx # "dead"
          /\ \A v \in Workers \ {w} : worker'[v] = worker[v]
      BY <1>1, <1>3, <1>5 DEF StartFails, RunPlace, WorkerPcs, FinishPcs
    <2>2. ~task[t].kept /\ ~task[t].named
      BY <1>1, <2>1 DEF RunPlace
    <2>3. RecordPlace(t)'
      BY <1>1, <1>2, <2>1, <2>2 DEF RecordPlace
    <2>4. RunPlace(w)'
      BY <2>1 DEF RunPlace, StartedPcs
    <2> QED BY <1>1, <2>1, <2>3, <2>4, WorkerPlace
  <1>6. CASE SinkContainer(w)
    <2>1. /\ Update(t, MarkRuntimeContainer(task[t])) /\ UNCHANGED containers
          /\ worker[w].pc = "sink"
          /\ worker'[w].pc = "agent" /\ worker'[w].task = t /\ worker'[w].ctx # "dead"
          /\ \A v \in Workers \ {w} : worker'[v] = worker[v]
      BY <1>3, <1>6 DEF SinkContainer, WorkerPcs, DockerPcs
    <2>2. /\ \A u \in Tasks \ {t} : task'[u] = task[u]
          /\ task'[t] = MarkRuntimeContainer(task[t])
      BY <2>1, StoredRecord DEF TypeOK
    <2>3. task'[t].status = "running" /\ task'[t].named /\ t \in containers
      BY <1>1, <1>2, <2>1, <2>2 DEF MarkRuntimeContainer, Record, RunPlace, StartedPcs
    <2>4. RecordPlace(t)'
      BY <1>1, <1>2, <2>1, <2>3 DEF RecordPlace
    <2>5. RunPlace(w)'
      BY <2>1, <2>3 DEF RunPlace
    <2> QED BY <1>1, <2>1, <2>2, <2>4, <2>5, WorkerPlace
  <1>7. CASE AgentSession(w)
    <2>1. /\ Update(t, MarkOpenCodeSession(task[t])) /\ UNCHANGED <<containers, worker>>
      BY <1>7 DEF AgentSession
    <2>2. /\ \A u \in Tasks \ {t} : task'[u] = task[u]
          /\ task'[t] = MarkOpenCodeSession(task[t])
      BY <2>1, StoredRecord DEF TypeOK
    <2>3. /\ task'[t].status = "running" /\ task'[t].named = task[t].named
          /\ task'[t].kept = task[t].kept
      BY <1>2, <2>2 DEF MarkOpenCodeSession, Record
    <2>4. RecordPlace(t)'
      BY <1>1, <1>2, <2>1, <2>3 DEF RecordPlace
    <2>5. RunPlace(w)'
      BY <1>1, <1>2, <2>1, <2>3 DEF RunPlace
    <2> QED BY <1>1, <2>1, <2>2, <2>4, <2>5, WorkerPlace
  <1>8. CASE \/ StartHint(w) \/ HintFails(w) \/ AgentFails(w)
             \/ \E result \in {"solved", "zero", "nonzero"} : AgentExits(w, result)
    <2>1. UNCHANGED <<task, containers>> /\ worker[w].pc \in {"hint", "agent"}
      BY <1>8 DEF StartHint, HintFails, AgentFails, AgentExits
    <2>2. /\ worker'[w].pc \in {"agent", "round", "check", "failCheck"}
          /\ worker'[w].task = t /\ worker'[w].ctx # "dead"
          /\ \A v \in Workers \ {w} : worker'[v] = worker[v]
      <3>1. CASE Goto(w, "agent") \/ Goto(w, "failCheck")
        BY <1>3, <3>1 DEF WorkerPcs, DockerPcs, FinishPcs
      <3>2. CASE \E result \in {"solved", "zero", "nonzero"} : AgentExits(w, result)
        <4> PICK result \in {"solved", "zero", "nonzero"} : AgentExits(w, result)
          BY <3>2
        <4> DEFINE r == [worker[w] EXCEPT !.pc = IF result = "zero" THEN "round" ELSE "check",
                                          !.result = result]
        <4>1. Become(w, r)
          BY DEF AgentExits
        <4>2. r.pc \in {"round", "check"} /\ r.task = t /\ r.ctx # "dead"
          BY <1>1 DEF WorkerState, RunPlace
        <4> HIDE DEF r
        <4> QED BY <4>1, <4>2, PutFields DEF TypeOK
      <3> QED BY <1>8, <3>1, <3>2 DEF StartHint, HintFails, AgentFails
    <2>3. RunPlace(w)'
      BY <1>1, <2>1, <2>2 DEF RunPlace, StartedPcs, NamedPcs, ActivePcs, RunPcs, DockerPcs,
                             FinishPcs
    <2> QED BY <1>1, <2>1, <2>2, <2>3, WorkerMoves
  <1>9. ~AgentCancelled(w) /\ ~CancelledRemove(w)
    BY <1>1 DEF AgentCancelled, CancelledRemove, RunPlace
  <1> QED BY <1>4, <1>5, <1>6, <1>7, <1>8, <1>9 DEF DockerStep

(* The container outlives a run that is not solved, under its stored name. *)
LEMMA FinishPlace ==
    ASSUME Placed, NEW w \in Workers, FinishStep(w)
    PROVE  PlaceInv'
  <1> USE DEF Placed, Known
  <1>1. /\ worker[w].task \in Tasks /\ UNCHANGED <<submit, phase>>
        /\ RunPlace(w) /\ worker[w] \in WorkerState
    BY DEF FinishStep, NextRound, StopCheck, StoreResult, RemoveSolved, FailCheck, FailRun,
           ClearCancel, Release, clientVars, procVars, TypeOK, WorkerTypeOK, PlaceInv
  <1> PICK t \in Tasks : t = worker[w].task
    BY <1>1
  <1>2. task[t] \in Record /\ RecordPlace(t) /\ RecordFits(t)
    BY DEF TypeOK, DataTypeOK, PlaceInv, OpenInv
  <1>3. ASSUME NEW pc \in WorkerPcs, Goto(w, pc)
        PROVE  /\ worker'[w].pc = pc /\ worker'[w].task = t /\ worker'[w].ctx # "dead"
               /\ \A v \in Workers \ {w} : worker'[v] = worker[v]
    BY <1>1, <1>3, MoveFields, MoveKeepsCtx DEF TypeOK, RunPlace
  <1>4. CASE StoreResult(w)
    <2>1. worker[w].pc = "result" /\ UNCHANGED containers
      BY <1>4 DEF StoreResult
    <2>2. worker[w].pc \in ActivePcs /\ t \in containers
      BY <1>1, <2>1 DEF RunPlace, StartedPcs, ActivePcs, RunPcs, FinishPcs
    <2>3. submit[t] \notin {"added", "full", "rejected"}
      BY <1>2, <2>2 DEF LeadInv, WorkerFits, TaskFits, Submitting, RecordFits
    <2> DEFINE Ends(pc, r) == /\ pc \in {"solvedRm", "clear"}
                              /\ r.named /\ r.status \notin {"queued", "running"}
                              /\ pc = "solvedRm" => ~r.kept /\ r.status \in {"solved", "completed"}
    <2>4. ASSUME NEW r, NEW pc, Update(t, r), Goto(w, pc), Ends(pc, r)
          PROVE  PlaceInv'
      <3>1. /\ worker'[w].pc = pc /\ worker'[w].task = t /\ worker'[w].ctx # "dead"
            /\ \A v \in Workers \ {w} : worker'[v] = worker[v]
        BY <1>3, <2>4 DEF WorkerPcs, FinishPcs
      <3>2. task'[t] = r /\ \A u \in Tasks \ {t} : task'[u] = task[u]
        BY <2>4, StoredRecord DEF TypeOK
      <3>3. RecordPlace(t)'
        BY <1>1, <2>1, <2>2, <2>3, <2>4, <3>2 DEF RecordPlace
      <3>4. RunPlace(w)'
        BY <2>4, <3>1, <3>2 DEF RunPlace, StartedPcs, NamedPcs, ActivePcs, RunPcs, DockerPcs,
                               FinishPcs
      <3> QED BY <1>1, <2>1, <2>2, <3>1, <3>2, <3>3, <3>4, WorkerPlace
    <2>5. MarkCompleted(task[t], TRUE).named /\ MarkFinished(task[t], TRUE, FALSE).named
          /\ MarkFinished(task[t], FALSE, TRUE).named
      BY <1>2 DEF Record, MarkCompleted, MarkFinished
    <2>6. /\ Ends("clear", MarkCompleted(task[t], TRUE))
          /\ Ends("solvedRm", MarkFinished(task[t], TRUE, FALSE))
          /\ Ends("clear", MarkFinished(task[t], FALSE, TRUE))
      BY <1>2, <2>5, OutcomeRecords
    <2>7. \/ Update(t, MarkCompleted(task[t], TRUE)) /\ Goto(w, "clear")
          \/ Update(t, MarkFinished(task[t], TRUE, FALSE)) /\ Goto(w, "solvedRm")
          \/ Update(t, MarkFinished(task[t], FALSE, TRUE)) /\ Goto(w, "clear")
      BY <1>4 DEF StoreResult
    <2> HIDE DEF Ends
    <2> QED BY <2>4, <2>6, <2>7
  <1>5. CASE RemoveSolved(w)
    <2>1. /\ worker[w].pc = "solvedRm" /\ UNCHANGED task
          /\ containers' \in {containers, containers \ {t}}
          /\ worker'[w].pc = "clear" /\ worker'[w].task = t /\ worker'[w].ctx # "dead"
          /\ \A v \in Workers \ {w} : worker'[v] = worker[v]
      BY <1>3, <1>5 DEF RemoveSolved, WorkerPcs, FinishPcs
    <2>2. ~task[t].kept /\ task[t].status \in {"solved", "completed"}
      BY <1>1, <2>1 DEF RunPlace
    <2>3. RecordPlace(t)'
      BY <1>1, <1>2, <2>1, <2>2 DEF RecordPlace
    <2>4. RunPlace(w)'
      BY <2>1 DEF RunPlace, StartedPcs, NamedPcs, ActivePcs, RunPcs, FinishPcs, DockerPcs
    <2> QED BY <1>1, <2>1, <2>3, <2>4, WorkerPlace
  <1>6. CASE FailRun(w)
    <2>1. /\ worker[w].pc = "failMark" /\ UNCHANGED containers
          /\ Update(t, MarkFailed(task[t]))
          /\ worker'[w].pc = "clear" /\ worker'[w].task = t /\ worker'[w].ctx # "dead"
          /\ \A v \in Workers \ {w} : worker'[v] = worker[v]
      BY <1>3, <1>6 DEF FailRun, WorkerPcs, FinishPcs
    <2>2. task'[t] = MarkFailed(task[t]) /\ \A u \in Tasks \ {t} : task'[u] = task[u]
      BY <2>1, StoredRecord DEF TypeOK
    <2>3. /\ task'[t].status = "failed" /\ task'[t].kept = task[t].kept
          /\ task'[t].named = task[t].named
      BY <1>2, <2>2, FailedRecord
    <2>4. /\ worker[w].pc \in ActivePcs
          /\ "run" \notin Faults => task[t].named
      BY <1>1, <2>1 DEF RunPlace, NamedPcs, ActivePcs, RunPcs, FinishPcs
    <2>5. RecordPlace(t)'
      BY <1>1, <1>2, <2>1, <2>3, <2>4 DEF RecordPlace
    <2>6. RunPlace(w)'
      BY <2>1 DEF RunPlace, StartedPcs, NamedPcs, ActivePcs, RunPcs, FinishPcs, DockerPcs
    <2> QED BY <1>1, <2>1, <2>2, <2>4, <2>5, <2>6, WorkerPlace
  <1>7. CASE ~StoreResult(w) /\ ~RemoveSolved(w) /\ ~FailRun(w)
    <2>1. UNCHANGED <<task, containers>>
      BY <1>7 DEF FinishStep, NextRound, StopCheck, FailCheck, ClearCancel, Release
    <2>2. ASSUME NEW r, Become(w, r), r.ctx # "dead",
                 \/ r.pc \in {"idle", "release", "clear"}
                 \/ r.task = t /\ worker[w].pc = "failCheck" /\ r.pc = "failMark"
                 \/ r.task = t /\ worker[w].pc = "check" /\ r.pc = "result"
                 \/ r.task = t /\ worker[w].pc = "round" /\ r.pc \in {"check", "failCheck", "hint"}
          PROVE  PlaceInv'
      <3>1. worker'[w] = r /\ \A v \in Workers \ {w} : worker'[v] = worker[v]
        BY <2>2, PutFields DEF TypeOK
      <3>2. RunPlace(w)'
        BY <1>1, <2>1, <2>2, <3>1 DEF RunPlace, StartedPcs, NamedPcs, ActivePcs, RunPcs,
                                     FinishPcs, DockerPcs
      <3> QED BY <1>1, <2>1, <3>1, <3>2, WorkerMoves
    <2>3. ASSUME NEW pc \in WorkerPcs
          PROVE  /\ [worker[w] EXCEPT !.pc = pc].pc = pc
                 /\ [worker[w] EXCEPT !.pc = pc].task = t
                 /\ [worker[w] EXCEPT !.pc = pc].ctx # "dead"
      BY <1>1 DEF WorkerState, RunPlace
    <2>4. CASE StopCheck(w) \/ FailCheck(w)
      <3>1. PICK pc : /\ Become(w, [worker[w] EXCEPT !.pc = pc])
                      /\ \/ pc = "clear"
                         \/ worker[w].pc = "failCheck" /\ pc = "failMark"
                         \/ worker[w].pc = "check" /\ pc = "result"
        BY <2>4 DEF StopCheck, FailCheck, Goto
      <3>2. pc \in WorkerPcs
        BY <3>1 DEF WorkerPcs, FinishPcs
      <3> QED BY <2>2, <2>3, <3>1, <3>2
    <2>5. CASE NextRound(w)
      <3> DEFINE r == [worker[w] EXCEPT !.pc = "hint", !.round = worker[w].round + 1]
      <3>1. worker[w].pc = "round"
        BY <2>5 DEF NextRound
      <3>2. r.pc = "hint" /\ r.task = t /\ r.ctx # "dead"
        BY <1>1 DEF WorkerState, RunPlace
      <3>3. \/ Become(w, r)
            \/ \E pc \in {"check", "failCheck"} : Become(w, [worker[w] EXCEPT !.pc = pc])
        BY <2>5 DEF NextRound, Goto
      <3> HIDE DEF r
      <3>4. {"check", "failCheck"} \subseteq WorkerPcs
        BY DEF WorkerPcs, FinishPcs
      <3> QED BY <2>2, <2>3, <3>1, <3>2, <3>3, <3>4
    <2>6. CASE ClearCancel(w) \/ Release(w)
      <3>1. /\ IdleWorker.pc = "idle" /\ IdleWorker.ctx # "dead"
            /\ [worker[w] EXCEPT !.pc = "release", !.ctx = "none"].pc = "release"
            /\ [worker[w] EXCEPT !.pc = "release", !.ctx = "none"].ctx = "none"
        BY <1>1 DEF IdleWorker, WorkerState
      <3>2. \/ Become(w, IdleWorker)
            \/ Become(w, [worker[w] EXCEPT !.pc = "release", !.ctx = "none"])
        BY <2>6 DEF ClearCancel, Release
      <3> QED BY <2>2, <3>1, <3>2
    <2> QED BY <1>7, <2>4, <2>5, <2>6 DEF FinishStep
  <1> QED BY <1>4, <1>5, <1>6, <1>7

(* A step that stores one record of a task no run is on.                   *)
LEMMA ClientPlace ==
    ASSUME Placed, NEW t \in Tasks, UNCHANGED <<containers, worker, phase>>,
           \A u \in Tasks \ {t} : task'[u] = task[u] /\ submit'[u] = submit[u],
           RecordPlace(t)',
           UNCHANGED task \/ \A w \in Workers : worker[w].task = t =>
                                worker[w].pc \notin ActivePcs \cup {"solvedRm"}
    PROVE  PlaceInv'
  <1> USE DEF Placed
  <1>1. ASSUME NEW u \in Tasks
        PROVE  RecordPlace(u)'
    BY DEF PlaceInv, RecordPlace
  <1>2. ASSUME NEW w \in Workers
        PROVE  RunPlace(w)'
    <2>1. RunPlace(w)
      BY DEF PlaceInv
    <2>2. CASE worker[w].pc \notin ActivePcs \cup {"solvedRm"}
      BY <2>1, <2>2 DEF RunPlace, StartedPcs, NamedPcs, ActivePcs, RunPcs, DockerPcs, FinishPcs
    <2>3. CASE worker[w].pc \in ActivePcs \cup {"solvedRm"}
      <3>1. worker[w].task \in Tasks
        BY <2>3 DEF Known, TypeOK, WorkerTypeOK, ActivePcs, RunPcs, DockerPcs, FinishPcs
      <3>2. task'[worker[w].task] = task[worker[w].task]
        BY <2>3, <3>1
      <3> QED BY <2>1, <3>2 DEF RunPlace
    <2> QED BY <2>2, <2>3
  <1> QED BY <1>1, <1>2 DEF PlaceInv

LEMMA SubmitPlace ==
    ASSUME Placed, NEW t \in Tasks, SubmitStep(t)
    PROVE  PlaceInv'
  <1> USE DEF Placed, Known
  <1>1. /\ UNCHANGED <<containers, worker, phase>>
        /\ \A u \in Tasks \ {t} : submit'[u] = submit[u] /\ task'[u] = task[u]
    BY DEF SubmitStep, SubmitCheck, SubmitAdd, SubmitEnqueue, SubmitFull, SubmitFail, TypeOK,
           ClientTypeOK, DataTypeOK, Update, procVars
  <1>2. RecordPlace(t) /\ task[t] \in Record
    BY DEF PlaceInv, TypeOK, DataTypeOK
  <1>3. /\ NoRecord.status = "absent" /\ ~NoRecord.kept /\ ~NoRecord.named
        /\ NewRecord.status = "queued" /\ ~NewRecord.kept /\ ~NewRecord.named
    BY DEF NoRecord, NewRecord
  <1>4. submit[t] \in {"new", "checked"} =>
           /\ task[t] = NoRecord
           /\ "run" \notin Faults => t \notin containers
    BY <1>2, <1>3 DEF QueueInv, PresentInv, RecordPlace
  <1>5. task[t].status \in {"absent", "queued"} =>
           \A w \in Workers : worker[w].task = t => worker[w].pc \notin ActivePcs \cup {"solvedRm"}
    BY DEF LeadInv, WorkerFits, PlaceInv, RunPlace
  <1>6. CASE SubmitCheck(t) \/ SubmitEnqueue(t) \/ SubmitFull(t)
    <2>1. /\ UNCHANGED task /\ submit[t] \in {"new", "added"}
          /\ submit'[t] \in {"checked", "rejected", "accepted", "full"}
          /\ submit'[t] \in {"checked", "rejected"} => submit[t] = "new"
      BY <1>6 DEF SubmitCheck, SubmitEnqueue, SubmitFull, TypeOK, ClientTypeOK
    <2>2. RecordPlace(t)'
      BY <1>1, <1>2, <1>4, <2>1 DEF RecordPlace
    <2> QED BY <1>1, <2>1, <2>2, ClientPlace
  <1>7. CASE SubmitAdd(t)
    <2>1. /\ submit[t] = "checked" /\ submit'[t] = "added" /\ task'[t] = NewRecord
      BY <1>7, StoredRecord DEF SubmitAdd, TypeOK, ClientTypeOK
    <2>2. RecordPlace(t)'
      BY <1>1, <1>3, <1>4, <2>1 DEF RecordPlace
    <2> QED BY <1>1, <1>3, <1>4, <1>5, <2>1, <2>2, ClientPlace
  <1>8. CASE SubmitFail(t)
    <2>1. /\ submit[t] = "full" /\ submit'[t] = "rejected" /\ task'[t] = MarkFailed(task[t])
      BY <1>8, StoredRecord DEF SubmitFail, TypeOK, ClientTypeOK
    <2>2. task[t].status = "queued"
      BY <2>1 DEF LeadInv, TaskFits, Submitting
    <2>3. /\ task'[t].status = "failed" /\ task'[t].kept = task[t].kept
          /\ task'[t].named = task[t].named
      BY <1>2, <2>1, FailedRecord
    <2>4. RecordPlace(t)'
      BY <1>1, <1>2, <2>1, <2>2, <2>3 DEF RecordPlace
    <2> QED BY <1>1, <1>5, <2>2, <2>4, ClientPlace
  <1> QED BY <1>6, <1>7, <1>8 DEF SubmitStep

(* A running task that is queued again has no name for its container.      *)
LEMMA RecoverPlace ==
    ASSUME Placed, NEW t \in Tasks, RecoverNext(t)
    PROVE  PlaceInv'
  <1> USE DEF Placed, Known
  <1>1. /\ t \in recover /\ UNCHANGED <<worker, submit, containers, phase>>
        /\ Update(t, MarkRecovered(task[t]))
    BY DEF RecoverNext, clientVars
  <1>2. /\ task[t] \in Record /\ task[t].status \in {"queued", "running"} /\ RecordPlace(t)
        /\ RecordFits(t)
    BY <1>1 DEF TypeOK, DataTypeOK, LeadInv, TaskFits, PlaceInv, OpenInv
  <1>3. task'[t] = MarkRecovered(task[t]) /\ \A u \in Tasks \ {t} : task'[u] = task[u]
    BY <1>1, StoredRecord DEF TypeOK
  <1>4. task'[t].status = "queued" /\ ~task'[t].kept /\ ~task'[t].named
    <2>1. CASE task[t].status = "running"
      BY <1>2, <1>3, <2>1 DEF MarkRecovered, Record
    <2>2. CASE task[t].status = "queued"
      BY <1>2, <1>3, <2>2 DEF MarkRecovered, RecordPlace
    <2> QED BY <1>2, <2>1, <2>2
  <1>5. ~Led(t) /\ ~Submitting(t) /\ submit[t] # "rejected"
    BY <1>1, <1>2 DEF LeadInv, OneLead, LeadAlone, RecordFits
  <1>6. RecordPlace(t)'
    BY <1>1, <1>4, <1>5 DEF RecordPlace, Submitting
  <1>7. \A w \in Workers : worker[w].task = t => worker[w].pc \notin ActivePcs \cup {"solvedRm"}
    BY <1>2, <1>5 DEF Led, Leading, LeadPcs, PlaceInv, RunPlace
  <1> QED BY <1>1, <1>3, <1>6, <1>7, ClientPlace

LEMMA ClearPlace ==
    ASSUME Placed, ClearResults
    PROVE  PlaceInv'
  <1> USE DEF Placed, Known
  <1>1. UNCHANGED <<worker, submit, containers, phase>>
    BY DEF ClearResults, clientVars, procVars
  <1>2. ASSUME NEW t \in Tasks
        PROVE  /\ task'[t].kept = task[t].kept /\ task'[t].named = task[t].named
               /\ task'[t].status = IF task[t].status = "solved" THEN "completed"
                                    ELSE task[t].status
    <2>1. task'[t] = ClearResult(task[t]) /\ task[t] \in Record
      BY DEF ClearResults, TypeOK, DataTypeOK
    <2> QED BY <2>1 DEF ClearResult, Record
  <1>3. ASSUME NEW t \in Tasks
        PROVE  RecordPlace(t)'
    BY <1>1, <1>2 DEF PlaceInv, RecordPlace
  <1>4. ASSUME NEW w \in Workers
        PROVE  RunPlace(w)'
    <2>1. RunPlace(w)
      BY DEF PlaceInv
    <2>2. CASE worker[w].task \in Tasks
      BY <1>1, <1>2, <2>1, <2>2 DEF RunPlace
    <2>3. CASE worker[w].task \notin Tasks
      <3>1. worker[w].pc \in {"idle", "exited"}
        BY <2>3 DEF TypeOK, WorkerTypeOK
      <3> QED BY <1>1, <2>1, <3>1 DEF RunPlace, StartedPcs, NamedPcs, ActivePcs, RunPcs,
                                     DockerPcs, FinishPcs
    <2> QED BY <2>2, <2>3
  <1> QED BY <1>1, <1>3, <1>4 DEF PlaceInv

(* A crash leaves Docker alone, but for a docker run on its way, and a     *)
(* running task with a container is settled with it.                       *)
LEMMA RestartPlace ==
    ASSUME Placed, Restart
    PROVE  PlaceInv'
  <1> USE DEF Placed, Known
  <1>1. PICK gone \in SUBSET {t \in Tasks : submit[t] = "rejected"} :
           task' = [t \in Tasks |-> IF t \in gone THEN NoRecord ELSE Reloaded(task[t])]
    BY DEF Restart
  <1>2. ProcessGone("idle") /\ phase' = "up"
    BY DEF Restart
  <1>3. PICK late \in SUBSET {worker[w].task : w \in {v \in Workers : worker[v].pc = "start"}} :
           containers' = containers \cup late
    BY <1>2 DEF ProcessGone
  <1>4. /\ \A t \in Tasks : submit'[t] = "rejected" <=> submit[t] = "rejected"
        /\ \A t \in Tasks : submit'[t] \notin {"added", "full"}
        /\ \A w \in Workers : worker'[w].pc = "idle" /\ worker'[w].ctx = "none"
    <2>1. \A t \in Tasks : submit'[t] \notin {"added", "full"}
      BY <1>2, GoneQueueInv
    <2>2. [IdleWorker EXCEPT !.pc = "idle"].pc = "idle"
          /\ [IdleWorker EXCEPT !.pc = "idle"].ctx = "none"
      BY DEF IdleWorker
    <2> QED BY <1>2, <2>1, <2>2 DEF ProcessGone
  <1>5. \A t \in late : task[t].status = "running"
    <2>1. \A v \in Workers : worker[v].pc = "start" => task[worker[v].task].status = "running"
      BY DEF LeadInv, WorkerFits, ActivePcs, RunPcs, DockerPcs
    <2> QED BY <2>1
  <1>6. ASSUME NEW t \in Tasks
        PROVE  RecordPlace(t)'
    <2>1. RecordFits(t) /\ RecordPlace(t) /\ task[t] \in Record
      BY DEF OpenInv, PlaceInv, TypeOK, DataTypeOK
    <2>2. task'[t] = IF t \in gone THEN NoRecord ELSE Reloaded(task[t])
      BY <1>1
    <2>3. /\ t \in containers => t \in containers'
          /\ t \in containers' => t \in containers \/ task[t].status = "running"
      BY <1>3, <1>5
    <2>4. CASE t \in gone
      <3>1. submit[t] = "rejected" /\ task'[t] = NoRecord
        BY <2>2, <2>4
      <3>2. "run" \notin Faults => t \notin containers'
        BY <2>1, <2>3, <3>1 DEF RecordFits, RecordPlace
      <3> QED BY <3>1, <3>2 DEF RecordPlace, NoRecord
    <2>5. CASE t \notin gone /\ task[t].status # "running"
      <3>1. task'[t] = task[t]
        BY <2>1, <2>2, <2>5, ReloadedRecord DEF RecordFits
      <3> QED BY <1>4, <2>1, <2>3, <2>5, <3>1 DEF RecordPlace
    <2>6. CASE t \notin gone /\ task[t].status = "running"
      <3>1. ~task[t].flag /\ submit[t] # "rejected"
        BY <2>1, <2>6 DEF RecordFits, Record
      <3>2. /\ task'[t].named = task[t].named
            /\ IF task[t].named THEN task'[t].status = "failed" /\ task'[t].kept
               ELSE task'[t].status = "running" /\ ~task'[t].kept
        <4>1. CASE task[t].named
          BY <2>1, <2>2, <2>6, <3>1, <4>1 DEF Reloaded, Loaded, MarkInterruptedContainerRetained,
                                              Record
        <4>2. CASE ~task[t].named
          BY <2>1, <2>2, <2>6, <3>1, <4>2 DEF Reloaded, Loaded, Record, RecordPlace
        <4> QED BY <4>1, <4>2
      <3> QED BY <1>4, <2>1, <2>3, <2>6, <3>1, <3>2 DEF RecordPlace
    <2> QED BY <2>4, <2>5, <2>6
  <1>7. \A w \in Workers : RunPlace(w)'
    BY <1>4 DEF RunPlace, StartedPcs, NamedPcs, ActivePcs, RunPcs, DockerPcs, FinishPcs
  <1> QED BY <1>2, <1>6, <1>7 DEF PlaceInv

-----------------------------------------------------------------------------

PlaceKnown == LifeKnown /\ (Unstopped => PlaceInv)

LEMMA PlaceInit == Init => PlaceInv
  <1> SUFFICES ASSUME Init PROVE PlaceInv
    OBVIOUS
  <1>1. \A t \in Tasks : RecordPlace(t)
    BY DEF Init, RecordPlace, NoRecord
  <1>2. \A w \in Workers : RunPlace(w)
    BY DEF Init, RunPlace, IdleWorker, StartedPcs, NamedPcs, ActivePcs, RunPcs, DockerPcs,
           FinishPcs
  <1> QED BY <1>1, <1>2 DEF Init, PlaceInv

LEMMA PlaceNext ==
    ASSUME Timeouts = FALSE, Shutdowns = FALSE, PlaceKnown, [Next]_vars
    PROVE  PlaceKnown'
  <1> SUFFICES ASSUME Unstopped'
               PROVE  PlaceInv'
    BY LifeNext DEF PlaceKnown
  <1>1. Unstopped /\ ~\E c \in Closers : CloseStep(c)
    BY UnstoppedBefore DEF PlaceKnown, LifeKnown, LeadKnown, Known
  <1>2. Placed
    BY <1>1 DEF PlaceKnown, LifeKnown, LeadKnown, Placed
  <1>3. ASSUME NEW w \in Workers, DispatchStep(w) \/ DockerStep(w) \/ FinishStep(w)
        PROVE  PlaceInv'
    BY <1>2, <1>3, DispatchPlace, BeginRunPlace, DockerPlace, FinishPlace
  <1>4. ASSUME NEW t \in Tasks, SubmitStep(t) \/ RecoverNext(t)
        PROVE  PlaceInv'
    BY <1>2, <1>4, SubmitPlace, RecoverPlace
  <1>5. ASSUME NEW s \in Senders, SendStep(s)
        PROVE  PlaceInv'
    <2>1. UNCHANGED <<task, containers, submit, worker, phase>>
      BY <1>5 DEF SendStep, SendCheck, SendReserve, SendEnqueue, SendFull, SendUndo, procVars
    <2> QED BY <1>2, <2>1 DEF Placed, PlaceInv, RecordPlace, RunPlace
  <1>6. CASE UNCHANGED vars
    BY <1>2, <1>6 DEF Placed, PlaceInv, RecordPlace, RunPlace, vars, clientVars, procVars
  <1>7. CASE ClearResults \/ Restart
    BY <1>2, <1>7, ClearPlace, RestartPlace
  <1>8. ~CancelAllRuns /\ \A w \in Workers : ~Deadline(w)
    BY DEF CancelAllRuns, Deadline
  <1>9. /\ ~CloseDone /\ ~GraceOver /\ ~CloseReturns
        /\ \A t \in Tasks : ~ForceRemove(t)
    BY <1>2 DEF Placed, PlaceInv, CloseDone, GraceOver, CloseReturns, ForceRemove
  <1> QED BY <1>1, <1>3, <1>4, <1>5, <1>6, <1>7, <1>8, <1>9 DEF Next

LEMMA PlaceKnownAlways ==
    ASSUME Timeouts = FALSE, Shutdowns = FALSE
    PROVE  Spec => []PlaceKnown
  <1>1. Init => PlaceKnown
    BY LeadKnownInit, LifeInit, PlaceInit DEF PlaceKnown, LifeKnown
  <1>2. PlaceKnown /\ [Next]_vars => PlaceKnown'
    BY PlaceNext
  <1> QED BY <1>1, <1>2, PTL DEF Spec

(* Without stop requests, timeouts and shutdowns a record that offers its  *)
(* container for a continuation names one that exists, across crashes,     *)
(* failing Docker commands and recoveries (docker.go, finishRun,           *)
(* recoverInterruptedRunningContainers).                                   *)
THEOREM RetainedContainersExist ==
    ASSUME Timeouts = FALSE, Shutdowns = FALSE
    PROVE  Spec => [](Unstopped => RetainedContainerExists)
  <1>1. PlaceKnown => (Unstopped => RetainedContainerExists)
    BY DEF PlaceKnown, PlaceInv, RecordPlace, RetainedContainerExists
  <1> QED BY <1>1, PlaceKnownAlways, PTL

(* If docker run does not fail either, no container is lost: a task names  *)
(* it or will be run, and started with docker rm -f, again.                *)
THEOREM ContainersAccounted ==
    ASSUME Timeouts = FALSE, Shutdowns = FALSE, "run" \notin Faults
    PROVE  Spec => [](Unstopped => ContainerAccounted)
  <1>1. PlaceKnown => (Unstopped => ContainerAccounted)
    <2>1. containers \subseteq Tasks \/ ~PlaceKnown
      BY DEF PlaceKnown, LifeKnown, LeadKnown, Known, TypeOK, DataTypeOK
    <2> QED BY <2>1 DEF PlaceKnown, PlaceInv, RecordPlace, ContainerAccounted
  <1> QED BY <1>1, PlaceKnownAlways, PTL
=============================================================================
