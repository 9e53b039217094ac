----------------------------- MODULE TaskService -----------------------------
(***************************************************************************)
(* The task service: HTTP handlers that submit, continue and stop tasks,   *)
(* the bounded queue between them and the workers, the workers that run    *)
(* an agent in a Docker container, shutdown, crash and recovery            *)
(* (internal/app/service.go with the runners of docker.go).                *)
(*                                                                         *)
(* An action is what happens between two points where another goroutine,   *)
(* Docker or the user can be observed: one lock-protected store or         *)
(* registry operation, one channel operation, or one Docker command.       *)
(* Writes of meta.json succeed here, and logs, events and provider         *)
(* settings are left out.                                                  *)
(***************************************************************************)
EXTENDS Naturals, Sequences, FiniteSets, TaskRecord

CONSTANTS
    Tasks,        \* task ids; each is submitted by one POST /api/tasks
    Workers,      \* max(1, MaxContainers) worker goroutines
    Senders,      \* POST /api/tasks/{id}/messages requests, one message each
    Closers,      \* POST .../stop and .../container/close requests
    QueueCap,     \* cap(s.queue); the code makes it 4 * Cardinality(Workers)
    Rounds,       \* cfg.AutoContinueRounds
    Timeouts,     \* cfg.TaskTimeout > 0
    Shutdowns,    \* whether Service.Close may be called
    Faults,       \* which external calls may fail
    MaxRestarts,  \* bound on process crashes and restarts
    NoTask, NoMessage, NoWorker

FaultKinds == {"run", "exec", "rm", "ps", "writeup"}

ASSUME QueueCapAssumption == QueueCap \in Nat \ {0}
ASSUME RoundsAssumption == Rounds \in Nat
ASSUME TimeoutsAssumption == Timeouts \in BOOLEAN
ASSUME ShutdownsAssumption == Shutdowns \in BOOLEAN
ASSUME FaultsAssumption == Faults \subseteq FaultKinds
ASSUME MaxRestartsAssumption == MaxRestarts \in Nat
ASSUME NoTaskAssumption == NoTask \notin Tasks
ASSUME NoMessageAssumption == NoMessage \notin Senders
ASSUME NoWorkerAssumption == NoWorker \notin Workers

VARIABLES
    task,        \* s.store: the record of every task
    containers,  \* tasks whose container exists in Docker
    queue,       \* s.queue
    busy,        \* s.busy
    message,     \* s.queuedMessages
    runs,        \* s.runs: the run whose cancel function is registered
    worker,      \* program counter and locals of each worker goroutine
    submit,      \* createTask and Submit, one handler for each task
    sender,      \* SendTaskMessage handlers
    closer,      \* CloseTaskContainer handlers
    phase,       \* how far Service.Close has come
    doomed,      \* tasks whose container Close still has to remove by force
    recover,     \* ids that NewService still has to recover
    restarts,    \* process restarts so far
    taken,       \* auxiliary: messages a worker has taken from the map
    dropped      \* auxiliary: tasks whose recovery found the queue full

slotVars == <<queue, busy, message, taken>>
clientVars == <<submit, sender, closer>>
procVars == <<phase, doomed, recover, restarts, dropped>>
vars == <<task, containers, slotVars, runs, worker, clientVars, procVars>>

-----------------------------------------------------------------------------
(* The worker goroutine. Its program counter:                              *)
(*   idle -> picked -> taskCheck or contCheck -> mark -> register          *)
(*   register -> start -> sink -> agent       (RunDockerTask)              *)
(*   register -> hint -> agent                (RunDockerHint)              *)
(*   agent -> ctxRm, failCheck, round, check  (the runner returned)        *)
(*   round -> hint                            (runUntilSolved)             *)
(*   failCheck -> failMark -> clear           (finishRun with an error)    *)
(*   check -> result -> solvedRm -> clear     (finishRun with a result)    *)
(*   clear -> release -> idle                                              *)

StartPcs == {"picked", "contCheck", "taskCheck", "mark", "register"}
DockerPcs == {"start", "sink", "hint", "agent", "ctxRm"}
FinishPcs == {"round", "check", "result", "solvedRm", "failCheck", "failMark", "clear"}
WorkerPcs == {"idle", "release", "exited"} \cup StartPcs \cup DockerPcs \cup FinishPcs

(* A run is registered in s.runs from taskRunContext to clearTaskCancel.   *)
RunPcs == DockerPcs \cup FinishPcs

WorkerState == [pc: WorkerPcs, task: Tasks \cup {NoTask}, msg: Senders \cup {NoMessage},
                ctx: {"none", "live", "dead"},
                result: {"none", "solved", "zero", "nonzero"}, round: 0..Rounds]

IdleWorker == [pc |-> "idle", task |-> NoTask, msg |-> NoMessage,
               ctx |-> "none", result |-> "none", round |-> 0]

SubmitPcs == {"new", "checked", "added", "full", "accepted", "rejected", "lost"}
SenderPcs == {"new", "checked", "reserved", "undo", "accepted", "full", "busy", "lost"}
CloserPcs == {"new", "cancel", "release", "stop", "rm", "mark", "ok", "error", "lost"}

SenderState == [pc: SenderPcs, task: Tasks \cup {NoTask}]
NewSender == [pc |-> "new", task |-> NoTask]

(* snap is the copy of the record that Store.Get returned. *)
CloserState == [pc: CloserPcs, task: Tasks \cup {NoTask}, snap: Record]
NewCloser == [pc |-> "new", task |-> NoTask, snap |-> NoRecord]

(* up: serving; cancelled: cancelAllRuns has run; closed: s.done is closed; *)
(* forcing: the grace period is over; exited: Close has returned and the   *)
(* process is gone.                                                        *)
Phases == {"up", "cancelled", "closed", "forcing", "exited"}
Done == phase \in {"closed", "forcing", "exited"}
Serving == phase = "up" /\ recover = {}

Become(w, r) == worker' = [worker EXCEPT ![w] = r]
Goto(w, pc) == Become(w, [worker[w] EXCEPT !.pc = pc])
Update(t, r) == task' = [task EXCEPT ![t] = r]

(* The non-blocking select of enqueue: with s.done closed either ready     *)
(* case may be chosen.                                                     *)
CanEnqueue == Len(queue) < QueueCap
CannotEnqueue == Len(queue) >= QueueCap \/ Done

ReleaseSlot(t) == /\ busy' = busy \ {t}
                  /\ message' = [message EXCEPT ![t] = NoMessage]
                  /\ UNCHANGED <<queue, taken>>

-----------------------------------------------------------------------------
(* POST /api/tasks: createTask and Submit.                                 *)

SubmitCheck(t) ==
    /\ submit[t] = "new" /\ Serving
    /\ submit' = [submit EXCEPT ![t] = IF CanEnqueue THEN "checked" ELSE "rejected"]
    /\ UNCHANGED <<task, containers, slotVars, runs, worker, sender, closer, procVars>>

SubmitAdd(t) ==
    /\ submit[t] = "checked"
    /\ Update(t, NewRecord)
    /\ submit' = [submit EXCEPT ![t] = "added"]
    /\ UNCHANGED <<containers, slotVars, runs, worker, sender, closer, procVars>>

SubmitEnqueue(t) ==
    /\ submit[t] = "added" /\ CanEnqueue
    /\ queue' = Append(queue, t)
    /\ submit' = [submit EXCEPT ![t] = "accepted"]
    /\ UNCHANGED <<task, containers, busy, message, taken, runs, worker, sender, closer, procVars>>

(* Mutant: the refused task is not marked failed. *)
SubmitFullLeavesTaskQueued(t) ==
    /\ submit[t] = "added" /\ CannotEnqueue
    /\ submit' = [submit EXCEPT ![t] = "rejected"]
    /\ UNCHANGED <<task, containers, slotVars, runs, worker, sender, closer, procVars>>

SubmitFull(t) ==
    /\ submit[t] = "added" /\ CannotEnqueue
    /\ submit' = [submit EXCEPT ![t] = "full"]
    /\ UNCHANGED <<task, containers, slotVars, runs, worker, sender, closer, procVars>>

(* The record stays in memory, marked failed, after the request is refused. *)
SubmitFail(t) ==
    /\ submit[t] = "full"
    /\ Update(t, MarkFailed(task[t]))
    /\ submit' = [submit EXCEPT ![t] = "rejected"]
    /\ UNCHANGED <<containers, slotVars, runs, worker, sender, closer, procVars>>

-----------------------------------------------------------------------------
(* POST /api/tasks/{id}/messages: SendTaskMessage.                         *)

SendCheck(s, t) ==
    /\ sender[s].pc = "new" /\ Serving
    /\ CanContinue(task[t])
    /\ sender' = [sender EXCEPT ![s] = [pc |-> "checked", task |-> t]]
    /\ UNCHANGED <<task, containers, slotVars, runs, worker, submit, closer, procVars>>

(* Mutants: only a waiting message keeps the slot; nothing keeps it. *)
SlotFreeOnceTaken(t) == message[t] = NoMessage
SlotAlwaysFree(t) == t \in Tasks

SlotFree(t) == t \notin busy

(* Mutant: the message is stored before the slot is tested. *)
SendReserveStoresFirst(s) ==
    LET t == sender[s].task IN
    /\ sender[s].pc = "checked"
    /\ message' = [message EXCEPT ![t] = s]
    /\ busy' = busy \cup {t}
    /\ sender' = [sender EXCEPT ![s].pc = IF SlotFree(t) THEN "reserved" ELSE "busy"]
    /\ UNCHANGED <<task, containers, queue, taken, runs, worker, submit, closer, procVars>>

(* reserveTaskMessage *)
SendReserve(s) ==
    LET t == sender[s].task IN
    /\ sender[s].pc = "checked"
    /\ IF SlotFree(t)
       THEN /\ sender' = [sender EXCEPT ![s].pc = "reserved"]
            /\ busy' = busy \cup {t}
            /\ message' = [message EXCEPT ![t] = s]
       ELSE /\ sender' = [sender EXCEPT ![s].pc = "busy"]
            /\ UNCHANGED <<busy, message>>
    /\ UNCHANGED <<task, containers, queue, taken, runs, worker, submit, closer, procVars>>

SendEnqueue(s) ==
    /\ sender[s].pc = "reserved" /\ CanEnqueue
    /\ queue' = Append(queue, sender[s].task)
    /\ sender' = [sender EXCEPT ![s].pc = "accepted"]
    /\ UNCHANGED <<task, containers, busy, message, taken, runs, worker, submit, closer, procVars>>

(* Mutant: the slot of a refused message is never released. *)
SendFullKeepsSlot(s) ==
    /\ sender[s].pc = "reserved" /\ CannotEnqueue
    /\ sender' = [sender EXCEPT ![s].pc = "full"]
    /\ UNCHANGED <<task, containers, slotVars, runs, worker, submit, closer, procVars>>

SendFull(s) ==
    /\ sender[s].pc = "reserved" /\ CannotEnqueue
    /\ sender' = [sender EXCEPT ![s].pc = "undo"]
    /\ UNCHANGED <<task, containers, slotVars, runs, worker, submit, closer, procVars>>

SendUndo(s) ==
    /\ sender[s].pc = "undo"
    /\ ReleaseSlot(sender[s].task)
    /\ sender' = [sender EXCEPT ![s].pc = "full"]
    /\ UNCHANGED <<task, containers, runs, worker, submit, closer, procVars>>

-----------------------------------------------------------------------------
(* POST /api/maintenance/clear-results: ClearResultData.                   *)

ClearResults ==
    /\ Serving
    /\ task' = [t \in Tasks |-> ClearResult(task[t])]
    /\ UNCHANGED <<containers, slotVars, runs, worker, clientVars, procVars>>

-----------------------------------------------------------------------------
(* POST .../stop and .../container/close: Service.CloseTaskContainer.      *)

CloseGet(c, t) ==
    /\ closer[c].pc = "new" /\ Serving
    /\ task[t].status # "absent"
    /\ closer' = [closer EXCEPT ![c] = [pc |-> "cancel", task |-> t, snap |-> task[t]]]
    /\ UNCHANGED <<task, containers, slotVars, runs, worker, submit, sender, procVars>>

(* cancelTask. Calling the function after unlocking runMu only matters if  *)
(* the run is over by then, and cancelling a finished run does nothing.    *)
CloseCancel(c) ==
    LET w == runs[closer[c].task] IN
    /\ closer[c].pc = "cancel"
    /\ IF w = NoWorker THEN UNCHANGED worker
       ELSE Become(w, [worker[w] EXCEPT !.ctx = "dead"])
    /\ closer' = [closer EXCEPT ![c].pc = "release"]
    /\ UNCHANGED <<task, containers, slotVars, runs, submit, sender, procVars>>

(* releaseTaskSlot, then the branch on the snapshot taken by CloseGet. *)
CloseRelease(c) ==
    /\ closer[c].pc = "release"
    /\ ReleaseSlot(closer[c].task)
    /\ closer' = [closer EXCEPT ![c].pc =
                    IF closer[c].snap.status = "queued" THEN "stop"
                    ELSE IF Closable(closer[c].snap) THEN "rm" ELSE "error"]
    /\ UNCHANGED <<task, containers, runs, worker, submit, sender, procVars>>

CloseStopQueued(c) ==
    LET t == closer[c].task IN
    /\ closer[c].pc = "stop"
    /\ Update(t, MarkStopped(task[t]))
    /\ closer' = [closer EXCEPT ![c].pc = "ok"]
    /\ UNCHANGED <<containers, slotVars, runs, worker, submit, sender, procVars>>

CloseRemove(c) ==
    /\ closer[c].pc = "rm"
    /\ containers' = containers \ {closer[c].task}
    /\ closer' = [closer EXCEPT ![c].pc = "mark"]
    /\ UNCHANGED <<task, slotVars, runs, worker, submit, sender, procVars>>

CloseRemoveFails(c) ==
    /\ closer[c].pc = "rm" /\ "rm" \in Faults
    /\ closer' = [closer EXCEPT ![c].pc = "error"]
    /\ UNCHANGED <<task, containers, slotVars, runs, worker, submit, sender, procVars>>

CloseMark(c) ==
    LET t == closer[c].task IN
    /\ closer[c].pc = "mark"
    /\ Update(t, MarkContainerClosed(task[t]))
    /\ closer' = [closer EXCEPT ![c].pc = "ok"]
    /\ UNCHANGED <<containers, slotVars, runs, worker, submit, sender, procVars>>

-----------------------------------------------------------------------------
(* The worker takes an id from the queue and decides what kind of run it   *)
(* is: a continuation if a message waits for the task, else a first run.   *)

Pop(w) ==
    /\ worker[w].pc = "idle" /\ queue # <<>> /\ ~Done
    /\ Become(w, [worker[w] EXCEPT !.pc = "picked", !.task = Head(queue)])
    /\ queue' = Tail(queue)
    /\ UNCHANGED <<task, containers, busy, message, taken, runs, clientVars, procVars>>

(* Mutant: an idle worker waits for the queue alone. *)
ExitPickedOnly(w) ==
    /\ worker[w].pc = "picked" /\ Done
    /\ Goto(w, "exited")
    /\ UNCHANGED <<task, containers, slotVars, runs, clientVars, procVars>>

(* A worker that sees s.done drops the id it has just taken. *)
Exit(w) ==
    /\ worker[w].pc \in {"idle", "picked"} /\ Done
    /\ Goto(w, "exited")
    /\ UNCHANGED <<task, containers, slotVars, runs, clientVars, procVars>>

(* takeQueuedMessage *)
TakeMessage(w) ==
    LET t == worker[w].task IN
    /\ worker[w].pc = "picked" /\ ~Done
    /\ IF message[t] # NoMessage
       THEN /\ Become(w, [worker[w] EXCEPT !.pc = "contCheck", !.msg = message[t]])
            /\ message' = [message EXCEPT ![t] = NoMessage]
            /\ taken' = taken \cup {message[t]}
       ELSE /\ Goto(w, "taskCheck")
            /\ UNCHANGED <<message, taken>>
    /\ UNCHANGED <<task, containers, queue, busy, runs, clientVars, procVars>>

TaskCheck(w) ==
    /\ worker[w].pc = "taskCheck"
    /\ IF task[worker[w].task].status = "queued" THEN Goto(w, "mark")
       ELSE Become(w, IdleWorker)
    /\ UNCHANGED <<task, containers, slotVars, runs, clientVars, procVars>>

(* Mutant: a continuation that is not started keeps its slot. *)
ContCheckKeepsSlot(w) ==
    /\ worker[w].pc = "contCheck"
    /\ IF CanContinue(task[worker[w].task]) THEN Goto(w, "mark") ELSE Become(w, IdleWorker)
    /\ UNCHANGED <<task, containers, slotVars, runs, clientVars, procVars>>

ContCheck(w) ==
    /\ worker[w].pc = "contCheck"
    /\ Goto(w, IF CanContinue(task[worker[w].task]) THEN "mark" ELSE "release")
    /\ UNCHANGED <<task, containers, slotVars, runs, clientVars, procVars>>

BeginRun(w) ==
    LET t == worker[w].task IN
    /\ worker[w].pc = "mark"
    /\ Update(t, MarkRunning(task[t]))
    /\ Goto(w, "register")
    /\ UNCHANGED <<containers, slotVars, runs, clientVars, procVars>>

(* taskRunContext: register the cancel function, then look at s.done. *)
Register(w) ==
    /\ worker[w].pc = "register"
    /\ runs' = [runs EXCEPT ![worker[w].task] = w]
    /\ Become(w, [worker[w] EXCEPT
                    !.pc = IF worker[w].msg = NoMessage THEN "start" ELSE "hint",
                    !.ctx = IF Done THEN "dead" ELSE "live"])
    /\ UNCHANGED <<task, containers, slotVars, clientVars, procVars>>

(* The deadline of cfg.TaskTimeout passes. *)
Deadline(w) ==
    /\ Timeouts /\ worker[w].ctx = "live"
    /\ Become(w, [worker[w] EXCEPT !.ctx = "dead"])
    /\ UNCHANGED <<task, containers, slotVars, runs, clientVars, procVars>>

-----------------------------------------------------------------------------
(* The Docker runners.                                                     *)

(* docker rm -f of a container with this name, then docker run. *)
StartContainer(w) ==
    /\ worker[w].pc = "start" /\ worker[w].ctx = "live"
    /\ containers' = containers \cup {worker[w].task}
    /\ Goto(w, "sink")
    /\ UNCHANGED <<task, slotVars, runs, clientVars, procVars>>

(* docker run fails or is killed with its context, before or after the     *)
(* daemon has made the container.                                          *)
StartFails(w) ==
    LET t == worker[w].task IN
    /\ worker[w].pc = "start"
    /\ "run" \in Faults \/ worker[w].ctx = "dead"
    /\ containers' \in {containers \ {t}, containers \cup {t}}
    /\ Goto(w, "failCheck")
    /\ UNCHANGED <<task, slotVars, runs, clientVars, procVars>>

(* The containerSink callback. *)
SinkContainer(w) ==
    LET t == worker[w].task IN
    /\ worker[w].pc = "sink"
    /\ Update(t, MarkRuntimeContainer(task[t]))
    /\ Goto(w, "agent")
    /\ UNCHANGED <<containers, slotVars, runs, clientVars, procVars>>

(* RunDockerHint: docker update needs the container. *)
StartHint(w) ==
    /\ worker[w].pc = "hint" /\ worker[w].task \in containers
    /\ Goto(w, "agent")
    /\ UNCHANGED <<task, containers, slotVars, runs, clientVars, procVars>>

HintFails(w) ==
    /\ worker[w].pc = "hint"
    /\ "exec" \in Faults \/ worker[w].task \notin containers
    /\ Goto(w, "failCheck")
    /\ UNCHANGED <<task, containers, slotVars, runs, clientVars, procVars>>

(* The agent prints its session id: AppendLog stores it. *)
AgentSession(w) ==
    LET t == worker[w].task IN
    /\ worker[w].pc = "agent" /\ ~task[t].session
    /\ Update(t, MarkOpenCodeSession(task[t]))
    /\ UNCHANGED <<containers, slotVars, runs, worker, clientVars, procVars>>

(* The agent exits. enrichRunnerResult calls the result solved, whatever   *)
(* the exit code, when the log ends in the two-line protocol.  An agent    *)
(* whose container is gone cannot exit with code 0.                        *)
AgentExits(w, result) ==
    /\ worker[w].pc = "agent" /\ worker[w].ctx = "live"
    /\ result = "zero" => worker[w].task \in containers
    /\ Become(w, [worker[w] EXCEPT !.pc = IF result = "zero" THEN "round" ELSE "check",
                                   !.result = result])
    /\ UNCHANGED <<task, containers, slotVars, runs, clientVars, procVars>>

(* docker exec fails without an exit status. *)
AgentFails(w) ==
    /\ worker[w].pc = "agent" /\ worker[w].ctx = "live" /\ "exec" \in Faults
    /\ Goto(w, "failCheck")
    /\ UNCHANGED <<task, containers, slotVars, runs, clientVars, procVars>>

AgentCancelled(w) ==
    /\ worker[w].pc = "agent" /\ worker[w].ctx = "dead"
    /\ Goto(w, "ctxRm")
    /\ UNCHANGED <<task, containers, slotVars, runs, clientVars, procVars>>

(* The runner removes the container of a cancelled run; errors are ignored. *)
CancelledRemove(w) ==
    /\ worker[w].pc = "ctxRm"
    /\ \/ containers' = containers \ {worker[w].task}
       \/ "rm" \in Faults /\ UNCHANGED containers
    /\ Goto(w, "failCheck")
    /\ UNCHANGED <<task, slotVars, runs, clientVars, procVars>>

-----------------------------------------------------------------------------
(* finishRun and runUntilSolved.                                           *)

(* Mutant: one round too many. *)
RoundsLeftOffByOne(w) == worker[w].round <= Rounds

RoundsLeft(w) == worker[w].round < Rounds

(* The head of the auto-continue loop.  A result with exit code 0 always   *)
(* carries the name of a retained container, so only the session can be    *)
(* missing from what the next round needs.                                 *)
NextRound(w) ==
    LET t == worker[w].task IN
    /\ worker[w].pc = "round"
    /\ IF ~RoundsLeft(w) THEN Goto(w, "check")
       ELSE IF worker[w].ctx = "dead" THEN Goto(w, "failCheck")
       ELSE IF WasStopped(task[t]) THEN Goto(w, "check")
       ELSE IF ~task[t].session THEN Goto(w, "failCheck")
       ELSE Become(w, [worker[w] EXCEPT !.pc = "hint", !.round = worker[w].round + 1])
    /\ UNCHANGED <<task, containers, slotVars, runs, clientVars, procVars>>

(* The last taskWasStopped before the result is stored. *)
StopCheck(w) ==
    /\ worker[w].pc = "check"
    /\ Goto(w, IF WasStopped(task[worker[w].task]) THEN "clear" ELSE "result")
    /\ UNCHANGED <<task, containers, slotVars, runs, clientVars, procVars>>

(* markRunnerResult: the store's part. *)
StoreResult(w) ==
    LET t == worker[w].task
        result == worker[w].result IN
    /\ worker[w].pc = "result"
    /\ Update(t, IF result = "zero" THEN MarkCompleted(task[t], TRUE)
                 ELSE MarkFinished(task[t], result = "solved", result # "solved"))
    /\ Goto(w, IF result = "solved" THEN "solvedRm" ELSE "clear")
    /\ UNCHANGED <<containers, slotVars, runs, clientVars, procVars>>

(* SaveWriteup, whose error skips the removal, then docker rm, whose error *)
(* is ignored.                                                             *)
RemoveSolved(w) ==
    /\ worker[w].pc = "solvedRm"
    /\ \/ containers' = containers \ {worker[w].task}
       \/ Faults \cap {"rm", "writeup"} # {} /\ UNCHANGED containers
    /\ Goto(w, "clear")
    /\ UNCHANGED <<task, slotVars, runs, clientVars, procVars>>

FailCheck(w) ==
    /\ worker[w].pc = "failCheck"
    /\ Goto(w, IF WasStopped(task[worker[w].task]) THEN "clear" ELSE "failMark")
    /\ UNCHANGED <<task, containers, slotVars, runs, clientVars, procVars>>

FailRun(w) ==
    LET t == worker[w].task IN
    /\ worker[w].pc = "failMark"
    /\ Update(t, MarkFailed(task[t]))
    /\ Goto(w, "clear")
    /\ UNCHANGED <<containers, slotVars, runs, clientVars, procVars>>

(* Mutant: the cancel function stays registered after the run. *)
ClearCancelKeepsEntry(w) ==
    /\ worker[w].pc = "clear"
    /\ Become(w, IF worker[w].msg = NoMessage THEN IdleWorker
                 ELSE [worker[w] EXCEPT !.pc = "release", !.ctx = "none"])
    /\ UNCHANGED <<task, containers, slotVars, runs, clientVars, procVars>>

(* clearTaskCancel deletes the entry of the task, whoever registered it. *)
ClearCancel(w) ==
    /\ worker[w].pc = "clear"
    /\ runs' = [runs EXCEPT ![worker[w].task] = NoWorker]
    /\ Become(w, IF worker[w].msg = NoMessage THEN IdleWorker
                 ELSE [worker[w] EXCEPT !.pc = "release", !.ctx = "none"])
    /\ UNCHANGED <<task, containers, slotVars, clientVars, procVars>>

(* The worker releases the slot after a continuation. *)
Release(w) ==
    /\ worker[w].pc = "release"
    /\ ReleaseSlot(worker[w].task)
    /\ Become(w, IdleWorker)
    /\ UNCHANGED <<task, containers, runs, clientVars, procVars>>

-----------------------------------------------------------------------------
(* Shutdown, crash and restart.                                            *)

CancelAllRuns ==
    /\ Shutdowns /\ Serving
    /\ phase' = "cancelled"
    /\ worker' = [w \in Workers |-> IF \E t \in Tasks : runs[t] = w
                                    THEN [worker[w] EXCEPT !.ctx = "dead"]
                                    ELSE worker[w]]
    /\ UNCHANGED <<task, containers, slotVars, runs, clientVars, doomed, recover, restarts,
                   dropped>>

CloseDone ==
    /\ phase = "cancelled"
    /\ phase' = "closed"
    /\ UNCHANGED <<task, containers, slotVars, runs, worker, clientVars, doomed,
                   recover, restarts, dropped>>

(* After ten seconds Close lists the tasks that still run in a container   *)
(* and removes these containers one by one; errors are ignored.  The       *)
(* workers go on meanwhile.                                                *)
GraceOver ==
    /\ phase = "closed"
    /\ phase' = "forcing"
    /\ doomed' = {t \in Tasks : task[t].status = "running" /\ task[t].named}
    /\ UNCHANGED <<task, containers, slotVars, runs, worker, clientVars,
                   recover, restarts, dropped>>

ForceRemove(t) ==
    /\ phase = "forcing" /\ t \in doomed
    /\ doomed' = doomed \ {t}
    /\ \/ containers' = containers \ {t}
       \/ "rm" \in Faults /\ UNCHANGED containers
    /\ UNCHANGED <<task, slotVars, runs, worker, clientVars, phase, recover, restarts, dropped>>

(* The goroutines and the memory of the process are gone: a request under  *)
(* way gets no answer, and a docker run under way may still make its       *)
(* container.                                                              *)
ProcessGone(pc) ==
    /\ \E late \in SUBSET {worker[w].task : w \in {v \in Workers : worker[v].pc = "start"}} :
          containers' = containers \cup late
    /\ queue' = <<>>
    /\ busy' = {}
    /\ message' = [t \in Tasks |-> NoMessage]
    /\ runs' = [t \in Tasks |-> NoWorker]
    /\ worker' = [w \in Workers |-> [IdleWorker EXCEPT !.pc = pc]]
    /\ submit' = [t \in Tasks |->
                    IF submit[t] \in {"checked", "added", "full"} THEN "lost" ELSE submit[t]]
    /\ sender' = [s \in Senders |->
                    IF sender[s].pc \in {"checked", "reserved", "undo"}
                    THEN [sender[s] EXCEPT !.pc = "lost"] ELSE sender[s]]
    /\ closer' = [c \in Closers |->
                    IF closer[c].pc \in {"cancel", "release", "stop", "rm", "mark"}
                    THEN [closer[c] EXCEPT !.pc = "lost"] ELSE closer[c]]
    /\ doomed' = {}
    /\ UNCHANGED taken

(* Close returns when all workers have, or when it has forced the rest. *)
CloseReturns ==
    /\ \/ phase = "closed" /\ \A w \in Workers : worker[w].pc = "exited"
       \/ phase = "forcing" /\ doomed = {}
    /\ phase' = "exited"
    /\ ProcessGone("exited")
    /\ UNCHANGED <<task, recover, restarts, dropped>>

(* Mutants: every named task counts as interrupted; every running one does. *)
ReloadedAnyStatus(r) ==
    LET l == Loaded(r) IN IF l.named THEN MarkInterruptedContainerRetained(l) ELSE l
ReloadedUnnamed(r) ==
    LET l == Loaded(r) IN IF l.status = "running" THEN MarkInterruptedContainerRetained(l) ELSE l

(* recoverInterruptedRunningContainers, on the records as Load returns them *)
Reloaded(r) ==
    LET l == Loaded(r) IN
    IF l.status = "running" /\ l.named THEN MarkInterruptedContainerRetained(l) ELSE l

(* The process dies at any point, or has ended after Close, and NewService *)
(* runs up to the start of the workers.  createTask has removed the        *)
(* directory of a refused task, if it came to that and no stop request has *)
(* written the record again since.                                         *)
Restart ==
    /\ restarts < MaxRestarts
    /\ restarts' = restarts + 1
    /\ ProcessGone("idle")
    /\ \E gone \in SUBSET {t \in Tasks : submit[t] = "rejected"} :
          task' = [t \in Tasks |-> IF t \in gone THEN NoRecord ELSE Reloaded(task[t])]
    /\ recover' = {t \in Tasks : Recoverable(task'[t])}
    /\ phase' = "up"
    /\ UNCHANGED dropped

(* One round of NewService's recovery loop, which ignores what enqueue     *)
(* returns.                                                                *)
RecoverNext(t) ==
    /\ t \in recover
    /\ Update(t, MarkRecovered(task[t]))
    /\ IF CanEnqueue
       THEN queue' = Append(queue, t) /\ UNCHANGED dropped
       ELSE dropped' = dropped \cup {t} /\ UNCHANGED queue
    /\ recover' = recover \ {t}
    /\ UNCHANGED <<containers, busy, message, taken, runs, worker, clientVars, phase, doomed,
                   restarts>>

-----------------------------------------------------------------------------

Init ==
    /\ task = [t \in Tasks |-> NoRecord]
    /\ containers = {}
    /\ queue = <<>>
    /\ busy = {}
    /\ message = [t \in Tasks |-> NoMessage]
    /\ taken = {}
    /\ runs = [t \in Tasks |-> NoWorker]
    /\ worker = [w \in Workers |-> IdleWorker]
    /\ submit = [t \in Tasks |-> "new"]
    /\ sender = [s \in Senders |-> NewSender]
    /\ closer = [c \in Closers |-> NewCloser]
    /\ phase = "up"
    /\ doomed = {}
    /\ recover = {}
    /\ restarts = 0
    /\ dropped = {}

SubmitStep(t) ==
    SubmitCheck(t) \/ SubmitAdd(t) \/ SubmitEnqueue(t) \/ SubmitFull(t) \/ SubmitFail(t)

SendStep(s) ==
    \/ \E t \in Tasks : SendCheck(s, t)
    \/ SendReserve(s) \/ SendEnqueue(s) \/ SendFull(s) \/ SendUndo(s)

CloseStep(c) ==
    \/ \E t \in Tasks : CloseGet(c, t)
    \/ CloseCancel(c) \/ CloseRelease(c) \/ CloseStopQueued(c)
    \/ CloseRemove(c) \/ CloseRemoveFails(c) \/ CloseMark(c)

DispatchStep(w) ==
    \/ Pop(w) \/ Exit(w) \/ TakeMessage(w) \/ TaskCheck(w) \/ ContCheck(w)
    \/ BeginRun(w) \/ Register(w)

DockerStep(w) ==
    \/ StartContainer(w) \/ StartFails(w) \/ SinkContainer(w)
    \/ StartHint(w) \/ HintFails(w) \/ AgentSession(w)
    \/ \E result \in {"solved", "zero", "nonzero"} : AgentExits(w, result)
    \/ AgentFails(w) \/ AgentCancelled(w) \/ CancelledRemove(w)

FinishStep(w) ==
    \/ NextRound(w) \/ StopCheck(w) \/ StoreResult(w) \/ RemoveSolved(w)
    \/ FailCheck(w) \/ FailRun(w) \/ ClearCancel(w) \/ Release(w)

Next ==
    \/ \E t \in Tasks : SubmitStep(t) \/ RecoverNext(t)
    \/ \E s \in Senders : SendStep(s)
    \/ \E c \in Closers : CloseStep(c)
    \/ \E w \in Workers : DispatchStep(w) \/ Deadline(w) \/ DockerStep(w) \/ FinishStep(w)
    \/ ClearResults
    \/ CancelAllRuns \/ CloseDone \/ GraceOver \/ CloseReturns \/ Restart
    \/ \E t \in Tasks : ForceRemove(t)

Spec == Init /\ [][Next]_vars

-----------------------------------------------------------------------------
(* Fairness. Go schedules every runnable goroutine and Docker commands     *)
(* return; an agent need not exit by itself, but with a task timeout its   *)
(* deadline passes.  Requests are made only if somebody makes them, and a  *)
(* handler that has begun runs to its end.                                 *)

AgentStep(w) == worker[w].pc = "agent" /\ worker[w].ctx = "live"

WorkerProgress(w) == DispatchStep(w) \/ FinishStep(w) \/ (DockerStep(w) /\ ~AgentStep(w))

Fairness ==
    /\ \A w \in Workers : WF_vars(WorkerProgress(w)) /\ WF_vars(Deadline(w))
    /\ \A t \in Tasks : WF_vars(submit[t] # "new" /\ SubmitStep(t)) /\ WF_vars(RecoverNext(t))
    /\ \A s \in Senders : WF_vars(sender[s].pc # "new" /\ SendStep(s))
    /\ \A c \in Closers : WF_vars(closer[c].pc # "new" /\ CloseStep(c))

FairSpec == Spec /\ Fairness
=============================================================================
