--------------------------- MODULE TaskProperties ---------------------------
(***************************************************************************)
(* What the task service must never do, and what it must eventually do.    *)
(* An invariant holds in every configuration unless its comment names the  *)
(* configurations in which it does.                                        *)
(***************************************************************************)
EXTENDS TaskService

DataTypeOK ==
    /\ task \in [Tasks -> Record]
    /\ containers \subseteq Tasks
    /\ phase \in Phases
    /\ doomed \subseteq Tasks
    /\ recover \subseteq Tasks
    /\ restarts \in 0..MaxRestarts
    /\ dropped \subseteq Tasks

SlotTypeOK ==
    /\ queue \in Seq(Tasks) /\ Len(queue) <= QueueCap
    /\ busy \subseteq Tasks
    /\ message \in [Tasks -> Senders \cup {NoMessage}]
    /\ taken \subseteq Senders
    /\ runs \in [Tasks -> Workers \cup {NoWorker}]

WorkerTypeOK ==
    /\ worker \in [Workers -> WorkerState]
    /\ \A w \in Workers : worker[w].pc \notin {"idle", "exited"} => worker[w].task \in Tasks

ClientTypeOK ==
    /\ submit \in [Tasks -> SubmitPcs]
    /\ sender \in [Senders -> SenderState]
    /\ \A s \in Senders : sender[s].pc # "new" => sender[s].task \in Tasks
    /\ closer \in [Closers -> CloserState]
    /\ \A c \in Closers : closer[c].pc # "new" => closer[c].task \in Tasks

(* The type of every variable. *)
TypeOK == DataTypeOK /\ SlotTypeOK /\ WorkerTypeOK /\ ClientTypeOK

(* From MarkRunning to the stored outcome. *)
ActivePcs == {"register"} \cup (RunPcs \ {"solvedRm", "clear"})

InQueue(t) == \E i \in 1..Len(queue) : queue[i] = t
WorkerOn(t, pcs) == \E w \in Workers : worker[w].task = t /\ worker[w].pc \in pcs
SenderOn(t, pcs) == \E s \in Senders : sender[s].task = t /\ sender[s].pc \in pcs

ContinuationOn(t) ==
    \E w \in Workers : worker[w].task = t /\ worker[w].msg # NoMessage

(* A task answers 409 to messages only as long as somebody is bound to     *)
(* free its slot (reserveTaskMessage, releaseTaskSlot): the reserving      *)
(* handler, the queue entry that leads a worker to the message, or the     *)
(* worker that took it.  Holds until shutdown, when the queue is dropped.  *)
NoLeakedReservation ==
    \A t \in Tasks : t \in busy /\ ~Done =>
        \/ ContinuationOn(t)
        \/ /\ message[t] # NoMessage
           /\ \/ SenderOn(t, {"reserved", "undo"})
              \/ InQueue(t)
              \/ WorkerOn(t, {"picked"})

(* A queued task is always on its way to a worker: the queue entry, the    *)
(* worker about to start it, or the handler still submitting it exists.    *)
(* The only task ever left behind is one whose recovery found the queue    *)
(* full (NewService ignores the result of enqueue).                        *)
QueuedTaskOwned ==
    \A t \in Tasks : task[t].status = "queued" /\ ~Done =>
        \/ InQueue(t)
        \/ WorkerOn(t, {"picked", "taskCheck", "mark"})
        \/ submit[t] \in {"added", "full"}
        \/ t \in recover
        \/ t \in dropped

(* A running task has a worker that will store its outcome, or a startup   *)
(* that will queue it again: no interleaving of stops, continuations and   *)
(* cancellations leaves a task "running" with nobody behind it.            *)
RunningTaskOwned ==
    \A t \in Tasks : task[t].status = "running" /\ phase # "exited" =>
        WorkerOn(t, ActivePcs) \/ t \in recover

(* An entry of s.runs belongs to a run of that very task that is not over: *)
(* a stop or a shutdown never cancels the run of another task.             *)
RegistryLive ==
    \A t \in Tasks : runs[t] # NoWorker =>
        /\ worker[runs[t]].task = t
        /\ worker[runs[t]].pc \in RunPcs

(* Two workers never run agents for the same task: between MarkRunning and *)
(* the stored outcome a run is alone, although first runs do not use the   *)
(* busy map and the handlers check the status long before they reserve.    *)
OneRunPerTask ==
    \A w, v \in Workers :
        /\ worker[w].pc \in ActivePcs
        /\ worker[v].pc \in ActivePcs \cup {"mark"}
        /\ worker[w].task = worker[v].task
        => w = v

(* A message whose request was refused with 409 or 429 is never given to   *)
(* an agent.                                                               *)
RefusedMessageNotRun ==
    \A s \in Senders : sender[s].pc \in {"busy", "full"} => s \notin taken

(* A message answered with 202 waits in the map behind a queue entry until *)
(* a worker takes it, as long as the process lives.                        *)
AcceptedMessageHeld ==
    \A s \in Senders : sender[s].pc = "accepted" /\ ~Done /\ restarts = 0 =>
        \/ s \in taken
        \/ /\ message[sender[s].task] = s
           /\ InQueue(sender[s].task) \/ WorkerOn(sender[s].task, {"picked"})

(* A record that can be continued names a container that exists.           *)
RetainedContainerExists ==
    \A t \in Tasks : task[t].kept => task[t].named /\ t \in containers

(* A container whose task does not name it belongs to a run that has not   *)
(* stored the name yet, or to a task that will be run, and started with    *)
(* docker rm -f, again.                                                    *)
ContainerAccounted ==
    \A t \in containers : task[t].named \/ task[t].status \in {"queued", "running"}

-----------------------------------------------------------------------------
(* Refinement: what a client of the API sees of a task. *)
LifeStatus == [t \in Tasks |-> IF submit[t] = "rejected" /\ task[t].status = "failed"
                               THEN "refused" ELSE task[t].status]
LifeOpen == [t \in Tasks |-> task[t].kept /\ task[t].named /\ task[t].session]

Lifecycle == INSTANCE TaskLifecycle WITH status <- LifeStatus, open <- LifeOpen

(* Without stop requests every step of the service is a step of the        *)
(* lifecycle in DATA_MODEL.md or changes nothing a client sees: a task     *)
(* leaves "solved" only when the results are cleared, an outcome is stored *)
(* only by a run, a settled task stays as continuable as it was, and a     *)
(* restart only moves running tasks.                                       *)
RefinesLifecycle == Lifecycle!Spec

-----------------------------------------------------------------------------
(* Liveness, under FairSpec with a task timeout.                           *)

(* A queued task is started or settled unless the service shuts down or    *)
(* its recovery found the queue full.                                      *)
QueuedIsServed ==
    \A t \in Tasks : task[t].status = "queued" ~>
                        task[t].status # "queued" \/ t \in dropped \/ Done

(* A running task is settled: no worker waits for ever.                    *)
RunEnds == \A t \in Tasks : task[t].status = "running" ~> task[t].status # "running" \/ Done

(* A slot taken for a message is free again some time later, so a later    *)
(* message can be accepted.                                                *)
SlotIsFreed == \A t \in Tasks : t \in busy ~> t \notin busy \/ Done

(* Once s.done is closed every worker returns, so Close need not wait out  *)
(* its grace period for ever.                                              *)
WorkersReturn ==
    phase = "closed" ~> (\A w \in Workers : worker[w].pc = "exited") \/ phase # "closed"

=============================================================================
