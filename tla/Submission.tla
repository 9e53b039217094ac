----------------------------- MODULE Submission ------------------------------
(***************************************************************************)
(* A new task from the request to its container: createTask makes the      *)
(* directory and saves the attachments (router.go, storage.go), Submit     *)
(* stores the record and queues the task (service.go), a worker starts the *)
(* container with the provider and the limits of that moment (docker.go).  *)
(* A request that is refused half-way removes the directory again.  Here   *)
(* the disk and the memory are apart, and calls that write may fail; of    *)
(* the runs only the start is kept (TaskService has the rest).             *)
(***************************************************************************)
EXTENDS ProviderSettings, ResourceLimits, Sequences

CONSTANTS
    Tasks,          \* ids, each made by one POST /api/tasks
    Workers,
    QueueCap,
    Hosts,          \* the machines Docker may run on
    MaxRestarts,    \* bound: restarts
    NoTask, NotLaunched

ASSUME SubmissionAssumption ==
    /\ QueueCap \in Nat \ {0}
    /\ Hosts \subseteq Host
    /\ MaxRestarts \in Nat
    /\ NoTask \notin Tasks
    /\ NotLaunched \notin [provider : Formats, info : Hosts \cup {NoInfo}]

VARIABLES
    post,       \* per task: how far its POST is, or how it was answered
    disk,       \* per task: the status in its meta.json
    removed,    \* per task: the same in a directory that was removed
    mem,        \* per task: the status in s.tasks
    stop,       \* tasks that a POST .../stop has found queued and not yet marked
    queue,      \* s.queue
    recover,    \* tasks that NewService still has to queue again
    worker,     \* per worker: its step and its task
    launched,   \* per task: how its container was started by this process
    host,       \* the machine
    restarts

taskVars == <<post, disk, removed, mem, stop, queue, recover, worker,
              launched, host, restarts>>
vars == <<providerVars, taskVars>>

(* "none": no meta.json, so that Load sees no task, whatever else is in the
   directory; "started": running, and the record names the container; "failed"
   stands for every settled status. *)
Status == {"none", "queued", "running", "started", "failed"}
InFlight == {"save", "submit", "add", "enqueue", "fail", "undo"}
PostState == InFlight \cup {"new", "accepted", "refused", "earlier", "lost"}

Launch == [provider : Formats, info : Hosts \cup {NoInfo}]
WorkerState == [step : {"idle", "picked", "start", "name", "run"},
                task : Tasks \cup {NoTask}]
Idle == [step |-> "idle", task |-> NoTask]

TypeOK ==
    /\ ProviderTypeOK
    /\ post \in [Tasks -> PostState]
    /\ disk \in [Tasks -> Status]
    /\ removed \in [Tasks -> Status]
    /\ mem \in [Tasks -> Status]
    /\ stop \subseteq Tasks
    /\ queue \in Seq(Tasks) /\ Len(queue) <= QueueCap
    /\ recover \subseteq Tasks
    /\ worker \in [Workers -> WorkerState]
    /\ \A w \in Workers : worker[w].step # "idle" => worker[w].task \in Tasks
    /\ launched \in [Tasks -> Launch \cup {NotLaunched}]
    /\ host \in Hosts
    /\ restarts \in 0..MaxRestarts

Init ==
    /\ ProviderInit
    /\ post = [t \in Tasks |-> "new"]
    /\ disk = [t \in Tasks |-> "none"]
    /\ removed = [t \in Tasks |-> "none"]
    /\ mem = [t \in Tasks |-> "none"]
    /\ stop = {}
    /\ queue = <<>>
    /\ recover = {}
    /\ worker = [w \in Workers |-> Idle]
    /\ launched = [t \in Tasks |-> NotLaunched]
    /\ host \in Hosts
    /\ restarts = 0

Mishap ==
    /\ mishaps < MaxMishaps
    /\ mishaps' = mishaps + 1
    /\ UNCHANGED <<env, file, active, switch, apart>>

(* The next step of the request for t. *)
Goes(t, from, to) == post[t] = from /\ post' = [post EXCEPT ![t] = to]

(* Store.update and Store.Add: writeTask, which makes the directory if there is
   none, and then the memory.  When it fails, meta.json may have been replaced:
   its directory is synced after that. *)
Mark(t, status) ==
    /\ disk' = [disk EXCEPT ![t] = status]
    /\ mem' = [mem EXCEPT ![t] = status]
    /\ UNCHANGED providerVars

MarkFails(t, status) ==
    /\ Mishap
    /\ disk' \in {disk, [disk EXCEPT ![t] = status]}
    /\ UNCHANGED mem

-----------------------------------------------------------------------------
(* POST /api/tasks: createTask and Submit. *)

(* activeOpenCodeProvider, asked before anything is stored. *)
PostCheck(t) ==
    /\ recover = {}
    /\ Goes(t, "new", IF ProviderUsable THEN "save" ELSE "refused")
    /\ UNCHANGED <<providerVars, disk, removed, mem, stop, queue, recover,
                   worker, launched, host, restarts>>

(* prepareTaskDirs and saveUploadedFiles *)
PostSave(t) ==
    /\ Goes(t, "save", "submit")
    /\ UNCHANGED <<providerVars, disk, removed, mem, stop, queue, recover,
                   worker, launched, host, restarts>>

(* An attachment is too large or cannot be written. *)
PostSaveFails(t) ==
    /\ Goes(t, "save", "undo")
    /\ UNCHANGED <<providerVars, disk, removed, mem, stop, queue, recover,
                   worker, launched, host, restarts>>

CanEnqueue == Len(queue) < QueueCap

(* Submit asks for the provider again, and whether the queue is full. *)
PostSubmit(t) ==
    /\ Goes(t, "submit", IF ProviderUsable /\ CanEnqueue THEN "add" ELSE "undo")
    /\ UNCHANGED <<providerVars, disk, removed, mem, stop, queue, recover,
                   worker, launched, host, restarts>>

PostAdd(t) ==
    /\ Goes(t, "add", "enqueue")
    /\ Mark(t, "queued")
    /\ UNCHANGED <<removed, stop, queue, recover, worker, launched, host, restarts>>

PostAddFails(t) ==
    /\ Goes(t, "add", "undo")
    /\ MarkFails(t, "queued")
    /\ UNCHANGED <<removed, stop, queue, recover, worker, launched, host, restarts>>

PostEnqueue(t) ==
    /\ CanEnqueue
    /\ Goes(t, "enqueue", "accepted")
    /\ queue' = Append(queue, t)
    /\ UNCHANGED <<providerVars, disk, removed, mem, stop, recover, worker,
                   launched, host, restarts>>

(* Mutant: the refused task is not marked failed. *)
PostFullLeavesQueued(t) ==
    /\ ~CanEnqueue
    /\ Goes(t, "enqueue", "undo")
    /\ UNCHANGED <<providerVars, disk, removed, mem, stop, queue, recover,
                   worker, launched, host, restarts>>

(* Another request took the last place meanwhile. *)
PostFull(t) ==
    /\ ~CanEnqueue
    /\ Goes(t, "enqueue", "fail")
    /\ UNCHANGED <<providerVars, disk, removed, mem, stop, queue, recover,
                   worker, launched, host, restarts>>

PostMarkFailed(t) ==
    /\ Goes(t, "fail", "undo")
    /\ Mark(t, "failed")
    /\ UNCHANGED <<removed, stop, queue, recover, worker, launched, host, restarts>>

PostMarkFailedFails(t) ==
    /\ Goes(t, "fail", "undo")
    /\ MarkFails(t, "failed")
    /\ UNCHANGED <<removed, stop, queue, recover, worker, launched, host, restarts>>

(* os.RemoveAll, then the answer; the record in memory stays. *)
PostUndo(t) ==
    /\ Goes(t, "undo", "refused")
    /\ disk' = [disk EXCEPT ![t] = "none"]
    /\ removed' = [removed EXCEPT ![t] = disk[t]]
    /\ UNCHANGED <<providerVars, mem, stop, queue, recover, worker, launched,
                   host, restarts>>

(* Its error is ignored. *)
PostUndoFails(t) ==
    /\ Goes(t, "undo", "refused")
    /\ Mishap
    /\ UNCHANGED <<disk, removed, mem, stop, queue, recover, worker, launched,
                   host, restarts>>

-----------------------------------------------------------------------------
(* POST /api/tasks/{id}/stop of a queued task: CloseTaskContainer. *)

StopGet(t) ==
    /\ recover = {}
    /\ mem[t] = "queued"
    /\ stop' = stop \cup {t}
    /\ UNCHANGED <<providerVars, post, disk, removed, mem, queue, recover,
                   worker, launched, host, restarts>>

(* MarkStopped, whatever the record is by now: it brings back meta.json of a
   task that was refused meanwhile. *)
StopMark(t) ==
    /\ t \in stop
    /\ stop' = stop \ {t}
    /\ Mark(t, "failed")
    /\ UNCHANGED <<post, removed, queue, recover, worker, launched, host, restarts>>

StopMarkFails(t) ==
    /\ t \in stop
    /\ stop' = stop \ {t}
    /\ MarkFails(t, "failed")
    /\ UNCHANGED <<post, removed, queue, recover, worker, launched, host, restarts>>

-----------------------------------------------------------------------------
(* The worker, as far as the start of the container. *)

Step(w, from, to) ==
    worker[w].step = from /\ worker' = [worker EXCEPT ![w].step = to]

(* runTask drops a task that is not queued. *)
Pick(w) ==
    /\ worker[w].step = "idle"
    /\ queue # <<>>
    /\ queue' = Tail(queue)
    /\ worker' = IF mem[Head(queue)] = "queued"
                 THEN [worker EXCEPT ![w] = [step |-> "picked", task |-> Head(queue)]]
                 ELSE worker
    /\ UNCHANGED <<providerVars, post, disk, removed, mem, stop, recover,
                   launched, host, restarts>>

WorkerMarkRunning(w) ==
    /\ Step(w, "picked", "start")
    /\ Mark(worker[w].task, "running")
    /\ UNCHANGED <<post, removed, stop, queue, recover, launched, host, restarts>>

WorkerMarkRunningFails(w) ==
    /\ Step(w, "picked", "idle")
    /\ MarkFails(worker[w].task, "running")
    /\ UNCHANGED <<post, removed, stop, queue, recover, launched, host, restarts>>

(* RunDockerTask with activeDockerConfig; docker info may fail. *)
WorkerLaunch(w) ==
    /\ Step(w, "start", "name")
    /\ \E info \in {host, NoInfo} :
          launched' = [launched EXCEPT ![worker[w].task] =
                          [provider |-> RunProvider, info |-> info]]
    /\ UNCHANGED <<providerVars, post, disk, removed, mem, stop, queue, recover,
                   host, restarts>>

(* MarkRuntimeContainer only sets the name. *)
WorkerName(w) ==
    LET t == worker[w].task IN
    /\ Step(w, "name", "run")
    /\ Mark(t, IF mem[t] = "running" THEN "started" ELSE mem[t])
    /\ UNCHANGED <<post, removed, stop, queue, recover, launched, host, restarts>>

WorkerNameFails(w) ==
    LET t == worker[w].task IN
    /\ Step(w, "name", "run")
    /\ MarkFails(t, IF mem[t] = "running" THEN "started" ELSE mem[t])
    /\ UNCHANGED <<post, removed, stop, queue, recover, launched, host, restarts>>

WorkerFinish(w) ==
    /\ Step(w, "run", "idle")
    /\ Mark(worker[w].task, "failed")
    /\ UNCHANGED <<post, removed, stop, queue, recover, launched, host, restarts>>

-----------------------------------------------------------------------------
(* The process ends and NewService runs: settings, Load, and the tasks with a
   container are settled.  After a power loss, which is a mishap, a removed
   directory may be back and a directory may be gone, because the directory
   they are in is never synced. *)
Restart(lost) ==
    /\ restarts < MaxRestarts
    /\ restarts' = restarts + 1
    /\ LoadSettings
    /\ mishaps' = mishaps + (IF lost THEN 1 ELSE 0) /\ mishaps' <= MaxMishaps
    /\ \E found \in [Tasks -> Status] :
          /\ \A t \in Tasks :
                \/ found[t] = disk[t]
                \/ lost /\ disk[t] = "none" /\ found[t] = removed[t]
                \/ lost /\ found[t] = "none"
          /\ disk' = [t \in Tasks |->
                         IF found[t] = "started" THEN "failed" ELSE found[t]]
          /\ recover' = {t \in Tasks : found[t] \in {"queued", "running"}}
    /\ mem' = disk'
    /\ removed' = [t \in Tasks |-> "none"]
    /\ post' = [t \in Tasks |-> IF post[t] = "accepted" THEN "earlier"
                                ELSE IF post[t] \in InFlight THEN "lost"
                                ELSE post[t]]
    /\ stop' = {}
    /\ queue' = <<>>
    /\ worker' = [w \in Workers |-> Idle]
    /\ launched' = [t \in Tasks |-> NotLaunched]
    /\ UNCHANGED host

(* MarkRecovered and enqueue, which may find the queue full. *)
Recover(t) ==
    /\ t \in recover
    /\ recover' = recover \ {t}
    /\ Mark(t, "queued")
    /\ queue' = IF CanEnqueue THEN Append(queue, t) ELSE queue
    /\ UNCHANGED <<post, removed, stop, worker, launched, host, restarts>>

RecoverFails(t) ==
    /\ t \in recover
    /\ recover' = recover \ {t}
    /\ MarkFails(t, "queued")
    /\ UNCHANGED <<post, removed, stop, queue, worker, launched, host, restarts>>

SwitchNext == recover = {} /\ ProviderNext /\ UNCHANGED taskVars

PostNext(t) ==
    \/ PostCheck(t) \/ PostSave(t) \/ PostSaveFails(t) \/ PostSubmit(t)
    \/ PostAdd(t) \/ PostAddFails(t) \/ PostEnqueue(t) \/ PostFull(t)
    \/ PostMarkFailed(t) \/ PostMarkFailedFails(t)
    \/ PostUndo(t) \/ PostUndoFails(t)

TaskNext(t) ==
    \/ StopGet(t) \/ StopMark(t) \/ StopMarkFails(t)
    \/ Recover(t) \/ RecoverFails(t)

WorkerNext(w) ==
    \/ Pick(w) \/ WorkerMarkRunning(w) \/ WorkerMarkRunningFails(w)
    \/ WorkerLaunch(w) \/ WorkerName(w) \/ WorkerNameFails(w) \/ WorkerFinish(w)

Next ==
    \/ SwitchNext
    \/ \E t \in Tasks : PostNext(t) \/ TaskNext(t)
    \/ \E w \in Workers : WorkerNext(w)
    \/ Restart(FALSE)
    \/ Restart(TRUE)

Spec == Init /\ [][Next]_vars

-----------------------------------------------------------------------------
(* A task whose request was answered with an error does not run, neither in
   this process nor after a restart, if at most one call fails on the way
   (router.go:284): the two safeguards, the failed record and the removed
   directory, are enough one at a time. *)
RefusedNeverRuns ==
    mishaps <= 1 => \A t \in Tasks :
        post[t] = "refused" => launched[t] = NotLaunched

(* A container of a task that this process accepted got a provider that is
   configured, whatever is switched while the task waits (service.go:218:
   the fallback of activeDockerConfig is not used for it). *)
RunHasProvider ==
    \A t \in Tasks :
        post[t] = "accepted" /\ launched[t] # NotLaunched
        => launched[t].provider \in ConfiguredIn(env)

(* The limits "auto" gives a container leave a CPU and 1 GiB of a host that is
   large enough and that Docker tells of (docker.go:307). *)
LimitsLeaveRoom ==
    \A t \in Tasks :
        /\ launched[t] # NotLaunched
        /\ launched[t].info # NoInfo
        /\ LargeEnough(host)
        => LeavesRoom(ResolveDockerResourceLimits(Automatic, Automatic,
                                                  launched[t].info), host)
=============================================================================
