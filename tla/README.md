# CTF Agent: TLA+ models, checks and proofs

CTF Agent is one Go process (`src/internal/app`, started by
`src/cmd/go-server`) that accepts CTF challenges over HTTP, runs an LLM agent
for each of them in a Docker container, and a Python bridge
(`src/runtime/opencode/bridge.py`) inside every container. This directory holds
the TLA+ models of the parts whose behaviour depends on interleavings,
failures, crashes and time, the TLC runs that check them, and TLAPS proofs of
the invariants that matter most.

## The system

| Part | State | Operations | Talks to |
| --- | --- | --- | --- |
| Task service (`service.go`) | `queue` (channel), `busy`, `queuedMessages`, `runs` (cancel functions), `done` | `Submit`, `SendTaskMessage`, `CloseTaskContainer`, workers, `NewService`, `Close` | store, Docker runner, hub |
| Store (`store.go`, `model.go`) | `tasks` in memory, `meta.json` and `meta.json.bak` on disk | `Add`, `Mark*`, `MarkRecovered`, `Load`, `ClearResultData`, `SaveWriteup` | file system |
| Task log (`store.go`, `hub.go`, `websocket.go`) | `logs.txt` and its archives, subscribers' channels | `AppendLog`, `Logs`, rotation, `Subscribe`, `Publish` | file system, browsers |
| Docker runner (`docker.go`) | containers named `ctf-agent-<id>` | `RunDockerTask`, `RunDockerHint`, `CloseTaskContainer`, `ListDockerContainers` | Docker CLI |
| Retention cleaner (`service.go`) | time of the last cleanup | `cleanupExpiredContainers` each hour | store, Docker runner |
| Bridge (`bridge.py`) | the OpenCode process, its session, output read so far | `run_opencode_once`, retry, write-up, final output | OpenCode, stdout |
| Result parser (`result_parser.go`) | none | `parseRunnerOutput` | the log of a run |
| Provider settings (`service.go`, `config.go`) | active format in memory, `provider.json` | `SetProviderFormat`, `loadProviderFormat`, `activeDockerConfig` | file system, environment |
| Upload storage (`storage.go`) | a task's directory | `prepareTaskDirs`, `saveUploadedFiles` | file system |
| HTTP API (`router.go`) | subscribers of `/api/events` | `createTask`, `updateProviderSettings`, `taskEvents`, the other routes | task service, hub |
| Task list page (`app.js`, `api.js`) | tasks shown, a refresh timer, requests under way | `loadCards`, `scheduleCardRefresh`, polling | HTTP API |
| Server process (`main.go`) | none | start, shutdown | task service |

What is hard in it, and so what the properties are about:

* **Interleaving.** A task is touched by the handler that submits it, by
  message and stop handlers, by one or more workers, by the cleaner and by
  shutdown. Each step is locked, but they use three different locks
  (`Store.mu`, `busyMu`, `runMu`) and no lock spans two steps.
* **Check, then act.** `Submit`, `SendTaskMessage`, `CloseTaskContainer`,
  `finishRun` and the cleaner decide from a copy of a record and act on the
  record as it is later.
* **Two stores of truth.** The record says a container is retained, Docker says
  whether it exists; `docker run`, `docker rm` and `meta.json` cannot change
  together.
* **Crashes.** The queue, the reservations and the cancel functions are lost;
  records and containers stay.
* **A bounded queue** shared by submissions, continuations and recovery.
* **Undoing by hand.** A submission that fails half-way leaves a directory, a
  record and perhaps a queue entry behind, and every step that removes them may
  fail as well.
* **Notices that carry nothing.** A browser learns of a change by an event that
  may be dropped, and by requests that may fail or overtake each other.
* **Timeouts and stops** that end a run from the outside while its result is
  on its way.

A component is correct when: a task has one run at a time and one continuation
pending at most; a task that waits has a queue entry and a task that runs has a
worker; a slot taken for a message is released by somebody; a message that was
refused is not executed and one that was accepted is; the same holds of tasks,
also after a crash; a settled task does not change by itself; a record that can
be continued has a container; the provider a user chose is the one used, now and
after a restart; a page does not go on showing what is over; and, given task
timeouts, queued tasks are served, runs end, and shutdown ends the workers.

## Modules

| Module | Models |
| --- | --- |
| `TaskRecord` | `Task` and the function each `Mark*` of the store applies to it; the predicates the service asks of it |
| `TaskService` | the handlers, the queue, the workers, the Docker commands of a run, shutdown, crash and recovery |
| `TaskProperties` | the type invariant, the safety invariants and the liveness properties of `TaskService` |
| `TaskLifecycle` | the abstract specification: what a client of the API sees of a task |
| `ContainerCleaner` | the hourly retention cleaner, composed with `TaskService` |
| `TaskFile` | `meta.json` and its backup: `writeTask`, `readTask`, `atomicWriteFile`, with failures between the steps |
| `LogStream` | the agent's output: pipes, log with rotation, hub, WebSocket clients |
| `Bridge` | the rounds of a task inside the container and how the service judges them |
| `TaskEvents` | how a change of a task reaches the page with the task list |
| `ProviderSettings` | the provider format in `provider.json`, in memory and in the environment |
| `ResourceLimits` | the automatic memory and CPU limits, as operators |
| `Submission` | a new task from its request to its container, composed of the two before, with failing writes, stops, restarts |
| `MCTaskService`, `MCCleaner`, `MCTaskFile`, `MCLogStream`, `MCBridge`, `MCTaskEvents`, `MCSubmission` | instances for TLC |
| `TaskServiceProofs`, `TaskLifecycleProofs`, `ContainerCleanerProofs`, `TaskFileProofs`, `LogStreamProofs`, `TaskEventsProofs`, `SubmissionProofs`, `BridgeProofs` | TLAPS proofs |

### How `TaskService` corresponds to the code

A `worker[w]` is one goroutine of `Service.worker` with its program counter and
locals; `submit[t]`, `sender[s]` and `closer[c]` are HTTP handlers in
`Submit`, `SendTaskMessage` and `CloseTaskContainer`. `queue`, `busy`,
`message` and `runs` are the fields `queue`, `busy`, `queuedMessages` and `runs`
of `Service`; `runs[t]` names the run whose cancel function is registered
instead of holding a function, and cancelling sets that worker's `ctx` to
`"dead"`. `task[t]` is the store's record, `containers` the set of containers
that exist in Docker.

One action is what happens under one lock, in one channel operation or in one
Docker command; between two of them anything else may happen. A copy of a
record that the code keeps across such a point is kept in the model
(`closer[c].snap`). The order of the code is the order of the program counters:
`Release` comes after `ClearCancel`, `CloseRelease` before `CloseRemove`.

| Code | Actions |
| --- | --- |
| `createTask`, `Submit`, `Store.Add` | `SubmitCheck`, `SubmitAdd`, `SubmitEnqueue`, `SubmitFull`, `SubmitFail` |
| `SendTaskMessage`, `reserveTaskMessage` | `SendCheck`, `SendReserve`, `SendEnqueue`, `SendFull`, `SendUndo` |
| `Service.CloseTaskContainer`, `cancelTask` | `CloseGet`, `CloseCancel`, `CloseRelease`, `CloseStopQueued`, `CloseRemove`, `CloseRemoveFails`, `CloseMark` |
| `worker`, `runTask`, `runContinuation` | `Pop`, `TakeMessage`, `TaskCheck`, `ContCheck`, `BeginRun`, `Register`, `Release`, `Exit` |
| `RunDockerTask`, `RunDockerHint` | `StartContainer`, `StartFails`, `SinkContainer`, `StartHint`, `HintFails`, `AgentSession`, `AgentExits`, `AgentFails`, `AgentCancelled`, `CancelledRemove` |
| `runUntilSolved`, `finishRun`, `markRunnerResult` | `NextRound`, `StopCheck`, `StoreResult`, `RemoveSolved`, `FailCheck`, `FailRun`, `ClearCancel` |
| `Close` | `CancelAllRuns`, `CloseDone`, `GraceOver`, `ForceRemove`, `CloseReturns` |
| a crash, `NewService` | `Restart`, `RecoverNext` |
| `clearResults` | `ClearResults` |

External: the agent (any exit at any time: with a flag, with status 0 and no
flag, with another status), and Docker, whose commands may fail when the
constant `Faults` says so. Writes of `meta.json` succeed in this module.

`TaskRecord` keeps of a `Task` its status, whether it has a flag, an error step
the service asks for, and the three facts a continuation needs: retained, named,
session.

### `ContainerCleaner`

Extends `TaskService` with one more process. `cleaner` is the goroutine: its
`docker ps` result (`CleanPs`), its copy of the records (`CleanList`), and one
action per container it removes or record it corrects. Ages are two external
steps, `ContainerAges` and `RecordExpires`, that may happen at any time: a
container or a record becomes older than the retention, and stays so until it
is made anew. All actions of the service run between any two steps of it.

### `TaskFile`

A record is a version number. `file` is what a reader sees; `stale[name]` is the
set of contents a name may go back to when the power fails, because the
directory has not been synced since, with `Torn` in it when the renamed file
itself was not synced. `op` is the one operation under the store's lock; the
write, the sync, the rename and the directory sync of `atomicWriteFile` are an
action each, and `Kill`, `PowerLoss` or a failing call may come between any two.
The two reads may fail as well, with different consequences: a write whose read of
`meta.json` fails goes on without a backup (`ReadCurrentFails`), a load whose
read of either file fails skips the task (`LoadFails`). `MaxFailures` bounds the
failing calls.

`Damage` is the outside event the backup exists for. What it leaves is told apart
by the three tests the code makes: `json.Valid` before `meta.json` is copied to
the backup (`IsJson`), `json.Unmarshal` before a backup is used (`Unmarshals`),
and the checks of id and schema before a record is loaded (`Accept`). `Torn`
fails all of them, `Mistyped` (JSON of another shape) the last two, `Foreign` (a
record with no or another id, or a later schema) the last one only.

`acked` is the last version for which the caller got no error, `before` the one it
followed, where changes that could not read `meta.json` do not count.

### `LogStream`

`appender[p]` is the goroutine of `streamPipe` for one pipe, followed into
`AppendLog` (lock, the renames of the rotation one by one, write, publish);
the `Runner` writes the report of the exit. Writers hold `Store.mu` from `Lock`
to `WriteLine`; a client reads one file per step (`ReadFile`) without it, as
`Store.Logs` does, then subscribes. `written` is the sequence of all lines ever
written. Lines carry a size so that a rotation can be due, not due, or due for a
line longer than the limit.

### `Bridge`

`bridge` is the Python main thread (`pc`, which of the three calls it is in, the
session, the blocks read), `process` is OpenCode, `out` its pipe, `queue` the
thread's queue, `log` the task's log as the service reads it. A text is a
sequence of lines: the solved marker, a blank line, a flag, other text, and in
the log also the marker of the final output, of a preview, of a write-up and the
bridge's last line. `ExtractSolvedFlag` (Python) and `ParseRunnerOutput` (Go) are
both operators, translated separately. The clock is left out: a configured
timeout may pass at any moment, and does pass if the loop goes on for ever.

### `TaskEvents`

`store` is one record: a version, and whether the task is queued or running.
A writer changes it (`Change`, any `Mark*`) and publishes in a later step
(`Publish`); the cleaner changes it without publishing (`ChangeSilently`).
`events` is the channel of the page's subscription, `wire` what the SSE handler
has written, both of them counters, because every event says the same: ask
again. The page has a timer (`scheduleCardRefresh`), an interval (`Poll`) and
requests in `fetch`, each of which holds what `listTasks` copied for it until
`Deliver` shows it, in any order. `missed` is a monitor: the page shows something
old and could not know, because its stream was down, a request failed, an older
answer came last, or nobody published.

### `ProviderSettings`, `ResourceLimits`, `Submission`

`ProviderSettings` has the file, the format in memory, and the requests that
change them in the order of the code: check, save, switch (`switch[s].step`).
An environment is reduced to what decides: which format it names, whether it is
the older kind with the Anthropic package in `OPENCODE_PROVIDER_NPM`, and which
groups of variables are complete. `apart` is a monitor of the two ways in which
file and memory are known to part.

`ResourceLimits` is arithmetic: bytes of the host, MiB of a limit, divisions that
round down and floors. `Mib` is a constant, so that TLC can use small numbers
and the proof holds for `1 << 20`.

`Submission` extends both. `post[t]` is the handler of one `POST /api/tasks`,
`worker[w]` a worker as far as the start of the container, `stop` the stop
requests between their look at the record and `MarkStopped`. Unlike
`TaskService` it keeps the disk and the memory apart (`disk`, `mem`): a write
that fails may have replaced the file, and a restart reads the disk. `removed`
is what a removed directory held, which a power loss may bring back. A failing
call, or a power loss, is a mishap and counted. Runs end in one step, since
`TaskService` has the rest.

| Code | Actions |
| --- | --- |
| `createTask`, `prepareTaskDirs`, `saveUploadedFiles`, `os.RemoveAll` | `PostCheck`, `PostSave`, `PostSaveFails`, `PostUndo`, `PostUndoFails` |
| `Submit`, `Store.Add`, `enqueue`, `MarkFailed` | `PostSubmit`, `PostAdd`, `PostAddFails`, `PostEnqueue`, `PostFull`, `PostMarkFailed`, `PostMarkFailedFails` |
| `CloseTaskContainer` of a queued task | `StopGet`, `StopMark`, `StopMarkFails` |
| `worker`, `runTask`, `initialDockerRun`, `RunDockerTask` | `Pick`, `WorkerMarkRunning`, `WorkerMarkRunningFails`, `WorkerLaunch`, `WorkerName`, `WorkerNameFails`, `WorkerFinish` |
| `SetProviderFormat`, `saveProviderFormat` | `SwitchCheck`, `SwitchSave`, `SwitchSaveFails`, `SwitchMemory` |
| `NewService`, `loadProviderFormat`, `Load`, `MarkRecovered` | `Restart` with `LoadSettings`, `Recover`, `RecoverFails` |

## Runs

TLC with two workers finishes each of them in about two and a half minutes or less.

| Run | Instance | What it shows |
| --- | --- | --- |
| `service_stop` | 1 task, 2 workers, 2 messages, 1 stop request, timeouts, failing `docker rm` | types, no reservation is left behind, a running task has a worker, a cancel function belongs to a live run, whatever the interleaving of a stop with a run and its continuations |
| `service_continue` | 2 tasks, 2 workers, 2 messages, a queue of 1, timeouts, failing `docker run` and `exec` | one run per task, refused messages never run, accepted ones are held, the service implements `TaskLifecycle` |
| `service_restart` | 2 tasks, 2 workers, 1 message, a queue of 1, 1 crash, no timeout, stop or failing command | every queued task is on its way to a worker or was dropped by recovery, a record that can be continued has its container, a container nobody names belongs to a task that will run, `TaskLifecycle` across the restart |
| `service_live` | 2 tasks, 1 worker, 1 message, timeouts, shutdown with its grace period, failing write-up and `docker rm`, `FairSpec` | queued tasks are served, runs end, slots are freed, workers return |
| `cleaner` | 1 task, 1 worker, 1 message, timeouts, shutdown, failing `docker ps` and `docker rm`, fair | a container younger than the retention is never removed by the cleaner, a record whose container is gone is corrected, an expired container is reclaimed |
| `task_file` | 5 versions, 2 damages of 3 sorts, 2 failing calls, reads included | the last stored change survives, one damage costs one change and those before it that made no backup, a restart in which no call fails finds the task |
| `log_stream` | 2 pipes, 1 client, 4 lines, 2 archives, a limit of 2, 1 crash or failing rename | the files hold an end of what was written, only the oldest lines are dropped, files are bounded, unlocked reads are in order and whole when no rotation falls into them, live lines are logged and in order, a browser holds up nobody |
| `bridge` | 2 rounds, 3 blocks of output, both timeouts, fair | no OpenCode process is left, a text that was found is what the service finds in the log, whatever the write-up does and earlier rounds have logged, both parsers find the same flag, every round ends |
| `task_events` | 2 writers, 2 requests at a time, a channel and a wire of 1, 4 changes, fair | an old record on a page that was told of a change is about to be fetched again; a task that has settled is not shown as active for ever, whatever is lost |
| `submission` | 2 tasks, 1 worker, a queue of 1, 2 provider requests, 2 environments, 1 host, 1 mishap, 1 restart | a refused task never runs, an accepted one gets a configured provider, the chosen format survives, automatic limits leave room |
| `claim_*` | small instances of the same modules | the statement of the document or test fails, see below |

**Bounds.** The interesting cases need two actors on one task and a third that
takes the queue's place: two workers, two messages, one stop. `QueueCap` is a
constant because the code's `4 * workers` can only be filled by five or more
tasks; with one or two entries all the full-queue paths (429 for a task, 429
for a message, recovery without a place) occur with two tasks, and nothing in
the code depends on the number itself. `Rounds = 1` distinguishes first, continued and last
round. `MaxRestarts = 1` restarts from every reachable state. Tasks, workers
and messages are interchangeable in safety runs (`Sym`); the liveness runs use
no symmetry. Deadlock is not checked: requests are finitely many, and when they
are answered the system stops; what must not stop is stated as liveness.

`TaskFile` needs three changes to have a `before`, an `acked` and one in
progress; five leave room for two failures with changes between them, and two
failing calls for one in a change (without a backup, say) and one in the load
after the damage. In
`LogStream` a limit of two bytes with lines of one, two and three gives lines
that share a file, fill one, need a new one or exceed any; two archives are the least for which
one is shifted and one removed; four lines rotate twice. `Bridge` has two flags,
so that a wrong one can be told from the right one; three blocks of output for
the whole task, so that a text can be repeated or hold two markers and a later
call, or round, still has one; and `FinalCap = 4`, less than the longest text,
so that the cut of 12000 characters happens. Two rounds are the least in which
the log holds an older final text.

In `TaskEvents` a channel of one place drops the second event, two requests are
the least of which one overtakes the other, and four changes let a task settle,
start again and settle while both are under way. `Submission` needs two tasks to
race for a queue of one, two provider requests to cross, and one mishap because
`RefusedNeverRuns` is stated for at most one; the first environment completes
both profiles, the second names a format it does not complete, which is the only
way to a default that is not configured. The host is one whose memory
hardly exceeds the reserve and the smallest limit, and for which no division comes
out even; the theorem `LimitsAlwaysLeaveRoom` is about every host.
`Mib = 4` keeps the bytes within TLC's integers.

**Conditions.** `OneRunPerTask` and `RefinesLifecycle` are checked without stop
requests, `RetainedContainerExists` and `ContainerAccounted` without timeouts,
stops and failing commands: with them they fail, for the reasons given under the
observations. `FreshContainerKept` is checked without restarts, after which a
task may get a new container between the `docker inspect` and the `docker rm` of
its old one.

**Fairness.** Go schedules every runnable goroutine, so a worker or a handler
in the middle of its work is weakly fair. A `docker` command returns. An agent
need not exit, so `AgentExits` has no fairness: only `Deadline`, with a task
timeout configured, ends it. Clients need not send requests, and nothing forces
a crash. The cleaner is one more goroutine with a ticker. In `Bridge` the main
thread and the reader thread are weakly fair; `Timeout` is strongly fair because
the loop looks at the clock in every turn, between other steps, and a deadline
that has passed stays passed; OpenCode may hang, ignore everything but a kill,
or leave its output open, so nothing is assumed of it. In `TaskEvents` a
writer that has changed a record publishes it, the SSE handler and the page's
callbacks run, and a request may fail but not every time: `Sample` and `Deliver`
are strongly fair. Nothing is assumed of the stream: it may be down for ever,
and `SettledIsShown` rests on polling alone. `Submission` has no fairness, what
it says is safety; `LogStream` and `TaskFile`
have no fairness: that a slow browser holds up nobody is stated without it, as
`NeverHeldUp` (some goroutine on the way of a line can always take its next
step).

## What the claims show

* `claim_output` (`OutputIsLogged`, `ARCHITECTURE.md:33`):
  `runAgentInContainer` calls `cmd.Wait` before its readers have seen the end of
  the pipes, and `Wait` closes them. What the agent printed last, which is the
  final output with the flag, may never be read.
* `claim_flag` (`NoFlagInvented`, `flag-extraction.md:36`): the final text ends
  with the solved line. The bridge finds no flag; in the log the next line is
  its own `Final: opencode bridge completed`, which the service stores as the
  flag of a solved task.

### Observations

Met while modelling, without a run of their own:

* A stop reads the task as queued (`service.go:811`), a worker starts it, the
  stop marks the record without cancelling a run that is not registered yet, and
  the result overwrites it; or the stop comes between the two halves of
  `finishRun` (`service.go:622`). The task does not remain stopped as
  `store_test.go:902` has it.
* The cleaner copies the records and finds a failed one expired; the user
  continues the task; the cleaner removes the container under the run
  (`service.go:888`; `ARCHITECTURE.md:47` speaks of failed and orphan
  containers). `FreshContainerKept` shows that it is at least an old one.
* Recovery ignores a full queue (`service.go:101`): with one worker the queue
  holds four ids, and a fifth task to be recovered stays queued with nobody to
  run it, although `ARCHITECTURE.md:45` says such tasks are queued again.
  `QueuedTaskOwned` shows this is the only way (`dropped`).
* `Close` cancels the registered runs and then closes `done`
  (`service.go:108`); a run registered in between goes on until the forced
  removal (`ARCHITECTURE.md:46`: shutdown cancels all runs).
* A stop releases the slot of a continuation that a worker has taken and not yet
  started (`service.go:816`), so the next message is accepted and two
  continuations run in one container (`ARCHITECTURE.md:37`: at most one).
* A message is accepted after a look at the record (`service.go:470`); when a stop
  closes the container before a worker takes it, `runContinuation` returns
  without a word, and the user who was told that it was accepted hears no more of
  it.
* After the grace period `Close` removes the containers of the tasks that were
  running when it looked (`service.go:121`): one whose run has meanwhile ended and
  retained its container loses it, and the next process promises a continuation
  in it.
* A continuation that times out loses its container (`docker.go:209`) while its
  record keeps name, session and the retained flag, so the next message is
  accepted (`API.md:33`: only when the container is retained).
* A task that was refused for a full queue is stored as failed and forgotten as
  such after a restart: the lifecycle calls it `refused` until then.
* A solved task whose `docker rm` failed keeps its container for ever: the record
  names it, so the cleaner takes it for tracked, and it is not retained, so it is
  never due (`service.go:721`; `flag-extraction.md:36` says it is removed).
* `flag-extraction.md:39` says a task whose rounds are used up is `failed`; the
  code (`service.go:727`), `README.md:90` and `ARCHITECTURE.md:36` say
  `completed`.
* `DATA_MODEL.md:42` says a migration keeps a `.bak`; `readTask` writes the
  migrated record without one (`Accept`), so `TaskIsFound` and
  `DamageCostsOneChange` speak of tasks with two stored changes.
* A second damage costs more than one change: a change over a damaged
  `meta.json` leaves the older backup in place.
* A change over a `meta.json` that is JSON, but not the task's record, copies it
  over the last good backup, since `store.go:510` asks `json.Valid` and not what
  `readTask` asks (`ARCHITECTURE.md:43`, `DATA_MODEL.md:7`: the backup is the
  last *valid* metadata). Until the change is stored, and after the next damage,
  the task has no record left. `BackupSpared` in `DamageCostsOneChange` and
  `TaskIsFound` stands for this and nothing else.
* A change that cannot read `meta.json` makes no backup and reports nothing
  (`store.go:510`): damage after it costs that change and the one before, or
  everything if there is no older backup.
* A `meta.json` that is a record with another id or a later schema is refused
  without a look at the backup (`store.go:538-546`; `OPERATIONS.md:46` says that
  for damaged metadata the backup is tried).
* A single failing read while the store is loaded hides a task whose files are as
  they were (`store.go:521`, `store.go:527`) until the next start; `Load` reports
  nothing.
* The log is sent to a browser before it is subscribed (`websocket.go:47-56`): a
  line written in between reaches it by neither way, and one that is being
  published may come twice. Lines of the two pipes may be published in another
  order than they are stored.
* `log_size` is the size of the current and archived logs (`DATA_MODEL.md:21`),
  but does not shrink when an archive is dropped, and after a restart it counts
  `logs.txt` only (`store.go:560`).
* When OpenCode prints and exits between `queue.Empty` and `poll`
  (`bridge.py:722`), the loop ends with its last output unread.
* The service reads the text after the last final marker in the whole log. When a
  later round fails without one, what it showed as previews follows the older
  round's final text and is judged with it, although `flag-extraction.md:3` says
  previews are not judged.
* Two requests that change the provider may cross (one saves between the save
  and the switch of the other), after which file and memory differ until the
  next change or restart. A request answered with an error may still have
  replaced the file, since the directory is synced after the rename, and
  decides the format after a restart. `apart` in `SelectionSurvives` stands for
  these two and nothing else.
* A format named by the environment wins over the one chosen in the UI at every
  start (`service.go:227`).
* Recovered tasks are run without a look at the provider: if the environment
  completes none, their containers start with an empty one. `RunHasProvider` is
  therefore about tasks accepted by this process. A continuation uses the
  provider of its moment in the session of the older one.
* A stop of a queued task whose submission has just been refused brings its
  `meta.json` back after the removal (`MkdirAll` in `writeTask`): the task is
  then on disk as failed.
* The directory of a new task is never synced in its parent, so a power loss may
  lose a task that was answered with 202.
* With several workers each container gets the limits of the whole host less one
  reserve, so that together they exceed it, while `DEVELOPMENT.md:39` says a
  task has the host but for a CPU and 1 GiB to itself. When `docker info` fails
  the limits are 4 GiB and 2 CPUs on any host; on a host with less than 1.5 GiB
  the floor of 512 MiB eats into the reserve.
* The page fetches the list and then opens its stream, and it does not listen to
  `ready`: a change between the two, or while the stream is down, is shown only
  with the next event, or by polling if the page shows an active task. Of two
  overlapping requests the older answer may come last. The cleaner's correction
  of a record is not published (`service.go:885`; `API.md:37`: a notice of task
  changes).
* A blank line after the solved marker makes the Go parser give up and the
  Python one look for the next marker; a final text of more than 12000
  characters is cut at its beginning, which may be where the marker is.

## Proofs

The proofs hold for any sets of tasks, workers, messages and stop requests, any
queue capacity and any fault set, from the assumptions named `*Assumption` in
`TaskService` (the "none" values are no members of the sets, the numbers are
numbers), and, for `TaskFile`, for any number of changes, damages and failing calls.

* `TypeCorrect` (`TaskServiceProofs`): `Spec => []TypeOK`. `TypeOK` is inductive
  as it stands; its four conjuncts are proved action by action.
* `RegistryStaysLive`, `RunningTasksOwned` (`TaskServiceProofs`): `RegistryLive` and
  `RunningTaskOwned` are inductive together with `TypeOK` and what they say of a
  worker's local state: a registered run is the run of that worker, a running
  record has a worker between `MarkRunning` and the stored outcome. The case
  that is easy to lose is `clearTaskCancel`, which deletes another run's entry:
  it can only make `runs` smaller.
* `ReservationsNotLeaked` (`TaskServiceProofs`): `SlotInv` adds to
  `NoLeakedReservation` that a waiting message has a busy slot and that a
  reserving handler's slot is the one it took, needed because a stop may release
  the slot under the handler.
* `QueuedTasksOwned` (`TaskServiceProofs`): `QueueInv` adds two things to
  `QueuedTaskOwned`. A queued task's worker would lose it by taking a message for
  it, so messages must be about tasks that have begun, and since recovery turns
  `running` into `queued` again, no message may exist before the last recovery
  (`MessageInv`, which rests on the handlers being served only then). And a step
  that stores a record must not make a queued one out of nothing, so whatever
  works on a task works on a record that exists (`PresentInv`). The steps of a
  worker are proved to keep its own task (`OwnKept`), those of a handler to keep
  the records and the queue (`ClientQueueInv`); pop, the taking of a message,
  recovery, the end of the process and its restart are lemmas of their own.
* `OneRunForEachTask`, `RefusedMessagesNotRun`, `AcceptedMessagesHeld`
  (`TaskLifecycleProofs`): the three invariants that a stop request can break hold in
  every state before the first one (`Unstopped`), in any configuration. Their
  inductive invariant `LeadInv` says that a task is *led* to its next run by one
  thing at a time: the handler submitting it, one queue entry, one worker from
  `Pop` to the stored outcome (to the release of the slot, with a message), a
  reserving handler, or the recovery (`OneLead`); and what the record must say
  in each of these cases (`TaskFits`, `WorkerFits`, `SenderFits`). The delicate
  part is `SendTaskMessage`: it looks at the record long before it reserves, so a
  continuation may begin in between, but no first run can, and what it reserves
  is then free of every other lead because the busy slot outlives the
  continuation. `MessagesHeld` adds what an accepted message needs.
* `ServiceRefinesLifecycle` (`TaskLifecycleProofs`): without stop requests the
  service implements `TaskLifecycle`, step by step under the refinement mapping
  `LifeStatus`, `LifeOpen`. `OpenInv` adds to `LeadInv` that a continuable record
  does not change under the worker that has found it continuable
  (`ContinuesOpen`), so that `BeginRun` really is `Start` or `Continue`, and
  that flags go with `solved` (`RecordFits`), so that a restart, which puts a
  flag before the status, changes nothing but running tasks.
* `RetainedContainersExist`, `ContainersAccounted` (`TaskLifecycleProofs`): the
  record and Docker agree, for any number of crashes and any failing commands,
  before the first stop request and if no timeout or shutdown cancels a run.
  `PlaceInv` follows the container through a run: it exists from `docker run` to
  the stored outcome and is named from the sink on (`RunPlace`), and a running
  record with a name has it, which is what recovery relies on when it retains
  the container of an interrupted run (`RecordPlace`). The second theorem
  excludes a failing `docker run`, after which a container may stay behind
  without a name.
* `FreshContainersKept`, `ExpiredContainersAreOld`, `OrphansAreOld`,
  `CleanerKeepsService`, `CleanerTypes` (`ContainerCleanerProofs`): the cleaner
  decides on a list of containers and a later list of records, both of which may
  be as old as they like when it removes something, and the clock is external, so
  any container and any record may come of age at any moment. What makes the
  lists good enough is the course of a task, and `StageInv` says it: a task is
  `Past` its first run, which has started its container or never will, or that
  run is still ahead (`First`: nothing retained, no outcome, no message, and one
  submission, recovery, queue entry or worker that leads it). Every step but a
  restart takes a task from the one to the other and never back
  (`NextAdvances`); only a `docker run` makes a container (`NewContainers`), so
  the container of a `Past` task does not become younger (`OldStays`); only the
  result of a run, or the recovery of an interrupted one, retains a container
  (`RecordKeeps`), so a record with a retained container is of a `Past` task, and
  if it was finished a retention time ago its container is older still, or a
  continuation holds it, or a stop has closed it (`ExpiredInv`). `CleanerInv` adds
  that what the cleaner has chosen is `Past`, and old where it is due. This part
  holds through any number of restarts: `ExpiredContainersAreOld` has no
  condition. An orphan is chosen by its own age and not by a record's, and a
  restart may recover its task and give it a new container between the two
  commands; `OrphanInv`, and with it `OrphansAreOld`, speaks of the time before
  the first restart, and `FreshContainersKept` puts both together for a service
  that is not restarted (`MaxRestarts = 0`), which is the condition the run has
  too. `CleanerKeepsService` shows that the service keeps what
  `TaskServiceProofs` proves of it when the cleaner's `MarkContainerClosed`
  changes records between its steps (`ClosedByCleaner`).
* `StoredChangesSurvive`, `DamageIsBounded`, `RestartFindsTask` (`TaskFileProofs`)
  follow from one inductive invariant, `FileInv`. Its parts: versions are given
  out in order, and neither name can come to hold one from the future (`Order`);
  what a running operation is about to write (`OpOK`); what the two names hold
  now, or after a power loss, while nobody has touched `meta.json` (`Untouched`)
  and after one damage (`TouchedOnce`): nothing older than `acked` in
  `meta.json` (`AllFrom`), or no record older than `before` in the backup
  (`Kept`, which with `BackupSpared` means that there is one); and that a name that
  has held a stored record never comes to hold nothing, nor the backup a part of
  one (`Present`). All of them bound `AfterPowerLoss` rather than `file`, because
  a power loss is only harmless if every content it may bring back is. Each
  action is one lemma. `RestartFindsTask` follows a load to its end, through the
  repair and the migration: a load in which no call fails leaves the record in
  memory. Failing calls are not excluded before it, in particular the read without
  which a change makes no backup: `before` does not count such a change.
* `TheLogIsATail`, `OnlyTheOldestIsDropped`, `TheLogIsBounded`,
  `TheLogIsReadInOrder`, `TheLogIsReadWhole`, `LiveLinesAreLogged`
  (`LogStreamProofs`) hold for any number of pipes, clients, archives and lines,
  any sizes and any number of mishaps. The inductive invariant `Inv` speaks of
  *cuts*: there are numbers `cut[0] = Len(written) >= cut[1] >= ...` such that
  file `i` holds the lines from `cut[i + 1]` to `cut[i]` (`CutInv`). Every rename
  raises one cut (`Raised`), because its place is empty (`RotateInv`), a write
  raises the first, and a mishap none. One and the same choice of cuts carries
  two more facts: without a mishap only the place a rotation has just emptied is
  empty below a file in use (`HoleInv`), and what a client has read lies behind
  the cut of the file it reads next, reaching up to it if no rotation has come in
  between (`ReadInv`); that the cuts only rise is why an unlocked reader sees no
  line twice. The order of the live lines rests on the numbers of the lines:
  those of one goroutine rise in the log, in its hands and in its pipe
  (`OrderInv`), so `written` has no line twice and a line has a position in it;
  whatever a client has seen of a goroutine is older than the line it is about to
  publish (`PublishInv`). `Bytes` is a recursive function, and the module proves
  from the well-foundedness of `Nat` what it returns (`BytesAdded`), and in the
  same way what the flattened files are (`StoredIs`).
* `OldRecordIsRefreshed` (`TaskEventsProofs`): `RefreshComing` for any numbers of
  writers, requests and places in the channel. Inductive together with the fact
  that no version in a request or on the page is newer than the record, so that
  an answer that is not older than the page and is not the record of now still
  leaves something due.
* `AutoLeavesRoom` (`SubmissionProofs`): the limits leave the reserve for every
  host that is large enough; its lemmas are the two facts about division the
  provers need. `LimitsAlwaysLeaveRoom` carries it over to the containers.
* `RefusedTasksNeverRun`, `AcceptedRunsHaveProvider`, `ChosenFormatSurvives`
  (`SubmissionProofs`) follow from one inductive invariant, `Inv`, for any
  environments, hosts, tasks, workers and requests. Its parts: what requests in
  the middle of a change leave in the file and in the memory (`SavedInv`,
  `ProviderInv`); who may hold a task that is on its way to be refused: nobody, be
  it the queue, a worker or a recovery, unless a call has failed (`OwnerInv`); and
  what the disk, or a removed directory, may hold of such a task (`DiskInv`), which
  is what a restart would find.
* `NoProcessIsLeft`, `TextsAreShown`, `SolvedFlagsAreStored` (`BridgeProofs`) hold
  for any flags, blocks, rounds and timeouts. The inductive invariant `Inv` says
  where a text may be kept at all (during a write-up and in what follows it), and
  that a round about to exit with 0 has just shown its text (`RoundInv`).
  `LatestIsShown` is the lemma behind it: whatever the log of the earlier rounds
  holds, the text the service finds in it is the one shown last. Markers are
  looked for with `Least`, so the proof needs that a set of numbers has a least
  member, which is instantiated from the library's well-foundedness of `Nat`
  (`NatWellOrdered`), not from an induction theorem.

The conditions in the theorems of `TaskLifecycleProofs` are not a convenience:
with a stop request, a timed-out continuation or a failing `docker run` TLC finds
the properties violated, in the ways listed under the observations.

Only model-checked: `NeverHeldUp`, which is about `ENABLED`, and all liveness
properties; neither is within the prover's reach.

## Plan

Done: the task service with its lifecycle, the cleaner, the task file, the log,
the bridge, the page with its events, the provider settings, the limits and the
submission, their runs, and the proofs above, which cover every safety property
of the runs but `NeverHeldUp`. Left: the diagnostics cache of the page and the
upload's temporary files, if they come to hold state worth a property.

## Not modelled

Request parsing, authentication and rendering (`router.go`, `web/`): they keep no
state between requests beyond what `TaskEvents` has of the page; an upload is one
step of `Submission` that succeeds or fails. Configuration parsing: only the
provider profiles (`ProviderSettings`) and the limits (`ResourceLimits`) are
modelled, the rest are values read once. Diagnostics and the storage report read
and change nothing. The text of logs and prompts, the fake provider (a test
double) and the scripts are not modelled.
