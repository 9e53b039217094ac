----------------------------- MODULE TaskRecord -----------------------------
(***************************************************************************)
(* The persisted task record (model.go) and the mutations the store        *)
(* applies to it under its lock (store.go).  Every Mark* operator is the   *)
(* function that Store.update runs on a private copy of the record; it     *)
(* takes the old record to the new one.                                    *)
(*                                                                         *)
(* Abstracted data: timestamps, names, exit codes and messages are left    *)
(* out.  A container is always called "ctf-agent-" + task id, so "named"   *)
(* (ContainerName # "") is all there is to know of it; "session" and       *)
(* "flag" say that the field is set; of LastStep only the two texts that   *)
(* taskWasStopped compares with are told apart.                            *)
(***************************************************************************)

Status == {"absent", "queued", "running", "completed", "solved", "failed"}

Steps == {"other", "closed", "stopped"}

Record == [status: Status, named: BOOLEAN, kept: BOOLEAN, session: BOOLEAN,
           flag: BOOLEAN, step: Steps]

(* The store has no entry for the task. *)
NoRecord == [status |-> "absent", named |-> FALSE, kept |-> FALSE,
             session |-> FALSE, flag |-> FALSE, step |-> "other"]

(* What createTask hands to Store.Add. *)
NewRecord == [NoRecord EXCEPT !.status = "queued"]

-----------------------------------------------------------------------------

MarkRunning(r) == [r EXCEPT !.status = "running", !.step = "other"]

(* Mutant: the name of the new container is not stored. *)
MarkRuntimeContainerUnnamed(r) == r

MarkRuntimeContainer(r) == [r EXCEPT !.named = TRUE]

MarkOpenCodeSession(r) == [r EXCEPT !.session = TRUE]

(* A round that ended with exit code 0 and no flag. *)
MarkCompleted(r, keep) ==
    [r EXCEPT !.status = "completed", !.flag = FALSE, !.step = "other",
              !.named = TRUE, !.kept = keep]

(* The result of a run that was not a clean, flagless exit: solved when a  *)
(* flag came with it, failed otherwise.                                    *)
MarkFinished(r, hasFlag, keep) ==
    [r EXCEPT !.status = IF hasFlag THEN "solved" ELSE "failed",
              !.flag = hasFlag, !.step = "other",
              !.named = TRUE, !.kept = keep]

(* Only the status, the error and the step change: the container fields    *)
(* and the session stay as they were.                                      *)
MarkFailed(r) == [r EXCEPT !.status = "failed", !.step = "other"]

MarkContainerClosed(r) ==
    [r EXCEPT !.kept = FALSE, !.named = FALSE, !.session = FALSE,
              !.step = "closed",
              !.status = IF @ \in {"running", "queued"} THEN "failed" ELSE @]

MarkStopped(r) ==
    [r EXCEPT !.status = "failed", !.step = "stopped",
              !.kept = FALSE, !.named = FALSE, !.session = FALSE]

(* ClearResultData: the flag and the write-up of a solved task are erased. *)
ClearResult(r) == [r EXCEPT !.flag = FALSE,
                            !.status = IF r.status = "solved" THEN "completed" ELSE @]

MarkRecovered(r) ==
    IF r.status = "running"
    THEN [r EXCEPT !.status = "queued", !.kept = FALSE, !.named = FALSE,
                   !.session = FALSE]
    ELSE r

MarkInterruptedContainerRetained(r) ==
    [r EXCEPT !.status = "failed", !.step = "other", !.kept = TRUE]

-----------------------------------------------------------------------------

(* readTask: a flag on disk wins over the status beside it. *)
Loaded(r) ==
    IF r.flag /\ r.status # "solved"
    THEN [r EXCEPT !.status = "solved", !.kept = FALSE]
    ELSE r

(* RecoverableIDs: the records the service queues again at startup. *)
Recoverable(r) == r.status = "queued" \/ (r.status = "running" /\ ~r.named)

(* Mutant: the status is not looked at. *)
WasStoppedAnyStatus(r) == ~r.named

(* taskWasStopped: how a worker learns that the user stopped its task. *)
WasStopped(r) == r.status = "failed" /\ ~r.named /\ r.step \in {"closed", "stopped"}

(* Mutant: the container need not be retained. *)
CanContinueUnkept(r) == /\ r.status \notin {"absent", "queued", "running"}
                        /\ r.named /\ r.session

(* The test of SendTaskMessage, repeated by runContinuation. *)
CanContinue(r) == /\ r.status \notin {"absent", "queued", "running"}
                  /\ r.kept /\ r.named /\ r.session

(* The test of Service.CloseTaskContainer on a task that was not queued. *)
Closable(r) == r.named /\ (r.kept \/ r.status = "running")
=============================================================================
