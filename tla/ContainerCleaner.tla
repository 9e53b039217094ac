-------------------------- MODULE ContainerCleaner --------------------------
(***************************************************************************)
(* The retention cleaner, a goroutine that compares the records with       *)
(* "docker ps" at startup and then every hour (retentionCleaner and        *)
(* cleanupExpiredContainers in service.go), composed with the task         *)
(* service.  Its decisions come from two snapshots that the service does   *)
(* not wait for.  The retention time is positive: with zero the cleaner    *)
(* does nothing.                                                           *)
(***************************************************************************)
EXTENDS TaskProperties

VARIABLES
    cleaner,  \* program counter and locals of the cleaner
    aged,     \* tasks whose container was created a retention time ago
    expired   \* tasks whose record was finished a retention time ago

cleanerVars == <<cleaner, aged, expired>>
allVars == <<vars, cleanerVars>>

(* ps: the names docker ps returned; gone, due, orphans: what is left to   *)
(* do of the two loops; at: the task whose container is being removed.     *)
CleanerPcs == {"ps", "list", "scan", "mark", "orphans", "rm", "wait", "exited"}
CleanerState == [pc: CleanerPcs, ps: SUBSET Tasks, gone: SUBSET Tasks, due: SUBSET Tasks,
                 orphans: SUBSET Tasks, at: Tasks \cup {NoTask}]
NewCleaner == [pc |-> "ps", ps |-> {}, gone |-> {}, due |-> {}, orphans |-> {}, at |-> NoTask]
Waiting == [NewCleaner EXCEPT !.pc = "wait"]

-----------------------------------------------------------------------------
(* cleanupExpiredContainers *)

(* ListDockerContainers *)
CleanPs ==
    /\ cleaner.pc = "ps"
    /\ cleaner' = [cleaner EXCEPT !.pc = "list", !.ps = containers]
    /\ UNCHANGED <<vars, aged, expired>>

CleanPsFails ==
    /\ cleaner.pc = "ps" /\ "ps" \in Faults
    /\ cleaner' = Waiting
    /\ UNCHANGED <<vars, aged, expired>>

(* Mutants: only failed tasks are due; records without a container are     *)
(* left alone.                                                             *)
DueFailedOnly(t, ps) == task[t].kept /\ t \in ps /\ task[t].status = "failed" /\ t \in expired
GoneNever(t, ps) == FALSE

Gone(t, ps) == task[t].kept /\ t \notin ps
Due(t, ps) == task[t].kept /\ t \in ps /\ task[t].status # "running" /\ t \in expired

(* store.List and the tests of both loops on the copies it returns. *)
CleanList ==
    LET ps == cleaner.ps
        named == {t \in Tasks : task[t].named} IN
    /\ cleaner.pc = "list"
    /\ cleaner' = [cleaner EXCEPT !.pc = "scan",
                                  !.gone = {t \in named : Gone(t, ps)},
                                  !.due = {t \in named : Due(t, ps)},
                                  !.orphans = ps \ named]
    /\ UNCHANGED <<vars, aged, expired>>

CleanGone(t) ==
    /\ cleaner.pc = "scan" /\ t \in cleaner.gone
    /\ Update(t, MarkContainerClosed(task[t]))
    /\ cleaner' = [cleaner EXCEPT !.gone = @ \ {t}]
    /\ UNCHANGED <<containers, slotVars, runs, worker, clientVars, procVars, aged, expired>>

CleanExpired(t) ==
    /\ cleaner.pc = "scan" /\ t \in cleaner.due
    /\ containers' = containers \ {t}
    /\ aged' = aged \ {t}
    /\ cleaner' = [cleaner EXCEPT !.pc = "mark", !.due = @ \ {t}, !.at = t]
    /\ UNCHANGED <<task, slotVars, runs, worker, clientVars, procVars, expired>>

CleanExpiredFails(t) ==
    /\ cleaner.pc = "scan" /\ t \in cleaner.due /\ "rm" \in Faults
    /\ cleaner' = [cleaner EXCEPT !.due = @ \ {t}]
    /\ UNCHANGED <<vars, aged, expired>>

CleanMark ==
    LET t == cleaner.at IN
    /\ cleaner.pc = "mark"
    /\ Update(t, MarkContainerClosed(task[t]))
    /\ cleaner' = [cleaner EXCEPT !.pc = "scan", !.at = NoTask]
    /\ UNCHANGED <<containers, slotVars, runs, worker, clientVars, procVars, aged, expired>>

CleanOrphans ==
    /\ cleaner.pc = "scan" /\ cleaner.gone = {} /\ cleaner.due = {}
    /\ cleaner' = [cleaner EXCEPT !.pc = "orphans"]
    /\ UNCHANGED <<vars, aged, expired>>

(* Mutant: an orphan is removed whatever its age. *)
CleanInspectAnyAge(t) ==
    /\ cleaner.pc = "orphans" /\ t \in cleaner.orphans
    /\ cleaner' = [cleaner EXCEPT !.orphans = @ \ {t},
                                  !.pc = IF t \in containers THEN "rm" ELSE "orphans",
                                  !.at = IF t \in containers THEN t ELSE NoTask]
    /\ UNCHANGED <<vars, aged, expired>>

(* DockerContainerCreatedAt *)
CleanInspect(t) ==
    LET old == t \in containers /\ t \in aged IN
    /\ cleaner.pc = "orphans" /\ t \in cleaner.orphans
    /\ cleaner' = [cleaner EXCEPT !.orphans = @ \ {t},
                                  !.pc = IF old THEN "rm" ELSE "orphans",
                                  !.at = IF old THEN t ELSE NoTask]
    /\ UNCHANGED <<vars, aged, expired>>

CleanOrphan ==
    /\ cleaner.pc = "rm"
    /\ \/ containers' = containers \ {cleaner.at} /\ aged' = aged \ {cleaner.at}
       \/ "rm" \in Faults /\ UNCHANGED <<containers, aged>>
    /\ cleaner' = [cleaner EXCEPT !.pc = "orphans", !.at = NoTask]
    /\ UNCHANGED <<task, slotVars, runs, worker, clientVars, procVars, expired>>

CleanFinished ==
    /\ cleaner.pc = "orphans" /\ cleaner.orphans = {}
    /\ cleaner' = Waiting
    /\ UNCHANGED <<vars, aged, expired>>

(* The hourly ticker, and the end of the goroutine. *)
Tick ==
    /\ cleaner.pc = "wait"
    /\ cleaner' = NewCleaner
    /\ UNCHANGED <<vars, aged, expired>>

CleanerExit ==
    /\ cleaner.pc = "wait" /\ Done
    /\ cleaner' = [cleaner EXCEPT !.pc = "exited"]
    /\ UNCHANGED <<vars, aged, expired>>

-----------------------------------------------------------------------------
(* Time passes.  A record is finished after its container was created.     *)

ContainerAges(t) ==
    /\ t \in containers \ aged
    /\ aged' = aged \cup {t}
    /\ UNCHANGED <<vars, cleaner, expired>>

RecordExpires(t) ==
    /\ task[t].status # "absent" /\ t \notin expired
    /\ t \in containers => t \in aged
    /\ expired' = expired \cup {t}
    /\ UNCHANGED <<vars, cleaner, aged>>

-----------------------------------------------------------------------------
(* Steps of the service.                                                   *)

Settled(r) == r.status \in {"completed", "solved", "failed"}

(* FinishedAt is set: an outcome, or a stop, has been stored. *)
Finishes(r, s) ==
    /\ Settled(s)
    /\ r.status # s.status \/ (r.step # s.step /\ s.step # "closed")

(* docker rm -f and docker run: the container of t is a new one. *)
Recreated(t) == \E w \in Workers : /\ worker[w].task = t
                                   /\ worker[w].pc = "start" /\ worker'[w].pc = "sink"

(* A crash or a shutdown ends the cleaner too, and NewService starts it    *)
(* with a cleanup.  Close waits for the cleaner as it does for workers.    *)
ServiceStep ==
    /\ Next
    /\ aged' = {t \in aged \cap containers' : ~Recreated(t)}
    /\ expired' = {t \in expired : ~Finishes(task[t], task'[t])}
    /\ cleaner' = IF restarts' # restarts THEN NewCleaner
                  ELSE IF phase # "exited" /\ phase' = "exited"
                  THEN [Waiting EXCEPT !.pc = "exited"] ELSE cleaner
    /\ phase = "closed" /\ phase' = "exited" => cleaner.pc = "exited"

CleanerStep ==
    \/ CleanPs \/ CleanPsFails \/ CleanList \/ CleanMark
    \/ \E t \in Tasks : CleanGone(t) \/ CleanExpired(t) \/ CleanExpiredFails(t) \/ CleanInspect(t)
    \/ CleanOrphans \/ CleanOrphan \/ CleanFinished \/ Tick \/ CleanerExit

CleanerInit == Init /\ cleaner = NewCleaner /\ aged = {} /\ expired = {}

CleanerNext ==
    \/ ServiceStep
    \/ CleanerStep
    \/ \E t \in Tasks : ContainerAges(t) \/ RecordExpires(t)

CleanerSpec == CleanerInit /\ [][CleanerNext]_allVars

(* The service's fairness; the ticker ticks; Docker fails only for a time, *)
(* so a docker ps and a docker rm that are tried every hour succeed some   *)
(* day.                                                                    *)
CleanerFairness ==
    /\ \A w \in Workers : WF_allVars(ServiceStep /\ WorkerProgress(w))
                          /\ WF_allVars(ServiceStep /\ Deadline(w))
    /\ WF_allVars(CleanerStep)
    /\ SF_allVars(CleanPs)
    /\ \A t \in Tasks : SF_allVars(CleanExpired(t))

FairCleanerSpec == CleanerSpec /\ CleanerFairness

-----------------------------------------------------------------------------
(* However old its snapshots are, the cleaner never removes a container    *)
(* that was created less than a retention time ago.  Without restarts,     *)
(* after which a task may get a new container between the docker inspect   *)
(* and the docker rm of its old one.                                       *)
FreshContainerKept ==
    [][\A t \in Tasks : CleanExpired(t) \/ (CleanOrphan /\ cleaner.at = t)
                        => (t \in containers => t \in aged)]_allVars

(* A record that still offers a container that is gone, after a timed-out  *)
(* continuation, a removal by hand or a crash, is corrected: the cleaner   *)
(* finds it even if a continuation keeps it busy in between.               *)
RecordsReconciled ==
    \A t \in Tasks : task[t].kept /\ t \notin containers ~> ~task[t].kept \/ Done

(* A retained container does not stay for ever, whatever became of its     *)
(* task: it is removed, or the task is continued.                          *)
ExpiredReclaimed ==
    \A t \in Tasks : task[t].kept /\ t \in containers \cap expired
                        ~> ~task[t].kept \/ t \notin containers \cap expired \/ Done

=============================================================================
