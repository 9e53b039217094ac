---------------------------- MODULE TaskLifecycle ----------------------------
(***************************************************************************)
(* What the service promises about one task at a time: the status diagram  *)
(* of docs/DATA_MODEL.md, with the manual continuation of a settled task   *)
(* and the restart of the process added from the code.                     *)
(*                                                                         *)
(* "open" says that a continuation would be accepted: the container was    *)
(* kept and the agent's session is known.  It is settled together with the *)
(* outcome of a run and is lost when a task is solved.                     *)
(***************************************************************************)
CONSTANT Tasks

VARIABLES status, open

vars == <<status, open>>

Outcomes == {"completed", "solved", "failed"}

Init == /\ status = [t \in Tasks |-> "absent"]
        /\ open = [t \in Tasks |-> FALSE]

Submit(t) == /\ status[t] = "absent"
             /\ status' = [status EXCEPT ![t] = "queued"]
             /\ UNCHANGED open

(* A refused task stays visible, as failed, until the next restart. *)
Refuse(t) == /\ status[t] = "queued"
             /\ status' = [status EXCEPT ![t] = "refused"]
             /\ UNCHANGED open

Start(t) == /\ status[t] = "queued"
            /\ status' = [status EXCEPT ![t] = "running"]
            /\ UNCHANGED open

Continue(t) == /\ status[t] \in {"completed", "failed"} /\ open[t]
               /\ status' = [status EXCEPT ![t] = "running"]
               /\ UNCHANGED open

(* A run finds its session or loses its container. *)
Work(t) == /\ status[t] = "running"
           /\ \E o \in BOOLEAN : open' = [open EXCEPT ![t] = o]
           /\ UNCHANGED status

Finish(t, outcome) ==
    /\ status[t] = "running"
    /\ status' = [status EXCEPT ![t] = outcome]
    /\ \E o \in BOOLEAN : /\ outcome = "solved" => ~o
                          /\ open' = [open EXCEPT ![t] = o]

(* Clearing the results takes the flags back. *)
Clear == /\ status' = [t \in Tasks |-> IF status[t] = "solved" THEN "completed" ELSE status[t]]
         /\ UNCHANGED open

(* The process restarts: what was running has failed with its container    *)
(* kept, or still has to be queued again, and what was refused may be      *)
(* forgotten; nothing else changes.                                        *)
Restart ==
    \E f \in [Tasks -> {"running", "failed"}], r \in [Tasks -> {"refused", "absent"}],
       o \in [Tasks -> BOOLEAN] :
        /\ status' = [t \in Tasks |-> CASE status[t] = "running" -> f[t]
                                         [] status[t] = "refused" -> r[t]
                                         [] OTHER -> status[t]]
        /\ open' = [t \in Tasks |-> IF status[t] = "running" THEN o[t] ELSE open[t]]

(* A task that was running without a container is queued again. *)
Requeue(t) == /\ status[t] = "running"
              /\ status' = [status EXCEPT ![t] = "queued"]
              /\ open' = [open EXCEPT ![t] = FALSE]

Next == \/ \E t \in Tasks : \/ Submit(t) \/ Refuse(t) \/ Start(t) \/ Continue(t)
                            \/ Work(t) \/ Requeue(t)
                            \/ \E outcome \in Outcomes : Finish(t, outcome)
        \/ Clear \/ Restart

Spec == Init /\ [][Next]_vars
=============================================================================
