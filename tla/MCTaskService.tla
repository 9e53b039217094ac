---------------------------- MODULE MCTaskService ----------------------------
(* Small instances of the task service for TLC. *)
EXTENDS TaskProperties, TLC

CONSTANTS t1, t2, w1, w2, s1, s2, c1

(* Workers, senders and tasks are interchangeable. *)
Sym == Permutations(Tasks) \cup Permutations(Workers) \cup Permutations(Senders)
=============================================================================
