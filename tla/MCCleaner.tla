----------------------------- MODULE MCCleaner -------------------------------
(* Small instances of the task service with its retention cleaner. *)
EXTENDS ContainerCleaner

CONSTANTS t1, t2, w1, w2, s1, s2, c1
=============================================================================
