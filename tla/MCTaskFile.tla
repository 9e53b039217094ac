----------------------------- MODULE MCTaskFile ------------------------------
(* A small instance of the file of one task. *)
EXTENDS TaskFile
=============================================================================
