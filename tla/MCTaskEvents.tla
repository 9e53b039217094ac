---------------------------- MODULE MCTaskEvents -----------------------------
(* A small instance of the event stream and one page for TLC. *)
EXTENDS TaskEvents
=============================================================================
