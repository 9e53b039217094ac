----------------------------- MODULE MCLogStream -----------------------------
(* A small instance of a task's log: a limit of two bytes, lines that share *)
(* a file, fill one, need a new one, or exceed any.                        *)
EXTENDS LogStream

MCSizes == <<{1, 2, 3}, {1}, {2}, {2}>>
Sym == Permutations(Pipes)
=============================================================================
