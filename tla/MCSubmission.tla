---------------------------- MODULE MCSubmission -----------------------------
(* A small instance of submission, provider settings and restarts for TLC. *)
EXTENDS Submission, TLC

Symmetry == Permutations(Tasks) \cup Permutations(Switchers)

(* Both providers, from the generic variables and the Anthropic package; and an
   override without a profile, so that the default is not configured. *)
MCEnvironments ==
    {[override |-> NoFormat, legacy |-> TRUE, groups |-> {"generic"}],
     [override |-> Anthropic, legacy |-> FALSE, groups |-> {OpenAI}]}

(* A host little larger than it has to be, of which a tenth is less than 1 GiB
   and nothing is a multiple of anything; LimitsAlwaysLeaveRoom is about all. *)
MCHosts == {[cpus |-> 3, bytes |-> 1601 * Mib + 3]}
=============================================================================
