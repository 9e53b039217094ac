--------------------------- MODULE ResourceLimits ----------------------------
(***************************************************************************)
(* The memory and CPU limits of a container (docker.go:280-329).  Memory   *)
(* is in bytes where Docker reports it and in MiB where it is a limit.     *)
(***************************************************************************)
EXTENDS Naturals

CONSTANTS
    Mib,        \* bytes in a MiB: 1<<20 in the code
    Automatic,       \* the setting "auto"
    NoInfo      \* "docker info" failed, or its answer cannot be read

Host == [cpus : Nat, bytes : Nat]

ASSUME MibAssumption == Mib \in Nat \ {0} /\ NoInfo \notin Host

MinimumReserve == 1024 * Mib

(* Mutant: only a tenth is left. *)
ReserveTenth(bytes) == bytes \div 10

(* A tenth of the host, and not less than 1 GiB, is left to everything else. *)
Reserve(bytes) ==
    IF bytes \div 10 < MinimumReserve THEN MinimumReserve ELSE bytes \div 10

(* (memoryBytes - reserve) / mib, with its floor of 512: a division of Go
   rounds to zero, so a reserve larger than the host gives no positive number. *)
UsableMib(bytes) ==
    LET mib == IF bytes < Reserve(bytes) THEN 0
               ELSE (bytes - Reserve(bytes)) \div Mib
    IN IF mib < 512 THEN 512 ELSE mib

AutoDockerResourceLimits(host) ==
    [memory |-> (UsableMib(host.bytes) \div 64) * 64,
     cpus |-> IF host.cpus < 2 THEN 1 ELSE host.cpus - 1]

DefaultLimits == [memory |-> 4096, cpus |-> 2]

(* A setting that is not "auto" is used as it is; the host is asked only when
   one of them is. *)
ResolveDockerResourceLimits(memory, cpus, info) ==
    LET auto == IF info = NoInfo THEN DefaultLimits
                ELSE AutoDockerResourceLimits(info)
    IN [memory |-> IF memory = Automatic THEN auto.memory ELSE memory,
        cpus |-> IF cpus = Automatic THEN auto.cpus ELSE cpus]

-----------------------------------------------------------------------------
(* The host is large enough for the smallest limit beside the reserve. *)
LargeEnough(host) == host.cpus >= 2 /\ host.bytes >= MinimumReserve + 512 * Mib

(* What DEVELOPMENT.md:39 promises of "auto": a CPU and 1 GiB are left over. *)
LeavesRoom(limits, host) ==
    /\ limits.memory * Mib + MinimumReserve <= host.bytes
    /\ limits.cpus + 1 <= host.cpus
=============================================================================
