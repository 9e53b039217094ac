------------------------------ MODULE TaskFile ------------------------------
(***************************************************************************)
(* How one task record is kept in meta.json (writeTask and readTask of     *)
(* store.go over atomicWriteFile): the copy in memory, the file, its       *)
(* backup, and the steps of a replacement, each of which may fail or be    *)
(* the last one before the process is killed or the machine loses power.   *)
(*                                                                         *)
(* A record is its version number: 0 is one without a schema version, left *)
(* by an older program that kept no backup, and every change makes the     *)
(* next number.  What is no record is told apart by the tests it passes:   *)
(* json.Valid, before a backup is overwritten; json.Unmarshal, before a    *)
(* backup is used; the checks of id and schema, before a record is loaded. *)
(* The store holds its lock for a whole operation, so the only concurrency *)
(* is with failure.  Temporary files left behind by a crash are never read *)
(* again and are left out.                                                 *)
(***************************************************************************)
EXTENDS Naturals

CONSTANTS
    MaxVersion,  \* bound on the changes
    MaxDamage,   \* bound on outside damage to meta.json
    MaxFailures, \* bound on the system calls that fail
    None,        \* no file, or no record in memory
    Torn,        \* content that is not valid JSON
    Mistyped,    \* JSON that cannot be unmarshalled into a Task
    Foreign      \* a Task with no or another id, or with a later schema

ASSUME MaxVersionAssumption == MaxVersion \in Nat
ASSUME MaxDamageAssumption == MaxDamage \in Nat
ASSUME MaxFailuresAssumption == MaxFailures \in Nat
ASSUME NoneAssumption == None \notin Nat
ASSUME TornAssumption == Torn \notin Nat /\ Torn # None
ASSUME MistypedAssumption == Mistyped \notin Nat /\ Mistyped \notin {None, Torn}
ASSUME ForeignAssumption == Foreign \notin Nat /\ Foreign \notin {None, Torn, Mistyped}

VARIABLES
    mem,      \* the store's copy of the record
    file,     \* what a reader of the two files sees
    stale,    \* what the two names may go back to when the power fails
    temp,     \* the temporary file is known to be on the disk
    op,       \* the operation of the store that is running
    next,     \* the next version
    damages,  \* times meta.json has been damaged
    failures, \* system calls that have failed
    acked,    \* auxiliary: the last version reported as stored
    before    \* auxiliary: the one before, of the last change that could
              \* read it from meta.json

vars == <<mem, file, stale, temp, op, next, damages, failures, acked, before>>

Names == {"main", "bak"}
Versions == 0..MaxVersion
Content == Versions \cup {None, Torn, Mistyped, Foreign}

Kinds == {"change", "inplace", "restore", "migrate"}
OpPcs == {"down", "idle", "read", "write", "sync", "rename", "syncdir"}
OpState == [pc: OpPcs, kind: Kinds, name: Names, data: Content \ {Torn},
            new: Versions \cup {None}, unread: BOOLEAN]
Idle == [pc |-> "idle", kind |-> "change", name |-> "main", data |-> None, new |-> None,
         unread |-> FALSE]
Down == [Idle EXCEPT !.pc = "down"]

(* json.Valid; json.Unmarshal into a Task. *)
IsJson(c) == c \in Versions \cup {Mistyped, Foreign}
Unmarshals(c) == c \in Versions \cup {Foreign}

(* Both names are in one directory, which is written in any order. *)
AfterPowerLoss(name) == stale[name] \cup {file[name]}

-----------------------------------------------------------------------------
(* writeTask *)

(* A change of the record: Add, or update on a private copy. *)
Change ==
    /\ op.pc = "idle" /\ next <= MaxVersion
    /\ mem # None \/ file["main"] = None
    /\ op' = [Idle EXCEPT !.pc = "read", !.new = next]
    /\ next' = next + 1
    /\ UNCHANGED <<mem, file, stale, temp, damages, failures, acked, before>>

(* SaveWriteup, ClearResultData and MarkFalseLiveCapture change the record *)
(* in memory before they write it.                                         *)
ChangeInPlace ==
    /\ op.pc = "idle" /\ next <= MaxVersion /\ mem # None
    /\ op' = [Idle EXCEPT !.pc = "read", !.kind = "inplace", !.new = next]
    /\ mem' = next
    /\ next' = next + 1
    /\ UNCHANGED <<file, stale, temp, damages, failures, acked, before>>

(* A meta.json that is JSON, a record or not, is copied to meta.json.bak   *)
(* first.                                                                  *)
ReadCurrent ==
    /\ op.pc = "read"
    /\ op' = IF IsJson(file["main"])
             THEN [op EXCEPT !.pc = "write", !.name = "bak", !.data = file["main"]]
             ELSE [op EXCEPT !.pc = "write", !.name = "main", !.data = op.new]
    /\ UNCHANGED <<mem, file, stale, temp, next, damages, failures, acked, before>>

(* One that cannot be read is written without a backup. *)
ReadCurrentFails ==
    /\ failures < MaxFailures /\ op.pc = "read"
    /\ failures' = failures + 1
    /\ op' = [op EXCEPT !.pc = "write", !.name = "main", !.data = op.new, !.unread = TRUE]
    /\ UNCHANGED <<mem, file, stale, temp, next, damages, acked, before>>

-----------------------------------------------------------------------------
(* atomicWriteFile *)

WriteTemp ==
    /\ op.pc = "write"
    /\ op' = [op EXCEPT !.pc = "sync"]
    /\ temp' = FALSE
    /\ UNCHANGED <<mem, file, stale, next, damages, failures, acked, before>>

(* Mutant: the temporary file is not synced. *)
SyncTempSkipped ==
    /\ op.pc = "sync"
    /\ op' = [op EXCEPT !.pc = "rename"]
    /\ UNCHANGED <<mem, file, stale, temp, next, damages, failures, acked, before>>

SyncTemp ==
    /\ op.pc = "sync"
    /\ op' = [op EXCEPT !.pc = "rename"]
    /\ temp' = TRUE
    /\ UNCHANGED <<mem, file, stale, next, damages, failures, acked, before>>

(* replaceFile: the name may go back to its old content until the          *)
(* directory is synced, or to a file whose data never reached the disk.    *)
Rename ==
    /\ op.pc = "rename"
    /\ file' = [file EXCEPT ![op.name] = op.data]
    /\ stale' = [stale EXCEPT ![op.name] = AfterPowerLoss(op.name)
                                           \cup (IF temp THEN {} ELSE {Torn})]
    /\ op' = [op EXCEPT !.pc = "syncdir"]
    /\ UNCHANGED <<mem, temp, next, damages, failures, acked, before>>

(* readTask with a Task in its hands: one of another id or schema is       *)
(* refused, an old one is migrated, without a backup.                      *)
Accept(c) ==
    \/ c = Foreign /\ op' = Idle /\ UNCHANGED <<mem, next>>
    \/ c \in Versions \ {0} /\ mem' = c /\ op' = Idle /\ UNCHANGED next
    \/ /\ c = 0 /\ next <= MaxVersion
       /\ op' = [Idle EXCEPT !.pc = "write", !.kind = "migrate", !.data = next]
       /\ next' = next + 1
       /\ UNCHANGED mem

(* What the caller does when meta.json is written. *)
Stored ==
    /\ op.kind # "restore"
    /\ mem' = op.data
    /\ acked' = op.data
    /\ before' = IF op.unread THEN before ELSE acked
    /\ op' = Idle
    /\ UNCHANGED next

Restored ==
    /\ op.kind = "restore"
    /\ Accept(op.data)
    /\ IF op.data = Foreign THEN UNCHANGED <<acked, before>>
       ELSE acked' = op.data /\ before' = op.data

(* Mutant: the directory is not synced. *)
SyncDirectorySkipped ==
    /\ op.pc = "syncdir"
    /\ UNCHANGED stale
    /\ IF op.name = "bak"
       THEN /\ op' = [op EXCEPT !.pc = "write", !.name = "main", !.data = op.new]
            /\ UNCHANGED <<mem, next, acked, before>>
       ELSE Stored \/ Restored
    /\ UNCHANGED <<file, temp, damages, failures>>

(* syncDirectory; then writeTask goes on from the backup to meta.json, or  *)
(* its caller goes on.                                                     *)
SyncDirectory ==
    /\ op.pc = "syncdir"
    /\ stale' = [name \in Names |-> {}]
    /\ IF op.name = "bak"
       THEN /\ op' = [op EXCEPT !.pc = "write", !.name = "main", !.data = op.new]
            /\ UNCHANGED <<mem, next, acked, before>>
       ELSE Stored \/ Restored
    /\ UNCHANGED <<file, temp, damages, failures>>

(* A system call fails, from the one that makes the task's directory to    *)
(* the last: the temporary file is removed, a rename that has happened     *)
(* stays, update leaves the memory as it was and Load skips the task.      *)
WriteFails ==
    /\ failures < MaxFailures /\ op.pc \in {"read", "write", "sync", "rename", "syncdir"}
    /\ failures' = failures + 1
    /\ op' = Idle
    /\ UNCHANGED <<mem, file, stale, temp, next, damages, acked, before>>

-----------------------------------------------------------------------------
(* readTask, when the store is loaded *)

LoadMissing ==
    /\ op.pc = "down" /\ file["main"] = None
    /\ op' = Idle
    /\ UNCHANGED <<mem, file, stale, temp, next, damages, failures, acked, before>>

(* A file that cannot be read hides the task: meta.json, or the backup of  *)
(* one that does not unmarshal.                                            *)
LoadFails ==
    /\ failures < MaxFailures /\ op.pc = "down"
    /\ failures' = failures + 1
    /\ op' = Idle
    /\ UNCHANGED <<mem, file, stale, temp, next, damages, acked, before>>

LoadTask ==
    /\ op.pc = "down" /\ Accept(file["main"])
    /\ UNCHANGED <<file, stale, temp, damages, failures, acked, before>>

(* Mutant: a damaged meta.json hides the task. *)
LoadDamagedGivesUp ==
    /\ op.pc = "down" /\ file["main"] \in {Torn, Mistyped}
    /\ op' = Idle
    /\ UNCHANGED <<mem, file, stale, temp, next, damages, failures, acked, before>>

(* The backup takes the place of a meta.json that does not unmarshal; when *)
(* neither does, the task is skipped.                                      *)
LoadDamaged ==
    /\ op.pc = "down" /\ file["main"] \in {Torn, Mistyped}
    /\ op' = IF Unmarshals(file["bak"])
             THEN [Idle EXCEPT !.pc = "write", !.kind = "restore", !.data = file["bak"]]
             ELSE Idle
    /\ UNCHANGED <<mem, file, stale, temp, next, damages, failures, acked, before>>

-----------------------------------------------------------------------------
(* Failures                                                                *)

Kill ==
    /\ op.pc # "down"
    /\ op' = Down
    /\ mem' = None
    /\ UNCHANGED <<file, stale, temp, next, damages, failures, acked, before>>

PowerLoss ==
    /\ \E main \in AfterPowerLoss("main"), bak \in AfterPowerLoss("bak") :
          file' = [name \in Names |-> IF name = "main" THEN main ELSE bak]
    /\ stale' = [name \in Names |-> {}]
    /\ op' = Down
    /\ mem' = None
    /\ UNCHANGED <<temp, next, damages, failures, acked, before>>

(* The event the backup is kept for. *)
Damage ==
    /\ damages < MaxDamage /\ file["main"] \in Versions
    /\ \E c \in {Torn, Mistyped, Foreign} : file' = [file EXCEPT !["main"] = c]
    /\ damages' = damages + 1
    /\ UNCHANGED <<mem, stale, temp, op, next, failures, acked, before>>

-----------------------------------------------------------------------------

Init ==
    /\ mem = None
    /\ \E old \in {None, 0} : file = [name \in Names |-> IF name = "main" THEN old ELSE None]
    /\ stale = [name \in Names |-> {}]
    /\ temp = FALSE
    /\ op = Down
    /\ next = 1
    /\ damages = 0
    /\ failures = 0
    /\ acked = None
    /\ before = None

Next ==
    \/ Change \/ ChangeInPlace \/ ReadCurrent \/ ReadCurrentFails
    \/ WriteTemp \/ SyncTemp \/ Rename \/ SyncDirectory \/ WriteFails
    \/ LoadMissing \/ LoadFails \/ LoadTask \/ LoadDamaged
    \/ Kill \/ PowerLoss \/ Damage

Spec == Init /\ [][Next]_vars

-----------------------------------------------------------------------------
(* The type of every variable; what is written is always JSON. *)
TypeOK ==
    /\ mem \in Versions \cup {None}
    /\ file \in [Names -> Content]
    /\ stale \in [Names -> SUBSET Content]
    /\ temp \in BOOLEAN
    /\ op \in OpState
    /\ op.pc \in {"write", "sync", "rename", "syncdir"} => IsJson(op.data)
    /\ next \in 1..(MaxVersion + 1)
    /\ damages \in 0..MaxDamage
    /\ failures \in 0..MaxFailures
    /\ acked \in Versions \cup {None}
    /\ before \in Versions \cup {None}

(* Wherever the machine stops, meta.json holds the last change that was    *)
(* reported as stored or a later one, never a part of one, as long as      *)
(* nobody else touches the file.                                           *)
AckedSurvives ==
    acked # None /\ damages = 0 =>
        \A c \in AfterPowerLoss("main") : c \in Versions /\ c >= acked

(* No change has copied JSON that is no record of the task over the backup. *)
BackupSpared == AfterPowerLoss("bak") \cap {Mistyped, Foreign} = {}

(* Damage to meta.json, at any moment and together with a crash at any     *)
(* other, costs at most the last change, and those right before it that    *)
(* could not read meta.json and made no backup: one of the two files is a  *)
(* record, and not older than the change before.  It costs more when it    *)
(* leaves JSON and the next change takes that for a record worth a backup. *)
(* (A second time costs more too: a change over a damaged meta.json leaves *)
(* the old backup.)                                                        *)
DamageCostsOneChange ==
    before # None /\ damages <= 1 /\ BackupSpared =>
        \A main \in AfterPowerLoss("main"), bak \in AfterPowerLoss("bak") :
            \/ main \in Versions /\ main >= before
            \/ bak \in Versions /\ bak >= before

(* The store is being loaded: it reads, or repairs what it has read. *)
Loading == op.pc = "down" \/ (op.pc # "idle" /\ op.kind \in {"restore", "migrate"})

(* Such a task is found by every start of the service whose calls succeed: *)
(* it ends with the record in memory, whatever failed before.  Not so a    *)
(* task whose meta.json was replaced by another task's record, to which    *)
(* the backup is not preferred.                                            *)
TaskIsFound ==
    [][(/\ Loading /\ op'.pc = "idle" /\ failures' = failures
        /\ before # None /\ damages <= 1 /\ BackupSpared /\ file["main"] # Foreign)
       => mem' # None]_vars
=============================================================================
