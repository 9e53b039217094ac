--------------------------- MODULE TaskFileProofs ---------------------------
(***************************************************************************)
(* What one task's meta.json and its backup keep through failed calls,     *)
(* kills, power losses and damage, proved for every number of changes.     *)
(*                                                                         *)
(* The invariant says, for each point of an operation, what the two names  *)
(* may hold once the power fails: AllFrom(n, v) and Kept(n, v) bound them  *)
(* from below.                                                             *)
(***************************************************************************)
EXTENDS TaskFile, TLAPS

Writing == op.pc \in {"write", "sync", "rename", "syncdir"}
Updating == op.kind \in {"change", "inplace"}

(* JSON that is no record of the task. *)
NoRecord == {Mistyped, Foreign}

(* Whatever happens, name holds a record, and none older than v. *)
AllFrom(name, v) == \A c \in AfterPowerLoss(name) : c \in Versions /\ c >= v

(* The same, unless it holds other JSON. *)
Kept(name, v) == \A c \in AfterPowerLoss(name) : c \in NoRecord \/ (c \in Versions /\ c >= v)

(* Versions are given out in order, and nothing holds one from the future. *)
Order ==
    /\ acked # None => acked < next
    /\ before # None => acked # None /\ before <= acked
    /\ \A name \in Names : \A c \in AfterPowerLoss(name) : c \in Versions => c < next

(* What a running operation is about to write. *)
OpOK ==
    /\ op.pc = "rename" => temp
    /\ op.pc = "read" \/ (Writing /\ op.name = "bak") =>
          /\ Updating
          /\ ~op.unread
          /\ op.new \in 1..(next - 1)
          /\ acked # None => acked < op.new
    /\ Writing => IsJson(op.data) /\ (op.data \in Versions => op.data < next)
    /\ Writing /\ op.name = "main" /\ op.kind # "restore" =>
          op.data \in Versions /\ op.data >= 1 /\ (acked # None => acked < op.data)
    /\ Writing /\ op.kind \in {"restore", "migrate"} => op.name = "main" /\ ~op.unread
    /\ Writing /\ op.kind = "restore" => damages >= 1 /\ Unmarshals(op.data)

(* Nobody has touched meta.json. *)
Untouched ==
    damages = 0 =>
        /\ AfterPowerLoss("main") \subseteq Versions \cup {None}
        /\ AfterPowerLoss("bak") \subseteq Versions \cup {None}
        /\ acked # None => acked >= 1 /\ AllFrom("main", acked)
        /\ before # None => AllFrom("bak", before)
        /\ op.pc = "syncdir" => file[op.name] = op.data
        /\ Writing => op.data \in Versions
        /\ Writing /\ op.kind = "migrate" => acked = None
        /\ Writing /\ op.name = "bak" /\ acked # None => op.data >= acked
        /\ Writing /\ op.name = "main" /\ Updating /\ acked # None /\ ~op.unread =>
              AllFrom("bak", acked)

(* Somebody has, at most once: meta.json has been replaced since, or the   *)
(* backup has been left alone.                                             *)
TouchedOnce ==
    damages <= 1 =>
        /\ before # None =>
              /\ AllFrom("main", acked) \/ Kept("bak", before)
              /\ \A c \in AfterPowerLoss("main") : c \in Versions => c >= before
              /\ Writing /\ op.data \in Versions => op.data >= before
              /\ Writing /\ op.kind = "restore" => Kept("bak", before)
        /\ Writing /\ op.kind = "restore" => file["bak"] = op.data
        /\ op.pc = "syncdir" /\ op.name = "main" =>
              \/ file["main"] = op.data
              \/ /\ op.kind # "restore"
                 /\ op.unread \/ (acked # None => Kept("bak", acked))

(* No name that has held a stored record comes to hold nothing, and a      *)
(* backup is never a part of one.                                          *)
Present ==
    /\ acked # None => None \notin AfterPowerLoss("main")
    /\ Torn \notin AfterPowerLoss("bak")
    /\ op.pc = "syncdir" /\ op.name = "bak" => file["bak"] = op.data
    /\ op.pc = "syncdir" /\ op.name = "main" => file["main"] \in {op.data, Torn} \cup NoRecord

FileInv == TypeOK /\ Order /\ OpOK /\ Untouched /\ TouchedOnce /\ Present

LEMMA IdleTypes == Idle \in OpState /\ Down \in OpState
  <1>1. Idle \in OpState
    BY TornAssumption DEF OpState, OpPcs, Kinds, Names, Content, Idle
  <1>2. Down \in OpState
    BY <1>1 DEF OpState, OpPcs, Down
  <1> QED BY <1>1, <1>2

LEMMA OpTypes ==
    ASSUME NEW o \in OpState, NEW pc \in OpPcs
    PROVE  /\ [o EXCEPT !.pc = pc] \in OpState
           /\ \A v \in Versions : [o EXCEPT !.pc = pc, !.new = v] \in OpState
           /\ \A v \in Versions, kind \in Kinds :
                 [o EXCEPT !.pc = pc, !.kind = kind, !.new = v] \in OpState
           /\ \A c \in Content \ {Torn}, kind \in Kinds :
                 [o EXCEPT !.pc = pc, !.kind = kind, !.data = c] \in OpState
           /\ \A c \in Content \ {Torn}, name \in Names :
                 /\ [o EXCEPT !.pc = pc, !.name = name, !.data = c] \in OpState
                 /\ [o EXCEPT !.pc = pc, !.name = name, !.data = c, !.unread = TRUE] \in OpState
  <1>1. [o EXCEPT !.pc = pc] \in OpState
    BY DEF OpState
  <1>2. ASSUME NEW v \in Versions
        PROVE  [o EXCEPT !.pc = pc, !.new = v] \in OpState
    BY DEF OpState
  <1>3. ASSUME NEW v \in Versions, NEW kind \in Kinds
        PROVE  [o EXCEPT !.pc = pc, !.kind = kind, !.new = v] \in OpState
    BY DEF OpState
  <1>4. ASSUME NEW c \in Content \ {Torn}, NEW kind \in Kinds
        PROVE  [o EXCEPT !.pc = pc, !.kind = kind, !.data = c] \in OpState
    BY DEF OpState
  <1>5. ASSUME NEW c \in Content \ {Torn}, NEW name \in Names
        PROVE  /\ [o EXCEPT !.pc = pc, !.name = name, !.data = c] \in OpState
               /\ [o EXCEPT !.pc = pc, !.name = name, !.data = c, !.unread = TRUE] \in OpState
    BY DEF OpState
  <1> QED BY <1>1, <1>2, <1>3, <1>4, <1>5

LEMMA InitFile == Init => FileInv
  <1> SUFFICES ASSUME Init PROVE FileInv
    OBVIOUS
  <1> USE MaxVersionAssumption
  <1>1. \A name \in Names : AfterPowerLoss(name) \subseteq {None, 0}
    BY DEF Init, Names, AfterPowerLoss
  <1>2. TypeOK
    <2>1. op \in OpState
      BY IdleTypes DEF Init
    <2>2. stale \in [Names -> SUBSET Content] /\ file \in [Names -> Content]
      <3>1. \A old \in {None, 0} :
               [name \in Names |-> IF name = "main" THEN old ELSE None] \in [Names -> Content]
        BY DEF Content, Versions
      <3>2. [name \in Names |-> {}] \in [Names -> SUBSET Content]
        OBVIOUS
      <3>3. PICK old \in {None, 0} :
               file = [name \in Names |-> IF name = "main" THEN old ELSE None]
        BY DEF Init
      <3>4. stale = [name \in Names |-> {}]
        BY DEF Init
      <3> QED BY <3>1, <3>2, <3>3, <3>4
    <2>3. op.pc = "down"
      BY DEF Init, Down, Idle
    <2>4. next \in 1..(MaxVersion + 1) /\ damages \in 0..MaxDamage /\ failures \in 0..MaxFailures
      BY MaxDamageAssumption, MaxFailuresAssumption DEF Init
    <2>5. mem = None /\ temp = FALSE /\ acked = None /\ before = None
      BY DEF Init
    <2> QED BY <2>1, <2>2, <2>3, <2>4, <2>5 DEF TypeOK
  <1> USE MaxDamageAssumption, MaxFailuresAssumption, NoneAssumption, TornAssumption,
          MistypedAssumption, ForeignAssumption
  <1>3. Order /\ OpOK /\ Untouched /\ TouchedOnce /\ Present
    BY <1>1 DEF Init, Order, OpOK, Writing, Untouched, TouchedOnce, Present, Names, Down, Idle,
                AfterPowerLoss, Versions
  <1> QED BY <1>2, <1>3 DEF FileInv

LEMMA ChangeFile ==
    ASSUME FileInv, Change PROVE FileInv'
  <1> USE MaxVersionAssumption
  <1>1. TypeOK'
    <2>1. op' \in OpState
      <3>1. "read" \in OpPcs
        BY DEF OpPcs
      <3>2. TypeOK
        BY DEF FileInv
      <3>3. next \in Versions
        BY <3>2 DEF TypeOK, Change, Versions
      <3> QED BY <3>1, <3>3, IdleTypes, OpTypes DEF Change
    <2>2. op'.pc \in {"write", "sync", "rename", "syncdir"} => IsJson(op'.data)
      BY DEF FileInv, TypeOK, Change, Versions
    <2> QED BY <2>1, <2>2 DEF FileInv, TypeOK, Change
  <1> USE MaxDamageAssumption, MaxFailuresAssumption, NoneAssumption, TornAssumption,
          MistypedAssumption, ForeignAssumption
  <1>2. Order'
    BY DEF FileInv, TypeOK, Order, Change, Versions, AfterPowerLoss
  <1>3. OpOK'
    BY DEF FileInv, TypeOK, Order, OpOK, Change, Versions, AfterPowerLoss, Updating,
           Writing, Idle
  <1>4. Untouched'
    BY DEF FileInv, TypeOK, Order, OpOK, Untouched, Change, AfterPowerLoss, AllFrom,
           Updating, Writing, Idle
  <1>5. TouchedOnce'
    BY DEF FileInv, Untouched, TouchedOnce, Change, AfterPowerLoss, AllFrom, Kept, Writing
  <1>6. Present'
    BY DEF FileInv, Present, Change, AfterPowerLoss
  <1> QED BY <1>1, <1>2, <1>3, <1>4, <1>5, <1>6 DEF FileInv

LEMMA ChangeInPlaceFile ==
    ASSUME FileInv, ChangeInPlace PROVE FileInv'
  <1> USE MaxVersionAssumption
  <1>1. TypeOK'
    <2>1. op' \in OpState
      <3>1. "read" \in OpPcs /\ "inplace" \in Kinds
        BY DEF OpPcs, Kinds
      <3>2. TypeOK
        BY DEF FileInv
      <3>3. next \in Versions
        BY <3>2 DEF TypeOK, ChangeInPlace, Versions
      <3> QED BY <3>1, <3>3, IdleTypes, OpTypes DEF ChangeInPlace
    <2>2. op'.pc \in {"write", "sync", "rename", "syncdir"} => IsJson(op'.data)
      BY DEF FileInv, TypeOK, ChangeInPlace, Versions
    <2> QED BY <2>1, <2>2 DEF FileInv, TypeOK, ChangeInPlace, Versions
  <1> USE MaxDamageAssumption, MaxFailuresAssumption, NoneAssumption, TornAssumption,
          MistypedAssumption, ForeignAssumption
  <1>2. Order'
    BY DEF FileInv, TypeOK, Order, ChangeInPlace, Versions, AfterPowerLoss
  <1>3. OpOK'
    BY DEF FileInv, TypeOK, Order, OpOK, ChangeInPlace, AfterPowerLoss, Updating,
           Writing, Idle
  <1>4. Untouched'
    BY DEF FileInv, TypeOK, Order, OpOK, Untouched, ChangeInPlace, AfterPowerLoss,
           AllFrom, Updating, Writing
  <1>5. TouchedOnce'
    BY DEF FileInv, Untouched, TouchedOnce, ChangeInPlace, AfterPowerLoss, AllFrom, Kept, Writing
  <1>6. Present'
    BY DEF FileInv, Present, ChangeInPlace, AfterPowerLoss
  <1> QED BY <1>1, <1>2, <1>3, <1>4, <1>5, <1>6 DEF FileInv

LEMMA ReadCurrentFile ==
    ASSUME FileInv, ReadCurrent PROVE FileInv'
  <1> USE MaxVersionAssumption, MaxDamageAssumption, MaxFailuresAssumption, NoneAssumption,
          TornAssumption, MistypedAssumption, ForeignAssumption
  <1> DEFINE main == file["main"]
  <1>1. /\ op.pc = "read" /\ Updating /\ ~op.unread /\ op.new \in Versions /\ op.new >= 1
        /\ op.new < next /\ (acked # None => acked < op.new)
        /\ main \in AfterPowerLoss("main") /\ main \in Content
    BY DEF FileInv, TypeOK, OpOK, ReadCurrent, AfterPowerLoss, Versions, Names
  <1>2. /\ AfterPowerLoss("main")' = AfterPowerLoss("main")
        /\ AfterPowerLoss("bak")' = AfterPowerLoss("bak")
    BY DEF ReadCurrent, AfterPowerLoss
  <1>3. /\ op'.pc = "write" /\ op'.kind = op.kind /\ op'.new = op.new /\ op'.unread = op.unread
        /\ IsJson(main) => op'.name = "bak" /\ op'.data = main
        /\ ~IsJson(main) => op'.name = "main" /\ op'.data = op.new
    BY DEF FileInv, TypeOK, ReadCurrent, OpState
  <1>4. TypeOK'
    <2>1. op' \in OpState
      <3>1. "write" \in OpPcs /\ "bak" \in Names /\ "main" \in Names
        BY DEF OpPcs, Names
      <3>2. op.new \in Content \ {Torn} /\ (IsJson(main) => main \in Content \ {Torn})
        BY <1>1 DEF Content, IsJson, Versions
      <3> QED BY <3>1, <3>2, OpTypes DEF FileInv, TypeOK, ReadCurrent
    <2>2. IsJson(op'.data)
      BY <1>1, <1>3 DEF IsJson
    <2> QED BY <2>1, <2>2 DEF FileInv, TypeOK, ReadCurrent
  <1>5. Order'
    BY DEF FileInv, Order, ReadCurrent, AfterPowerLoss
  <1>6. OpOK'
    BY <1>1, <1>3 DEF FileInv, Order, OpOK, ReadCurrent, Updating, Writing, IsJson, Names
  <1>7. Untouched'
    BY <1>1, <1>2, <1>3 DEF FileInv, OpOK, Untouched, ReadCurrent, AllFrom, Updating, Writing,
                            IsJson
  <1>8. TouchedOnce'
    <2>1. Updating'
      BY <1>1, <1>3 DEF Updating
    <2> QED BY <1>1, <1>2, <1>3, <2>1
            DEF FileInv, TypeOK, Order, OpOK, TouchedOnce, ReadCurrent, AllFrom, Kept, Updating,
                Writing, Versions
  <1>9. Present'
    BY <1>2, <1>3 DEF FileInv, Present, ReadCurrent
  <1> QED BY <1>4, <1>5, <1>6, <1>7, <1>8, <1>9 DEF FileInv

LEMMA ReadCurrentFailsFile ==
    ASSUME FileInv, ReadCurrentFails PROVE FileInv'
  <1> USE MaxVersionAssumption, MaxDamageAssumption, MaxFailuresAssumption, NoneAssumption,
          TornAssumption, MistypedAssumption, ForeignAssumption
  <1>1. /\ op.pc = "read" /\ Updating /\ op.new \in Versions /\ op.new >= 1
        /\ op.new < next /\ (acked # None => acked < op.new)
    BY DEF FileInv, TypeOK, OpOK, ReadCurrentFails, Versions
  <1>2. /\ AfterPowerLoss("main")' = AfterPowerLoss("main")
        /\ AfterPowerLoss("bak")' = AfterPowerLoss("bak")
    BY DEF ReadCurrentFails, AfterPowerLoss
  <1>3. /\ op'.pc = "write" /\ op'.kind = op.kind /\ op'.new = op.new /\ op'.unread
        /\ op'.name = "main" /\ op'.data = op.new
    BY DEF FileInv, TypeOK, ReadCurrentFails, OpState
  <1>4. TypeOK'
    <2>1. op' \in OpState
      <3>1. "write" \in OpPcs /\ "main" \in Names
        BY DEF OpPcs, Names
      <3>2. op.new \in Content \ {Torn}
        BY <1>1 DEF Content, Versions
      <3> QED BY <3>1, <3>2, OpTypes DEF FileInv, TypeOK, ReadCurrentFails
    <2>2. IsJson(op'.data)
      BY <1>1, <1>3 DEF IsJson
    <2> QED BY <2>1, <2>2 DEF FileInv, TypeOK, ReadCurrentFails
  <1>5. Order'
    BY DEF FileInv, Order, ReadCurrentFails, AfterPowerLoss
  <1>6. OpOK'
    BY <1>1, <1>3 DEF FileInv, OpOK, ReadCurrentFails, Updating, Writing, IsJson
  <1>7. Untouched'
    BY <1>1, <1>2, <1>3 DEF FileInv, OpOK, Untouched, ReadCurrentFails, AllFrom, Updating,
                            Writing
  <1>8. TouchedOnce'
    BY <1>1, <1>2, <1>3
       DEF FileInv, TypeOK, Order, OpOK, TouchedOnce, ReadCurrentFails, AllFrom, Kept, Updating,
           Writing, Versions
  <1>9. Present'
    BY <1>2, <1>3 DEF FileInv, Present, ReadCurrentFails
  <1> QED BY <1>4, <1>5, <1>6, <1>7, <1>8, <1>9 DEF FileInv

LEMMA WriteTempFile ==
    ASSUME FileInv, WriteTemp PROVE FileInv'
  <1> USE MaxVersionAssumption, MaxDamageAssumption, MaxFailuresAssumption, NoneAssumption,
          TornAssumption, MistypedAssumption, ForeignAssumption
  <1>1. TypeOK'
    BY DEF FileInv, TypeOK, WriteTemp, OpState, OpPcs
  <1>2. Order'
    BY DEF FileInv, TypeOK, Order, WriteTemp, OpState, OpPcs, AfterPowerLoss
  <1>3. OpOK'
    BY DEF FileInv, Order, OpOK, WriteTemp, AfterPowerLoss, Updating, Writing
  <1>4. Untouched'
    BY DEF FileInv, OpOK, Untouched, WriteTemp, AfterPowerLoss, AllFrom, Updating,
           Writing
  <1>5. TouchedOnce'
    BY DEF FileInv, TouchedOnce, WriteTemp, AfterPowerLoss, AllFrom, Kept, Updating,
           Writing
  <1>6. Present'
    BY DEF FileInv, Present, WriteTemp, AfterPowerLoss, Writing
  <1> QED BY <1>1, <1>2, <1>3, <1>4, <1>5, <1>6 DEF FileInv

LEMMA SyncTempFile ==
    ASSUME FileInv, SyncTemp PROVE FileInv'
  <1> USE MaxVersionAssumption, MaxDamageAssumption, MaxFailuresAssumption, NoneAssumption,
          TornAssumption, MistypedAssumption, ForeignAssumption
  <1>1. TypeOK'
    BY DEF FileInv, TypeOK, SyncTemp, OpState, OpPcs
  <1>2. Order'
    BY DEF FileInv, TypeOK, Order, SyncTemp, OpState, OpPcs, AfterPowerLoss
  <1>3. OpOK'
    BY DEF FileInv, Order, OpOK, SyncTemp, AfterPowerLoss, Updating, Writing
  <1>4. Untouched'
    BY DEF FileInv, OpOK, Untouched, SyncTemp, AfterPowerLoss, AllFrom, Updating,
           Writing
  <1>5. TouchedOnce'
    BY DEF FileInv, TouchedOnce, SyncTemp, AfterPowerLoss, AllFrom, Kept, Updating,
           Writing
  <1>6. Present'
    BY DEF FileInv, Present, SyncTemp, AfterPowerLoss, Writing
  <1> QED BY <1>1, <1>2, <1>3, <1>4, <1>5, <1>6 DEF FileInv

LEMMA RenameFile ==
    ASSUME FileInv, Rename PROVE FileInv'
  <1> USE MaxVersionAssumption, MaxDamageAssumption, MaxFailuresAssumption, NoneAssumption,
          TornAssumption, MistypedAssumption, ForeignAssumption
  <1>1. /\ op.pc = "rename" /\ Writing /\ temp /\ IsJson(op.data)
        /\ op.name \in Names /\ op.data \in Content
    BY DEF FileInv, TypeOK, OpOK, Rename, OpState, Writing
  <1>2. /\ op'.pc = "syncdir" /\ op'.kind = op.kind /\ op'.name = op.name
        /\ op'.data = op.data /\ op'.new = op.new /\ op'.unread = op.unread
    BY DEF FileInv, TypeOK, Rename, OpState
  <1>3. /\ file'[op.name] = op.data
        /\ AfterPowerLoss(op.name)' = AfterPowerLoss(op.name) \cup {op.data}
        /\ \A name \in Names \ {op.name} : AfterPowerLoss(name)' = AfterPowerLoss(name)
        /\ \A name \in Names \ {op.name} : file'[name] = file[name]
    BY <1>1 DEF FileInv, TypeOK, Rename, AfterPowerLoss
  <1>4. TypeOK'
    BY DEF FileInv, TypeOK, Rename, OpState, Content, OpPcs, AfterPowerLoss
  <1>5. Order'
    BY <1>1, <1>3 DEF FileInv, Order, OpOK, Rename, Names
  <1>6. OpOK'
    BY <1>1, <1>2 DEF FileInv, OpOK, Rename, Updating, Writing
  <1>7. Untouched'
    BY <1>1, <1>2, <1>3 DEF FileInv, TypeOK, Order, OpOK, Untouched, Rename, Versions, AllFrom,
                            Updating, Writing, Names
  <1>8. TouchedOnce'
    <2>1. CASE op.name = "bak"
      BY <1>1, <1>2, <1>3, <2>1
         DEF FileInv, OpOK, TouchedOnce, Rename, AllFrom, Kept, Writing, NoRecord, IsJson, Names,
             Updating
    <2>2. CASE op.name = "main"
      <3> SUFFICES ASSUME damages <= 1 PROVE TouchedOnce'
        BY DEF TouchedOnce, Rename
      <3>1. /\ AfterPowerLoss("main")' = AfterPowerLoss("main") \cup {op.data}
            /\ AfterPowerLoss("bak")' = AfterPowerLoss("bak")
            /\ file'["main"] = op.data /\ file'["bak"] = file["bak"]
            /\ acked' = acked /\ before' = before /\ damages' = damages
        BY <1>3, <2>2 DEF Names, Rename
      <3>2. op.kind = "restore" => /\ file["bak"] = op.data
                                   /\ before # None => Kept("bak", before)
        BY <1>1 DEF FileInv, TouchedOnce
      <3>3. before # None => /\ before \in Nat /\ acked # None
                             /\ op.data \in Versions => op.data >= before
                             /\ \A c \in AfterPowerLoss("main") : c \in Versions => c >= before
                             /\ AllFrom("main", acked) \/ Kept("bak", before)
        BY <1>1 DEF FileInv, TypeOK, Order, TouchedOnce, Versions
      <3>4. op.kind # "restore" /\ acked # None => op.data \in Versions /\ op.data >= acked
        BY <1>1, <2>2 DEF FileInv, TypeOK, OpOK, Versions
      <3>5. before # None => AllFrom("main", acked)' \/ Kept("bak", before)'
        BY <3>1, <3>2, <3>3, <3>4 DEF AllFrom, Kept
      <3> QED BY <1>2, <2>2, <3>1, <3>2, <3>3, <3>5 DEF TouchedOnce, Kept
    <2> QED BY <1>1, <2>1, <2>2 DEF Names
  <1>9. Present'
    BY <1>1, <1>2, <1>3 DEF FileInv, Present, Rename, IsJson, Names, Versions
  <1> QED BY <1>4, <1>5, <1>6, <1>7, <1>8, <1>9 DEF FileInv

(* A load that has a Task in its hands, at its start or after the backup   *)
(* has taken the place of meta.json.                                       *)
LEMMA AcceptStep ==
    ASSUME TypeOK, NEW c \in Versions \cup {Foreign}, Accept(c)
    PROVE  /\ op' \in OpState
           /\ \/ /\ op' = Idle /\ next' = next
                 /\ \/ c = Foreign /\ mem' = mem
                    \/ c \in Versions /\ c >= 1 /\ mem' = c
              \/ /\ c = 0 /\ next \in Versions /\ next >= 1 /\ next' = next + 1 /\ mem' = mem
                 /\ op' = [Idle EXCEPT !.pc = "write", !.kind = "migrate", !.data = next]
                 /\ op'.pc = "write" /\ op'.kind = "migrate" /\ op'.name = "main"
                 /\ op'.data = next /\ op'.unread = FALSE
  <1> USE MaxVersionAssumption
  <1>1. next \in 1..(MaxVersion + 1)
    BY DEF TypeOK
  <1>2. ASSUME c = 0, next <= MaxVersion PROVE next \in Versions /\ next >= 1
    BY <1>1, <1>2 DEF Versions
  <1>3. ASSUME NEW v \in Versions
        PROVE  [Idle EXCEPT !.pc = "write", !.kind = "migrate", !.data = v] \in OpState
    <2>1. "write" \in OpPcs /\ "migrate" \in Kinds /\ v \in Content \ {Torn}
      BY TornAssumption DEF OpPcs, Kinds, Content, Versions
    <2> QED BY <2>1, IdleTypes, OpTypes
  <1>4. CASE c = Foreign
    BY <1>4, IdleTypes, ForeignAssumption DEF Accept, Versions
  <1>5. CASE c \in Versions \ {0}
    BY <1>5, IdleTypes, ForeignAssumption DEF Accept, Versions
  <1>6. CASE c = 0
    <2>1. /\ next <= MaxVersion /\ next' = next + 1 /\ mem' = mem
          /\ op' = [Idle EXCEPT !.pc = "write", !.kind = "migrate", !.data = next]
      BY <1>6, ForeignAssumption DEF Accept
    <2> QED BY <1>2, <1>3, <1>6, <2>1 DEF Idle
  <1> QED BY <1>4, <1>5, <1>6

LEMMA SyncDirectoryFile ==
    ASSUME FileInv, SyncDirectory PROVE FileInv'
  <1> USE MaxVersionAssumption, MaxDamageAssumption, MaxFailuresAssumption, NoneAssumption,
          TornAssumption, MistypedAssumption, ForeignAssumption
  <1>1. \A name \in Names : /\ AfterPowerLoss(name)' = {file[name]}
                            /\ file[name] \in AfterPowerLoss(name)
    BY DEF SyncDirectory, AfterPowerLoss
  <1>2. /\ op.pc = "syncdir" /\ Writing /\ file' = file /\ damages' = damages
        /\ failures' = failures /\ temp' = temp /\ stale' = [name \in Names |-> {}]
        /\ stale' \in [Names -> SUBSET Content]
    BY DEF SyncDirectory, Writing
  <1>3. CASE op.name = "bak"
    <2>1. /\ op' = [op EXCEPT !.pc = "write", !.name = "main", !.data = op.new]
          /\ mem' = mem /\ next' = next /\ acked' = acked /\ before' = before
      BY <1>3 DEF FileInv, SyncDirectory
    <2>2. /\ op'.pc = "write" /\ op'.kind = op.kind /\ op'.name = "main" /\ op'.data = op.new
          /\ op'.new = op.new /\ op'.unread = op.unread
      BY <1>3, <2>1 DEF FileInv, TypeOK, OpState
    <2>3. /\ op.new \in Versions /\ op.new >= 1 /\ op.new < next /\ Updating
          /\ acked # None => acked < op.new
      BY <1>2, <1>3 DEF FileInv, TypeOK, OpOK, Versions
    <2>4. TypeOK'
      <3>1. "write" \in OpPcs /\ "main" \in Names /\ op.new \in Content \ {Torn}
        BY <2>3 DEF OpPcs, Names, Content, Versions
      <3>2. op' \in OpState
        BY <2>1, <3>1, OpTypes DEF FileInv, TypeOK
      <3>3. IsJson(op'.data)
        BY <2>2, <2>3 DEF IsJson
      <3> QED BY <1>2, <2>1, <3>2, <3>3 DEF FileInv, TypeOK
    <2>5. Order'
      BY <1>1, <2>1 DEF FileInv, Order
    <2>6. OpOK'
      BY <2>1, <2>2, <2>3 DEF OpOK, Updating, IsJson
    <2>7. Untouched'
      BY <1>1, <1>2, <1>3, <2>1, <2>2, <2>3
         DEF FileInv, TypeOK, Untouched, AllFrom, Names, Updating, Versions
    <2>8. TouchedOnce'
      BY <1>1, <1>2, <1>3, <2>1, <2>2, <2>3
         DEF FileInv, TypeOK, Order, TouchedOnce, AllFrom, Kept, Names, Updating, Versions
    <2>9. Present'
      BY <1>1, <1>2, <1>3, <2>1, <2>2 DEF FileInv, Present, Names
    <2> QED BY <2>4, <2>5, <2>6, <2>7, <2>8, <2>9 DEF FileInv
  <1>4. CASE op.name = "main" /\ Stored
    <2>1. /\ op' = Idle /\ op'.pc = "idle" /\ mem' = op.data /\ acked' = op.data
          /\ before' = IF op.unread THEN before ELSE acked
          /\ next' = next /\ op.kind # "restore"
      BY <1>4 DEF Stored, Idle
    <2>2. /\ op.data \in Versions /\ op.data >= 1 /\ op.data < next
          /\ acked # None => acked < op.data
      BY <1>2, <1>4, <2>1 DEF FileInv, OpOK
    <2>3. before' = before \/ before' = acked
      BY <2>1
    <2>4. TypeOK'
      BY <1>2, <2>1, <2>2, <2>3, IdleTypes DEF FileInv, TypeOK
    <2>5. Order'
      BY <1>1, <1>2, <2>1, <2>2, <2>3 DEF FileInv, TypeOK, Order, Versions
    <2>6. OpOK'
      BY <2>1 DEF OpOK, Writing
    <2>7. Untouched'
      <3> SUFFICES ASSUME damages = 0
                   PROVE  /\ {file["main"]} \subseteq Versions \cup {None}
                          /\ {file["bak"]} \subseteq Versions \cup {None}
                          /\ file["main"] = op.data
                          /\ before' # None => file["bak"] \in Versions /\ file["bak"] >= before'
        BY <1>1, <1>2, <2>1, <2>2 DEF Untouched, AllFrom, Writing, Names, Versions
      <3>1. /\ {file["main"]} \subseteq Versions \cup {None}
            /\ {file["bak"]} \subseteq Versions \cup {None}
            /\ file["main"] = op.data
        BY <1>1, <1>2, <1>4 DEF FileInv, Untouched, Names
      <3>2. before' # None => file["bak"] \in Versions /\ file["bak"] >= before'
        <4>1. CASE op.unread
          BY <1>1, <2>1, <4>1 DEF FileInv, Untouched, AllFrom, Names
        <4>2. CASE ~op.unread
          <5>1. acked # None => AllFrom("bak", acked)
            BY <1>2, <1>4, <2>1, <4>2
               DEF FileInv, TypeOK, OpState, Kinds, Untouched, Updating
          <5> QED BY <1>1, <2>1, <4>2, <5>1 DEF AllFrom, Names
        <4> QED BY <4>1, <4>2
      <3> QED BY <3>1, <3>2
    <2>8. TouchedOnce'
      <3> SUFFICES ASSUME damages <= 1, before' # None
                   PROVE  /\ \/ file["main"] = op.data
                             \/ file["bak"] \in NoRecord
                             \/ file["bak"] \in Versions /\ file["bak"] >= before'
                          /\ file["main"] \in Versions => file["main"] >= before'
        BY <1>1, <1>2, <2>1, <2>2 DEF TouchedOnce, AllFrom, Kept, Writing, Names, Versions
      <3>1. file["main"] \in Versions => file["main"] = op.data
        BY <1>2, <1>4 DEF FileInv, Present, NoRecord, Versions
      <3>2. before' <= op.data
        BY <2>1, <2>2, <2>3 DEF FileInv, TypeOK, Order, Versions
      <3>3. CASE file["main"] = op.data
        BY <3>1, <3>2, <3>3
      <3>4. CASE file["main"] # op.data
        <4>1. CASE op.unread
          <5>1. before' = before
            BY <2>1, <4>1
          <5>2. ~AllFrom("main", acked)
            BY <1>1, <3>1, <3>4 DEF AllFrom, Names
          <5>3. Kept("bak", before)
            BY <5>1, <5>2 DEF FileInv, TouchedOnce
          <5> QED BY <1>1, <3>1, <3>4, <5>1, <5>3 DEF Kept, Names
        <4>2. CASE ~op.unread
          <5>1. before' = acked
            BY <2>1, <4>2
          <5>2. Kept("bak", acked)
            BY <1>2, <1>4, <3>4, <4>2, <5>1 DEF FileInv, TouchedOnce
          <5> QED BY <1>1, <3>1, <3>4, <5>1, <5>2 DEF Kept, Names
        <4> QED BY <4>1, <4>2
      <3> QED BY <3>3, <3>4
    <2>9. Present'
      BY <1>1, <1>2, <1>4, <2>1, <2>2 DEF FileInv, Present, Names, NoRecord, Versions
    <2> QED BY <2>4, <2>5, <2>6, <2>7, <2>8, <2>9 DEF FileInv
  <1>5. CASE op.name = "main" /\ Restored
    <2>1. /\ op.kind = "restore" /\ Accept(op.data) /\ damages # 0
          /\ op.data \in Versions \cup {Foreign}
          /\ op.data \in Versions => op.data < next
      BY <1>2, <1>5 DEF FileInv, TypeOK, OpOK, Restored, Unmarshals
    <2>2. op.data = Foreign => acked' = acked /\ before' = before
      BY <1>5 DEF Restored
    <2>3. op.data # Foreign => op.data \in Versions /\ acked' = op.data /\ before' = op.data
      BY <1>5, <2>1 DEF Restored
    <2>4. file["main"] \in {op.data, Torn, Mistyped, Foreign}
      BY <1>2, <1>5 DEF FileInv, Present, NoRecord
    <2>5. damages <= 1 => /\ file["main"] = op.data
                          /\ before # None => Kept("bak", before)
      BY <1>2, <1>5, <2>1 DEF FileInv, TouchedOnce
    <2>6. /\ acked' \in Versions \cup {None} /\ before' \in Versions \cup {None}
          /\ acked' # None => acked' < next
          /\ before' # None => acked' # None /\ before' <= acked'
      BY <2>1, <2>2, <2>3 DEF FileInv, TypeOK, Order, Versions
    <2>7. Untouched'
      BY <1>2, <2>1 DEF Untouched
    <2>8. /\ None # file["main"]
          /\ Torn # file["bak"]
      BY <1>1, <2>1, <2>4 DEF FileInv, Present, Names, Versions
    <2>9. damages <= 1 /\ before' # None =>
             /\ \/ file["main"] \in Versions /\ file["main"] >= acked'
                \/ file["bak"] \in NoRecord
                \/ file["bak"] \in Versions /\ file["bak"] >= before'
             /\ file["main"] \in Versions => file["main"] >= before'
      BY <1>1, <2>1, <2>2, <2>3, <2>5 DEF Kept, Names, Versions
    <2>10. CASE op' = Idle
      <3>1. /\ op' \in OpState /\ op'.pc = "idle" /\ next' = next
            /\ mem' \in Versions \cup {None}
        BY <2>1, <2>10, AcceptStep DEF FileInv, TypeOK, Idle
      <3>2. TypeOK'
        BY <1>2, <2>6, <3>1 DEF FileInv, TypeOK
      <3>3. Order' /\ OpOK'
        BY <1>1, <1>2, <2>6, <3>1 DEF FileInv, Order, OpOK, Writing
      <3>4. TouchedOnce'
        BY <1>1, <1>2, <2>9, <3>1 DEF TouchedOnce, AllFrom, Kept, Writing, Names
      <3>5. Present'
        BY <1>1, <2>8, <3>1 DEF Present, Names
      <3> QED BY <2>7, <3>2, <3>3, <3>4, <3>5 DEF FileInv
    <2>11. CASE op' # Idle
      <3>1. /\ op.data = 0 /\ next \in Versions /\ next >= 1 /\ next' = next + 1 /\ mem' = mem
            /\ op' \in OpState
            /\ op'.pc = "write" /\ op'.kind = "migrate" /\ op'.name = "main"
            /\ op'.data = next /\ op'.unread = FALSE
        BY <2>1, <2>11, AcceptStep DEF FileInv
      <3>2. TypeOK'
        BY <1>2, <2>6, <3>1 DEF FileInv, TypeOK, IsJson, Versions
      <3>3. Order'
        BY <1>1, <1>2, <2>6, <3>1 DEF FileInv, TypeOK, Order, Versions
      <3>4. OpOK'
        BY <2>6, <3>1 DEF OpOK, Writing, Updating, IsJson, Versions
      <3>5. TouchedOnce'
        BY <1>1, <1>2, <2>6, <2>9, <3>1
           DEF TouchedOnce, AllFrom, Kept, Writing, Names, Versions
      <3>6. Present'
        BY <1>1, <2>8, <3>1 DEF Present, Names
      <3> QED BY <2>7, <3>2, <3>3, <3>4, <3>5, <3>6 DEF FileInv
    <2> QED BY <2>10, <2>11
  <1> QED BY <1>2, <1>3, <1>4, <1>5 DEF FileInv, TypeOK, OpState, Names, SyncDirectory

LEMMA WriteFailsFile ==
    ASSUME FileInv, WriteFails PROVE FileInv'
  <1> USE MaxVersionAssumption, MaxDamageAssumption, MaxFailuresAssumption, NoneAssumption,
          TornAssumption, MistypedAssumption, ForeignAssumption
  <1>1. op' = Idle /\ op' \in OpState /\ op'.pc = "idle"
    BY IdleTypes DEF WriteFails, Down, Idle
  <1>2. /\ AfterPowerLoss("main")' = AfterPowerLoss("main")
        /\ AfterPowerLoss("bak")' = AfterPowerLoss("bak")
    BY DEF WriteFails, AfterPowerLoss
  <1>3. TypeOK'
    BY <1>1 DEF FileInv, TypeOK, WriteFails
  <1>4. Order'
    BY <1>2 DEF FileInv, Order, WriteFails, Names
  <1>5. OpOK'
    BY <1>1 DEF OpOK, Writing
  <1>6. Untouched'
    BY <1>1, <1>2 DEF FileInv, Untouched, WriteFails, AllFrom, Writing
  <1>7. TouchedOnce'
    BY <1>1, <1>2 DEF FileInv, TouchedOnce, WriteFails, AllFrom, Kept, Writing
  <1>8. Present'
    BY <1>1, <1>2 DEF FileInv, Present, WriteFails
  <1> QED BY <1>3, <1>4, <1>5, <1>6, <1>7, <1>8 DEF FileInv

LEMMA LoadMissingFile ==
    ASSUME FileInv, LoadMissing PROVE FileInv'
  <1> USE MaxVersionAssumption, MaxDamageAssumption, MaxFailuresAssumption, NoneAssumption,
          TornAssumption, MistypedAssumption, ForeignAssumption
  <1>1. op' = Idle /\ op' \in OpState /\ op'.pc = "idle"
    BY IdleTypes DEF LoadMissing, Down, Idle
  <1>2. /\ AfterPowerLoss("main")' = AfterPowerLoss("main")
        /\ AfterPowerLoss("bak")' = AfterPowerLoss("bak")
    BY DEF LoadMissing, AfterPowerLoss
  <1>3. TypeOK'
    BY <1>1 DEF FileInv, TypeOK, LoadMissing
  <1>4. Order'
    BY <1>2 DEF FileInv, Order, LoadMissing, Names
  <1>5. OpOK'
    BY <1>1 DEF OpOK, Writing
  <1>6. Untouched'
    BY <1>1, <1>2 DEF FileInv, Untouched, LoadMissing, AllFrom, Writing
  <1>7. TouchedOnce'
    BY <1>1, <1>2 DEF FileInv, TouchedOnce, LoadMissing, AllFrom, Kept, Writing
  <1>8. Present'
    BY <1>1, <1>2 DEF FileInv, Present, LoadMissing
  <1> QED BY <1>3, <1>4, <1>5, <1>6, <1>7, <1>8 DEF FileInv

LEMMA LoadFailsFile ==
    ASSUME FileInv, LoadFails PROVE FileInv'
  <1> USE MaxVersionAssumption, MaxDamageAssumption, MaxFailuresAssumption, NoneAssumption,
          TornAssumption, MistypedAssumption, ForeignAssumption
  <1>1. op' = Idle /\ op' \in OpState /\ op'.pc = "idle"
    BY IdleTypes DEF LoadFails, Down, Idle
  <1>2. /\ AfterPowerLoss("main")' = AfterPowerLoss("main")
        /\ AfterPowerLoss("bak")' = AfterPowerLoss("bak")
    BY DEF LoadFails, AfterPowerLoss
  <1>3. TypeOK'
    BY <1>1 DEF FileInv, TypeOK, LoadFails
  <1>4. Order'
    BY <1>2 DEF FileInv, Order, LoadFails, Names
  <1>5. OpOK'
    BY <1>1 DEF OpOK, Writing
  <1>6. Untouched'
    BY <1>1, <1>2 DEF FileInv, Untouched, LoadFails, AllFrom, Writing
  <1>7. TouchedOnce'
    BY <1>1, <1>2 DEF FileInv, TouchedOnce, LoadFails, AllFrom, Kept, Writing
  <1>8. Present'
    BY <1>1, <1>2 DEF FileInv, Present, LoadFails
  <1> QED BY <1>3, <1>4, <1>5, <1>6, <1>7, <1>8 DEF FileInv

LEMMA LoadTaskFile ==
    ASSUME FileInv, LoadTask PROVE FileInv'
  <1> USE MaxVersionAssumption, MaxDamageAssumption, MaxFailuresAssumption, NoneAssumption,
          TornAssumption, MistypedAssumption, ForeignAssumption
  <1> DEFINE main == file["main"]
  <1>1. main \in AfterPowerLoss("main") /\ main \in Versions \cup {Foreign} /\ Accept(main)
    BY DEF LoadTask, Accept, AfterPowerLoss, Versions
  <1>2. /\ AfterPowerLoss("main")' = AfterPowerLoss("main")
        /\ AfterPowerLoss("bak")' = AfterPowerLoss("bak")
    BY DEF LoadTask, AfterPowerLoss
  <1>3. CASE op' = Idle
    <2>1. op' \in OpState /\ op'.pc = "idle" /\ next' = next /\ mem' \in Versions \cup {None}
      BY <1>1, <1>3, AcceptStep DEF FileInv, TypeOK, Idle
    <2>2. TypeOK'
      BY <2>1 DEF FileInv, TypeOK, LoadTask
    <2>3. Order'
      BY <2>1, <1>2 DEF FileInv, Order, LoadTask, Names
    <2>4. OpOK'
      BY <2>1 DEF OpOK, Writing
    <2>5. Untouched'
      BY <2>1, <1>2 DEF FileInv, Untouched, LoadTask, AllFrom, Writing
    <2>6. TouchedOnce'
      BY <2>1, <1>2 DEF FileInv, TouchedOnce, LoadTask, AllFrom, Kept, Writing
    <2>7. Present'
      BY <2>1, <1>2 DEF FileInv, Present, LoadTask
    <2> QED BY <2>2, <2>3, <2>4, <2>5, <2>6, <2>7 DEF FileInv
  <1>4. CASE op' # Idle
    <2>1. /\ main = 0 /\ next \in Versions /\ next >= 1 /\ next' = next + 1 /\ mem' = mem
          /\ op' \in OpState
          /\ op'.pc = "write" /\ op'.kind = "migrate" /\ op'.name = "main"
          /\ op'.data = next /\ op'.unread = FALSE
      BY <1>1, <1>4, AcceptStep DEF FileInv
    <2>2. TypeOK'
      BY <2>1 DEF FileInv, TypeOK, LoadTask, IsJson, Versions
    <2>3. Order'
      BY <2>1, <1>2 DEF FileInv, TypeOK, Order, LoadTask, Names, Versions
    <2>4. OpOK'
      BY <2>1 DEF FileInv, TypeOK, Order, OpOK, LoadTask, Writing, Updating, IsJson, Versions
    <2>5. Untouched'
      BY <1>1, <1>2, <2>1 DEF FileInv, TypeOK, Untouched, LoadTask, AllFrom, Writing, Updating,
                              Versions
    <2>6. TouchedOnce'
      BY <1>1, <1>2, <2>1 DEF FileInv, TypeOK, Order, TouchedOnce, LoadTask, AllFrom, Kept,
                              Writing, Versions
    <2>7. Present'
      BY <1>2, <2>1 DEF FileInv, Present, LoadTask
    <2> QED BY <2>2, <2>3, <2>4, <2>5, <2>6, <2>7 DEF FileInv
  <1> QED BY <1>3, <1>4

LEMMA LoadDamagedFile ==
    ASSUME FileInv, LoadDamaged PROVE FileInv'
  <1> USE MaxVersionAssumption, MaxDamageAssumption, MaxFailuresAssumption, NoneAssumption,
          TornAssumption, MistypedAssumption, ForeignAssumption
  <1> DEFINE bak == file["bak"]
  <1>1. /\ op.pc = "down" /\ file["main"] \in {Torn, Mistyped}
        /\ file["main"] \in AfterPowerLoss("main")
        /\ bak \in AfterPowerLoss("bak") /\ bak \in Content
    BY DEF FileInv, TypeOK, LoadDamaged, AfterPowerLoss, Names
  <1>2. /\ AfterPowerLoss("main")' = AfterPowerLoss("main")
        /\ AfterPowerLoss("bak")' = AfterPowerLoss("bak")
    BY DEF LoadDamaged, AfterPowerLoss
  <1>3. damages # 0
    BY <1>1 DEF FileInv, Untouched, Versions
  <1>4. CASE ~Unmarshals(bak)
    <2>1. op' = Idle /\ op' \in OpState /\ op'.pc = "idle"
      BY <1>4, IdleTypes DEF LoadDamaged, Idle
    <2>2. TypeOK'
      BY <2>1 DEF FileInv, TypeOK, LoadDamaged
    <2>3. Order' /\ OpOK'
      BY <1>2, <2>1 DEF FileInv, Order, OpOK, LoadDamaged, Names, Writing
    <2>4. Untouched' /\ TouchedOnce'
      BY <1>2, <1>3, <2>1 DEF FileInv, Untouched, TouchedOnce, LoadDamaged, AllFrom, Kept,
                              Writing
    <2>5. Present'
      BY <1>2, <2>1 DEF FileInv, Present, LoadDamaged
    <2> QED BY <2>2, <2>3, <2>4, <2>5 DEF FileInv
  <1>5. CASE Unmarshals(bak)
    <2>1. /\ op' = [Idle EXCEPT !.pc = "write", !.kind = "restore", !.data = bak]
          /\ bak \in Versions \cup {Foreign}
      BY <1>5 DEF LoadDamaged, Unmarshals
    <2>2. /\ op'.pc = "write" /\ op'.kind = "restore" /\ op'.name = "main" /\ op'.data = bak
          /\ op'.unread = FALSE
      BY <2>1 DEF Idle
    <2>3. TypeOK'
      <3>1. "write" \in OpPcs /\ "restore" \in Kinds /\ bak \in Content \ {Torn}
        BY <2>1 DEF OpPcs, Kinds, Content, Versions
      <3>2. op' \in OpState
        BY <2>1, <3>1, IdleTypes, OpTypes
      <3> QED BY <2>1, <2>2, <3>2 DEF FileInv, TypeOK, LoadDamaged, IsJson
    <2>4. Order'
      BY <1>2 DEF FileInv, Order, LoadDamaged, Names
    <2>5. OpOK'
      BY <1>1, <1>3, <2>1, <2>2 DEF FileInv, TypeOK, Order, OpOK, LoadDamaged, Writing, Updating,
                                    IsJson, Unmarshals, Names
    <2>6. Untouched'
      BY <1>3 DEF Untouched, LoadDamaged
    <2>7. TouchedOnce'
      BY <1>1, <1>2, <2>2 DEF FileInv, TouchedOnce, LoadDamaged, AllFrom, Kept, Writing, NoRecord,
                              Versions
    <2>8. Present'
      BY <1>2, <2>2 DEF FileInv, Present, LoadDamaged
    <2> QED BY <2>3, <2>4, <2>5, <2>6, <2>7, <2>8 DEF FileInv
  <1> QED BY <1>4, <1>5

LEMMA KillFile ==
    ASSUME FileInv, Kill PROVE FileInv'
  <1> USE MaxVersionAssumption, MaxDamageAssumption, MaxFailuresAssumption, NoneAssumption,
          TornAssumption, MistypedAssumption, ForeignAssumption
  <1>1. op' = Down /\ op' \in OpState /\ op'.pc = "down"
    BY IdleTypes DEF Kill, Down, Idle
  <1>2. /\ AfterPowerLoss("main")' = AfterPowerLoss("main")
        /\ AfterPowerLoss("bak")' = AfterPowerLoss("bak")
    BY DEF Kill, AfterPowerLoss
  <1>3. TypeOK'
    BY <1>1 DEF FileInv, TypeOK, Kill
  <1>4. Order'
    BY <1>2 DEF FileInv, Order, Kill, Names
  <1>5. OpOK'
    BY <1>1 DEF OpOK, Writing
  <1>6. Untouched'
    BY <1>1, <1>2 DEF FileInv, Untouched, Kill, AllFrom, Writing
  <1>7. TouchedOnce'
    BY <1>1, <1>2 DEF FileInv, TouchedOnce, Kill, AllFrom, Kept, Writing
  <1>8. Present'
    BY <1>1, <1>2 DEF FileInv, Present, Kill
  <1> QED BY <1>3, <1>4, <1>5, <1>6, <1>7, <1>8 DEF FileInv

LEMMA PowerLossFile ==
    ASSUME FileInv, PowerLoss PROVE FileInv'
  <1> USE MaxVersionAssumption, MaxDamageAssumption, MaxFailuresAssumption, NoneAssumption,
          TornAssumption, MistypedAssumption, ForeignAssumption
  <1>1. op' = Down /\ op' \in OpState /\ op'.pc = "down"
    BY IdleTypes DEF PowerLoss, Down, Idle
  <1>2. /\ AfterPowerLoss("main")' \subseteq AfterPowerLoss("main")
        /\ AfterPowerLoss("bak")' \subseteq AfterPowerLoss("bak")
        /\ file' \in [Names -> Content] /\ stale' \in [Names -> SUBSET Content]
    <2>1. PICK main \in AfterPowerLoss("main"), bak \in AfterPowerLoss("bak") :
             file' = [name \in Names |-> IF name = "main" THEN main ELSE bak]
      BY DEF PowerLoss
    <2>2. /\ AfterPowerLoss("main") \subseteq Content
          /\ AfterPowerLoss("bak") \subseteq Content
      BY DEF FileInv, TypeOK, AfterPowerLoss, Names
    <2>3. stale' = [name \in Names |-> {}]
      BY DEF PowerLoss
    <2> QED BY <2>1, <2>2, <2>3 DEF AfterPowerLoss, Names
  <1>3. TypeOK'
    BY <1>1, <1>2 DEF FileInv, TypeOK, PowerLoss
  <1>4. Order'
    BY <1>2 DEF FileInv, Order, PowerLoss, Names
  <1>5. OpOK'
    BY <1>1 DEF OpOK, Writing
  <1>6. Untouched'
    BY <1>1, <1>2 DEF FileInv, Untouched, PowerLoss, AllFrom, Writing
  <1>7. TouchedOnce'
    BY <1>1, <1>2 DEF FileInv, TouchedOnce, PowerLoss, AllFrom, Kept, Writing
  <1>8. Present'
    BY <1>1, <1>2 DEF FileInv, Present, PowerLoss
  <1> QED BY <1>3, <1>4, <1>5, <1>6, <1>7, <1>8 DEF FileInv

LEMMA DamageFile ==
    ASSUME FileInv, Damage PROVE FileInv'
  <1> USE MaxVersionAssumption, MaxDamageAssumption, MaxFailuresAssumption, NoneAssumption,
          TornAssumption, MistypedAssumption, ForeignAssumption
  <1>1. TypeOK'
    BY DEF FileInv, TypeOK, Damage, Content, Names
  <1>2. Order'
    BY DEF FileInv, TypeOK, Order, Damage, Content, Versions, AfterPowerLoss, Names
  <1>3. OpOK'
    BY DEF FileInv, TypeOK, Order, OpOK, Damage, AfterPowerLoss, Updating, Writing
  <1>4. Untouched'
    BY DEF FileInv, TypeOK, OpOK, Untouched, Damage, Updating, Writing
  <1>5. TouchedOnce'
    BY DEF FileInv, TypeOK, OpOK, Untouched, TouchedOnce, Damage, OpState, Versions,
           Kinds, AfterPowerLoss, AllFrom, Kept, NoRecord, Updating, Writing
  <1>6. Present'
    <2>1. /\ file'["main"] \in {Torn} \cup NoRecord /\ file'["bak"] = file["bak"]
          /\ stale' = stale /\ op' = op /\ acked' = acked
      BY DEF FileInv, TypeOK, Damage, NoRecord, Names
    <2> QED BY <2>1 DEF FileInv, Present, AfterPowerLoss, NoRecord
  <1> QED BY <1>1, <1>2, <1>3, <1>4, <1>5, <1>6 DEF FileInv

(* Every step keeps the invariant. *)
LEMMA NextFile == FileInv /\ [Next]_vars => FileInv'
  <1> SUFFICES ASSUME FileInv, [Next]_vars PROVE FileInv'
    OBVIOUS
  <1>1. CASE UNCHANGED vars
    BY <1>1 DEF vars, FileInv, TypeOK, Order, OpOK, Untouched, TouchedOnce, Present,
                AfterPowerLoss, AllFrom, Kept, NoRecord, Updating, Writing
  <1>2. CASE Next
    BY <1>2, ChangeFile, ChangeInPlaceFile, ReadCurrentFile, ReadCurrentFailsFile,
       WriteTempFile, SyncTempFile, RenameFile, SyncDirectoryFile, WriteFailsFile,
       LoadMissingFile, LoadFailsFile, LoadTaskFile, LoadDamagedFile, KillFile,
       PowerLossFile, DamageFile
       DEF Next
  <1> QED BY <1>1, <1>2

THEOREM FileInvariant == Spec => []FileInv
  BY InitFile, NextFile, PTL DEF Spec

(* The variables keep their types. *)
THEOREM FileTypes == Spec => []TypeOK
  <1>1. FileInv => TypeOK
    BY DEF FileInv
  <1> QED BY <1>1, FileInvariant, PTL

(* A change reported as stored survives every failed call, kill and power  *)
(* loss: nothing else that meta.json can turn out to hold is older, or a   *)
(* part of a record.                                                       *)
THEOREM StoredChangesSurvive == Spec => []AckedSurvives
  <1>1. FileInv => AckedSurvives
    BY DEF FileInv, Untouched, AckedSurvives, AllFrom
  <1> QED BY <1>1, FileInvariant, PTL

(* Damage to meta.json at one moment, with any crashes and failed calls    *)
(* around it, loses at most the last stored change and those before it     *)
(* that made no backup because meta.json could not be read, as long as     *)
(* what the damage leaves is not itself copied over the backup.            *)
THEOREM DamageIsBounded == Spec => []DamageCostsOneChange
  <1>1. FileInv => DamageCostsOneChange
    <2> SUFFICES ASSUME FileInv, before # None, damages <= 1, BackupSpared
                 PROVE  AllFrom("main", before) \/ AllFrom("bak", before)
      BY DEF DamageCostsOneChange, AllFrom
    <2>1. acked \in Versions /\ before \in Versions /\ before <= acked
      BY DEF FileInv, TypeOK, Order
    <2>2. AllFrom("main", acked) => AllFrom("main", before)
      BY <2>1, MaxVersionAssumption DEF AllFrom, Versions
    <2>3. Kept("bak", before) => AllFrom("bak", before)
      BY DEF Kept, AllFrom, BackupSpared, NoRecord
    <2> QED BY <2>2, <2>3 DEF FileInv, TouchedOnce
  <1> QED BY <1>1, FileInvariant, PTL

(* A start of the service in which no call fails finds such a task again,  *)
(* in meta.json or in its backup, unless meta.json is another task's.      *)
THEOREM RestartFindsTask == Spec => TaskIsFound
  <1> USE MaxVersionAssumption, NoneAssumption, TornAssumption, MistypedAssumption,
          ForeignAssumption
  <1>1. ASSUME FileInv, Next, Loading, op'.pc = "idle", failures' = failures, before # None,
               damages <= 1, BackupSpared, file["main"] # Foreign
        PROVE  mem' # None
    <2>1. /\ acked # None /\ acked \in Versions /\ before \in Versions /\ before >= 0
          /\ file["main"] # None /\ file["main"] \in AfterPowerLoss("main")
          /\ file["bak"] \in AfterPowerLoss("bak")
      BY <1>1 DEF FileInv, TypeOK, Order, Present, AfterPowerLoss, Versions
    <2>2. CASE LoadTask
      <3>1. Accept(file["main"])
        BY <2>2 DEF LoadTask
      <3>2. file["main"] \in Versions \ {0} /\ mem' = file["main"]
        BY <1>1, <3>1 DEF Accept, Idle
      <3> QED BY <3>2 DEF Versions
    <2>3. CASE LoadDamaged
      <3>1. ~AllFrom("main", acked)
        BY <2>1, <2>3 DEF LoadDamaged, AllFrom, Versions
      <3>2. Kept("bak", before)
        BY <1>1, <3>1 DEF FileInv, TouchedOnce
      <3>3. Unmarshals(file["bak"])
        BY <1>1, <2>1, <3>2 DEF Kept, BackupSpared, NoRecord, Unmarshals
      <3> QED BY <1>1, <2>3, <3>3 DEF LoadDamaged, Idle
    <2>4. CASE SyncDirectory
      <3>1. /\ op.pc = "syncdir" /\ Writing /\ op.kind \in {"restore", "migrate"}
            /\ op.name = "main"
        BY <1>1, <2>4 DEF FileInv, OpOK, Writing, Loading, SyncDirectory
      <3>2. CASE op.kind = "migrate"
        <4>1. mem' = op.data /\ op.data \in Versions
          BY <1>1, <2>4, <3>1, <3>2 DEF FileInv, OpOK, SyncDirectory, Stored, Restored
        <4> QED BY <4>1 DEF Versions
      <3>3. CASE op.kind = "restore"
        <4>1. Accept(op.data)
          BY <2>4, <3>1, <3>3 DEF SyncDirectory, Stored, Restored
        <4>2. op.data = file["bak"]
          BY <1>1, <3>1, <3>3 DEF FileInv, TouchedOnce
        <4>3. op.data # Foreign
          BY <1>1, <2>1, <4>2 DEF BackupSpared
        <4>4. op.data \in Versions \ {0} /\ mem' = op.data
          BY <1>1, <4>1, <4>3 DEF Accept, Idle
        <4> QED BY <4>4 DEF Versions
      <3> QED BY <3>1, <3>2, <3>3
    <2>5. ~WriteFails /\ ~LoadFails
      <3>1. failures \in Nat
        BY <1>1, MaxFailuresAssumption DEF FileInv, TypeOK
      <3> QED BY <1>1, <3>1 DEF WriteFails, LoadFails
    <2>6. ~Change /\ ~ChangeInPlace /\ ~ReadCurrent /\ ~ReadCurrentFails
      BY <1>1 DEF Loading, Change, ChangeInPlace, ReadCurrent, ReadCurrentFails, FileInv, OpOK,
                  Updating
    <2>7. ~WriteTemp /\ ~SyncTemp /\ ~Rename
      BY <1>1 DEF FileInv, TypeOK, OpState, WriteTemp, SyncTemp, Rename
    <2>8. ~LoadMissing /\ ~Kill /\ ~PowerLoss
      BY <1>1, <2>1 DEF LoadMissing, Kill, PowerLoss, Down, Idle
    <2>9. ~Damage
      BY <1>1 DEF Loading, Damage
    <2> QED BY <1>1, <2>2, <2>3, <2>4, <2>5, <2>6, <2>7, <2>8, <2>9 DEF Next
  <1>2. FileInv /\ [Next]_vars =>
           [(/\ Loading /\ op'.pc = "idle" /\ failures' = failures
             /\ before # None /\ damages <= 1 /\ BackupSpared /\ file["main"] # Foreign)
            => mem' # None]_vars
    BY <1>1
  <1> QED BY <1>2, FileInvariant, PTL DEF Spec, TaskIsFound
=============================================================================
