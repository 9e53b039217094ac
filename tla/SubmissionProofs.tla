-------------------------- MODULE SubmissionProofs ---------------------------
(***************************************************************************)
(* Submission and provider settings for every number of tasks, workers,    *)
(* requests, environments, hosts, restarts and failing calls.              *)
(***************************************************************************)
EXTENDS Submission, SequenceTheorems, TLAPS

-----------------------------------------------------------------------------
(* The automatic limits against every host. *)

(* A host with 512 MiB besides the reserve keeps the reserve. *)
LEMMA UsableFits ==
    ASSUME NEW b \in Nat, b >= MinimumReserve + 512 * Mib
    PROVE  /\ UsableMib(b) \in Nat
           /\ UsableMib(b) * Mib + MinimumReserve <= b
  <1> USE MibAssumption DEF MibAssumption, MinimumReserve
  <1>1. Reserve(b) \in Nat /\ Reserve(b) >= MinimumReserve
    BY DEF Reserve
  <1>2. CASE b < Reserve(b)
    BY <1>1, <1>2 DEF UsableMib
  <1>3. CASE b >= Reserve(b)
    <2> DEFINE q == (b - Reserve(b)) \div Mib
    <2>1. q \in Nat /\ q * Mib <= b - Reserve(b)
      BY <1>1, <1>3
    <2>2. UsableMib(b) = IF q < 512 THEN 512 ELSE q
      BY <1>1, <1>3 DEF UsableMib
    <2> QED
      BY <1>1, <2>1, <2>2
  <1> QED
    BY <1>1, <1>2, <1>3

(* Rounding to 64 MiB adds nothing and keeps the floor. *)
LEMMA RoundedDown ==
    ASSUME NEW m \in Nat
    PROVE  /\ (m \div 64) * 64 \in Nat
           /\ (m \div 64) * 64 <= m
           /\ m >= 512 => (m \div 64) * 64 >= 512
  OBVIOUS

(* With "auto", a container on a host that is large enough leaves a CPU and
   1 GiB to the others (docker.go:307, DEVELOPMENT.md:39). *)
THEOREM AutoLeavesRoom ==
    ASSUME NEW h \in Host, LargeEnough(h)
    PROVE  LeavesRoom(ResolveDockerResourceLimits(Automatic, Automatic, h), h)
  <1> DEFINE limits == ResolveDockerResourceLimits(Automatic, Automatic, h)
  <1>0. /\ limits.memory = AutoDockerResourceLimits(h).memory
        /\ limits.cpus = AutoDockerResourceLimits(h).cpus
    <2>1. h # NoInfo
      BY MibAssumption DEF MibAssumption
    <2> QED
      BY <2>1 DEF ResolveDockerResourceLimits
  <1> DEFINE m == UsableMib(h.bytes)
  <1>1. h.bytes \in Nat /\ h.cpus \in Nat
    BY DEF Host
  <1>2. m \in Nat /\ m * Mib + MinimumReserve <= h.bytes
    BY <1>1, UsableFits DEF LargeEnough
  <1>3. (m \div 64) * 64 \in Nat /\ (m \div 64) * 64 <= m
    BY <1>2, RoundedDown
  <1>4. ((m \div 64) * 64) * Mib <= m * Mib
    <2> DEFINE r == (m \div 64) * 64
    <2> HIDE DEF r, m
    <2> QED
      BY <1>2, <1>3, MibAssumption DEF MibAssumption
  <1>5. AutoDockerResourceLimits(h).memory = (m \div 64) * 64
    BY DEF AutoDockerResourceLimits
  <1>6. AutoDockerResourceLimits(h).cpus + 1 <= h.cpus
    BY <1>1 DEF AutoDockerResourceLimits, LargeEnough
  <1>7. AutoDockerResourceLimits(h).memory * Mib + MinimumReserve <= h.bytes
    <2> DEFINE r == (m \div 64) * 64
    <2> HIDE DEF r, m
    <2> QED
      BY <1>1, <1>2, <1>3, <1>4, <1>5, MibAssumption
         DEF MibAssumption, MinimumReserve
  <1> QED
    BY <1>0, <1>6, <1>7 DEF LeavesRoom

-----------------------------------------------------------------------------
(* A request in progress asks for a configured format, and the active one is
   configured as soon as a request has passed the check. *)
ProviderInv ==
    /\ \A s \in Switchers :
          switch[s].step \in {"save", "switch"} => switch[s].format \in ConfiguredIn(env)
    /\ \A t \in Tasks :
          post[t] \in InFlight \cup {"accepted"} => active \in ConfiguredIn(env)

(* Unless requests crossed, a request about to switch the memory has saved what
   the file holds. *)
SavedInv ==
    ~apart => \A s \in Switchers :
                 switch[s].step = "switch" => switch[s].format = file

(* Nothing of this process will run the task, or has. *)
NotOwned(t) ==
    /\ t \notin recover
    /\ \A i \in 1..Len(queue) : queue[i] # t
    /\ \A w \in Workers : worker[w].step # "idle" => worker[w].task # t
    /\ launched[t] = NotLaunched

OwnerInv ==
    \A t \in Tasks :
        \/ post[t] \in {"new"} \cup InFlight
        \/ post[t] = "refused" /\ mishaps <= 1
        => NotOwned(t)

(* What a restart would queue again. *)
Live == {"queued", "running"}

FreshInv ==
    \A t \in Tasks : post[t] \in {"new", "save", "submit", "add"} =>
        disk[t] = "none" /\ removed[t] = "none" /\ mem[t] = "none" /\ t \notin stop

RemovedInv ==
    \A t \in Tasks : post[t] \in InFlight => removed[t] = "none"

(* A task that is refused is not live on the disk: neither before its directory
   is removed nor, after one failing call, behind it. *)
UndoneInv ==
    \A t \in Tasks :
        /\ post[t] = "undo" /\ mishaps = 0 => disk[t] \notin Live
        /\ post[t] = "refused" /\ mishaps <= 1 => disk[t] \notin Live
        /\ post[t] = "refused" /\ mishaps = 0 => removed[t] \notin Live

DiskInv == FreshInv /\ RemovedInv /\ UndoneInv

(* A container was given the limits of this host, or the default ones. *)
HostInv ==
    \A t \in Tasks : launched[t] # NotLaunched => launched[t].info \in {host, NoInfo}

Inv ==
    /\ TypeOK
    /\ ProviderInv /\ SavedInv /\ SelectionSurvives
    /\ OwnerInv /\ DiskInv
    /\ RunHasProvider /\ HostInv

-----------------------------------------------------------------------------
(* A configured format is a format, and so is what a run is given. *)
LEMMA ConfiguredFormats == \A e : ConfiguredIn(e) \subseteq Formats
  BY DEF ConfiguredIn

LEMMA DefaultIsFormat == \A e \in Environments : DefaultFormat(e) \in Formats
  BY ProviderAssumption
     DEF ProviderAssumption, Environment, DefaultFormat, Formats

LEMMA LoadedIsFormat ==
    \A e \in Environments : \A f : LoadProviderFormat(e, f) \in Formats
  BY DefaultIsFormat, ConfiguredFormats DEF LoadProviderFormat

LEMMA RunProviderIsFormat == TypeOK => RunProvider \in Formats
  BY DefaultIsFormat, ConfiguredFormats
     DEF RunProvider, TypeOK, ProviderTypeOK

(* Every step keeps the types. *)
LEMMA TypeNext ==
    TypeOK /\ [Next]_vars => TypeOK'
  <1> SUFFICES ASSUME TypeOK, [Next]_vars PROVE TypeOK'
    OBVIOUS
  <1> USE SubmissionAssumption, ProviderAssumption DEF SubmissionAssumption,
     ProviderAssumption, TypeOK, ProviderTypeOK, Pending, PostState, InFlight,
     Status, WorkerState, Idle, Launch, providerVars
  <1>1. ASSUME SwitchNext PROVE TypeOK'
    <2>1. ASSUME NEW s \in Switchers, NEW f \in Formats, SwitchCheck(s, f)
          PROVE  TypeOK'
      BY <1>1, <2>1 DEF SwitchNext, SwitchCheck, taskVars
    <2>2. ASSUME NEW s \in Switchers, SwitchSave(s) PROVE TypeOK'
      BY <1>1, <2>2 DEF SwitchNext, SwitchSave, taskVars
    <2>3. ASSUME NEW s \in Switchers, SwitchSaveFails(s) PROVE TypeOK'
      BY <1>1, <2>3 DEF SwitchNext, SwitchSaveFails, taskVars
    <2>4. ASSUME NEW s \in Switchers, SwitchMemory(s) PROVE TypeOK'
      BY <1>1, <2>4 DEF SwitchNext, SwitchMemory, taskVars
    <2> QED
      BY <1>1, <2>1, <2>2, <2>3, <2>4 DEF SwitchNext, ProviderNext
  <1>2. ASSUME NEW t \in Tasks, PostNext(t) PROVE TypeOK'
    <2>1. CASE PostCheck(t)
      BY <2>1 DEF PostCheck, Goes
    <2>2. CASE PostSave(t)
      BY <2>2 DEF PostSave, Goes
    <2>3. CASE PostSaveFails(t)
      BY <2>3 DEF PostSaveFails, Goes
    <2>4. CASE PostSubmit(t)
      BY <2>4 DEF PostSubmit, Goes, CanEnqueue
    <2>5. CASE PostAdd(t)
      BY <2>5 DEF PostAdd, Goes, Mark
    <2>6. CASE PostAddFails(t)
      BY <2>6 DEF PostAddFails, Goes, MarkFails, Mishap
    <2>7. CASE PostEnqueue(t)
      BY <2>7 DEF PostEnqueue, Goes, CanEnqueue
    <2>8. CASE PostFull(t)
      BY <2>8 DEF PostFull, Goes, CanEnqueue
    <2>9. CASE PostMarkFailed(t)
      BY <2>9 DEF PostMarkFailed, Goes, Mark
    <2>10. CASE PostMarkFailedFails(t)
      BY <2>10 DEF PostMarkFailedFails, Goes, MarkFails, Mishap
    <2>11. CASE PostUndo(t)
      BY <2>11 DEF PostUndo, Goes
    <2>12. CASE PostUndoFails(t)
      BY <2>12 DEF PostUndoFails, Goes, Mishap
    <2> QED
      BY <1>2, <2>1, <2>2, <2>3, <2>4, <2>5, <2>6, <2>7, <2>8, <2>9, <2>10,
         <2>11, <2>12 DEF PostNext
  <1>3. ASSUME NEW t \in Tasks, TaskNext(t) PROVE TypeOK'
    <2>1. CASE StopGet(t)
      BY <2>1 DEF StopGet
    <2>2. CASE StopMark(t)
      BY <2>2 DEF StopMark, Mark
    <2>3. CASE StopMarkFails(t)
      BY <2>3 DEF StopMarkFails, MarkFails, Mishap
    <2>4. CASE Recover(t)
      BY <2>4 DEF Recover, CanEnqueue, Mark
    <2>5. CASE RecoverFails(t)
      BY <2>5 DEF RecoverFails, MarkFails, Mishap
    <2> QED
      BY <1>3, <2>1, <2>2, <2>3, <2>4, <2>5 DEF TaskNext
  <1>4. ASSUME NEW w \in Workers, WorkerNext(w) PROVE TypeOK'
    <2>1. CASE Pick(w)
      BY <2>1 DEF Pick
    <2>2. CASE WorkerMarkRunning(w)
      BY <2>2 DEF WorkerMarkRunning, Mark, Step
    <2>3. CASE WorkerMarkRunningFails(w)
      <3> DEFINE t == worker[w].task
      <3>1. t \in Tasks /\ mishaps' \in 0..MaxMishaps
        BY <2>3 DEF WorkerMarkRunningFails, Step, MarkFails, Mishap
      <3>2. disk' \in [Tasks -> Status]
        BY <2>3, <3>1 DEF WorkerMarkRunningFails, MarkFails
      <3>3. worker' \in [Workers -> WorkerState]
        BY <2>3 DEF WorkerMarkRunningFails, Step
      <3>4. \A v \in Workers : worker'[v].step # "idle" => worker'[v].task \in Tasks
        BY <2>3, <3>3 DEF WorkerMarkRunningFails, Step
      <3> QED
        BY <2>3, <3>1, <3>2, <3>3, <3>4 DEF WorkerMarkRunningFails, MarkFails, Mishap
    <2>4. CASE WorkerLaunch(w)
      BY <2>4, RunProviderIsFormat DEF WorkerLaunch, Step
    <2>5. CASE WorkerName(w)
      BY <2>5 DEF WorkerName, Mark, Step
    <2>6. CASE WorkerNameFails(w)
      <3> DEFINE t == worker[w].task
      <3>1. t \in Tasks /\ mishaps' \in 0..MaxMishaps
        BY <2>6 DEF WorkerNameFails, Step, MarkFails, Mishap
      <3>2. disk' \in [Tasks -> Status]
        BY <2>6, <3>1 DEF WorkerNameFails, MarkFails
      <3>3. worker' \in [Workers -> WorkerState]
        BY <2>6 DEF WorkerNameFails, Step
      <3>4. \A v \in Workers : worker'[v].step # "idle" => worker'[v].task \in Tasks
        BY <2>6, <3>3 DEF WorkerNameFails, Step
      <3> QED
        BY <2>6, <3>1, <3>2, <3>3, <3>4 DEF WorkerNameFails, MarkFails, Mishap
    <2>7. CASE WorkerFinish(w)
      BY <2>7 DEF WorkerFinish, Mark, Step
    <2> QED
      BY <1>4, <2>1, <2>2, <2>3, <2>4, <2>5, <2>6, <2>7 DEF WorkerNext
  <1>5. ASSUME NEW lost \in BOOLEAN, Restart(lost) PROVE TypeOK'
    <2>1. env' \in Environments /\ active' \in Formats
      BY <1>5, LoadedIsFormat DEF Restart, LoadSettings
    <2>2. file' \in Formats \cup {NoFormat}
      BY <1>5 DEF Restart, LoadSettings
    <2>3. mishaps' \in 0..MaxMishaps
      BY <1>5 DEF Restart
    <2>4. ProviderTypeOK'
      BY <1>5, <2>1, <2>2, <2>3 DEF Restart, LoadSettings, NoSwitch
    <2>5. disk' \in [Tasks -> Status] /\ mem' = disk' /\ recover' \subseteq Tasks
      BY <1>5 DEF Restart
    <2> QED
      BY <1>5, <2>4, <2>5 DEF Restart
  <1>6. CASE UNCHANGED vars
    BY <1>6 DEF vars, taskVars, providerVars
  <1> QED
    BY <1>1, <1>2, <1>3, <1>4, <1>5, <1>6 DEF Next

(* A step cannot make the active format one without a profile. *)
LEMMA ProviderInvNext ==
    TypeOK /\ ProviderInv /\ [Next]_vars => ProviderInv'
  <1> SUFFICES ASSUME TypeOK, ProviderInv, [Next]_vars PROVE ProviderInv'
    OBVIOUS
  <1> USE DEF ProviderInv, TypeOK, ProviderTypeOK, InFlight, providerVars
  <1>1. ASSUME SwitchNext PROVE ProviderInv'
    <2>1. ASSUME NEW s \in Switchers, NEW f \in Formats, SwitchCheck(s, f)
          PROVE  ProviderInv'
      BY <1>1, <2>1 DEF SwitchNext, SwitchCheck, taskVars
    <2>2. ASSUME NEW s \in Switchers, SwitchSave(s) PROVE ProviderInv'
      BY <1>1, <2>2 DEF SwitchNext, SwitchSave, taskVars
    <2>3. ASSUME NEW s \in Switchers, SwitchSaveFails(s) PROVE ProviderInv'
      BY <1>1, <2>3 DEF SwitchNext, SwitchSaveFails, taskVars
    <2>4. ASSUME NEW s \in Switchers, SwitchMemory(s) PROVE ProviderInv'
      BY <1>1, <2>4 DEF SwitchNext, SwitchMemory, taskVars
    <2> QED
      BY <1>1, <2>1, <2>2, <2>3, <2>4 DEF SwitchNext, ProviderNext
  <1>2. ASSUME NEW t \in Tasks, PostNext(t) PROVE ProviderInv'
    <2>1. CASE PostCheck(t)
      BY <2>1 DEF PostCheck, Goes, ProviderUsable
    <2>2. CASE PostSave(t)
      BY <2>2 DEF PostSave, Goes
    <2>3. CASE PostSaveFails(t)
      BY <2>3 DEF PostSaveFails, Goes
    <2>4. CASE PostSubmit(t)
      BY <2>4 DEF PostSubmit, Goes, CanEnqueue
    <2>5. CASE PostAdd(t)
      BY <2>5 DEF PostAdd, Goes, Mark
    <2>6. CASE PostAddFails(t)
      BY <2>6 DEF PostAddFails, Goes, MarkFails, Mishap
    <2>7. CASE PostEnqueue(t)
      BY <2>7 DEF PostEnqueue, Goes, CanEnqueue
    <2>8. CASE PostFull(t)
      BY <2>8 DEF PostFull, Goes, CanEnqueue
    <2>9. CASE PostMarkFailed(t)
      BY <2>9 DEF PostMarkFailed, Goes, Mark
    <2>10. CASE PostMarkFailedFails(t)
      BY <2>10 DEF PostMarkFailedFails, Goes, MarkFails, Mishap
    <2>11. CASE PostUndo(t)
      BY <2>11 DEF PostUndo, Goes
    <2>12. CASE PostUndoFails(t)
      BY <2>12 DEF PostUndoFails, Goes, Mishap
    <2> QED
      BY <1>2, <2>1, <2>2, <2>3, <2>4, <2>5, <2>6, <2>7, <2>8, <2>9, <2>10,
         <2>11, <2>12 DEF PostNext
  <1>3. ASSUME NEW t \in Tasks, TaskNext(t) PROVE ProviderInv'
    <2>1. CASE StopGet(t)
      BY <2>1 DEF StopGet
    <2>2. CASE StopMark(t)
      BY <2>2 DEF StopMark, Mark
    <2>3. CASE StopMarkFails(t)
      BY <2>3 DEF StopMarkFails, MarkFails, Mishap
    <2>4. CASE Recover(t)
      BY <2>4 DEF Recover, CanEnqueue, Mark
    <2>5. CASE RecoverFails(t)
      BY <2>5 DEF RecoverFails, MarkFails, Mishap
    <2> QED
      BY <1>3, <2>1, <2>2, <2>3, <2>4, <2>5 DEF TaskNext
  <1>4. ASSUME NEW w \in Workers, WorkerNext(w) PROVE ProviderInv'
    <2>1. CASE Pick(w)
      BY <2>1 DEF Pick
    <2>2. CASE WorkerMarkRunning(w)
      BY <2>2 DEF WorkerMarkRunning, Mark, Step
    <2>3. CASE WorkerMarkRunningFails(w)
      BY <2>3 DEF WorkerMarkRunningFails, MarkFails, Mishap, Step
    <2>4. CASE WorkerLaunch(w)
      BY <2>4 DEF WorkerLaunch, Step
    <2>5. CASE WorkerName(w)
      BY <2>5 DEF WorkerName, Mark, Step
    <2>6. CASE WorkerNameFails(w)
      BY <2>6 DEF WorkerNameFails, MarkFails, Mishap, Step
    <2>7. CASE WorkerFinish(w)
      BY <2>7 DEF WorkerFinish, Mark, Step
    <2> QED
      BY <1>4, <2>1, <2>2, <2>3, <2>4, <2>5, <2>6, <2>7 DEF WorkerNext
  <1>5. ASSUME NEW lost \in BOOLEAN, Restart(lost) PROVE ProviderInv'
    BY <1>5 DEF Restart, LoadSettings, NoSwitch, PostState
  <1>6. CASE UNCHANGED vars
    BY <1>6 DEF vars, taskVars, providerVars
  <1> QED
    BY <1>1, <1>2, <1>3, <1>4, <1>5, <1>6 DEF Next

(* A task comes into the hands of the process only when it is accepted, or
   recovered from what the disk holds. *)
LEMMA OwnerInvNext ==
    TypeOK /\ OwnerInv /\ DiskInv /\ [Next]_vars => OwnerInv'
  <1> SUFFICES ASSUME TypeOK, OwnerInv, DiskInv, [Next]_vars PROVE OwnerInv'
    OBVIOUS
  <1> USE DEF OwnerInv, NotOwned, TypeOK, ProviderTypeOK, InFlight,
     WorkerState, providerVars
  <1>1. ASSUME SwitchNext PROVE OwnerInv'
    <2>1. ASSUME NEW s \in Switchers, NEW f \in Formats, SwitchCheck(s, f)
          PROVE  OwnerInv'
      BY <1>1, <2>1 DEF SwitchNext, SwitchCheck, taskVars
    <2>2. ASSUME NEW s \in Switchers, SwitchSave(s) PROVE OwnerInv'
      BY <1>1, <2>2 DEF SwitchNext, SwitchSave, taskVars
    <2>3. ASSUME NEW s \in Switchers, SwitchSaveFails(s) PROVE OwnerInv'
      BY <1>1, <2>3 DEF SwitchNext, SwitchSaveFails, taskVars
    <2>4. ASSUME NEW s \in Switchers, SwitchMemory(s) PROVE OwnerInv'
      BY <1>1, <2>4 DEF SwitchNext, SwitchMemory, taskVars
    <2> QED
      BY <1>1, <2>1, <2>2, <2>3, <2>4 DEF SwitchNext, ProviderNext
  <1>2. ASSUME NEW t \in Tasks, PostNext(t) PROVE OwnerInv'
    <2>1. CASE PostCheck(t)
      BY <2>1 DEF PostCheck, Goes
    <2>2. CASE PostSave(t)
      BY <2>2 DEF PostSave, Goes
    <2>3. CASE PostSaveFails(t)
      BY <2>3 DEF PostSaveFails, Goes
    <2>4. CASE PostSubmit(t)
      BY <2>4 DEF PostSubmit, Goes, CanEnqueue
    <2>5. CASE PostAdd(t)
      BY <2>5 DEF PostAdd, Goes, Mark
    <2>6. CASE PostAddFails(t)
      BY <2>6 DEF PostAddFails, Goes, MarkFails, Mishap
    <2>7. CASE PostEnqueue(t)
      BY <2>7 DEF PostEnqueue, Goes, CanEnqueue
    <2>8. CASE PostFull(t)
      BY <2>8 DEF PostFull, Goes, CanEnqueue
    <2>9. CASE PostMarkFailed(t)
      BY <2>9 DEF PostMarkFailed, Goes, Mark
    <2>10. CASE PostMarkFailedFails(t)
      BY <2>10 DEF PostMarkFailedFails, Goes, MarkFails, Mishap
    <2>11. CASE PostUndo(t)
      BY <2>11 DEF PostUndo, Goes
    <2>12. CASE PostUndoFails(t)
      BY <2>12 DEF PostUndoFails, Goes, Mishap
    <2> QED
      BY <1>2, <2>1, <2>2, <2>3, <2>4, <2>5, <2>6, <2>7, <2>8, <2>9, <2>10,
         <2>11, <2>12 DEF PostNext
  <1>3. ASSUME NEW t \in Tasks, TaskNext(t) PROVE OwnerInv'
    <2>1. CASE StopGet(t)
      BY <2>1 DEF StopGet
    <2>2. CASE StopMark(t)
      BY <2>2 DEF StopMark, Mark
    <2>3. CASE StopMarkFails(t)
      BY <2>3 DEF StopMarkFails, MarkFails, Mishap
    <2>4. CASE Recover(t)
      BY <2>4 DEF Recover, CanEnqueue, Mark
    <2>5. CASE RecoverFails(t)
      BY <2>5 DEF RecoverFails, MarkFails, Mishap
    <2> QED
      BY <1>3, <2>1, <2>2, <2>3, <2>4, <2>5 DEF TaskNext
  <1>4. ASSUME NEW w \in Workers, WorkerNext(w) PROVE OwnerInv'
    <2>1. CASE Pick(w)
      BY <2>1 DEF Pick
    <2>2. CASE WorkerMarkRunning(w)
      BY <2>2 DEF WorkerMarkRunning, Mark, Step
    <2>3. CASE WorkerMarkRunningFails(w)
      BY <2>3 DEF WorkerMarkRunningFails, MarkFails, Mishap, Step
    <2>4. CASE WorkerLaunch(w)
      BY <2>4 DEF WorkerLaunch, Step
    <2>5. CASE WorkerName(w)
      BY <2>5 DEF WorkerName, Mark, Step
    <2>6. CASE WorkerNameFails(w)
      BY <2>6 DEF WorkerNameFails, MarkFails, Mishap, Step
    <2>7. CASE WorkerFinish(w)
      BY <2>7 DEF WorkerFinish, Mark, Step
    <2> QED
      BY <1>4, <2>1, <2>2, <2>3, <2>4, <2>5, <2>6, <2>7 DEF WorkerNext
  <1>5. ASSUME NEW lost \in BOOLEAN, Restart(lost) PROVE OwnerInv'
    BY <1>5 DEF Restart, LoadSettings, PostState, DiskInv, FreshInv, UndoneInv, Live, Idle
  <1>6. CASE UNCHANGED vars
    BY <1>6 DEF vars, taskVars, providerVars
  <1> QED
    BY <1>1, <1>2, <1>3, <1>4, <1>5, <1>6 DEF Next

(* Before Store.Add there is nothing of the task. *)
LEMMA FreshInvNext ==
    TypeOK /\ OwnerInv /\ FreshInv /\ [Next]_vars => FreshInv'
  <1> SUFFICES ASSUME TypeOK, OwnerInv, FreshInv, [Next]_vars PROVE FreshInv'
    OBVIOUS
  <1> USE DEF FreshInv, OwnerInv, NotOwned, TypeOK, ProviderTypeOK, InFlight,
     providerVars
  <1>1. ASSUME SwitchNext PROVE FreshInv'
    <2>1. ASSUME NEW s \in Switchers, NEW f \in Formats, SwitchCheck(s, f)
          PROVE  FreshInv'
      BY <1>1, <2>1 DEF SwitchNext, SwitchCheck, taskVars
    <2>2. ASSUME NEW s \in Switchers, SwitchSave(s) PROVE FreshInv'
      BY <1>1, <2>2 DEF SwitchNext, SwitchSave, taskVars
    <2>3. ASSUME NEW s \in Switchers, SwitchSaveFails(s) PROVE FreshInv'
      BY <1>1, <2>3 DEF SwitchNext, SwitchSaveFails, taskVars
    <2>4. ASSUME NEW s \in Switchers, SwitchMemory(s) PROVE FreshInv'
      BY <1>1, <2>4 DEF SwitchNext, SwitchMemory, taskVars
    <2> QED
      BY <1>1, <2>1, <2>2, <2>3, <2>4 DEF SwitchNext, ProviderNext
  <1>2. ASSUME NEW t \in Tasks, PostNext(t) PROVE FreshInv'
    <2>1. CASE PostCheck(t)
      BY <2>1 DEF PostCheck, Goes
    <2>2. CASE PostSave(t)
      BY <2>2 DEF PostSave, Goes
    <2>3. CASE PostSaveFails(t)
      BY <2>3 DEF PostSaveFails, Goes
    <2>4. CASE PostSubmit(t)
      BY <2>4 DEF PostSubmit, Goes, CanEnqueue
    <2>5. CASE PostAdd(t)
      BY <2>5 DEF PostAdd, Goes, Mark
    <2>6. CASE PostAddFails(t)
      BY <2>6 DEF PostAddFails, Goes, MarkFails, Mishap
    <2>7. CASE PostEnqueue(t)
      BY <2>7 DEF PostEnqueue, Goes, CanEnqueue
    <2>8. CASE PostFull(t)
      BY <2>8 DEF PostFull, Goes, CanEnqueue
    <2>9. CASE PostMarkFailed(t)
      BY <2>9 DEF PostMarkFailed, Goes, Mark
    <2>10. CASE PostMarkFailedFails(t)
      BY <2>10 DEF PostMarkFailedFails, Goes, MarkFails, Mishap
    <2>11. CASE PostUndo(t)
      BY <2>11 DEF PostUndo, Goes
    <2>12. CASE PostUndoFails(t)
      BY <2>12 DEF PostUndoFails, Goes, Mishap
    <2> QED
      BY <1>2, <2>1, <2>2, <2>3, <2>4, <2>5, <2>6, <2>7, <2>8, <2>9, <2>10,
         <2>11, <2>12 DEF PostNext
  <1>3. ASSUME NEW t \in Tasks, TaskNext(t) PROVE FreshInv'
    <2>1. CASE StopGet(t)
      BY <2>1 DEF StopGet
    <2>2. CASE StopMark(t)
      BY <2>2 DEF StopMark, Mark
    <2>3. CASE StopMarkFails(t)
      BY <2>3 DEF StopMarkFails, MarkFails, Mishap
    <2>4. CASE Recover(t)
      BY <2>4 DEF Recover, CanEnqueue, Mark
    <2>5. CASE RecoverFails(t)
      BY <2>5 DEF RecoverFails, MarkFails, Mishap
    <2> QED
      BY <1>3, <2>1, <2>2, <2>3, <2>4, <2>5 DEF TaskNext
  <1>4. ASSUME NEW w \in Workers, WorkerNext(w) PROVE FreshInv'
    <2>1. CASE Pick(w)
      BY <2>1 DEF Pick
    <2>2. CASE WorkerMarkRunning(w)
      BY <2>2 DEF WorkerMarkRunning, Mark, Step
    <2>3. CASE WorkerMarkRunningFails(w)
      BY <2>3 DEF WorkerMarkRunningFails, MarkFails, Mishap, Step
    <2>4. CASE WorkerLaunch(w)
      BY <2>4 DEF WorkerLaunch, Step
    <2>5. CASE WorkerName(w)
      BY <2>5 DEF WorkerName, Mark, Step
    <2>6. CASE WorkerNameFails(w)
      BY <2>6 DEF WorkerNameFails, MarkFails, Mishap, Step
    <2>7. CASE WorkerFinish(w)
      BY <2>7 DEF WorkerFinish, Mark, Step
    <2> QED
      BY <1>4, <2>1, <2>2, <2>3, <2>4, <2>5, <2>6, <2>7 DEF WorkerNext
  <1>5. ASSUME NEW lost \in BOOLEAN, Restart(lost) PROVE FreshInv'
    BY <1>5 DEF Restart, LoadSettings, PostState
  <1>6. CASE UNCHANGED vars
    BY <1>6 DEF vars, taskVars, providerVars
  <1> QED
    BY <1>1, <1>2, <1>3, <1>4, <1>5, <1>6 DEF Next

(* A directory is removed only at the end of a request. *)
LEMMA RemovedInvNext ==
    TypeOK /\ FreshInv /\ RemovedInv /\ [Next]_vars => RemovedInv'
  <1> SUFFICES ASSUME TypeOK, FreshInv, RemovedInv, [Next]_vars PROVE RemovedInv'
    OBVIOUS
  <1> USE DEF RemovedInv, FreshInv, TypeOK, ProviderTypeOK, InFlight,
     providerVars
  <1>1. ASSUME SwitchNext PROVE RemovedInv'
    <2>1. ASSUME NEW s \in Switchers, NEW f \in Formats, SwitchCheck(s, f)
          PROVE  RemovedInv'
      BY <1>1, <2>1 DEF SwitchNext, SwitchCheck, taskVars
    <2>2. ASSUME NEW s \in Switchers, SwitchSave(s) PROVE RemovedInv'
      BY <1>1, <2>2 DEF SwitchNext, SwitchSave, taskVars
    <2>3. ASSUME NEW s \in Switchers, SwitchSaveFails(s) PROVE RemovedInv'
      BY <1>1, <2>3 DEF SwitchNext, SwitchSaveFails, taskVars
    <2>4. ASSUME NEW s \in Switchers, SwitchMemory(s) PROVE RemovedInv'
      BY <1>1, <2>4 DEF SwitchNext, SwitchMemory, taskVars
    <2> QED
      BY <1>1, <2>1, <2>2, <2>3, <2>4 DEF SwitchNext, ProviderNext
  <1>2. ASSUME NEW t \in Tasks, PostNext(t) PROVE RemovedInv'
    <2>1. CASE PostCheck(t)
      BY <2>1 DEF PostCheck, Goes
    <2>2. CASE PostSave(t)
      BY <2>2 DEF PostSave, Goes
    <2>3. CASE PostSaveFails(t)
      BY <2>3 DEF PostSaveFails, Goes
    <2>4. CASE PostSubmit(t)
      BY <2>4 DEF PostSubmit, Goes, CanEnqueue
    <2>5. CASE PostAdd(t)
      BY <2>5 DEF PostAdd, Goes, Mark
    <2>6. CASE PostAddFails(t)
      BY <2>6 DEF PostAddFails, Goes, MarkFails, Mishap
    <2>7. CASE PostEnqueue(t)
      BY <2>7 DEF PostEnqueue, Goes, CanEnqueue
    <2>8. CASE PostFull(t)
      BY <2>8 DEF PostFull, Goes, CanEnqueue
    <2>9. CASE PostMarkFailed(t)
      BY <2>9 DEF PostMarkFailed, Goes, Mark
    <2>10. CASE PostMarkFailedFails(t)
      BY <2>10 DEF PostMarkFailedFails, Goes, MarkFails, Mishap
    <2>11. CASE PostUndo(t)
      BY <2>11 DEF PostUndo, Goes
    <2>12. CASE PostUndoFails(t)
      BY <2>12 DEF PostUndoFails, Goes, Mishap
    <2> QED
      BY <1>2, <2>1, <2>2, <2>3, <2>4, <2>5, <2>6, <2>7, <2>8, <2>9, <2>10,
         <2>11, <2>12 DEF PostNext
  <1>3. ASSUME NEW t \in Tasks, TaskNext(t) PROVE RemovedInv'
    <2>1. CASE StopGet(t)
      BY <2>1 DEF StopGet
    <2>2. CASE StopMark(t)
      BY <2>2 DEF StopMark, Mark
    <2>3. CASE StopMarkFails(t)
      BY <2>3 DEF StopMarkFails, MarkFails, Mishap
    <2>4. CASE Recover(t)
      BY <2>4 DEF Recover, CanEnqueue, Mark
    <2>5. CASE RecoverFails(t)
      BY <2>5 DEF RecoverFails, MarkFails, Mishap
    <2> QED
      BY <1>3, <2>1, <2>2, <2>3, <2>4, <2>5 DEF TaskNext
  <1>4. ASSUME NEW w \in Workers, WorkerNext(w) PROVE RemovedInv'
    <2>1. CASE Pick(w)
      BY <2>1 DEF Pick
    <2>2. CASE WorkerMarkRunning(w)
      BY <2>2 DEF WorkerMarkRunning, Mark, Step
    <2>3. CASE WorkerMarkRunningFails(w)
      BY <2>3 DEF WorkerMarkRunningFails, MarkFails, Mishap, Step
    <2>4. CASE WorkerLaunch(w)
      BY <2>4 DEF WorkerLaunch, Step
    <2>5. CASE WorkerName(w)
      BY <2>5 DEF WorkerName, Mark, Step
    <2>6. CASE WorkerNameFails(w)
      BY <2>6 DEF WorkerNameFails, MarkFails, Mishap, Step
    <2>7. CASE WorkerFinish(w)
      BY <2>7 DEF WorkerFinish, Mark, Step
    <2> QED
      BY <1>4, <2>1, <2>2, <2>3, <2>4, <2>5, <2>6, <2>7 DEF WorkerNext
  <1>5. ASSUME NEW lost \in BOOLEAN, Restart(lost) PROVE RemovedInv'
    BY <1>5 DEF Restart, LoadSettings, PostState
  <1>6. CASE UNCHANGED vars
    BY <1>6 DEF vars, taskVars, providerVars
  <1> QED
    BY <1>1, <1>2, <1>3, <1>4, <1>5, <1>6 DEF Next

(* One of the two safeguards is left after one failing call. *)
LEMMA UndoneInvNext ==
    TypeOK /\ OwnerInv /\ DiskInv /\ [Next]_vars => UndoneInv'
  <1> SUFFICES ASSUME TypeOK, OwnerInv, DiskInv, [Next]_vars PROVE UndoneInv'
    OBVIOUS
  <1> USE DEF UndoneInv, DiskInv, FreshInv, RemovedInv, OwnerInv, NotOwned,
     Live, TypeOK, ProviderTypeOK, InFlight, providerVars
  <1>1. ASSUME SwitchNext PROVE UndoneInv'
    <2>1. ASSUME NEW s \in Switchers, NEW f \in Formats, SwitchCheck(s, f)
          PROVE  UndoneInv'
      BY <1>1, <2>1 DEF SwitchNext, SwitchCheck, taskVars
    <2>2. ASSUME NEW s \in Switchers, SwitchSave(s) PROVE UndoneInv'
      BY <1>1, <2>2 DEF SwitchNext, SwitchSave, taskVars
    <2>3. ASSUME NEW s \in Switchers, SwitchSaveFails(s) PROVE UndoneInv'
      BY <1>1, <2>3 DEF SwitchNext, SwitchSaveFails, taskVars
    <2>4. ASSUME NEW s \in Switchers, SwitchMemory(s) PROVE UndoneInv'
      BY <1>1, <2>4 DEF SwitchNext, SwitchMemory, taskVars
    <2> QED
      BY <1>1, <2>1, <2>2, <2>3, <2>4 DEF SwitchNext, ProviderNext
  <1>2. ASSUME NEW t \in Tasks, PostNext(t) PROVE UndoneInv'
    <2>1. CASE PostCheck(t)
      BY <2>1 DEF PostCheck, Goes
    <2>2. CASE PostSave(t)
      BY <2>2 DEF PostSave, Goes
    <2>3. CASE PostSaveFails(t)
      BY <2>3 DEF PostSaveFails, Goes
    <2>4. CASE PostSubmit(t)
      BY <2>4 DEF PostSubmit, Goes, CanEnqueue
    <2>5. CASE PostAdd(t)
      BY <2>5 DEF PostAdd, Goes, Mark
    <2>6. CASE PostAddFails(t)
      BY <2>6 DEF PostAddFails, Goes, MarkFails, Mishap
    <2>7. CASE PostEnqueue(t)
      BY <2>7 DEF PostEnqueue, Goes, CanEnqueue
    <2>8. CASE PostFull(t)
      BY <2>8 DEF PostFull, Goes, CanEnqueue
    <2>9. CASE PostMarkFailed(t)
      BY <2>9 DEF PostMarkFailed, Goes, Mark
    <2>10. CASE PostMarkFailedFails(t)
      BY <2>10 DEF PostMarkFailedFails, Goes, MarkFails, Mishap
    <2>11. CASE PostUndo(t)
      BY <2>11 DEF PostUndo, Goes
    <2>12. CASE PostUndoFails(t)
      BY <2>12 DEF PostUndoFails, Goes, Mishap
    <2> QED
      BY <1>2, <2>1, <2>2, <2>3, <2>4, <2>5, <2>6, <2>7, <2>8, <2>9, <2>10,
         <2>11, <2>12 DEF PostNext
  <1>3. ASSUME NEW t \in Tasks, TaskNext(t) PROVE UndoneInv'
    <2>1. CASE StopGet(t)
      BY <2>1 DEF StopGet
    <2>2. CASE StopMark(t)
      BY <2>2 DEF StopMark, Mark
    <2>3. CASE StopMarkFails(t)
      BY <2>3 DEF StopMarkFails, MarkFails, Mishap
    <2>4. CASE Recover(t)
      BY <2>4 DEF Recover, CanEnqueue, Mark
    <2>5. CASE RecoverFails(t)
      BY <2>5 DEF RecoverFails, MarkFails, Mishap
    <2> QED
      BY <1>3, <2>1, <2>2, <2>3, <2>4, <2>5 DEF TaskNext
  <1>4. ASSUME NEW w \in Workers, WorkerNext(w) PROVE UndoneInv'
    <2>1. CASE Pick(w)
      BY <2>1 DEF Pick
    <2>2. CASE WorkerMarkRunning(w)
      BY <2>2 DEF WorkerMarkRunning, Mark, Step
    <2>3. CASE WorkerMarkRunningFails(w)
      BY <2>3 DEF WorkerMarkRunningFails, MarkFails, Mishap, Step
    <2>4. CASE WorkerLaunch(w)
      BY <2>4 DEF WorkerLaunch, Step
    <2>5. CASE WorkerName(w)
      BY <2>5 DEF WorkerName, Mark, Step
    <2>6. CASE WorkerNameFails(w)
      BY <2>6 DEF WorkerNameFails, MarkFails, Mishap, Step
    <2>7. CASE WorkerFinish(w)
      BY <2>7 DEF WorkerFinish, Mark, Step
    <2> QED
      BY <1>4, <2>1, <2>2, <2>3, <2>4, <2>5, <2>6, <2>7 DEF WorkerNext
  <1>5. ASSUME NEW lost \in BOOLEAN, Restart(lost) PROVE UndoneInv'
    BY <1>5 DEF Restart, LoadSettings, PostState
  <1>6. CASE UNCHANGED vars
    BY <1>6 DEF vars, taskVars, providerVars
  <1> QED
    BY <1>1, <1>2, <1>3, <1>4, <1>5, <1>6 DEF Next

(* What is launched is given the active format. *)
LEMMA RunHasProviderNext ==
    TypeOK /\ ProviderInv /\ OwnerInv /\ RunHasProvider /\ [Next]_vars => RunHasProvider'
  <1> SUFFICES ASSUME TypeOK, ProviderInv, OwnerInv, RunHasProvider, [Next]_vars PROVE RunHasProvider'
    OBVIOUS
  <1> USE DEF RunHasProvider, ProviderInv, OwnerInv, NotOwned, TypeOK,
     ProviderTypeOK, InFlight, providerVars
  <1>1. ASSUME SwitchNext PROVE RunHasProvider'
    <2>1. ASSUME NEW s \in Switchers, NEW f \in Formats, SwitchCheck(s, f)
          PROVE  RunHasProvider'
      BY <1>1, <2>1 DEF SwitchNext, SwitchCheck, taskVars
    <2>2. ASSUME NEW s \in Switchers, SwitchSave(s) PROVE RunHasProvider'
      BY <1>1, <2>2 DEF SwitchNext, SwitchSave, taskVars
    <2>3. ASSUME NEW s \in Switchers, SwitchSaveFails(s) PROVE RunHasProvider'
      BY <1>1, <2>3 DEF SwitchNext, SwitchSaveFails, taskVars
    <2>4. ASSUME NEW s \in Switchers, SwitchMemory(s) PROVE RunHasProvider'
      BY <1>1, <2>4 DEF SwitchNext, SwitchMemory, taskVars
    <2> QED
      BY <1>1, <2>1, <2>2, <2>3, <2>4 DEF SwitchNext, ProviderNext
  <1>2. ASSUME NEW t \in Tasks, PostNext(t) PROVE RunHasProvider'
    <2>1. CASE PostCheck(t)
      BY <2>1 DEF PostCheck, Goes
    <2>2. CASE PostSave(t)
      BY <2>2 DEF PostSave, Goes
    <2>3. CASE PostSaveFails(t)
      BY <2>3 DEF PostSaveFails, Goes
    <2>4. CASE PostSubmit(t)
      BY <2>4 DEF PostSubmit, Goes, CanEnqueue
    <2>5. CASE PostAdd(t)
      BY <2>5 DEF PostAdd, Goes, Mark
    <2>6. CASE PostAddFails(t)
      BY <2>6 DEF PostAddFails, Goes, MarkFails, Mishap
    <2>7. CASE PostEnqueue(t)
      BY <2>7 DEF PostEnqueue, Goes, CanEnqueue
    <2>8. CASE PostFull(t)
      BY <2>8 DEF PostFull, Goes, CanEnqueue
    <2>9. CASE PostMarkFailed(t)
      BY <2>9 DEF PostMarkFailed, Goes, Mark
    <2>10. CASE PostMarkFailedFails(t)
      BY <2>10 DEF PostMarkFailedFails, Goes, MarkFails, Mishap
    <2>11. CASE PostUndo(t)
      BY <2>11 DEF PostUndo, Goes
    <2>12. CASE PostUndoFails(t)
      BY <2>12 DEF PostUndoFails, Goes, Mishap
    <2> QED
      BY <1>2, <2>1, <2>2, <2>3, <2>4, <2>5, <2>6, <2>7, <2>8, <2>9, <2>10,
         <2>11, <2>12 DEF PostNext
  <1>3. ASSUME NEW t \in Tasks, TaskNext(t) PROVE RunHasProvider'
    <2>1. CASE StopGet(t)
      BY <2>1 DEF StopGet
    <2>2. CASE StopMark(t)
      BY <2>2 DEF StopMark, Mark
    <2>3. CASE StopMarkFails(t)
      BY <2>3 DEF StopMarkFails, MarkFails, Mishap
    <2>4. CASE Recover(t)
      BY <2>4 DEF Recover, CanEnqueue, Mark
    <2>5. CASE RecoverFails(t)
      BY <2>5 DEF RecoverFails, MarkFails, Mishap
    <2> QED
      BY <1>3, <2>1, <2>2, <2>3, <2>4, <2>5 DEF TaskNext
  <1>4. ASSUME NEW w \in Workers, WorkerNext(w) PROVE RunHasProvider'
    <2>1. CASE Pick(w)
      BY <2>1 DEF Pick
    <2>2. CASE WorkerMarkRunning(w)
      BY <2>2 DEF WorkerMarkRunning, Mark, Step
    <2>3. CASE WorkerMarkRunningFails(w)
      BY <2>3 DEF WorkerMarkRunningFails, MarkFails, Mishap, Step
    <2>4. CASE WorkerLaunch(w)
      BY <2>4 DEF WorkerLaunch, Step, RunProvider
    <2>5. CASE WorkerName(w)
      BY <2>5 DEF WorkerName, Mark, Step
    <2>6. CASE WorkerNameFails(w)
      BY <2>6 DEF WorkerNameFails, MarkFails, Mishap, Step
    <2>7. CASE WorkerFinish(w)
      BY <2>7 DEF WorkerFinish, Mark, Step
    <2> QED
      BY <1>4, <2>1, <2>2, <2>3, <2>4, <2>5, <2>6, <2>7 DEF WorkerNext
  <1>5. ASSUME NEW lost \in BOOLEAN, Restart(lost) PROVE RunHasProvider'
    BY <1>5 DEF Restart, LoadSettings, PostState
  <1>6. CASE UNCHANGED vars
    BY <1>6 DEF vars, taskVars, providerVars
  <1> QED
    BY <1>1, <1>2, <1>3, <1>4, <1>5, <1>6 DEF Next

(* A save that another request has not yet followed is noticed. *)
LEMMA SavedInvNext ==
    TypeOK /\ SavedInv /\ [Next]_vars => SavedInv'
  <1> SUFFICES ASSUME TypeOK, SavedInv, [Next]_vars PROVE SavedInv'
    OBVIOUS
  <1> USE DEF SavedInv, TypeOK, ProviderTypeOK, Pending, providerVars
  <1>1. ASSUME SwitchNext PROVE SavedInv'
    <2>1. ASSUME NEW s \in Switchers, NEW f \in Formats, SwitchCheck(s, f)
          PROVE  SavedInv'
      BY <1>1, <2>1 DEF SwitchNext, SwitchCheck, taskVars
    <2>2. ASSUME NEW s \in Switchers, SwitchSave(s) PROVE SavedInv'
      BY <1>1, <2>2 DEF SwitchNext, SwitchSave, taskVars
    <2>3. ASSUME NEW s \in Switchers, SwitchSaveFails(s) PROVE SavedInv'
      BY <1>1, <2>3 DEF SwitchNext, SwitchSaveFails, taskVars
    <2>4. ASSUME NEW s \in Switchers, SwitchMemory(s) PROVE SavedInv'
      BY <1>1, <2>4 DEF SwitchNext, SwitchMemory, taskVars
    <2> QED
      BY <1>1, <2>1, <2>2, <2>3, <2>4 DEF SwitchNext, ProviderNext
  <1>2. ASSUME NEW t \in Tasks, PostNext(t) PROVE SavedInv'
    <2>1. CASE PostCheck(t)
      BY <2>1 DEF PostCheck, Goes
    <2>2. CASE PostSave(t)
      BY <2>2 DEF PostSave, Goes
    <2>3. CASE PostSaveFails(t)
      BY <2>3 DEF PostSaveFails, Goes
    <2>4. CASE PostSubmit(t)
      BY <2>4 DEF PostSubmit, Goes, CanEnqueue
    <2>5. CASE PostAdd(t)
      BY <2>5 DEF PostAdd, Goes, Mark
    <2>6. CASE PostAddFails(t)
      BY <2>6 DEF PostAddFails, Goes, MarkFails, Mishap
    <2>7. CASE PostEnqueue(t)
      BY <2>7 DEF PostEnqueue, Goes, CanEnqueue
    <2>8. CASE PostFull(t)
      BY <2>8 DEF PostFull, Goes, CanEnqueue
    <2>9. CASE PostMarkFailed(t)
      BY <2>9 DEF PostMarkFailed, Goes, Mark
    <2>10. CASE PostMarkFailedFails(t)
      BY <2>10 DEF PostMarkFailedFails, Goes, MarkFails, Mishap
    <2>11. CASE PostUndo(t)
      BY <2>11 DEF PostUndo, Goes
    <2>12. CASE PostUndoFails(t)
      BY <2>12 DEF PostUndoFails, Goes, Mishap
    <2> QED
      BY <1>2, <2>1, <2>2, <2>3, <2>4, <2>5, <2>6, <2>7, <2>8, <2>9, <2>10,
         <2>11, <2>12 DEF PostNext
  <1>3. ASSUME NEW t \in Tasks, TaskNext(t) PROVE SavedInv'
    <2>1. CASE StopGet(t)
      BY <2>1 DEF StopGet
    <2>2. CASE StopMark(t)
      BY <2>2 DEF StopMark, Mark
    <2>3. CASE StopMarkFails(t)
      BY <2>3 DEF StopMarkFails, MarkFails, Mishap
    <2>4. CASE Recover(t)
      BY <2>4 DEF Recover, CanEnqueue, Mark
    <2>5. CASE RecoverFails(t)
      BY <2>5 DEF RecoverFails, MarkFails, Mishap
    <2> QED
      BY <1>3, <2>1, <2>2, <2>3, <2>4, <2>5 DEF TaskNext
  <1>4. ASSUME NEW w \in Workers, WorkerNext(w) PROVE SavedInv'
    <2>1. CASE Pick(w)
      BY <2>1 DEF Pick
    <2>2. CASE WorkerMarkRunning(w)
      BY <2>2 DEF WorkerMarkRunning, Mark, Step
    <2>3. CASE WorkerMarkRunningFails(w)
      BY <2>3 DEF WorkerMarkRunningFails, MarkFails, Mishap, Step
    <2>4. CASE WorkerLaunch(w)
      BY <2>4 DEF WorkerLaunch, Step
    <2>5. CASE WorkerName(w)
      BY <2>5 DEF WorkerName, Mark, Step
    <2>6. CASE WorkerNameFails(w)
      BY <2>6 DEF WorkerNameFails, MarkFails, Mishap, Step
    <2>7. CASE WorkerFinish(w)
      BY <2>7 DEF WorkerFinish, Mark, Step
    <2> QED
      BY <1>4, <2>1, <2>2, <2>3, <2>4, <2>5, <2>6, <2>7 DEF WorkerNext
  <1>5. ASSUME NEW lost \in BOOLEAN, Restart(lost) PROVE SavedInv'
    BY <1>5 DEF Restart, LoadSettings, NoSwitch
  <1>6. CASE UNCHANGED vars
    BY <1>6 DEF vars, taskVars, providerVars
  <1> QED
    BY <1>1, <1>2, <1>3, <1>4, <1>5, <1>6 DEF Next

(* The file and the memory follow each other. *)
LEMMA SelectionNext ==
    TypeOK /\ ProviderInv /\ SavedInv /\ SelectionSurvives /\ [Next]_vars => SelectionSurvives'
  <1> SUFFICES ASSUME TypeOK, ProviderInv, SavedInv, SelectionSurvives, [Next]_vars PROVE SelectionSurvives'
    OBVIOUS
  <1> USE DEF SelectionSurvives, SavedInv, ProviderInv, TypeOK,
     ProviderTypeOK, Pending, providerVars
  <1>1. ASSUME SwitchNext PROVE SelectionSurvives'
    <2>1. ASSUME NEW s \in Switchers, NEW f \in Formats, SwitchCheck(s, f)
          PROVE  SelectionSurvives'
      BY <1>1, <2>1 DEF SwitchNext, SwitchCheck, taskVars
    <2>2. ASSUME NEW s \in Switchers, SwitchSave(s) PROVE SelectionSurvives'
      BY <1>1, <2>2 DEF SwitchNext, SwitchSave, taskVars
    <2>3. ASSUME NEW s \in Switchers, SwitchSaveFails(s) PROVE SelectionSurvives'
      BY <1>1, <2>3 DEF SwitchNext, SwitchSaveFails, taskVars
    <2>4. ASSUME NEW s \in Switchers, SwitchMemory(s) PROVE SelectionSurvives'
      BY <1>1, <2>4 DEF SwitchNext, SwitchMemory, taskVars, LoadProviderFormat
    <2> QED
      BY <1>1, <2>1, <2>2, <2>3, <2>4 DEF SwitchNext, ProviderNext
  <1>2. ASSUME NEW t \in Tasks, PostNext(t) PROVE SelectionSurvives'
    <2>1. CASE PostCheck(t)
      BY <2>1 DEF PostCheck, Goes
    <2>2. CASE PostSave(t)
      BY <2>2 DEF PostSave, Goes
    <2>3. CASE PostSaveFails(t)
      BY <2>3 DEF PostSaveFails, Goes
    <2>4. CASE PostSubmit(t)
      BY <2>4 DEF PostSubmit, Goes, CanEnqueue
    <2>5. CASE PostAdd(t)
      BY <2>5 DEF PostAdd, Goes, Mark
    <2>6. CASE PostAddFails(t)
      BY <2>6 DEF PostAddFails, Goes, MarkFails, Mishap
    <2>7. CASE PostEnqueue(t)
      BY <2>7 DEF PostEnqueue, Goes, CanEnqueue
    <2>8. CASE PostFull(t)
      BY <2>8 DEF PostFull, Goes, CanEnqueue
    <2>9. CASE PostMarkFailed(t)
      BY <2>9 DEF PostMarkFailed, Goes, Mark
    <2>10. CASE PostMarkFailedFails(t)
      BY <2>10 DEF PostMarkFailedFails, Goes, MarkFails, Mishap
    <2>11. CASE PostUndo(t)
      BY <2>11 DEF PostUndo, Goes
    <2>12. CASE PostUndoFails(t)
      BY <2>12 DEF PostUndoFails, Goes, Mishap
    <2> QED
      BY <1>2, <2>1, <2>2, <2>3, <2>4, <2>5, <2>6, <2>7, <2>8, <2>9, <2>10,
         <2>11, <2>12 DEF PostNext
  <1>3. ASSUME NEW t \in Tasks, TaskNext(t) PROVE SelectionSurvives'
    <2>1. CASE StopGet(t)
      BY <2>1 DEF StopGet
    <2>2. CASE StopMark(t)
      BY <2>2 DEF StopMark, Mark
    <2>3. CASE StopMarkFails(t)
      BY <2>3 DEF StopMarkFails, MarkFails, Mishap
    <2>4. CASE Recover(t)
      BY <2>4 DEF Recover, CanEnqueue, Mark
    <2>5. CASE RecoverFails(t)
      BY <2>5 DEF RecoverFails, MarkFails, Mishap
    <2> QED
      BY <1>3, <2>1, <2>2, <2>3, <2>4, <2>5 DEF TaskNext
  <1>4. ASSUME NEW w \in Workers, WorkerNext(w) PROVE SelectionSurvives'
    <2>1. CASE Pick(w)
      BY <2>1 DEF Pick
    <2>2. CASE WorkerMarkRunning(w)
      BY <2>2 DEF WorkerMarkRunning, Mark, Step
    <2>3. CASE WorkerMarkRunningFails(w)
      BY <2>3 DEF WorkerMarkRunningFails, MarkFails, Mishap, Step
    <2>4. CASE WorkerLaunch(w)
      BY <2>4 DEF WorkerLaunch, Step
    <2>5. CASE WorkerName(w)
      BY <2>5 DEF WorkerName, Mark, Step
    <2>6. CASE WorkerNameFails(w)
      BY <2>6 DEF WorkerNameFails, MarkFails, Mishap, Step
    <2>7. CASE WorkerFinish(w)
      BY <2>7 DEF WorkerFinish, Mark, Step
    <2> QED
      BY <1>4, <2>1, <2>2, <2>3, <2>4, <2>5, <2>6, <2>7 DEF WorkerNext
  <1>5. ASSUME NEW lost \in BOOLEAN, Restart(lost) PROVE SelectionSurvives'
    BY <1>5 DEF Restart, LoadSettings
  <1>6. CASE UNCHANGED vars
    BY <1>6 DEF vars, taskVars, providerVars
  <1> QED
    BY <1>1, <1>2, <1>3, <1>4, <1>5, <1>6 DEF Next

(* docker info tells of this host. *)
LEMMA HostInvNext ==
    TypeOK /\ HostInv /\ [Next]_vars => HostInv'
  <1> SUFFICES ASSUME TypeOK, HostInv, [Next]_vars PROVE HostInv'
    OBVIOUS
  <1> USE DEF HostInv, TypeOK, ProviderTypeOK, providerVars
  <1>1. ASSUME SwitchNext PROVE HostInv'
    <2>1. ASSUME NEW s \in Switchers, NEW f \in Formats, SwitchCheck(s, f)
          PROVE  HostInv'
      BY <1>1, <2>1 DEF SwitchNext, SwitchCheck, taskVars
    <2>2. ASSUME NEW s \in Switchers, SwitchSave(s) PROVE HostInv'
      BY <1>1, <2>2 DEF SwitchNext, SwitchSave, taskVars
    <2>3. ASSUME NEW s \in Switchers, SwitchSaveFails(s) PROVE HostInv'
      BY <1>1, <2>3 DEF SwitchNext, SwitchSaveFails, taskVars
    <2>4. ASSUME NEW s \in Switchers, SwitchMemory(s) PROVE HostInv'
      BY <1>1, <2>4 DEF SwitchNext, SwitchMemory, taskVars
    <2> QED
      BY <1>1, <2>1, <2>2, <2>3, <2>4 DEF SwitchNext, ProviderNext
  <1>2. ASSUME NEW t \in Tasks, PostNext(t) PROVE HostInv'
    <2>1. CASE PostCheck(t)
      BY <2>1 DEF PostCheck, Goes
    <2>2. CASE PostSave(t)
      BY <2>2 DEF PostSave, Goes
    <2>3. CASE PostSaveFails(t)
      BY <2>3 DEF PostSaveFails, Goes
    <2>4. CASE PostSubmit(t)
      BY <2>4 DEF PostSubmit, Goes, CanEnqueue
    <2>5. CASE PostAdd(t)
      BY <2>5 DEF PostAdd, Goes, Mark
    <2>6. CASE PostAddFails(t)
      BY <2>6 DEF PostAddFails, Goes, MarkFails, Mishap
    <2>7. CASE PostEnqueue(t)
      BY <2>7 DEF PostEnqueue, Goes, CanEnqueue
    <2>8. CASE PostFull(t)
      BY <2>8 DEF PostFull, Goes, CanEnqueue
    <2>9. CASE PostMarkFailed(t)
      BY <2>9 DEF PostMarkFailed, Goes, Mark
    <2>10. CASE PostMarkFailedFails(t)
      BY <2>10 DEF PostMarkFailedFails, Goes, MarkFails, Mishap
    <2>11. CASE PostUndo(t)
      BY <2>11 DEF PostUndo, Goes
    <2>12. CASE PostUndoFails(t)
      BY <2>12 DEF PostUndoFails, Goes, Mishap
    <2> QED
      BY <1>2, <2>1, <2>2, <2>3, <2>4, <2>5, <2>6, <2>7, <2>8, <2>9, <2>10,
         <2>11, <2>12 DEF PostNext
  <1>3. ASSUME NEW t \in Tasks, TaskNext(t) PROVE HostInv'
    <2>1. CASE StopGet(t)
      BY <2>1 DEF StopGet
    <2>2. CASE StopMark(t)
      BY <2>2 DEF StopMark, Mark
    <2>3. CASE StopMarkFails(t)
      BY <2>3 DEF StopMarkFails, MarkFails, Mishap
    <2>4. CASE Recover(t)
      BY <2>4 DEF Recover, CanEnqueue, Mark
    <2>5. CASE RecoverFails(t)
      BY <2>5 DEF RecoverFails, MarkFails, Mishap
    <2> QED
      BY <1>3, <2>1, <2>2, <2>3, <2>4, <2>5 DEF TaskNext
  <1>4. ASSUME NEW w \in Workers, WorkerNext(w) PROVE HostInv'
    <2>1. CASE Pick(w)
      BY <2>1 DEF Pick
    <2>2. CASE WorkerMarkRunning(w)
      BY <2>2 DEF WorkerMarkRunning, Mark, Step
    <2>3. CASE WorkerMarkRunningFails(w)
      BY <2>3 DEF WorkerMarkRunningFails, MarkFails, Mishap, Step
    <2>4. CASE WorkerLaunch(w)
      BY <2>4 DEF WorkerLaunch, Step
    <2>5. CASE WorkerName(w)
      BY <2>5 DEF WorkerName, Mark, Step
    <2>6. CASE WorkerNameFails(w)
      BY <2>6 DEF WorkerNameFails, MarkFails, Mishap, Step
    <2>7. CASE WorkerFinish(w)
      BY <2>7 DEF WorkerFinish, Mark, Step
    <2> QED
      BY <1>4, <2>1, <2>2, <2>3, <2>4, <2>5, <2>6, <2>7 DEF WorkerNext
  <1>5. ASSUME NEW lost \in BOOLEAN, Restart(lost) PROVE HostInv'
    BY <1>5 DEF Restart, LoadSettings
  <1>6. CASE UNCHANGED vars
    BY <1>6 DEF vars, taskVars, providerVars
  <1> QED
    BY <1>1, <1>2, <1>3, <1>4, <1>5, <1>6 DEF Next

-----------------------------------------------------------------------------
LEMMA InvInit == Init => Inv
  <1> SUFFICES ASSUME Init PROVE Inv
    OBVIOUS
  <1> USE DEF Init, ProviderInit
  <1>1. TypeOK
    <2>1. active \in Formats
      BY LoadedIsFormat
    <2>2. Pending("save") \cup Pending("switch") = {}
      BY DEF Pending, NoSwitch
    <2>3. mishaps \in 0..MaxMishaps
      BY ProviderAssumption DEF ProviderAssumption
    <2>4. ProviderTypeOK
      BY <2>1, <2>2, <2>3 DEF ProviderTypeOK, NoSwitch
    <2> QED
      BY <2>4, SubmissionAssumption
         DEF TypeOK, SubmissionAssumption, PostState, Status, WorkerState, Idle
  <1>2. ProviderInv /\ SavedInv /\ SelectionSurvives
    BY DEF ProviderInv, SavedInv, SelectionSurvives, NoSwitch, InFlight
  <1>3. OwnerInv /\ DiskInv
    BY DEF OwnerInv, NotOwned, DiskInv, FreshInv, RemovedInv, UndoneInv,
           InFlight, Idle
  <1>4. RunHasProvider /\ HostInv
    BY DEF RunHasProvider, HostInv
  <1> QED
    BY <1>1, <1>2, <1>3, <1>4 DEF Inv

LEMMA InvNext == Inv /\ [Next]_vars => Inv'
  BY TypeNext, ProviderInvNext, SavedInvNext, SelectionNext, OwnerInvNext,
     FreshInvNext, RemovedInvNext, UndoneInvNext, RunHasProviderNext, HostInvNext
     DEF Inv, DiskInv

LEMMA InvAlways == Spec => []Inv
  BY InvInit, InvNext, PTL DEF Spec

-----------------------------------------------------------------------------
(* Every variable keeps its type, for every instance. *)
THEOREM SubmissionTypes == Spec => []TypeOK
  <1>1. Inv => TypeOK
    BY DEF Inv
  <1> QED
    BY <1>1, InvAlways, PTL

(* A task whose POST is answered with an error never runs, also after restarts
   and power losses, if at most one call fails (router.go:287). *)
THEOREM RefusedTasksNeverRun == Spec => []RefusedNeverRuns
  <1>1. Inv => RefusedNeverRuns
    BY DEF Inv, OwnerInv, NotOwned, RefusedNeverRuns
  <1> QED
    BY <1>1, InvAlways, PTL

(* Whatever is switched while an accepted task waits, its container gets a
   provider that is configured (service.go:234). *)
THEOREM AcceptedRunsHaveProvider == Spec => []RunHasProvider
  <1>1. Inv => RunHasProvider
    BY DEF Inv
  <1> QED
    BY <1>1, InvAlways, PTL

(* A restart finds the format that is in use, unless requests crossed, the last
   one failed half-way, or the environment decides (service.go:195). *)
THEOREM ChosenFormatSurvives == Spec => []SelectionSurvives
  <1>1. Inv => SelectionSurvives
    BY DEF Inv
  <1> QED
    BY <1>1, InvAlways, PTL

(* The automatic limits of every container leave room on every host that is
   large enough (docker.go:307). *)
THEOREM LimitsAlwaysLeaveRoom == Spec => []LimitsLeaveRoom
  <1>1. Inv => LimitsLeaveRoom
    <2> SUFFICES ASSUME Inv, NEW t \in Tasks, launched[t] # NotLaunched,
                        launched[t].info # NoInfo, LargeEnough(host)
                 PROVE  LeavesRoom(ResolveDockerResourceLimits(Automatic, Automatic,
                                       launched[t].info), host)
      BY DEF LimitsLeaveRoom
    <2>1. launched[t].info = host
      BY DEF Inv, HostInv
    <2>2. host \in Host
      BY SubmissionAssumption DEF Inv, TypeOK, SubmissionAssumption
    <2> QED
      BY <2>1, <2>2, AutoLeavesRoom
  <1> QED
    BY <1>1, InvAlways, PTL
=============================================================================
