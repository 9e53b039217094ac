----------------------------- MODULE LogStream ------------------------------
(***************************************************************************)
(* The way of an agent's output: two pipes, a goroutine for each of them   *)
(* (streamPipe), the task's log with its archives (AppendLog and its       *)
(* rotation), the hub, and the browsers that read the log and follow it.   *)
(*                                                                         *)
(* Writers hold the store's lock from the check of the size to the write;  *)
(* readers of the log hold none, so every rename is a step of its own.  A  *)
(* line stands for what one Read of a pipe returns.  A reader that asks    *)
(* for a tail is given the end of what is modelled here.                   *)
(***************************************************************************)
EXTENDS Naturals, Sequences, SequencesExt, FiniteSets

CONSTANTS
    Clients,     \* WebSocket connections for the task's log
    MaxBytes,    \* logMaxBytes
    Backups,     \* logMaxBackups
    SubCap,      \* places of a subscriber's channel (64)
    PipeCap,     \* bound on the lines in a pipe
    MaxLines,    \* bound on the lines
    Sizes,       \* Sizes[n]: the sizes line n may have
    Pipes,       \* stdout and stderr
    Runner,      \* the worker that runs the agent
    MaxMishaps   \* bound on crashes and failing renames

ASSUME LogSizesAssumption ==
    MaxBytes \in Nat \ {0} /\ Sizes \in [1..MaxLines -> SUBSET (Nat \ {0})]
ASSUME RunnerAssumption == Runner \notin Pipes
ASSUME BackupsAssumption == Backups \in Nat \ {0}
ASSUME CapsAssumption == SubCap \in Nat \ {0} /\ PipeCap \in Nat \ {0}
ASSUME LogBoundsAssumption == MaxLines \in Nat /\ MaxMishaps \in Nat

VARIABLES
    run,       \* docker exec: its process and the call of Wait
    pipe,      \* what the agent has printed and nobody has read
    appender,  \* the goroutines that call AppendLog
    file,      \* 0 is logs.txt, i is logs.txt.i; the empty one does not exist
    client,    \* the connections
    printed,   \* lines of the agent and reports of its exits so far
    mishaps,   \* crashes and failed renames
    written,   \* auxiliary: every line ever written, in order
    torn       \* auxiliary: connections that read the log during a rotation

vars == <<run, pipe, appender, file, client, printed, mishaps, written, torn>>

Appenders == Pipes \cup {Runner}
Line == [from: Appenders, n: 1..MaxLines, size: UNION Range(Sizes)]
Runs == {"off", "running", "exited", "waited"}

AppendPcs == {"read", "append", "remove", "shift", "move", "write", "publish", "done"}
Locked == {"remove", "shift", "move", "write"}
NoLines == <<>>
Idle == [pc |-> "done", line |-> NoLines, at |-> 0]

ClientPcs == {"new", "read", "subscribe", "stream", "gone"}
NewClient == [pc |-> "new", at |-> 0, since |-> 0, logs |-> <<>>, live |-> <<>>, sub |-> <<>>]
Gone == [NewClient EXCEPT !.pc = "gone"]

Bytes(lines) ==
    LET sum[i \in 0..Len(lines)] == IF i = 0 THEN 0 ELSE sum[i - 1] + lines[i].size
    IN  sum[Len(lines)]

(* logs.txt.3, logs.txt.2, logs.txt.1 and logs.txt, one after the other. *)
Stored == FlattenSeq([i \in 1..(Backups + 1) |-> file[Backups + 1 - i]])

Goto(a, pc) == appender' = [appender EXCEPT ![a].pc = pc]

-----------------------------------------------------------------------------
(* runAgentInContainer                                                     *)

StartRun ==
    /\ run = "off" /\ printed < MaxLines
    /\ \A a \in Appenders : appender[a].pc = "done"
    /\ run' = "running"
    /\ appender' = [a \in Appenders |-> IF a \in Pipes THEN [Idle EXCEPT !.pc = "read"] ELSE Idle]
    /\ UNCHANGED <<pipe, file, client, printed, mishaps, written, torn>>

NewLines(a) == [from: {a}, n: {printed + 1}, size: Sizes[printed + 1]]

AgentPrints(p) ==
    /\ run = "running" /\ printed + 1 < MaxLines /\ Len(pipe[p]) < PipeCap
    /\ printed' = printed + 1
    /\ \E line \in NewLines(p) : pipe' = [pipe EXCEPT ![p] = Append(@, line)]
    /\ UNCHANGED <<run, appender, file, client, mishaps, written, torn>>

(* The agent exits, or is killed by a stop or a timeout. *)
AgentExit ==
    /\ run = "running"
    /\ run' = "exited"
    /\ UNCHANGED <<pipe, appender, file, client, printed, mishaps, written, torn>>

(* cmd.Wait is called before the pipes are read to their ends: it closes   *)
(* them as soon as the process is gone.                                    *)
WaitReturns ==
    /\ run = "exited"
    /\ run' = "waited"
    /\ pipe' = [p \in Pipes |-> <<>>]
    /\ UNCHANGED <<appender, file, client, printed, mishaps, written, torn>>

(* streamPipe *)
ReadPipe(p) ==
    /\ appender[p].pc = "read" /\ pipe[p] # <<>>
    /\ appender' = [appender EXCEPT ![p].pc = "append", ![p].line = <<Head(pipe[p])>>]
    /\ pipe' = [pipe EXCEPT ![p] = Tail(@)]
    /\ UNCHANGED <<run, file, client, printed, mishaps, written, torn>>

EndOfPipe(p) ==
    /\ appender[p].pc = "read" /\ pipe[p] = <<>> /\ run \in {"exited", "waited"}
    /\ Goto(p, "done")
    /\ UNCHANGED <<run, pipe, file, client, printed, mishaps, written, torn>>

(* wg.Wait has returned: "[runner] agent exited with status". *)
ReportExit ==
    /\ run = "waited" /\ \A a \in Appenders : appender[a].pc = "done"
    /\ \E line \in NewLines(Runner) :
          appender' = [appender EXCEPT ![Runner] = [Idle EXCEPT !.pc = "append", !.line = <<line>>]]
    /\ printed' = printed + 1
    /\ run' = "off"
    /\ UNCHANGED <<pipe, file, client, mishaps, written, torn>>

-----------------------------------------------------------------------------
(* AppendLog                                                               *)

IsFree == \A a \in Appenders : appender[a].pc \notin Locked
(* Mutant: only what the file already holds is counted. *)
FitsIgnoresLine(line) == file[0] = <<>> \/ Bytes(file[0]) <= MaxBytes

Fits(line) == file[0] = <<>> \/ Bytes(file[0]) + line.size <= MaxBytes

(* Mutant: the lock is not taken. *)
LockSkipped(a) ==
    /\ appender[a].pc = "append"
    /\ Goto(a, IF Fits(appender[a].line[1]) THEN "write" ELSE "remove")
    /\ UNCHANGED <<run, pipe, file, client, printed, mishaps, written, torn>>

Lock(a) ==
    /\ appender[a].pc = "append" /\ IsFree
    /\ Goto(a, IF Fits(appender[a].line[1]) THEN "write" ELSE "remove")
    /\ UNCHANGED <<run, pipe, file, client, printed, mishaps, written, torn>>

Reading == {c \in Clients : client[c].pc = "read"}

(* Mutant: the archives are not moved up. *)
RemoveOldestOnly(a) ==
    /\ appender[a].pc = "remove"
    /\ file' = [file EXCEPT ![Backups] = <<>>]
    /\ appender' = [appender EXCEPT ![a].pc = "move"]
    /\ torn' = torn \cup Reading
    /\ UNCHANGED <<run, pipe, client, printed, mishaps, written>>

RemoveOldest(a) ==
    /\ appender[a].pc = "remove"
    /\ file' = [file EXCEPT ![Backups] = <<>>]
    /\ appender' = [appender EXCEPT ![a].pc = IF Backups = 1 THEN "move" ELSE "shift",
                                    ![a].at = Backups - 1]
    /\ torn' = torn \cup Reading
    /\ UNCHANGED <<run, pipe, client, printed, mishaps, written>>

(* The archive at becomes the next older one; its place is already empty.  *)
ShiftArchive(a) ==
    /\ appender[a].pc = "shift"
    /\ LET i == appender[a].at IN
          /\ file' = [file EXCEPT ![i] = <<>>, ![i + 1] = file[i]]
          /\ appender' = [appender EXCEPT ![a].pc = IF i = 1 THEN "move" ELSE "shift",
                                          ![a].at = i - 1]
    /\ torn' = torn \cup Reading
    /\ UNCHANGED <<run, pipe, client, printed, mishaps, written>>

(* Mutant: logs.txt is copied. *)
MoveCurrentCopies(a) ==
    /\ appender[a].pc = "move"
    /\ file' = [file EXCEPT ![1] = file[0]]
    /\ Goto(a, "write")
    /\ torn' = torn \cup Reading
    /\ UNCHANGED <<run, pipe, client, printed, mishaps, written>>

MoveCurrent(a) ==
    /\ appender[a].pc = "move"
    /\ file' = [file EXCEPT ![0] = <<>>, ![1] = file[0]]
    /\ Goto(a, "write")
    /\ torn' = torn \cup Reading
    /\ UNCHANGED <<run, pipe, client, printed, mishaps, written>>

WriteLine(a) ==
    /\ appender[a].pc = "write"
    /\ file' = [file EXCEPT ![0] = @ \o appender[a].line]
    /\ written' = written \o appender[a].line
    /\ Goto(a, "publish")
    /\ UNCHANGED <<run, pipe, client, printed, mishaps, torn>>

AfterAppend(a) == [Idle EXCEPT !.pc = IF a \in Pipes THEN "read" ELSE "done"]

(* Mutant: the hub is told although the line was not written. *)
AppendFailsPublishes(a) ==
    /\ mishaps < MaxMishaps /\ appender[a].pc \in Locked \ {"remove"}
    /\ Goto(a, "publish")
    /\ mishaps' = mishaps + 1
    /\ UNCHANGED <<run, pipe, file, client, printed, written, torn>>

(* A rename, the open or the write fails: the line is dropped and not      *)
(* published.                                                              *)
AppendFails(a) ==
    /\ mishaps < MaxMishaps /\ appender[a].pc \in Locked \ {"remove"}
    /\ appender' = [appender EXCEPT ![a] = AfterAppend(a)]
    /\ mishaps' = mishaps + 1
    /\ UNCHANGED <<run, pipe, file, client, printed, written, torn>>

-----------------------------------------------------------------------------
(* Hub.Publish                                                             *)

Subscribed == {c \in Clients : client[c].pc = "stream"}

(* Mutant: a full channel is waited for. *)
PublishBlocks(a) ==
    /\ appender[a].pc = "publish"
    /\ \A c \in Subscribed : Len(client[c].sub) < SubCap
    /\ client' = [c \in Clients |->
          IF c \in Subscribed
          THEN [client[c] EXCEPT !.sub = @ \o appender[a].line] ELSE client[c]]
    /\ appender' = [appender EXCEPT ![a] = AfterAppend(a)]
    /\ UNCHANGED <<run, pipe, file, printed, mishaps, written, torn>>

(* A subscriber whose channel is full misses the line. *)
Publish(a) ==
    /\ appender[a].pc = "publish"
    /\ client' = [c \in Clients |->
          IF c \in Subscribed /\ Len(client[c].sub) < SubCap
          THEN [client[c] EXCEPT !.sub = @ \o appender[a].line] ELSE client[c]]
    /\ appender' = [appender EXCEPT ![a] = AfterAppend(a)]
    /\ UNCHANGED <<run, pipe, file, printed, mishaps, written, torn>>

-----------------------------------------------------------------------------
(* websocketHandler and Store.Logs                                         *)

Become(c, state) ==
    /\ client' = [client EXCEPT ![c] = state]
    /\ UNCHANGED <<run, pipe, appender, file, printed, mishaps, written, torn>>

Connect(c) ==
    /\ client[c].pc = "new"
    /\ Become(c, [client[c] EXCEPT !.pc = "read", !.at = Backups, !.since = Len(written)])

(* Mutant: the first archive is left out. *)
ReadFileSkipsFirst(c) ==
    /\ client[c].pc = "read"
    /\ LET r == [client[c] EXCEPT !.logs = IF client[c].at = 1 THEN @ ELSE @ \o file[client[c].at]] IN
       Become(c, IF r.at = 0 THEN [r EXCEPT !.pc = "subscribe"] ELSE [r EXCEPT !.at = @ - 1])

(* Mutant: what is read is put in front. *)
ReadFileInFront(c) ==
    /\ client[c].pc = "read"
    /\ LET r == [client[c] EXCEPT !.logs = file[client[c].at] \o @] IN
       Become(c, IF r.at = 0 THEN [r EXCEPT !.pc = "subscribe"] ELSE [r EXCEPT !.at = @ - 1])

(* From the oldest archive to logs.txt. *)
ReadFile(c) ==
    /\ client[c].pc = "read"
    /\ LET r == [client[c] EXCEPT !.logs = @ \o file[client[c].at]] IN
       Become(c, IF r.at = 0 THEN [r EXCEPT !.pc = "subscribe"] ELSE [r EXCEPT !.at = @ - 1])

Subscribe(c) ==
    /\ client[c].pc = "subscribe"
    /\ Become(c, [client[c] EXCEPT !.pc = "stream"])

Deliver(c) ==
    /\ client[c].pc = "stream" /\ client[c].sub # <<>>
    /\ Become(c, [client[c] EXCEPT !.live = Append(@, Head(client[c].sub)), !.sub = Tail(@)])

(* The browser leaves, or does not take a frame for ten seconds. *)
Unsubscribe(c) ==
    /\ client[c].pc = "stream"
    /\ Become(c, Gone)

(* The service is killed; the files stay as they are. *)
Crash ==
    /\ mishaps < MaxMishaps
    /\ mishaps' = mishaps + 1
    /\ run' = "off"
    /\ pipe' = [p \in Pipes |-> <<>>]
    /\ appender' = [a \in Appenders |-> Idle]
    /\ client' = [c \in Clients |->
          IF client[c].pc = "new" THEN client[c] ELSE Gone]
    /\ UNCHANGED <<file, printed, written, torn>>

-----------------------------------------------------------------------------

Init ==
    /\ run = "off"
    /\ pipe = [p \in Pipes |-> <<>>]
    /\ appender = [a \in Appenders |-> Idle]
    /\ file = [i \in 0..Backups |-> <<>>]
    /\ client = [c \in Clients |-> NewClient]
    /\ printed = 0
    /\ mishaps = 0
    /\ written = <<>>
    /\ torn = {}

(* One step of AppendLog. *)
AppendStep(a) ==
    \/ Lock(a) \/ RemoveOldest(a) \/ ShiftArchive(a) \/ MoveCurrent(a) \/ WriteLine(a) \/ Publish(a)
StreamStep(p) == ReadPipe(p) \/ EndOfPipe(p)
ClientStep(c) ==
    Connect(c) \/ ReadFile(c) \/ Subscribe(c) \/ Deliver(c) \/ Unsubscribe(c)

Next ==
    \/ StartRun \/ AgentExit \/ WaitReturns \/ ReportExit \/ Crash
    \/ \E p \in Pipes : AgentPrints(p) \/ StreamStep(p)
    \/ \E a \in Appenders : AppendStep(a) \/ AppendFails(a)
    \/ \E c \in Clients : ClientStep(c)

Spec == Init /\ [][Next]_vars

-----------------------------------------------------------------------------
(* The type of every variable; a channel holds at most SubCap lines and    *)
(* one writer at a time is inside AppendLog.                               *)
TypeOK ==
    /\ run \in Runs
    /\ pipe \in [Pipes -> Seq(Line)] /\ \A p \in Pipes : Len(pipe[p]) <= PipeCap
    /\ appender \in [Appenders -> [pc: AppendPcs, line: Seq(Line), at: 0..Backups]]
    /\ Cardinality({a \in Appenders : appender[a].pc \in Locked}) <= 1
    /\ file \in [0..Backups -> Seq(Line)]
    /\ client \in [Clients -> [pc: ClientPcs, at: 0..Backups, since: Nat, logs: Seq(Line),
                               live: Seq(Line), sub: Seq(Line)]]
    /\ \A c \in Clients : Len(client[c].sub) <= SubCap
    /\ printed \in 0..MaxLines
    /\ mishaps \in 0..MaxMishaps
    /\ written \in Seq(Line)
    /\ torn \subseteq Clients

(* At every moment, in the middle of a rotation and after a crash or a     *)
(* failed rename in one, the files together are an end of what was         *)
(* written: in order, nothing twice, no hole.                              *)
StoredIsTail == IsSuffix(Stored, written)

(* Without such a mishap a line is dropped only when there is no archive   *)
(* left for it.                                                            *)
OnlyOldestDropped ==
    mishaps = 0 /\ IsFree /\ Stored # written => \A i \in 1..Backups : file[i] # <<>>

(* No file is longer than the limit, except for a line that is longer      *)
(* itself: a task's log needs (Backups + 1) * MaxBytes at most.            *)
FilesBounded ==
    \A i \in 0..Backups : Bytes(file[i]) <= MaxBytes \/ Len(file[i]) = 1

(* Positions of lines in what was written. *)
IndexOf(line) == CHOOSE i \in 1..Len(written) : written[i] = line
InOrder(lines) ==
    /\ Range(lines) \subseteq Range(written)
    /\ \A i, j \in 1..Len(lines) : i < j => IndexOf(lines[i]) < IndexOf(lines[j])

(* A log read without the lock, while it is rotated, may have a hole but   *)
(* shows no line twice and none before an older one.                       *)
ReadInOrder == \A c \in Clients : InOrder(client[c].logs)

(* When no rotation falls into the reading there is no hole either, and    *)
(* nothing that was written before it is missing at the end.               *)
ReadIsWhole ==
    \A c \in Clients \ torn : client[c].pc \in {"subscribe", "stream"} =>
        \E from \in 1..(Len(written) + 1), to \in client[c].since..Len(written) :
            client[c].logs = SubSeq(written, from, to)

(* What a browser is sent live is in the log, even when writing failed,    *)
(* and the lines of one pipe come in their order, once each.               *)
LiveIsLogged ==
    \A c \in Clients :
        LET seen == client[c].live \o client[c].sub IN
        /\ Range(seen) \subseteq Range(written)
        /\ \A i, j \in 1..Len(seen) : i < j /\ seen[i].from = seen[j].from =>
               IndexOf(seen[i]) < IndexOf(seen[j])

(* A browser that has stopped reading never holds up the agent or its run: *)
(* as long as a line is on its way to the log and the hub, one of the      *)
(* goroutines that carry them can go on.                                   *)
NeverHeldUp ==
    (\E a \in Appenders : appender[a].pc \notin {"read", "done"})
        => \E a \in Appenders : ENABLED AppendStep(a)

-----------------------------------------------------------------------------
(* Everything the agent prints is appended to the log                      *)
(* (docs/ARCHITECTURE.md:33), the last lines before its exit included.     *)
OutputIsLogged ==
    run = "off" /\ mishaps = 0 /\ (\A a \in Appenders : appender[a].pc = "done") =>
        \A n \in 1..printed : \E i \in 1..Len(written) : written[i].n = n
=============================================================================
