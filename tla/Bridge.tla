------------------------------- MODULE Bridge -------------------------------
(***************************************************************************)
(* The rounds of a task as the bridge in the container runs them           *)
(* (bridge.py: run_bridge and what it calls) and as the service judges     *)
(* them (enrichRunnerResult, runUntilSolved and result_parser.go): the     *)
(* OpenCode process, the thread that reads its output, the timeouts, the   *)
(* recovery session, the write-up, and the log both sides understand each  *)
(* other by.                                                               *)
(*                                                                         *)
(* A text is a sequence of lines.  The clock is left out: a timeout that   *)
(* is configured may pass at any time.                                     *)
(***************************************************************************)
EXTENDS Naturals, Sequences, SequencesExt

CONSTANTS
    Flags,      \* lines that are flags
    Blocks,     \* texts OpenCode may print at once
    MaxBlocks,  \* bound on the blocks of the task
    MaxRounds,  \* bound on the rounds of the task
    FinalCap,   \* lines of the final text that are printed (12000 characters)
    Timeouts    \* configured: a subset of {"run", "idle"}

Lines == {"solved", "blank", "text"} \cup Flags
NoFlag == "none"

ASSUME FlagsAssumption == Flags \cap {"solved", "blank", "text", "final", "preview", "wp", "end", "none"} = {}
ASSUME BlocksAssumption == Blocks \subseteq Seq(Lines) \ {<<>>}
ASSUME BridgeBoundsAssumption == MaxBlocks \in Nat /\ MaxRounds \in Nat \ {0} /\ FinalCap \in Nat \ {0}
ASSUME TimeoutsAssumption == Timeouts \subseteq {"run", "idle"}

VARIABLES
    bridge,    \* run_bridge and the calls in it
    process,   \* OpenCode
    out,       \* blocks it has printed and the thread has not read
    queue,     \* output_queue, with EOF for None
    writeup,   \* the write-up file is there and is not empty
    log,       \* the task's log
    round,     \* rounds so far
    verdict    \* the flag the service stores, or NoFlag

vars == <<bridge, process, out, queue, writeup, log, round, verdict>>

EOF == <<>>
BridgePcs == {"start", "loop", "poll", "finish", "text", "emit", "exited", "judged"}
Kinds == {"first", "recovery", "writeup"}
Sessions == {"none", "known"}
Running == {"running", "quiet"}
Codes == {0, 1, 124, 125}
NewBridge(session, printed) ==
    [pc |-> "start", kind |-> "first", config |-> session, session |-> session,
     blocks |-> <<>>, text |-> <<>>, final |-> <<>>, printed |-> printed, code |-> 0]

BridgeState ==
    [pc: BridgePcs, kind: Kinds, config: Sessions, session: Sessions, blocks: Seq(Blocks),
     text: Seq(Lines), final: Seq(Lines), printed: 0..MaxBlocks, code: Codes]

-----------------------------------------------------------------------------
(* What the two programs read in a text.                                   *)

Markers(text) == {i \in 1..Len(text) : text[i] = "solved"}
Least(S) == CHOOSE i \in S : \A j \in S : i <= j

(* extract_solved_flag: a marker before a blank line is passed over.       *)
ExtractSolvedFlag(text) ==
    LET ends == {i \in Markers(text) : i = Len(text) \/ text[i + 1] # "blank"} IN
    IF ends = {} \/ Least(ends) = Len(text) THEN NoFlag ELSE text[Least(ends) + 1]

(* latestFinalReadableOutput: all that follows the last such line.         *)
LatestFinal(lines) ==
    LET finals == {i \in 1..Len(lines) : lines[i] = "final"} IN
    IF finals = {} THEN <<>>
    ELSE LET last == CHOOSE i \in finals : \A j \in finals : j <= i IN
         SubSeq(lines, last + 1, Len(lines))

(* Mutant: the last marker counts. *)
ParseLastMarker(lines) ==
    LET text == LatestFinal(lines) IN
    IF Markers(text) = {} THEN NoFlag
    ELSE LET i == CHOOSE i \in Markers(text) : \A j \in Markers(text) : j <= i IN
         IF i = Len(text) \/ text[i + 1] = "blank" THEN NoFlag ELSE text[i + 1]

(* parseRunnerOutput: only the first marker counts.                        *)
ParseRunnerOutput(lines) ==
    LET text == LatestFinal(lines) IN
    IF Markers(text) = {} THEN NoFlag
    ELSE LET i == Least(Markers(text)) IN
         IF i = Len(text) \/ text[i + 1] = "blank" THEN NoFlag ELSE text[i + 1]

(* The final text is the blocks without repetitions (dedupe_preserve_order), *)
(* joined with empty lines.                                                *)
Joined(text, blocks, block) ==
    IF Contains(blocks, block) THEN text
    ELSE IF text = <<>> THEN block ELSE text \o <<"blank">> \o block

-----------------------------------------------------------------------------
(* OpenCode and the thread that reads its output                           *)

OpenCodePrints(block) ==
    /\ process = "running" /\ bridge.printed < MaxBlocks
    /\ out' = Append(out, block)
    /\ bridge' = [bridge EXCEPT !.printed = @ + 1]
    /\ UNCHANGED <<process, queue, writeup, log, round, verdict>>

OpenCodeWrites ==
    /\ process \in Running /\ ~writeup
    /\ writeup' = TRUE
    /\ UNCHANGED <<bridge, process, out, queue, log, round, verdict>>

(* It may close its output before it ends. *)
OpenCodeCloses ==
    /\ process = "running"
    /\ process' = "quiet"
    /\ UNCHANGED <<bridge, out, queue, writeup, log, round, verdict>>

OpenCodeExits(status) ==
    /\ process \in Running
    /\ process' = status
    /\ UNCHANGED <<bridge, out, queue, writeup, log, round, verdict>>

ReadOutput ==
    /\ out # <<>>
    /\ queue' = Append(queue, Head(out))
    /\ out' = Tail(out)
    /\ UNCHANGED <<bridge, process, writeup, log, round, verdict>>

(* A descendant may hold the pipe open, so this may come late or never.    *)
ReadEOF ==
    /\ process \in {"quiet", "ok", "failed", "killed"} /\ out = <<>>
    /\ bridge.pc \in {"loop", "poll"} /\ ~Contains(queue, EOF)
    /\ queue' = Append(queue, EOF)
    /\ UNCHANGED <<bridge, process, out, writeup, log, round, verdict>>

-----------------------------------------------------------------------------
(* run_opencode_once                                                       *)

(* Mutant: an exception of the write-up ends the round. *)
RaisedAlways(code) == [bridge EXCEPT !.pc = "exited", !.code = code]

(* run_bridge and ensure_writeup on an exception: a failed write-up is no  *)
(* failure of the round.                                                   *)
Raised(code) ==
    IF bridge.kind = "writeup" THEN [bridge EXCEPT !.pc = "emit"]
    ELSE [bridge EXCEPT !.pc = "exited", !.code = code]
FailureLog == IF bridge.kind = "writeup" THEN log ELSE Append(log, "end")

(* OpenCode cannot be started. *)
PopenFails ==
    /\ bridge.pc = "start"
    /\ bridge' = Raised(1)
    /\ log' = FailureLog
    /\ UNCHANGED <<process, out, queue, writeup, round, verdict>>

Popen ==
    /\ bridge.pc = "start"
    /\ bridge' = [bridge EXCEPT !.pc = "loop", !.blocks = <<>>, !.text = <<>>]
    /\ process' = "running"
    /\ out' = <<>> /\ queue' = <<>>
    /\ UNCHANGED <<writeup, log, round, verdict>>

(* A block may name the session; it is shown unless it repeats the one     *)
(* before, and kept for the final text.                                    *)
GetBlock ==
    /\ bridge.pc = "loop" /\ queue # <<>> /\ Head(queue) # EOF
    /\ \E session \in {bridge.session, "known"} :
        bridge' = [bridge EXCEPT !.session = session, !.blocks = Append(@, Head(queue)),
                                 !.text = Joined(@, bridge.blocks, Head(queue))]
    /\ queue' = Tail(queue)
    /\ log' = IF bridge.blocks # <<>> /\ Last(bridge.blocks) = Head(queue) THEN log
              ELSE log \o <<"preview">> \o Head(queue)
    /\ UNCHANGED <<process, out, writeup, round, verdict>>

GetEOF ==
    /\ bridge.pc = "loop" /\ queue # <<>> /\ Head(queue) = EOF
    /\ bridge' = [bridge EXCEPT !.pc = "finish"]
    /\ UNCHANGED <<process, out, queue, writeup, log, round, verdict>>

GetEmpty ==
    /\ bridge.pc = "loop" /\ queue = <<>>
    /\ bridge' = [bridge EXCEPT !.pc = "poll"]
    /\ UNCHANGED <<process, out, queue, writeup, log, round, verdict>>

(* Without an end of the output, the end of the process ends the loop.     *)
Poll ==
    /\ bridge.pc = "poll"
    /\ bridge' = [bridge EXCEPT !.pc = IF process \in Running THEN "loop" ELSE "finish"]
    /\ UNCHANGED <<process, out, queue, writeup, log, round, verdict>>

(* terminate_process *)
Terminated == IF process \in Running THEN "killed" ELSE process

(* Mutant: the clock is looked at only when there is output. *)
TimeoutAfterOutput(kind) ==
    /\ bridge.pc = "loop" /\ kind \in Timeouts /\ queue # <<>>
    /\ process' = Terminated
    /\ bridge' = Raised(IF kind = "run" THEN 124 ELSE 125)
    /\ log' = FailureLog
    /\ UNCHANGED <<out, queue, writeup, round, verdict>>

(* A configured timeout ends the loop by an exception.                     *)
Timeout(kind) ==
    /\ bridge.pc = "loop" /\ kind \in Timeouts
    /\ process' = Terminated
    /\ bridge' = Raised(IF kind = "run" THEN 124 ELSE 125)
    /\ log' = FailureLog
    /\ UNCHANGED <<out, queue, writeup, round, verdict>>

(* Mutant: a process that has closed its output is left alone. *)
FinishWithoutKill ==
    /\ bridge.pc = "finish"
    /\ IF process \in Running \cup {"ok"}
       THEN bridge' = [bridge EXCEPT !.pc = "text"] /\ UNCHANGED log
       ELSE bridge' = Raised(1) /\ log' = FailureLog
    /\ UNCHANGED <<process, out, queue, writeup, round, verdict>>

(* The loop is over: a process that still runs is killed, and only status  *)
(* 0 returns a text.                                                       *)
Finish ==
    /\ bridge.pc = "finish"
    /\ process' = Terminated
    /\ IF process = "ok"
       THEN bridge' = [bridge EXCEPT !.pc = "text"] /\ UNCHANGED log
       ELSE bridge' = Raised(1) /\ log' = FailureLog
    /\ UNCHANGED <<out, queue, writeup, round, verdict>>

-----------------------------------------------------------------------------
(* run_opencode_terminal, ensure_writeup, run_bridge                       *)

(* An existing session that returns no text is replaced by a new one, once. *)
Recover ==
    /\ bridge.pc = "text" /\ bridge.kind = "first" /\ bridge.blocks = <<>>
    /\ bridge.config = "known"
    /\ bridge' = [bridge EXCEPT !.pc = "start", !.kind = "recovery", !.session = "none"]
    /\ UNCHANGED <<process, out, queue, writeup, log, round, verdict>>

NoReadableOutput ==
    /\ bridge.pc = "text" /\ bridge.blocks = <<>>
    /\ bridge.kind = "recovery" \/ (bridge.kind = "first" /\ bridge.config = "none")
    /\ bridge' = [bridge EXCEPT !.pc = "exited", !.code = 1]
    /\ log' = Append(log, "end")
    /\ UNCHANGED <<process, out, queue, writeup, round, verdict>>

(* A solved challenge without a write-up is asked for one, once.           *)
HaveText ==
    /\ bridge.pc = "text" /\ bridge.kind # "writeup" /\ bridge.blocks # <<>>
    /\ bridge' = IF ExtractSolvedFlag(bridge.text) # NoFlag /\ ~writeup
                 THEN [bridge EXCEPT !.final = bridge.text, !.pc = "start", !.kind = "writeup"]
                 ELSE [bridge EXCEPT !.final = bridge.text, !.pc = "emit"]
    /\ UNCHANGED <<process, out, queue, writeup, log, round, verdict>>

HaveWriteup ==
    /\ bridge.pc = "text" /\ bridge.kind = "writeup"
    /\ bridge' = [bridge EXCEPT !.pc = "emit"]
    /\ UNCHANGED <<process, out, queue, writeup, log, round, verdict>>

(* The write-up is named and the end of the final text is printed.         *)
LastLines(text) == SubSeq(text, IF Len(text) > FinalCap THEN Len(text) - FinalCap + 1 ELSE 1, Len(text))

Emit ==
    /\ bridge.pc = "emit"
    /\ log' = log \o (IF ExtractSolvedFlag(bridge.final) # NoFlag /\ writeup THEN <<"wp">> ELSE <<>>)
                  \o <<"final">> \o LastLines(bridge.final) \o <<"end">>
    /\ bridge' = [bridge EXCEPT !.pc = "exited", !.code = 0]
    /\ UNCHANGED <<process, out, queue, writeup, round, verdict>>

-----------------------------------------------------------------------------
(* The service *)

(* enrichRunnerResult reads the whole log of the task, whatever the status. *)
Judge ==
    /\ bridge.pc = "exited"
    /\ bridge' = [bridge EXCEPT !.pc = "judged"]
    /\ verdict' = ParseRunnerOutput(log)
    /\ UNCHANGED <<process, out, queue, writeup, log, round>>

(* The service keeps the session the log has named last. *)
HasSession == bridge.config = "known" \/ bridge.session = "known"

(* runUntilSolved, or a message of the user after a failure: the next      *)
(* round continues the session.                                            *)
Continue ==
    /\ bridge.pc = "judged" /\ verdict = NoFlag /\ HasSession /\ round < MaxRounds
    /\ bridge' = NewBridge("known", bridge.printed)
    /\ round' = round + 1
    /\ process' = "none"
    /\ UNCHANGED <<out, queue, writeup, log, verdict>>

-----------------------------------------------------------------------------

Init ==
    /\ bridge = NewBridge("none", 0)
    /\ process = "none"
    /\ out = <<>> /\ queue = <<>>
    /\ writeup = FALSE
    /\ log = <<>>
    /\ round = 1
    /\ verdict = NoFlag

OpenCodeStep ==
    \/ \E block \in Blocks : OpenCodePrints(block)
    \/ OpenCodeWrites \/ OpenCodeCloses
    \/ \E status \in {"ok", "failed"} : OpenCodeExits(status)
ReadStep == ReadOutput \/ ReadEOF
BridgeStep ==
    \/ Popen \/ PopenFails \/ GetBlock \/ GetEOF \/ GetEmpty \/ Poll \/ Finish
    \/ Recover \/ NoReadableOutput \/ HaveText \/ HaveWriteup \/ Emit \/ Judge

Next ==
    \/ OpenCodeStep \/ ReadStep \/ BridgeStep \/ Continue
    \/ \E kind \in Timeouts : Timeout(kind)

Spec == Init /\ [][Next]_vars

(* The bridge runs; a timeout that has passed is seen at the next turn of  *)
(* the loop.  OpenCode may hang, and its output may stay open.             *)
FairSpec ==
    /\ Spec
    /\ WF_vars(BridgeStep) /\ WF_vars(ReadOutput)
    /\ \A kind \in Timeouts : SF_vars(Timeout(kind))

-----------------------------------------------------------------------------
(* The type of every variable. *)
TypeOK ==
    /\ bridge \in BridgeState
    /\ process \in Running \cup {"none", "ok", "failed", "killed"}
    /\ out \in Seq(Blocks) /\ queue \in Seq(Blocks \cup {EOF})
    /\ writeup \in BOOLEAN
    /\ log \in Seq(Lines \cup {"final", "preview", "wp", "end"})
    /\ round \in 1..MaxRounds
    /\ verdict \in Lines \cup {"final", "preview", "wp", "end", NoFlag}

(* No OpenCode process outlives the call that started it: the next one,    *)
(* and the next round in the same container, has the session for itself.   *)
NoProcessLeft == bridge.pc \notin {"loop", "poll", "finish"} => process \notin Running

(* A round that has found its text exits with 0, and this text, as far as  *)
(* it is printed, is what the service finds in the log: nothing an earlier *)
(* round or the write-up has logged stands in its place.                   *)
TextIsShown ==
    bridge.pc \in {"exited", "judged"} /\ bridge.final # <<>> =>
        bridge.code = 0 /\ LatestFinal(log) = LastLines(bridge.final) \o <<"end">>

(* When the bridge has declared the challenge solved at the first marker   *)
(* of a text it could print in full, the service stores that very flag,    *)
(* although it reads the log of all rounds, with previews and write-ups.   *)
SolvedIsStored ==
    bridge.pc = "judged" /\ bridge.code = 0 /\ Len(bridge.final) <= FinalCap
        /\ Markers(bridge.final) # {}
        /\ Least(Markers(bridge.final)) < Len(bridge.final)
        /\ bridge.final[Least(Markers(bridge.final)) + 1] # "blank"
    => verdict = ExtractSolvedFlag(bridge.final)

(* With a timeout configured a round ends, even if OpenCode hangs, ignores *)
(* the end of its input or leaves its output open.                         *)
RoundEnds == bridge.pc \notin {"exited", "judged"} ~> bridge.pc = "judged"

-----------------------------------------------------------------------------
(* "A round that ended without the two lines leaves the task completed; no *)
(* flag is invented" (docs/flag-extraction.md:36).                         *)
NoFlagInvented == verdict \in Flags \cup {NoFlag}
=============================================================================
