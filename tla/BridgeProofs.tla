---------------------------- MODULE BridgeProofs -----------------------------
(***************************************************************************)
(* What the rounds of a task promise, for any flags, blocks, number of     *)
(* rounds and timeouts: the types, that no OpenCode process is left        *)
(* behind, that a text once found is shown, and that the service stores    *)
(* the flag the bridge has declared.                                       *)
(***************************************************************************)
EXTENDS Bridge, SequenceTheorems, WellFoundedInduction, TLAPS

LogLines == Lines \cup {"final", "preview", "wp", "end"}

-----------------------------------------------------------------------------
(* Markers are looked for from the front of a text, the final text from    *)
(* the end of the log: both exist.                                         *)

LEMMA NatWellOrdered ==
    \A T \in SUBSET Nat : T # {} => \E x \in T : \A y \in T : x <= y
  <1> DEFINE R == OpToRel(<, Nat)
  <1>1. \A y, x \in Nat : <<y, x>> \in R <=> y < x
    BY DEF OpToRel
  <1>2. IsWellFoundedOn(R, Nat)
    BY NatLessThanWellFounded
  <1> HIDE DEF R
  <1> SUFFICES ASSUME NEW T \in SUBSET Nat, T # {}
               PROVE  \E x \in T : \A y \in T : x <= y
    OBVIOUS
  <1>3. PICK x \in T : \A y \in T : ~ (<<y, x>> \in R)
    BY <1>2, WFMin
  <1>4. \A y \in T : ~(y < x)
    BY <1>1, <1>3
  <1> QED
    BY <1>4

LEMMA LeastExists ==
    ASSUME NEW S \in SUBSET Nat, S # {}
    PROVE  Least(S) \in S /\ \A j \in S : Least(S) <= j
  <1>1. \E i \in S : \A j \in S : i <= j
    BY NatWellOrdered
  <1> QED
    BY <1>1 DEF Least

LEMMA LeastIs ==
    ASSUME NEW S \in SUBSET Nat, NEW i \in S, \A j \in S : i <= j
    PROVE  Least(S) = i
  <1>1. Least(S) \in S /\ Least(S) <= i
    BY LeastExists
  <1>2. i <= Least(S) /\ i \in Nat /\ Least(S) \in Nat
    BY <1>1
  <1> HIDE DEF Least
  <1> QED
    BY <1>1, <1>2

LEMMA GreatestExists ==
    ASSUME NEW n \in Nat, NEW S \in SUBSET (1..n), S # {}
    PROVE  \E i \in S : \A j \in S : j <= i
  <1> DEFINE T == {k \in 0..n : n - k \in S}
  <1>0. PICK i \in S : i \in 1..n
    OBVIOUS
  <1>1. T \in SUBSET Nat /\ n - i \in T
    BY <1>0
  <1>2. PICK x \in T : \A y \in T : x <= y
    BY <1>1, NatWellOrdered
  <1>3. \A j \in S : n - j \in T
    OBVIOUS
  <1>4. n - x \in S /\ \A j \in S : x <= n - j
    BY <1>2, <1>3
  <1> QED
    BY <1>4

LEMMA MarkersAreNumbers ==
    ASSUME NEW text \in Seq(LogLines)
    PROVE  Markers(text) \in SUBSET (1..Len(text)) /\ Markers(text) \in SUBSET Nat
  BY LenProperties DEF Markers

LEMMA LatestFinalType ==
    ASSUME NEW lines \in Seq(LogLines)
    PROVE  LatestFinal(lines) \in Seq(LogLines)
  <1> DEFINE finals == {i \in 1..Len(lines) : lines[i] = "final"}
             last == CHOOSE i \in finals : \A j \in finals : j <= i
  <1>1. Len(lines) \in Nat
    BY LenProperties
  <1>2. CASE finals = {}
    BY <1>2, EmptySeq DEF LatestFinal
  <1>3. CASE finals # {}
    <2>1. last \in 1..Len(lines)
      BY <1>1, <1>3, GreatestExists
    <2> HIDE DEF last
    <2>2. \A i \in (last + 1)..Len(lines) : lines[i] \in LogLines
      BY <1>1, <2>1, ElementOfSeq
    <2>3. SubSeq(lines, last + 1, Len(lines)) \in Seq(LogLines)
      BY <1>1, <2>1, <2>2, SubSeqProperties
    <2> QED
      BY <1>3, <2>3 DEF LatestFinal, last
  <1> QED
    BY <1>2, <1>3

LEMMA VerdictType ==
    ASSUME NEW lines \in Seq(LogLines)
    PROVE  ParseRunnerOutput(lines) \in LogLines \cup {NoFlag}
  <1> DEFINE text == LatestFinal(lines)
             i == Least(Markers(text))
  <1>1. text \in Seq(LogLines) /\ Len(text) \in Nat
    BY LatestFinalType, LenProperties
  <1>2. CASE Markers(text) = {}
    BY <1>2 DEF ParseRunnerOutput
  <1>3. CASE Markers(text) # {}
    <2>1. i \in 1..Len(text)
      BY <1>1, <1>3, LeastExists, MarkersAreNumbers
    <2>2. i # Len(text) => text[i + 1] \in LogLines
      BY <1>1, <2>1, ElementOfSeq
    <2> QED
      BY <1>3, <2>2 DEF ParseRunnerOutput
  <1> QED
    BY <1>2, <1>3

-----------------------------------------------------------------------------
(* The texts and the log are sequences of lines.                           *)

LEMMA BlockIsText ==
    ASSUME NEW block \in Blocks
    PROVE  block \in Seq(Lines) /\ block # <<>>
  BY BlocksAssumption

LEMMA LinesAreLogged ==
    ASSUME NEW text \in Seq(Lines)
    PROVE  text \in Seq(LogLines)
  BY SeqMonotonic DEF LogLines

LEMMA JoinedType ==
    ASSUME NEW text \in Seq(Lines), NEW blocks, NEW block \in Seq(Lines)
    PROVE  Joined(text, blocks, block) \in Seq(Lines)
  <1>1. <<"blank">> \in Seq(Lines)
    BY DEF Lines
  <1>2. text \o <<"blank">> \o block \in Seq(Lines)
    BY <1>1, ConcatProperties
  <1> QED
    BY <1>2 DEF Joined

LEMMA LastLinesType ==
    ASSUME NEW text \in Seq(Lines)
    PROVE  LastLines(text) \in Seq(Lines)
  <1> DEFINE first == IF Len(text) > FinalCap THEN Len(text) - FinalCap + 1 ELSE 1
  <1>1. Len(text) \in Nat /\ first \in Nat \ {0}
    BY LenProperties, BridgeBoundsAssumption
  <1> HIDE DEF first
  <1>2. \A i \in first..Len(text) : text[i] \in Lines
    BY <1>1, ElementOfSeq
  <1> QED
    BY <1>1, <1>2, SubSeqProperties DEF LastLines, first

LEMMA LogGrows ==
    ASSUME NEW text \in Seq(LogLines), log \in Seq(LogLines)
    PROVE  /\ log \o <<"preview">> \o text \in Seq(LogLines)
           /\ Append(log, "end") \in Seq(LogLines)
  <1>1. <<"preview">> \in Seq(LogLines) /\ "end" \in LogLines
    BY DEF LogLines
  <1> QED
    BY <1>1, ConcatProperties, AppendProperties

(* What Emit writes before the text. *)
Preface == IF ExtractSolvedFlag(bridge.final) # NoFlag /\ writeup THEN <<"wp">> ELSE <<>>

LEMMA EmitLog ==
    ASSUME TypeOK, Emit
    PROVE  \E p \in Seq(LogLines) : log' = p \o <<"final">> \o LastLines(bridge.final) \o <<"end">>
  <1>1. log \in Seq(LogLines) /\ Preface \in Seq(LogLines)
    <2>1. <<"wp">> \in Seq(LogLines)
      BY DEF LogLines
    <2> QED
      BY <2>1, EmptySeq DEF TypeOK, LogLines, Preface
  <1>2. log \o Preface \in Seq(LogLines)
    BY <1>1, ConcatProperties
  <1>3. log' = (log \o Preface) \o <<"final">> \o LastLines(bridge.final) \o <<"end">>
    BY DEF Emit, Preface
  <1> QED
    BY <1>2, <1>3

LEMMA ShownType ==
    ASSUME NEW p \in Seq(LogLines), NEW text \in Seq(Lines)
    PROVE  p \o <<"final">> \o text \o <<"end">> \in Seq(LogLines)
  <1>1. <<"final">> \in Seq(LogLines) /\ <<"end">> \in Seq(LogLines)
    BY DEF LogLines
  <1>2. text \in Seq(LogLines)
    BY LinesAreLogged
  <1>3. p \o <<"final">> \in Seq(LogLines)
    BY <1>1, ConcatProperties
  <1>4. p \o <<"final">> \o text \in Seq(LogLines)
    BY <1>2, <1>3, ConcatProperties
  <1> QED
    BY <1>1, <1>4, ConcatProperties

-----------------------------------------------------------------------------
(* Types                                                                   *)

LEMMA InitTypes == Init => TypeOK
  <1> SUFFICES ASSUME Init PROVE TypeOK
    OBVIOUS
  <1>1. <<>> \in Seq(Lines) /\ <<>> \in Seq(Blocks)
    BY EmptySeq
  <1>2. NewBridge("none", 0) \in BridgeState
    BY <1>1, BridgeBoundsAssumption
    DEF NewBridge, BridgeState, BridgePcs, Kinds, Sessions, Codes
  <1>3. <<>> \in Seq(LogLines) /\ <<>> \in Seq(Blocks \cup {EOF})
    BY EmptySeq
  <1>4. 1 \in 1..MaxRounds
    BY BridgeBoundsAssumption
  <1> QED
    BY <1>1, <1>2, <1>3, <1>4 DEF Init, TypeOK, LogLines

(* An exception leaves a bridge and a log of their types. *)
LEMMA RaisedTypes ==
    ASSUME TypeOK, NEW code \in Codes
    PROVE  Raised(code) \in BridgeState /\ FailureLog \in Seq(LogLines)
  <1>1. Raised(code) \in BridgeState
    BY DEF TypeOK, Raised, BridgeState, BridgePcs
  <1>2. log \in Seq(LogLines) /\ "end" \in LogLines
    BY DEF TypeOK, LogLines
  <1> QED
    BY <1>1, <1>2, AppendProperties DEF FailureLog

LEMMA GetBlockTypes == TypeOK /\ GetBlock => TypeOK'
  <1> SUFFICES ASSUME TypeOK, GetBlock PROVE TypeOK'
    OBVIOUS
  <1> DEFINE block == Head(queue)
  <1>1. block \in Blocks /\ queue' \in Seq(Blocks \cup {EOF})
    BY HeadTailProperties DEF TypeOK, GetBlock
  <1>2. block \in Seq(Lines)
    BY <1>1, BlockIsText
  <1>3. Append(bridge.blocks, block) \in Seq(Blocks)
    BY <1>1, AppendProperties DEF TypeOK, BridgeState
  <1>4. Joined(bridge.text, bridge.blocks, block) \in Seq(Lines)
    BY <1>2, JoinedType DEF TypeOK, BridgeState
  <1>5. log' \in Seq(LogLines)
    BY <1>2, LinesAreLogged, LogGrows DEF TypeOK, GetBlock, LogLines
  <1> HIDE DEF block
  <1>6. bridge' \in BridgeState
    <2>1. PICK session \in {bridge.session, "known"} :
            bridge' = [bridge EXCEPT !.session = session, !.blocks = Append(@, block),
                                     !.text = Joined(@, bridge.blocks, block)]
      BY DEF GetBlock, block
    <2> QED
      BY <1>3, <1>4, <2>1 DEF TypeOK, BridgeState, Sessions
  <1> QED
    BY <1>1, <1>5, <1>6 DEF TypeOK, GetBlock, LogLines

LEMMA TypesStep == TypeOK /\ [Next]_vars => TypeOK'
  <1> SUFFICES ASSUME TypeOK, [Next]_vars PROVE TypeOK'
    OBVIOUS
  <1> USE DEF TypeOK, Running
  <1>1. ASSUME NEW block \in Blocks, OpenCodePrints(block) PROVE TypeOK'
    <2>1. out' \in Seq(Blocks)
      BY <1>1, AppendProperties DEF OpenCodePrints
    <2>2. bridge' \in BridgeState
      <3>1. bridge.printed + 1 \in 0..MaxBlocks
        BY <1>1, BridgeBoundsAssumption DEF OpenCodePrints, BridgeState
      <3>2. bridge' = [bridge EXCEPT !.printed = bridge.printed + 1]
        BY <1>1 DEF OpenCodePrints
      <3> QED
        BY <3>1, <3>2 DEF BridgeState
    <2>3. UNCHANGED <<process, queue, writeup, log, round, verdict>>
      BY <1>1 DEF OpenCodePrints
    <2> QED
      BY <2>1, <2>2, <2>3
  <1>2. CASE OpenCodeWrites
    BY <1>2 DEF OpenCodeWrites
  <1>3. CASE OpenCodeCloses
    BY <1>3 DEF OpenCodeCloses
  <1>4. ASSUME NEW status \in {"ok", "failed"}, OpenCodeExits(status) PROVE TypeOK'
    BY <1>4 DEF OpenCodeExits
  <1>5. CASE ReadOutput
    <2>1. out' \in Seq(Blocks) /\ Head(out) \in Blocks \cup {EOF}
      BY <1>5, HeadTailProperties DEF ReadOutput
    <2>2. queue' \in Seq(Blocks \cup {EOF})
      BY <1>5, <2>1, AppendProperties DEF ReadOutput
    <2> QED
      BY <1>5, <2>1, <2>2 DEF ReadOutput
  <1>6. CASE ReadEOF
    <2>1. queue' \in Seq(Blocks \cup {EOF})
      BY <1>6, AppendProperties DEF ReadEOF
    <2> QED
      BY <1>6, <2>1 DEF ReadEOF
  <1>7. CASE Popen
    <2>1. <<>> \in Seq(Blocks) /\ <<>> \in Seq(Lines) /\ <<>> \in Seq(Blocks \cup {EOF})
      BY EmptySeq
    <2>2. bridge' \in BridgeState
      BY <1>7, <2>1 DEF Popen, BridgeState, BridgePcs
    <2> QED
      BY <1>7, <2>1, <2>2 DEF Popen
  <1>8. CASE PopenFails
    BY <1>8, RaisedTypes DEF PopenFails, Codes, LogLines
  <1>9. CASE GetBlock
    BY <1>9, GetBlockTypes
  <1>10. CASE GetEOF
    BY <1>10 DEF GetEOF, BridgeState, BridgePcs
  <1>11. CASE GetEmpty
    BY <1>11 DEF GetEmpty, BridgeState, BridgePcs
  <1>12. CASE Poll
    BY <1>12 DEF Poll, BridgeState, BridgePcs
  <1>13. CASE Finish
    <2>1. process' \in Running \cup {"none", "ok", "failed", "killed"}
      BY <1>13 DEF Finish, Terminated
    <2>2. Raised(1) \in BridgeState /\ FailureLog \in Seq(LogLines)
      BY RaisedTypes DEF Codes
    <2>3. bridge' \in BridgeState
      BY <1>13, <2>2 DEF Finish, BridgeState, BridgePcs
    <2>4. log' \in Seq(LogLines)
      BY <1>13, <2>2 DEF Finish, LogLines
    <2> QED
      BY <1>13, <2>1, <2>3, <2>4 DEF Finish, LogLines
  <1>14. CASE Recover
    BY <1>14 DEF Recover, BridgeState, BridgePcs, Kinds, Sessions
  <1>15. CASE NoReadableOutput
    <2>1. log' \in Seq(LogLines)
      BY <1>15, EmptySeq, LogGrows DEF NoReadableOutput, LogLines
    <2>2. bridge' \in BridgeState
      BY <1>15 DEF NoReadableOutput, BridgeState, BridgePcs, Codes
    <2> QED
      BY <1>15, <2>1, <2>2 DEF NoReadableOutput, LogLines
  <1>16. CASE HaveText
    BY <1>16 DEF HaveText, BridgeState, BridgePcs, Kinds
  <1>17. CASE HaveWriteup
    BY <1>17 DEF HaveWriteup, BridgeState, BridgePcs
  <1>18. CASE Emit
    <2>1. LastLines(bridge.final) \in Seq(Lines)
      BY LastLinesType DEF BridgeState
    <2>2. log' \in Seq(LogLines)
      BY <1>18, <2>1, EmitLog, ShownType
    <2>3. bridge' \in BridgeState
      BY <1>18 DEF Emit, BridgeState, BridgePcs, Codes
    <2> QED
      BY <1>18, <2>2, <2>3 DEF Emit, LogLines
  <1>19. CASE Judge
    <2>1. ParseRunnerOutput(log) \in LogLines \cup {NoFlag}
      BY VerdictType DEF LogLines
    <2>2. bridge' \in BridgeState
      BY <1>19 DEF Judge, BridgeState, BridgePcs
    <2> QED
      BY <1>19, <2>1, <2>2 DEF Judge, LogLines
  <1>20. CASE Continue
    <2>1. <<>> \in Seq(Blocks) /\ <<>> \in Seq(Lines)
      BY EmptySeq
    <2>2. bridge' \in BridgeState
      BY <1>20, <2>1 DEF Continue, NewBridge, BridgeState, BridgePcs, Kinds, Sessions, Codes
    <2>3. round' \in 1..MaxRounds
      BY <1>20, BridgeBoundsAssumption DEF Continue
    <2> QED
      BY <1>20, <2>2, <2>3 DEF Continue
  <1>21. ASSUME NEW kind \in Timeouts, Timeout(kind) PROVE TypeOK'
    <2>1. \A code \in Codes : Raised(code) \in BridgeState /\ FailureLog \in Seq(LogLines)
      BY RaisedTypes
    <2>2. bridge' \in BridgeState /\ log' \in Seq(LogLines)
      BY <1>21, <2>1 DEF Timeout, Codes
    <2>3. process' \in Running \cup {"none", "ok", "failed", "killed"}
      BY <1>21 DEF Timeout, Terminated
    <2> QED
      BY <1>21, <2>2, <2>3 DEF Timeout, LogLines
  <1>22. CASE UNCHANGED vars
    BY <1>22 DEF vars
  <1> QED
    BY <1>1, <1>2, <1>3, <1>4, <1>5, <1>6, <1>7, <1>8, <1>9, <1>10, <1>11, <1>12, <1>13,
       <1>14, <1>15, <1>16, <1>17, <1>18, <1>19, <1>20, <1>21, <1>22
    DEF Next, OpenCodeStep, ReadStep, BridgeStep

(* Every reachable state of the bridge is well typed: what it keeps are    *)
(* texts, whatever OpenCode prints and in whatever order it is read.       *)
THEOREM BridgeTypes == Spec => []TypeOK
  <1>1. Init => TypeOK
    BY InitTypes
  <1>2. TypeOK /\ [Next]_vars => TypeOK'
    BY TypesStep
  <1> QED
    BY <1>1, <1>2, PTL DEF Spec

-----------------------------------------------------------------------------
(* What the service reads                                                  *)

Shown(text) ==
    \E p \in Seq(LogLines) : log = p \o <<"final">> \o LastLines(text) \o <<"end">>

(* No line of a text names a final text. *)
LEMMA TextHasNoFinal ==
    ASSUME NEW text \in Seq(Lines), NEW i \in 1..Len(text)
    PROVE  text[i] # "final"
  <1>1. text[i] \in Lines
    BY ElementOfSeq
  <1> QED
    BY <1>1, FlagsAssumption DEF Lines

LEMMA ConcatAt ==
    ASSUME NEW s \in Seq(LogLines), NEW t \in Seq(LogLines)
    PROVE  /\ s \o t \in Seq(LogLines)
           /\ Len(s) \in Nat /\ Len(t) \in Nat /\ Len(s \o t) = Len(s) + Len(t)
           /\ \A i \in 1..Len(s) : (s \o t)[i] = s[i]
           /\ \A i \in 1..Len(t) : (s \o t)[Len(s) + i] = t[i]
  <1>1. Len(s) \in Nat /\ Len(t) \in Nat
    BY LenProperties
  <1>2. /\ s \o t \in Seq(LogLines)
        /\ Len(s \o t) = Len(s) + Len(t)
        /\ \A i \in 1..(Len(s) + Len(t)) :
             (s \o t)[i] = IF i <= Len(s) THEN s[i] ELSE t[i - Len(s)]
    BY ConcatProperties
  <1>3. ASSUME NEW i \in 1..Len(s) PROVE (s \o t)[i] = s[i]
    BY <1>1, <1>2
  <1>4. ASSUME NEW i \in 1..Len(t) PROVE (s \o t)[Len(s) + i] = t[i]
    <2>1. Len(s) + i \in 1..(Len(s) + Len(t)) /\ ~(Len(s) + i <= Len(s)) /\ (Len(s) + i) - Len(s) = i
      BY <1>1
    <2> QED
      BY <1>2, <2>1
  <1> QED
    BY <1>1, <1>2, <1>3, <1>4

LEMMA ConcatTail ==
    ASSUME NEW s \in Seq(LogLines), NEW t \in Seq(LogLines)
    PROVE  SubSeq(s \o t, Len(s) + 1, Len(s \o t)) = t
  <1> DEFINE whole == s \o t
             rest == SubSeq(whole, Len(s) + 1, Len(whole))
  <1>1. /\ whole \in Seq(LogLines)
        /\ Len(s) \in Nat /\ Len(t) \in Nat /\ Len(whole) = Len(s) + Len(t)
        /\ \A i \in 1..Len(t) : whole[Len(s) + i] = t[i]
    BY ConcatAt
  <1> HIDE DEF whole
  <1>2. \A i \in (Len(s) + 1)..Len(whole) : whole[i] \in LogLines
    BY <1>1, ElementOfSeq
  <1>3. /\ rest \in Seq(LogLines)
        /\ Len(rest) = Len(t)
        /\ \A i \in 1..Len(t) : rest[i] = whole[Len(s) + i]
    <2>1. /\ rest \in Seq(LogLines)
          /\ Len(rest) = IF Len(s) + 1 <= Len(whole) THEN Len(whole) - (Len(s) + 1) + 1 ELSE 0
          /\ \A i \in 1..(Len(whole) - (Len(s) + 1) + 1) : rest[i] = whole[(Len(s) + 1) + i - 1]
      BY <1>1, <1>2, SubSeqProperties
    <2> HIDE DEF rest
    <2>2. Len(whole) - (Len(s) + 1) + 1 = Len(t)
      BY <1>1
    <2>3. Len(rest) = Len(t)
      BY <1>1, <2>1, <2>2
    <2>4. \A i \in 1..Len(t) : (Len(s) + 1) + i - 1 = Len(s) + i
      BY <1>1
    <2> QED
      BY <2>1, <2>2, <2>3, <2>4
  <1> HIDE DEF rest
  <1>4. rest = t
    BY <1>1, <1>3, SeqEqual
  <1> QED
    BY <1>4 DEF rest, whole

LEMMA LatestFrom ==
    ASSUME NEW whole \in Seq(LogLines), NEW at \in 1..Len(whole), whole[at] = "final",
           \A j \in 1..Len(whole) : j > at => whole[j] # "final"
    PROVE  LatestFinal(whole) = SubSeq(whole, at + 1, Len(whole))
  <1> DEFINE finals == {i \in 1..Len(whole) : whole[i] = "final"}
  <1>1. at \in finals /\ \A j \in finals : j <= at
    BY LenProperties
  <1>2. finals \in SUBSET Int /\ finals # {}
    BY <1>1
  <1>3. \A i \in finals : (\A j \in finals : j <= i) => i = at
    <2> HIDE DEF finals
    <2> QED
      BY <1>1, <1>2
  <1>4. (CHOOSE i \in finals : \A j \in finals : j <= i) = at
    <2> HIDE DEF finals
    <2> QED
      BY <1>1, <1>3
  <1> QED
    BY <1>2, <1>4 DEF LatestFinal

(* How a log is put together from three parts does not matter.             *)
LEMMA Regrouped ==
    ASSUME NEW S, NEW u \in Seq(S), NEW v \in Seq(S), NEW w \in Seq(S)
    PROVE  (u \o v) \o w = u \o (v \o w)
  BY ConcatAssociative, SMTT(60)

(* The service finds the text that was shown last, and the bridge's last   *)
(* line after it.                                                          *)
LEMMA LatestIsShown ==
    ASSUME NEW p \in Seq(LogLines), NEW text \in Seq(Lines)
    PROVE  LatestFinal(p \o <<"final">> \o text \o <<"end">>) = text \o <<"end">>
  <1> DEFINE F == <<"final">>
             E == <<"end">>
             s == p \o F
             t == text \o E
  <1>1. /\ F \in Seq(LogLines) /\ Len(F) = 1 /\ F[1] = "final"
        /\ E \in Seq(LogLines) /\ Len(E) = 1 /\ E[1] = "end"
    BY DEF LogLines
  <1>2. text \in Seq(LogLines) /\ Len(text) \in Nat
    BY LinesAreLogged, LenProperties
  <1> HIDE DEF F, E
  <1>3. s \in Seq(LogLines) /\ Len(s) \in Nat \ {0} /\ s[Len(s)] = "final"
    BY <1>1, ConcatAt
  <1>4. /\ t \in Seq(LogLines) /\ Len(t) = Len(text) + 1
        /\ \A i \in 1..Len(text) : t[i] = text[i]
        /\ t[Len(text) + 1] = "end"
    <2>1. /\ t \in Seq(LogLines)
          /\ Len(t) = Len(text) + Len(E)
          /\ \A i \in 1..Len(text) : t[i] = text[i]
          /\ \A i \in 1..Len(E) : t[Len(text) + i] = E[i]
      BY <1>1, <1>2, ConcatAt
    <2> HIDE DEF t
    <2>2. 1 \in 1..Len(E)
      BY <1>1
    <2> QED
      BY <1>1, <2>1, <2>2
  <1>5. p \o F \o text \o E = s \o t
    <2> HIDE DEF s
    <2>1. (s \o text) \o E = s \o (text \o E)
      <3>1. s \in Seq(LogLines) /\ text \in Seq(LogLines) /\ E \in Seq(LogLines)
        BY <1>1, <1>2, <1>3
      <3> QED
        BY <3>1, Regrouped, SMTT(60)
    <2> QED
      BY <2>1 DEF s, t
  <1> HIDE DEF s, t
  <1>6. \A i \in 1..Len(t) : t[i] # "final"
    <2>1. ASSUME NEW i \in 1..Len(t) PROVE t[i] # "final"
      <3>1. CASE i = Len(text) + 1
        BY <1>4, <3>1
      <3>2. CASE i \in 1..Len(text)
        BY <1>4, <3>2, TextHasNoFinal
      <3> QED
        BY <1>2, <1>4, <3>1, <3>2
    <2> QED
      BY <2>1
  <1>7. LatestFinal(s \o t) = SubSeq(s \o t, Len(s) + 1, Len(s \o t))
    <2> DEFINE whole == s \o t
    <2>1. /\ whole \in Seq(LogLines) /\ Len(t) \in Nat /\ Len(whole) = Len(s) + Len(t)
          /\ \A i \in 1..Len(s) : whole[i] = s[i]
          /\ \A i \in 1..Len(t) : whole[Len(s) + i] = t[i]
      BY <1>3, <1>4, ConcatAt
    <2> HIDE DEF whole
    <2>2. Len(s) \in 1..Len(whole) /\ whole[Len(s)] = "final"
      BY <1>3, <2>1
    <2>3. ASSUME NEW j \in 1..Len(whole), j > Len(s) PROVE whole[j] # "final"
      <3>1. j - Len(s) \in 1..Len(t) /\ Len(s) + (j - Len(s)) = j
        BY <1>3, <2>1, <2>3
      <3>2. whole[Len(s) + (j - Len(s))] = t[j - Len(s)]
        BY <2>1, <3>1
      <3> QED
        BY <1>6, <3>1, <3>2
    <2>4. LatestFinal(whole) = SubSeq(whole, Len(s) + 1, Len(whole))
      BY <2>1, <2>2, <2>3, LatestFrom
    <2> QED
      BY <2>4 DEF whole
  <1>8. LatestFinal(s \o t) = t
    BY <1>3, <1>4, <1>7, ConcatTail
  <1> QED
    BY <1>5, <1>8 DEF t, F, E

-----------------------------------------------------------------------------
(* The inductive invariant: a text is kept only for a write-up and for     *)
(* what follows it, and a round that exits with 0 has just shown it.       *)

Over == {"exited", "judged"}

RoundInv ==
    /\ bridge.final # <<>> => bridge.kind = "writeup" \/ bridge.pc \in Over \cup {"emit"}
    /\ bridge.pc \in Over /\ bridge.final # <<>> => bridge.code = 0
    /\ bridge.pc \in Over /\ bridge.code = 0 => Shown(bridge.final)
    /\ bridge.pc = "judged" => verdict = ParseRunnerOutput(log)

Inv == TypeOK /\ NoProcessLeft /\ RoundInv

LEMMA InitInv == Init => Inv
  BY InitTypes DEF Init, Inv, NoProcessLeft, RoundInv, NewBridge, Over, Running

(* An exception kills the process first, and costs the result only where   *)
(* there is none. *)
LEMMA RaisedInv ==
    ASSUME Inv, bridge.pc \notin Over \cup {"emit"}, NEW code \in {1, 124, 125},
           bridge' = Raised(code), process' \notin Running
    PROVE  NoProcessLeft' /\ RoundInv'
  <1>1. bridge \in BridgeState
    BY DEF Inv, TypeOK
  <1>2. CASE bridge.kind = "writeup"
    <2>1. bridge' = [bridge EXCEPT !.pc = "emit"]
      BY <1>2 DEF Raised
    <2>2. bridge'.pc = "emit" /\ bridge'.kind = "writeup"
      BY <1>1, <1>2, <2>1 DEF BridgeState
    <2> QED
      BY <2>2 DEF NoProcessLeft, RoundInv, Over
  <1>3. CASE bridge.kind # "writeup"
    <2>1. bridge' = [bridge EXCEPT !.pc = "exited", !.code = code]
      BY <1>3 DEF Raised
    <2>2. bridge'.pc = "exited" /\ bridge'.code = code /\ bridge'.final = bridge.final
      BY <1>1, <2>1 DEF BridgeState
    <2>3. bridge.final = <<>>
      BY <1>3 DEF Inv, RoundInv
    <2> QED
      BY <2>2, <2>3 DEF NoProcessLeft, RoundInv, Over
  <1> QED
    BY <1>2, <1>3

LEMMA InvStep == Inv /\ [Next]_vars => Inv'
  <1> SUFFICES ASSUME Inv, [Next]_vars PROVE NoProcessLeft' /\ RoundInv'
    BY TypesStep DEF Inv
  <1> USE DEF NoProcessLeft, RoundInv, Over
  <1>0. bridge \in BridgeState /\ NoProcessLeft /\ RoundInv
    BY DEF Inv, TypeOK
  <1>1. ASSUME NEW block \in Blocks, OpenCodePrints(block) PROVE NoProcessLeft' /\ RoundInv'
    <2>1. /\ bridge'.pc = bridge.pc /\ bridge'.kind = bridge.kind
          /\ bridge'.final = bridge.final /\ bridge'.code = bridge.code
      BY <1>0, <1>1 DEF OpenCodePrints, BridgeState
    <2> QED
      BY <1>0, <1>1, <2>1 DEF OpenCodePrints, Shown
  <1>2. CASE OpenCodeWrites
    BY <1>0, <1>2 DEF OpenCodeWrites, Shown
  <1>3. CASE OpenCodeCloses
    BY <1>0, <1>3 DEF OpenCodeCloses, Shown, Running
  <1>4. ASSUME NEW status \in {"ok", "failed"}, OpenCodeExits(status)
        PROVE  NoProcessLeft' /\ RoundInv'
    BY <1>0, <1>4 DEF OpenCodeExits, Shown, Running
  <1>5. CASE ReadOutput
    BY <1>0, <1>5 DEF ReadOutput, Shown
  <1>6. CASE ReadEOF
    BY <1>0, <1>6 DEF ReadEOF, Shown
  <1>7. CASE Popen
    <2>1. bridge'.pc = "loop" /\ bridge'.kind = bridge.kind /\ bridge'.final = bridge.final
      BY <1>0, <1>7 DEF Popen, BridgeState
    <2> QED
      BY <1>0, <1>7, <2>1 DEF Popen
  <1>8. CASE PopenFails
    BY <1>0, <1>8, RaisedInv DEF PopenFails
  <1>9. CASE GetBlock
    <2>1. /\ bridge'.pc = "loop" /\ bridge'.kind = bridge.kind /\ bridge'.final = bridge.final
          /\ bridge.pc = "loop"
      BY <1>0, <1>9 DEF GetBlock, BridgeState
    <2> QED
      BY <1>0, <2>1
  <1>10. CASE GetEOF
    <2>1. /\ bridge'.pc = "finish" /\ bridge'.kind = bridge.kind /\ bridge'.final = bridge.final
          /\ bridge.pc = "loop"
      BY <1>0, <1>10 DEF GetEOF, BridgeState
    <2> QED
      BY <1>0, <2>1
  <1>11. CASE GetEmpty
    <2>1. /\ bridge'.pc = "poll" /\ bridge'.kind = bridge.kind /\ bridge'.final = bridge.final
          /\ bridge.pc = "loop"
      BY <1>0, <1>11 DEF GetEmpty, BridgeState
    <2> QED
      BY <1>0, <2>1
  <1>12. CASE Poll
    <2>1. /\ bridge'.pc \in {"loop", "finish"} /\ bridge'.kind = bridge.kind
          /\ bridge'.final = bridge.final /\ bridge.pc = "poll"
      BY <1>0, <1>12 DEF Poll, BridgeState
    <2> QED
      BY <1>0, <2>1
  <1>13. CASE Finish
    <2>1. process' \notin Running
      BY <1>13 DEF Finish, Terminated, Running
    <2>2. CASE process = "ok"
      <3>1. bridge'.pc = "text" /\ bridge'.kind = bridge.kind /\ bridge'.final = bridge.final
        BY <1>0, <1>13, <2>2 DEF Finish, BridgeState
      <3> QED
        BY <1>0, <1>13, <2>1, <3>1 DEF Finish
    <2>3. CASE process # "ok"
      BY <1>13, <2>1, <2>3, RaisedInv DEF Finish
    <2> QED
      BY <2>2, <2>3
  <1>14. CASE Recover
    <2>1. bridge'.pc = "start" /\ bridge'.final = <<>>
      BY <1>0, <1>14 DEF Recover, BridgeState
    <2> QED
      BY <1>0, <1>14, <2>1 DEF Recover
  <1>15. CASE NoReadableOutput
    <2>1. bridge'.pc = "exited" /\ bridge'.code = 1 /\ bridge'.final = <<>>
      BY <1>0, <1>15 DEF NoReadableOutput, BridgeState
    <2> QED
      BY <1>0, <1>15, <2>1 DEF NoReadableOutput
  <1>16. CASE HaveText
    <2>1. bridge'.pc = "emit" \/ (bridge'.pc = "start" /\ bridge'.kind = "writeup")
      BY <1>0, <1>16 DEF HaveText, BridgeState
    <2> QED
      BY <1>0, <1>16, <2>1 DEF HaveText
  <1>17. CASE HaveWriteup
    <2>1. bridge'.pc = "emit" /\ bridge'.kind = "writeup"
      BY <1>0, <1>17 DEF HaveWriteup, BridgeState
    <2> QED
      BY <1>0, <1>17, <2>1 DEF HaveWriteup
  <1>18. CASE Emit
    <2>1. bridge'.pc = "exited" /\ bridge'.code = 0 /\ bridge'.final = bridge.final
      BY <1>0, <1>18 DEF Emit, BridgeState
    <2>2. Shown(bridge.final)'
      BY <1>18, <2>1, EmitLog DEF Inv, Shown, LastLines
    <2> QED
      BY <1>0, <1>18, <2>1, <2>2 DEF Emit
  <1>19. CASE Judge
    <2>1. /\ bridge'.pc = "judged" /\ bridge'.code = bridge.code
          /\ bridge'.final = bridge.final /\ bridge.pc = "exited"
      BY <1>0, <1>19 DEF Judge, BridgeState
    <2>2. log' = log /\ verdict' = ParseRunnerOutput(log)
      BY <1>19 DEF Judge
    <2>3. ParseRunnerOutput(log') = ParseRunnerOutput(log)
      BY <2>2
    <2> QED
      BY <1>0, <1>19, <2>1, <2>2, <2>3 DEF Judge, Shown
  <1>20. CASE Continue
    <2>1. bridge'.pc = "start" /\ bridge'.final = <<>> /\ process' = "none"
      BY <1>20 DEF Continue, NewBridge
    <2> QED
      BY <2>1 DEF Running
  <1>21. ASSUME NEW kind \in Timeouts, Timeout(kind) PROVE NoProcessLeft' /\ RoundInv'
    <2>1. process' \notin Running
      BY <1>21 DEF Timeout, Terminated, Running
    <2> QED
      BY <1>21, <2>1, RaisedInv DEF Timeout
  <1>22. CASE UNCHANGED vars
    BY <1>0, <1>22 DEF vars, Shown
  <1> QED
    BY <1>1, <1>2, <1>3, <1>4, <1>5, <1>6, <1>7, <1>8, <1>9, <1>10, <1>11, <1>12, <1>13,
       <1>14, <1>15, <1>16, <1>17, <1>18, <1>19, <1>20, <1>21, <1>22
    DEF Next, OpenCodeStep, ReadStep, BridgeStep

LEMMA InvHolds == Spec => []Inv
  <1>1. Init => Inv
    BY InitInv
  <1>2. Inv /\ [Next]_vars => Inv'
    BY InvStep
  <1> QED
    BY <1>1, <1>2, PTL DEF Spec

-----------------------------------------------------------------------------

(* No OpenCode process outlives the call that started it, whichever of the *)
(* timeouts, the end of the output and the end of the process comes first. *)
THEOREM NoProcessIsLeft == Spec => []NoProcessLeft
  <1>1. Inv => NoProcessLeft
    BY DEF Inv
  <1> QED
    BY <1>1, InvHolds, PTL

(* A round that has found its text exits with 0, and the service finds     *)
(* that very text, whatever becomes of the write-up and whatever the       *)
(* earlier rounds have logged.                                             *)
THEOREM TextsAreShown == Spec => []TextIsShown
  <1>1. Inv => TextIsShown
    <2> SUFFICES ASSUME Inv, bridge.pc \in Over, bridge.final # <<>>
                 PROVE  /\ bridge.code = 0
                        /\ LatestFinal(log) = LastLines(bridge.final) \o <<"end">>
      BY DEF TextIsShown, Over
    <2>1. bridge.code = 0 /\ Shown(bridge.final) /\ bridge.final \in Seq(Lines)
      BY DEF Inv, RoundInv, TypeOK, BridgeState
    <2>2. PICK p \in Seq(LogLines) :
             log = p \o <<"final">> \o LastLines(bridge.final) \o <<"end">>
      BY <2>1 DEF Shown
    <2>3. LastLines(bridge.final) \in Seq(Lines)
      BY <2>1, LastLinesType
    <2> QED
      BY <2>1, <2>2, <2>3, LatestIsShown
  <1> QED
    BY <1>1, InvHolds, PTL

-----------------------------------------------------------------------------

(* What the bridge and the service read in the same text. *)
LEMMA BothReadTheSame ==
    ASSUME NEW text \in Seq(Lines), Markers(text) # {},
           Least(Markers(text)) < Len(text),
           text[Least(Markers(text)) + 1] # "blank",
           NEW lines, LatestFinal(lines) = text \o <<"end">>
    PROVE  ParseRunnerOutput(lines) = ExtractSolvedFlag(text)
  <1> DEFINE E == <<"end">>
             whole == text \o E
             i == Least(Markers(text))
             ends == {k \in Markers(text) : k = Len(text) \/ text[k + 1] # "blank"}
  <1>1. /\ E \in Seq(LogLines) /\ Len(E) = 1 /\ E[1] = "end"
        /\ text \in Seq(LogLines) /\ Len(text) \in Nat
    BY LinesAreLogged, LenProperties DEF LogLines
  <1>2. LatestFinal(lines) = whole
    OBVIOUS
  <1> HIDE DEF E
  <1>3. /\ Len(whole) = Len(text) + 1
        /\ \A k \in 1..Len(text) : whole[k] = text[k]
        /\ whole[Len(text) + 1] = "end"
    <2>1. /\ Len(whole) = Len(text) + Len(E)
          /\ \A k \in 1..Len(text) : whole[k] = text[k]
          /\ \A k \in 1..Len(E) : whole[Len(text) + k] = E[k]
      BY <1>1, ConcatAt
    <2> HIDE DEF whole
    <2>2. 1 \in 1..Len(E)
      BY <1>1
    <2> QED
      BY <1>1, <2>1, <2>2
  <1> HIDE DEF whole
  <1>4. Markers(whole) = Markers(text)
    <2>1. ASSUME NEW k \in Markers(whole) PROVE k \in Markers(text)
      <3>1. k \in 1..(Len(text) + 1) /\ whole[k] = "solved"
        BY <1>3, <2>1 DEF Markers
      <3>2. k # Len(text) + 1
        BY <1>3, <3>1
      <3> QED
        BY <1>1, <1>3, <3>1, <3>2 DEF Markers
    <2>2. ASSUME NEW k \in Markers(text) PROVE k \in Markers(whole)
      BY <1>1, <1>3, <2>2 DEF Markers
    <2> QED
      BY <2>1, <2>2
  <1>5. Markers(text) \in SUBSET (1..Len(text)) /\ Markers(text) \in SUBSET Nat
    BY <1>1, MarkersAreNumbers
  <1>6. /\ i \in Markers(text) /\ i \in 1..Len(text)
        /\ \A j \in Markers(text) : i <= j
    BY <1>5, LeastExists
  <1>7. i < Len(text) /\ text[i + 1] # "blank"
    OBVIOUS
  <1> HIDE DEF i
  <1>8. ParseRunnerOutput(lines) = text[i + 1]
    <2>1. i # Len(whole) /\ i + 1 \in 1..Len(text)
      BY <1>1, <1>3, <1>6, <1>7
    <2>2. whole[i + 1] = text[i + 1]
      BY <1>3, <2>1
    <2> QED
      BY <1>2, <1>4, <1>7, <2>1, <2>2 DEF ParseRunnerOutput, i
  <1>9. ExtractSolvedFlag(text) = text[i + 1]
    <2>1. i \in ends /\ ends \in SUBSET Nat /\ \A j \in ends : i <= j
      BY <1>5, <1>6, <1>7
    <2>2. Least(ends) = i
      <3> HIDE DEF ends
      <3> QED
        BY <2>1, LeastIs
    <2>3. i # Len(text)
      BY <1>1, <1>6, <1>7
    <2> QED
      BY <2>1, <2>2, <2>3 DEF ExtractSolvedFlag
  <1> QED
    BY <1>8, <1>9

(* A flag the bridge has declared at the first marker of a text it printed *)
(* in full is the flag the service stores, although the service judges by  *)
(* the log of all rounds.                                                  *)
THEOREM SolvedFlagsAreStored == Spec => []SolvedIsStored
  <1>1. Inv => SolvedIsStored
    <2> DEFINE text == bridge.final
    <2> SUFFICES ASSUME Inv, bridge.pc = "judged", bridge.code = 0, Len(text) <= FinalCap,
                        Markers(text) # {}, Least(Markers(text)) < Len(text),
                        text[Least(Markers(text)) + 1] # "blank"
                 PROVE  verdict = ExtractSolvedFlag(text)
      BY DEF SolvedIsStored
    <2>1. text \in Seq(Lines) /\ Shown(text) /\ verdict = ParseRunnerOutput(log)
      BY DEF Inv, RoundInv, Over, TypeOK, BridgeState
    <2>2. LastLines(text) = text
      <3>1. Len(text) \in Nat /\ ~(Len(text) > FinalCap)
        BY <2>1, LenProperties, BridgeBoundsAssumption
      <3>2. SubSeq(text, 1, Len(text)) = text
        BY <2>1, SubSeqFull
      <3> QED
        BY <3>1, <3>2 DEF LastLines
    <2>3. LatestFinal(log) = text \o <<"end">>
      BY <2>1, <2>2, LatestIsShown DEF Shown
    <2> QED
      BY <2>1, <2>3, BothReadTheSame
  <1> QED
    BY <1>1, InvHolds, PTL

=============================================================================
