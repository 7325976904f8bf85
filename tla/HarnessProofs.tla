---------------------------- MODULE HarnessProofs ----------------------------
(***************************************************************************)
(* For every array of tests, every simulator and every size of the buffer  *)
(* and of the pipe: the harness loses no byte between the two processes,   *)
(* and implements the grading of Grading.                                  *)
(***************************************************************************)
EXTENDS Harness, SequenceTheorems, FiniteSetTheorems, TLAPS

---------------------------------------------------------------------------
(* Sequences *)

LEMMA OneThenRest ==
  ASSUME NEW S, NEW o \in Seq(S), NEW r \in Seq(S), NEW t \in Seq(S),
         Len(o) = 1, t # <<>>, o[1] = t[1], Len(r) = Len(t) - 1,
         \A i \in 1 .. Len(r) : r[i] = t[i + 1]
  PROVE  o \o r = t
<1>1. o \o r \in Seq(S) /\ Len(o \o r) = Len(o) + Len(r)
      /\ \A i \in 1 .. Len(o) + Len(r) : (o \o r)[i] = IF i <= Len(o) THEN o[i] ELSE r[i - Len(o)]
  BY ConcatProperties, SMTT(30)
<1>2. Len(t) \in Nat /\ Len(t) >= 1
  BY EmptySeq
<1>3. Len(o \o r) = Len(t) /\ Len(o) + Len(r) = Len(t)
  BY <1>1, <1>2
<1>4. ASSUME NEW i \in 1 .. Len(o \o r) PROVE (o \o r)[i] = t[i]
  <2>1. CASE i = 1
    BY <1>1, <1>2, <1>3, <2>1
  <2>2. CASE i > 1
    <3>1. i - 1 \in 1 .. Len(r) /\ (i - 1) + 1 = i
      BY <1>2, <1>3, <2>2
    <3> QED
      BY <1>1, <1>2, <1>3, <2>2, <3>1
  <2> QED
    BY <1>2, <1>3, <2>1, <2>2
<1> QED
  BY <1>1, <1>3, <1>4, SeqEqual

\* A byte that goes from the head of one sequence to the end of another keeps its place.
LEMMA Shift ==
  ASSUME NEW S, NEW s \in Seq(S), NEW t \in Seq(S), t # <<>>
  PROVE  Append(s, Head(t)) \o Tail(t) = s \o t
<1>1. Head(t) \in S /\ Tail(t) \in Seq(S) /\ Len(Tail(t)) = Len(t) - 1
      /\ \A i \in 1 .. Len(Tail(t)) : Tail(t)[i] = t[i + 1]
  BY HeadTailProperties
<1>2. <<Head(t)>> \in Seq(S) /\ Len(<<Head(t)>>) = 1 /\ <<Head(t)>>[1] = t[1]
  BY <1>1
<1>3. <<Head(t)>> \o Tail(t) = t
  BY <1>1, <1>2, OneThenRest
<1>4. Append(s, Head(t)) = s \o <<Head(t)>>
  BY <1>1, AppendIsConcat
<1>5. (s \o <<Head(t)>>) \o Tail(t) = s \o (<<Head(t)>> \o Tail(t))
  BY <1>1, <1>2, ConcatAssociative
<1> QED
  BY <1>3, <1>4, <1>5

LEMMA Assoc == \A x, y, z \in Seq(Char) : (x \o y) \o z = x \o (y \o z)
  BY ConcatAssociative

\* What strlen leaves is a sequence of the same characters, no longer than before.
LEMMA CStringType ==
  ASSUME NEW s \in Seq(Char)
  PROVE  cString(s) \in Seq(Char) /\ Len(cString(s)) <= Len(s)
<1> DEFINE kept == {n \in DOMAIN s : \A m \in 1..n : s[m] # "nul"}
<1>1. Len(s) \in Nat /\ DOMAIN s = 1 .. Len(s)
  BY LenProperties
<1>2. IsFiniteSet(1 .. Len(s)) /\ Cardinality(1 .. Len(s)) <= Len(s)
  BY <1>1, FS_Interval
<1>3. kept \subseteq 1 .. Len(s)
  BY <1>1
<1>4. Cardinality(kept) \in Nat /\ Cardinality(kept) <= Len(s)
  BY <1>1, <1>2, <1>3, FS_Subset, FS_CardinalityType
<1> HIDE DEF kept
<1>5. \A i \in 1 .. Cardinality(kept) : s[i] \in Char
  BY <1>1, <1>4, ElementOfSeq
<1>6. SubSeq(s, 1, Cardinality(kept)) \in Seq(Char)
      /\ Len(SubSeq(s, 1, Cardinality(kept))) =
           IF 1 <= Cardinality(kept) THEN Cardinality(kept) - 1 + 1 ELSE 0
  BY <1>4, <1>5, SubSeqProperties
<1> QED
  BY <1>1, <1>4, <1>6 DEF cString, strlen, kept

\* Without a NUL it leaves everything.
LEMMA CStringWhole ==
  ASSUME NEW s \in Seq(Char), \A n \in DOMAIN s : s[n] # "nul"
  PROVE  cString(s) = s
<1>1. Len(s) \in Nat /\ DOMAIN s = 1 .. Len(s)
  BY LenProperties
<1>2. {n \in DOMAIN s : \A m \in 1..n : s[m] # "nul"} = 1 .. Len(s)
  BY <1>1
<1>3. Cardinality(1 .. Len(s)) = Len(s)
  BY <1>1, FS_Interval
<1>4. strlen(s) = Len(s)
  BY <1>2, <1>3 DEF strlen
<1> QED
  BY <1>4, SubSeqFull DEF cString
---------------------------------------------------------------------------
(* The inductive invariant *)

\* What becomes of the child writes b.out and ends like b.end.
Runs == Behaviours \cup {[out |-> t, end |-> "exit1"] : t \in Inherited}

\* Where the harness is tells what it holds.
HarnessAt ==
  /\ at = "start" => verdicts = <<>>
  /\ at # "ended" => exit = -1
  /\ at \in {"run_test", "forked", "reading", "waiting"} => Len(verdicts) < Len(Tests)
  /\ at \in {"start", "test", "run_test", "ended"} <=> child = "none"
  /\ at = "waiting" => pipe = <<>> /\ line = <<>> /\ writers = {}

\* Where the child is tells what it holds.
ChildAt ==
  /\ child = "none" => ran = NotRun /\ rest = <<>>
  /\ child = "forked" => /\ ran = NotRun /\ rest = <<>>
                         /\ pipe = <<>> /\ line = <<>> /\ buf = <<>>
  /\ child \in {"forked", "running"} => "child" \in writers
  /\ child \in {"running", "gone"} => ran \in Runs
  /\ child = "gone" => rest = <<>>

Consistent == TypeOK /\ HarnessAt /\ ChildAt

LEMMA RunsType == \A b \in Runs : b \in Behaviour /\ b.out \in Seq(Char) /\ b # NotRun
<1>1. Behaviours \subseteq Behaviour /\ Inherited \subseteq Seq(Char)
  BY BehavioursAssumption
<1>2. \A b \in Runs : b \in Behaviour
  BY <1>1 DEF Runs, Behaviour, Ends
<1>3. \A b \in Behaviour : b.out \in Seq(Char) /\ b.end # "none"
  BY DEF Behaviour, Ends
<1> QED
  BY <1>2, <1>3 DEF NotRun

LEMMA ConsistentInit == Init => Consistent
<1> SUFFICES ASSUME Init PROVE Consistent
  OBVIOUS
<1> USE DEF Init
<1>1. Len(Tests) \in Nat
  BY TestsAssumption, LenProperties
<1>2. <<>> \in Seq(Char) /\ <<>> \in Seq({"skipped", "passed", "failed"}) /\ Len(<<>>) = 0
  BY EmptySeq
<1>3. TypeOK
  BY <1>1, <1>2, SizeAssumption DEF TypeOK
<1>4. HarnessAt /\ ChildAt
  BY DEF HarnessAt, ChildAt
<1> QED
  BY <1>3, <1>4 DEF Consistent

\* A verdict leaves the harness before the next test.
LEMMA ConsistentVerdict ==
  ASSUME Consistent, at # "ended", Len(verdicts) < Len(Tests),
         NEW v \in {"skipped", "passed", "failed"}, Verdict(v)
  PROVE  Consistent'
<1> USE DEF Consistent, Verdict, Goto, pipeVars, readVars
<1>1. Len(Tests) \in Nat
  BY TestsAssumption, LenProperties
<1>2. verdicts' \in Seq({"skipped", "passed", "failed"}) /\ Len(verdicts') = Len(verdicts) + 1
  BY AppendProperties DEF TypeOK
<1>3. Len(verdicts) \in Nat /\ <<>> \in Seq(Char)
  BY LenProperties, EmptySeq DEF TypeOK
<1>4. TypeOK'
  BY <1>1, <1>2, <1>3 DEF TypeOK
<1>5. HarnessAt' /\ ChildAt'
  BY DEF HarnessAt, ChildAt
<1> QED
  BY <1>4, <1>5

LEMMA ConsistentFinish ==
  ASSUME Consistent, child = "none", NEW code \in {0, 1}, Finish(code)
  PROVE  Consistent'
<1> USE DEF Consistent, Finish, Goto, childVars, pipeVars, readVars
<1>1. TypeOK'
  BY DEF TypeOK
<1>2. HarnessAt' /\ ChildAt'
  BY DEF HarnessAt, ChildAt
<1> QED
  BY <1>1, <1>2

LEMMA ConsistentMain == Consistent /\ Main => Consistent'
<1> SUFFICES ASSUME Consistent, Main PROVE Consistent'
  OBVIOUS
<1>1. CASE ToolsFound
  BY <1>1 DEF ToolsFound, Consistent, TypeOK, HarnessAt, ChildAt, At, Goto,
              mainVars, childVars, pipeVars, readVars
<1>2. CASE ToolsMissing
  BY <1>2, ConsistentFinish DEF ToolsMissing, At, Consistent, HarnessAt
<1>3. CASE SkipTest
  BY <1>3, ConsistentVerdict DEF SkipTest, InTest, At
<1>4. CASE CompileFails
  BY <1>4, ConsistentVerdict DEF CompileFails, InTest, At
<1>5. CASE Compile
  BY <1>5 DEF Compile, InTest, Consistent, TypeOK, HarnessAt, ChildAt, At, Goto,
              mainVars, childVars, pipeVars, readVars
<1>6. CASE Results
  BY <1>6, ConsistentFinish DEF Results, At, Consistent, HarnessAt
<1> QED
  BY <1>1, <1>2, <1>3, <1>4, <1>5, <1>6 DEF Main

LEMMA ConsistentRunTest == Consistent /\ RunTest => Consistent'
<1> SUFFICES ASSUME Consistent, RunTest PROVE Consistent'
  OBVIOUS
<1> USE DEF Consistent, At, Goto
<1>1. CASE RunFails
  BY <1>1, ConsistentVerdict DEF RunFails, HarnessAt
<1>2. CASE Fork
  <2> USE <1>2 DEF Fork, mainVars
  <2>1. <<>> \in Seq(Char) /\ Len(<<>>) = 0
    BY EmptySeq
  <2>2. TypeOK'
    BY <2>1, SizeAssumption DEF TypeOK
  <2>3. HarnessAt' /\ ChildAt'
    BY DEF HarnessAt, ChildAt
  <2> QED
    BY <2>2, <2>3
<1>3. CASE CloseWriter
  <2> USE <1>3 DEF CloseWriter, mainVars, childVars, readVars
  <2>1. TypeOK'
    BY DEF TypeOK
  <2>2. HarnessAt' /\ ChildAt'
    BY DEF HarnessAt, ChildAt
  <2> QED
    BY <2>1, <2>2
<1>4. CASE GetChar
  <2> USE <1>4 DEF GetChar, mainVars, childVars
  <2>1. buf \in Seq(Char) /\ line \in Seq(Char) /\ pipe \in Seq(Char) /\ pipe # <<>>
    BY DEF TypeOK
  <2>2. Len(buf) \in Nat /\ Len(line) \in Nat /\ Len(pipe) \in Nat
    BY <2>1, LenProperties
  <2>3. pipe' \in Seq(Char) /\ Len(pipe') = Len(pipe) - 1 /\ Head(pipe) \in Char
    BY <2>1, HeadTailProperties
  <2>4. line' \in Seq(Char) /\ Len(line') = Len(line) + 1
    BY <2>1, <2>3, AppendProperties
  <2>5. Len(buf) + Len(line) < BUF - 1
    BY <2>2, SizeAssumption DEF TypeOK, filled
  <2>6. TypeOK'
    BY <2>1, <2>2, <2>3, <2>4, <2>5, SizeAssumption DEF TypeOK
  <2>7. HarnessAt' /\ ChildAt'
    BY DEF HarnessAt, ChildAt
  <2> QED
    BY <2>6, <2>7
<1>5. CASE LineRead
  <2> USE <1>5 DEF LineRead, mainVars, childVars, pipeVars
  <2>1. buf \in Seq(Char) /\ line \in Seq(Char) /\ Len(buf) \in Nat /\ Len(line) \in Nat
    BY LenProperties DEF TypeOK
  <2>2. buf \o line \in Seq(Char) /\ Len(buf \o line) = Len(buf) + Len(line)
    BY <2>1, ConcatProperties
  <2>3. buf' \in Seq(Char) /\ Len(buf') <= Len(buf) + Len(line)
    BY <2>2, CStringType
  <2>4. line' \in Seq(Char) /\ Len(line') = 0 /\ Len(buf') \in Nat
    BY <2>3, EmptySeq, LenProperties
  <2>5. TypeOK'
    BY <2>1, <2>3, <2>4, SizeAssumption DEF TypeOK
  <2>6. HarnessAt' /\ ChildAt'
    BY DEF HarnessAt, ChildAt
  <2> QED
    BY <2>5, <2>6
<1>6. CASE NoRoom
  BY <1>6 DEF NoRoom, TypeOK, HarnessAt, ChildAt, vars, mainVars, childVars, pipeVars, readVars
<1>7. CASE EndOfOutput
  <2> USE <1>7 DEF EndOfOutput, mainVars, childVars, pipeVars, readVars
  <2>1. TypeOK'
    BY DEF TypeOK
  <2>2. HarnessAt' /\ ChildAt'
    BY DEF HarnessAt, ChildAt, eof
  <2> QED
    BY <2>1, <2>2
<1>8. CASE Wait
  BY <1>8, ConsistentVerdict DEF Wait, HarnessAt
<1> QED
  BY <1>1, <1>2, <1>3, <1>4, <1>5, <1>6, <1>7, <1>8 DEF RunTest

\* The child becomes the simulator, or fails to.
LEMMA ConsistentBecomes ==
  ASSUME Consistent, fed, NEW b \in Runs, Becomes(b)
  PROVE  Consistent'
<1> USE DEF Consistent, Becomes, fed, mainVars, pipeVars, readVars
<1>1. b \in Behaviour /\ b.out \in Seq(Char)
  BY RunsType
<1>2. TypeOK'
  BY <1>1 DEF TypeOK
<1>3. HarnessAt' /\ ChildAt'
  BY DEF HarnessAt, ChildAt
<1> QED
  BY <1>2, <1>3

LEMMA ConsistentChild == Consistent /\ Child => Consistent'
<1> SUFFICES ASSUME Consistent, Child PROVE Consistent'
  OBVIOUS
<1>1. CASE FeedBlocks
  BY <1>1 DEF FeedBlocks, Consistent, TypeOK, HarnessAt, ChildAt,
              vars, mainVars, childVars, pipeVars, readVars
<1>2. CASE Exec
  BY <1>2, ConsistentBecomes DEF Exec, Runs
<1>3. CASE ExecFails
  BY <1>3, ConsistentBecomes DEF ExecFails, Runs
<1>4. CASE Write
  <2> USE <1>4 DEF Write, Consistent, mainVars, readVars
  <2>1. pipe \in Seq(Char) /\ rest \in Seq(Char) /\ rest # <<>> /\ Len(pipe) \in Nat
    BY LenProperties DEF TypeOK
  <2>2. rest' \in Seq(Char) /\ Head(rest) \in Char
    BY <2>1, HeadTailProperties
  <2>3. pipe' \in Seq(Char) /\ Len(pipe') = Len(pipe) + 1
    BY <2>1, <2>2, AppendProperties
  <2>4. TypeOK'
    BY <2>1, <2>2, <2>3, SizeAssumption DEF TypeOK
  <2>5. HarnessAt' /\ ChildAt'
    BY DEF HarnessAt, ChildAt
  <2> QED
    BY <2>4, <2>5
<1>5. CASE Exit
  <2> USE <1>5 DEF Exit, Consistent, mainVars, readVars
  <2>1. TypeOK'
    BY DEF TypeOK
  <2>2. HarnessAt' /\ ChildAt'
    BY DEF HarnessAt, ChildAt
  <2> QED
    BY <2>1, <2>2
<1>6. CASE RunsOn
  BY <1>6 DEF RunsOn, Consistent, TypeOK, HarnessAt, ChildAt,
              vars, mainVars, childVars, pipeVars, readVars
<1> QED
  BY <1>1, <1>2, <1>3, <1>4, <1>5, <1>6 DEF Child

LEMMA ConsistentStep == Consistent /\ [Next]_vars => Consistent'
<1> SUFFICES ASSUME Consistent, [Next]_vars PROVE Consistent'
  OBVIOUS
<1>1. CASE UNCHANGED vars
  BY <1>1 DEF Consistent, TypeOK, HarnessAt, ChildAt, vars, mainVars, childVars, pipeVars, readVars
<1>2. CASE Ended
  BY <1>2, <1>1 DEF Ended
<1> QED
  BY <1>1, <1>2, ConsistentMain, ConsistentRunTest, ConsistentChild DEF Next

\* Everything keeps its type; the buffer is never full but for the byte of its final NUL,
\* and the pipe never holds more than it can.
THEOREM HarnessTypes == Spec => []TypeOK
<1>1. Consistent => TypeOK
  BY DEF Consistent
<1> QED
  BY <1>1, ConsistentInit, ConsistentStep, PTL DEF Spec

---------------------------------------------------------------------------
(* Nothing is lost *)

\* Output that is text: what strlen cuts at a NUL cannot be promised.
Text(s) == \A n \in DOMAIN s : s[n] # "nul"
Texts   == (\A b \in Behaviours : Text(b.out)) /\ (\A t \in Inherited : Text(t))

LEMMA TextPrefix ==
  ASSUME NEW s \in Seq(Char), NEW t \in Seq(Char), Text(s \o t)
  PROVE  Text(s)
<1>1. s \o t \in Seq(Char) /\ Len(s \o t) = Len(s) + Len(t)
      /\ \A i \in 1 .. Len(s) + Len(t) : (s \o t)[i] = IF i <= Len(s) THEN s[i] ELSE t[i - Len(s)]
  BY ConcatProperties
<1>2. Len(s) \in Nat /\ Len(t) \in Nat
      /\ DOMAIN s = 1 .. Len(s) /\ DOMAIN (s \o t) = 1 .. Len(s \o t)
  BY <1>1, LenProperties
<1> SUFFICES ASSUME NEW n \in 1 .. Len(s) PROVE s[n] # "nul"
  BY <1>2 DEF Text
<1>3. n \in 1 .. Len(s) + Len(t) /\ n <= Len(s)
  BY <1>2
<1>4. (s \o t)[n] = s[n]
  BY <1>1, <1>3
<1> QED
  BY <1>1, <1>2, <1>3, <1>4 DEF Text

LEMMA RunsText == ASSUME Texts PROVE \A b \in Runs : Text(b.out)
  BY DEF Texts, Runs

\* The four places of a byte of output.
LEMMA Places ==
  ASSUME TypeOK
  PROVE  buf \in Seq(Char) /\ line \in Seq(Char) /\ pipe \in Seq(Char) /\ rest \in Seq(Char)
         /\ buf \o line \in Seq(Char) /\ (buf \o line) \o pipe \in Seq(Char)
         /\ line \o pipe \in Seq(Char) /\ pipe \o rest \in Seq(Char)
<1>1. buf \in Seq(Char) /\ line \in Seq(Char) /\ pipe \in Seq(Char) /\ rest \in Seq(Char)
  BY DEF TypeOK
<1> QED
  BY <1>1, ConcatProperties

\* What has been read is text.
LEMMA ReadText ==
  ASSUME Texts, Consistent, NothingLost, child \in {"running", "gone"}
  PROVE  Text(buf \o line)
<1>1. ((buf \o line) \o pipe) \o rest = ran.out /\ ran \in Runs
  BY DEF NothingLost, Consistent, ChildAt
<1>2. Text(((buf \o line) \o pipe) \o rest)
  BY <1>1, RunsText
<1>3. Text((buf \o line) \o pipe)
  BY <1>2, Places, TextPrefix DEF Consistent
<1> QED
  BY <1>3, Places, TextPrefix DEF Consistent

LEMMA NothingLostBecomes ==
  ASSUME Consistent, fed, NEW b \in Runs, Becomes(b)
  PROVE  NothingLost'
<1>1. b.out \in Seq(Char)
  BY RunsType
<1>2. buf = <<>> /\ line = <<>> /\ pipe = <<>>
  BY DEF Consistent, ChildAt, fed
<1>3. buf' = <<>> /\ line' = <<>> /\ pipe' = <<>> /\ rest' = b.out /\ ran' = b
  BY <1>2 DEF Becomes, pipeVars, readVars
<1>4. <<>> \in Seq(Char)
  BY EmptySeq
<1>5. <<>> \o <<>> = <<>> /\ <<>> \o b.out = b.out
  BY <1>1, <1>4, ConcatEmptySeq
<1> QED
  BY <1>3, <1>5 DEF NothingLost

LEMMA NothingLostGetChar ==
  ASSUME Consistent, NothingLost, GetChar
  PROVE  NothingLost'
<1>1. line' = Append(line, Head(pipe)) /\ pipe' = Tail(pipe) /\ pipe # <<>>
      /\ buf' = buf /\ rest' = rest /\ ran' = ran /\ child' = child
  BY DEF GetChar, childVars
<1>2. buf \in Seq(Char) /\ line \in Seq(Char) /\ pipe \in Seq(Char)
  BY Places DEF Consistent
<1>3. line' \in Seq(Char) /\ pipe' \in Seq(Char)
  BY ConsistentRunTest DEF RunTest, Consistent, TypeOK
<1>4. line' \o pipe' = line \o pipe
  BY <1>1, <1>2, Shift
<1>5. (buf \o line') \o pipe' = buf \o (line' \o pipe')
  BY <1>2, <1>3, Assoc, SMTT(30)
<1>6. (buf \o line) \o pipe = buf \o (line \o pipe)
  BY <1>2, Assoc
<1>7. (buf \o line') \o pipe' = (buf \o line) \o pipe
  BY <1>4, <1>5, <1>6
<1> QED
  BY <1>1, <1>7 DEF NothingLost

LEMMA NothingLostLineRead ==
  ASSUME Texts, Consistent, NothingLost, LineRead
  PROVE  NothingLost'
<1>1. buf' = cString(buf \o line) /\ line' = <<>>
      /\ pipe' = pipe /\ rest' = rest /\ ran' = ran /\ child' = child
  BY DEF LineRead, childVars, pipeVars
<1> SUFFICES ASSUME child \in {"running", "gone"}
             PROVE  ((buf' \o line') \o pipe') \o rest' = ran.out
  BY <1>1 DEF NothingLost
<1>2. buf \o line \in Seq(Char)
  BY Places DEF Consistent
<1>3. buf' = buf \o line
  BY <1>1, <1>2, ReadText, CStringWhole DEF Text
<1>4. (buf \o line) \o <<>> = buf \o line
  BY <1>2, ConcatEmptySeq
<1>5. buf' \o line' = buf \o line
  BY <1>1, <1>3, <1>4
<1> QED
  BY <1>1, <1>5 DEF NothingLost

LEMMA NothingLostWrite ==
  ASSUME Consistent, NothingLost, Write
  PROVE  NothingLost'
<1>1. pipe' = Append(pipe, Head(rest)) /\ rest' = Tail(rest) /\ rest # <<>>
      /\ buf' = buf /\ line' = line /\ ran' = ran /\ child' = child
  BY DEF Write, readVars
<1>2. pipe \in Seq(Char) /\ rest \in Seq(Char) /\ buf \o line \in Seq(Char)
  BY Places DEF Consistent
<1>3. pipe' \in Seq(Char) /\ rest' \in Seq(Char)
  BY ConsistentChild DEF Child, Consistent, TypeOK
<1>4. pipe' \o rest' = pipe \o rest
  BY <1>1, <1>2, Shift
<1>5. \A x, y \in Seq(Char) : ((buf \o line) \o x) \o y = (buf \o line) \o (x \o y)
  BY <1>2, Assoc
<1>6. ((buf \o line) \o pipe') \o rest' = (buf \o line) \o (pipe' \o rest')
      /\ ((buf \o line) \o pipe) \o rest = (buf \o line) \o (pipe \o rest)
  BY ONLY <1>2, <1>3, <1>5
<1>7. ((buf \o line) \o pipe') \o rest' = ((buf \o line) \o pipe) \o rest
  BY <1>4, <1>6
<1> QED
  BY <1>1, <1>7 DEF NothingLost

LEMMA NothingLostStep ==
  ASSUME Texts
  PROVE  Consistent /\ NothingLost /\ [Next]_vars => NothingLost'
<1> SUFFICES ASSUME Consistent, NothingLost, [Next]_vars PROVE NothingLost'
  OBVIOUS
<1> DEFINE Untouched == UNCHANGED <<child, buf, line, pipe, rest, ran>>
<1>1. Untouched => NothingLost'
  BY DEF NothingLost
<1>2. ASSUME NEW v, Verdict(v) PROVE NothingLost'
  BY <1>2 DEF Verdict, NothingLost
<1>3. CASE Main
  <2>1. CASE SkipTest \/ CompileFails
    BY <2>1, <1>2 DEF SkipTest, CompileFails
  <2>2. CASE ToolsFound \/ Compile
    BY <2>2, <1>1 DEF ToolsFound, Compile, childVars, pipeVars, readVars
  <2>3. CASE ToolsMissing \/ Results
    BY <2>3, <1>1 DEF ToolsMissing, Results, Finish, childVars, pipeVars, readVars
  <2> QED
    BY <1>3, <2>1, <2>2, <2>3 DEF Main
<1>4. CASE RunTest
  <2>1. CASE RunFails \/ Wait
    BY <2>1, <1>2 DEF RunFails, Wait
  <2>2. CASE Fork
    BY <2>2 DEF Fork, NothingLost
  <2>3. CASE CloseWriter \/ NoRoom \/ EndOfOutput
    BY <2>3, <1>1 DEF CloseWriter, NoRoom, EndOfOutput, vars, childVars, pipeVars, readVars
  <2>4. CASE GetChar
    BY <2>4, NothingLostGetChar
  <2>5. CASE LineRead
    BY <2>5, NothingLostLineRead
  <2> QED
    BY <1>4, <2>1, <2>2, <2>3, <2>4, <2>5 DEF RunTest
<1>5. CASE Child
  <2>1. CASE FeedBlocks \/ RunsOn
    BY <2>1, <1>1 DEF FeedBlocks, RunsOn, vars, childVars, pipeVars, readVars
  <2>2. CASE Exec \/ ExecFails
    BY <2>2, NothingLostBecomes DEF Exec, ExecFails, Runs
  <2>3. CASE Write
    BY <2>3, NothingLostWrite
  <2>4. CASE Exit
    BY <2>4 DEF Exit, NothingLost, readVars
  <2> QED
    BY <1>5, <2>1, <2>2, <2>3, <2>4 DEF Child
<1>6. CASE UNCHANGED vars \/ Ended
  BY <1>6, <1>1 DEF Ended, vars, childVars, pipeVars, readVars
<1> QED
  BY <1>3, <1>4, <1>5, <1>6 DEF Next

LEMMA NothingLostInit == Init => NothingLost
  BY DEF Init, NothingLost

\* Between the two processes no byte of text is lost, doubled or out of order, wherever
\* lines, pipe and buffer cut it, in whatever order the processes take their steps.
THEOREM NothingEverLost == ASSUME Texts PROVE Spec => []NothingLost
<1>1. Init => Consistent /\ NothingLost
  BY ConsistentInit, NothingLostInit
<1>2. (Consistent /\ NothingLost) /\ [Next]_vars => (Consistent /\ NothingLost)'
  BY ConsistentStep, NothingLostStep
<1> QED
  BY <1>1, <1>2, PTL DEF Spec

---------------------------------------------------------------------------
(* The harness implements the grading *)

LEMMA GradingInit == Init => Abs!Init
  BY DEF Init, Abs!Init, NotRun, Abs!NotRun

\* A test that is over before its simulator runs.
LEMMA GradingWithoutRun ==
  ASSUME Consistent, child = "none", at # "ended", Len(verdicts) < Len(Tests),
         NEW v \in {"skipped", "failed"}, Verdict(v)
  PROVE  Abs!WithoutRun
<1>1. exit = -1 /\ ran = NotRun
  BY DEF Consistent, HarnessAt, ChildAt
<1>2. exit' = exit /\ ran' = NotRun /\ verdicts' = Append(verdicts, v)
  BY DEF Verdict
<1>3. ~Abs!over
  BY DEF Abs!over
<1> QED
  BY <1>1, <1>2, <1>3 DEF Abs!WithoutRun, Abs!Verdict, NotRun, Abs!NotRun

LEMMA GradingFinish ==
  ASSUME Consistent, child = "none", at # "ended", NEW code, Finish(code),
         \/ Len(verdicts) = Len(Tests) /\ code = (IF failed = {} /\ passed # {} THEN 0 ELSE 1)
         \/ verdicts = <<>> /\ code = 1
  PROVE  Abs!Finish
<1>1. exit = -1 /\ ran = NotRun
  BY DEF Consistent, HarnessAt, ChildAt
<1>2. exit' = code /\ UNCHANGED <<verdicts, ran>>
  BY DEF Finish, childVars
<1>3. (failed = {} /\ passed # {}) <=> Abs!allPassed
  BY DEF failed, passed, Abs!allPassed, Abs!Range
<1> QED
  BY <1>1, <1>2, <1>3 DEF Abs!Finish, Abs!over, NotRun, Abs!NotRun

LEMMA GradingExecute ==
  ASSUME Consistent, fed, NEW b \in Runs, Becomes(b)
  PROVE  Abs!Execute
<1>1. child = "forked" /\ at \in {"forked", "reading", "waiting"}
  BY DEF fed, Consistent, TypeOK, HarnessAt
<1>2. exit = -1 /\ ran = NotRun /\ Len(verdicts) < Len(Tests)
  BY <1>1 DEF Consistent, HarnessAt, ChildAt
<1>3. ran' # NotRun /\ UNCHANGED <<verdicts, exit>>
  BY RunsType DEF Becomes, mainVars
<1>4. ~Abs!over
  BY <1>2 DEF Abs!over
<1> QED
  BY <1>2, <1>3, <1>4 DEF Abs!Execute, NotRun, Abs!NotRun

\* When the harness judges, what is in the buffer is all the simulator wrote.
LEMMA GradingJudge ==
  ASSUME Consistent, NothingLost, Wait
  PROVE  Abs!Judge
<1>1. at = "waiting" /\ child = "gone" /\ ran \in Runs /\ exit = -1 /\ Len(verdicts) < Len(Tests)
      /\ pipe = <<>> /\ line = <<>> /\ rest = <<>>
  BY DEF Wait, At, Consistent, HarnessAt, ChildAt
<1>2. buf \in Seq(Char)
  BY Places DEF Consistent
<1>3. buf \o <<>> = buf
  BY <1>2, ConcatEmptySeq
<1>4. buf = ran.out
  BY <1>1, <1>3 DEF NothingLost
<1>5. verdicts' = Append(verdicts, IF ran.end = "exit0" /\ ran.out = current.expected
                                   THEN "passed" ELSE "failed")
      /\ ran' = NotRun /\ exit' = exit
  BY <1>4 DEF Wait, Verdict
<1>6. ran # NotRun /\ ~Abs!over
  BY <1>1, RunsType DEF Abs!over
<1> QED
  BY <1>1, <1>5, <1>6 DEF Abs!Judge, Abs!right, Abs!current, Abs!Verdict, current, NotRun, Abs!NotRun

LEMMA GradingStep ==
  Consistent /\ NothingLost /\ [Next]_vars => [Abs!Next]_<<verdicts, ran, exit>>
<1> SUFFICES ASSUME Consistent, NothingLost, [Next]_vars
             PROVE  Abs!Next \/ UNCHANGED <<verdicts, ran, exit>>
  OBVIOUS
<1> USE DEF Abs!Next
<1>1. CASE Main
  <2>1. CASE SkipTest \/ CompileFails
    BY <2>1, GradingWithoutRun DEF SkipTest, CompileFails, InTest, At, Consistent, HarnessAt
  <2>2. CASE ToolsFound \/ Compile
    BY <2>2 DEF ToolsFound, Compile, mainVars, childVars
  <2>3. CASE ToolsMissing
    BY <2>3, GradingFinish DEF ToolsMissing, At, Consistent, HarnessAt
  <2>4. CASE Results
    BY <2>4, GradingFinish DEF Results, At, Consistent, HarnessAt
  <2> QED
    BY <1>1, <2>1, <2>2, <2>3, <2>4 DEF Main
<1>2. CASE RunTest
  <2>1. CASE RunFails
    BY <2>1, GradingWithoutRun DEF RunFails, At, Consistent, HarnessAt
  <2>2. CASE Wait
    BY <2>2, GradingJudge
  <2>3. CASE Fork \/ CloseWriter \/ GetChar \/ LineRead \/ NoRoom \/ EndOfOutput
    BY <2>3 DEF Fork, CloseWriter, GetChar, LineRead, NoRoom, EndOfOutput, vars, mainVars, childVars
  <2> QED
    BY <1>2, <2>1, <2>2, <2>3 DEF RunTest
<1>3. CASE Child
  <2>1. CASE Exec \/ ExecFails
    BY <2>1, GradingExecute DEF Exec, ExecFails, Runs
  <2>2. CASE FeedBlocks \/ Write \/ Exit \/ RunsOn
    BY <2>2 DEF FeedBlocks, Write, Exit, RunsOn, vars, mainVars, childVars
  <2> QED
    BY <1>3, <2>1, <2>2 DEF Child
<1>4. CASE UNCHANGED vars \/ Ended
  BY <1>4 DEF Ended, vars, mainVars, childVars
<1> QED
  BY <1>1, <1>2, <1>3, <1>4 DEF Next

\* Whatever the tests, the simulator and the sizes, the verdicts and the exit code of the
\* harness are those of a grader that sees whole outputs and no pipe.
THEOREM HarnessGrades == ASSUME Texts PROVE Spec => GradesWhatRan
<1>1. Init => Consistent /\ NothingLost
  BY ConsistentInit, NothingLostInit
<1>2. (Consistent /\ NothingLost) /\ [Next]_vars => (Consistent /\ NothingLost)'
  BY ConsistentStep, NothingLostStep
<1> QED
  BY <1>1, <1>2, GradingInit, GradingStep, PTL DEF Spec, GradesWhatRan, Abs!Spec
=============================================================================
