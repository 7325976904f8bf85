------------------------------ MODULE Harness ------------------------------
(***************************************************************************)
(* The test harness of the simulator (sim/test_harness.c): for each test   *)
(* it assembles a program, runs the simulator in a child process whose     *)
(* standard output is a pipe, reads the pipe line by line into a buffer of *)
(* fixed size, waits for the child and compares.  Harness and child run    *)
(* concurrently from the fork to the end of the child.                     *)
(*                                                                         *)
(* A process is a control point; a character of output is an ordinary one, *)
(* the end of a line or the NUL that out can print.                        *)
(***************************************************************************)
EXTENDS Integers, Sequences, FiniteSets

CONSTANTS
  Tests,       \* the array tests[]: expected output, and length of stdin_input (0 is NULL)
  Behaviours,  \* what a simulator may write before it ends, and how it ends
  Inherited,   \* what the harness may have printed and not flushed when it forks
  BUF,         \* size of output_buf (4096)
  PIPE         \* bytes a pipe holds

VARIABLES
  at,          \* where the harness is
  verdicts,    \* how each test so far went; stats counts them
  exit,        \* exit code of the harness
  child,       \* the process that is or becomes the simulator
  rest,        \* what it has yet to write
  ran,         \* history: all it writes and how it ends
  pipe,        \* bytes in the pipe
  writers,     \* the processes that hold the writing end of the pipe
  buf,         \* output_buf up to output_len
  line         \* what the fgets in progress has read

mainVars  == <<verdicts, exit>>
childVars == <<child, rest, ran>>
pipeVars  == <<pipe, writers>>
readVars  == <<buf, line>>
vars == <<at, mainVars, childVars, pipeVars, readVars>>

NotRun  == [out |-> <<>>, end |-> "none"]
current == Tests[Len(verdicts) + 1]
passed  == {n \in DOMAIN verdicts : verdicts[n] = "passed"}
failed  == {n \in DOMAIN verdicts : verdicts[n] = "failed"}

Init ==
  /\ at = "start" /\ verdicts = <<>> /\ exit = -1
  /\ child = "none" /\ rest = <<>> /\ ran = NotRun
  /\ pipe = <<>> /\ writers = {}
  /\ buf = <<>> /\ line = <<>>

---------------------------------------------------------------------------
(* main *)

At(p)    == at = p
Goto(p)  == at' = p
Finish(code) == Goto("ended") /\ exit' = code
                /\ UNCHANGED <<verdicts, childVars, pipeVars, readVars>>

\* access: both programs are there, or one is not.
ToolsFound   == /\ At("start") /\ Goto("test")
                /\ UNCHANGED <<mainVars, childVars, pipeVars, readVars>>
ToolsMissing == At("start") /\ Finish(1)

InTest == At("test") /\ Len(verdicts) < Len(Tests)

Verdict(v) ==
  /\ Goto("test") /\ verdicts' = Append(verdicts, v)
  /\ child' = "none" /\ rest' = <<>> /\ ran' = NotRun
  /\ UNCHANGED <<exit, pipeVars, readVars>>

\* No source file: the test is not counted.
SkipTest == InTest /\ Verdict("skipped")

\* compile_test waits for the assembler, which always ends; a fork that fails, a
\* signal and an exit status other than 0 are one.
CompileFails == InTest /\ Verdict("failed")
Compile == /\ InTest /\ Goto("run_test")
           /\ UNCHANGED <<mainVars, childVars, pipeVars, readVars>>

Results == /\ At("test") /\ Len(verdicts) = Len(Tests)
           /\ Finish(IF failed = {} /\ passed # {} THEN 0 ELSE 1)

---------------------------------------------------------------------------
(* run_test *)

\* pipe or fork fails.
RunFails == At("run_test") /\ Verdict("failed")

Fork ==
  /\ At("run_test") /\ Goto("forked")
  /\ child' = "forked" /\ writers' = {"harness", "child"}
  /\ pipe' = <<>> /\ buf' = <<>> /\ line' = <<>>
  /\ UNCHANGED <<mainVars, rest, ran>>

\* As if the harness kept the end of the pipe it does not use.
KeepWriter ==
  /\ At("forked") /\ Goto("reading")
  /\ UNCHANGED <<mainVars, childVars, pipe, writers, readVars>>

CloseWriter ==
  /\ At("forked") /\ Goto("reading")
  /\ writers' = writers \ {"harness"}
  /\ UNCHANGED <<mainVars, childVars, pipe, readVars>>

---------------------------------------------------------------------------
(* The reading loop.  fgets reads up to the end of a line, the last byte but one of *)
(* the buffer or the end of the output, and blocks until one of them comes.         *)

\* As if every fgets were given the size of the whole buffer.
filledLine == Len(line) = BUF - 1

filled  == Len(buf) + Len(line) = BUF - 1
endLine == line # <<>> /\ line[Len(line)] = "nl"
eof     == pipe = <<>> /\ writers = {}

GetChar ==
  /\ At("reading") /\ ~filled /\ ~endLine
  /\ pipe # <<>>
  /\ line' = Append(line, Head(pipe)) /\ pipe' = Tail(pipe)
  /\ UNCHANGED <<at, mainVars, childVars, writers, buf>>

\* strlen(output_buf): how many characters come before the first NUL, or in all.
strlen(s)  == Cardinality({n \in DOMAIN s : \A m \in 1..n : s[m] # "nul"})
cString(s) == SubSeq(s, 1, strlen(s))

\* As if output_len were the length of the line alone.
LineReadAtStart ==
  /\ At("reading") /\ line # <<>> /\ (filled \/ endLine \/ eof)
  /\ buf' = cString(line) /\ line' = <<>>
  /\ UNCHANGED <<at, mainVars, childVars, pipeVars>>

LineRead ==
  /\ At("reading") /\ line # <<>> /\ (filled \/ endLine \/ eof)
  /\ buf' = cString(buf \o line) /\ line' = <<>>
  /\ UNCHANGED <<at, mainVars, childVars, pipeVars>>

\* With room for the final NUL alone fgets returns at once and reads nothing.
NoRoom == At("reading") /\ line = <<>> /\ filled /\ UNCHANGED vars

EndOfOutput ==
  /\ At("reading") /\ line = <<>> /\ ~filled /\ eof
  /\ Goto("waiting")
  /\ UNCHANGED <<mainVars, childVars, pipeVars, readVars>>

\* waitpid has no time limit.
Wait ==
  /\ At("waiting") /\ child = "gone"
  /\ Verdict(IF ran.end = "exit0" /\ buf = current.expected THEN "passed" ELSE "failed")

---------------------------------------------------------------------------
(* The child *)

\* A whole stdin_input goes into a pipe that nobody reads yet: write returns when it fits.
fed == child = "forked" /\ current.input <= PIPE
FeedBlocks == child = "forked" /\ ~fed /\ UNCHANGED vars

Becomes(b) ==
  /\ child' = "running" /\ ran' = b /\ rest' = b.out
  /\ UNCHANGED <<at, mainVars, pipeVars, readVars>>

Exec == fed /\ \E b \in Behaviours : Becomes(b)

\* exit(1) of the child flushes what the harness had printed when it forked.
ExecFails == fed /\ \E t \in Inherited : Becomes([out |-> t, end |-> "exit1"])

Write ==
  /\ child = "running" /\ rest # <<>> /\ Len(pipe) < PIPE
  /\ pipe' = Append(pipe, Head(rest)) /\ rest' = Tail(rest)
  /\ UNCHANGED <<at, mainVars, child, ran, writers, readVars>>

Exit ==
  /\ child = "running" /\ rest = <<>> /\ ran.end # "never"
  /\ child' = "gone" /\ writers' = writers \ {"child"}
  /\ UNCHANGED <<at, mainVars, rest, ran, pipe, readVars>>

\* A loop, or a wait for input from a terminal.
RunsOn == child = "running" /\ rest = <<>> /\ ran.end = "never" /\ UNCHANGED vars

---------------------------------------------------------------------------
Main    == ToolsFound \/ ToolsMissing \/ SkipTest \/ CompileFails \/ Compile \/ Results
RunTest == \/ RunFails \/ Fork \/ CloseWriter
           \/ GetChar \/ LineRead \/ NoRoom \/ EndOfOutput \/ Wait
Child   == FeedBlocks \/ Exec \/ ExecFails \/ Write \/ Exit \/ RunsOn

\* The harness is gone.
Ended == At("ended") /\ UNCHANGED vars

Next == Main \/ RunTest \/ Child \/ Ended

Spec == Init /\ [][Next]_vars

\* Two processes of one machine: each takes the steps it can.
FairSpec == Spec /\ WF_vars(Main \/ RunTest) /\ WF_vars(Child)

---------------------------------------------------------------------------
(* Types *)

Char == {"char", "nl", "nul"}
Ends == {"exit0", "exit1", "signal", "never"}
Behaviour == [out : Seq(Char), end : Ends]

ASSUME SizeAssumption == BUF \in Nat /\ 2 <= BUF /\ PIPE \in Nat /\ 1 <= PIPE
ASSUME TestsAssumption == Tests \in Seq([expected : Seq(Char), input : Nat])
ASSUME BehavioursAssumption == Behaviours \subseteq Behaviour /\ Inherited \subseteq Seq(Char)

TypeOK ==
  /\ at \in {"start", "test", "run_test", "forked", "reading", "waiting", "ended"}
  /\ verdicts \in Seq({"skipped", "passed", "failed"}) /\ Len(verdicts) <= Len(Tests)
  /\ exit \in -1..1
  /\ child \in {"none", "forked", "running", "gone"}
  /\ ran \in Behaviour \cup {NotRun}
  /\ rest \in Seq(Char) /\ pipe \in Seq(Char) /\ buf \in Seq(Char) /\ line \in Seq(Char)
  /\ writers \subseteq {"harness", "child"}
  /\ Len(buf) + Len(line) < BUF /\ Len(pipe) <= PIPE

---------------------------------------------------------------------------
(* What the harness guarantees *)

\* Between the two processes no byte of output is lost, doubled or out of order: what
\* is in the buffer, in the line being read, in the pipe and not yet written is what
\* the simulator writes, wherever lines, pipe and buffer cut it.  (Without NULs.)
NothingLost ==
  child \in {"running", "gone"} => buf \o line \o pipe \o rest = ran.out

Abs == INSTANCE Grading

\* Every test gets one verdict, in order: passed if and only if its simulator exited
\* with 0 and its whole output is the expected one; the exit code sums the verdicts up.
GradesWhatRan == Abs!Spec

\* The harness ends, unless it is for ever at a simulator that does not end, at an
\* output that fills the buffer, whose end fgets then never reports, or at a child that
\* writes more input than a pipe holds before there is a reader.
stuck == \/ child = "running" /\ ran.end = "never"
         \/ child = "forked" /\ ~fed
         \/ At("reading") /\ Len(buf) = BUF - 1
FinishesOrStuck == <>(At("ended") \/ []stuck)
=============================================================================
