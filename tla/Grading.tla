------------------------------ MODULE Grading ------------------------------
(***************************************************************************)
(* What the test harness promises, without processes, pipes and buffers:   *)
(* each test in turn is skipped, fails before it runs, or is run and then  *)
(* judged by everything its simulator wrote and by how it ended.           *)
(***************************************************************************)
EXTENDS Integers, Sequences

CONSTANT Tests      \* the array tests[], in its order

VARIABLES verdicts, \* one for each test that is over
          ran,      \* what the simulator of the current test does
          exit      \* the exit code of the harness, -1 before

NotRun == [out |-> <<>>, end |-> "none"]

Range(s) == {s[n] : n \in DOMAIN s}
current  == Tests[Len(verdicts) + 1]
over     == Len(verdicts) = Len(Tests)

right == ran.end = "exit0" /\ ran.out = current.expected

allPassed == "passed" \in Range(verdicts) /\ "failed" \notin Range(verdicts)

Init == verdicts = <<>> /\ ran = NotRun /\ exit = -1

Verdict(v) == verdicts' = Append(verdicts, v)

\* A test that is not there, or that cannot be assembled or started.
WithoutRun == /\ exit = -1 /\ ~over /\ ran = NotRun
              /\ \E v \in {"skipped", "failed"} : Verdict(v)
              /\ UNCHANGED <<ran, exit>>

Execute == /\ exit = -1 /\ ~over /\ ran = NotRun
           /\ ran' # NotRun
           /\ UNCHANGED <<verdicts, exit>>

Judge == /\ exit = -1 /\ ~over /\ ran # NotRun
         /\ Verdict(IF right THEN "passed" ELSE "failed")
         /\ ran' = NotRun
         /\ UNCHANGED exit

\* The harness succeeds when a test passed and none failed; without its two programs
\* it fails at once.
Finish == /\ exit = -1 /\ ran = NotRun
          /\ \/ over /\ exit' = (IF allPassed THEN 0 ELSE 1)
             \/ verdicts = <<>> /\ exit' = 1
          /\ UNCHANGED <<verdicts, ran>>

Next == WithoutRun \/ Execute \/ Judge \/ Finish

Spec == Init /\ [][Next]_<<verdicts, ran, exit>>
=============================================================================
