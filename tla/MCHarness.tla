----------------------------- MODULE MCHarness -----------------------------
(***************************************************************************)
(* Small tests and simulators for the model checker.                       *)
(***************************************************************************)
EXTENDS Harness

Test(expected, input) == [expected |-> expected, input |-> input]

\* Tests of different outputs; the second is fed, the third more than a pipe holds.  (No
\* test of tests[] is fed.)
ThreeTests == <<Test(<<"char", "nl">>, 0), Test(<<"nl", "char">>, PIPE), Test(<<>>, PIPE + 1)>>

\* Every output up to one byte more than the buffer takes, with every end.
outputs(chars) == UNION {[1..n -> chars] : n \in 0..BUF}
TextBehaviours == {[out |-> o, end |-> e] : o \in outputs({"char", "nl"}), e \in Ends}
Unflushed == {<<>>, <<"char", "nl">>, <<"char", "nl", "char", "nl">>}
=============================================================================
