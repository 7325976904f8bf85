---------------------------- MODULE MCSimulator ----------------------------
(***************************************************************************)
(* Small images and inputs for the model checker.                          *)
(***************************************************************************)
EXTENDS Simulator, Image

\* The opcode of a row of the simulator's table.
opcode(c) == CHOOSE op \in 0..29 : getCmd(op) = c
I(c, rd, rs, rt, im) == build_instruction(opcode(c), rd, rs, rt, im)

CODE_AT == 8
DATA_AT == 56
fileOf(words) == [entry |-> CODE_AT, code |-> codeFrom(words),
                  at |-> DATA_AT, data |-> bytesOf(MEM_SIZE - 4)]

number(v) == [k |-> "number", v |-> v]

---------------------------------------------------------------------------
(* Operations: every opcode, with operands at the edges of memory and of the word *)

Everything ==
  { I("priv", 1, 0, 0, 3),                                  \* in r1
    I("priv", 1, 2, 0, 4), I("priv", 1, 0, 0, 5), I("priv", 0, 0, 0, 0),
    I("addi", 1, 0, 0, 1), I("subi", 1, 0, 0, 1), I("mov2", 2, 0, 0, 4095),
    I("and", 2, 1, 2, 0), I("or", 2, 1, 31, 0), I("xor", 2, 1, 2, 0), I("not", 2, 1, 0, 0),
    I("shftli", 1, 0, 0, 12), I("shftri", 1, 0, 0, 17), I("shftl", 2, 1, 1, 0),
    I("shftr", 2, 1, 1, 0), I("add", 2, 1, 31, 0), I("sub", 2, 1, 31, 0),
    I("mul", 2, 1, 1, 0), I("div", 2, 31, 1, 0), I("divf", 2, 1, 1, 0), I("addf", 2, 1, 1, 0),
    I("mov", 2, 31, 0, 4088), I("mov", 2, 1, 0, 0), I("mov3", 1, 2, 0, 4095),
    I("mov3", 31, 1, 0, 4093), I("mov1", 2, 1, 0, 0),
    I("br", 1, 0, 0, 0), I("brr", 1, 0, 0, 0), I("brr2", 0, 0, 0, 4076), I("brr2", 0, 0, 0, 8),
    I("brnz", 1, 2, 0, 0), I("brgt", 1, 31, 2, 0), I("call", 1, 0, 0, 0), I("return", 0, 0, 0, 0),
    build_instruction(30, 0, 0, 0, 0) }

EverythingFiles ==
  {fileOf(<<a, b>>) : a \in Everything, b \in Everything}
    \cup {fileOf(<<I("priv", 1, 0, 0, 3), a, b>>) : a \in Everything, b \in Everything}
    \cup {[entry |-> CODE_AT, code |-> bytesOf(0), at |-> MEM_SIZE - 4, data |-> bytesOf(0)]}

\* Numbers around the end of memory, the sign of a word and its range.
Numbers == {<<number(v), number(0)>> : v \in {20, MEM_SIZE - 4, MEM_SIZE, WORD - 4, INT + 16}}

\* Lines that hold something else, and none.
OtherLines == {<<>>, <<number(20), number(0)>>, <<number(WORD)>>, <<[k |-> "other", v |-> 0]>>,
               <<[k |-> "minus", v |-> 4]>>, <<[k |-> "empty", v |-> 0], number(4)>>,
               <<[k |-> "blankMinus", v |-> WORD - 20]>>}

---------------------------------------------------------------------------
(* Calls: nested, with and without room made below r31 *)

CallWords ==
  { I("call", 1, 0, 0, 0), I("return", 0, 0, 0, 0), I("addi", 31, 0, 0, 8),
    I("subi", 31, 0, 0, 8), I("subi", 31, 0, 0, 4), I("mov3", 31, 1, 0, 4088),
    I("call", 2, 0, 0, 0), I("priv", 0, 0, 0, 0) }

CallFiles ==
  {fileOf(<<I("priv", 1, 0, 0, 3), I("priv", 2, 0, 0, 3)>> \o ws) : ws \in [1..4 -> CallWords]}
CallStdins == {<<number(CODE_AT + 4 * m), number(CODE_AT + 20)>> : m \in {3, 4}}

---------------------------------------------------------------------------
(* One run over both *)

RunFiles == EverythingFiles \cup CallFiles

RunStdins(f) == IF f \in CallFiles THEN CallStdins
                ELSE IF Len(f.code) <= 8 THEN OtherLines ELSE Numbers

---------------------------------------------------------------------------
(* What a comment says of the input and the code does not do *)

InputFiles == {fileOf(<<I("priv", 1, 0, 0, 3), I("priv", 0, 0, 0, 0)>>)}

\* "Check that entire string was valid number".
EmptyStdins(f) == {<<[k |-> "empty", v |-> 0]>>}
WholeLineIsNumber == [][Input => Head(stdin).k \notin {"empty", "other"}]_vars
=============================================================================
