---------------------------- MODULE MCToolchain ----------------------------
(***************************************************************************)
(* Small scripts for the model checker, assembled and simulated.           *)
(***************************************************************************)
EXTENDS Toolchain

Op(c, args) == [type |-> 0, cmd |-> c, args |-> args, lbl |-> NoLabel, val |-> 0]
Number(v)   == [type |-> 1, cmd |-> "add", args |-> <<>>, lbl |-> NoLabel, val |-> v]
Label(l)    == [type |-> 2, cmd |-> "add", args |-> <<>>, lbl |-> l, val |-> 0]

\* r1 is the address of the end, r2 a number.
opening == << Op("ld", <<Reg(1), Lab(":b")>>), Op("mov", <<Reg(2), Lit(8)>>) >>
closing == << Label(":b"), Op("mov", <<Reg(4), Lit(1)>>), Op("out", <<Reg(4), Reg(2)>>),
              Op("out", <<Reg(4), Reg(3)>>), Op("halt", <<>>), Label(":d"), Number(WORD - 9) >>

\* One operation, with operands at the edges of their fields.
Straight ==
  { Op("clr", <<Reg(2)>>), Op("ld", <<Reg(2), Lab(":d")>>), Op("ld", <<Reg(2), Lit(-2)>>),
    Op("push", <<Reg(2)>>), Op("pop", <<Reg(2)>>), Op("pop", <<Reg(31)>>),
    Op("mov", <<Reg(3), Mem(31, -8)>>), Op("mov", <<Mem(31, -8), Reg(1)>>),
    Op("mov", <<Reg(3), Mem(2, 0)>>), Op("mov", <<Mem(2, 8), Reg(1)>>),
    Op("mov", <<Reg(2), Reg(31)>>), Op("mov", <<Reg(2), Lit(4095)>>), Op("mov", <<Reg(2), Lit(1)>>),
    Op("and", <<Reg(3), Reg(1), Reg(2)>>), Op("or", <<Reg(3), Reg(1), Reg(2)>>),
    Op("xor", <<Reg(2), Reg(1), Reg(2)>>), Op("not", <<Reg(3), Reg(2)>>),
    Op("shftr", <<Reg(3), Reg(1), Reg(2)>>), Op("shftl", <<Reg(3), Reg(1), Reg(2)>>),
    Op("shftri", <<Reg(2), Lit(1)>>), Op("shftli", <<Reg(2), Lit(13)>>),
    Op("add", <<Reg(3), Reg(1), Reg(2)>>), Op("sub", <<Reg(3), Reg(2), Reg(1)>>),
    Op("mul", <<Reg(3), Reg(1), Reg(2)>>), Op("div", <<Reg(3), Reg(1), Reg(2)>>),
    Op("addi", <<Reg(2), Lit(4095)>>), Op("subi", <<Reg(2), Lit(5)>>),
    Op("in", <<Reg(2), Reg(0)>>), Op("in", <<Reg(3), Reg(2)>>) }

Going ==
  { Op("br", <<Reg(1)>>), Op("br", <<Reg(2)>>), Op("brr", <<Lit(8)>>), Op("brr", <<Lit(-8)>>),
    Op("brr", <<Reg(2)>>), Op("brnz", <<Reg(1), Reg(2)>>), Op("brgt", <<Reg(1), Reg(2), Reg(3)>>),
    Op("call", <<Reg(1)>>), Op("return", <<>>), Op("halt", <<>>) }

Body == Straight \cup Going

\* Calls that come back: a subroutine behind the end of the program.
Subroutines ==
  { << Op("ld", <<Reg(1), Lab(":b")>>) >> \o x \o <<Op("call", <<Reg(1)>>)>> \o y
      \o << Op("halt", <<>>), Label(":b") >> \o z \o << Op("return", <<>>), Number(1) >> :
      x \in {<<>>, <<Op("push", <<Reg(1)>>)>>},
      y \in {<<>>, <<Op("pop", <<Reg(2)>>)>>, <<Op("mov", <<Reg(2), Mem(31, -8)>>)>>},
      z \in {<<>>, <<Op("clr", <<Reg(2)>>)>>, <<Op("push", <<Reg(1)>>), Op("pop", <<Reg(2)>>)>>,
             <<Op("mov", <<Mem(31, -8), Reg(1)>>)>>} }

Stack == { Op("push", <<Reg(1)>>), Op("push", <<Reg(2)>>), Op("pop", <<Reg(2)>>),
           Op("pop", <<Reg(3)>>), Op("subi", <<Reg(31), Lit(12)>>) }

\* Without its halt a script runs off its end.
Endless == {opening \o <<x, Label(":b")>> \o <<Number(3)>> : x \in Stack}

RunScripts == {opening \o <<x, y>> \o closing : x \in Body, y \in Body}
                \cup {opening \o ops \o closing : ops \in [1..3 -> Stack]}
                \cup Subroutines \cup Endless
RunStdins(f) == {<<[k |-> "number", v |-> 3]>>}
=============================================================================
