------------------------------ MODULE Assembly ------------------------------
(***************************************************************************)
(* The image a script assembles to, as AsmSpec promises, and its bytes: the*)
(* way from the output of the assembler to the input of the simulator.     *)
(***************************************************************************)
EXTENDS Macro, Image

CONSTANTS CODE_BASE, DATA_BASE

\* The words of one instruction of the script and the data of all, for scripts that
\* assemble and leave no choice, from the meaning of their labels.
wordsOf(e, table) ==
  LET x == CHOOSE x \in expandMacro(e.cmd, e.args, table) : TRUE
  IN [n \in DOMAIN x |->
        getInstruction(x[n].cmd, CHOOSE args \in replaceLabel(x[n].args, table) : TRUE).w]

isDatum(e) == e.type = 1
items(sc, meaning) ==
  LET table  == SetToSeq(meaning)
      ofEntry(e) == IF e.type = 0 THEN wordsOf(e, table) ELSE <<>>
      data   == SelectSeq(sc, isDatum)
  IN [code |-> FlattenSeq([k \in DOMAIN sc |-> ofEntry(sc[k])]),
      data |-> [k \in DOMAIN data |-> data[k].val]]

imageOf(its) == [entry |-> CODE_BASE, code |-> codeFrom(its.code),
                 at |-> DATA_BASE, data |-> dataFrom(its.data)]

\* The code ends before the data begin, and both lie in memory: nothing compares them.
hasRoom(its) ==
  /\ its.code \in Seq(Word) /\ its.data \in Seq(Values)
  /\ CODE_BASE + 4 * Len(its.code) <= DATA_BASE
  /\ DATA_BASE + 8 * Len(its.data) <= MEM_SIZE

---------------------------------------------------------------------------
(* The scripts *)

Operands == [k : OperandKinds, n : Nat, v : Int, hex : BOOLEAN, l : STRING \cup {NoLabel}]
Entries  == [type : 0..2, cmd : Commands, args : Seq(Operands), lbl : STRING, val : Values]

\* Lines that mean what they say.  The assembler takes others, too: it encodes a mov of
\* no known form as mov r0, (r0)(0) and fills in operands that are missing, it cuts
\* numbers to an int, replaces labels by numbers, and lets push r31 store what r31 was.
Meant(c, args) ==
  /\ c \notin {"priv", "data", "addf", "subf", "mulf", "divf"}
  /\ \A n \in DOMAIN args :
       /\ ~args[n].hex
       /\ args[n].k = "reg" => args[n] = Reg(args[n].n)
       /\ c # "ld" => /\ args[n].k # "lab" /\ args[n].l = NoLabel
                      /\ args[n].v \in (-(INT \div 2))..((INT \div 2) - 1)
       /\ c = "push" => args[n].n # 31
  /\ Len(args) >= (IF c \in {"ld", "in", "out", "mov"} THEN 2 ELSE IF c = "brr" THEN 1 ELSE 0)
  /\ c = "ld"  => args[2].k \in {"lit", "lab"} /\ args[2].v \in (-(WORD - 1))..(WORD - 1)
  /\ c = "mov" => <<args[1].k, args[2].k>> \in
                    {<<"reg", "reg">>, <<"reg", "lit">>, <<"reg", "mem">>, <<"mem", "reg">>}

isMeant(sc) == /\ sc \in Seq(Entries)
               /\ \A k \in DOMAIN sc : sc[k].type = 0 => Meant(sc[k].cmd, sc[k].args)
=============================================================================
