------------------------------- MODULE Encode -------------------------------
(***************************************************************************)
(* From the text of one operation to one machine word: argparse.c and      *)
(* encode.c of the assembler.  An operand is a record whose kind is what   *)
(* isLiteralArg, isParArg and isRegArg tell apart by the first character,  *)
(* and a literal is the integer its text denotes.                          *)
(***************************************************************************)
EXTENDS Isa, Widths, FiniteSets

\* The label of an operand that names none.
NoLabel == ""

\* Operands: r<n>; a number; a number written 0x...; :<l>; (r<n>)(<v>); and
\* (r<n>)(:<l>).  n may be any register number the text holds, v any integer.
Reg(n)       == [k |-> "reg", n |-> n, v |-> 0, hex |-> FALSE, l |-> NoLabel]
Lit(v)       == [k |-> "lit", n |-> 0, v |-> v, hex |-> FALSE, l |-> NoLabel]
Hex(v)       == [k |-> "lit", n |-> 0, v |-> v, hex |-> TRUE,  l |-> NoLabel]
Lab(l)       == [k |-> "lab", n |-> 0, v |-> 0, hex |-> FALSE, l |-> l]
Mem(n, v)    == [k |-> "mem", n |-> n, v |-> v, hex |-> FALSE, l |-> NoLabel]
MemLab(n, l) == [k |-> "mem", n |-> n, v |-> 0, hex |-> FALSE, l |-> l]

OperandKinds == {"reg", "lit", "lab", "mem"}

---------------------------------------------------------------------------
(* Numbers *)

\* parseLiteral: strtol for 0x text (it stops at LONG_MAX), strtoull for the
\* rest (a minus sign negates in unsigned arithmetic, overflow gives the largest
\* value).
parseLiteral(v, hex) ==
  IF hex /\ v >= 0 THEN IF v >= WORD \div 2 THEN (WORD \div 2) - 1 ELSE v
  ELSE IF v >= WORD \/ -v >= WORD THEN WORD - 1 ELSE v % WORD

\* checkSigned and checkUnsigned: the value is accepted.
checkSigned(x)   == -(IMM \div 2) <= x /\ x < IMM \div 2
checkUnsigned(x) == 0 <= x /\ x < IMM

---------------------------------------------------------------------------
(* Words *)

Word == [op : 0..31, rd : 0..31, rs : 0..31, rt : 0..31, imm : 0..(IMM - 1)]

\* build_instruction: the fields packed from the most significant bit down.  The
\* shifts push all but five bits of the opcode out of the word.
build_instruction(op, rd, rs, rt, imm) ==
  [op |-> op % 32, rd |-> rd, rs |-> rs, rt |-> rt, imm |-> imm % IMM]

NoWord == build_instruction(0, 0, 0, 0, 0)

\* What encoding one operation comes to: a word, exit(1), or error().
Encoded(w) == [how |-> "ok", w |-> w]
Exit       == [how |-> "exit", w |-> NoWord]
Error      == [how |-> "error", w |-> NoWord]

---------------------------------------------------------------------------
(* One operation *)

\* As if the number of a register were not compared with that of the last one.
isRegisterOfAny(a) == a.k = "reg"

\* parseRegister accepts the operand.
isRegister(a) == a.k = "reg" /\ a.n < NREGS

\* instructionList: at most four operands are split off.
instructionList(args) == SubSeq(args, 1, IF Len(args) < 4 THEN Len(args) ELSE 4)

\* An operand slot of getMovInstruction; one the text does not fill is a fresh
\* buffer, which reads as the literal 0.
slot(args, i) == IF i <= Len(args) THEN args[i] ELSE Lit(0)

\* getMovInstruction.  The kinds of the first two operands choose the opcode; a
\* pair none of the four branches names is encoded as mov r0, (r0)(0).
movMem(op, a, m, rd, rs) ==
  LET imm == toInt(parseLiteral(m.v, m.hex)) IN
  IF ~isRegister(a) \/ m.n >= NREGS THEN Error
  ELSE IF ~checkSigned(imm) THEN Exit
  ELSE Encoded(build_instruction(op, rd, rs, 0, imm))

movLit(op, a, b) ==
  LET imm == toInt(parseLiteral(b.v, b.hex)) IN
  IF ~isRegister(a) THEN Error
  ELSE IF ~checkUnsigned(imm) THEN Exit
  ELSE Encoded(build_instruction(op, a.n, 0, 0, imm))

getMovInstruction(args) ==
  LET a == slot(args, 1)
      b == slot(args, 2)
      op == asmOpcode["mov"]
  IN CASE a.k = "reg" /\ b.k = "mem" -> movMem(op, a, b, a.n, b.n)
       [] a.k = "reg" /\ b.k = "reg" -> IF isRegister(a) /\ isRegister(b)
                                        THEN Encoded(build_instruction(op + 1, a.n, b.n, 0, 0))
                                        ELSE Error
       [] a.k = "reg" /\ b.k = "lit" -> movLit(op + 2, a, b)
       [] a.k = "mem" /\ b.k = "reg" -> movMem(op + 3, b, a, a.n, b.n)
       [] OTHER                      -> Encoded(build_instruction(op, 0, 0, 0, 0))

\* getBrrInstruction reads the start of the whole text: the literal form keeps
\* 64 bits for the range check, and no operand at all is the literal 0.
getBrrInstruction(args) ==
  LET a == slot(args, 1)
      x == toLL(parseLiteral(a.v, a.hex))
      op == asmOpcode["brr"]
  IN CASE a.k = "lit"   -> IF checkSigned(x)
                           THEN Encoded(build_instruction(op + 1, 0, 0, 0, x))
                           ELSE Exit
       [] isRegister(a) -> Encoded(build_instruction(op, a.n, 0, 0, 0))
       [] OTHER         -> Error

\* The general case of getInstruction: exactly arglenth operands, registers up to
\* the first literal.  A literal must come last, must be there when hasLit says
\* so, and must fit the unsigned field; a priv of four registers writes past r[3],
\* which the build answers with the exit of a missing literal.
getPlainInstruction(c, args) ==
  LET a    == instructionList(args)
      lits == {i \in DOMAIN a : a[i].k = "lit"}
      regs == {i \in DOMAIN a : \A j \in lits : i < j}
      r(i) == IF i \in regs THEN a[i].n ELSE 0
      last == Len(a)
      imm  == IF lits = {} THEN 0 ELSE toInt(parseLiteral(a[last].v, a[last].hex))
  IN IF last # arglenth(c) THEN Exit
     ELSE IF \E i \in regs : ~isRegister(a[i]) THEN Error
     ELSE IF lits # (IF hasLit(c) = 1 THEN {last} ELSE {}) \/ ~checkUnsigned(imm) THEN Exit
     ELSE Encoded(build_instruction(asmOpcode[c], r(1), r(2), r(3), imm))

getInstruction(c, args) == CASE c = "mov" -> getMovInstruction(args)
                             [] c = "brr" -> getBrrInstruction(args)
                             [] OTHER     -> getPlainInstruction(c, args)
=============================================================================
