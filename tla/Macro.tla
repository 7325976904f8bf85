------------------------------- MODULE Macro -------------------------------
(***************************************************************************)
(* labletable.c and macro.c of the assembler: the label table, and what    *)
(* each macro is rewritten to.  A rewriting that fails calls error();      *)
(* "in" and "out" read registers their text need not supply, so what an    *)
(* operation is rewritten to is a set of outcomes.                         *)
(***************************************************************************)
EXTENDS Encode

CONSTANTS LOW,         \* values of the lowest chunk of ld (16 in the code)
          IMM_BITS,    \* width of the other chunks (12 in the code)
          LOW_BITS     \* width of the lowest chunk (4 in the code)

ASSUME ChunkAssumption == /\ {LOW, IMM_BITS, LOW_BITS} \subseteq Nat
                          /\ 1 <= LOW /\ LOW <= IMM

\* The chunks are as wide as the fields they go through, and one of LOW_BITS and five
\* of IMM_BITS hold every bit of a word (4 + 5 * 12 = 64).
ASSUME LdAssumption ==
  /\ 2^IMM_BITS = IMM /\ 2^LOW_BITS = LOW
  /\ (((((WORD - 1) \div LOW) \div IMM) \div IMM) \div IMM) \div IMM < IMM

---------------------------------------------------------------------------
(* The label table: the labels in the order of their insertion *)

\* insertLabel, once for each name of a sequence.  The table is larger than any
\* script (MAX_LABELS is twice the entries getScript has room for), so the check
\* of its capacity never fires.
insertLabels(names, address, table) ==
  table \o [n \in DOMAIN names |-> [lbl |-> names[n], address |-> address]]

\* As if the search went on to the last entry of that name.
FoundLast(l, table) ==
  {i \in DOMAIN table : /\ table[i].lbl = l
                        /\ \A j \in (i + 1)..Len(table) : table[j].lbl # l}

\* getintAddress: the entry the linear search stops at; none makes it error().
Found(l, table) ==
  {i \in DOMAIN table : /\ table[i].lbl = l
                        /\ \A j \in 1..(i - 1) : table[j].lbl # l}

getintAddress(l, table) == {table[i].address : i \in Found(l, table)}

---------------------------------------------------------------------------
(* The macros *)

Instr(c, args) == [cmd |-> c, args |-> args]

\* The register operands a macro can find in its text: parseRegister refuses
\* every other operand.
registerOf(args, i) == {a \in {slot(args, i)} : isRegister(a)}

\* parseTwoReg leaves the variable of a missing operand uninitialised: any int,
\* of which one stands for all that are no register.
looseRegister(args, i) ==
  IF i <= Len(args) THEN registerOf(args, i) ELSE {Reg(n) : n \in 0..NREGS}

\* expandClr; expandHalt, expandIn and expandOut
xor(rd)          == <<Instr("xor", <<rd, rd, rd>>)>>
priv(rd, rs, op) == <<Instr("priv", <<rd, rs, Reg(0), Lit(op)>>)>>

\* As if pop moved r31 before it loads.
popMovesFirst(rd) == << Instr("addi", <<Reg(31), Lit(8)>>),
                        Instr("mov",  <<rd, Mem(31, 0)>>) >>

\* expandPush and expandPop
push(rd) == << Instr("mov",  <<Mem(31, -8), rd>>),
               Instr("subi", <<Reg(31), Lit(8)>>) >>
pop(rd)  == << Instr("mov",  <<rd, Mem(31, 0)>>),
               Instr("addi", <<Reg(31), Lit(8)>>) >>

\* As if the last chunk were shifted in like the others.
ldEvenChunks(rd, v) ==
  LET q0 == v \div LOW
      q1 == q0 \div IMM
      q2 == q1 \div IMM
      q3 == q2 \div IMM
      q4 == q3 \div IMM
      add(chunk)  == Instr("addi", <<rd, Lit(chunk)>>)
      shift(bits) == Instr("shftli", <<rd, Lit(bits)>>)
  IN << Instr("xor", <<rd, rd, rd>>),
        add(q4 % IMM), shift(IMM_BITS), add(q3 % IMM), shift(IMM_BITS),
        add(q2 % IMM), shift(IMM_BITS), add(q1 % IMM), shift(IMM_BITS),
        add(q0 % IMM), shift(IMM_BITS), add(v % LOW) >>

\* expandLd: clear the register, then shift the value in, chunk by chunk.
ld(rd, v) ==
  LET q0 == v \div LOW
      q1 == q0 \div IMM
      q2 == q1 \div IMM
      q3 == q2 \div IMM
      q4 == q3 \div IMM
      add(chunk)  == Instr("addi", <<rd, Lit(chunk)>>)
      shift(bits) == Instr("shftli", <<rd, Lit(bits)>>)
  IN << Instr("xor", <<rd, rd, rd>>),
        add(q4 % IMM), shift(IMM_BITS),
        add(q3 % IMM), shift(IMM_BITS),
        add(q2 % IMM), shift(IMM_BITS),
        add(q1 % IMM), shift(IMM_BITS),
        add(q0 % IMM), shift(LOW_BITS),
        add(v % LOW) >>

\* The value of the operand of ld: everything after the first comma, a label or
\* else a number; text that is no number reads as 0.
ldValue(args, table) ==
  LET a == slot(args, 2) IN
  CASE a.k = "lab" -> IF Len(args) = 2 THEN getintAddress(a.l, table) ELSE {}
    [] a.k = "lit" -> {parseLiteral(a.v, a.hex)}
    [] OTHER       -> {0}

\* The rewritings of a macro; the empty set is error().
expandMacro(c, args, table) ==
  CASE c = "clr"  -> {xor(rd) : rd \in registerOf(args, 1)}
    [] c = "halt" -> {priv(Reg(0), Reg(0), 0)}
    [] c = "in"   -> {priv(rd, rs, 3) : rd \in looseRegister(args, 1),
                                        rs \in looseRegister(args, 2)}
    [] c = "out"  -> {priv(rd, rs, 4) : rd \in looseRegister(args, 1),
                                        rs \in looseRegister(args, 2)}
    [] c = "push" -> {push(rd) : rd \in registerOf(args, 1)}
    [] c = "pop"  -> {pop(rd) : rd \in registerOf(args, 1)}
    [] c = "ld"   -> IF Len(args) < 2 THEN {}
                     ELSE {ld(rd, v) : rd \in registerOf(args, 1), v \in ldValue(args, table)}
    [] OTHER      -> {<<Instr(c, args)>>}

---------------------------------------------------------------------------
(* Labels that are left after the macros are gone *)

\* replaceLabels cuts a label operand from its ':' to the next space, so only
\* one that ends the text is looked up under its own name.
isLabelArg(a)  == a.l # NoLabel
labelArgs(args) == {n \in DOMAIN args : isLabelArg(args[n])}

\* The operands with the last one replaced by a number.
withLast(args, v) == [args EXCEPT ![Len(args)] = Lit(v)]

\* The operands without labels; the empty set is error().
replaceLabel(args, table) ==
  CASE labelArgs(args) = {} -> {args}
    [] labelArgs(args) = {Len(args)} /\ args[Len(args)].k = "lab" ->
         {withLast(args, a) : a \in getintAddress(args[Len(args)].l, table)}
    [] OTHER -> {}
=============================================================================
