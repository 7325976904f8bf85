----------------------------- MODULE MCAssembler -----------------------------
(***************************************************************************)
(* Small sets of lines for the model checker, one for each question, and   *)
(* what the repository says of the assembler where its code does           *)
(* something else.                                                         *)
(***************************************************************************)
EXTENDS Assembler

\* Layout: both sections, two labels, items of every size, references to them.
LayoutLines ==
  { CodeDir, DataDir, Label(":a"), Label(":b"),
    Op("add", <<Reg(1), Reg(2), Reg(3)>>), Op("push", <<Reg(4)>>),
    Op("ld", <<Reg(5), Lab(":a")>>), Op("br", <<Lab(":b")>>), Number(7) }

\* Operands: every command with its operands in order, and with operands that
\* are missing, too many, of another kind or out of range.
SomeOperands ==
  {Reg(1), Reg(NREGS), Lit(5), Lit(-3), Lit(IMM), Mem(2, -8), Mem(2, IMM), Lab(":a")}

OperandLists ==
  LET one   == {<<a>> : a \in SomeOperands}
      two   == {<<a, b>> : a \in {Reg(1), Mem(2, -8), Lit(5)}, b \in SomeOperands}
      three == {<<Reg(1), a, Reg(3)>> : a \in {Reg(2), Reg(NREGS), Lit(5), Lab(":a")}}
  IN {<<>>} \cup one \cup two \cup three
       \cup {<<Reg(1), Reg(2), Reg(3), Lit(4)>>, <<Reg(1), Reg(2), Reg(3), Reg(4)>>}

OperandLines ==
  {CodeDir, Label(":a"), SpacedLabel, Number(-1), Number(WORD), Op("nop", <<>>)}
    \cup {Op(c, args) : c \in Commands, args \in OperandLists}

---------------------------------------------------------------------------
(* ld *)

\* Numbers at the edges of the chunks and of the 64-bit word, and a label.
LdLines ==
  {CodeDir, Label(":a")}
    \cup {Op("ld", <<Reg(1), a>>) :
            a \in {Lit(v) : v \in {0, 1, LOW - 1, LOW, LOW * IMM - 1, LOW * IMM,
                                   LOW * IMM * IMM + 1, WORD \div 2, WORD - 1, -1, -LOW}}
                  \cup {Hex(LOW * IMM + 1), Lab(":a")}}

\* The 0x numbers from the sign bit of a 64-bit word on.
HexLines == {CodeDir, Op("ld", <<Reg(1), Hex(WORD \div 2)>>)}

---------------------------------------------------------------------------
(* What the repository says and the code does not do *)

\* encode.c answers "Literal out of range" to a literal that does not fit the
\* unsigned 12-bit field.
RangeLines == {CodeDir, Op("addi", <<Reg(1), Lit(IMM)>>), Op("addi", <<Reg(1), Lit(INT + 1)>>)}
OutOfRangeRefused ==
  status = "ok" =>
    \A k \in DOMAIN entries : entries[k].cmd = "addi" =>
      \A n \in DOMAIN entries[k].args :
        entries[k].args[n].k = "lit" => checkUnsigned(entries[k].args[n].v)

\* parse.c, at the case of ':': "save this label as the current address".
TrailingLines == {CodeDir, Label(":a"), Op("halt", <<>>)}
EveryLabelSaved ==
  phase = "expandMacros" =>
    \A k \in DOMAIN entries : entries[k].type = 2 =>
      \E n \in DOMAIN ltable : ltable[n].lbl = entries[k].lbl

\* The same comment: "but don't increment current counter".
LeftoverLines == {CodeDir, Label(":a"), Op("add", <<Reg(1), Reg(2), Reg(3)>>)}
LabelsTakeNoRoom ==
  phase = "printToBinary" => cadd <= HEADER + codeSize
=============================================================================
