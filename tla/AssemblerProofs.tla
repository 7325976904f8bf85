--------------------------- MODULE AssemblerProofs ---------------------------
(***************************************************************************)
(* For every script and every width: the variables keep their types, the   *)
(* two passes agree, the image is written whole, and every label names an  *)
(* item of it.  The lemmas come in the order of the code: operands and     *)
(* macros, entries, then one lemma per loop.                               *)
(***************************************************************************)
EXTENDS Assembler, TLAPS

---------------------------------------------------------------------------
(* Arithmetic, and the operands of the macros *)

\* A remainder is below its divisor.
LEMMA ModRange == ASSUME NEW a \in Int, NEW b \in Nat \ {0} PROVE a % b \in 0..(b - 1)
  OBVIOUS

\* A quotient of naturals is a natural.
LEMMA DivNat == ASSUME NEW a \in Nat, NEW b \in Nat \ {0} PROVE a \div b \in Nat
  OBVIOUS

\* The commands that expansions, and zeroed entries, are made of.
LEMMA CommandsUsed == {"add", "xor", "priv", "mov", "subi", "addi", "shftli"} \subseteq Commands
  BY DEF Commands, asmOpcode

\* The operands that expansions build.
LEMMA OperandTypes ==
  /\ \A n \in Nat : Reg(n) \in Operand
  /\ \A v \in Int : Lit(v) \in Operand
  /\ \A n \in Nat, v \in Int : Mem(n, v) \in Operand
  BY LabelsAssumption DEF Reg, Lit, Mem, Operand, OperandKinds

\* An instruction of an expansion.
LEMMA InstrType ==
  ASSUME NEW c \in Commands, NEW args \in Seq(Operand)
  PROVE  Instr(c, args) \in Operation
  BY DEF Instr, Operation

\* The registers parseRegister accepts, or leaves uninitialised, are operands.
LEMMA RegisterType ==
  ASSUME NEW args \in Seq(Operand), NEW n \in {1, 2}
  PROVE  registerOf(args, n) \subseteq Operand /\ looseRegister(args, n) \subseteq Operand
<1>1. slot(args, n) \in Operand
  BY OperandTypes DEF slot
<1>2. registerOf(args, n) \subseteq Operand
  BY <1>1 DEF registerOf
<1>3. {Reg(m) : m \in 0..NREGS} \subseteq Operand
  <2>1. 0..NREGS \subseteq Nat
    BY DEF NREGS
  <2>2. \A m \in 0..NREGS : Reg(m) \in Operand
    BY <2>1, OperandTypes
  <2> QED
    BY <2>2, Zenon
<1> QED
  BY <1>2, <1>3 DEF looseRegister

\* parseLiteral never returns a negative number.
LEMMA LiteralType ==
  ASSUME NEW v \in Int, NEW hex \in BOOLEAN
  PROVE  parseLiteral(v, hex) \in Nat
<1>1. WORD \in Nat /\ WORD > 1
  BY WidthAssumption
<1>2. v % WORD \in Nat /\ WORD \div 2 \in Nat
  BY <1>1, ModRange, DivNat
<1> QED
  BY <1>1, <1>2 DEF parseLiteral

\* push and pop are two instructions each.
LEMMA PushPopType ==
  ASSUME NEW rd \in Operand
  PROVE  /\ push(rd) \in Seq(Operation) /\ Len(push(rd)) = 2
         /\ pop(rd) \in Seq(Operation) /\ Len(pop(rd)) = 2
<1> DEFINE stackTop == Mem(31, 0)
           below == Mem(31, -8)
           sp == Reg(31)
           eight == Lit(8)
<1>1. {stackTop, below, sp, eight} \subseteq Operand
  BY OperandTypes
<1> HIDE DEF stackTop, below, sp, eight
<1>2. /\ <<below, rd>> \in Seq(Operand) /\ <<rd, stackTop>> \in Seq(Operand)
      /\ <<sp, eight>> \in Seq(Operand)
  BY <1>1
<1>3. /\ Instr("mov", <<below, rd>>) \in Operation
      /\ Instr("mov", <<rd, stackTop>>) \in Operation
      /\ Instr("subi", <<sp, eight>>) \in Operation
      /\ Instr("addi", <<sp, eight>>) \in Operation
  BY <1>2, InstrType, CommandsUsed
<1> QED
  BY <1>3 DEF push, pop, stackTop, below, sp, eight

\* ld is twelve instructions, whatever its value.
LEMMA LdType ==
  ASSUME NEW rd \in Operand, NEW v \in Nat
  PROVE  ld(rd, v) \in Seq(Operation) /\ Len(ld(rd, v)) = 12
<1> DEFINE q0 == v \div LOW
           q1 == q0 \div IMM
           q2 == q1 \div IMM
           q3 == q2 \div IMM
           q4 == q3 \div IMM
           add(chunk)  == Instr("addi", <<rd, Lit(chunk)>>)
           shift(bits) == Instr("shftli", <<rd, Lit(bits)>>)
           clear == Instr("xor", <<rd, rd, rd>>)
<1>1. LOW \in Nat \ {0} /\ IMM \in Nat \ {0} /\ IMM_BITS \in Nat /\ LOW_BITS \in Nat
  BY WidthAssumption, ChunkAssumption
<1>2. q0 \in Nat /\ q1 \in Nat /\ q2 \in Nat /\ q3 \in Nat /\ q4 \in Nat
  <2>1. q0 \in Nat BY <1>1, DivNat
  <2>2. q1 \in Nat BY <1>1, <2>1, DivNat
  <2>3. q2 \in Nat BY <1>1, <2>2, DivNat
  <2>4. q3 \in Nat BY <1>1, <2>3, DivNat
  <2>5. q4 \in Nat BY <1>1, <2>4, DivNat
  <2> QED BY <2>1, <2>2, <2>3, <2>4, <2>5
<1> HIDE DEF q0, q1, q2, q3, q4
<1>3. \A m \in Int : add(m) \in Operation /\ shift(m) \in Operation
  <2> SUFFICES ASSUME NEW m \in Int PROVE add(m) \in Operation /\ shift(m) \in Operation
    OBVIOUS
  <2>1. <<rd, Lit(m)>> \in Seq(Operand)
    BY OperandTypes
  <2> QED
    BY <2>1, InstrType, CommandsUsed
<1>4. clear \in Operation
  <2>1. <<rd, rd, rd>> \in Seq(Operand)
    OBVIOUS
  <2> QED
    BY <2>1, InstrType, CommandsUsed
<1>5. /\ q4 % IMM \in Int /\ q3 % IMM \in Int /\ q2 % IMM \in Int
      /\ q1 % IMM \in Int /\ q0 % IMM \in Int /\ v % LOW \in Int
  BY <1>1, <1>2, ModRange
<1> HIDE DEF add, shift, clear
<1>6. ld(rd, v) = << clear, add(q4 % IMM), shift(IMM_BITS),
                     add(q3 % IMM), shift(IMM_BITS), add(q2 % IMM), shift(IMM_BITS),
                     add(q1 % IMM), shift(IMM_BITS), add(q0 % IMM), shift(LOW_BITS),
                     add(v % LOW) >>
  BY DEF ld, clear, add, shift, q0, q1, q2, q3, q4
<1> QED
  BY <1>1, <1>3, <1>4, <1>5, <1>6

\* getintAddress returns an address of the table.
LEMMA AddressType ==
  ASSUME NEW table \in Seq(LabelRow), NEW l
  PROVE  getintAddress(l, table) \subseteq Nat
<1>1. \A m \in DOMAIN table : table[m].address \in Nat
  <2>1. \A m \in DOMAIN table : table[m] \in LabelRow
    OBVIOUS
  <2> QED
    BY <2>1 DEF LabelRow
<1>2. Found(l, table) \subseteq DOMAIN table
  BY DEF Found
<1>3. SUFFICES ASSUME NEW a \in getintAddress(l, table) PROVE a \in Nat
  BY Zenon
<1>4. PICK m \in Found(l, table) : a = table[m].address
  BY Zenon DEF getintAddress
<1> QED
  BY <1>1, <1>2, <1>4

\* The value of the operand of ld.
LEMMA LdValueType ==
  ASSUME NEW args \in Seq(Operand), NEW table \in Seq(LabelRow)
  PROVE  ldValue(args, table) \subseteq Nat
<1>1. slot(args, 2) \in Operand
  BY OperandTypes DEF slot
<1>2. slot(args, 2).v \in Int /\ slot(args, 2).hex \in BOOLEAN
  BY <1>1 DEF Operand
<1>3. parseLiteral(slot(args, 2).v, slot(args, 2).hex) \in Nat
  BY <1>2, LiteralType
<1>4. getintAddress(slot(args, 2).l, table) \subseteq Nat
  BY AddressType
<1> QED
  BY <1>3, <1>4 DEF ldValue

\* Every macro is rewritten to as many instructions as the column cnt says.
LEMMA ExpansionType ==
  ASSUME NEW c \in Commands, NEW args \in Seq(Operand), NEW table \in Seq(LabelRow),
         NEW x \in expandMacro(c, args, table)
  PROVE  x \in Seq(Operation) /\ Len(x) = cnt(c)
<1> DEFINE R1 == registerOf(args, 1)
           L1 == looseRegister(args, 1)
           L2 == looseRegister(args, 2)
           V  == ldValue(args, table)
<1>1. R1 \subseteq Operand /\ L1 \subseteq Operand /\ L2 \subseteq Operand
  BY RegisterType
<1>2. V \subseteq Nat
  BY LdValueType
<1>3. \A rd \in Operand :
        xor(rd) \in Seq(Operation) /\ Len(xor(rd)) = 1
  <2> SUFFICES ASSUME NEW rd \in Operand
               PROVE xor(rd) \in Seq(Operation) /\ Len(xor(rd)) = 1
    OBVIOUS
  <2>1. <<rd, rd, rd>> \in Seq(Operand)
    OBVIOUS
  <2>2. Instr("xor", <<rd, rd, rd>>) \in Operation
    BY <2>1, InstrType, CommandsUsed
  <2> QED
    BY <2>2 DEF xor
<1>4. \A rd, rs \in Operand, v \in Int :
        priv(rd, rs, v) \in Seq(Operation) /\ Len(priv(rd, rs, v)) = 1
  <2> SUFFICES ASSUME NEW rd \in Operand, NEW rs \in Operand, NEW v \in Int
               PROVE priv(rd, rs, v) \in Seq(Operation) /\ Len(priv(rd, rs, v)) = 1
    OBVIOUS
  <2>1. <<rd, rs, Reg(0), Lit(v)>> \in Seq(Operand)
    BY OperandTypes
  <2>2. Instr("priv", <<rd, rs, Reg(0), Lit(v)>>) \in Operation
    BY <2>1, InstrType, CommandsUsed
  <2> QED
    BY <2>2 DEF priv
<1> HIDE DEF R1, L1, L2, V
<1>5. CASE c = "clr"
  <2>1. PICK rd \in R1 : x = xor(rd)
    BY <1>5 DEF expandMacro, R1
  <2> QED
    BY <2>1, <1>1, <1>3, <1>5 DEF cnt
<1>6. CASE c = "halt"
  <2>1. x = priv(Reg(0), Reg(0), 0)
    BY <1>6 DEF expandMacro
  <2> QED
    BY <2>1, <1>4, <1>6, OperandTypes DEF cnt
<1>7. CASE c = "in"
  <2>1. PICK rd \in L1, rs \in L2 : x = priv(rd, rs, 3)
    BY <1>7 DEF expandMacro, L1, L2
  <2> QED
    BY <2>1, <1>1, <1>4, <1>7 DEF cnt
<1>8. CASE c = "out"
  <2>1. PICK rd \in L1, rs \in L2 : x = priv(rd, rs, 4)
    BY <1>8 DEF expandMacro, L1, L2
  <2> QED
    BY <2>1, <1>1, <1>4, <1>8 DEF cnt
<1>9. CASE c = "push"
  <2>1. PICK rd \in R1 : x = push(rd)
    BY <1>9 DEF expandMacro, R1
  <2> QED
    BY <2>1, <1>1, <1>9, PushPopType DEF cnt
<1>10. CASE c = "pop"
  <2>1. PICK rd \in R1 : x = pop(rd)
    BY <1>10 DEF expandMacro, R1
  <2> QED
    BY <2>1, <1>1, <1>10, PushPopType DEF cnt
<1>11. CASE c = "ld"
  <2>1. PICK rd \in R1, v \in V : x = ld(rd, v)
    BY <1>11 DEF expandMacro, R1, V
  <2> QED
    BY <2>1, <1>1, <1>2, <1>11, LdType DEF cnt
<1>12. CASE c \notin Macros
  <2>1. x = <<Instr(c, args)>>
    BY <1>12 DEF expandMacro, Macros
  <2> QED
    BY <2>1, <1>12, InstrType DEF cnt, Macros
<1> QED
  BY <1>5, <1>6, <1>7, <1>8, <1>9, <1>10, <1>11, <1>12 DEF Macros

\* replaceLabels leaves operands.
LEMMA ReplaceType ==
  ASSUME NEW args \in Seq(Operand), NEW table \in Seq(LabelRow),
         NEW x \in replaceLabel(args, table)
  PROVE  x \in Seq(Operand)
<1> DEFINE n == Len(args)
           A == getintAddress(args[n].l, table)
<1>1. A \subseteq Nat
  BY AddressType
<1>2. \A v \in Nat : n \in DOMAIN args => withLast(args, v) \in Seq(Operand)
  BY OperandTypes DEF withLast
<1>3. CASE labelArgs(args) = {}
  BY <1>3 DEF replaceLabel
<1>4. CASE labelArgs(args) # {}
  <2>1. PICK a \in A : x = withLast(args, a)
    BY <1>4 DEF replaceLabel
  <2>2. labelArgs(args) = {n}
    BY <1>4 DEF replaceLabel
  <2>3. n \in DOMAIN args
    BY <2>2 DEF labelArgs
  <2> QED
    BY <2>1, <2>3, <1>1, <1>2
<1> QED
  BY <1>3, <1>4
---------------------------------------------------------------------------
\* The entries getScript makes.
LEMMA EntryTypes ==
  /\ \A c \in Commands, args \in Seq(Operand) : instrEntry(c, args) \in Entry
  /\ \A v \in Nat : dataEntry(v) \in Entry
  /\ \A l \in Labels, w \in Wild : labelEntry(l, w) \in Entry
  /\ \A m \in 0..1, w \in Wild : dirEntry(m, w) \in Entry
<1>1. "add" \in Commands /\ << >> \in Seq(Operand)
  BY CommandsUsed
<1> QED
  BY <1>1, LabelsAssumption
  DEF Entry, EntryOf, instrEntry, dataEntry, labelEntry, dirEntry, Types, Wild

\* An entry is rewritten to instructions, as many as the first pass reserved, or stays.
LEMMA RewritingType ==
  ASSUME ltable \in Seq(LabelRow), NEW e \in Entry, NEW new \in rewritings(e)
  PROVE  /\ new \in Seq(Entry)
         /\ e.type = 0 => Len(new) = cnt(e.cmd) /\ \A n \in DOMAIN new : new[n].type = 0
         /\ e.type # 0 /\ e.wild # "bang" => new = <<e>>
<1>1. \A x \in Seq(Operation) : /\ instrEntries(x) \in Seq(Entry)
                               /\ Len(instrEntries(x)) = Len(x)
                               /\ \A n \in DOMAIN x : instrEntries(x)[n].type = 0
  <2> SUFFICES ASSUME NEW x \in Seq(Operation)
               PROVE  /\ instrEntries(x) \in Seq(Entry)
                      /\ Len(instrEntries(x)) = Len(x)
                      /\ \A n \in DOMAIN x : instrEntries(x)[n].type = 0
    OBVIOUS
  <2>1. \A n \in DOMAIN x : x[n].cmd \in Commands /\ x[n].args \in Seq(Operand)
    <3>1. \A n \in DOMAIN x : x[n] \in Operation
      OBVIOUS
    <3> QED
      BY <3>1 DEF Operation
  <2>2. \A n \in DOMAIN x : /\ instrEntry(x[n].cmd, x[n].args) \in Entry
                            /\ instrEntry(x[n].cmd, x[n].args).type = 0
    BY <2>1, EntryTypes DEF instrEntry, EntryOf
  <2> QED
    BY <2>2 DEF instrEntries
<1>2. CASE e.type = 0
  <2>1. PICK x \in expandMacro(e.cmd, e.args, ltable) : new = instrEntries(x)
    BY <1>2 DEF rewritings
  <2>2. e.cmd \in Commands /\ e.args \in Seq(Operand)
    BY DEF Entry
  <2>3. x \in Seq(Operation) /\ Len(x) = cnt(e.cmd)
    BY <2>2, ExpansionType
  <2> QED
    BY <2>1, <2>3, <1>1, <1>2
<1>3. CASE e.type # 0 /\ e.wild = "bang"
  <2>1. PICK x \in expandMacro("halt", << >>, ltable) : new = instrEntries(x)
    BY <1>3 DEF rewritings
  <2>2. "halt" \in Commands /\ << >> \in Seq(Operand)
    BY DEF Commands, asmOpcode
  <2>3. x \in Seq(Operation)
    BY <2>2, ExpansionType
  <2> QED
    BY <2>1, <2>3, <1>1, <1>3
<1>4. CASE e.type # 0 /\ e.wild # "bang"
  <2>1. rewritings(e) = {<<e>>}
    BY <1>4, Zenon DEF rewritings
  <2>2. new = <<e>>
    BY <2>1
  <2> QED
    BY <2>2, <1>4
<1> QED
  BY <1>2, <1>3, <1>4
---------------------------------------------------------------------------
(* Types and the first pass *)

\* The initial state.
LEMMA TypeInit == Init => TypeOK /\ PassOne
  BY LayoutAssumption
  DEF Init, TypeOK, PassOne, ReachedByPassOne, Sizes, Wild, LabelRow, codeBytes, dataBytes, Inside

\* A run that ends early changes only its status and the files.
LEMMA TypeExit ==
  ASSUME TypeOK, PassOne,
         UNCHANGED <<progVars, scriptVars, passVars, expandVars, printVars>>,
         status' \in {"failed", "crashed"},
         argv2' \in {argv2, "none"}, argv3' \in {argv3, "none"}
  PROVE  TypeOK' /\ PassOne'
<1>1. TypeOK'
  BY DEF TypeOK, progVars, scriptVars, passVars, expandVars, printVars
<1>2. PassOne'
  BY DEF PassOne, ReachedByPassOne, progVars, scriptVars, passVars, codeBytes, dataBytes, Inside
<1> QED
  BY <1>1, <1>2

\* So does a step of a later phase to its own variables.
LEMMA PassOneKept ==
  ASSUME TypeOK, PassOne, UNCHANGED <<entries, passVars>>,
         phase \notin {"getScript", "fillLabelTable"},
         phase' \notin {"getScript", "fillLabelTable"}
  PROVE  PassOne'
  BY DEF TypeOK, PassOne, ReachedByPassOne, passVars, codeBytes, dataBytes, Inside

\* A line that is kept adds one entry, and the first pass has not begun.
LEMMA TypeSave ==
  ASSUME TypeOK, PassOne, Running("getScript"), NEW e \in Entry, Save(e),
         mode' \in -1..1, stale' \in Wild
  PROVE  TypeOK' /\ PassOne'
<1>1. entries' \in Seq(Entry) /\ Len(entries') = Len(entries) + 1
  BY DEF Save, TypeOK
<1>2. labelbuf' \in Seq(1..Len(entries'))
  BY <1>1 DEF Save, TypeOK, passVars
<1>3. TypeOK'
  BY <1>1, <1>2 DEF Save, TypeOK, progVars, passVars, expandVars, printVars, files
<1>4. PassOne'
  <2>1. Len(before) = 1 /\ ReachedByPassOne' = 1
    BY DEF Save, Running, PassOne, ReachedByPassOne, progVars
  <2>2. /\ before' = before /\ codeSize' = codeSize /\ dataSize' = dataSize
        /\ caddress' = caddress /\ daddress' = daddress
    BY DEF Save, passVars
  <2>3. Len(entries) \in Nat
    BY DEF TypeOK
  <2>4. Len(before') = 1
    BY <2>1, <2>2
  <2>5. Len(before') = ReachedByPassOne'
    BY <2>1, <2>4
  <2>6. Len(before') <= Len(entries') + 1
    BY <2>4, <2>3, <1>1
  <2>7. \A k \in 1..(Len(before') - 1) : FALSE
    BY <2>4
  <2> QED
    BY <2>2, <2>5, <2>6, <2>7 DEF PassOne, Inside
<1> QED
  BY <1>3, <1>4

\* Every line getScript reads.
LEMMA TypeReading ==
  ASSUME TypeOK, PassOne, Reading
  PROVE  TypeOK' /\ PassOne'
<1>1. CASE NoScript
  BY <1>1, TypeExit DEF NoScript, Crash, files
<1>2. ASSUME NEW ln \in Lines, ReadDirective(ln) PROVE TypeOK' /\ PassOne'
  <2>1. mode' \in 0..1 /\ stale \in Wild /\ stale' \in Wild
    BY <1>2 DEF ReadDirective, TypeOK, Wild
  <2>2. dirEntry(mode', stale) \in Entry
    BY <2>1, EntryTypes
  <2> QED
    BY <1>2, <2>1, <2>2, TypeSave DEF ReadDirective
<1>3. ASSUME NEW ln \in Lines, ReadLabel(ln) PROVE TypeOK' /\ PassOne'
  <2>1. CASE ln.kind = "spaced" /\ Exit1
    BY <2>1, TypeExit DEF Exit1, files
  <2>2. CASE ln.kind = "label" /\ stale' = "none" /\ Save(labelEntry(ln.lbl, stale)) /\ UNCHANGED mode
    <3>1. mode' \in -1..1 /\ stale \in Wild /\ stale' \in Wild /\ ln.lbl \in Labels
      BY <2>2, LinesAssumption DEF TypeOK, Wild
    <3>2. labelEntry(ln.lbl, stale) \in Entry
      BY <3>1, EntryTypes
    <3> QED
      BY <1>3, <2>2, <3>1, <3>2, TypeSave DEF ReadLabel
  <2> QED
    BY <1>3, <2>1, <2>2 DEF ReadLabel
<1>4. ASSUME NEW ln \in Lines, ReadData(ln) PROVE TypeOK' /\ PassOne'
  <2>1. CASE Exit1
    BY <2>1, TypeExit DEF Exit1, files
  <2>2. CASE /\ ln.val \in 0..(WORD - 1) /\ stale' = "none"
             /\ Save(dataEntry(ln.val)) /\ UNCHANGED mode
    <3>1. mode' \in -1..1 /\ stale' \in Wild /\ ln.val \in Nat
      BY <2>2, WidthAssumption DEF TypeOK, Wild
    <3>2. dataEntry(ln.val) \in Entry
      BY <3>1, EntryTypes
    <3> QED
      BY <1>4, <2>2, <3>1, <3>2, TypeSave DEF ReadData
  <2> QED
    BY <1>4, <2>1, <2>2 DEF ReadData
<1>5. ASSUME NEW ln \in Lines, ReadInstr(ln) PROVE TypeOK' /\ PassOne'
  <2>1. CASE Exit1
    BY <2>1, TypeExit DEF Exit1, files
  <2>2. CASE /\ ln.cmd \in Commands /\ stale' \in {"none"} \cup StaleTexts
             /\ Save(instrEntry(ln.cmd, ln.args)) /\ UNCHANGED mode
    <3>1. mode' \in -1..1 /\ stale' \in Wild /\ ln.args \in Seq(Operand)
      BY <2>2, LinesAssumption, StaleAssumption DEF TypeOK, Wild
    <3>2. instrEntry(ln.cmd, ln.args) \in Entry
      BY <2>2, <3>1, EntryTypes
    <3> QED
      BY <1>5, <2>2, <3>1, <3>2, TypeSave DEF ReadInstr
  <2> QED
    BY <1>5, <2>1, <2>2 DEF ReadInstr
<1>6. CASE EndOfFile
  <2>1. TypeOK'
    BY <1>6 DEF EndOfFile, Goto, Running, TypeOK, scriptVars, passVars, expandVars, printVars, files
  <2>2. PassOne'
    BY <1>6 DEF EndOfFile, Goto, Running, PassOne, ReachedByPassOne, scriptVars, passVars,
                codeBytes, dataBytes, Inside
  <2> QED
    BY <2>1, <2>2
<1> QED
  BY <1>1, <1>2, <1>3, <1>4, <1>5, <1>6 DEF Reading

\* Sums of multiples of 4, or of 8.
LEMMA MultiplesAdd ==
  ASSUME NEW a \in Nat
  PROVE  /\ a % 4 = 0 => \A b \in {0, 4, 8, 48} : (a + b) % 4 = 0
         /\ a % 8 = 0 => \A b \in {0, 8} : (a + b) % 8 = 0
  OBVIOUS

\* A bound holds on when what it bounds by grows.
LEMMA Grows ==
  ASSUME NEW a \in Nat, NEW b \in Nat, a <= b, NEW c \in Nat
  PROVE  a <= b + c
  OBVIOUS

\* The bytes an entry may take.
LEMMA EntryBytes ==
  ASSUME NEW e
  PROVE  codeBytes(e) \in {0, 4, 8, 48} /\ dataBytes(e) \in {0, 8}
<1>1. cnt(e.cmd) \in {1, 2, 12}
  BY DEF cnt
<1>2. codeBytes(e) = 0 \/ codeBytes(e) = 4 * cnt(e.cmd)
  BY DEF codeBytes
<1>3. codeBytes(e) \in {0, 4, 8, 48}
  BY <1>1, <1>2
<1>4. dataBytes(e) \in {0, 8}
  BY DEF dataBytes
<1> QED
  BY <1>3, <1>4

\* One iteration of fillLabelTable, whatever the entry: the sizes grow by the c and d
\* bytes of the entry, and the labels that waited are inserted or wait on.
filled(c, d) ==
  /\ FillStep /\ Recorded
  /\ c = codeBytes(entries[i]) /\ d = dataBytes(entries[i])
  /\ codeSize' = codeSize + c /\ dataSize' = dataSize + d
  /\ caddress' = caddress + c /\ daddress' = daddress + d
  /\ labelbuf' \in Seq(1..Len(entries)) /\ ltable' \in Seq(LabelRow)
  /\ UNCHANGED <<status, scriptVars, expandVars, printVars, files>>

\* Such an iteration keeps the types and the sums.
LEMMA TypeFill ==
  ASSUME TypeOK, PassOne, NEW c \in {0, 4, 8, 48}, NEW d \in {0, 8}, filled(c, d)
  PROVE  TypeOK' /\ PassOne'
<1>1. i \in 1..Len(entries) /\ i' = i + 1 /\ phase = "fillLabelTable" /\ phase' = phase
  <2>1. entries \in Seq(Entry) /\ i \in DOMAIN entries
    BY DEF TypeOK, filled, FillStep, AtEntry
  <2>2. i' = i + 1 /\ phase = "fillLabelTable" /\ phase' = phase
    BY DEF filled, FillStep, NextEntry, Running
  <2> QED
    BY <2>1, <2>2
<1>3. /\ codeSize \in Nat /\ dataSize \in Nat /\ caddress \in Nat /\ daddress \in Nat
      /\ entries' = entries /\ before \in Seq(Sizes)
  BY DEF TypeOK, scriptVars, filled
<1>4. /\ codeSize' = codeSize + c /\ dataSize' = dataSize + d
      /\ caddress' = caddress + c /\ daddress' = daddress + d
  BY DEF filled
<1>5. /\ codeSize' \in Nat /\ dataSize' \in Nat /\ caddress' \in Nat /\ daddress' \in Nat
  BY <1>3, <1>4
<1>6. /\ before' = Append(before, [code |-> codeSize', data |-> dataSize'])
      /\ [code |-> codeSize', data |-> dataSize'] \in Sizes
  BY <1>5 DEF Recorded, Sizes, filled
<1>7. before' \in Seq(Sizes) /\ Len(before') = Len(before) + 1
  BY <1>3, <1>6
<1>8. TypeOK'
  <2>1. /\ phase' = phase /\ i' \in Nat \ {0} /\ labelbuf' \in Seq(1..Len(entries'))
        /\ ltable' \in Seq(LabelRow)
    BY <1>1, <1>3 DEF filled
  <2> QED
    BY <2>1, <1>5, <1>7 DEF filled, TypeOK, scriptVars, expandVars, printVars, files
<1>9. Len(before) = i /\ before[i] = [code |-> codeSize, data |-> dataSize]
  BY <1>1 DEF PassOne, ReachedByPassOne
<1>10. PassOne'
  <2>1. Len(before') = ReachedByPassOne' /\ Len(before') <= Len(entries') + 1
    BY <1>1, <1>3, <1>7, <1>9 DEF ReachedByPassOne
  <2>2. \A k \in 1..i : before'[k] = before[k]
    BY <1>3, <1>6, <1>9
  <2>3. before'[i + 1] = [code |-> codeSize', data |-> dataSize']
    BY <1>3, <1>6, <1>9
  <2>4. before'[1] = [code |-> 0, data |-> 0]
    BY <2>2, <1>1 DEF PassOne
  <2>5. before'[Len(before')] = [code |-> codeSize', data |-> dataSize']
    BY <2>3, <1>7, <1>9
  <2>6. ASSUME NEW k \in 1..(Len(before') - 1)
        PROVE  before'[k + 1] = [code |-> before'[k].code + codeBytes(entries'[k]),
                                 data |-> before'[k].data + dataBytes(entries'[k])]
    <3>1. CASE k = i
      <4>1. before'[k].code = codeSize /\ before'[k].data = dataSize
        BY <3>1, <2>2, <1>1, <1>9
      <4>2. codeBytes(entries'[k]) = c /\ dataBytes(entries'[k]) = d
        BY <3>1, <1>3 DEF filled
      <4>3. before'[k + 1] = [code |-> codeSize + c, data |-> dataSize + d]
        BY <3>1, <2>3, <1>4
      <4> QED
        BY <4>1, <4>2, <4>3
    <3>2. CASE k # i
      <4>1. k \in 1..(Len(before) - 1) /\ k \in 1..i /\ k + 1 \in 1..i
        BY <3>2, <1>1, <1>7, <1>9
      <4>2. before[k + 1] = [code |-> before[k].code + codeBytes(entries[k]),
                             data |-> before[k].data + dataBytes(entries[k])]
        BY <4>1 DEF PassOne
      <4> QED
        BY <4>1, <4>2, <2>2, <1>3
    <3> QED
      BY <3>1, <3>2
  <2>7. codeSize % 4 = 0 /\ dataSize % 8 = 0
    <3>1. i \in DOMAIN before
      BY <1>1, <1>3, <1>9
    <3>2. Inside(before[i])
      BY <3>1 DEF PassOne
    <3> QED
      BY <3>2, <1>9 DEF Inside
  <2>8. codeSize' % 4 = 0 /\ dataSize' % 8 = 0
    BY <2>7, <1>3, <1>4, MultiplesAdd
  <2>9. ASSUME NEW k \in DOMAIN before' PROVE Inside(before[k])'
    <3>1. CASE k = i + 1
      <4>1. before'[k].code = codeSize' /\ before'[k].data = dataSize'
        BY <3>1, <2>3
      <4>2. before'[k].code <= codeSize' /\ before'[k].data <= dataSize'
        BY <4>1, <1>5
      <4>3. before'[k].code % 4 = 0 /\ before'[k].data % 8 = 0
        BY <4>1, <2>8
      <4> QED
        BY <4>2, <4>3 DEF Inside
    <3>2. CASE k # i + 1
      <4>1. k \in 1..i
        BY <3>2, <1>1, <1>7, <1>9
      <4>2. k \in DOMAIN before /\ before[k] \in Sizes
        BY <4>1, <1>3, <1>9
      <4>3. /\ before[k].code \in Nat /\ before[k].data \in Nat /\ Inside(before[k])
        BY <4>2 DEF PassOne, Sizes
      <4>4. before'[k] = before[k]
        BY <4>1, <2>2
      <4>5. before[k].code <= codeSize + c /\ before[k].data <= dataSize + d
        BY <4>3, <1>3, Grows DEF Inside
      <4>6. /\ before'[k].code <= codeSize' /\ before'[k].data <= dataSize'
        BY <4>4, <4>5, <1>4
      <4>7. before'[k].code % 4 = 0 /\ before'[k].data % 8 = 0
        BY <4>3, <4>4 DEF Inside
      <4> QED
        BY <4>6, <4>7 DEF Inside
    <3> QED
      BY <3>1, <3>2
  <2>10. caddress' = CODE_BASE + codeSize' /\ daddress' = DATA_BASE + dataSize'
    <3>1. caddress = CODE_BASE + codeSize /\ daddress = DATA_BASE + dataSize
      BY DEF PassOne
    <3> QED
      BY <3>1, <1>3, <1>4, LayoutAssumption
  <2> QED
    BY <2>1, <2>4, <2>5, <2>6, <2>9, <2>10 DEF PassOne
<1> QED
  BY <1>8, <1>10

\* The names of the labels that wait, and the table with them.
LEMMA WaitingType ==
  ASSUME TypeOK
  PROVE  waiting \in Seq(Labels)
<1>1. entries \in Seq(Entry) /\ labelbuf \in Seq(1..Len(entries))
  BY DEF TypeOK
<1>2. \A k \in 1..Len(entries) : entries[k].lbl \in Labels
  <2>1. \A k \in 1..Len(entries) : entries[k] \in Entry
    BY <1>1
  <2> QED
    BY <2>1 DEF Entry
<1>3. \A n \in 1..Len(labelbuf) : labelbuf[Len(labelbuf) + 1 - n] \in 1..Len(entries)
  BY <1>1
<1>4. \A n \in 1..Len(labelbuf) : entries[labelbuf[Len(labelbuf) + 1 - n]].lbl \in Labels
  BY <1>2, <1>3
<1>5. DOMAIN labelbuf = 1..Len(labelbuf) /\ Len(labelbuf) \in Nat
  BY <1>1
<1> QED
  BY <1>4, <1>5 DEF waiting

\* Append keeps the type of a sequence.
LEMMA AppendType ==
  ASSUME NEW S, NEW s \in Seq(S), NEW x \in S
  PROVE  Append(s, x) \in Seq(S)
  OBVIOUS

\* The offsets of the words of an expansion.
LEMMA LaterOffset ==
  ASSUME NEW a \in Nat, NEW s, NEW S, s \in Seq(S), NEW n \in DOMAIN s
  PROVE  a + 4 * (n - 1) \in Nat
<1>1. n \in Nat /\ n - 1 \in Nat
  OBVIOUS
<1>2. \A m \in Nat : a + 4 * m \in Nat
  OBVIOUS
<1> QED
  BY <1>1, <1>2

\* insertLabel keeps the type of the table.
LEMMA InsertType ==
  ASSUME NEW names \in Seq(Labels), NEW a \in Nat, NEW table \in Seq(LabelRow)
  PROVE  insertLabels(names, a, table) \in Seq(LabelRow)
<1> DEFINE rows == [n \in DOMAIN names |-> [lbl |-> names[n], address |-> a]]
<1>1. rows \in Seq(LabelRow)
  <2>1. \A n \in 1..Len(names) : [lbl |-> names[n], address |-> a] \in LabelRow
    BY DEF LabelRow
  <2>2. DOMAIN names = 1..Len(names) /\ Len(names) \in Nat
    OBVIOUS
  <2> QED
    BY <2>1, <2>2
<1> HIDE DEF rows
<1>2. table \o rows \in Seq(LabelRow)
  BY <1>1
<1> QED
  BY <1>2 DEF insertLabels, rows

\* The positions of a sequence of entries.
LEMMA DomainOfSeq ==
  ASSUME NEW s \in Seq(Entry)
  PROVE  DOMAIN s = 1..Len(s)
OBVIOUS

\* The loop counter stays positive.
LEMMA NextCounter ==
  ASSUME TypeOK, i' = i + 1
  PROVE  i' \in Nat \ {0}
<1>1. \A n \in Nat \ {0} : n + 1 \in Nat \ {0}
  OBVIOUS
<1>2. i \in Nat \ {0}
  BY Zenon DEF TypeOK
<1> QED
  BY <1>1, <1>2, Zenon

\* Every iteration of fillLabelTable.
LEMMA TypeFilling ==
  ASSUME TypeOK, PassOne, Filling
  PROVE  TypeOK' /\ PassOne'
<1>1. CASE FillLabel \/ FillDirective
  <2>1. codeBytes(entries[i]) = 0 /\ dataBytes(entries[i]) = 0
    BY <1>1 DEF FillLabel, FillDirective, codeBytes, dataBytes
  <2>2. /\ labelbuf \in Seq(1..Len(entries)) /\ ltable \in Seq(LabelRow)
        /\ codeSize \in Nat /\ dataSize \in Nat /\ caddress \in Nat /\ daddress \in Nat
        /\ entries \in Seq(Entry)
    BY DEF TypeOK
  <2>3. i \in 1..Len(entries)
    BY <1>1, <2>2 DEF FillLabel, FillDirective, FillStep, AtEntry
  <2>4. labelbuf' \in Seq(1..Len(entries))
    <3>1. labelbuf' = labelbuf \/ labelbuf' = Append(labelbuf, i)
      BY <1>1 DEF FillLabel, FillDirective
    <3>2. Append(labelbuf, i) \in Seq(1..Len(entries))
      BY <2>2, <2>3, AppendType
    <3> QED
      BY <3>1, <3>2, <2>2
  <2>5. /\ codeSize' = codeSize + 0 /\ dataSize' = dataSize + 0
        /\ caddress' = caddress + 0 /\ daddress' = daddress + 0 /\ ltable' = ltable
    BY <1>1, <2>2 DEF FillLabel, FillDirective
  <2>6. filled(0, 0)
    BY <1>1, <2>1, <2>2, <2>4, <2>5 DEF filled, FillLabel, FillDirective
  <2> QED
    BY <2>6, TypeFill
<1>2. CASE FillItem
  <2>1. PICK c \in {0, 4, 8, 48}, d \in {0, 8} :
          c = codeBytes(entries[i]) /\ d = dataBytes(entries[i])
    BY EntryBytes
  <2>2. ltable' \in Seq(LabelRow)
    <3>1. ltable \in Seq(LabelRow) /\ caddress \in Nat /\ daddress \in Nat
      BY DEF TypeOK
    <3>2. (IF entries[i].type = 1 THEN daddress ELSE caddress) \in Nat
      BY <3>1
    <3> QED
      BY <1>2, <3>1, <3>2, WaitingType, InsertType DEF FillItem
  <2>3. labelbuf' \in Seq(1..Len(entries))
    BY <1>2 DEF FillItem
  <2>4. filled(c, d)
    BY <1>2, <2>1, <2>2, <2>3, Zenon DEF filled, FillItem
  <2> QED
    BY <2>4, TypeFill
<1>3. CASE FillDone
  <2>1. TypeOK'
    BY <1>3 DEF FillDone, Goto, Running, TypeOK, scriptVars, passVars, expandVars, printVars, files
  <2>2. i = Len(entries) + 1
    <3>1. entries \in Seq(Entry) /\ i \in Nat \ {0} /\ i \notin DOMAIN entries
      BY <1>3 DEF TypeOK, FillDone, AtEntry
    <3>2. Len(before) = i /\ Len(before) <= Len(entries) + 1
      BY <1>3 DEF PassOne, ReachedByPassOne, FillDone, Running
    <3> QED
      BY <3>1, <3>2
  <2>3. PassOne'
    BY <1>3, <2>2 DEF FillDone, Goto, Running, PassOne, ReachedByPassOne, scriptVars, passVars,
                codeBytes, dataBytes, Inside
  <2> QED
    BY <2>1, <2>3
<1> QED
  BY <1>1, <1>2, <1>3 DEF Filling

\* Every iteration of expandMacros.
LEMMA TypeExpanding ==
  ASSUME TypeOK, PassOne, Expanding
  PROVE  TypeOK' /\ PassOne'
<1>1. CASE ExpandEntry
  <2>1. PICK new \in rewritings(entries[i]) :
          /\ newEntries' = newEntries \o new
          /\ spot' = spot \o [n \in DOMAIN new |-> [code |-> before[i].code + 4 * (n - 1),
                                                    data |-> before[i].data]]
    BY <1>1 DEF ExpandEntry
  <2>2. entries \in Seq(Entry) /\ i \in 1..Len(entries) /\ phase = "expandMacros"
    <3>1. entries \in Seq(Entry)
      BY Zenon DEF TypeOK
    <3>2. i \in DOMAIN entries /\ phase = "expandMacros"
      BY <1>1, Zenon DEF ExpandEntry, AtEntry, Running
    <3>3. DOMAIN entries = 1..Len(entries)
      BY <3>1, DomainOfSeq, Zenon
    <3> QED
      BY <3>1, <3>2, <3>3, Zenon
  <2>3. new \in Seq(Entry)
    <3>1. entries[i] \in Entry /\ ltable \in Seq(LabelRow)
      BY <2>2 DEF TypeOK
    <3> QED
      BY <3>1, RewritingType
  <2>4. newEntries' \in Seq(Entry)
    BY <2>1, <2>3 DEF TypeOK
  <2>5. before[i].code \in Nat /\ before[i].data \in Nat
    <3>1. before \in Seq(Sizes) /\ Len(before) = Len(entries) + 1
      BY <2>2 DEF TypeOK, PassOne, ReachedByPassOne
    <3>2. before[i] \in Sizes
      BY <3>1, <2>2
    <3> QED
      BY <3>2 DEF Sizes
  <2>6. spot' \in Seq(Sizes)
    <3> DEFINE more == [n \in DOMAIN new |-> [code |-> before[i].code + 4 * (n - 1),
                                              data |-> before[i].data]]
    <3>1. \A n \in DOMAIN new : [code |-> before[i].code + 4 * (n - 1),
                                 data |-> before[i].data] \in Sizes
      <4>1. \A n \in DOMAIN new : before[i].code + 4 * (n - 1) \in Nat
        BY <2>3, <2>5, LaterOffset
      <4> QED
        BY <2>5, <4>1 DEF Sizes
    <3>2. more \in Seq(Sizes)
      BY <2>3, <3>1
    <3> HIDE DEF more
    <3>3. spot \in Seq(Sizes)
      BY DEF TypeOK
    <3>4. spot' = spot \o more
      BY <2>1 DEF more
    <3> QED
      BY <3>2, <3>3, <3>4
  <2>7. TypeOK'
    <3>1. /\ i' = i + 1
          /\ UNCHANGED <<phase, status, mode, stale, entries, labelbuf, caddress, daddress,
                        codeSize, dataSize, ltable, before, mem, cadd, dadd, argv2, argv3>>
      BY <1>1 DEF ExpandEntry, NextEntry, scriptVars, passVars, printVars, files
    <3>2. i' \in Nat \ {0}
      BY <3>1, NextCounter
    <3> QED
      BY <2>4, <2>6, <3>1, <3>2 DEF TypeOK
  <2>8. PassOne'
    BY <1>1, <2>2, PassOneKept DEF ExpandEntry, NextEntry, scriptVars
  <2> QED
    BY <2>7, <2>8
<1>2. CASE ExpandFails
  BY <1>2, TypeExit DEF ExpandFails, ErrorExit
<1>3. CASE ExpandDone
  <2>1. TypeOK'
    BY <1>3 DEF ExpandDone, Goto, TypeOK, scriptVars, passVars, expandVars, printVars, files
  <2>2. PassOne'
    BY <1>3, PassOneKept DEF ExpandDone, Goto, Running, scriptVars
  <2> QED
    BY <2>1, <2>2
<1> QED
  BY <1>1, <1>2, <1>3 DEF Expanding

\* Every iteration of replaceLabels.
LEMMA TypeReplacing ==
  ASSUME TypeOK, PassOne, Replacing
  PROVE  TypeOK' /\ PassOne'
<1>1. CASE ReplaceEntry
  <2>1. PICK args \in replaceLabel(newEntries[i].args, ltable) :
          newEntries' = [newEntries EXCEPT ![i].args = args]
    BY <1>1 DEF ReplaceEntry
  <2>2. newEntries \in Seq(Entry) /\ i \in 1..Len(newEntries) /\ ltable \in Seq(LabelRow)
    <3>1. newEntries \in Seq(Entry) /\ ltable \in Seq(LabelRow)
      BY Zenon DEF TypeOK
    <3>2. i \in DOMAIN newEntries
      BY <1>1, Zenon DEF ReplaceEntry, AtEntry
    <3>3. DOMAIN newEntries = 1..Len(newEntries)
      BY <3>1, DomainOfSeq, Zenon
    <3> QED
      BY <3>1, <3>2, <3>3, Zenon
  <2>3. newEntries[i] \in Entry
    BY <2>2
  <2>4. newEntries[i].args \in Seq(Operand)
    BY <2>3 DEF Entry
  <2>5. args \in Seq(Operand)
    BY <2>1, <2>2, <2>4, ReplaceType
  <2>6. [newEntries[i] EXCEPT !.args = args] \in Entry
    BY <2>3, <2>5 DEF Entry
  <2>7. newEntries' \in Seq(Entry)
    BY <2>1, <2>2, <2>6
  <2>8. TypeOK'
    <3>1. /\ i' = i + 1
          /\ UNCHANGED <<phase, status, mode, stale, entries, labelbuf, caddress, daddress,
                        codeSize, dataSize, ltable, before, spot, mem, cadd, dadd, argv2, argv3>>
      BY <1>1 DEF ReplaceEntry, NextEntry, scriptVars, passVars, printVars, files
    <3>2. i' \in Nat \ {0}
      BY <3>1, NextCounter
    <3> QED
      BY <2>7, <3>1, <3>2 DEF TypeOK
  <2>9. PassOne'
    BY <1>1, PassOneKept DEF ReplaceEntry, Running, NextEntry, scriptVars
  <2> QED
    BY <2>8, <2>9
<1>2. CASE ReplaceFails
  BY <1>2, TypeExit DEF ReplaceFails, ErrorExit
<1>3. CASE ReplaceWild \/ ReplaceOverrun
  BY <1>3, TypeExit DEF ReplaceWild, ReplaceOverrun, Crash, files
<1>4. CASE ReplaceDone
  <2>1. TypeOK'
    BY <1>4 DEF ReplaceDone, Goto, TypeOK, scriptVars, passVars, expandVars, printVars, files
  <2>2. PassOne'
    BY <1>4, PassOneKept DEF ReplaceDone, Goto, Running, scriptVars
  <2> QED
    BY <2>1, <2>2
<1> QED
  BY <1>1, <1>2, <1>3, <1>4 DEF Replacing

\* Every iteration of printToBinary.
LEMMA TypePrinting ==
  ASSUME TypeOK, PassOne, Printing
  PROVE  TypeOK' /\ PassOne'
<1>1. CASE OpenBinary
  <2>1. codeSize \in Nat
    BY DEF TypeOK
  <2>2. DOMAIN mem' \subseteq Nat /\ cadd' \in Nat /\ dadd' \in Nat
    BY <1>1, <2>1 DEF OpenBinary, header, HEADER
  <2>3. TypeOK'
    BY <1>1, <2>2 DEF OpenBinary, Goto, TypeOK, scriptVars, passVars, expandVars
  <2>4. PassOne'
    BY <1>1, PassOneKept DEF OpenBinary, Goto, Running, scriptVars
  <2> QED
    BY <2>3, <2>4
<1>2. CASE OpenFails
  BY <1>2, TypeExit DEF OpenFails, Exit1, files
<1>3. CASE EmitData \/ EmitInstr
  <2>1. cadd \in Nat /\ dadd \in Nat /\ DOMAIN mem \subseteq Nat
    BY DEF TypeOK
  <2>2. cadd' \in Nat /\ dadd' \in Nat
    BY <1>3, <2>1 DEF EmitData, EmitInstr
  <2>3. DOMAIN mem' \subseteq Nat
    BY <1>3, <2>1 DEF EmitData, EmitInstr, loadMem
  <2>4. /\ i' = i + 1 /\ phase' = phase /\ status' = status
        /\ UNCHANGED <<scriptVars, passVars, expandVars, files>>
    BY <1>3 DEF EmitData, EmitInstr, NextEntry
  <2>5. TypeOK'
    <3>1. UNCHANGED <<phase, status, mode, stale, entries, labelbuf, caddress, daddress,
                      codeSize, dataSize, ltable, before, newEntries, spot, argv2, argv3>>
      BY <2>4 DEF scriptVars, passVars, expandVars, files
    <3>2. i' \in Nat \ {0}
      BY <2>4, NextCounter
    <3> QED
      BY <2>2, <2>3, <3>1, <3>2 DEF TypeOK
  <2>6. PassOne'
    BY <1>3, <2>4, PassOneKept DEF EmitData, EmitInstr, Running, scriptVars
  <2> QED
    BY <2>5, <2>6
<1>4. CASE EmitFails
  <2>1. CASE Exit1
    BY <2>1, TypeExit DEF Exit1, files
  <2>2. CASE ErrorExit
    BY <2>2, TypeExit DEF ErrorExit
  <2> QED
    BY <1>4, <2>1, <2>2 DEF EmitFails
<1>5. CASE EmitNothing
  <2>1. TypeOK'
    <3>1. /\ i' = i + 1
          /\ UNCHANGED <<phase, status, mode, stale, entries, labelbuf, caddress, daddress,
                        codeSize, dataSize, ltable, before, newEntries, spot, mem, cadd, dadd,
                        argv2, argv3>>
      BY <1>5 DEF EmitNothing, NextEntry, scriptVars, passVars, expandVars, printVars, files
    <3>2. i' \in Nat \ {0}
      BY <3>1, NextCounter
    <3> QED
      BY <3>1, <3>2 DEF TypeOK
  <2>2. PassOne'
    BY <1>5, PassOneKept DEF EmitNothing, NextEntry, Running, scriptVars
  <2> QED
    BY <2>1, <2>2
<1>6. CASE WriteOut
  <2>1. TypeOK'
    BY <1>6 DEF WriteOut, TypeOK, progVars, scriptVars, passVars, expandVars, printVars
  <2>2. PassOne'
    BY <1>6, PassOneKept DEF WriteOut, Running, progVars, scriptVars
  <2> QED
    BY <2>1, <2>2
<1>7. CASE NoMemory
  <2>1. TypeOK'
    BY <1>7 DEF NoMemory, TypeOK, progVars, scriptVars, passVars, expandVars, printVars
  <2>2. PassOne'
    BY <1>7, PassOneKept DEF NoMemory, Running, progVars, scriptVars
  <2> QED
    BY <2>1, <2>2
<1> QED
  BY <1>1, <1>2, <1>3, <1>4, <1>5, <1>6, <1>7 DEF Printing

\* Nothing happens.
LEMMA TypeStutter ==
  ASSUME TypeOK, PassOne, UNCHANGED vars
  PROVE  TypeOK' /\ PassOne'
<1>1. TypeOK'
  BY DEF TypeOK, vars, progVars, scriptVars, passVars, expandVars, printVars, files
<1>2. PassOne'
  BY DEF PassOne, ReachedByPassOne, vars, progVars, scriptVars, passVars, codeBytes, dataBytes, Inside
<1> QED
  BY <1>1, <1>2

\* Every step of the program.
LEMMA TypeStep == TypeOK /\ PassOne /\ [Next]_vars => TypeOK' /\ PassOne'
<1> SUFFICES ASSUME TypeOK, PassOne, [Next]_vars PROVE TypeOK' /\ PassOne'
  OBVIOUS
<1>1. CASE Reading
  BY <1>1, TypeReading
<1>2. CASE Filling
  BY <1>2, TypeFilling
<1>3. CASE Expanding
  BY <1>3, TypeExpanding
<1>4. CASE Replacing
  BY <1>4, TypeReplacing
<1>5. CASE Printing
  BY <1>5, TypePrinting
<1>6. CASE Ended \/ UNCHANGED vars
  BY <1>6, TypeStutter DEF Ended
<1> QED
  BY <1>1, <1>2, <1>3, <1>4, <1>5, <1>6 DEF Next

\* The variables of every run have the types of TypeOK, and the first pass reaches
\* each entry with the sum of the sizes of the entries before it.
THEOREM TypeCorrect == Spec => [](TypeOK /\ PassOne)
  BY TypeInit, TypeStep, PTL DEF Spec

---------------------------------------------------------------------------
(* The layout: for every script, as long as no label or directive reuses the block of *)
(* an instruction line that ends like HALT *)

Layout == Expanded /\ Written /\ Labelled /\ Untouched /\ AtTheEnd

\* The layout of the initial state.
LEMMA LayoutInit == Init => Layout
  BY DEF Init, Layout, Expanded, Written, Labelled, Untouched, AtTheEnd

\* A run that ends early leaves the layout as it is.
LEMMA LayoutExit ==
  ASSUME TypeOK, PassOne, Layout,
         UNCHANGED <<progVars, scriptVars, passVars, expandVars, printVars>>,
         status' \in {"failed", "crashed"}
  PROVE  Layout'
<1>1. /\ phase' = phase /\ i' = i /\ stale' = stale /\ entries' = entries
      /\ codeSize' = codeSize /\ dataSize' = dataSize /\ ltable' = ltable /\ before' = before
      /\ newEntries' = newEntries /\ spot' = spot
      /\ mem' = mem /\ cadd' = cadd /\ dadd' = dadd
  BY DEF progVars, scriptVars, passVars, expandVars, printVars
<1>2. Expanded' /\ Written'
  BY <1>1 DEF Layout, Expanded, Written, spotOf, sizesReached, afterItem, dataBytes, Inside,
              headerOffsets, codeOffsets, dataOffsets
<1>3. Labelled' /\ Untouched' /\ AtTheEnd'
  BY <1>1 DEF Layout, Labelled, Untouched, AtTheEnd, AtEntry
<1> QED
  BY <1>2, <1>3 DEF Layout

---------------------------------------------------------------------------
(* getScript *)

\* Reading lines: no new entries, no labels, and no wild HALT.
LEMMA LayoutReading ==
  ASSUME "bang" \notin StaleTexts, TypeOK, PassOne, Layout, Reading
  PROVE  Layout'
<1>1. ASSUME NEW e, Save(e), Running("getScript"), e.wild # "bang", stale' # "bang"
      PROVE  Layout'
  <2>1. /\ phase = "getScript" /\ phase' = phase /\ status' = "running" /\ status = "running"
        /\ entries' = Append(entries, e)
        /\ codeSize' = codeSize /\ dataSize' = dataSize /\ ltable' = ltable
        /\ newEntries' = newEntries /\ spot' = spot
    BY <1>1 DEF Save, Running, progVars, passVars, expandVars
  <2>2. Expanded' /\ Written' /\ Labelled' /\ AtTheEnd'
    <3>1. spot = <<>> /\ Len(spot) = Len(newEntries)
      BY <2>1 DEF Layout, Expanded
    <3>2. Expanded'
      BY <2>1, <3>1 DEF Expanded
    <3>3. Labelled' /\ Written' /\ AtTheEnd'
      BY <2>1 DEF Layout, Labelled, Written, AtTheEnd
    <3> QED
      BY <3>2, <3>3
  <2>3. Untouched'
    <3>1. \A k \in DOMAIN entries : entries[k].wild # "bang"
      BY DEF Layout, Untouched
    <3>2. entries \in Seq(Entry)
      BY DEF TypeOK
    <3>3. \A k \in DOMAIN entries' : entries'[k] = e \/ (k \in DOMAIN entries /\ entries'[k] = entries[k])
      BY <2>1, <3>2
    <3>4. \A k \in DOMAIN entries' : entries'[k].wild # "bang"
      BY <1>1, <3>1, <3>3, Zenon
    <3> QED
      BY <1>1, <3>4 DEF Untouched
  <2> QED
    BY <2>2, <2>3 DEF Layout
<1>2. stale # "bang"
  BY DEF Layout, Untouched
<1>3. CASE NoScript
  BY <1>3, LayoutExit DEF NoScript, Crash
<1>4. ASSUME NEW ln \in Lines, ReadDirective(ln) PROVE Layout'
  <2>1. dirEntry(mode', stale).wild # "bang" /\ stale' # "bang"
    BY <1>2, <1>4 DEF ReadDirective, dirEntry, EntryOf
  <2> QED
    BY <1>1, <1>4, <2>1 DEF ReadDirective
<1>5. ASSUME NEW ln \in Lines, ReadLabel(ln) PROVE Layout'
  <2>1. CASE Exit1
    BY <2>1, LayoutExit DEF Exit1
  <2>2. CASE stale' = "none" /\ Save(labelEntry(ln.lbl, stale))
    <3>1. labelEntry(ln.lbl, stale).wild # "bang" /\ stale' # "bang"
      BY <1>2, <2>2 DEF labelEntry, EntryOf
    <3> QED
      BY <1>1, <1>5, <2>2, <3>1 DEF ReadLabel
  <2> QED
    BY <1>5, <2>1, <2>2 DEF ReadLabel
<1>6. ASSUME NEW ln \in Lines, ReadData(ln) PROVE Layout'
  <2>1. CASE Exit1
    BY <2>1, LayoutExit DEF Exit1
  <2>2. CASE stale' = "none" /\ Save(dataEntry(ln.val))
    <3>1. dataEntry(ln.val).wild # "bang" /\ stale' # "bang"
      BY <2>2 DEF dataEntry, EntryOf
    <3> QED
      BY <1>1, <1>6, <2>2, <3>1 DEF ReadData
  <2> QED
    BY <1>6, <2>1, <2>2 DEF ReadData
<1>7. ASSUME NEW ln \in Lines, ReadInstr(ln) PROVE Layout'
  <2>1. CASE Exit1
    BY <2>1, LayoutExit DEF Exit1
  <2>2. CASE stale' \in {"none"} \cup StaleTexts /\ Save(instrEntry(ln.cmd, ln.args))
    <3>1. instrEntry(ln.cmd, ln.args).wild # "bang" /\ stale' # "bang"
      BY <2>2 DEF instrEntry, EntryOf
    <3> QED
      BY <1>1, <1>7, <2>2, <3>1 DEF ReadInstr
  <2> QED
    BY <1>7, <2>1, <2>2 DEF ReadInstr
<1>8. CASE EndOfFile
  <2>1. /\ phase = "getScript" /\ phase' = "fillLabelTable"
        /\ status = "running" /\ status' = status /\ stale' = stale /\ entries' = entries
        /\ codeSize' = codeSize /\ dataSize' = dataSize /\ ltable' = ltable
        /\ newEntries' = newEntries /\ spot' = spot
    BY <1>8 DEF EndOfFile, Goto, Running, scriptVars, passVars, expandVars
  <2>2. spot = <<>> /\ Len(spot) = Len(newEntries)
    BY <2>1 DEF Layout, Expanded
  <2>3. Expanded' /\ Written' /\ AtTheEnd'
    BY <2>1, <2>2 DEF Expanded, Written, AtTheEnd
  <2>4. Labelled' /\ Untouched'
    BY <2>1 DEF Layout, Labelled, Untouched
  <2> QED
    BY <2>3, <2>4 DEF Layout
<1> QED
  BY <1>3, <1>4, <1>5, <1>6, <1>7, <1>8 DEF Reading

---------------------------------------------------------------------------
(* fillLabelTable *)

\* A multiple of 4, or of 8, is that many times something.
LEMMA Quotients ==
  ASSUME NEW a \in Nat
  PROVE  /\ a % 4 = 0 => a \div 4 \in Nat /\ a = 4 * (a \div 4)
         /\ a % 8 = 0 => a \div 8 \in Nat /\ a = 8 * (a \div 8)
  OBVIOUS

\* The rows of the table insertLabel has made: the old ones, and one per name.
LEMMA InsertedRows ==
  ASSUME NEW names \in Seq(Labels), NEW a \in Nat, NEW table \in Seq(LabelRow),
         NEW n \in DOMAIN insertLabels(names, a, table)
  PROVE  \/ n \in DOMAIN table /\ insertLabels(names, a, table)[n] = table[n]
         \/ insertLabels(names, a, table)[n].address = a /\ names # <<>>
<1> DEFINE rows == [k \in DOMAIN names |-> [lbl |-> names[k], address |-> a]]
<1>1. rows \in Seq(LabelRow) /\ Len(rows) = Len(names)
  <2>1. \A k \in 1..Len(names) : [lbl |-> names[k], address |-> a] \in LabelRow
    BY DEF LabelRow
  <2>2. DOMAIN names = 1..Len(names) /\ Len(names) \in Nat
    OBVIOUS
  <2> QED
    BY <2>1, <2>2
<1>2. \A k \in DOMAIN rows : rows[k].address = a
  OBVIOUS
<1> HIDE DEF rows
<1>3. insertLabels(names, a, table) = table \o rows
  BY DEF insertLabels, rows
<1>4. n \in 1..(Len(table) + Len(rows))
  BY <1>1, <1>3
<1>5. CASE n <= Len(table)
  BY <1>1, <1>3, <1>4, <1>5
<1>6. CASE n > Len(table)
  <2>1. n - Len(table) \in DOMAIN rows
    BY <1>1, <1>4, <1>6
  <2>2. (table \o rows)[n] = rows[n - Len(table)]
    BY <1>1, <1>4, <1>6
  <2>3. names # <<>>
    BY <2>1, <1>1
  <2> QED
    BY <1>2, <1>3, <2>1, <2>2, <2>3
<1> QED
  BY <1>4, <1>5, <1>6

\* What keeps an address inside its section.
inCode(a, size) == \E x \in 0..size : a = CODE_BASE + 4 * x /\ 4 * x < size
inData(a, size) == \E x \in 0..size : a = DATA_BASE + 8 * x /\ 8 * x < size

\* An address stays inside a section that grows.
LEMMA StaysInside ==
  ASSUME NEW size \in Nat, NEW more \in Nat, NEW a
  PROVE  /\ inCode(a, size) => inCode(a, size + more)
         /\ inData(a, size) => inData(a, size + more)
<1>1. \A x \in 0..size : x \in 0..(size + more)
  OBVIOUS
<1>2. ASSUME NEW x \in Nat, NEW y \in Nat, y < size PROVE y < size + more
  BY <1>2
<1> QED
  BY <1>1, <1>2 DEF inCode, inData

\* The end of a section is the address of an item that is being added to it.
LEMMA EndIsInside ==
  ASSUME NEW size \in Nat, NEW more \in Nat, more > 0
  PROVE  /\ size % 4 = 0 => inCode(CODE_BASE + size, size + more)
         /\ size % 8 = 0 => inData(DATA_BASE + size, size + more)
<1>1. ASSUME size % 4 = 0 PROVE inCode(CODE_BASE + size, size + more)
  <2>1. PICK x \in Nat : size = 4 * x
    BY <1>1, Quotients
  <2>2. x \in 0..(size + more) /\ 4 * x < size + more
    BY <2>1
  <2> QED
    BY <2>1, <2>2 DEF inCode
<1>2. ASSUME size % 8 = 0 PROVE inData(DATA_BASE + size, size + more)
  <2>1. PICK x \in Nat : size = 8 * x
    BY <1>2, Quotients
  <2>2. x \in 0..(size + more) /\ 8 * x < size + more
    BY <2>1
  <2> QED
    BY <2>1, <2>2 DEF inData
<1> QED
  BY <1>1, <1>2

\* The sizes reached lie between two items.
LEMMA SizesInside ==
  ASSUME TypeOK, PassOne
  PROVE  codeSize \in Nat /\ dataSize \in Nat /\ codeSize % 4 = 0 /\ dataSize % 8 = 0
<1>1. before \in Seq(Sizes) /\ Len(before) \in Nat /\ codeSize \in Nat /\ dataSize \in Nat
  BY DEF TypeOK
<1>2. Len(before) >= 1
  <2>1. i \in Nat \ {0} /\ Len(entries) \in Nat
    BY DEF TypeOK
  <2> QED
    BY <2>1 DEF PassOne, ReachedByPassOne
<1>3. Inside(before[Len(before)])
  BY <1>1, <1>2 DEF PassOne
<1>4. before[Len(before)] = [code |-> codeSize, data |-> dataSize]
  BY DEF PassOne
<1> QED
  BY <1>1, <1>3, <1>4 DEF Inside

\* The labels of the next item get its address, which lies inside its section.
LEMMA LayoutFilling ==
  ASSUME TypeOK, PassOne, Layout, Filling
  PROVE  Layout'
<1>1. /\ phase = "fillLabelTable" /\ phase' \in {"fillLabelTable", "expandMacros"}
      /\ status = "running" /\ status' = status
      /\ stale' = stale /\ entries' = entries /\ newEntries' = newEntries /\ spot' = spot
  BY DEF Filling, FillLabel, FillItem, FillDirective, FillDone, FillStep, Goto, NextEntry,
         Running, scriptVars, expandVars
<1>2. spot = <<>> /\ Len(spot) = Len(newEntries)
  BY <1>1 DEF Layout, Expanded
<1>3. Untouched' /\ AtTheEnd' /\ Written'
  BY <1>1 DEF Layout, Untouched, AtTheEnd, Written
<1>4. CASE FillLabel \/ FillDirective
  <2>1. phase' = phase /\ codeSize' = codeSize /\ dataSize' = dataSize /\ ltable' = ltable
    BY <1>4 DEF FillLabel, FillDirective, FillStep, NextEntry
  <2>2. Expanded' /\ Labelled'
    BY <1>1, <1>2, <2>1 DEF Layout, Expanded, Labelled
  <2> QED
    BY <1>3, <2>2 DEF Layout
<1>5. CASE FillItem
  <2> DEFINE e == entries[i]
             a == IF e.type = 1 THEN daddress ELSE caddress
  <2>1. /\ phase' = phase /\ ltable' = insertLabels(waiting, a, ltable)
        /\ codeSize' = codeSize + codeBytes(e) /\ dataSize' = dataSize + dataBytes(e)
        /\ e.type \in {0, 1}
    BY <1>5 DEF FillItem, FillStep, NextEntry
  <2>2. Expanded'
    BY <1>1, <1>2, <2>1 DEF Expanded
  <2>3. /\ codeSize \in Nat /\ dataSize \in Nat /\ a \in Nat /\ ltable \in Seq(LabelRow)
        /\ codeSize % 4 = 0 /\ dataSize % 8 = 0
    BY SizesInside DEF TypeOK
  <2>4. a = IF e.type = 1 THEN DATA_BASE + dataSize ELSE CODE_BASE + codeSize
    BY DEF PassOne
  <2>5. codeBytes(e) \in Nat /\ dataBytes(e) \in Nat
    <3>1. PICK c \in {0, 4, 8, 48}, d \in {0, 8} : c = codeBytes(e) /\ d = dataBytes(e)
      BY EntryBytes
    <3> QED
      BY <3>1
  <2>6. IF e.type = 1 THEN dataBytes(e) > 0 ELSE codeBytes(e) > 0
    BY <2>1 DEF codeBytes, dataBytes, cnt
  <2>7. inCode(a, codeSize') \/ inData(a, dataSize')
    BY <2>1, <2>3, <2>4, <2>5, <2>6, EndIsInside
  <2>8. \A n \in DOMAIN ltable' : inCode(ltable'[n].address, codeSize') \/ inData(ltable'[n].address, dataSize')
    <3> SUFFICES ASSUME NEW n \in DOMAIN ltable'
                 PROVE  inCode(ltable'[n].address, codeSize') \/ inData(ltable'[n].address, dataSize')
      OBVIOUS
    <3>1. \/ n \in DOMAIN ltable /\ ltable'[n] = ltable[n]
          \/ ltable'[n].address = a
      BY <2>1, <2>3, WaitingType, InsertedRows
    <3>2. n \in DOMAIN ltable => inCode(ltable[n].address, codeSize) \/ inData(ltable[n].address, dataSize)
      BY DEF Layout, Labelled, inCode, inData
    <3> QED
      BY <3>1, <3>2, <2>1, <2>3, <2>5, <2>7, StaysInside
  <2>9. Labelled'
    BY <2>8 DEF Labelled, inCode, inData
  <2> QED
    BY <1>3, <2>2, <2>9 DEF Layout
<1>6. CASE FillDone
  <2>1. /\ phase' = "expandMacros" /\ i' = 1 /\ codeSize' = codeSize /\ dataSize' = dataSize
        /\ ltable' = ltable /\ before' = before
    BY <1>6 DEF FillDone, Goto, passVars
  <2>2. Labelled'
    BY <2>1 DEF Layout, Labelled
  <2>3. Expanded'
    <3>1. spotOf(1)' = [code |-> 0, data |-> 0]
      BY <1>1, <1>2, <2>1 DEF spotOf, sizesReached, PassOne
    <3>2. Len(entries) \in Nat
      BY DEF TypeOK
    <3> QED
      BY <1>1, <1>2, <2>1, <3>1, <3>2 DEF Expanded
  <2> QED
    BY <1>3, <2>2, <2>3 DEF Layout
<1> QED
  BY <1>4, <1>5, <1>6 DEF Filling

---------------------------------------------------------------------------
(* expandMacros *)

\* A row of positions: each item starts where the one before it ends, and the last
\* one ends at "last".
startOf(s, last, m) == IF m \in DOMAIN s THEN s[m] ELSE last
chained(s, items, last) ==
  /\ Len(s) = Len(items)
  /\ \A m \in DOMAIN s : startOf(s, last, m + 1) = afterItem(s[m], items[m])

\* Two such rows in sequence are one, when the second starts where the first ends.
LEMMA ChainsJoin ==
  ASSUME NEW s \in Seq(Sizes), NEW t \in Seq(Sizes), NEW x \in Seq(Entry), NEW y \in Seq(Entry),
         NEW mid, NEW last, NEW first,
         chained(s, x, mid), chained(t, y, last), t # <<>>, t[1] = mid,
         startOf(s, mid, 1) = first
  PROVE  chained(s \o t, x \o y, last) /\ startOf(s \o t, last, 1) = first
<1>1. /\ Len(s) = Len(x) /\ Len(t) = Len(y) /\ Len(s) \in Nat /\ Len(t) \in Nat /\ Len(t) >= 1
      /\ s \o t \in Seq(Sizes) /\ Len(s \o t) = Len(s) + Len(t)
      /\ Len(x \o y) = Len(x) + Len(y)
  <2>1. Len(s) = Len(x) /\ Len(t) = Len(y)
    BY DEF chained
  <2>2. Len(s) \in Nat /\ Len(t) \in Nat /\ Len(t) >= 1
    OBVIOUS
  <2>3. s \o t \in Seq(Sizes) /\ Len(s \o t) = Len(s) + Len(t) /\ Len(x \o y) = Len(x) + Len(y)
    OBVIOUS
  <2> QED
    BY <2>1, <2>2, <2>3
<1>2. \A m \in 1..Len(s) : (s \o t)[m] = s[m] /\ (x \o y)[m] = x[m]
  BY <1>1
<1>3. \A m \in 1..Len(t) : /\ (s \o t)[Len(s) + m] = t[m]
                           /\ (x \o y)[Len(s) + m] = y[m]
  BY <1>1
<1>4. \A m \in 1..Len(s) : startOf(s \o t, last, m + 1) = afterItem(s[m], x[m])
  <2> SUFFICES ASSUME NEW m \in 1..Len(s)
               PROVE  startOf(s \o t, last, m + 1) = afterItem(s[m], x[m])
    OBVIOUS
  <2>1. startOf(s, mid, m + 1) = afterItem(s[m], x[m])
    <3>1. m \in DOMAIN s
      BY <1>1
    <3> QED
      BY <3>1 DEF chained
  <2>2. CASE m < Len(s)
    BY <1>1, <1>2, <2>1, <2>2 DEF startOf
  <2>3. CASE m = Len(s)
    <3>1. m + 1 \notin DOMAIN s /\ m + 1 \in DOMAIN (s \o t)
      BY <1>1, <2>3
    <3>2. (s \o t)[m + 1] = t[1]
      BY <1>1, <1>3, <2>3
    <3> QED
      BY <2>1, <3>1, <3>2 DEF startOf
  <2> QED
    BY <1>1, <2>2, <2>3
<1>5. \A m \in 1..Len(t) : startOf(s \o t, last, Len(s) + m + 1) = afterItem(t[m], y[m])
  <2> SUFFICES ASSUME NEW m \in 1..Len(t)
               PROVE  startOf(s \o t, last, Len(s) + m + 1) = afterItem(t[m], y[m])
    OBVIOUS
  <2>1. startOf(t, last, m + 1) = afterItem(t[m], y[m])
    <3>1. m \in DOMAIN t
      BY <1>1
    <3> QED
      BY <3>1 DEF chained
  <2>2. CASE m < Len(t)
    <3>1. /\ Len(s) + m + 1 \in DOMAIN (s \o t) /\ m + 1 \in DOMAIN t
          /\ (s \o t)[Len(s) + m + 1] = t[m + 1]
      <4>1. m + 1 \in 1..Len(t) /\ Len(s) + (m + 1) = Len(s) + m + 1
        BY <1>1, <2>2
      <4>2. Len(s) + m + 1 \in 1..(Len(s) + Len(t))
        BY <1>1, <2>2
      <4> QED
        BY <1>1, <1>3, <4>1, <4>2
    <3> QED
      BY <2>1, <3>1 DEF startOf
  <2>3. CASE m = Len(t)
    <3>1. Len(s) + m + 1 \notin DOMAIN (s \o t) /\ m + 1 \notin DOMAIN t
      BY <1>1, <2>3
    <3> QED
      BY <2>1, <3>1 DEF startOf
  <2> QED
    BY <1>1, <2>2, <2>3
<1>6. \A m \in DOMAIN (s \o t) : m \in 1..Len(s) \/ \E n \in 1..Len(t) : m = Len(s) + n
  <2>1. \A j, k \in Nat : \A m \in 1..(j + k) : m \in 1..j \/ \E n \in 1..k : m = j + n
    <3> SUFFICES ASSUME NEW j \in Nat, NEW k \in Nat, NEW m \in 1..(j + k), m \notin 1..j
                 PROVE  \E n \in 1..k : m = j + n
      OBVIOUS
    <3>1. m - j \in 1..k /\ m = j + (m - j)
      OBVIOUS
    <3> QED
      BY <3>1, Zenon
  <2>2. Len(s) \in Nat /\ Len(t) \in Nat /\ DOMAIN (s \o t) = 1..(Len(s) + Len(t))
    BY <1>1
  <2>3. \A m \in 1..(Len(s) + Len(t)) : m \in 1..Len(s) \/ \E n \in 1..Len(t) : m = Len(s) + n
    BY <2>1, <2>2
  <2> QED
    BY <2>2, <2>3
<1>7. \A m \in DOMAIN (s \o t) :
        startOf(s \o t, last, m + 1) = afterItem((s \o t)[m], (x \o y)[m])
  <2> SUFFICES ASSUME NEW m \in DOMAIN (s \o t)
               PROVE  startOf(s \o t, last, m + 1) = afterItem((s \o t)[m], (x \o y)[m])
    OBVIOUS
  <2>1. CASE m \in 1..Len(s)
    BY <1>2, <1>4, <2>1, Zenon
  <2>2. ASSUME NEW n \in 1..Len(t), m = Len(s) + n
        PROVE  startOf(s \o t, last, m + 1) = afterItem((s \o t)[m], (x \o y)[m])
    BY <1>3, <1>5, <2>2, Zenon
  <2> QED
    BY <1>6, <2>1, <2>2, Zenon
<1>8. startOf(s \o t, last, 1) = first
  <2>1. 1 \in DOMAIN (s \o t)
    BY <1>1
  <2>2. CASE 1 \in DOMAIN s
    BY <1>1, <1>2, <2>1, <2>2 DEF startOf
  <2>3. CASE 1 \notin DOMAIN s
    <3>1. Len(s) = 0 /\ first = mid
      BY <1>1, <2>3 DEF startOf
    <3>2. (s \o t)[1] = t[1]
      BY <1>1, <1>3, <3>1
    <3> QED
      BY <2>1, <3>1, <3>2 DEF startOf
  <2> QED
    BY <2>2, <2>3
<1> QED
  BY <1>1, <1>7, <1>8 DEF chained

\* An index is that of the last element or of an earlier one.
LEMMA BeforeOrAt ==
  ASSUME NEW l \in Nat, NEW n \in 1..l
  PROVE  n < l \/ n = l
  OBVIOUS

\* The positions of what one entry is rewritten to fill the room of the entry.
positions(new, at) == [n \in DOMAIN new |-> [code |-> at.code + 4 * (n - 1), data |-> at.data]]

\* Those positions are a row that starts where the entry starts and ends where it ends.
LEMMA PositionsChained ==
  ASSUME NEW e \in Entry, NEW new \in Seq(Entry), NEW at \in Sizes,
         \/ /\ e.type = 0 /\ Len(new) = cnt(e.cmd) /\ \A n \in DOMAIN new : new[n].type = 0
         \/ e.type # 0 /\ new = <<e>>
  PROVE  LET s == positions(new, at)
             last == [code |-> at.code + codeBytes(e), data |-> at.data + dataBytes(e)]
         IN /\ s \in Seq(Sizes) /\ s # <<>> /\ s[1] = at /\ chained(s, new, last)
            /\ \A n \in DOMAIN s : /\ s[n].data = at.data /\ s[n].code <= last.code
                                   /\ \E m \in Nat : s[n].code = at.code + 4 * m
<1> DEFINE s == positions(new, at)
           last == [code |-> at.code + codeBytes(e), data |-> at.data + dataBytes(e)]
<1>1. at.code \in Nat /\ at.data \in Nat /\ at = [code |-> at.code, data |-> at.data]
  BY DEF Sizes
<1>2. Len(new) \in Nat /\ DOMAIN new = 1..Len(new)
  OBVIOUS
<1>3. \A n \in 1..Len(new) : n - 1 \in Nat /\ at.code + 4 * (n - 1) \in Nat
  BY <1>1, <1>2, LaterOffset
<1>4. s \in Seq(Sizes) /\ Len(s) = Len(new) /\ DOMAIN s = 1..Len(new)
  <2>1. \A n \in 1..Len(new) : [code |-> at.code + 4 * (n - 1), data |-> at.data] \in Sizes
    BY <1>1, <1>3 DEF Sizes
  <2> QED
    BY <1>2, <2>1 DEF positions
<1>5. \A n \in 1..Len(new) : s[n] = [code |-> at.code + 4 * (n - 1), data |-> at.data]
  BY <1>2 DEF positions
<1>6. CASE e.type = 0 /\ Len(new) = cnt(e.cmd) /\ \A n \in DOMAIN new : new[n].type = 0
  <2>1. Len(new) >= 1
    BY <1>6 DEF cnt
  <2>2. last = [code |-> at.code + 4 * Len(new), data |-> at.data]
    BY <1>1, <1>6 DEF codeBytes, dataBytes
  <2> HIDE DEF s, last
  <2>3. \A n \in 1..Len(new) :
          afterItem(s[n], new[n]) = [code |-> at.code + 4 * n, data |-> at.data]
    <3> SUFFICES ASSUME NEW n \in 1..Len(new)
                 PROVE  afterItem(s[n], new[n]) = [code |-> at.code + 4 * n, data |-> at.data]
      OBVIOUS
    <3>1. new[n].type = 0 /\ s[n].code = at.code + 4 * (n - 1) /\ s[n].data = at.data
      <4>1. s[n] = [code |-> at.code + 4 * (n - 1), data |-> at.data]
        BY <1>5
      <4>2. new[n].type = 0
        BY <1>2, <1>6
      <4> QED
        BY <4>1, <4>2
    <3>2. dataBytes(new[n]) = 0
      BY <3>1 DEF dataBytes
    <3>3. at.code + 4 * (n - 1) + 4 = at.code + 4 * n /\ at.data + 0 = at.data
      BY <1>1
    <3> QED
      BY <3>1, <3>2, <3>3 DEF afterItem
  <2>4. \A n \in 1..Len(new) : startOf(s, last, n + 1) = [code |-> at.code + 4 * n, data |-> at.data]
    <3> SUFFICES ASSUME NEW n \in 1..Len(new)
                 PROVE  startOf(s, last, n + 1) = [code |-> at.code + 4 * n, data |-> at.data]
      OBVIOUS
    <3>1. CASE n < Len(new)
      <4>1. n + 1 \in 1..Len(new) /\ (n + 1) - 1 = n
        BY <1>2, <3>1
      <4>2. s[n + 1] = [code |-> at.code + 4 * n, data |-> at.data]
        BY <1>5, <4>1
      <4> QED
        BY <1>4, <4>1, <4>2 DEF startOf
    <3>2. CASE n = Len(new)
      <4>1. n + 1 \notin DOMAIN s
        BY <1>2, <1>4, <3>2
      <4> QED
        BY <2>2, <3>2, <4>1 DEF startOf
    <3>3. n < Len(new) \/ n = Len(new)
      BY <1>2, BeforeOrAt
    <3> QED
      BY <3>1, <3>2, <3>3
  <2>5. chained(s, new, last)
    BY <1>4, <2>3, <2>4 DEF chained
  <2>6. s[1] = at /\ s # <<>>
    <3>1. 1 \in 1..Len(new) /\ at.code + 4 * (1 - 1) = at.code
      BY <1>1, <1>2, <2>1
    <3> QED
      BY <1>1, <1>4, <1>5, <3>1
  <2>7. \A n \in DOMAIN s : /\ s[n].data = at.data /\ s[n].code <= last.code
                            /\ \E m \in Nat : s[n].code = at.code + 4 * m
    <3> SUFFICES ASSUME NEW n \in 1..Len(new)
                 PROVE  /\ s[n].data = at.data /\ s[n].code <= last.code
                        /\ \E m \in Nat : s[n].code = at.code + 4 * m
      BY <1>4
    <3>1. at.code + 4 * (n - 1) <= at.code + 4 * Len(new)
      BY <1>1, <1>2
    <3>2. s[n].code = at.code + 4 * (n - 1) /\ s[n].data = at.data /\ n - 1 \in Nat
      <4>1. s[n] = [code |-> at.code + 4 * (n - 1), data |-> at.data]
        BY <1>5
      <4> QED
        BY <1>3, <4>1
    <3>3. last.code = at.code + 4 * Len(new)
      BY <2>2
    <3> QED
      BY <3>1, <3>2, <3>3
  <2> QED
    BY <1>4, <2>5, <2>6, <2>7 DEF s, last
<1>7. CASE e.type # 0 /\ new = <<e>>
  <2>1. Len(new) = 1 /\ new[1] = e /\ DOMAIN s = {1}
    <3>1. Len(new) = 1 /\ new[1] = e
      BY <1>7
    <3> QED
      BY <3>1, <1>4
  <2>2. codeBytes(e) = 0
    BY <1>7 DEF codeBytes
  <2>3. s[1] = at
    <3>1. at.code + 4 * (1 - 1) = at.code
      BY <1>1
    <3> QED
      BY <1>1, <1>5, <2>1, <3>1
  <2> HIDE DEF s
  <2>4. startOf(s, last, 2) = last
    BY <2>1 DEF startOf
  <2>5. afterItem(s[1], new[1]) = last
    BY <1>7, <2>1, <2>2, <2>3 DEF afterItem
  <2>6. chained(s, new, last)
    <3>1. \A m \in DOMAIN s : m = 1
      BY <2>1
    <3> QED
      BY <1>4, <2>4, <2>5, <3>1 DEF chained
  <2>7. last.code = at.code /\ at.code <= at.code /\ at.code = at.code + 4 * 0
    BY <1>1, <2>2
  <2>8. \A n \in DOMAIN s : /\ s[n].data = at.data /\ s[n].code <= last.code
                            /\ \E m \in Nat : s[n].code = at.code + 4 * m
    BY <2>1, <2>3, <2>7
  <2>9. s # <<>>
    BY <2>1, <1>4
  <2> QED
    BY <1>4, <2>3, <2>6, <2>8, <2>9 DEF s
<1> QED
  BY <1>6, <1>7

\* The alignment of a position does not depend on where the words before it start.
LEMMA Aligned ==
  ASSUME NEW a \in Nat, NEW m \in Nat, a % 4 = 0
  PROVE  (a + 4 * m) % 4 = 0
<1>1. PICK k \in Nat : a = 4 * k
  BY Quotients
<1>2. a + 4 * m = 4 * (k + m) /\ k + m \in Nat
  BY <1>1
<1>3. \A j \in Nat : (4 * j) % 4 = 0
  OBVIOUS
<1> QED
  BY <1>2, <1>3

\* Expanded, in the words of the lemmas above.
LEMMA ExpandedIsChain ==
  ASSUME phase \notin {"getScript", "fillLabelTable"}
  PROVE  Expanded <=> /\ chained(spot, newEntries, sizesReached)
                      /\ startOf(spot, sizesReached, 1) = [code |-> 0, data |-> 0]
                      /\ phase = "expandMacros" => i <= Len(entries) + 1
                      /\ \A m \in DOMAIN spot : Inside(spot[m])
  BY Zenon DEF Expanded, chained, startOf, spotOf

\* What the first pass says of the entry it has reached.
LEMMA RoomOf ==
  ASSUME TypeOK, PassOne, phase = "expandMacros", NEW k \in DOMAIN entries
  PROVE  /\ before[k] \in Sizes /\ Inside(before[k]) /\ Inside(before[k + 1])
         /\ before[k + 1] = [code |-> before[k].code + codeBytes(entries[k]),
                             data |-> before[k].data + dataBytes(entries[k])]
<1>1. /\ before \in Seq(Sizes) /\ entries \in Seq(Entry) /\ Len(before) = Len(entries) + 1
      /\ Len(entries) \in Nat
  BY DEF TypeOK, PassOne, ReachedByPassOne
<1>2. k \in DOMAIN before /\ k + 1 \in DOMAIN before /\ k \in 1..(Len(before) - 1)
  BY <1>1
<1> QED
  BY <1>1, <1>2 DEF PassOne

\* A macro takes the room the first pass has counted for it.
LEMMA ExpandEntryKeeps ==
  ASSUME TypeOK, PassOne, Layout, ExpandEntry
  PROVE  Expanded'
<1> DEFINE e == entries[i]
<1>1. PICK new \in rewritings(e) :
        newEntries' = newEntries \o new /\ spot' = spot \o positions(new, before[i])
  BY DEF ExpandEntry, positions
<1>2. /\ phase = "expandMacros" /\ phase' = phase /\ i' = i + 1 /\ i \in DOMAIN entries
      /\ entries' = entries /\ before' = before /\ codeSize' = codeSize /\ dataSize' = dataSize
  BY DEF ExpandEntry, Running, AtEntry, NextEntry, scriptVars, passVars
<1>3. /\ entries \in Seq(Entry) /\ newEntries \in Seq(Entry) /\ spot \in Seq(Sizes)
      /\ ltable \in Seq(LabelRow) /\ codeSize \in Nat /\ dataSize \in Nat
  BY DEF TypeOK
<1>4. e \in Entry /\ e.wild # "bang"
  BY <1>2, <1>3 DEF Layout, Untouched
<1>5. /\ new \in Seq(Entry)
      /\ \/ /\ e.type = 0 /\ Len(new) = cnt(e.cmd) /\ \A n \in DOMAIN new : new[n].type = 0
         \/ e.type # 0 /\ new = <<e>>
  BY <1>1, <1>3, <1>4, RewritingType
<1> DEFINE at == before[i]
           more == positions(new, at)
           last == [code |-> at.code + codeBytes(e), data |-> at.data + dataBytes(e)]
<1>6. at \in Sizes /\ Inside(at) /\ Inside(last) /\ before[i + 1] = last
  BY <1>2, RoomOf
<1>7. /\ more \in Seq(Sizes) /\ more # <<>> /\ more[1] = at /\ chained(more, new, last)
      /\ \A n \in DOMAIN more : /\ more[n].data = at.data /\ more[n].code <= last.code
                                /\ \E m \in Nat : more[n].code = at.code + 4 * m
  BY <1>4, <1>5, <1>6, PositionsChained
<1>8. sizesReached = at /\ sizesReached' = last
  BY <1>2, <1>6 DEF sizesReached
<1> HIDE DEF e, at, more, last
<1>9. /\ chained(spot, newEntries, at) /\ startOf(spot, at, 1) = [code |-> 0, data |-> 0]
      /\ \A m \in DOMAIN spot : Inside(spot[m])
  BY <1>2, <1>8, ExpandedIsChain DEF Layout
<1>10. /\ chained(spot \o more, newEntries \o new, last)
       /\ startOf(spot \o more, last, 1) = [code |-> 0, data |-> 0]
  BY <1>3, <1>5, <1>7, <1>9, ChainsJoin
<1>11. \A n \in DOMAIN more : Inside(more[n])
  <2> SUFFICES ASSUME NEW n \in DOMAIN more PROVE Inside(more[n])
    OBVIOUS
  <2>1. /\ at.code \in Nat /\ at.data \in Nat /\ more[n] \in Sizes
        /\ last.code <= codeSize /\ at.code % 4 = 0 /\ at.data % 8 = 0 /\ at.data <= dataSize
    <3>1. more[n] \in Sizes
      BY <1>7
    <3>2. at.code \in Nat /\ at.data \in Nat
      BY <1>6 DEF Sizes
    <3>3. /\ last.code <= codeSize /\ at.code % 4 = 0 /\ at.data % 8 = 0
          /\ at.data <= dataSize
      BY <1>6 DEF Inside
    <3> QED
      BY <3>1, <3>2, <3>3
  <2>2. more[n].code % 4 = 0
    BY <1>7, <2>1, Aligned
  <2>3. more[n].code <= codeSize
    <3>1. more[n].code \in Nat /\ last.code \in Int
      <4>1. codeBytes(e) \in Nat
        BY EntryBytes
      <4>2. more[n].code \in Nat
        BY <2>1 DEF Sizes
      <4> QED
        BY <2>1, <4>1, <4>2 DEF last
    <3>2. more[n].code <= last.code /\ last.code <= codeSize
      BY <1>7, <2>1
    <3> QED
      BY <3>1, <3>2, <1>3
  <2> QED
    BY <1>7, <2>1, <2>2, <2>3 DEF Inside
<1>12. \A m \in DOMAIN (spot \o more) : Inside((spot \o more)[m])
  <2> SUFFICES ASSUME NEW m \in DOMAIN (spot \o more) PROVE Inside((spot \o more)[m])
    OBVIOUS
  <2>1. \/ m \in DOMAIN spot /\ (spot \o more)[m] = spot[m]
        \/ m - Len(spot) \in DOMAIN more /\ (spot \o more)[m] = more[m - Len(spot)]
    BY <1>3, <1>7
  <2> QED
    BY <1>9, <1>11, <2>1
<1>13. spot' = spot \o more
  BY <1>1 DEF more, at
<1>14. \A m \in DOMAIN spot' : Inside(spot[m])'
  BY <1>2, <1>12, <1>13 DEF Inside
<1>15. i' <= Len(entries') + 1
  BY <1>2, <1>3
<1>16. phase' \notin {"getScript", "fillLabelTable"}
  BY <1>2
<1>17. /\ chained(spot', newEntries', sizesReached')
       /\ startOf(spot', sizesReached', 1) = [code |-> 0, data |-> 0]
  BY <1>1, <1>8, <1>10, <1>13
<1> QED
  BY <1>14, <1>15, <1>16, <1>17, Zenon DEF Expanded, chained, startOf, spotOf

\* At the end of the entries the position reached is the size of the sections.
LEMMA LayoutExpanding ==
  ASSUME TypeOK, PassOne, Layout, Expanding
  PROVE  Layout'
<1>1. CASE ExpandFails
  BY <1>1, LayoutExit DEF ExpandFails, ErrorExit
<1>2. CASE ExpandEntry
  <2>1. /\ phase' = "expandMacros" /\ status' = "running" /\ stale' = stale /\ entries' = entries
        /\ codeSize' = codeSize /\ dataSize' = dataSize /\ ltable' = ltable
    BY <1>2 DEF ExpandEntry, NextEntry, Running, scriptVars, passVars
  <2>2. Written' /\ Labelled' /\ Untouched' /\ AtTheEnd'
    BY <2>1 DEF Layout, Written, Labelled, Untouched, AtTheEnd
  <2> QED
    BY <1>2, <2>2, ExpandEntryKeeps DEF Layout
<1>3. CASE ExpandDone
  <2>1. /\ phase = "expandMacros" /\ phase' = "replaceLabels" /\ i \notin DOMAIN entries
        /\ status' = "running" /\ stale' = stale /\ entries' = entries
        /\ codeSize' = codeSize /\ dataSize' = dataSize /\ ltable' = ltable
        /\ newEntries' = newEntries /\ spot' = spot
    BY <1>3 DEF ExpandDone, Goto, Running, AtEntry, scriptVars, passVars, expandVars
  <2>2. Written' /\ Labelled' /\ Untouched' /\ AtTheEnd'
    BY <2>1 DEF Layout, Written, Labelled, Untouched, AtTheEnd
  <2>3. sizesReached = [code |-> codeSize, data |-> dataSize]
    <3>1. i \in Nat \ {0} /\ entries \in Seq(Entry) /\ i <= Len(entries) + 1
      BY <2>1 DEF TypeOK, Layout, Expanded
    <3>2. i = Len(entries) + 1
      BY <3>1, <2>1
    <3>3. Len(before) = Len(entries) + 1
      BY <2>1 DEF PassOne, ReachedByPassOne
    <3>4. before[i] = [code |-> codeSize, data |-> dataSize]
      BY <3>2, <3>3 DEF PassOne
    <3> QED
      BY <2>1, <3>4 DEF sizesReached
  <2>4. sizesReached' = sizesReached
    BY <2>1, <2>3 DEF sizesReached
  <2>5. Expanded'
    BY <2>1, <2>4, Zenon DEF Layout, Expanded, spotOf, Inside
  <2> QED
    BY <2>2, <2>5 DEF Layout
<1> QED
  BY <1>1, <1>2, <1>3 DEF Expanding

---------------------------------------------------------------------------
(* replaceLabels and printToBinary *)

\* After expandMacros the entries keep their kinds and their positions.
LEMMA ExpandedKept ==
  ASSUME TypeOK, Expanded, phase \notin {"getScript", "fillLabelTable", "expandMacros"},
         phase' \notin {"getScript", "fillLabelTable", "expandMacros"},
         UNCHANGED <<spot, codeSize, dataSize>>, Len(newEntries') = Len(newEntries),
         \A m \in DOMAIN newEntries : newEntries'[m].type = newEntries[m].type
  PROVE  Expanded'
<1>1. /\ spot \in Seq(Sizes) /\ newEntries \in Seq(Entry) /\ Len(spot) = Len(newEntries)
      /\ spot' = spot /\ codeSize' = codeSize /\ dataSize' = dataSize
  BY DEF TypeOK, Expanded
<1>2. \A m \in DOMAIN spot : m \in DOMAIN newEntries
  BY <1>1
<1>3. \A m \in DOMAIN spot : afterItem(spot[m], newEntries'[m]) = afterItem(spot[m], newEntries[m])
  BY <1>2 DEF afterItem, dataBytes
<1>4. \A m : spotOf(m)' = spotOf(m)
  BY <1>1 DEF spotOf, sizesReached
<1>5. \A m \in DOMAIN spot : spotOf(m + 1)' = afterItem(spot'[m], newEntries'[m])
  BY <1>1, <1>3, <1>4 DEF Expanded
<1>6. spotOf(1)' = [code |-> 0, data |-> 0]
  BY <1>4 DEF Expanded
<1>7. \A m \in DOMAIN spot' : Inside(spot[m])'
  BY <1>1 DEF Expanded, Inside
<1> QED
  BY <1>1, <1>5, <1>6, <1>7 DEF Expanded

\* replaceLabels changes operands only.
LEMMA LayoutReplacing ==
  ASSUME TypeOK, PassOne, Layout, Replacing
  PROVE  Layout'
<1>1. CASE ReplaceFails \/ ReplaceWild \/ ReplaceOverrun
  BY <1>1, LayoutExit DEF ReplaceFails, ReplaceWild, ReplaceOverrun, Crash, ErrorExit
<1>2. CASE ReplaceEntry \/ ReplaceDone
  <2>1. /\ phase = "replaceLabels" /\ phase' \in {"replaceLabels", "openBinary"}
        /\ status' = "running" /\ stale' = stale /\ entries' = entries
        /\ codeSize' = codeSize /\ dataSize' = dataSize /\ ltable' = ltable /\ spot' = spot
    BY <1>2 DEF ReplaceEntry, ReplaceDone, NextEntry, Goto, Running, scriptVars, passVars, expandVars
  <2>2. Written' /\ Labelled' /\ Untouched' /\ AtTheEnd'
    BY <2>1 DEF Layout, Written, Labelled, Untouched, AtTheEnd
  <2>3. /\ Len(newEntries') = Len(newEntries)
        /\ \A m \in DOMAIN newEntries : newEntries'[m].type = newEntries[m].type
    <3>1. CASE ReplaceDone
      BY <3>1 DEF ReplaceDone, expandVars
    <3>2. CASE ReplaceEntry
      <4>1. PICK args : newEntries' = [newEntries EXCEPT ![i].args = args]
        BY <3>2 DEF ReplaceEntry
      <4>2. newEntries \in Seq(Entry) /\ \A m \in DOMAIN newEntries : newEntries[m] \in Entry
        BY DEF TypeOK
      <4>3. DOMAIN newEntries' = DOMAIN newEntries /\ Len(newEntries') = Len(newEntries)
        BY <4>1, <4>2
      <4>4. \A m \in DOMAIN newEntries : newEntries'[m].type = newEntries[m].type
        BY <4>1, <4>2 DEF Entry
      <4> QED
        BY <4>3, <4>4
    <3> QED
      BY <1>2, <3>1, <3>2
  <2>4. Expanded'
    BY <2>1, <2>3, ExpandedKept DEF Layout
  <2> QED
    BY <2>2, <2>4 DEF Layout
<1> QED
  BY <1>1, <1>2 DEF Replacing

\* One more item fills the next offset of its section.
LEMMA CodeGrows ==
  ASSUME NEW c \in Nat, c % 4 = 0
  PROVE  codeOffsets(c + 4) = codeOffsets(c) \cup {HEADER + c}
<1>1. PICK k \in Nat : c = 4 * k
  BY Quotients
<1>2. c \div 4 = k /\ (c + 4) \div 4 = k + 1
  BY <1>1
<1>3. 0..((k + 1) - 1) = 0..(k - 1) \cup {k}
  OBVIOUS
<1>4. codeOffsets(c) = {HEADER + 4 * n : n \in 0..(k - 1)}
  BY <1>2 DEF codeOffsets
<1>5. codeOffsets(c + 4) = {HEADER + 4 * n : n \in 0..(k - 1) \cup {k}}
  BY <1>2, <1>3 DEF codeOffsets
<1> QED
  BY <1>1, <1>4, <1>5

\* The same of data.
LEMMA DataGrows ==
  ASSUME NEW d \in Nat, d % 8 = 0
  PROVE  dataOffsets(d + 8) = dataOffsets(d) \cup {HEADER + codeSize + d}
<1>1. PICK k \in Nat : d = 8 * k
  BY Quotients
<1>2. d \div 8 = k /\ (d + 8) \div 8 = k + 1
  BY <1>1
<1>3. 0..((k + 1) - 1) = 0..(k - 1) \cup {k}
  OBVIOUS
<1>4. dataOffsets(d) = {HEADER + codeSize + 8 * n : n \in 0..(k - 1)}
  BY <1>2 DEF dataOffsets
<1>5. dataOffsets(d + 8) = {HEADER + codeSize + 8 * n : n \in 0..(k - 1) \cup {k}}
  BY <1>2, <1>3 DEF dataOffsets
<1> QED
  BY <1>1, <1>4, <1>5

\* Sections of size 0 have no offsets.
LEMMA NothingWritten == codeOffsets(0) = {} /\ dataOffsets(0) = {}
<1>1. 0 \div 4 = 0 /\ 0 \div 8 = 0
  OBVIOUS
<1>2. \A n \in 0..(0 - 1) : FALSE
  OBVIOUS
<1> QED
  BY <1>1, <1>2 DEF codeOffsets, dataOffsets

\* The position of an entry, in and at the end of the row.
LEMMA SpotType ==
  ASSUME TypeOK, PassOne, Expanded, phase = "printToBinary", NEW m \in 1..(Len(newEntries) + 1)
  PROVE  spotOf(m) \in Sizes /\ Inside(spotOf(m))
<1>1. spot \in Seq(Sizes) /\ Len(spot) = Len(newEntries)
  BY DEF TypeOK, Expanded
<1>2. CASE m \in DOMAIN spot
  <2>1. spotOf(m) = spot[m]
    BY <1>2 DEF spotOf
  <2> QED
    BY <1>1, <1>2, <2>1 DEF Expanded
<1>3. CASE m \notin DOMAIN spot
  <2>1. spotOf(m) = [code |-> codeSize, data |-> dataSize]
    BY <1>3 DEF spotOf, sizesReached
  <2>2. codeSize \in Nat /\ dataSize \in Nat /\ codeSize % 4 = 0 /\ dataSize % 8 = 0
    BY SizesInside
  <2> QED
    BY <2>1, <2>2 DEF Inside, Sizes
<1> QED
  BY <1>2, <1>3

\* Each item is written at its position, so the offsets written grow by one.
LEMMA WrittenGrows ==
  ASSUME TypeOK, PassOne, Expanded, Written, phase = "printToBinary", i \in DOMAIN newEntries
  PROVE  /\ i + 1 <= Len(newEntries) + 1
         /\ spotOf(i + 1) = [code |-> spotOf(i).code + (IF newEntries[i].type = 0 THEN 4 ELSE 0),
                             data |-> spotOf(i).data + (IF newEntries[i].type = 1 THEN 8 ELSE 0)]
         /\ newEntries[i].type = 0 =>
              DOMAIN mem \cup {cadd} = headerOffsets \cup codeOffsets(spotOf(i + 1).code)
                                                     \cup dataOffsets(spotOf(i + 1).data)
         /\ newEntries[i].type = 1 =>
              DOMAIN mem \cup {dadd} = headerOffsets \cup codeOffsets(spotOf(i + 1).code)
                                                     \cup dataOffsets(spotOf(i + 1).data)
<1>1. /\ newEntries \in Seq(Entry) /\ spot \in Seq(Sizes) /\ Len(spot) = Len(newEntries)
  BY DEF TypeOK, Expanded
<1>2. i \in 1..(Len(newEntries) + 1) /\ i \in DOMAIN spot /\ i + 1 <= Len(newEntries) + 1
  BY <1>1
<1>3. spotOf(i) \in Sizes /\ Inside(spotOf(i))
  BY <1>2, SpotType
<1> DEFINE c == spotOf(i).code
           d == spotOf(i).data
<1>4. c \in Nat /\ d \in Nat /\ c % 4 = 0 /\ d % 8 = 0
  BY <1>3 DEF Sizes, Inside
<1>5. spotOf(i + 1) = [code |-> c + (IF newEntries[i].type = 0 THEN 4 ELSE 0),
                       data |-> d + (IF newEntries[i].type = 1 THEN 8 ELSE 0)]
  <2>1. spotOf(i + 1) = afterItem(spot[i], newEntries[i]) /\ spotOf(i) = spot[i]
    BY <1>2 DEF Expanded, spotOf
  <2> QED
    BY <2>1 DEF afterItem, dataBytes
<1>6. /\ cadd = HEADER + c /\ dadd = HEADER + codeSize + d
      /\ DOMAIN mem = headerOffsets \cup codeOffsets(c) \cup dataOffsets(d)
  BY DEF Written
<1> HIDE DEF c, d
<1>7. codeOffsets(c + 4) = codeOffsets(c) \cup {cadd}
  BY <1>4, <1>6, CodeGrows
<1>8. dataOffsets(d + 8) = dataOffsets(d) \cup {dadd}
  BY <1>4, <1>6, DataGrows
<1>9. ASSUME newEntries[i].type = 0
      PROVE  DOMAIN mem \cup {cadd} = headerOffsets \cup codeOffsets(spotOf(i + 1).code)
                                                    \cup dataOffsets(spotOf(i + 1).data)
  <2>1. spotOf(i + 1).code = c + 4 /\ spotOf(i + 1).data = d
    BY <1>4, <1>5, <1>9
  <2> QED
    BY <1>6, <1>7, <2>1, Zenon
<1>10. ASSUME newEntries[i].type = 1
       PROVE  DOMAIN mem \cup {dadd} = headerOffsets \cup codeOffsets(spotOf(i + 1).code)
                                                     \cup dataOffsets(spotOf(i + 1).data)
  <2>1. spotOf(i + 1).code = c /\ spotOf(i + 1).data = d + 8
    BY <1>4, <1>5, <1>10
  <2> QED
    BY <1>6, <1>8, <2>1, Zenon
<1> QED
  BY <1>2, <1>5, <1>9, <1>10 DEF c, d

\* printToBinary writes each item at its position.
LEMMA LayoutPrinting ==
  ASSUME TypeOK, PassOne, Layout, Printing
  PROVE  Layout'
<1>1. CASE OpenFails \/ NoMemory \/ EmitFails
  <2>1. CASE Exit1
    BY <2>1, LayoutExit DEF Exit1
  <2>2. CASE ErrorExit
    BY <2>2, LayoutExit DEF ErrorExit
  <2>3. CASE NoMemory
    BY <2>3, LayoutExit DEF NoMemory
  <2> QED
    BY <1>1, <2>1, <2>2, <2>3 DEF OpenFails, EmitFails
<1>2. ASSUME UNCHANGED <<scriptVars, passVars, expandVars>>, phase' = "printToBinary",
             phase \in {"openBinary", "printToBinary"}
      PROVE  Expanded' /\ Labelled' /\ Untouched'
  <2>1. /\ stale' = stale /\ entries' = entries /\ newEntries' = newEntries /\ spot' = spot
        /\ codeSize' = codeSize /\ dataSize' = dataSize /\ ltable' = ltable
    BY <1>2 DEF scriptVars, passVars, expandVars
  <2>2. Expanded'
    BY <1>2, <2>1, ExpandedKept DEF Layout
  <2>3. Labelled' /\ Untouched'
    BY <2>1 DEF Layout, Labelled, Untouched
  <2> QED
    BY <2>2, <2>3
<1>3. CASE OpenBinary
  <2>1. /\ phase = "openBinary" /\ phase' = "printToBinary" /\ i' = 1
        /\ status' = "running" /\ mem' = header /\ cadd' = HEADER /\ dadd' = HEADER + codeSize
        /\ UNCHANGED <<scriptVars, passVars, expandVars>>
    BY <1>3 DEF OpenBinary, Running, Goto
  <2>2. Expanded' /\ Labelled' /\ Untouched' /\ AtTheEnd'
    BY <1>2, <2>1 DEF AtTheEnd
  <2>3. Written'
    <3>1. /\ newEntries' = newEntries /\ codeSize' = codeSize /\ codeSize \in Nat
          /\ Len(newEntries) \in Nat
      BY <2>1 DEF TypeOK, passVars, expandVars
    <3>2. spotOf(i)' = [code |-> 0, data |-> 0]
      BY <2>1, <2>2 DEF Expanded, spotOf, sizesReached
    <3>3. cadd' = HEADER + spotOf(i)'.code /\ dadd' = HEADER + codeSize' + spotOf(i)'.data
      BY <2>1, <3>1, <3>2 DEF HEADER
    <3>4. DOMAIN mem' = headerOffsets
      BY <2>1 DEF header, headerOffsets
    <3>5. codeOffsets(0) = {} /\ dataOffsets(0)' = {}
      BY NothingWritten, <3>1 DEF dataOffsets
    <3>6. DOMAIN mem' = headerOffsets \cup codeOffsets(spotOf(i)'.code) \cup (dataOffsets(spotOf(i).data))'
      BY <3>2, <3>4, <3>5
    <3>7. i' <= Len(newEntries') + 1
      BY <2>1, <3>1
    <3> QED
      BY <3>3, <3>6, <3>7 DEF Written, headerOffsets, codeOffsets
  <2> QED
    BY <2>2, <2>3 DEF Layout
<1>4. CASE EmitData \/ EmitInstr \/ EmitNothing
  <2>1. /\ phase = "printToBinary" /\ phase' = "printToBinary" /\ i' = i + 1
        /\ status' = "running" /\ i \in DOMAIN newEntries
        /\ UNCHANGED <<scriptVars, passVars, expandVars>>
    BY <1>4 DEF EmitData, EmitInstr, EmitNothing, Running, AtEntry, NextEntry
  <2>2. Expanded' /\ Labelled' /\ Untouched' /\ AtTheEnd'
    BY <1>2, <2>1 DEF AtTheEnd
  <2>3. Expanded /\ Written
    BY DEF Layout
  <2>4. /\ newEntries' = newEntries /\ codeSize' = codeSize /\ dataSize' = dataSize
        /\ spot' = spot
    BY <2>1 DEF passVars, expandVars
  <2>5. spotOf(i)' = spotOf(i + 1)
    BY <2>1, <2>4 DEF spotOf, sizesReached
  <2>6. /\ codeSize \in Nat /\ spotOf(i).code \in Nat /\ spotOf(i).data \in Nat
    <3>1. i \in 1..(Len(newEntries) + 1)
      <4>1. newEntries \in Seq(Entry)
        BY DEF TypeOK
      <4> QED
        BY <2>1, <4>1
    <3>2. spotOf(i) \in Sizes /\ codeSize \in Nat
      BY <2>1, <2>3, <3>1, SpotType DEF TypeOK
    <3> QED
      BY <3>2 DEF Sizes
  <2>7. cadd = HEADER + spotOf(i).code /\ dadd = HEADER + codeSize + spotOf(i).data
    BY <2>1, <2>3 DEF Written
  <2>8. /\ i + 1 <= Len(newEntries) + 1
        /\ spotOf(i + 1).code = spotOf(i).code + (IF newEntries[i].type = 0 THEN 4 ELSE 0)
        /\ spotOf(i + 1).data = spotOf(i).data + (IF newEntries[i].type = 1 THEN 8 ELSE 0)
    BY <2>1, <2>3, WrittenGrows
  <2>9. /\ cadd' = HEADER + spotOf(i + 1).code
        /\ dadd' = HEADER + codeSize + spotOf(i + 1).data
        /\ DOMAIN mem' = headerOffsets \cup codeOffsets(spotOf(i + 1).code)
                                       \cup dataOffsets(spotOf(i + 1).data)
    <3>1. CASE EmitInstr
      <4>1. /\ newEntries[i].type = 0 /\ cadd' = cadd + 4 /\ dadd' = dadd
            /\ DOMAIN mem' = DOMAIN mem \cup {cadd}
        BY <3>1 DEF EmitInstr, loadMem
      <4>2. DOMAIN mem' = headerOffsets \cup codeOffsets(spotOf(i + 1).code)
                                        \cup dataOffsets(spotOf(i + 1).data)
        BY <2>1, <2>3, <4>1, WrittenGrows
      <4>3. spotOf(i + 1).code = spotOf(i).code + 4 /\ spotOf(i + 1).data = spotOf(i).data
        BY <2>6, <2>8, <4>1
      <4> QED
        BY <2>6, <2>7, <4>1, <4>2, <4>3 DEF HEADER
    <3>2. CASE EmitData
      <4>1. /\ newEntries[i].type = 1 /\ dadd' = dadd + 8 /\ cadd' = cadd
            /\ DOMAIN mem' = DOMAIN mem \cup {dadd}
        BY <3>2 DEF EmitData, loadMem
      <4>2. DOMAIN mem' = headerOffsets \cup codeOffsets(spotOf(i + 1).code)
                                        \cup dataOffsets(spotOf(i + 1).data)
        BY <2>1, <2>3, <4>1, WrittenGrows
      <4>3. spotOf(i + 1).code = spotOf(i).code /\ spotOf(i + 1).data = spotOf(i).data + 8
        BY <2>6, <2>8, <4>1
      <4> QED
        BY <2>6, <2>7, <4>1, <4>2, <4>3 DEF HEADER
    <3>3. CASE EmitNothing
      <4>1. newEntries[i].type \in {2, 3, 4} /\ cadd' = cadd /\ dadd' = dadd /\ mem' = mem
        BY <3>3 DEF EmitNothing, printVars
      <4>2. spotOf(i + 1).code = spotOf(i).code /\ spotOf(i + 1).data = spotOf(i).data
        BY <2>6, <2>8, <4>1
      <4>3. DOMAIN mem = headerOffsets \cup codeOffsets(spotOf(i).code)
                                       \cup dataOffsets(spotOf(i).data)
        BY <2>1, <2>3 DEF Written
      <4> QED
        BY <2>7, <4>1, <4>2, <4>3
    <3> QED
      BY <1>4, <3>1, <3>2, <3>3
  <2>10. Written'
    <3>1. dataOffsets(spotOf(i).data)' = dataOffsets(spotOf(i + 1).data)
      BY <2>4, <2>5 DEF dataOffsets
    <3>2. i' <= Len(newEntries') + 1
      BY <2>1, <2>4, <2>8
    <3>3. codeOffsets(spotOf(i).code)' = codeOffsets(spotOf(i + 1).code)
      BY <2>5 DEF codeOffsets
    <3> QED
      BY <2>4, <2>5, <2>9, <3>1, <3>2, <3>3 DEF Written, headerOffsets
  <2> QED
    BY <2>2, <2>10 DEF Layout
<1>5. CASE WriteOut
  <2>1. /\ phase' = phase /\ i' = i /\ stale' = stale /\ entries' = entries
        /\ codeSize' = codeSize /\ dataSize' = dataSize /\ ltable' = ltable /\ before' = before
        /\ newEntries' = newEntries /\ spot' = spot
        /\ mem' = mem /\ cadd' = cadd /\ dadd' = dadd
        /\ phase = "printToBinary" /\ ~AtEntry(newEntries)
    BY <1>5 DEF WriteOut, Running, progVars, scriptVars, passVars, expandVars, printVars
  <2>2. Expanded' /\ Written'
    BY <2>1 DEF Layout, Expanded, Written, spotOf, sizesReached, afterItem, dataBytes, Inside,
                headerOffsets, codeOffsets, dataOffsets
  <2>3. Labelled' /\ Untouched' /\ AtTheEnd'
    BY <2>1 DEF Layout, Labelled, Untouched, AtTheEnd, AtEntry
  <2> QED
    BY <2>2, <2>3 DEF Layout
<1> QED
  BY <1>1, <1>3, <1>4, <1>5 DEF Printing

---------------------------------------------------------------------------
(* The theorems *)

\* Nothing happens.
LEMMA LayoutStutter ==
  ASSUME Layout, UNCHANGED vars
  PROVE  Layout'
<1>1. /\ phase' = phase /\ i' = i /\ status' = status /\ stale' = stale /\ entries' = entries
      /\ codeSize' = codeSize /\ dataSize' = dataSize /\ ltable' = ltable /\ before' = before
      /\ newEntries' = newEntries /\ spot' = spot
      /\ mem' = mem /\ cadd' = cadd /\ dadd' = dadd
  BY DEF vars, progVars, scriptVars, passVars, expandVars, printVars
<1>2. Expanded' /\ Written'
  BY <1>1 DEF Layout, Expanded, Written, spotOf, sizesReached, afterItem, dataBytes, Inside,
              headerOffsets, codeOffsets, dataOffsets
<1>3. Labelled' /\ Untouched' /\ AtTheEnd'
  BY <1>1 DEF Layout, Labelled, Untouched, AtTheEnd, AtEntry
<1> QED
  BY <1>2, <1>3 DEF Layout

\* Every step of the program.
LEMMA LayoutStep ==
  ASSUME "bang" \notin StaleTexts, TypeOK, PassOne, Layout, [Next]_vars
  PROVE  Layout'
<1>1. CASE Reading
  BY <1>1, LayoutReading
<1>2. CASE Filling
  BY <1>2, LayoutFilling
<1>3. CASE Expanding
  BY <1>3, LayoutExpanding
<1>4. CASE Replacing
  BY <1>4, LayoutReplacing
<1>5. CASE Printing
  BY <1>5, LayoutPrinting
<1>6. CASE Ended \/ UNCHANGED vars
  BY <1>6, LayoutStutter DEF Ended
<1> QED
  BY <1>1, <1>2, <1>3, <1>4, <1>5, <1>6 DEF Next

\* The parts of Inductive hold in every state of every run.
THEOREM LayoutInvariant ==
  ASSUME "bang" \notin StaleTexts
  PROVE  Spec => []Inductive
<1>1. Init => TypeOK /\ PassOne /\ Layout
  BY TypeInit, LayoutInit
<1>2. TypeOK /\ PassOne /\ Layout /\ [Next]_vars => (TypeOK /\ PassOne /\ Layout)'
  BY TypeStep, LayoutStep
<1>3. TypeOK /\ PassOne /\ Layout => Inductive
  BY DEF Layout, Inductive
<1> QED
  BY <1>1, <1>2, <1>3, PTL DEF Spec

\* The second pass never writes outside the section the first has sized, and at the
\* end has filled both: the columns cnt and the expansions agree for every command.
THEOREM PassesAgreeAlways ==
  ASSUME "bang" \notin StaleTexts
  PROVE  Spec => []PassesAgree
<1>1. TypeOK /\ Inductive => PassesAgree
  <2> SUFFICES ASSUME TypeOK, Inductive, phase = "printToBinary"
               PROVE  /\ cadd <= HEADER + codeSize
                      /\ dadd <= HEADER + codeSize + dataSize
                      /\ ~AtEntry(newEntries) => /\ cadd = HEADER + codeSize
                                                 /\ dadd = HEADER + codeSize + dataSize
    BY DEF PassesAgree
  <2>1. PassOne /\ Expanded /\ Written
    BY DEF Inductive
  <2>2. i \in 1..(Len(newEntries) + 1) /\ codeSize \in Nat /\ dataSize \in Nat
    BY <2>1 DEF TypeOK, Written
  <2>3. spotOf(i) \in Sizes /\ Inside(spotOf(i))
    BY <2>1, <2>2, SpotType
  <2>4. cadd = HEADER + spotOf(i).code /\ dadd = HEADER + codeSize + spotOf(i).data
    BY <2>1 DEF Written
  <2>5. /\ spotOf(i).code \in Nat /\ spotOf(i).code <= codeSize
        /\ spotOf(i).data \in Nat /\ spotOf(i).data <= dataSize
    BY <2>3 DEF Sizes, Inside
  <2>6. cadd <= HEADER + codeSize /\ dadd <= HEADER + codeSize + dataSize
    <3>1. \A b, x, y \in Nat : x <= y => b + x <= b + y
      OBVIOUS
    <3>2. HEADER \in Nat /\ HEADER + codeSize \in Nat
      BY <2>2 DEF HEADER
    <3> QED
      BY <2>2, <2>4, <2>5, <3>1, <3>2, Zenon
  <2>7. ASSUME ~AtEntry(newEntries)
        PROVE  cadd = HEADER + codeSize /\ dadd = HEADER + codeSize + dataSize
    <3>1. i \notin DOMAIN spot
      BY <2>1, <2>7 DEF AtEntry, Expanded, TypeOK
    <3> QED
      BY <2>4, <3>1 DEF spotOf, sizesReached
  <2> QED
    BY <2>6, <2>7
<1> QED
  BY <1>1, TypeCorrect, LayoutInvariant, PTL

\* What a successful run leaves behind: every offset of the image is written.
LEMMA AllWritten ==
  ASSUME TypeOK, Inductive, status = "ok"
  PROVE  DOMAIN mem = headerOffsets \cup codeOffsets(codeSize) \cup dataOffsets(dataSize)
<1>1. Expanded /\ Written /\ phase = "printToBinary" /\ ~AtEntry(newEntries)
  BY DEF Inductive, AtTheEnd
<1>2. i \notin DOMAIN spot
  BY <1>1 DEF AtEntry, Expanded, TypeOK
<1>3. spotOf(i) = [code |-> codeSize, data |-> dataSize]
  BY <1>1, <1>2 DEF spotOf, sizesReached
<1> QED
  BY <1>1, <1>3 DEF Written

\* No byte of the buffer that malloc returned reaches the file as it was.
THEOREM ImageAlwaysComplete ==
  ASSUME "bang" \notin StaleTexts
  PROVE  Spec => []ImageComplete
<1>1. TypeOK /\ Inductive => ImageComplete
  BY AllWritten DEF ImageComplete
<1> QED
  BY <1>1, TypeCorrect, LayoutInvariant, PTL

\* A label never names the end of a section or the middle of a datum.
THEOREM LabelsAlwaysInImage ==
  ASSUME "bang" \notin StaleTexts
  PROVE  Spec => []LabelsInImage
<1>1. TypeOK /\ Inductive => LabelsInImage
  <2> SUFFICES ASSUME TypeOK, Inductive, status = "ok", NEW n \in DOMAIN ltable
               PROVE  imageOffset(ltable[n].address) \cap DOMAIN mem # {}
    BY DEF LabelsInImage
  <2> DEFINE a == ltable[n].address
  <2>1. codeSize \in Nat /\ dataSize \in Nat /\ codeSize % 4 = 0 /\ dataSize % 8 = 0
    BY SizesInside DEF Inductive
  <2>2. PICK c \in Nat, d \in Nat : codeSize = 4 * c /\ dataSize = 8 * d
    BY <2>1, Quotients
  <2>3. codeSize \div 4 = c /\ dataSize \div 8 = d
    BY <2>2
  <2>4. CASE \E x \in 0..codeSize : a = CODE_BASE + 4 * x /\ 4 * x < codeSize
    <3>1. PICK x \in 0..codeSize : a = CODE_BASE + 4 * x /\ 4 * x < codeSize
      BY <2>4
    <3>2. x \in 0..(c - 1)
      BY <2>2, <3>1
    <3>3. HEADER + 4 * x \in codeOffsets(codeSize)
      BY <2>3, <3>2 DEF codeOffsets
    <3>4. HEADER + (a - CODE_BASE) = HEADER + 4 * x
      BY <3>1, LayoutAssumption DEF HEADER
    <3> QED
      BY <3>3, <3>4, AllWritten DEF imageOffset
  <2>5. CASE \E x \in 0..dataSize : a = DATA_BASE + 8 * x /\ 8 * x < dataSize
    <3>1. PICK x \in 0..dataSize : a = DATA_BASE + 8 * x /\ 8 * x < dataSize
      BY <2>5
    <3>2. x \in 0..(d - 1)
      BY <2>2, <3>1
    <3>3. HEADER + codeSize + 8 * x \in dataOffsets(dataSize)
      BY <2>3, <3>2 DEF dataOffsets
    <3>4. HEADER + codeSize + (a - DATA_BASE) = HEADER + codeSize + 8 * x
      BY <2>1, <3>1, LayoutAssumption DEF HEADER
    <3> QED
      BY <3>3, <3>4, AllWritten DEF imageOffset
  <2> QED
    BY <2>4, <2>5 DEF Inductive, Labelled
<1> QED
  BY <1>1, TypeCorrect, LayoutInvariant, PTL

---------------------------------------------------------------------------
(* What a run leaves behind *)

\* The files in every state of a run, and what FilesTell needs of them while it goes on.
FilesKept == /\ argv2 = "old" => mem = <<>>
             /\ argv2 = "image" <=> status = "ok"
             /\ argv3 # "old" => argv2 = "none" /\ status # "running"
             /\ phase = "printToBinary" => argv2 # "old"

\* The steps that leave the files and the buffer alone.
LEMMA FilesUntouched ==
  ASSUME FilesKept, status = "running", status' # "ok", UNCHANGED <<files, mem>>,
         phase' = "printToBinary" => phase = "printToBinary"
  PROVE  FilesKept'
BY DEF FilesKept, files

\* The steps that end the run in failure.
LEMMA FilesAtExit ==
  ASSUME FilesKept, status = "running", Exit1 \/ ErrorExit \/ Crash
  PROVE  FilesKept'
<1>1. CASE ErrorExit
  BY <1>1 DEF FilesKept, ErrorExit
<1>2. CASE Exit1 \/ Crash
  BY <1>2, FilesUntouched DEF Exit1, Crash, printVars, progVars
<1> QED
  BY <1>1, <1>2

LEMMA FilesPrinting ==
  ASSUME FilesKept, status = "running", Printing
  PROVE  FilesKept'
<1>1. CASE OpenBinary
  BY <1>1 DEF FilesKept, OpenBinary, Running, Goto
<1>2. CASE OpenFails \/ EmitFails
  BY <1>2, FilesAtExit DEF OpenFails, EmitFails
<1>3. CASE NoMemory
  BY <1>3 DEF FilesKept, NoMemory, progVars, printVars
<1>4. CASE EmitData \/ EmitInstr
  BY <1>4 DEF FilesKept, EmitData, EmitInstr, Running, NextEntry, files
<1>5. CASE EmitNothing
  BY <1>5, FilesUntouched DEF EmitNothing, Running, NextEntry, printVars
<1>6. CASE WriteOut
  BY <1>6 DEF FilesKept, WriteOut, Running, progVars, printVars
<1> QED
  BY <1>1, <1>2, <1>3, <1>4, <1>5, <1>6 DEF Printing

\* Before the layout starts no step touches the files but by failing.
LEMMA FilesStep ==
  ASSUME FilesKept, [Next]_vars
  PROVE  FilesKept'
<1>1. CASE Reading
  <2>1. CASE NoScript
    BY <1>1, <2>1, FilesAtExit DEF NoScript, Running
  <2>2. CASE EndOfFile
    BY <2>2, FilesUntouched DEF EndOfFile, Running, Goto, printVars
  <2>3. ASSUME NEW ln \in Lines, ReadDirective(ln) \/ ReadLabel(ln) \/ ReadData(ln) \/ ReadInstr(ln)
        PROVE  FilesKept'
    <3>1. CASE Exit1
      BY <2>3, <3>1, FilesAtExit DEF ReadDirective, ReadLabel, ReadData, ReadInstr, Running
    <3>2. CASE ~Exit1
      <4>1. status = "running" /\ status' = status /\ phase' = phase /\ UNCHANGED <<files, mem>>
        BY <2>3, <3>2 DEF ReadDirective, ReadLabel, ReadData, ReadInstr, Running, Save,
                          progVars, printVars
      <4> QED
        BY <4>1, FilesUntouched
    <3> QED
      BY <3>1, <3>2
  <2> QED
    BY <1>1, <2>1, <2>2, <2>3 DEF Reading
<1>2. CASE Filling
  <2>1. status = "running" /\ status' = status /\ UNCHANGED <<files, mem>>
        /\ phase' # "printToBinary"
    BY <1>2 DEF Filling, FillLabel, FillItem, FillDirective, FillDone, FillStep, Running,
                NextEntry, Goto, printVars
  <2> QED
    BY <2>1, FilesUntouched
<1>3. CASE ExpandEntry \/ ExpandDone
  <2>1. status = "running" /\ status' = status /\ UNCHANGED <<files, mem>>
        /\ phase' # "printToBinary"
    BY <1>3 DEF ExpandEntry, ExpandDone, Running, NextEntry, Goto, printVars
  <2> QED
    BY <2>1, FilesUntouched
<1>4. CASE ReplaceEntry \/ ReplaceDone
  <2>1. status = "running" /\ status' = status /\ UNCHANGED <<files, mem>>
        /\ phase' # "printToBinary"
    BY <1>4 DEF ReplaceEntry, ReplaceDone, Running, NextEntry, Goto, printVars
  <2> QED
    BY <2>1, FilesUntouched
<1>5. CASE ExpandFails \/ ReplaceFails \/ ReplaceWild \/ ReplaceOverrun
  BY <1>5, FilesAtExit DEF ExpandFails, ReplaceFails, ReplaceWild, ReplaceOverrun, Running
<1>6. CASE Printing
  <2>1. status = "running"
    BY <1>6 DEF Printing, OpenBinary, OpenFails, NoMemory, EmitData, EmitInstr, EmitFails,
                EmitNothing, WriteOut, Running
  <2> QED
    BY <1>6, <2>1, FilesPrinting
<1>7. CASE Ended \/ UNCHANGED vars
  BY <1>7 DEF FilesKept, Ended, vars, progVars, printVars, files
<1> QED
  BY <1>1, <1>2, <1>3, <1>4, <1>5, <1>6, <1>7 DEF Next, Expanding, Replacing

\* The files of a run that has ended say how far it came: fopen empties the second
\* before a word is encoded, and error() removes both.
THEOREM FilesAlwaysTell == Spec => []FilesTell
<1>1. Init => FilesKept
  BY DEF Init, FilesKept
<1>2. FilesKept /\ [Next]_vars => FilesKept'
  BY FilesStep
<1>3. FilesKept => FilesTell
  BY DEF FilesKept, FilesTell
<1> QED
  BY <1>1, <1>2, <1>3, PTL DEF Spec
=============================================================================
