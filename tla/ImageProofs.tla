----------------------------- MODULE ImageProofs -----------------------------
(***************************************************************************)
(* What printToBinary writes: no item is written over, so each stands in   *)
(* the image where its entry's position says, and the simulator's table    *)
(* reads a word as the operation it was encoded from.                      *)
(***************************************************************************)
EXTENDS AssemblerProofs

---------------------------------------------------------------------------
(* Macros are gone once expandMacros has run *)

\* An expansion is made of instructions the machine has.
LEMMA ExpansionHasNoMacro ==
  ASSUME NEW c \in Commands, NEW args, NEW table, NEW x \in expandMacro(c, args, table),
         NEW n \in DOMAIN x
  PROVE  x[n].cmd \notin Macros
<1> DEFINE plain(s) == \A k \in DOMAIN s : s[k].cmd \notin Macros
<1>1. \A rd : plain(xor(rd)) /\ plain(push(rd)) /\ plain(pop(rd))
  BY DEF xor, push, pop, Instr, Macros
<1>2. \A rd, rs, op : plain(priv(rd, rs, op))
  BY DEF priv, Instr, Macros
<1>3. \A rd, v : plain(ld(rd, v))
  BY DEF ld, Instr, Macros
<1>4. c \notin Macros => plain(<<Instr(c, args)>>)
  BY DEF Instr
<1> HIDE DEF plain
<1>5. plain(x)
  BY <1>1, <1>2, <1>3, <1>4 DEF expandMacro, Macros
<1> QED
  BY <1>5 DEF plain

\* So are the entries that one entry is rewritten to.
LEMMA RewritingHasNoMacro ==
  ASSUME ltable \in Seq(LabelRow), NEW e \in Entry, NEW new \in rewritings(e),
         NEW n \in DOMAIN new, e.wild # "bang", new[n].type = 0
  PROVE  new[n].cmd \notin Macros
<1>1. CASE e.type = 0
  <2>1. PICK x \in expandMacro(e.cmd, e.args, ltable) : new = instrEntries(x)
    BY <1>1 DEF rewritings
  <2>2. n \in DOMAIN x /\ new[n].cmd = x[n].cmd
    BY <2>1 DEF instrEntries, instrEntry, EntryOf
  <2>3. e.cmd \in Commands
    BY DEF Entry
  <2> QED
    BY <2>2, <2>3, ExpansionHasNoMacro
<1>2. CASE e.type # 0
  <2>1. new = <<e>>
    BY <1>2, RewritingType
  <2> QED
    BY <1>2, <2>1
<1> QED
  BY <1>1, <1>2

\* An entry of two sequences joined is one of either.
LEMMA JoinedEntry ==
  ASSUME NEW S, NEW s \in Seq(S), NEW t \in Seq(S), NEW k \in DOMAIN (s \o t)
  PROVE  \/ k \in DOMAIN s /\ (s \o t)[k] = s[k]
         \/ \E n \in DOMAIN t : k = Len(s) + n /\ (s \o t)[k] = t[n]
<1>1. k \in 1..(Len(s) + Len(t)) /\ Len(s) \in Nat /\ Len(t) \in Nat
  OBVIOUS
<1>2. CASE k <= Len(s)
  BY <1>1, <1>2
<1>3. CASE k > Len(s)
  <2>1. k - Len(s) \in DOMAIN t /\ k = Len(s) + (k - Len(s))
    BY <1>1, <1>3
  <2>2. (s \o t)[k] = t[k - Len(s)]
    BY <1>1, <1>3
  <2> QED
    BY <2>1, <2>2
<1> QED
  BY <1>1, <1>2, <1>3

\* Every step keeps it: expandMacros appends what has no macro, and the later
\* phases change operands only.
LEMMA MacrosStayGone ==
  ASSUME TypeOK, Untouched, MacrosGone, [Next]_vars
  PROVE  MacrosGone'
<1>1. CASE newEntries' = newEntries
  BY <1>1 DEF MacrosGone
<1>2. CASE ExpandEntry
  <2>1. PICK new \in rewritings(entries[i]) : newEntries' = newEntries \o new
    BY <1>2 DEF ExpandEntry
  <2>2. entries \in Seq(Entry) /\ newEntries \in Seq(Entry) /\ ltable \in Seq(LabelRow)
    BY DEF TypeOK
  <2>3. i \in DOMAIN entries /\ entries[i] \in Entry /\ entries[i].wild # "bang"
    BY <1>2, <2>2 DEF ExpandEntry, AtEntry, Untouched
  <2>4. new \in Seq(Entry)
    BY <2>2, <2>3, RewritingType
  <2>5. \A n \in DOMAIN new : new[n].type = 0 => new[n].cmd \notin Macros
    BY <2>2, <2>3, RewritingHasNoMacro
  <2> QED
    BY <2>1, <2>2, <2>4, <2>5, JoinedEntry DEF MacrosGone
<1>3. CASE ReplaceEntry
  <2>1. PICK args : newEntries' = [newEntries EXCEPT ![i].args = args]
    BY <1>3 DEF ReplaceEntry
  <2>2. newEntries \in Seq(Entry) /\ \A m \in DOMAIN newEntries : newEntries[m] \in Entry
    BY DEF TypeOK
  <2>3. DOMAIN newEntries' = DOMAIN newEntries
    BY <2>1, <2>2
  <2>4. \A m \in DOMAIN newEntries : /\ newEntries'[m].type = newEntries[m].type
                                     /\ newEntries'[m].cmd = newEntries[m].cmd
    BY <2>1, <2>2 DEF Entry
  <2> QED
    BY <2>3, <2>4 DEF MacrosGone
<1>4. newEntries' = newEntries \/ ExpandEntry \/ ReplaceEntry
  <2>1. CASE Reading
    BY <2>1 DEF Reading, NoScript, ReadDirective, ReadLabel, ReadData, ReadInstr, EndOfFile,
                Save, Exit1, Crash, expandVars
  <2>2. CASE Filling
    BY <2>2 DEF Filling, FillLabel, FillItem, FillDirective, FillDone, expandVars
  <2>3. CASE Expanding
    BY <2>3 DEF Expanding, ExpandFails, ExpandDone, ErrorExit, expandVars
  <2>4. CASE Replacing
    BY <2>4 DEF Replacing, ReplaceFails, ReplaceWild, ReplaceOverrun, ReplaceDone, ErrorExit,
                Crash, expandVars
  <2>5. CASE Printing
    BY <2>5 DEF Printing, OpenBinary, OpenFails, NoMemory, EmitData, EmitInstr, EmitFails, EmitNothing,
                WriteOut, Exit1, ErrorExit, expandVars
  <2>6. CASE Ended \/ UNCHANGED vars
    BY <2>6 DEF Ended, vars, expandVars
  <2> QED
    BY <2>1, <2>2, <2>3, <2>4, <2>5, <2>6 DEF Next
<1> QED
  BY <1>1, <1>2, <1>3, <1>4

---------------------------------------------------------------------------
(* No item is written over *)

\* What has been written lies below the next word of code, or between the start of
\* the data and the next datum.
LEMMA OffsetRange ==
  ASSUME NEW c \in Nat, c % 4 = 0, NEW d \in Nat, d % 8 = 0, codeSize \in Nat, c <= codeSize,
         NEW o \in headerOffsets \cup codeOffsets(c) \cup dataOffsets(d)
  PROVE  /\ o < HEADER + c \/ HEADER + codeSize <= o
         /\ o < HEADER + codeSize + d
<1>1. CASE o \in headerOffsets
  BY <1>1 DEF headerOffsets, HEADER
<1>2. CASE o \in codeOffsets(c)
  <2>1. PICK n \in 0..((c \div 4) - 1) : o = HEADER + 4 * n
    BY <1>2 DEF codeOffsets
  <2>2. c \div 4 \in Nat /\ c = 4 * (c \div 4)
    BY Quotients
  <2> QED
    BY <2>1, <2>2 DEF HEADER
<1>3. CASE o \in dataOffsets(d)
  <2>1. PICK n \in 0..((d \div 8) - 1) : o = HEADER + codeSize + 8 * n
    BY <1>3 DEF dataOffsets
  <2>2. d \div 8 \in Nat /\ d = 8 * (d \div 8)
    BY Quotients
  <2> QED
    BY <2>1, <2>2 DEF HEADER
<1> QED
  BY <1>1, <1>2, <1>3

\* The item of the current entry goes where nothing has been written.
LEMMA NextIsFree ==
  ASSUME TypeOK, PassOne, Expanded, Written, phase = "printToBinary", i \in DOMAIN newEntries
  PROVE  /\ newEntries[i].type = 0 => cadd = wordAt(i) /\ cadd \notin DOMAIN mem
         /\ newEntries[i].type = 1 => dadd = datumAt(i) /\ dadd \notin DOMAIN mem
<1>1. i \in DOMAIN spot /\ i \in 1..(Len(newEntries) + 1) /\ i + 1 \in 1..(Len(newEntries) + 1)
  BY DEF TypeOK, Expanded
<1>2. spotOf(i) = spot[i] /\ spotOf(i + 1) = afterItem(spot[i], newEntries[i])
  BY <1>1 DEF spotOf, Expanded
<1>3. spotOf(i) \in Sizes /\ Inside(spotOf(i)) /\ Inside(spotOf(i + 1))
  BY <1>1, SpotType
<1> DEFINE c == spot[i].code
           d == spot[i].data
<1>4. c \in Nat /\ d \in Nat /\ c % 4 = 0 /\ d % 8 = 0 /\ c <= codeSize /\ codeSize \in Nat
  BY <1>2, <1>3 DEF Sizes, Inside, TypeOK
<1>5. cadd = wordAt(i) /\ dadd = datumAt(i)
  BY <1>2 DEF Written, wordAt, datumAt
<1>6. \A o \in DOMAIN mem : /\ o < HEADER + c \/ HEADER + codeSize <= o
                            /\ o < HEADER + codeSize + d
  <2>1. DOMAIN mem = headerOffsets \cup codeOffsets(c) \cup dataOffsets(d)
    BY <1>2 DEF Written
  <2> HIDE DEF c, d
  <2> QED
    BY <2>1, <1>4, OffsetRange
<1>7. newEntries[i].type = 0 => c < codeSize
  <2> SUFFICES ASSUME newEntries[i].type = 0 PROVE c < codeSize
    OBVIOUS
  <2>1. spotOf(i + 1).code = c + 4
    BY <1>2 DEF afterItem
  <2> QED
    BY <1>3, <1>4, <2>1 DEF Inside
<1> HIDE DEF c, d
<1>8. newEntries[i].type = 0 => HEADER + c \notin DOMAIN mem
  BY <1>4, <1>6, <1>7 DEF HEADER
<1>9. HEADER + codeSize + d \notin DOMAIN mem
  BY <1>4, <1>6 DEF HEADER
<1> QED
  BY <1>5, <1>8, <1>9 DEF wordAt, datumAt, c, d

\* What loadMem writes, and what it leaves.
LEMMA LoadMem ==
  ASSUME NEW add, NEW item, NEW m
  PROVE  /\ add \in DOMAIN loadMem(add, item, m) /\ loadMem(add, item, m)[add] = item
         /\ \A o \in DOMAIN m : o \in DOMAIN loadMem(add, item, m)
                                /\ (o # add => loadMem(add, item, m)[o] = m[o])
  BY DEF loadMem

\* An encoding that succeeds is a word and nothing else.
LEMMA EncodedShape ==
  ASSUME NEW c, NEW args, getInstruction(c, args).how = "ok"
  PROVE  getInstruction(c, args) = Encoded(getInstruction(c, args).w)
<1> DEFINE fine(r) == r.how = "ok" => r = Encoded(r.w)
<1>1. fine(Error) /\ fine(Exit) /\ \A w : fine(Encoded(w))
  BY DEF Error, Exit, Encoded
<1> HIDE DEF fine
<1>2. \A op, a, m, rd, rs : fine(movMem(op, a, m, rd, rs))
  BY <1>1 DEF movMem
<1>3. \A op, a, b : fine(movLit(op, a, b))
  BY <1>1 DEF movLit
<1>4. fine(getMovInstruction(args))
  BY <1>1, <1>2, <1>3, Zenon DEF getMovInstruction
<1>5. fine(getBrrInstruction(args))
  BY <1>1, Zenon DEF getBrrInstruction
<1>6. fine(getPlainInstruction(c, args))
  BY <1>1, Zenon DEF getPlainInstruction
<1>7. fine(getInstruction(c, args))
  BY <1>4, <1>5, <1>6, Zenon DEF getInstruction
<1> QED
  BY <1>7 DEF fine

\* Each step of printToBinary writes the current entry's item and no other's.
LEMMA EmittedStep ==
  ASSUME TypeOK, PassOne, Layout, Emitted, [Next]_vars
  PROVE  Emitted'
<1> SUFFICES ASSUME phase' = "printToBinary"
             PROVE  Emitted'
  BY DEF Emitted
<1>1. newEntries \in Seq(Entry) /\ i \in Nat \ {0}
  BY DEF TypeOK
<1>2. CASE UNCHANGED <<phase, i, newEntries, spot, codeSize, mem>>
  BY <1>2 DEF Emitted, wordAt, datumAt
<1>3. CASE OpenBinary
  <2>1. i' = 1 /\ newEntries' = newEntries
    BY <1>3 DEF OpenBinary, Goto, expandVars
  <2>2. \A m \in DOMAIN newEntries : ~(m < 1)
    BY <1>1
  <2> QED
    BY <2>1, <2>2 DEF Emitted
<1>4. CASE EmitNothing
  <2>1. /\ phase = "printToBinary" /\ i' = i + 1 /\ newEntries[i].type \in {2, 3, 4}
        /\ newEntries' = newEntries /\ spot' = spot /\ codeSize' = codeSize /\ mem' = mem
    BY <1>4 DEF EmitNothing, Running, NextEntry, expandVars, passVars, printVars
  <2>2. \A m \in DOMAIN newEntries : m < i + 1 => m < i \/ m = i
    BY <1>1
  <2> QED
    BY <2>1, <2>2 DEF Emitted, wordAt, datumAt
<1>5. CASE EmitInstr
  <2>1. /\ phase = "printToBinary" /\ i' = i + 1 /\ i \in DOMAIN newEntries
        /\ newEntries' = newEntries /\ spot' = spot /\ codeSize' = codeSize
        /\ newEntries[i].type = 0 /\ encoded.how = "ok"
        /\ mem' = loadMem(cadd, WordItem(encoded.w), mem)
    BY <1>5 DEF EmitInstr, Running, AtEntry, NextEntry, expandVars, passVars
  <2>2. cadd = wordAt(i) /\ cadd \notin DOMAIN mem
    BY <2>1, NextIsFree DEF Layout
  <2>3. \A o \in DOMAIN mem : o \in DOMAIN mem' /\ mem'[o] = mem[o]
    BY <2>1, <2>2, LoadMem
  <2>4. wordAt(i) \in DOMAIN mem' /\ mem'[wordAt(i)].w = encoded.w
    BY <2>1, <2>2, LoadMem DEF WordItem
  <2>5. encoded = Encoded(encoded.w)
    BY <2>1, EncodedShape DEF encoded
  <2>6. \A m \in DOMAIN newEntries : m < i + 1 => m < i \/ m = i
    BY <1>1
  <2>7. \A m : wordAt(m)' = wordAt(m) /\ datumAt(m)' = datumAt(m)
    BY <2>1 DEF wordAt, datumAt
  <2> QED
    BY <2>1, <2>3, <2>4, <2>5, <2>6, <2>7 DEF Emitted, encoded
<1>6. CASE EmitData
  <2>1. /\ phase = "printToBinary" /\ i' = i + 1 /\ i \in DOMAIN newEntries
        /\ newEntries' = newEntries /\ spot' = spot /\ codeSize' = codeSize
        /\ newEntries[i].type = 1 /\ mem' = loadMem(dadd, DataItem(newEntries[i].val), mem)
    BY <1>6 DEF EmitData, Running, AtEntry, NextEntry, expandVars, passVars
  <2>2. dadd = datumAt(i) /\ dadd \notin DOMAIN mem
    BY <2>1, NextIsFree DEF Layout
  <2>3. \A o \in DOMAIN mem : o \in DOMAIN mem' /\ mem'[o] = mem[o]
    BY <2>1, <2>2, LoadMem
  <2>4. datumAt(i) \in DOMAIN mem' /\ mem'[datumAt(i)].v = newEntries[i].val
    BY <2>1, <2>2, LoadMem DEF DataItem
  <2>5. \A m \in DOMAIN newEntries : m < i + 1 => m < i \/ m = i
    BY <1>1
  <2>6. \A m : wordAt(m)' = wordAt(m) /\ datumAt(m)' = datumAt(m)
    BY <2>1 DEF wordAt, datumAt
  <2> QED
    BY <2>1, <2>3, <2>4, <2>5, <2>6 DEF Emitted
<1>7. CASE WriteOut \/ Ended \/ UNCHANGED vars
  BY <1>2, <1>7 DEF WriteOut, Ended, vars, progVars, passVars, expandVars, printVars
<1>8. CASE Exit1 \/ ErrorExit \/ NoMemory \/ Crash
  BY <1>2, <1>8 DEF Exit1, ErrorExit, NoMemory, Crash, progVars, passVars, expandVars, printVars
<1>9. \/ OpenBinary \/ EmitNothing \/ EmitInstr \/ EmitData \/ Exit1 \/ ErrorExit \/ Crash
      \/ NoMemory \/ WriteOut \/ Ended \/ UNCHANGED vars
  <2>1. CASE Reading
    BY <2>1 DEF Reading, NoScript, ReadDirective, ReadLabel, ReadData, ReadInstr, EndOfFile,
                Save, Running, Goto, progVars
  <2>2. CASE Filling
    BY <2>2 DEF Filling, FillLabel, FillItem, FillDirective, FillDone, FillStep, NextEntry,
                Running, Goto
  <2>3. CASE Expanding
    BY <2>3 DEF Expanding, ExpandEntry, ExpandFails, ExpandDone, NextEntry, Running, Goto
  <2>4. CASE Replacing
    BY <2>4 DEF Replacing, ReplaceEntry, ReplaceFails, ReplaceWild, ReplaceOverrun,
                ReplaceDone, NextEntry, Running, Goto
  <2>5. CASE Printing
    BY <2>5 DEF Printing, OpenFails, EmitFails
  <2> QED
    BY <2>1, <2>2, <2>3, <2>4, <2>5 DEF Next
<1> QED
  BY <1>3, <1>4, <1>5, <1>6, <1>7, <1>8, <1>9

---------------------------------------------------------------------------
(* The two tables *)

\* The opcodes that the words of a command can have: the row of the command, or for
\* mov and brr one of the rows that follow it.
opcodes(c) == CASE c = "mov" -> {16, 17, 18, 19}
                [] c = "brr" -> {9, 10}
                [] OTHER     -> {asmOpcode[c] % 32}

LEMMA OpcodeOf ==
  ASSUME NEW c \in Commands, NEW args, getInstruction(c, args).how = "ok"
  PROVE  getInstruction(c, args).w.op \in opcodes(c)
<1> DEFINE of(r, S) == r.how = "ok" => r.w.op \in S
<1>1. \A S : of(Error, S) /\ of(Exit, S)
  BY DEF Error, Exit
<1>2. \A op, rd, rs, rt, imm, S :
         op % 32 \in S => of(Encoded(build_instruction(op, rd, rs, rt, imm)), S)
  BY DEF Encoded, build_instruction
<1>3. of(getMovInstruction(args), {16, 17, 18, 19})
  <2>1. asmOpcode["mov"] = 16
    BY DEF asmOpcode
  <2>2. /\ 16 % 32 = 16 /\ (16 + 1) % 32 = 17 /\ (16 + 2) % 32 = 18 /\ (16 + 3) % 32 = 19
    OBVIOUS
  <2> DEFINE S == {16, 17, 18, 19}
  <2>3. 16 \in S /\ 17 \in S /\ 18 \in S /\ 19 \in S
    OBVIOUS
  <2> HIDE DEF of, S
  <2>4. \A op, a, m, rd, rs : op % 32 \in S => of(movMem(op, a, m, rd, rs), S)
    BY <1>1, <1>2 DEF movMem
  <2>5. \A op, a, b : op % 32 \in S => of(movLit(op, a, b), S)
    BY <1>1, <1>2 DEF movLit
  <2>6. of(getMovInstruction(args), S)
    BY <1>1, <1>2, <2>1, <2>2, <2>3, <2>4, <2>5, Zenon DEF getMovInstruction
  <2> QED
    BY <2>6 DEF S
<1>4. of(getBrrInstruction(args), {9, 10})
  <2>1. asmOpcode["brr"] = 9
    BY DEF asmOpcode
  <2>2. 9 % 32 = 9 /\ (9 + 1) % 32 = 10
    OBVIOUS
  <2> DEFINE S == {9, 10}
  <2>3. 9 \in S /\ 10 \in S
    OBVIOUS
  <2> HIDE DEF of, S
  <2>4. of(getBrrInstruction(args), S)
    BY <1>1, <1>2, <2>1, <2>2, <2>3, Zenon DEF getBrrInstruction
  <2> QED
    BY <2>4 DEF S
<1> HIDE DEF of
<1>5. of(getPlainInstruction(c, args), {asmOpcode[c] % 32})
  <2> DEFINE S == {asmOpcode[c] % 32}
  <2>1. asmOpcode[c] % 32 \in S
    OBVIOUS
  <2> HIDE DEF S
  <2>2. of(getPlainInstruction(c, args), S)
    BY <1>1, <1>2, <2>1, Zenon DEF getPlainInstruction
  <2> QED
    BY <2>2 DEF S
<1>6. of(getInstruction(c, args), opcodes(c))
  BY <1>3, <1>4, <1>5, Zenon DEF getInstruction, opcodes
<1> QED
  BY <1>6 DEF of

\* The simulator has the row: its name is the command's, but for "data", whose opcode
\* of -1 is cut to 31, past the last row.
LEMMA TablesMatch ==
  ASSUME NEW c \in Commands, c \notin Macros, NEW op \in opcodes(c)
  PROVE  simName(getCmd(op)) = IF c = "data" THEN "fault" ELSE c
<1> DEFINE named(n, r) == simName(getCmd(n)) = r
<1>1. /\ named(24, "add") /\ named(25, "addi") /\ named(26, "sub") /\ named(27, "subi")
      /\ named(28, "mul") /\ named(29, "div")
  BY DEF simName, getCmd, simCommand
<1>2. /\ named(0, "and") /\ named(1, "or") /\ named(2, "xor") /\ named(3, "not")
      /\ named(4, "shftr") /\ named(5, "shftri") /\ named(6, "shftl") /\ named(7, "shftli")
  BY DEF simName, getCmd, simCommand
<1>3. /\ named(8, "br") /\ named(9, "brr") /\ named(10, "brr") /\ named(11, "brnz")
      /\ named(12, "call") /\ named(13, "return") /\ named(14, "brgt") /\ named(15, "priv")
  BY DEF simName, getCmd, simCommand
<1>4. /\ named(16, "mov") /\ named(17, "mov") /\ named(18, "mov") /\ named(19, "mov")
      /\ named(20, "addf") /\ named(21, "subf") /\ named(22, "mulf") /\ named(23, "divf")
  BY DEF simName, getCmd, simCommand
<1>5. named(31, "fault")
  BY DEF simName, getCmd
<1> HIDE DEF named
<1>6. c \in {"add", "addi", "sub", "subi", "mul", "div", "and", "or", "xor", "not", "shftr",
             "shftri", "shftl", "shftli", "br", "brr", "brnz", "call", "return", "brgt",
             "priv", "mov", "addf", "subf", "mulf", "divf", "data"}
  BY DEF Commands, asmOpcode, Macros
<1>7. CASE c = "mov"
  BY <1>4, <1>7 DEF opcodes, named
<1>8. CASE c = "brr"
  BY <1>3, <1>8 DEF opcodes, named
<1>9. CASE c \notin {"mov", "brr"}
  <2>1. op = asmOpcode[c] % 32
    BY <1>9 DEF opcodes
  <2>2. CASE c = "data"
    <3>1. asmOpcode["data"] \in Int /\ asmOpcode["data"] + 1 = 0
      BY DEF asmOpcode
    <3>2. \A a \in Int : a + 1 = 0 => a % 32 = 31
      OBVIOUS
    <3>3. op = 31
      BY <2>1, <2>2, <3>1, <3>2
    <3> QED
      BY <1>5, <2>2, <3>3 DEF named
  <2>3. CASE c # "data"
    <3>1. op = asmOpcode[c]
      BY <1>6, <1>9, <2>1, <2>3 DEF asmOpcode
    <3> QED
      BY <1>1, <1>2, <1>3, <1>4, <1>6, <1>9, <2>3, <3>1 DEF asmOpcode, named
  <2> QED
    BY <2>2, <2>3
<1> QED
  BY <1>7, <1>8, <1>9

---------------------------------------------------------------------------
(* The fields of a word *)

\* Five bits of an opcode and of each register, twelve of an immediate.
LEMMA Packed ==
  ASSUME NEW op \in Int, NEW rd \in 0..31, NEW rs \in 0..31, NEW rt \in 0..31, NEW x \in Int
  PROVE  build_instruction(op, rd, rs, rt, x) \in Word
<1>1. op % 32 \in 0..31
  OBVIOUS
<1>2. IMM \in Nat \ {0}
  BY WidthAssumption
<1>3. x % IMM \in 0..(IMM - 1)
  BY <1>2, ModRange
<1> QED
  BY <1>1, <1>3 DEF build_instruction, Word

\* The numbers that the encoder takes from its operands.
LEMMA NumberTypes ==
  ASSUME NEW v \in Int, NEW hex \in BOOLEAN
  PROVE  toInt(parseLiteral(v, hex)) \in Int /\ toLL(parseLiteral(v, hex)) \in Int
<1>1. WORD \in Nat \ {0} /\ INT \in Nat \ {0}
  BY WidthAssumption
<1>2. parseLiteral(v, hex) \in Nat
  BY LiteralType
<1> DEFINE u == parseLiteral(v, hex)
<1>3. u \in Int
  BY <1>2
<1> HIDE DEF u
<1>4. u % INT \in Int
  BY <1>1, <1>3, ModRange
<1>5. toInt(u) \in Int
  BY <1>1, <1>4 DEF toInt
<1>6. toLL(u) \in Int
  BY <1>1, <1>3 DEF toLL
<1> QED
  BY <1>5, <1>6 DEF u

LEMMA OpcodeType == \A c \in Commands : asmOpcode[c] \in Int
  BY ONLY SMTT(30) DEF Commands, asmOpcode

LEMMA SlotType ==
  ASSUME NEW args \in Seq(Operand), NEW n \in Nat \ {0}
  PROVE  slot(args, n) \in Operand
<1>1. Lit(0) \in Operand
  BY OperandTypes
<1>2. n <= Len(args) => args[n] \in Operand
  OBVIOUS
<1> QED
  BY <1>1, <1>2 DEF slot

\* Whatever getInstruction encodes has fields that fit.
LEMMA FieldsOf ==
  ASSUME NEW c \in Commands, NEW args \in Seq(Operand), NEW w, getInstruction(c, args) = Encoded(w)
  PROVE  w \in Word
<1> DEFINE fine(x) == x = Encoded(w) => w \in Word
<1>1. fine(Error) /\ fine(Exit)
  BY DEF Error, Exit, Encoded
<1>2. \A op \in Int, rd \in 0..31, rs \in 0..31, rt \in 0..31, x \in Int :
        fine(Encoded(build_instruction(op, rd, rs, rt, x)))
  BY Packed DEF Encoded
<1> HIDE DEF fine
<1>0. \A m \in Nat : /\ (m < 32 => m \in 0..31)
                     /\ (~(m >= 32) => m \in 0..31)
  OBVIOUS
<1>3. \A a \in Operand : /\ a.n \in Nat /\ a.v \in Int /\ a.hex \in BOOLEAN
                         /\ (isRegister(a) => a.n \in 0..31)
  <2> SUFFICES ASSUME NEW a \in Operand
               PROVE  /\ a.n \in Nat /\ a.v \in Int /\ a.hex \in BOOLEAN
                      /\ (isRegister(a) => a.n \in 0..31)
    OBVIOUS
  <2>1. a.n \in Nat /\ a.v \in Int /\ a.hex \in BOOLEAN
    BY DEF Operand
  <2>2. ASSUME isRegister(a) PROVE a.n \in 0..31
    <3>1. a.n < 32
      BY <2>2 DEF isRegister, NREGS
    <3> QED
      BY <1>0, <2>1, <3>1
  <2> QED
    BY <2>1, <2>2
<1>4. 0 \in 0..31 /\ 0 \in Int
  OBVIOUS
<1>5. asmOpcode[c] \in Int /\ asmOpcode["mov"] = 16 /\ asmOpcode["brr"] = 9
  <2>1. asmOpcode[c] \in Int
    BY OpcodeType
  <2>2. asmOpcode["mov"] = 16
    BY DEF asmOpcode
  <2>3. asmOpcode["brr"] = 9
    BY DEF asmOpcode
  <2> QED
    BY <2>1, <2>2, <2>3
<1>6. fine(getMovInstruction(args))
  <2> DEFINE a == slot(args, 1)
             b == slot(args, 2)
             op == asmOpcode["mov"]
  <2>1. a \in Operand /\ b \in Operand
    BY SlotType
  <2>2. op \in Int /\ op + 1 \in Int /\ op + 2 \in Int /\ op + 3 \in Int
    BY <1>5
  <2> HIDE DEF a, b, op
  <2>3. \A p \in Int : \A x, y \in Operand :
          /\ fine(movMem(p, x, y, x.n, y.n)) /\ fine(movMem(p, x, y, y.n, x.n))
    <3> SUFFICES ASSUME NEW p \in Int, NEW x \in Operand, NEW y \in Operand
                 PROVE  /\ fine(movMem(p, x, y, x.n, y.n)) /\ fine(movMem(p, x, y, y.n, x.n))
      OBVIOUS
    <3> DEFINE imm == toInt(parseLiteral(y.v, y.hex))
    <3>1. imm \in Int
      BY <1>3, NumberTypes
    <3> HIDE DEF imm
    <3>2. CASE ~isRegister(x) \/ y.n >= NREGS
      BY <1>1, <3>2 DEF movMem
    <3>3. CASE isRegister(x) /\ ~(y.n >= NREGS)
      <4>1. x.n \in 0..31
        BY <1>3, <3>3
      <4>2. y.n \in 0..31
        <5>1. y.n \in Nat
          BY <1>3
        <5>2. ~(y.n >= 32)
          BY <3>3 DEF NREGS
        <5> QED
          BY <1>0, <5>1, <5>2
      <4>3. /\ fine(Encoded(build_instruction(p, x.n, y.n, 0, imm)))
            /\ fine(Encoded(build_instruction(p, y.n, x.n, 0, imm)))
        BY <1>2, <1>4, <3>1, <4>1, <4>2
      <4> QED
        BY <1>1, <3>3, <4>3, Zenon DEF movMem, imm
    <3> QED
      BY <3>2, <3>3
  <2>4. \A p \in Int : \A x, y \in Operand : fine(movLit(p, x, y))
    <3> SUFFICES ASSUME NEW p \in Int, NEW x \in Operand, NEW y \in Operand
                 PROVE  fine(movLit(p, x, y))
      OBVIOUS
    <3> DEFINE imm == toInt(parseLiteral(y.v, y.hex))
    <3>1. imm \in Int
      BY <1>3, NumberTypes
    <3>2. isRegister(x) => fine(Encoded(build_instruction(p, x.n, 0, 0, imm)))
      BY <1>2, <1>3, <1>4, <3>1
    <3> QED
      BY <1>1, <3>2, Zenon DEF movLit
  <2>5. isRegister(a) /\ isRegister(b) => fine(Encoded(build_instruction(op + 1, a.n, b.n, 0, 0)))
    BY <1>2, <1>3, <1>4, <2>1, <2>2
  <2>6. fine(Encoded(build_instruction(op, 0, 0, 0, 0)))
    BY <1>2, <1>4, <2>2
  <2> QED
    BY <1>1, <2>1, <2>2, <2>3, <2>4, <2>5, <2>6, Zenon DEF getMovInstruction, a, b, op
<1>7. fine(getBrrInstruction(args))
  <2> DEFINE a == slot(args, 1)
             x == toLL(parseLiteral(a.v, a.hex))
             op == asmOpcode["brr"]
  <2>1. a \in Operand
    BY SlotType
  <2>2. x \in Int
    BY <1>3, <2>1, NumberTypes
  <2>3. op \in Int /\ op + 1 \in Int
    BY <1>5
  <2> HIDE DEF op, x, a
  <2>4. fine(Encoded(build_instruction(op + 1, 0, 0, 0, x)))
    BY <1>2, <1>4, <2>2, <2>3
  <2>5. isRegister(a) => fine(Encoded(build_instruction(op, a.n, 0, 0, 0)))
    BY <1>2, <1>3, <1>4, <2>1, <2>3
  <2> QED
    BY <1>1, <2>4, <2>5, Zenon DEF getBrrInstruction, op, x, a
<1>8. fine(getPlainInstruction(c, args))
  <2> DEFINE a    == instructionList(args)
             lits == {n \in DOMAIN a : a[n].k = "lit"}
             regs == {n \in DOMAIN a : \A j \in lits : n < j}
             r(n) == IF n \in regs THEN a[n].n ELSE 0
             last == Len(a)
             imm  == IF lits = {} THEN 0 ELSE toInt(parseLiteral(a[last].v, a[last].hex))
             bad  == \E n \in regs : ~isRegister(a[n])
             other == lits # (IF hasLit(c) = 1 THEN {last} ELSE {})
  <2>1. a \in Seq(Operand)
    BY DEF instructionList
  <2>2. ~bad => \A n : r(n) \in 0..31
    <3> SUFFICES ASSUME ~bad, NEW n PROVE r(n) \in 0..31
      OBVIOUS
    <3>1. CASE n \in regs
      <4>1. a[n] \in Operand /\ isRegister(a[n])
        BY <2>1, <3>1
      <4> QED
        BY <1>3, <3>1, <4>1
    <3>2. CASE n \notin regs
      BY <3>2
    <3> QED
      BY <3>1, <3>2
  <2>3. imm \in Int
    <3>1. CASE lits = {}
      BY <3>1
    <3>2. CASE lits # {}
      <4>1. a[last] \in Operand
        BY <2>1, <3>2
      <4> QED
        BY <1>3, <3>2, <4>1, NumberTypes
    <3> QED
      BY <3>1, <3>2
  <2>4. getPlainInstruction(c, args) =
          IF last # arglenth(c) THEN Exit
          ELSE IF bad THEN Error
          ELSE IF other \/ ~checkUnsigned(imm) THEN Exit
          ELSE Encoded(build_instruction(asmOpcode[c], r(1), r(2), r(3), imm))
    BY DEF getPlainInstruction
  <2> HIDE DEF bad, imm, r, last, other
  <2>5. ~bad => fine(Encoded(build_instruction(asmOpcode[c], r(1), r(2), r(3), imm)))
    BY <1>2, <1>5, <2>2, <2>3
  <2> QED
    BY <1>1, <2>4, <2>5, Zenon
<1>9. fine(getInstruction(c, args))
  BY <1>6, <1>7, <1>8, Zenon DEF getInstruction
<1> QED
  BY <1>9 DEF fine

\* The fields of every word that is written fit.
LEMMA FieldsStep ==
  ASSUME TypeOK, FieldsFit, [Next]_vars
  PROVE  FieldsFit'
<1>1. ASSUME mem' = mem PROVE FieldsFit'
  BY <1>1 DEF FieldsFit
<1>2. CASE OpenBinary
  BY <1>2 DEF OpenBinary, header, DataItem, FieldsFit
<1>3. CASE EmitData
  BY <1>3 DEF EmitData, loadMem, DataItem, FieldsFit
<1>4. CASE EmitInstr
  <2>1. i \in DOMAIN newEntries /\ newEntries \in Seq(Entry)
    BY <1>4 DEF EmitInstr, AtEntry, TypeOK
  <2>2. newEntries[i].cmd \in Commands /\ newEntries[i].args \in Seq(Operand)
    <3>1. newEntries[i] \in Entry
      BY <2>1
    <3> QED
      BY <3>1 DEF Entry
  <2>3. encoded.w \in Word
    BY <1>4, <2>2, EncodedShape, FieldsOf DEF EmitInstr, encoded
  <2>4. mem' = loadMem(cadd, WordItem(encoded.w), mem)
    BY <1>4 DEF EmitInstr
  <2>5. \A o \in DOMAIN mem' : mem'[o] = WordItem(encoded.w) \/ (o \in DOMAIN mem /\ mem'[o] = mem[o])
    BY <2>4 DEF loadMem
  <2> QED
    BY <2>3, <2>5 DEF FieldsFit, WordItem
<1>5. CASE Reading
  BY <1>1, <1>5 DEF Reading, NoScript, ReadDirective, ReadLabel, ReadData, ReadInstr, EndOfFile,
                    Save, Exit1, Crash, printVars
<1>6. CASE Filling
  BY <1>1, <1>6 DEF Filling, FillLabel, FillItem, FillDirective, FillDone, printVars
<1>7. CASE Expanding
  BY <1>1, <1>7 DEF Expanding, ExpandEntry, ExpandFails, ExpandDone, ErrorExit, printVars
<1>8. CASE Replacing
  BY <1>1, <1>8 DEF Replacing, ReplaceEntry, ReplaceFails, ReplaceWild, ReplaceOverrun, ReplaceDone,
                    ErrorExit, Crash, printVars
<1>9. CASE OpenFails \/ NoMemory \/ EmitFails \/ EmitNothing \/ WriteOut
  BY <1>1, <1>9 DEF OpenFails, NoMemory, EmitFails, EmitNothing, WriteOut, ErrorExit, Exit1, printVars
<1>10. CASE UNCHANGED vars
  BY <1>1, <1>10 DEF vars, printVars
<1> QED
  BY <1>2, <1>3, <1>4, <1>5, <1>6, <1>7, <1>8, <1>9, <1>10 DEF Next, Printing, Ended

---------------------------------------------------------------------------
(* The theorems *)

\* No field of a written word is wider than its place, so build_instruction, which adds
\* fields up without a mask, never changes one by another, for every script.
THEOREM FieldsAlwaysFit == Spec => []FieldsFit
<1>1. Init => FieldsFit
  BY DEF Init, FieldsFit
<1>2. TypeOK /\ FieldsFit /\ [Next]_vars => FieldsFit'
  BY FieldsStep
<1> QED
  BY <1>1, <1>2, TypeCorrect, PTL DEF Spec

\* The image holds each entry's item where the layout puts it, for every script.
THEOREM EmittedAlways ==
  ASSUME "bang" \notin StaleTexts
  PROVE  Spec => [](MacrosGone /\ Emitted)
<1>1. Init => MacrosGone /\ Emitted
  BY DEF Init, MacrosGone, Emitted
<1>2. TypeOK /\ PassOne /\ Inductive /\ MacrosGone /\ Emitted /\ [Next]_vars
      => (MacrosGone /\ Emitted)'
  <2>1. Inductive => Layout /\ Untouched
    BY DEF Inductive, Layout
  <2> QED
    BY <2>1, MacrosStayGone, EmittedStep
<1> QED
  BY <1>1, <1>2, TypeCorrect, LayoutInvariant, PTL DEF Spec

\* The simulator's table reads each word that printToBinary has written as the command
\* it was encoded from, although nothing in the build ties the two tables together.
THEOREM SameOperationAlways ==
  ASSUME "bang" \notin StaleTexts
  PROVE  Spec => []SameOperation
<1>1. TypeOK /\ MacrosGone /\ Emitted => SameOperation
  <2> SUFFICES ASSUME TypeOK, MacrosGone, Emitted, phase = "printToBinary",
                      NEW m \in 1..(i - 1), m \in DOMAIN newEntries, newEntries[m].type = 0
               PROVE  simName(getCmd(mem[HEADER + spot[m].code].w.op)) =
                        IF newEntries[m].cmd = "data" THEN "fault" ELSE newEntries[m].cmd
    BY DEF SameOperation
  <2> DEFINE c == newEntries[m].cmd
             w == mem[wordAt(m)].w
  <2>1. m < i /\ newEntries[m] \in Entry
    BY DEF TypeOK
  <2>2. getInstruction(c, newEntries[m].args) = Encoded(w)
    BY <2>1 DEF Emitted
  <2>3. c \in Commands /\ c \notin Macros
    BY <2>1 DEF Entry, MacrosGone
  <2> HIDE DEF c, w
  <2>4. w.op \in opcodes(c)
    BY <2>2, <2>3, OpcodeOf DEF Encoded
  <2>5. simName(getCmd(w.op)) = IF c = "data" THEN "fault" ELSE c
    BY <2>3, <2>4, TablesMatch
  <2> QED
    BY <2>5 DEF c, w, wordAt
<1> QED
  BY <1>1, TypeCorrect, EmittedAlways, PTL
=============================================================================
