------------------------------ MODULE Assembler ------------------------------
(***************************************************************************)
(* The assembler hw5-asm (asm/main.c, asm/parse.c): it reads a script,     *)
(* gives every label an address in a first pass (fillLabelTable), rewrites *)
(* the macros (expandMacros) and the labels that are left (replaceLabels), *)
(* and in a second pass lays the words out in the output (printToBinary).  *)
(* One action is one iteration of one of these loops.                      *)
(*                                                                         *)
(* A run ends "ok", "failed" (exit status 1) or "crashed" (a signal).      *)
(***************************************************************************)
EXTENDS Macro

CONSTANTS Lines,       \* the lines a script is made of
          MaxLines,    \* bound on the entries of a script
          StaleTexts,  \* what an instruction line may leave in a freed block
          CODE_BASE,   \* address of the first instruction (0x2000)
          DATA_BASE,   \* address of the first datum (0x10000)
          Labels       \* the names a label may have, and the absent one

ASSUME LayoutAssumption == CODE_BASE \in Nat /\ DATA_BASE \in Nat

ASSUME LabelsAssumption == NoLabel \in Labels

\* labelbuf has room for 500 labels and allEntries for 50000 entries; neither is
\* checked, and the scripts modelled fit both.
ASSUME BoundAssumption == MaxLines \in 0..500

\* Addresses are 64-bit numbers; an entry takes at most the twelve words of ld.
ASSUME AddressAssumption == /\ CODE_BASE + 48 * MaxLines < WORD
                            /\ DATA_BASE + 8 * MaxLines < WORD

\* A line of 40 characters or more leaves its copy in a block that the entry of a
\* following label or directive reuses, pointer field "str" and all.  One of 53
\* that ends in '!' also leaves the number of HALT where that entry has its command.
ASSUME StaleAssumption == StaleTexts \subseteq {"text", "bang"}

VARIABLES
  phase,       \* the function that runs
  i,           \* its loop counter, from 1
  status,      \* "running" or how the process ended
  mode,        \* getScript: -1 before the first directive, 0 code, 1 data
  stale,       \* what the block a label or directive will reuse holds
  entries,     \* script->entries as getScript leaves it
  labelbuf,    \* fillLabelTable: the labels that wait for an item
  caddress, daddress, codeSize, dataSize,
  ltable,      \* the label table
  newEntries,  \* expandMacros: what becomes script->entries
  mem,         \* printToBinary: the items written, by their offset
  cadd, dadd,
  argv2, argv3,   \* the two files of the command line
  before,      \* history: the section sizes before each entry, by the first pass
  spot         \* history: for each new entry, the section sizes before it

progVars   == <<phase, i>>
scriptVars == <<mode, stale, entries>>
passVars   == <<labelbuf, caddress, daddress, codeSize, dataSize, ltable, before>>
expandVars == <<newEntries, spot>>
printVars  == <<mem, cadd, dadd>>
files      == <<argv2, argv3>>
vars == <<progVars, status, scriptVars, passVars, expandVars, printVars, files>>

---------------------------------------------------------------------------
(* Lines and entries *)

\* Entry.type: 0 instruction, 1 datum, 2 label, 3 .code, 4 .data
Types == 0..4

\* A line by its first character, as the switch of getScript reads it.  A tab line
\* holds the text of an operation or a number.
LineOf(kind, c, args, lbl, val) ==
  [kind |-> kind, cmd |-> c, args |-> args, lbl |-> lbl, val |-> val]
Op(c, args) == LineOf("op", c, args, NoLabel, 0)
Number(v)   == LineOf("number", "add", <<>>, NoLabel, v)
Label(l)    == LineOf("label", "add", <<>>, l, 0)
CodeDir     == LineOf("code", "add", <<>>, NoLabel, 0)
DataDir     == LineOf("data", "add", <<>>, NoLabel, 0)
SpacedLabel == LineOf("spaced", "add", <<>>, NoLabel, 0)

\* The fields of an entry its type does not set are what malloc returned: zeros,
\* or (wild) the leftovers of an instruction line; command 0 is add.
EntryOf(type, c, args, lbl, val, wild) ==
  [type |-> type, cmd |-> c, args |-> args, lbl |-> lbl, val |-> val, wild |-> wild]
instrEntry(c, args) == EntryOf(0, c, args, NoLabel, 0, "none")
dataEntry(v)        == EntryOf(1, "add", <<>>, NoLabel, v, "none")
labelEntry(l, w)    == EntryOf(2, "add", <<>>, l, 0, w)

\* As if the switch of the directive took the mode for the type.
dirEntryOfMode(m, w) == EntryOf(4 + m, "add", <<>>, NoLabel, 0, w)

dirEntry(m, w) == EntryOf(3 + m, "add", <<>>, NoLabel, 0, w)

\* As if the column cnt counted bytes.
codeBytesOfCnt(e) == IF e.type = 0 THEN cnt(e.cmd) ELSE 0

\* Bytes an entry takes in its section, as the first pass counts them.
codeBytes(e) == IF e.type = 0 THEN 4 * cnt(e.cmd) ELSE 0
dataBytes(e) == IF e.type = 1 THEN 8 ELSE 0

Init ==
  /\ phase = "getScript" /\ i = 1 /\ status = "running"
  /\ mode = -1 /\ stale = "none" /\ entries = <<>>
  /\ labelbuf = <<>> /\ caddress = CODE_BASE /\ daddress = DATA_BASE
  /\ codeSize = 0 /\ dataSize = 0 /\ ltable = <<>>
  /\ before = <<[code |-> 0, data |-> 0]>>
  /\ newEntries = <<>> /\ spot = <<>>
  /\ mem = <<>> /\ cadd = 0 /\ dadd = 0
  /\ argv2 = "old" /\ argv3 = "old"

---------------------------------------------------------------------------
(* How a run ends early *)

\* exit(1): the files stay as they are.
Exit1 ==
  /\ status' = "failed"
  /\ UNCHANGED <<progVars, scriptVars, passVars, expandVars, printVars, files>>

\* error(): the files of argv[2] and argv[3] are removed first.
ErrorExit ==
  /\ status' = "failed" /\ argv2' = "none" /\ argv3' = "none"
  /\ UNCHANGED <<progVars, scriptVars, passVars, expandVars, printVars>>

Crash ==
  /\ status' = "crashed"
  /\ UNCHANGED <<progVars, scriptVars, passVars, expandVars, printVars, files>>

Running(p) == status = "running" /\ phase = p
AtEntry(seq) == i \in DOMAIN seq
Goto(p) == phase' = p /\ i' = 1
NextEntry == i' = i + 1 /\ UNCHANGED phase

---------------------------------------------------------------------------
(* getScript *)

Save(e) ==
  /\ Len(entries) < MaxLines
  /\ entries' = Append(entries, e)
  /\ UNCHANGED <<progVars, status, passVars, expandVars, printVars, files>>

\* The result of fopen is not checked: fgets of a null stream.
NoScript == Running("getScript") /\ entries = <<>> /\ Crash

\* '.': any directive that does not start with ".d" means code.
ReadDirective(ln) ==
  /\ Running("getScript") /\ ln.kind \in {"code", "data"}
  /\ mode' = (IF ln.kind = "data" THEN 1 ELSE 0)
  /\ stale' = "none"
  /\ Save(dirEntry(mode', stale))

\* ':' : a space inside the label is refused.
ReadLabel(ln) ==
  /\ Running("getScript")
  /\ \/ /\ ln.kind = "label"
        /\ stale' = "none"
        /\ Save(labelEntry(ln.lbl, stale))
        /\ UNCHANGED mode
     \/ ln.kind = "spaced" /\ Exit1

\* A tab line in data mode, or before any directive (handleData): digits that
\* strtoull can represent.
ReadData(ln) ==
  /\ Running("getScript") /\ mode # 0
  /\ \/ /\ ln.kind = "number" /\ ln.val \in 0..(WORD - 1)
        /\ stale' = "none"
        /\ Save(dataEntry(ln.val))
        /\ UNCHANGED mode
     \/ ln.kind = "number" /\ ln.val \notin 0..(WORD - 1) /\ Exit1
     \/ ln.kind = "op" /\ Exit1

\* A tab line in code mode (handleCmd): a known command.  Its text may be long
\* enough to be left behind in the block it frees.
ReadInstr(ln) ==
  /\ Running("getScript") /\ mode = 0
  /\ \/ /\ ln.kind = "op" /\ ln.cmd \in Commands
        /\ stale' \in {"none"} \cup StaleTexts
        /\ Save(instrEntry(ln.cmd, ln.args))
        /\ UNCHANGED mode
     \/ ln.kind = "op" /\ ln.cmd \notin Commands /\ Exit1
     \/ ln.kind = "number" /\ Exit1

EndOfFile ==
  /\ Running("getScript")
  /\ Goto("fillLabelTable")
  /\ UNCHANGED <<status, scriptVars, passVars, expandVars, printVars, files>>

---------------------------------------------------------------------------
(* fillLabelTable *)

FillStep == Running("fillLabelTable") /\ AtEntry(entries) /\ NextEntry

\* The history variable follows the sizes entry by entry.
Recorded == before' = Append(before, [code |-> codeSize', data |-> dataSize'])

\* As if the buffer had room for one label.
FillLabelAlone ==
  /\ FillStep /\ entries[i].type = 2
  /\ labelbuf' = <<i>>
  /\ UNCHANGED <<caddress, daddress, codeSize, dataSize, ltable>>
  /\ Recorded
  /\ UNCHANGED <<status, scriptVars, expandVars, printVars, files>>

FillLabel ==
  /\ FillStep /\ entries[i].type = 2
  /\ labelbuf' = Append(labelbuf, i)
  /\ UNCHANGED <<caddress, daddress, codeSize, dataSize, ltable>>
  /\ Recorded
  /\ UNCHANGED <<status, scriptVars, expandVars, printVars, files>>

\* The labels that wait get the address of the item, last one first.
waiting == [n \in DOMAIN labelbuf |-> entries[labelbuf[Len(labelbuf) + 1 - n]].lbl]

\* As if the sizes were added before the labels are inserted.
FillItemLate ==
  /\ FillStep /\ entries[i].type \in {0, 1}
  /\ labelbuf' = <<>>
  /\ daddress' = daddress + dataBytes(entries[i])
  /\ dataSize' = dataSize + dataBytes(entries[i])
  /\ caddress' = caddress + codeBytes(entries[i])
  /\ codeSize' = codeSize + codeBytes(entries[i])
  /\ ltable' = insertLabels(waiting,
                            IF entries[i].type = 1 THEN daddress' ELSE caddress', ltable)
  /\ Recorded
  /\ UNCHANGED <<status, scriptVars, expandVars, printVars, files>>

FillItem ==
  /\ FillStep /\ entries[i].type \in {0, 1}
  /\ labelbuf' = <<>>
  /\ ltable' = insertLabels(waiting,
                            IF entries[i].type = 1 THEN daddress ELSE caddress, ltable)
  /\ daddress' = daddress + dataBytes(entries[i])
  /\ dataSize' = dataSize + dataBytes(entries[i])
  /\ caddress' = caddress + codeBytes(entries[i])
  /\ codeSize' = codeSize + codeBytes(entries[i])
  /\ Recorded
  /\ UNCHANGED <<status, scriptVars, expandVars, printVars, files>>

FillDirective ==
  /\ FillStep /\ entries[i].type \in {3, 4}
  /\ UNCHANGED <<labelbuf, caddress, daddress, codeSize, dataSize, ltable>>
  /\ Recorded
  /\ UNCHANGED <<status, scriptVars, expandVars, printVars, files>>

FillDone ==
  /\ Running("fillLabelTable") /\ ~AtEntry(entries)
  /\ Goto("expandMacros")
  /\ UNCHANGED <<status, scriptVars, passVars, expandVars, printVars, files>>

---------------------------------------------------------------------------
(* expandMacros *)

\* createExpandedEntry, for each instruction of an expansion
instrEntries(code) == [n \in DOMAIN code |-> instrEntry(code[n].cmd, code[n].args)]

\* What an entry is rewritten to.  A label or directive keeps the command it has,
\* which is no macro unless the entry is wild and reads as HALT.
rewritings(e) ==
  IF e.type = 0 \/ e.wild = "bang"
  THEN {instrEntries(x) : x \in IF e.type = 0 THEN expandMacro(e.cmd, e.args, ltable)
                                            ELSE expandMacro("halt", <<>>, ltable)}
  ELSE {<<e>>}

ExpandEntry ==
  /\ Running("expandMacros") /\ AtEntry(entries) /\ NextEntry
  /\ \E new \in rewritings(entries[i]) :
       /\ newEntries' = newEntries \o new
       /\ spot' = spot \o [n \in DOMAIN new |-> [code |-> before[i].code + 4 * (n - 1),
                                                 data |-> before[i].data]]
  /\ UNCHANGED <<status, scriptVars, passVars, printVars, files>>

ExpandFails ==
  /\ Running("expandMacros") /\ AtEntry(entries)
  /\ rewritings(entries[i]) = {}
  /\ ErrorExit

ExpandDone ==
  /\ Running("expandMacros") /\ ~AtEntry(entries)
  /\ Goto("replaceLabels")
  /\ UNCHANGED <<status, scriptVars, passVars, expandVars, printVars, files>>

---------------------------------------------------------------------------
(* replaceLabels *)

ReplaceEntry ==
  /\ Running("replaceLabels") /\ AtEntry(newEntries) /\ NextEntry
  /\ newEntries[i].wild = "none"
  /\ \E args \in replaceLabel(newEntries[i].args, ltable) :
       newEntries' = [newEntries EXCEPT ![i].args = args]
  /\ UNCHANGED <<status, scriptVars, passVars, spot, printVars, files>>

ReplaceFails ==
  /\ Running("replaceLabels") /\ AtEntry(newEntries)
  /\ newEntries[i].wild = "none"
  /\ replaceLabel(newEntries[i].args, ltable) = {}
  /\ ErrorExit

\* A wild entry's text is read through a pointer made of characters.
ReplaceWild ==
  /\ Running("replaceLabels") /\ AtEntry(newEntries)
  /\ newEntries[i].wild # "none"
  /\ Crash

\* The scan for the space after a label runs past the end of the text, and past
\* the 500 bytes of buf when no space comes.
ReplaceOverrun ==
  /\ Running("replaceLabels") /\ AtEntry(newEntries)
  /\ newEntries[i].wild = "none"
  /\ labelArgs(newEntries[i].args) # {}
  /\ Crash

ReplaceDone ==
  /\ Running("replaceLabels") /\ ~AtEntry(newEntries)
  /\ Goto("openBinary")
  /\ UNCHANGED <<status, scriptVars, passVars, expandVars, printVars, files>>

---------------------------------------------------------------------------
(* printToBinary *)

HEADER == 40    \* five words of eight bytes

\* An item of the image; loadMem writes its bytes from one offset on.
WordItem(w) == [k |-> "word", w |-> w, v |-> 0]
DataItem(v) == [k |-> "data", w |-> NoWord, v |-> v]
loadMem(add, item, m) ==
  [o \in DOMAIN m \cup {add} |-> IF o = add THEN item ELSE m[o]]

\* As if the header ended before the size of the data.
headerOfFour == [o \in {0, 8, 16, 24} |->
                   DataItem(CASE o = 0  -> 0
                              [] o = 8  -> CODE_BASE
                              [] o = 16 -> codeSize
                              [] o = 24 -> DATA_BASE)]

header == [o \in {0, 8, 16, 24, 32} |->
             DataItem(CASE o = 0  -> 0
                        [] o = 8  -> CODE_BASE
                        [] o = 16 -> codeSize
                        [] o = 24 -> DATA_BASE
                        [] o = 32 -> dataSize)]

\* As if the file were opened when the words are ready.
OpenBinaryLate ==
  /\ Running("openBinary")
  /\ Goto("printToBinary")
  /\ mem' = header
  /\ cadd' = HEADER
  /\ dadd' = HEADER + codeSize
  /\ UNCHANGED <<status, scriptVars, passVars, expandVars, files>>

\* fopen "wb" empties the file before anything is encoded.
OpenBinary ==
  /\ Running("openBinary")
  /\ Goto("printToBinary")
  /\ argv2' = "empty"
  /\ mem' = header
  /\ cadd' = HEADER
  /\ dadd' = HEADER + codeSize
  /\ UNCHANGED <<status, scriptVars, passVars, expandVars, argv3>>

OpenFails == Running("openBinary") /\ Exit1

\* malloc of the buffer fails behind the fopen: the file stays empty.
NoMemory ==
  /\ Running("openBinary")
  /\ argv2' = "empty" /\ status' = "failed"
  /\ UNCHANGED <<progVars, scriptVars, passVars, expandVars, printVars, argv3>>

EmitData ==
  /\ Running("printToBinary") /\ AtEntry(newEntries) /\ NextEntry
  /\ newEntries[i].type = 1
  /\ mem' = loadMem(dadd, DataItem(newEntries[i].val), mem)
  /\ dadd' = dadd + 8
  /\ UNCHANGED <<status, scriptVars, passVars, expandVars, cadd, files>>

encoded == getInstruction(newEntries[i].cmd, newEntries[i].args)

EmitInstr ==
  /\ Running("printToBinary") /\ AtEntry(newEntries) /\ NextEntry
  /\ newEntries[i].type = 0 /\ encoded.how = "ok"
  /\ mem' = loadMem(cadd, WordItem(encoded.w), mem)
  /\ cadd' = cadd + 4
  /\ UNCHANGED <<status, scriptVars, passVars, expandVars, dadd, files>>

EmitFails ==
  /\ Running("printToBinary") /\ AtEntry(newEntries)
  /\ newEntries[i].type = 0
  /\ \/ encoded.how = "exit" /\ Exit1
     \/ encoded.how = "error" /\ ErrorExit

\* As if the loop went on without counting.
EmitNothingAgain ==
  /\ Running("printToBinary") /\ AtEntry(newEntries)
  /\ newEntries[i].type \in {2, 3, 4}
  /\ UNCHANGED vars

EmitNothing ==
  /\ Running("printToBinary") /\ AtEntry(newEntries) /\ NextEntry
  /\ newEntries[i].type \in {2, 3, 4}
  /\ UNCHANGED <<status, scriptVars, passVars, expandVars, printVars, files>>

\* One fwrite of the whole buffer; it reaches the file as the process exits.
WriteOut ==
  /\ Running("printToBinary") /\ ~AtEntry(newEntries)
  /\ argv2' = "image" /\ status' = "ok"
  /\ UNCHANGED <<progVars, scriptVars, passVars, expandVars, printVars, argv3>>

---------------------------------------------------------------------------
Reading == \/ NoScript
           \/ \E ln \in Lines : \/ ReadDirective(ln) \/ ReadLabel(ln)
                                \/ ReadData(ln) \/ ReadInstr(ln)
           \/ EndOfFile
Filling   == FillLabel \/ FillItem \/ FillDirective \/ FillDone
Expanding == ExpandEntry \/ ExpandFails \/ ExpandDone
Replacing == ReplaceEntry \/ ReplaceFails \/ ReplaceWild \/ ReplaceOverrun \/ ReplaceDone
Printing  == \/ OpenBinary \/ OpenFails \/ NoMemory \/ EmitData \/ EmitInstr
             \/ EmitFails \/ EmitNothing \/ WriteOut

\* The process is gone.
Ended == status # "running" /\ UNCHANGED vars

Next == Reading \/ Filling \/ Expanding \/ Replacing \/ Printing \/ Ended

Spec == Init /\ [][Next]_vars

\* The program is one thread that nothing blocks: while it can take a step it does.
FairSpec == Spec /\ WF_vars(Next)

---------------------------------------------------------------------------
(* Types *)

Operand == [k : OperandKinds, n : Nat, v : Int, hex : BOOLEAN, l : Labels]
Operation == [cmd : Commands, args : Seq(Operand)]
LabelRow  == [lbl : Labels, address : Nat]
Wild    == {"none", "text", "bang"}
Entry   == [type : Types, cmd : Commands, args : Seq(Operand), lbl : Labels,
            val : Nat, wild : Wild]
Sizes   == [code : Nat, data : Nat]

\* Every line is one the constructors above can make.
ASSUME LinesAssumption ==
  \A ln \in Lines : /\ ln.kind \in {"op", "number", "label", "code", "data", "spaced"}
                    /\ ln.args \in Seq(Operand) /\ ln.lbl \in Labels
                    /\ ln.val \in Int

\* Every variable holds values of its C type, or of its history.
TypeOK ==
  /\ phase \in {"getScript", "fillLabelTable", "expandMacros", "replaceLabels",
                "openBinary", "printToBinary"}
  /\ i \in Nat \ {0}
  /\ status \in {"running", "ok", "failed", "crashed"}
  /\ mode \in -1..1 /\ stale \in Wild
  /\ entries \in Seq(Entry) /\ newEntries \in Seq(Entry)
  /\ labelbuf \in Seq(1..Len(entries))
  /\ {caddress, daddress, codeSize, dataSize, cadd, dadd} \subseteq Nat
  /\ ltable \in Seq(LabelRow)
  /\ before \in Seq(Sizes) /\ spot \in Seq(Sizes)
  /\ DOMAIN mem \subseteq Nat
  /\ argv2 \in {"old", "none", "empty", "image"} /\ argv3 \in {"old", "none"}

---------------------------------------------------------------------------
(* What the assembler guarantees *)

\* The two passes count the same bytes although they use different tables: the
\* first adds the column cnt up, the second the words it writes.  No write of the
\* second leaves the section, or the buffer, the first has sized.
PassesAgree ==
  phase = "printToBinary" =>
    /\ cadd <= HEADER + codeSize
    /\ dadd <= HEADER + codeSize + dataSize
    /\ ~AtEntry(newEntries) => /\ cadd = HEADER + codeSize
                               /\ dadd = HEADER + codeSize + dataSize

\* The offsets of the header's words, of the first bytes of code, and of data.
headerOffsets == {0, 8, 16, 24, 32}
codeOffsets(end) == {HEADER + 4 * n : n \in 0..((end \div 4) - 1)}
dataOffsets(end) == {HEADER + codeSize + 8 * n : n \in 0..((end \div 8) - 1)}

\* The buffer comes uninitialised from malloc and goes out whole: by then every
\* byte of the header and of both sections has been written.
ImageComplete ==
  status = "ok" =>
    DOMAIN mem = headerOffsets \cup codeOffsets(codeSize) \cup dataOffsets(dataSize)

\* The offset in the image of the item that the simulator loads at an address.
imageOffset(a) == {HEADER + (a - CODE_BASE), HEADER + codeSize + (a - DATA_BASE)}

\* An address in the label table is that of an item of the image, never the end of
\* a section or the middle of a datum.
LabelsInImage ==
  status = "ok" =>
    \A n \in DOMAIN ltable : imageOffset(ltable[n].address) \cap DOMAIN mem # {}

\* The simulator's own table reads each word written as the operation it was
\* written for ("data", which the table of the assembler lists as a command, is
\* the one it refuses).
SameOperation ==
  phase = "printToBinary" =>
    \A m \in 1..(i - 1) :
      m \in DOMAIN newEntries /\ newEntries[m].type = 0 =>
        LET w == mem[HEADER + spot[m].code].w IN
        simName(getCmd(w.op)) = IF newEntries[m].cmd = "data" THEN "fault"
                                ELSE newEntries[m].cmd

\* build_instruction adds the fields up without a mask for the registers: every word
\* written comes from fields that fit, so that none spills into the one before it.
FieldsFit == \A o \in DOMAIN mem : mem[o].k = "word" => mem[o].w \in Word

\* What a run has left behind tells its caller how far it came, whichever exit it took:
\* only a run that ends well leaves an image of its own; one that fails after it began to
\* lay out leaves none of an earlier run either; and where the third file has been removed
\* the second has.
FilesTell ==
  status # "running" =>
    /\ argv2 = "image" <=> status = "ok"
    /\ argv2 = "old" => mem = <<>>
    /\ argv3 # "old" => argv2 = "none"

\* A run ends: every loop reaches the end of its entries, and no state leaves the
\* program without a step.
Termination == <>(status # "running")

---------------------------------------------------------------------------
(* The inductive invariant behind PassesAgree, ImageComplete, LabelsInImage *)

\* The first pass: before[k] is the sum of the sizes of the entries before k.
ReachedByPassOne == CASE phase = "getScript"      -> 1
                      [] phase = "fillLabelTable" -> i
                      [] OTHER                    -> Len(entries) + 1

\* A pair of sizes within the sections, and between two items of each.
Inside(s) == /\ s.code <= codeSize /\ s.code % 4 = 0
             /\ s.data <= dataSize /\ s.data % 8 = 0

PassOne ==
  /\ Len(before) = ReachedByPassOne /\ Len(before) <= Len(entries) + 1
  /\ before[1] = [code |-> 0, data |-> 0]
  /\ \A k \in 1..(Len(before) - 1) :
       before[k + 1] = [code |-> before[k].code + codeBytes(entries[k]),
                        data |-> before[k].data + dataBytes(entries[k])]
  /\ before[Len(before)] = [code |-> codeSize, data |-> dataSize]
  /\ \A k \in DOMAIN before : Inside(before[k])
  /\ caddress = CODE_BASE + codeSize /\ daddress = DATA_BASE + dataSize

\* The new entries: where each one starts the one before it ends, and the last one
\* ends where the first pass has come to.
sizesReached == IF phase = "expandMacros" THEN before[i]
                ELSE [code |-> codeSize, data |-> dataSize]
spotOf(m)    == IF m \in DOMAIN spot THEN spot[m] ELSE sizesReached

afterItem(s, e) == [code |-> s.code + (IF e.type = 0 THEN 4 ELSE 0),
                    data |-> s.data + dataBytes(e)]

Expanded ==
  /\ Len(spot) = Len(newEntries)
  /\ phase \in {"getScript", "fillLabelTable"} => spot = <<>>
  /\ phase = "expandMacros" => i <= Len(entries) + 1
  /\ phase \notin {"getScript", "fillLabelTable"} =>
       /\ spotOf(1) = [code |-> 0, data |-> 0]
       /\ \A m \in DOMAIN spot : spotOf(m + 1) = afterItem(spot[m], newEntries[m])
  /\ \A m \in DOMAIN spot : Inside(spot[m])

\* The second pass has written the bytes before the current entry and no others.
Written ==
  phase = "printToBinary" =>
    /\ i <= Len(newEntries) + 1
    /\ cadd = HEADER + spotOf(i).code
    /\ dadd = HEADER + codeSize + spotOf(i).data
    /\ DOMAIN mem = headerOffsets \cup codeOffsets(spotOf(i).code)
                                  \cup dataOffsets(spotOf(i).data)

\* Every address in the label table is that of a byte position of an item.
Labelled ==
  \A n \in DOMAIN ltable :
    \/ \E x \in 0..codeSize : ltable[n].address = CODE_BASE + 4 * x /\ 4 * x < codeSize
    \/ \E x \in 0..dataSize : ltable[n].address = DATA_BASE + 8 * x /\ 8 * x < dataSize

\* No label or directive reads as HALT; status "ok" comes at the end of the entries.
Untouched == stale # "bang" /\ \A k \in DOMAIN entries : entries[k].wild # "bang"
AtTheEnd  == status = "ok" => phase = "printToBinary" /\ ~AtEntry(newEntries)

Inductive == PassOne /\ Expanded /\ Written /\ Labelled /\ Untouched /\ AtTheEnd

\* What expandMacros leaves is no macro, so every word comes from one command.
MacrosGone == \A m \in DOMAIN newEntries :
                newEntries[m].type = 0 => newEntries[m].cmd \notin Macros

\* Where the second pass has written the item of an entry, and what stands there.
wordAt(m)  == HEADER + spot[m].code
datumAt(m) == HEADER + codeSize + spot[m].data
Emitted ==
  phase = "printToBinary" =>
    \A m \in DOMAIN newEntries : m < i =>
      /\ newEntries[m].type = 0 =>
           /\ wordAt(m) \in DOMAIN mem
           /\ getInstruction(newEntries[m].cmd, newEntries[m].args) = Encoded(mem[wordAt(m)].w)
      /\ newEntries[m].type = 1 =>
           datumAt(m) \in DOMAIN mem /\ mem[datumAt(m)].v = newEntries[m].val

---------------------------------------------------------------------------
(* The assembler implements its one-step specification *)

\* The items of one section of the image, in their order.
section(first, size, count) == [n \in 1..count |-> mem[first + size * (n - 1)]]

imageOut ==
  [code |-> LET s == section(HEADER, 4, codeSize \div 4)
            IN [n \in DOMAIN s |-> s[n].w],
   data |-> LET s == section(HEADER + codeSize, 8, dataSize \div 8)
            IN [n \in DOMAIN s |-> s[n].v]]

Abs == INSTANCE AsmSpec WITH
         script <- entries,
         result <- CASE status = "running" -> "pending"
                     [] status = "ok"      -> "image"
                     [] OTHER              -> "rejected",
         image  <- IF status = "ok" THEN imageOut ELSE [code |-> <<>>, data |-> <<>>]

\* Two passes, a label buffer and a table give the image that the one-step
\* specification defines by prefix sums over the script.
OneStep == Abs!Spec

---------------------------------------------------------------------------
(* ld *)

\* The value that an instruction leaves in its register, which holds v; the one that
\* two leave, from entry m on; and the one that the twelve from entry m on leave.
after(v, e) == CASE e.cmd = "xor"    -> 0
                 [] e.cmd = "addi"   -> (v + e.args[2].v) % WORD
                 [] e.cmd = "shftli" -> (v * 2^e.args[2].v) % WORD
pair(v, m)  == after(after(v, newEntries[m]), newEntries[m + 1])
built(m)    == pair(pair(pair(pair(pair(pair(0, m), m + 2), m + 4), m + 6), m + 8), m + 10)

\* ld leaves in its register, and in no other, the number its operand denotes in 64
\* bits, whichever of the six chunks of expandLd its bits fall into, and for a label
\* the address of the first item after it.
LdBuildsItsValue ==
  phase \in {"replaceLabels", "openBinary", "printToBinary"} =>
    \A k \in DOMAIN entries, m \in DOMAIN newEntries :
      /\ entries[k].type = 0 /\ entries[k].cmd = "ld"
      /\ spot[m] = before[k] /\ newEntries[m].type = 0
      => LET a == entries[k].args[2] IN
         /\ \A n \in 0..11 : newEntries[m + n].args[1] = entries[k].args[1]
         /\ a.k = "lit" => built(m) = a.v % WORD
         /\ a.k = "lab" => built(m) = Abs!address(Abs!Min(Abs!itemsOf(a.l)))

---------------------------------------------------------------------------
(* The inductive invariant behind OneStep *)

\* The first pass counts what the prefix sums of the specification count.
Counted ==
  \A k \in DOMAIN before : before[k] = [code |-> 4 * Abs!codeUpTo(k - 1),
                                        data |-> 8 * Abs!dataUpTo(k - 1)]

\* The labels that wait are those that no item has come after yet.
Pending ==
  {labelbuf[n] : n \in DOMAIN labelbuf} =
    {k \in 1..(Len(before) - 1) : /\ entries[k].type = 2
                                  /\ \A g \in (k + 1)..(Len(before) - 1) : ~Abs!isItem(g)}

\* The table answers with the address of the first item of a name, once the pass has
\* come past that item.
firstOf(l) == {j \in Abs!itemsOf(l) : /\ j < Len(before)
                                      /\ \A g \in Abs!itemsOf(l) : j <= g}
Answers == \A l \in Labels : getintAddress(l, ltable) = {Abs!address(j) : j \in firstOf(l)}

\* The entries that replaceLabels has passed.
replaced(m) == \/ phase \in {"openBinary", "printToBinary"}
               \/ phase = "replaceLabels" /\ m < i

\* The expansion x of entry k stands, in one piece, after the first m new entries.
standsAt(x, k, m) ==
  \A n \in DOMAIN x :
    /\ m + n \in DOMAIN newEntries
    /\ newEntries[m + n].type = 0 /\ newEntries[m + n].cmd = x[n].cmd
    /\ newEntries[m + n].args \in IF replaced(m + n) THEN replaceLabel(x[n].args, ltable)
                                                     ELSE {x[n].args}
    /\ spot[m + n].code = before[k].code + 4 * (n - 1)

\* Every entry that expandMacros has passed is among the new entries, at its place.
isPlaced(k) ==
  /\ entries[k].type = 1 =>
       \E m \in DOMAIN newEntries : /\ newEntries[m].type = 1
                                    /\ newEntries[m].val = entries[k].val
                                    /\ spot[m] = before[k]
  /\ entries[k].type = 0 =>
       \E x \in expandMacro(entries[k].cmd, entries[k].args, ltable) :
         \E m \in 0..Len(newEntries) : standsAt(x, k, m)

Placed ==
  phase \notin {"getScript", "fillLabelTable"} =>
    \A k \in DOMAIN entries : (phase = "expandMacros" => k < i) => isPlaced(k)

\* The first pass finds for each name the first item that follows it, and the rewriting
\* puts every entry where the prefix sums of the script say.
Refining == Counted /\ Pending /\ Answers /\ Placed
=============================================================================
