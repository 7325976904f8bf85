------------------------------ MODULE Simulator ------------------------------
(***************************************************************************)
(* The simulator hw5-sim (sim/main.c): it loads an image into its memory   *)
(* and executes one instruction after the other until one halts it or      *)
(* simErr() ends it.  One action is one round of the loop of main.         *)
(*                                                                         *)
(* Registers hold unsigned 64-bit values, pc is an int, memory is bytes;   *)
(* conversions between them keep the widths of the C types.  A run ends    *)
(* "halted", in "error" (exit status 1) or "crashed" (undefined behaviour).*)
(***************************************************************************)
EXTENDS Isa, Memory

CONSTANTS Files,         \* the images the simulator may be given
          Stdins(_),     \* what standard input may hold with each: one fgets after the other
          FloatResults   \* what an operation on doubles may leave in a register

ASSUME FloatAssumption == FloatResults \subseteq Values

VARIABLES
  status,    \* "start", "running" or how the process ended
  file,      \* the image: header fields entry and at, bytes of code and of data
  pc, r, mem,
  stdin,     \* the lines not read yet
  stdout,    \* what has been printed
  frames     \* history: return addresses no store has touched since their call

files   == <<file, stdin, stdout>>
machine == <<pc, r, mem, frames>>
vars    == <<status, files, machine>>

Idle ==
  /\ status = "start"
  /\ stdin \in Stdins(file) /\ stdout = <<>>
  /\ pc = toInt(8192) /\ r = [n \in 0..(NREGS - 1) |-> 0]
  /\ mem = [a \in Addresses |-> 0]
  /\ frames = {}

Init == file \in Files /\ Idle

---------------------------------------------------------------------------
(* Conversions *)

\* sign: bit 11 of the immediate is its sign.
sign(imm) == IF imm >= IMM \div 2 THEN imm - IMM ELSE imm

\* The bits of a double that compares equal to 0.0.
isZero(x) == x \in {0, WORD \div 2}

\* The return addresses a store at a leaves alone.
untouched(a) == {f \in frames : bytesAt(f.slot, 8) \cap bytesAt(a, 8) = {}}

---------------------------------------------------------------------------
(* One instruction *)

\* parse: the fields of the four bytes at pc.
parse(b0, b1, b2, b3) ==
  [op  |-> b3 \div 8,
   rd  |-> (b2 \div 64) + 4 * (b3 % 8),
   rs  |-> (b2 \div 2) % 32,
   rt  |-> (b1 \div 16) + 16 * (b2 % 2),
   imm |-> b0 + 256 * (b1 % 16)]

fetched == verified(ull(pc), 4)
ins == parse(mem[pc], mem[pc + 1], mem[pc + 2], mem[pc + 3])
cmd == getCmd(ins.op)
Runs(cmds) == status = "running" /\ fetched /\ cmd \in cmds

\* Its operands: the registers rd, rs and rt, and the immediate.
d   == r[ins.rd]
s   == r[ins.rs]
t   == r[ins.rt]
imm == ins.imm

\* The address of the eight bytes it reads or writes.
operand == CASE cmd = "mov"                -> ull(s + sign(imm))
             [] cmd = "mov3"               -> ull(d + sign(imm))
             [] cmd \in {"call", "return"} -> ull(r[31] - 8)

\* simErr: exit(1).  What the round has stored or read before is gone with the process.
simErr == status' = "error" /\ UNCHANGED <<files, machine>>

Set(v)  == r' = [r EXCEPT ![ins.rd] = v]

\* As if the case of the instruction did not move pc.
AdvanceByNone == pc' = pc

Advance == pc' = pc + 4
Jump(a) == IF verifyAddress(a) THEN pc' = a /\ UNCHANGED <<status, files, r, mem, frames>>
           ELSE simErr

---------------------------------------------------------------------------
(* Start *)

NoFile == status = "start" /\ simErr

\* Nothing compares the sizes of the header with the room in mem.
fits(a, bytes) == a + Len(bytes) <= MEM_SIZE
placed(m, a, bytes) ==
  LET size == Len(bytes)
  IN [x \in Addresses |-> IF x - a \in 0..(size - 1) THEN bytes[x - a + 1] ELSE m[x]]

\* The data are read after the code, over it where they overlap.
loaded(f) == placed(placed([a \in Addresses |-> 0], f.entry, f.code), f.at, f.data)

Load ==
  /\ status = "start" /\ fits(file.entry, file.code) /\ fits(file.at, file.data)
  /\ status' = "running"
  /\ pc' = file.entry
  /\ mem' = loaded(file)
  /\ r' = [r EXCEPT ![31] = MEM_SIZE]
  /\ frames' = {}
  /\ UNCHANGED files

LoadOverrun ==
  /\ status = "start" /\ ~(fits(file.entry, file.code) /\ fits(file.at, file.data))
  /\ status' = "crashed"
  /\ UNCHANGED <<files, machine>>

\* A pc outside of memory, and an opcode of no row.
BadFetch  == status = "running" /\ ~fetched /\ simErr
BadOpcode == Runs({"fault"}) /\ simErr

---------------------------------------------------------------------------
(* Registers *)

Computing == {"and", "or", "xor", "not", "shftr", "shftri", "shftl", "shftli", "mov1", "mov2",
              "add", "addi", "sub", "subi", "mul", "div", "addf", "subf", "mulf", "divf"}

\* What it leaves in rd; mov2 replaces the low twelve bits.
result ==
  CASE cmd = "and"    -> bitAnd(s, t)
    [] cmd = "or"     -> bitOr(s, t)
    [] cmd = "xor"    -> bitXor(s, t)
    [] cmd = "not"    -> WORD - 1 - s
    [] cmd = "shftr"  -> shiftr(s, t)
    [] cmd = "shftri" -> shiftr(d, imm)
    [] cmd = "shftl"  -> shiftl(s, t)
    [] cmd = "shftli" -> shiftl(d, imm)
    [] cmd = "mov1"   -> s
    [] cmd = "mov2"   -> d - (d % IMM) + imm
    [] cmd = "add"    -> ull(s + t)
    [] cmd = "addi"   -> ull(d + imm)
    [] cmd = "sub"    -> ull(s - t)
    [] cmd = "subi"   -> ull(d - imm)
    [] cmd = "mul"    -> ull(s * t)
    [] cmd = "div"    -> s \div t

\* Doubles are abstracted to some result; any other result is a value of 64 bits.
results == IF cmd \in {"addf", "subf", "mulf", "divf"} THEN FloatResults
           ELSE {result} \cap Values

byZero == (cmd = "div" /\ t = 0) \/ (cmd = "divf" /\ isZero(t))

Compute ==
  /\ Runs(Computing) /\ ~byZero
  /\ \E v \in results : Set(v)
  /\ Advance
  /\ UNCHANGED <<status, files, mem, frames>>

DivideByZero == Runs(Computing) /\ byZero /\ simErr

---------------------------------------------------------------------------
(* Memory and control *)

ReadWord ==
  /\ Runs({"mov"}) /\ verified(operand, 8)
  /\ Set(readMem(mem, operand))
  /\ Advance
  /\ UNCHANGED <<status, files, mem, frames>>

WriteWord ==
  /\ Runs({"mov3"}) /\ verified(operand, 8)
  /\ mem' = loadMem(mem, operand, s)
  /\ frames' = untouched(operand)
  /\ Advance
  /\ UNCHANGED <<status, files, r>>

BadAddress == Runs({"mov", "mov3", "call", "return"}) /\ ~verified(operand, 8) /\ simErr

\* br, brnz and brgt check their target when they take it.
taken == CASE cmd = "br"   -> TRUE
           [] cmd = "brnz" -> s # 0
           [] cmd = "brgt" -> s > t

Branch ==
  /\ Runs({"br", "brnz", "brgt"})
  /\ IF taken THEN Jump(d) ELSE Advance /\ UNCHANGED <<status, files, r, mem, frames>>

\* brr and brr2 leave the check to the next fetch.
BranchRelative ==
  /\ Runs({"brr", "brr2"})
  /\ pc' = IF cmd = "brr" THEN toInt(ull(pc + d)) ELSE pc + sign(imm)
  /\ UNCHANGED <<status, files, r, mem, frames>>

\* As if the return address were that of the call itself.
CallSelf ==
  /\ Runs({"call"}) /\ verified(operand, 8)
  /\ verifyAddress(d)
  /\ mem' = loadMem(mem, operand, pc)
  /\ pc' = d
  /\ frames' = untouched(operand) \cup {[slot |-> operand, back |-> pc + 4]}
  /\ UNCHANGED <<status, files, r>>

\* doCALL stores the return address below r31, which it does not move.
Call ==
  /\ Runs({"call"}) /\ verified(operand, 8)
  /\ verifyAddress(d)
  /\ mem' = loadMem(mem, operand, pc + 4)
  /\ pc' = d
  /\ frames' = untouched(operand) \cup {[slot |-> operand, back |-> pc + 4]}
  /\ UNCHANGED <<status, files, r>>

BadCall == Runs({"call"}) /\ verified(operand, 8) /\ ~verifyAddress(d) /\ simErr

Return ==
  /\ Runs({"return"}) /\ verified(operand, 8)
  /\ pc' = toInt(readMem(mem, operand))
  /\ UNCHANGED <<status, files, r, mem, frames>>

---------------------------------------------------------------------------
(* priv *)

Halt ==
  /\ Runs({"priv"}) /\ imm = 0
  /\ status' = "halted"
  /\ Advance
  /\ UNCHANGED <<files, r, mem, frames>>

lineRead == IF stdin = <<>> THEN {} ELSE valueOf(Head(stdin))

Input ==
  /\ Runs({"priv"}) /\ imm = 3 /\ s = 0
  /\ \E v \in lineRead : Set(v)
  /\ stdin' = Tail(stdin)
  /\ Advance
  /\ UNCHANGED <<status, file, stdout, mem, frames>>

\* The end of the input, or a line that is no number.
BadInput == Runs({"priv"}) /\ imm = 3 /\ s = 0 /\ lineRead = {} /\ simErr

Output ==
  /\ Runs({"priv"}) /\ imm = 4 /\ d \in {1, 3}
  /\ stdout' = Append(stdout, IF d = 1 THEN [k |-> "number", v |-> s]
                              ELSE [k |-> "char", v |-> s % 256])
  /\ Advance
  /\ UNCHANGED <<status, file, stdin, r, mem, frames>>

BadPriv ==
  /\ Runs({"priv"})
  /\ imm # 0 /\ ~(imm = 3 /\ s = 0) /\ ~(imm = 4 /\ d \in {1, 3})
  /\ simErr

---------------------------------------------------------------------------
Starting  == NoFile \/ Load \/ LoadOverrun
Moving    == ReadWord \/ WriteWord \/ BadAddress
Branching == Branch \/ BranchRelative \/ Call \/ BadCall \/ Return
Private   == Halt \/ Input \/ BadInput \/ Output \/ BadPriv

\* The process is gone.
Ended == status \notin {"start", "running"} /\ UNCHANGED vars

Next == \/ Starting \/ BadFetch \/ BadOpcode
        \/ Compute \/ DivideByZero \/ Moving \/ Branching \/ Private
        \/ Ended

Spec == Init /\ [][Next]_vars

\* One thread, which nothing blocks: standard input is a file or a closed pipe.
FairSpec == Spec /\ WF_vars(Next)

---------------------------------------------------------------------------
(* Types *)

ASSUME FilesAssumption ==
  /\ \A f \in Files : /\ f.entry \in Addresses /\ f.at \in Addresses
                      /\ f.code \in Seq(Byte) /\ f.data \in Seq(Byte)
  /\ \A f \in Files : \A ls \in Stdins(f) : ls \in Seq(Line)

TypeOK ==
  /\ status \in {"start", "running", "halted", "error", "crashed"}
  /\ pc \in (-(INT \div 2))..((INT \div 2) - 1)
  /\ r \in [0..(NREGS - 1) -> Values]
  /\ mem \in [Addresses -> Byte]
  /\ stdin \in Seq(Line) /\ stdout \in Seq([k : {"number", "char"}, v : Values])
  /\ frames \subseteq [slot : Values, back : Nat]

---------------------------------------------------------------------------
(* What the simulator guarantees *)

\* The accesses the next round makes if their checks let it.
accesses ==
  {<<ull(pc), 4>>}
    \cup (IF fetched /\ cmd \in {"mov", "mov3", "call", "return"} THEN {<<operand, 8>>} ELSE {})

\* readMem and loadMem check the first and the last byte of an access, in 64-bit
\* arithmetic that wraps: an access that passes has every byte in memory, also one
\* at the end of memory or with an address computed from a negative offset.
MemorySafe ==
  status = "running" =>
    \A a \in accesses : verified(a[1], a[2]) => bytesAt(a[1], a[2]) \subseteq Addresses

\* The slot of a call holds its return address until a store touches it, whatever
\* calls and moves of r31 come between.
FramesHold ==
  \A f \in frames : /\ verified(f.slot, 8) /\ f.back < INT \div 2
                    /\ readMem(mem, f.slot) = f.back

\* A return whose slot no store has touched since the call that filled it comes back
\* behind that call, over nested calls, unaligned stores and moves of r31.
ReturnsToCaller ==
  [][\A f \in frames : Return /\ f.slot = operand => pc' = f.back]_vars

\* A program that meets no more branches ends, also one that lacks its halt: it runs
\* through the zeros after its code, which are instructions, to the end of memory.
atBranch == fetched /\ cmd \in {"br", "brr", "brr2", "brnz", "brgt", "call", "return"}
EndsWithoutBranches ==
  <>[](status = "running" => ~atBranch) => <>(status \notin {"start", "running"})
=============================================================================
