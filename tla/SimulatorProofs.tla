--------------------------- MODULE SimulatorProofs ---------------------------
(***************************************************************************)
(* For every image, every input, every size of memory and all widths that  *)
(* the assumptions of Widths and Memory allow: the simulator's types, its  *)
(* accesses to memory, where a return goes, and what it reads of an image  *)
(* that the assembler wrote.                                               *)
(***************************************************************************)
EXTENDS Simulator, Image, TLAPS

---------------------------------------------------------------------------
(* Arithmetic *)

\* What the proofs use of the constants.
LEMMA Sizes ==
  /\ MEM_SIZE \in Nat /\ 8 <= MEM_SIZE
  /\ INT \in Nat /\ INT % 2 = 0 /\ MEM_SIZE + IMM <= INT \div 2
  /\ WORD \in Nat /\ INT <= WORD
  /\ IMM \in Nat /\ 2 <= IMM
<1>1. INT % 2 = 0
  <2>1. PICK q \in Int : INT = 4096 * q
    BY WidthAssumption, MachineAssumption
  <2>. QED  BY <2>1
<1>. QED  BY <1>1, WidthAssumption, MachineAssumption

LEMMA UllType == ASSUME NEW x \in Int PROVE ull(x) \in Values
  BY Sizes DEF ull, Values

LEMMA UllSame == ASSUME NEW x \in Values PROVE ull(x) = x
  BY Sizes DEF ull, Values

LEMMA UllNegative ==
  ASSUME NEW x \in Int, x < 0, WORD + x >= 0 PROVE ull(x) = WORD + x
  BY Sizes DEF ull

LEMMA ValuesAreInts == Values \subseteq Int
  BY DEF Values

\* An assignment to an int leaves a value of an int, and a value it can hold alone.
LEMMA IntType ==
  ASSUME NEW u \in Nat
  PROVE  /\ toInt(u) \in (-(INT \div 2))..((INT \div 2) - 1)
         /\ u < INT \div 2 => toInt(u) = u
<1>. DEFINE m == u % INT
<1>1. m \in 0..(INT - 1) /\ (u < INT => m = u)
  BY Sizes
<1>2. PICK h \in Nat : INT = 2 * h /\ INT \div 2 = h
  BY Sizes
<1>. HIDE DEF m
<1>. QED  BY <1>1, <1>2 DEF toInt, m

\* The fields of an instruction fit the widths of its word.
LEMMA ParseType ==
  \A b0, b1, b2, b3 \in Byte :
    /\ parse(b0, b1, b2, b3).rd \in 0..31
    /\ parse(b0, b1, b2, b3).rs \in 0..31
    /\ parse(b0, b1, b2, b3).rt \in 0..31
    /\ parse(b0, b1, b2, b3).imm \in 0..(IMM - 1)
<1>1. IMM = 4096
  BY MachineAssumption
<1>. QED  BY <1>1 DEF parse, Byte

---------------------------------------------------------------------------
(* Memory *)

\* An access that passes its checks stays in memory, and its addresses do not wrap.
LEMMA InMemory ==
  ASSUME NEW a \in Values, NEW size \in 1..8, verified(a, size)
  PROVE  /\ a + size - 1 < MEM_SIZE
         /\ \A k \in 0..(size - 1) : ull(a + k) = a + k /\ a + k \in Addresses
<1>1. a + size - 1 \in Values
  BY Sizes DEF verified, verifyAddress, Values
<1>2. ull(a + size - 1) = a + size - 1
  BY <1>1, UllSame
<1>3. a + size - 1 < MEM_SIZE
  BY <1>2 DEF verified, verifyAddress
<1>4. ASSUME NEW k \in 0..(size - 1) PROVE ull(a + k) = a + k /\ a + k \in Addresses
  <2>1. a + k \in Values /\ a + k \in Addresses
    BY <1>3, Sizes DEF Values, Addresses
  <2>. QED  BY <2>1, UllSame
<1>. QED  BY <1>3, <1>4

LEMMA BytesInMemory ==
  ASSUME NEW a \in Values, NEW size \in 1..8, verified(a, size)
  PROVE  bytesAt(a, size) \subseteq Addresses
  BY InMemory DEF bytesAt

LEMMA ShiftInType ==
  ASSUME NEW v \in Int, NEW b \in Int PROVE shiftIn(v, b) \in Values /\ shiftIn(v, b) \in Int
  BY UllType DEF shiftIn, Values

LEMMA ReadType ==
  ASSUME NEW m \in [Addresses -> Byte], NEW a \in Values, verified(a, 8)
  PROVE  readMem(m, a) \in Values
<1>. DEFINE b(k) == m[ull(a + k)]
<1>1. \A k \in 0..7 : ull(a + k) \in Addresses
  <2>1. 8 \in 1..8 /\ 0..(8 - 1) = 0..7
    OBVIOUS
  <2>. QED  BY <2>1, InMemory
<1>2. \A k \in 0..7 : b(k) \in Int
  BY <1>1 DEF Byte
<1>. HIDE DEF b
<1>3. /\ b(0) \in Int /\ b(1) \in Int /\ b(2) \in Int /\ b(3) \in Int
      /\ b(4) \in Int /\ b(5) \in Int /\ b(6) \in Int /\ b(7) \in Int
  BY <1>2
<1>4. \A v, x \in Int : shiftIn(v, x) \in Int /\ shiftIn(v, x) \in Values
  BY ShiftInType
<1>. DEFINE v4 == shiftIn(shiftIn(shiftIn(shiftIn(0, b(7)), b(6)), b(5)), b(4))
            v1 == shiftIn(shiftIn(shiftIn(v4, b(3)), b(2)), b(1))
<1>5. v4 \in Int
  <2>1. shiftIn(0, b(7)) \in Int
    BY <1>3, <1>4
  <2>. QED  BY <2>1, <1>3, <1>4, Zenon
<1>. HIDE DEF v4
<1>6. v1 \in Int
  BY <1>3, <1>4, <1>5, Zenon
<1>. HIDE DEF v1
<1>7. shiftIn(v1, b(0)) \in Values
  BY <1>3, <1>4, <1>6, Zenon
<1>8. readMem(m, a) = shiftIn(v1, b(0))
  BY DEF readMem, v1, v4, b
<1>. QED  BY <1>7, <1>8

\* Eight bytes hold a value: reading it back is undoing what was shifted out.
LEMMA ShiftBack ==
  ASSUME NEW x \in Values PROVE shiftIn(above(x), x % 256) = x /\ above(x) \in Values
<1>1. x = 256 * (x \div 256) + (x % 256) /\ x \div 256 \in 0..x
  BY DEF Values
<1>2. ull(256 * (x \div 256) + (x % 256)) = x
  BY <1>1, UllSame
<1>3. x \div 256 \in Values
  BY <1>1, Sizes DEF Values
<1>. QED  BY <1>2, <1>3 DEF shiftIn, above

LEMMA AboveMonotone ==
  ASSUME NEW x \in Nat, NEW y \in Nat, x <= y PROVE above(x) <= above(y) /\ above(x) \in Nat
  BY DEF above

LEMMA TopByte == ASSUME NEW v \in Values PROVE beyondBytes(v) = 0
<1>1. v \in Nat /\ WORD - 1 \in Nat /\ v <= WORD - 1
  BY Sizes DEF Values
<1>. DEFINE le(x, y) == x \in Nat /\ y \in Nat /\ x <= y
            w == WORD - 1
<1>2. \A x, y : le(x, y) => le(above(x), above(y))
  BY AboveMonotone DEF above
<1>3. le(v, w)
  BY <1>1
<1>. HIDE DEF le, w
<1>4. le(beyondBytes(v), beyondBytes(w))
  BY <1>2, <1>3 DEF beyondBytes
<1>5. beyondBytes(w) = 0
  BY MachineAssumption DEF w
<1>. QED  BY <1>4, <1>5 DEF le

\* What is loaded at an address is read back there.
LEMMA ReadBack ==
  ASSUME NEW m \in [Addresses -> Byte], NEW a \in Values, NEW v \in Values, verified(a, 8)
  PROVE  readMem(loadMem(m, a, v), a) = v
<1>. DEFINE b(k) == loadMem(m, a, v)[ull(a + k)]
<1>1. \A k \in 0..7 : ull(a + k) = a + k /\ a + k \in Addresses
  <2>1. 8 \in 1..8 /\ 0..(8 - 1) = 0..7
    OBVIOUS
  <2>. QED  BY <2>1, InMemory
<1>2. ASSUME NEW k \in 0..7 PROVE b(k) = bytesOf(v)[k + 1]
  <2>1. a + k \in bytesAt(a, 8)
    BY <1>1 DEF bytesAt
  <2>2. ull((a + k) - a) = k
    BY Sizes, UllSame DEF Values
  <2>. QED  BY <1>1, <2>1, <2>2 DEF loadMem
<1>. DEFINE v1 == above(v)
            v2 == above(v1)
            v3 == above(v2)
            v4 == above(v3)
            v5 == above(v4)
            v6 == above(v5)
            v7 == above(v6)
            v8 == above(v7)
<1>3. /\ b(0) = v % 256 /\ b(1) = v1 % 256 /\ b(2) = v2 % 256 /\ b(3) = v3 % 256
      /\ b(4) = v4 % 256 /\ b(5) = v5 % 256 /\ b(6) = v6 % 256 /\ b(7) = v7 % 256
  <2>1. bytesOf(v) = << v % 256, v1 % 256, v2 % 256, v3 % 256,
                        v4 % 256, v5 % 256, v6 % 256, v7 % 256 >>
    BY DEF bytesOf
  <2>. HIDE DEF b, v1, v2, v3, v4, v5, v6, v7, v8
  <2>. QED  BY <1>2, <2>1
<1>4. \A x \in Values : shiftIn(above(x), x % 256) = x /\ above(x) \in Values
  BY ShiftBack
<1>5. v8 = 0
  BY TopByte DEF beyondBytes
<1>6. readMem(loadMem(m, a, v), a) =
        shiftIn(shiftIn(shiftIn(shiftIn(shiftIn(shiftIn(shiftIn(shiftIn(
          0, b(7)), b(6)), b(5)), b(4)), b(3)), b(2)), b(1)), b(0))
  BY DEF readMem
<1>. HIDE DEF b
<1>7. v1 \in Values /\ v2 \in Values /\ v3 \in Values /\ v4 \in Values
  BY <1>4
<1>8. v5 \in Values /\ v6 \in Values /\ v7 \in Values
  BY <1>4, <1>7
<1>9. /\ shiftIn(v1, v % 256) = v /\ shiftIn(v2, v1 % 256) = v1
      /\ shiftIn(v3, v2 % 256) = v2 /\ shiftIn(v4, v3 % 256) = v3
  BY <1>4, <1>7
<1>10. /\ shiftIn(v5, v4 % 256) = v4 /\ shiftIn(v6, v5 % 256) = v5
       /\ shiftIn(v7, v6 % 256) = v6 /\ shiftIn(v8, v7 % 256) = v7
  BY <1>4, <1>7, <1>8
<1>. HIDE DEF v1, v2, v3, v4, v5, v6, v7, v8
<1>. QED  BY <1>3, <1>5, <1>6, <1>9, <1>10

\* What is loaded elsewhere leaves it alone.
LEMMA ReadApart ==
  ASSUME NEW m \in [Addresses -> Byte], NEW a \in Values, NEW x \in Values, NEW v \in Values,
         verified(a, 8), bytesAt(a, 8) \cap bytesAt(x, 8) = {}
  PROVE  readMem(loadMem(m, x, v), a) = readMem(m, a)
<1>1. \A k \in 0..7 : ull(a + k) \in bytesAt(a, 8) /\ ull(a + k) \in Addresses
  <2>1. 8 \in 1..8 /\ 0..(8 - 1) = 0..7
    OBVIOUS
  <2>. QED  BY <2>1, InMemory DEF bytesAt
<1>2. ASSUME NEW k \in 0..7 PROVE loadMem(m, x, v)[ull(a + k)] = m[ull(a + k)]
  BY <1>1 DEF loadMem
<1>3. /\ 0 \in 0..7 /\ 1 \in 0..7 /\ 2 \in 0..7 /\ 3 \in 0..7
      /\ 4 \in 0..7 /\ 5 \in 0..7 /\ 6 \in 0..7 /\ 7 \in 0..7
  OBVIOUS
<1>. QED  BY <1>2, <1>3, Zenon DEF readMem

LEMMA LoadType ==
  ASSUME NEW m \in [Addresses -> Byte], NEW a \in Values, NEW v \in Values
  PROVE  loadMem(m, a, v) \in [Addresses -> Byte]
<1>1. above(v) \in Nat /\ \A n \in Nat : above(n) \in Nat /\ n % 256 \in Byte
  BY DEF above, Values, Byte
<1>2. \A n \in 1..8 : bytesOf(v)[n] \in Byte
  <2>. DEFINE v1 == above(v)
              v2 == above(v1)
              v3 == above(v2)
              v4 == above(v3)
              v5 == above(v4)
              v6 == above(v5)
              v7 == above(v6)
  <2>1. /\ v \in Nat /\ v1 \in Nat /\ v2 \in Nat /\ v3 \in Nat
        /\ v4 \in Nat /\ v5 \in Nat /\ v6 \in Nat /\ v7 \in Nat
    BY <1>1 DEF Values
  <2>2. bytesOf(v) = << v % 256, v1 % 256, v2 % 256, v3 % 256,
                        v4 % 256, v5 % 256, v6 % 256, v7 % 256 >>
    BY DEF bytesOf
  <2>. HIDE DEF v1, v2, v3, v4, v5, v6, v7
  <2>. QED  BY <1>1, <2>1, <2>2
<1>3. ASSUME NEW x \in Addresses, x \in bytesAt(a, 8) PROVE ull(x - a) + 1 \in 1..8
  <2>1. PICK k \in 0..(8 - 1) : x = ull(a + k)
    BY <1>3 DEF bytesAt
  <2>2. ull(x - a) = k
    BY <2>1, Sizes DEF ull, Values
  <2>. QED  BY <2>2
<1>. QED  BY <1>2, <1>3 DEF loadMem

---------------------------------------------------------------------------
(* The inductive invariant *)

\* The image is made of bytes and starts in memory.
ImageTyped == /\ file.entry \in Addresses /\ file.at \in Addresses
              /\ file.code \in Seq(Byte) /\ file.data \in Seq(Byte)

SimInv == TypeOK /\ ImageTyped /\ FramesHold

LEMMA RegisterType == TypeOK => r \in [0..31 -> Values]
<1>1. TypeOK => r \in [0..(NREGS - 1) -> Values]
  BY Zenon DEF TypeOK
<1>2. 0..(NREGS - 1) = 0..31
  BY DEF NREGS
<1>. QED  BY <1>1, <1>2

\* A fetch that passes its checks is of an address that pc holds as it is.
LEMMA FetchedPc ==
  TypeOK /\ fetched => pc \in 0..(MEM_SIZE - 4) /\ ull(pc) = pc /\ ull(pc) \in Values
<1>. SUFFICES ASSUME TypeOK, fetched
              PROVE  pc \in 0..(MEM_SIZE - 4) /\ ull(pc) = pc /\ ull(pc) \in Values
  OBVIOUS
<1>1. ull(pc) \in Values
  BY UllType DEF TypeOK
<1>2. ull(pc) + 3 < MEM_SIZE
  BY <1>1, InMemory DEF fetched
<1>3. pc >= 0
  <2>1. SUFFICES ASSUME pc < 0 PROVE FALSE
    BY DEF TypeOK
  <2>2. WORD + pc \in Values /\ WORD + pc >= MEM_SIZE
    BY <2>1, Sizes DEF TypeOK, Values
  <2>3. ull(pc) = WORD + pc
    <3>1. pc \in Int /\ WORD + pc >= 0
      BY <2>2, Sizes DEF TypeOK, Values
    <3>. QED  BY <2>1, <3>1, UllNegative
  <2>. QED  BY <1>2, <2>2, <2>3, Sizes DEF Values
<1>4. pc \in Values
  BY <1>3, Sizes DEF TypeOK, Values
<1>. QED  BY <1>1, <1>2, <1>3, <1>4, UllSame, Sizes DEF TypeOK

\* The operands of a fetched instruction.
LEMMA FetchedFields ==
  TypeOK /\ fetched => /\ d \in Values /\ s \in Values /\ t \in Values
                       /\ ins.rd \in 0..31 /\ imm \in 0..(IMM - 1)
<1>. SUFFICES ASSUME TypeOK, fetched
              PROVE  /\ d \in Values /\ s \in Values /\ t \in Values
                     /\ ins.rd \in 0..31 /\ imm \in 0..(IMM - 1)
  OBVIOUS
<1>1. pc \in 0..(MEM_SIZE - 4)
  BY FetchedPc
<1>2. /\ mem[pc] \in Byte /\ mem[pc + 1] \in Byte
      /\ mem[pc + 2] \in Byte /\ mem[pc + 3] \in Byte
  BY <1>1, Sizes DEF TypeOK, Addresses
<1>3. ins.rd \in 0..31 /\ ins.rs \in 0..31 /\ ins.rt \in 0..31 /\ ins.imm \in 0..(IMM - 1)
  <2>. DEFINE b0 == mem[pc]
              b1 == mem[pc + 1]
              b2 == mem[pc + 2]
              b3 == mem[pc + 3]
  <2>1. ins = parse(b0, b1, b2, b3)
    BY DEF ins
  <2>. HIDE DEF b0, b1, b2, b3
  <2>2. b0 \in Byte /\ b1 \in Byte /\ b2 \in Byte /\ b3 \in Byte
    BY <1>2 DEF b0, b1, b2, b3
  <2>3. /\ parse(b0, b1, b2, b3).rd \in 0..31 /\ parse(b0, b1, b2, b3).rs \in 0..31
        /\ parse(b0, b1, b2, b3).rt \in 0..31 /\ parse(b0, b1, b2, b3).imm \in 0..(IMM - 1)
    BY <2>2, ParseType
  <2>. QED  BY <2>1, <2>3
<1>4. r \in [0..31 -> Values]
  BY RegisterType
<1>. QED  BY <1>3, <1>4 DEF d, s, t, imm

LEMMA SignType == \A i \in 0..(IMM - 1) : sign(i) \in Int /\ -IMM <= sign(i) /\ sign(i) <= IMM
  BY Sizes DEF sign

LEMMA OperandType ==
  TypeOK /\ fetched /\ cmd \in {"mov", "mov3", "call", "return"} => operand \in Values
<1>. SUFFICES ASSUME TypeOK, fetched, cmd \in {"mov", "mov3", "call", "return"}
              PROVE  operand \in Values
  OBVIOUS
<1>0. d \in Values /\ s \in Values /\ imm \in 0..(IMM - 1)
  BY FetchedFields
<1>1. d \in Int /\ s \in Int
  BY <1>0, ValuesAreInts, Zenon
<1>2. sign(imm) \in Int
  BY <1>0, SignType
<1>3. r[31] \in Int
  <2>1. 31 \in 0..31
    OBVIOUS
  <2>. QED  BY <2>1, RegisterType, ValuesAreInts, Zenon
<1>. QED  BY <1>1, <1>2, <1>3, UllType DEF operand

\* Every access of every reachable state that passes its checks is inside of memory:
\* the two comparisons of readMem and loadMem are enough.
LEMMA AccessesSafe == TypeOK => MemorySafe
<1>. SUFFICES ASSUME TypeOK, status = "running", NEW x \in accesses, verified(x[1], x[2])
              PROVE  bytesAt(x[1], x[2]) \subseteq Addresses
  BY DEF MemorySafe
<1>1. CASE x = <<ull(pc), 4>>
  <2>1. ull(pc) \in Values
    BY UllType DEF TypeOK
  <2>. QED  BY <1>1, <2>1, BytesInMemory
<1>2. CASE /\ fetched /\ cmd \in {"mov", "mov3", "call", "return"}
           /\ x = <<operand, 8>>
  BY <1>2, OperandType, BytesInMemory
<1>. QED  BY <1>1, <1>2 DEF accesses

LEMMA SimIdle == Idle /\ ImageTyped /\ stdin \in Seq(Line) => SimInv
<1>. SUFFICES ASSUME Idle, ImageTyped, stdin \in Seq(Line) PROVE SimInv
  OBVIOUS
<1>1. pc \in (-(INT \div 2))..((INT \div 2) - 1)
  BY IntType DEF Idle
<1>2. r \in [0..(NREGS - 1) -> Values] /\ mem \in [Addresses -> Byte]
  BY Sizes DEF Idle, Values, Byte
<1>. QED  BY <1>1, <1>2 DEF Idle, SimInv, TypeOK, FramesHold

LEMMA SimInit == Init => SimInv
<1>. SUFFICES ASSUME Init PROVE SimInv
  OBVIOUS
<1>1. stdin \in Seq(Line)
  BY FilesAssumption DEF Init, Idle
<1>2. ImageTyped
  BY FilesAssumption DEF Init, ImageTyped
<1>. QED  BY <1>1, <1>2, SimIdle DEF Init

---------------------------------------------------------------------------
(* Steps *)

Ends == {"start", "running", "halted", "error", "crashed"}
Ints == (-(INT \div 2))..((INT \div 2) - 1)

\* What only the status and the control change.
LEMMA FrozenStep ==
  SimInv /\ status' \in Ends /\ pc' \in Ints /\ UNCHANGED <<files, r, mem, frames>> => SimInv'
  BY DEF SimInv, ImageTyped, TypeOK, FramesHold, files, Ends, Ints

LEMMA FailStep == SimInv /\ simErr => SimInv'
<1>. SUFFICES ASSUME SimInv, simErr PROVE SimInv'
  OBVIOUS
<1>1. pc' \in Ints
  BY DEF SimInv, ImageTyped, TypeOK, simErr, machine, Ints
<1>. QED  BY <1>1, FrozenStep DEF simErr, machine, Ends

\* pc after an instruction that is not a jump, and after one relative to pc.
LEMMA PcType ==
  TypeOK /\ fetched => /\ pc + 4 \in Ints /\ pc + 4 \in Nat /\ pc + 4 < INT \div 2
                      /\ pc + sign(imm) \in Ints
<1>. SUFFICES ASSUME TypeOK, fetched
              PROVE  /\ pc + 4 \in Ints /\ pc + 4 \in Nat /\ pc + 4 < INT \div 2
                     /\ pc + sign(imm) \in Ints
  OBVIOUS
<1>1. pc \in 0..(MEM_SIZE - 4)
  BY FetchedPc
<1>2. sign(imm) \in Int /\ -IMM <= sign(imm) /\ sign(imm) <= IMM
  <2>1. imm \in 0..(IMM - 1)
    BY FetchedFields
  <2>. QED  BY <2>1, SignType
<1>3. INT \div 2 \in Int
  BY Sizes
<1>. HIDE DEF Ints
<1>4. pc + 4 \in Nat /\ pc + 4 < INT \div 2
  BY <1>1, Sizes
<1>. QED  BY <1>1, <1>2, <1>3, <1>4, Sizes DEF Ints

\* A register takes a value.
LEMMA SetStep ==
  ASSUME NEW v \in Values
  PROVE  /\ SimInv /\ status = "running" /\ fetched /\ Set(v) /\ Advance
         /\ stdin' \in Seq(Line) /\ UNCHANGED <<status, file, stdout, mem, frames>>
         => SimInv'
<1>. SUFFICES ASSUME SimInv, fetched, Set(v), Advance, stdin' \in Seq(Line),
                     UNCHANGED <<status, file, stdout, mem, frames>>
              PROVE  SimInv'
  OBVIOUS
<1>1. pc' \in Ints
  BY PcType DEF Advance, SimInv
<1>2. r' \in [0..(NREGS - 1) -> Values]
  BY DEF SimInv, ImageTyped, TypeOK, Set
<1>. QED  BY <1>1, <1>2 DEF SimInv, ImageTyped, TypeOK, FramesHold, Ints

\* Memory takes a value.  The slots that are left alone hold what they held.
LEMMA UntouchedHold ==
  ASSUME NEW x \in Values, NEW v \in Values, verified(x, 8), SimInv, NEW f \in untouched(x)
  PROVE  /\ f \in [slot : Values, back : Nat] /\ verified(f.slot, 8) /\ f.back < INT \div 2
         /\ readMem(loadMem(mem, x, v), f.slot) = f.back
<1>1. f \in frames /\ bytesAt(f.slot, 8) \cap bytesAt(x, 8) = {}
  BY DEF untouched
<1>2. /\ f \in [slot : Values, back : Nat] /\ verified(f.slot, 8) /\ f.back < INT \div 2
      /\ readMem(mem, f.slot) = f.back
  BY <1>1 DEF SimInv, ImageTyped, TypeOK, FramesHold
<1>3. mem \in [Addresses -> Byte] /\ f.slot \in Values
  BY <1>2 DEF SimInv, ImageTyped, TypeOK
<1>. QED  BY <1>1, <1>2, <1>3, ReadApart

LEMMA WriteStep == SimInv /\ WriteWord => SimInv'
<1>. SUFFICES ASSUME SimInv, WriteWord PROVE SimInv'
  OBVIOUS
<1>1. fetched /\ cmd \in {"mov3"} /\ verified(operand, 8) /\ TypeOK
  BY DEF WriteWord, Runs, SimInv
<1>2. operand \in Values /\ s \in Values
  BY <1>1, OperandType, FetchedFields
<1>3. mem' \in [Addresses -> Byte]
  BY <1>1, <1>2, LoadType DEF WriteWord, TypeOK
<1>4. pc' \in Ints
  BY <1>1, PcType DEF WriteWord, Advance
<1>5. frames' \subseteq [slot : Values, back : Nat] /\ FramesHold'
  BY <1>1, <1>2, UntouchedHold DEF WriteWord, FramesHold
<1>. QED  BY <1>3, <1>4, <1>5 DEF SimInv, ImageTyped, TypeOK, WriteWord, files, Ints

LEMMA CallStep == SimInv /\ Call => SimInv'
<1>. SUFFICES ASSUME SimInv, Call PROVE SimInv'
  OBVIOUS
<1>1. fetched /\ cmd \in {"call"} /\ verified(operand, 8) /\ TypeOK
  BY DEF Call, Runs, SimInv
<1>2. operand \in Values /\ d \in Values
  BY <1>1, OperandType, FetchedFields
<1>3. pc + 4 \in Nat /\ pc + 4 < INT \div 2 /\ pc + 4 \in Values
  <2>1. pc + 4 \in Nat /\ pc + 4 < INT \div 2
    BY <1>1, PcType
  <2>. QED  BY <2>1, Sizes DEF Values
<1>4. mem' \in [Addresses -> Byte]
  BY <1>1, <1>2, <1>3, LoadType DEF Call, TypeOK
<1>5. pc' \in Ints
  BY <1>2, Sizes DEF Call, verifyAddress, Ints, Values
<1>6. ASSUME NEW f \in frames'
      PROVE  /\ f \in [slot : Values, back : Nat] /\ verified(f.slot, 8) /\ f.back < INT \div 2
             /\ readMem(mem', f.slot) = f.back
  <2>1. CASE f \in untouched(operand)
    BY <1>1, <1>2, <1>3, <2>1, UntouchedHold DEF Call
  <2>2. CASE f = [slot |-> operand, back |-> pc + 4]
    <3>1. readMem(mem', operand) = pc + 4
      BY <1>1, <1>2, <1>3, ReadBack DEF Call, TypeOK
    <3>. QED  BY <1>1, <1>2, <1>3, <2>2, <3>1
  <2>. QED  BY <2>1, <2>2 DEF Call
<1>. QED  BY <1>4, <1>5, <1>6 DEF SimInv, ImageTyped, TypeOK, FramesHold, Call, files, Ints

LEMMA PlacedType ==
  ASSUME NEW m \in [Addresses -> Byte], NEW a \in Addresses, NEW bytes \in Seq(Byte)
  PROVE  placed(m, a, bytes) \in [Addresses -> Byte]
<1>1. ASSUME NEW x \in Addresses, x - a \in 0..(Len(bytes) - 1)
      PROVE  bytes[x - a + 1] \in Byte
  <2>1. x - a + 1 \in 1..Len(bytes)
    BY <1>1 DEF Addresses
  <2>. QED  BY <2>1
<1>. QED  BY <1>1 DEF placed

LEMMA LoadStep == SimInv /\ Load => SimInv'
<1>. SUFFICES ASSUME SimInv, Load PROVE SimInv'
  OBVIOUS
<1>1. /\ file.entry \in Addresses /\ file.at \in Addresses
      /\ file.code \in Seq(Byte) /\ file.data \in Seq(Byte)
  BY DEF SimInv, ImageTyped
<1>2. mem' \in [Addresses -> Byte]
  <2>1. [a \in Addresses |-> 0] \in [Addresses -> Byte]
    BY DEF Byte
  <2>. QED  BY <1>1, <2>1, PlacedType DEF Load, loaded
<1>3. pc' \in Ints
  BY <1>1, Sizes DEF Load, Addresses, Ints
<1>4. r' \in [0..(NREGS - 1) -> Values]
  <2>1. MEM_SIZE \in Values
    BY Sizes DEF Values
  <2>. QED  BY <2>1 DEF Load, SimInv, TypeOK
<1>. QED  BY <1>2, <1>3, <1>4 DEF SimInv, ImageTyped, TypeOK, FramesHold, Load, files, Ints

LEMMA ComputeStep == SimInv /\ Compute => SimInv'
<1>. SUFFICES ASSUME SimInv, Compute PROVE SimInv'
  OBVIOUS
<1>1. PICK v \in results : Set(v)
  BY DEF Compute
<1>2. v \in Values
  BY <1>1, FloatAssumption DEF results
<1>3. stdin' \in Seq(Line)
  BY DEF SimInv, ImageTyped, TypeOK, Compute, files
<1>. QED  BY <1>1, <1>2, <1>3, SetStep DEF Compute, Runs, files

LEMMA ReadStep == SimInv /\ ReadWord => SimInv'
<1>. SUFFICES ASSUME SimInv, ReadWord PROVE SimInv'
  OBVIOUS
<1>1. fetched /\ cmd \in {"mov"} /\ verified(operand, 8) /\ TypeOK
  BY DEF ReadWord, Runs, SimInv
<1>2. operand \in Values
  BY <1>1, OperandType
<1>3. readMem(mem, operand) \in Values
  BY <1>1, <1>2, ReadType DEF TypeOK
<1>4. stdin' \in Seq(Line)
  BY DEF SimInv, ImageTyped, TypeOK, ReadWord, files
<1>. QED  BY <1>3, <1>4, SetStep DEF ReadWord, Runs, files

LEMMA InputStep == SimInv /\ Input => SimInv'
<1>. SUFFICES ASSUME SimInv, Input PROVE SimInv'
  OBVIOUS
<1>1. PICK v \in lineRead : Set(v)
  BY DEF Input
<1>2. stdin \in Seq(Line) /\ stdin # <<>>
  BY <1>1 DEF SimInv, ImageTyped, TypeOK, lineRead
<1>3. v \in Values
  <2>. DEFINE ln == Head(stdin)
  <2>1. ln \in Line /\ v \in valueOf(ln)
    BY <1>1, <1>2 DEF lineRead
  <2>. HIDE DEF ln
  <2>2. ln.v \in Nat
    BY <2>1 DEF Line
  <2>3. ull(-ln.v) \in Values /\ 0 \in Values
    BY <2>2, UllType, Sizes DEF Values
  <2>. QED  BY <2>1, <2>2, <2>3, Sizes DEF valueOf, Values
<1>4. stdin' \in Seq(Line)
  BY <1>2 DEF Input
<1>. QED  BY <1>1, <1>3, <1>4, SetStep DEF Input, Runs

LEMMA BranchStep == SimInv /\ Branch => SimInv'
<1>. SUFFICES ASSUME SimInv, Branch PROVE SimInv'
  OBVIOUS
<1>1. status = "running" /\ fetched /\ TypeOK
  BY DEF Branch, Runs, SimInv
<1>2. CASE Jump(d) /\ verifyAddress(d)
  <2>1. d \in Values
    BY <1>1, FetchedFields
  <2>2. pc' \in Ints
    BY <1>2, <2>1, Sizes DEF Jump, verifyAddress, Ints, Values
  <2>. QED  BY <1>1, <1>2, <2>2, FrozenStep DEF Jump, Ends
<1>3. CASE Jump(d) /\ ~verifyAddress(d)
  BY <1>3, FailStep DEF Jump
<1>4. CASE Advance /\ UNCHANGED <<status, files, r, mem, frames>>
  <2>1. pc' \in Ints
    BY <1>1, <1>4, PcType DEF Advance
  <2>. QED  BY <1>1, <1>4, <2>1, FrozenStep DEF Ends
<1>. QED  BY <1>2, <1>3, <1>4 DEF Branch

LEMMA BranchRelativeStep == SimInv /\ BranchRelative => SimInv'
<1>. SUFFICES ASSUME SimInv, BranchRelative PROVE SimInv'
  OBVIOUS
<1>1. status = "running" /\ fetched /\ TypeOK
  BY DEF BranchRelative, Runs, SimInv
<1>2. toInt(ull(pc + d)) \in Ints
  <2>1. pc \in Int /\ d \in Int
    <3>1. d \in Values
      BY <1>1, FetchedFields
    <3>2. pc \in Int
      BY <1>1, Sizes DEF TypeOK
    <3>. QED  BY <3>1, <3>2, Sizes DEF Values
  <2>2. ull(pc + d) \in Nat
    BY <2>1, UllType DEF Values
  <2>. QED  BY <2>2, IntType DEF Ints
<1>3. pc' \in Ints
  BY <1>1, <1>2, PcType DEF BranchRelative
<1>. QED  BY <1>1, <1>3, FrozenStep DEF BranchRelative, Ends

LEMMA ReturnStep == SimInv /\ Return => SimInv'
<1>. SUFFICES ASSUME SimInv, Return PROVE SimInv'
  OBVIOUS
<1>1. status = "running" /\ fetched /\ cmd \in {"return"} /\ verified(operand, 8) /\ TypeOK
  BY DEF Return, Runs, SimInv
<1>2. operand \in Values
  BY <1>1, OperandType
<1>3. readMem(mem, operand) \in Nat
  <2>1. readMem(mem, operand) \in Values
    BY <1>1, <1>2, ReadType DEF TypeOK
  <2>. QED  BY <2>1 DEF Values
<1>4. pc' \in Ints
  BY <1>3, IntType DEF Return, Ints
<1>. QED  BY <1>1, <1>4, FrozenStep DEF Return, Ends

LEMMA OutputStep == SimInv /\ Output => SimInv'
<1>. SUFFICES ASSUME SimInv, Output PROVE SimInv'
  OBVIOUS
<1>1. fetched /\ TypeOK
  BY DEF Output, Runs, SimInv
<1>2. s \in Values /\ s % 256 \in Values
  <2>1. s \in Values
    BY <1>1, FetchedFields
  <2>. QED  BY <2>1, Sizes DEF Values
<1>3. stdout' \in Seq([k : {"number", "char"}, v : Values])
  <2>. DEFINE e == IF d = 1 THEN [k |-> "number", v |-> s] ELSE [k |-> "char", v |-> s % 256]
  <2>1. e \in [k : {"number", "char"}, v : Values]
    BY <1>2
  <2>2. stdout' = Append(stdout, e)
    BY DEF Output
  <2>. HIDE DEF e
  <2>. QED  BY <1>1, <2>1, <2>2 DEF TypeOK
<1>4. pc' \in Ints
  BY <1>1, PcType DEF Output, Advance
<1>. QED  BY <1>3, <1>4 DEF SimInv, ImageTyped, TypeOK, FramesHold, Output, Ints

LEMMA HaltStep == SimInv /\ Halt => SimInv'
<1>. SUFFICES ASSUME SimInv, Halt PROVE SimInv'
  OBVIOUS
<1>1. pc' \in Ints
  BY PcType DEF Halt, Runs, Advance, SimInv
<1>. QED  BY <1>1, FrozenStep DEF Halt, Ends

LEMMA OverrunStep == SimInv /\ LoadOverrun => SimInv'
<1>. SUFFICES ASSUME SimInv, LoadOverrun PROVE SimInv'
  OBVIOUS
<1>1. pc' \in Ints
  BY DEF SimInv, ImageTyped, TypeOK, LoadOverrun, machine, Ints
<1>. QED  BY <1>1, FrozenStep DEF LoadOverrun, machine, Ends

LEMMA SimStep == SimInv /\ [Next]_vars => SimInv'
<1>. SUFFICES ASSUME SimInv, [Next]_vars PROVE SimInv'
  OBVIOUS
<1>1. CASE Starting
  BY <1>1, FailStep, LoadStep, OverrunStep DEF Starting, NoFile
<1>2. CASE BadFetch \/ BadOpcode \/ DivideByZero
  BY <1>2, FailStep DEF BadFetch, BadOpcode, DivideByZero
<1>3. CASE Compute
  BY <1>3, ComputeStep
<1>4. CASE Moving
  BY <1>4, ReadStep, WriteStep, FailStep DEF Moving, BadAddress
<1>5. CASE Branching
  BY <1>5, BranchStep, BranchRelativeStep, CallStep, ReturnStep, FailStep DEF Branching, BadCall
<1>6. CASE Private
  BY <1>6, HaltStep, InputStep, OutputStep, FailStep DEF Private, BadInput, BadPriv
<1>7. CASE UNCHANGED vars
  BY <1>7 DEF vars, files, machine, SimInv, ImageTyped, TypeOK, FramesHold
<1>8. CASE Ended
  BY <1>7, <1>8 DEF Ended
<1>. QED  BY <1>1, <1>2, <1>3, <1>4, <1>5, <1>6, <1>7, <1>8 DEF Next

\* A return through a slot that still holds its call goes behind the call.
LEMMA ReturnGoesBack ==
  SimInv => [\A f \in frames : Return /\ f.slot = operand => pc' = f.back]_vars
<1>. SUFFICES ASSUME SimInv, NEW f \in frames, Return, f.slot = operand PROVE pc' = f.back
  OBVIOUS
<1>1. f.back \in Nat /\ f.back < INT \div 2 /\ readMem(mem, operand) = f.back
  BY DEF SimInv, ImageTyped, TypeOK, FramesHold
<1>. QED  BY <1>1, IntType DEF Return

---------------------------------------------------------------------------
(* Theorems *)

\* The registers, pc and memory keep their widths, and the history what it says.
THEOREM SimulatorInvariant == Spec => []SimInv
  BY SimInit, SimStep, PTL DEF Spec

\* Every variable keeps its type: no instruction leaves a register, pc or a byte of
\* memory with a value its C type does not hold.
THEOREM SimulatorTypes == Spec => []TypeOK
<1>1. SimInv => TypeOK
  BY DEF SimInv
<1>. QED  BY <1>1, SimulatorInvariant, PTL

\* Every fetch, load, store, call and return that passes its two comparisons touches
\* bytes of mem only, for every image, also one that jumps and stores at random.
THEOREM MemoryAlwaysSafe == Spec => []MemorySafe
<1>1. SimInv => MemorySafe
  BY AccessesSafe DEF SimInv
<1>. QED  BY <1>1, SimulatorInvariant, PTL

\* The slot of a call holds its return address until a store touches one of its bytes.
THEOREM FramesAlwaysHold == Spec => []FramesHold
<1>1. SimInv => FramesHold
  BY DEF SimInv
<1>. QED  BY <1>1, SimulatorInvariant, PTL

\* A return whose slot is untouched continues behind the call that filled it.
THEOREM ReturnsAlwaysToCaller == Spec => ReturnsToCaller
<1>1. SimInv /\ [Next]_vars => [\A f \in frames : Return /\ f.slot = operand => pc' = f.back]_vars
  BY ReturnGoesBack
<1>. QED  BY <1>1, SimulatorInvariant, PTL DEF Spec, ReturnsToCaller

---------------------------------------------------------------------------
(* Words: the bytes the assembler writes, and the fields the simulator takes from them *)

LEMMA ImmSplit ==
  ASSUME NEW i \in 0..(IMM - 1) 
  PROVE  (i % 256) + 256 * (i \div 256) = i /\ i % 256 \in 0..255 /\ i \div 256 \in 0..15
<1>1. IMM = 256 * 16
  BY MachineAssumption
<1>. QED  BY <1>1

LEMMA RegisterSplit ==
  ASSUME NEW n \in 0..31
  PROVE  /\ (n % 16) + 16 * (n \div 16) = n /\ n \div 16 \in 0..1 /\ n % 16 \in 0..15
         /\ (n % 4) + 4 * (n \div 4) = n /\ n \div 4 \in 0..7 /\ n % 4 \in 0..3
  OBVIOUS

\* The second byte holds four bits of imm and four of rt; the third one bit of rt, rs
\* and two bits of rd; the fourth the rest of rd and the opcode.
LEMMA SecondByte ==
  ASSUME NEW x \in 0..15, NEW y \in 0..15
  PROVE  (x + 16 * y) % 16 = x /\ (x + 16 * y) \div 16 = y /\ x + 16 * y \in Byte
  BY DEF Byte

LEMMA ThirdByte ==
  ASSUME NEW x \in 0..1, NEW y \in 0..31, NEW z \in 0..3
  PROVE  LET b == x + 2 * y + 64 * z
         IN b % 2 = x /\ (b \div 2) % 32 = y /\ b \div 64 = z /\ b \in Byte
  BY DEF Byte

LEMMA FourthByte ==
  ASSUME NEW x \in 0..7, NEW y \in 0..31
  PROVE  (x + 8 * y) % 8 = x /\ (x + 8 * y) \div 8 = y /\ x + 8 * y \in Byte
  BY DEF Byte

\* The simulator's parse takes from the four bytes of a word the fields that
\* build_instruction packed into it: no field reaches into another, and none is cut.
THEOREM ParseUndoesBuild ==
  ASSUME NEW w \in Word
  PROVE  LET b == wordBytes(w)
         IN /\ b \in Seq(Byte)
            /\ parse(b[1], b[2], b[3], b[4]) = w
<1>. DEFINE b1 == w.imm % 256
            b2 == (w.imm \div 256) + 16 * (w.rt % 16)
            b3 == (w.rt \div 16) + 2 * w.rs + 64 * (w.rd % 4)
            b4 == (w.rd \div 4) + 8 * w.op
<1>1. /\ w.op \in 0..31 /\ w.rd \in 0..31 /\ w.rs \in 0..31 /\ w.rt \in 0..31
      /\ w.imm \in 0..(IMM - 1)
      /\ w = [op |-> w.op, rd |-> w.rd, rs |-> w.rs, rt |-> w.rt, imm |-> w.imm]
  BY DEF Word
<1>2. wordBytes(w) = <<b1, b2, b3, b4>>
  BY DEF wordBytes
<1>3. b2 % 16 = w.imm \div 256 /\ b2 \div 16 = w.rt % 16 /\ b2 \in Byte
  BY <1>1, ImmSplit, RegisterSplit, SecondByte
<1>4. /\ b3 % 2 = w.rt \div 16 /\ (b3 \div 2) % 32 = w.rs /\ b3 \div 64 = w.rd % 4
      /\ b3 \in Byte
  BY <1>1, RegisterSplit, ThirdByte
<1>5. b4 % 8 = w.rd \div 4 /\ b4 \div 8 = w.op /\ b4 \in Byte
  BY <1>1, RegisterSplit, FourthByte
<1>6. b1 \in Byte /\ b1 + 256 * (w.imm \div 256) = w.imm
  BY <1>1, ImmSplit DEF Byte
<1>. HIDE DEF b1, b2, b3, b4
<1>7. parse(b1, b2, b3, b4) = w
  BY <1>1, <1>3, <1>4, <1>5, <1>6, RegisterSplit DEF parse
<1>. QED  BY <1>2, <1>3, <1>4, <1>5, <1>6, <1>7

---------------------------------------------------------------------------
(* Sections *)

LEMMA Blocks ==
  ASSUME NEW n \in Nat \ {0}, NEW k \in Nat
  PROVE  /\ k < 4 => /\ (4 * (n - 1) + k + 4) \div 4 = n
                    /\ (4 * (n - 1) + k) % 4 = k
         /\ k < 8 => /\ (8 * (n - 1) + k + 8) \div 8 = n
                    /\ (8 * (n - 1) + k) % 8 = k
  OBVIOUS

LEMMA ElementOf ==
  \A S : \A q \in Seq(S) : \A k \in 1..Len(q) : q[k] \in S
  OBVIOUS

LEMMA WordBytes ==
  ASSUME NEW w \in Word
  PROVE  Len(wordBytes(w)) = 4 /\ \A k \in 1..4 : wordBytes(w)[k] \in Byte
<1>1. Len(wordBytes(w)) = 4
  BY DEF wordBytes
<1>2. wordBytes(w) \in Seq(Byte)
  BY ParseUndoesBuild
<1>. DEFINE b == wordBytes(w)
<1>3. Len(b) = 4 /\ b \in Seq(Byte)
  BY <1>1, <1>2
<1>. HIDE DEF b
<1>4. ASSUME NEW k \in 1..4 PROVE b[k] \in Byte
  <2>1. k \in 1..Len(b)
    BY <1>3
  <2>2. b \in Seq(Byte)
    BY <1>3
  <2>. QED  BY ONLY <2>1, <2>2, ElementOf
<1>. QED  BY <1>1, <1>4 DEF b

LEMMA ValueBytes ==
  ASSUME NEW v \in Values
  PROVE  Len(bytesOf(v)) = 8 /\ \A k \in 1..8 : bytesOf(v)[k] \in Byte
<1>1. above(v) \in Nat /\ \A n \in Nat : above(n) \in Nat /\ n % 256 \in Byte
  BY DEF above, Values, Byte
<1>. DEFINE v1 == above(v)
            v2 == above(v1)
            v3 == above(v2)
            v4 == above(v3)
            v5 == above(v4)
            v6 == above(v5)
            v7 == above(v6)
<1>2. v \in Nat /\ v1 \in Nat /\ v2 \in Nat /\ v3 \in Nat /\ v4 \in Nat /\ v5 \in Nat
      /\ v6 \in Nat /\ v7 \in Nat
  BY <1>1 DEF Values
<1>3. bytesOf(v) = << v % 256, v1 % 256, v2 % 256, v3 % 256, v4 % 256, v5 % 256, v6 % 256,
                      v7 % 256 >>
  BY DEF bytesOf
<1>. HIDE DEF v1, v2, v3, v4, v5, v6, v7
<1>. QED  BY <1>1, <1>2, <1>3

\* The bytes of a section are those of its words, and of its data, one after the other.
LEMMA CodeBytes ==
  ASSUME NEW words \in Seq(Word)
  PROVE  /\ codeFrom(words) \in Seq(Byte) /\ Len(codeFrom(words)) = 4 * Len(words)
         /\ \A n \in DOMAIN words, k \in 0..3 :
               codeFrom(words)[4 * (n - 1) + k + 1] = wordBytes(words[n])[k + 1]
<1>. DEFINE N == 4 * Len(words)
            byte(x) == wordBytes(words[(x + 3) \div 4])[1 + ((x - 1) % 4)]
<1>1. codeFrom(words) = [x \in 1..N |-> byte(x)]
  BY DEF codeFrom
<1>2. N \in Nat
  OBVIOUS
<1>3. \A x \in 1..N : byte(x) \in Byte
  <2>. SUFFICES ASSUME NEW x \in 1..N PROVE byte(x) \in Byte
    OBVIOUS
  <2>1. (x + 3) \div 4 \in 1..Len(words) /\ 1 + ((x - 1) % 4) \in 1..4
    OBVIOUS
  <2>2. words[(x + 3) \div 4] \in Word
    BY <2>1
  <2>. QED  BY <2>1, <2>2, WordBytes
<1>4. \A n \in DOMAIN words, k \in 0..3 :
        /\ 4 * (n - 1) + k + 1 \in 1..N
        /\ byte(4 * (n - 1) + k + 1) = wordBytes(words[n])[k + 1]
  <2>. SUFFICES ASSUME NEW n \in DOMAIN words, NEW k \in 0..3
                PROVE  /\ 4 * (n - 1) + k + 1 \in 1..N
                       /\ byte(4 * (n - 1) + k + 1) = wordBytes(words[n])[k + 1]
    OBVIOUS
  <2>. DEFINE x == 4 * (n - 1) + k + 1
  <2>0. n \in 1..Len(words)
    OBVIOUS
  <2>1. x \in 1..N
    BY <2>0
  <2>2. (x + 3) \div 4 = n /\ (x - 1) % 4 = k
    BY <2>0, Blocks
  <2>. HIDE DEF x
  <2>3. byte(x) = wordBytes(words[n])[k + 1]
    BY <2>2
  <2>. QED  BY <2>1, <2>3 DEF x
<1>. HIDE DEF N, byte
<1>. QED  BY <1>1, <1>2, <1>3, <1>4 DEF N

LEMMA DataBytes ==
  ASSUME NEW data \in Seq(Values)
  PROVE  /\ dataFrom(data) \in Seq(Byte) /\ Len(dataFrom(data)) = 8 * Len(data)
         /\ \A n \in DOMAIN data, k \in 0..7 :
               dataFrom(data)[8 * (n - 1) + k + 1] = bytesOf(data[n])[k + 1]
<1>. DEFINE N == 8 * Len(data)
            byte(x) == bytesOf(data[(x + 7) \div 8])[1 + ((x - 1) % 8)]
<1>1. dataFrom(data) = [x \in 1..N |-> byte(x)]
  BY DEF dataFrom
<1>2. N \in Nat
  OBVIOUS
<1>3. \A x \in 1..N : byte(x) \in Byte
  <2>. SUFFICES ASSUME NEW x \in 1..N PROVE byte(x) \in Byte
    OBVIOUS
  <2>1. (x + 7) \div 8 \in 1..Len(data) /\ 1 + ((x - 1) % 8) \in 1..8
    OBVIOUS
  <2>2. data[(x + 7) \div 8] \in Values
    BY <2>1
  <2>. QED  BY <2>1, <2>2, ValueBytes
<1>4. \A n \in DOMAIN data, k \in 0..7 :
        /\ 8 * (n - 1) + k + 1 \in 1..N
        /\ byte(8 * (n - 1) + k + 1) = bytesOf(data[n])[k + 1]
  <2>. SUFFICES ASSUME NEW n \in DOMAIN data, NEW k \in 0..7
                PROVE  /\ 8 * (n - 1) + k + 1 \in 1..N
                       /\ byte(8 * (n - 1) + k + 1) = bytesOf(data[n])[k + 1]
    OBVIOUS
  <2>. DEFINE x == 8 * (n - 1) + k + 1
  <2>0. n \in 1..Len(data)
    OBVIOUS
  <2>1. x \in 1..N
    BY <2>0
  <2>2. (x + 7) \div 8 = n /\ (x - 1) % 8 = k
    BY <2>0, Blocks
  <2>. HIDE DEF x
  <2>3. byte(x) = bytesOf(data[n])[k + 1]
    BY <2>2
  <2>. QED  BY <2>1, <2>3 DEF x
<1>. HIDE DEF N, byte
<1>. QED  BY <1>1, <1>2, <1>3, <1>4 DEF N

---------------------------------------------------------------------------
(* An image in memory *)

\* A section that fits is in memory byte by byte, and the rest of memory is as it was.
LEMMA SectionPlaced ==
  ASSUME NEW m \in [Addresses -> Byte], NEW a \in Nat, NEW bytes \in Seq(Byte),
         fits(a, bytes)
  PROVE  /\ placed(m, a, bytes) \in [Addresses -> Byte]
         /\ \A k \in 0..(Len(bytes) - 1) :
               a + k \in Addresses /\ placed(m, a, bytes)[a + k] = bytes[k + 1]
         /\ \A x \in Addresses :
               x \notin a..(a + Len(bytes) - 1) => placed(m, a, bytes)[x] = m[x]
<1>. DEFINE size == Len(bytes)
            p == placed(m, a, bytes)
<1>1. p = [x \in Addresses |-> IF x - a \in 0..(size - 1) THEN bytes[x - a + 1] ELSE m[x]]
  BY DEF placed
<1>2. size \in Nat /\ a + size <= MEM_SIZE /\ \A k \in 1..size : bytes[k] \in Byte
  BY DEF fits
<1>3. MEM_SIZE \in Nat
  BY Sizes
<1>. HIDE DEF size, p
<1>4. \A k \in 0..(size - 1) : a + k \in Addresses /\ p[a + k] = bytes[k + 1]
  <2>. SUFFICES ASSUME NEW k \in 0..(size - 1)
                PROVE  a + k \in Addresses /\ p[a + k] = bytes[k + 1]
    OBVIOUS
  <2>. DEFINE x == a + k
  <2>1. x \in Addresses /\ x - a \in 0..(size - 1) /\ x - a + 1 = k + 1
    BY <1>2, <1>3 DEF Addresses
  <2>. HIDE DEF x
  <2>2. p[x] = bytes[k + 1]
    BY <1>1, <2>1
  <2>. QED  BY <2>1, <2>2 DEF x
<1>5. \A x \in Addresses : x \notin a..(a + size - 1) => p[x] = m[x]
  <2>. SUFFICES ASSUME NEW x \in Addresses, x \notin a..(a + size - 1) PROVE p[x] = m[x]
    OBVIOUS
  <2>1. x - a \notin 0..(size - 1)
    BY <1>2, <1>3 DEF Addresses
  <2>. QED  BY <1>1, <2>1
<1>6. \A x \in Addresses : p[x] \in Byte
  <2>. SUFFICES ASSUME NEW x \in Addresses PROVE p[x] \in Byte
    OBVIOUS
  <2>1. CASE x - a \in 0..(size - 1)
    <3>1. x - a + 1 \in 1..size
      BY <2>1, <1>2, <1>3 DEF Addresses
    <3>2. p[x] = bytes[x - a + 1]
      BY <1>1, <2>1
    <3>. QED  BY <1>2, <3>1, <3>2
  <2>2. CASE x - a \notin 0..(size - 1)
    BY <1>1, <2>2
  <2>. QED  BY <2>1, <2>2
<1>7. p \in [Addresses -> Byte]
  BY <1>1, <1>6
<1>. QED  BY <1>4, <1>5, <1>7 DEF p, size

\* Eight bytes that are those of a value read as that value.
LEMMA BytesRead ==
  ASSUME NEW m \in [Addresses -> Byte], NEW a \in Nat, a + 8 <= MEM_SIZE, NEW v \in Values,
         \A k \in 0..7 : m[a + k] = bytesOf(v)[k + 1]
  PROVE  readMem(m, a) = v
<1>1. a \in Values /\ \A k \in 0..7 : a + k \in Values /\ ull(a + k) = a + k /\ ull(k) = k
  BY Sizes DEF Values, ull
<1>2. verified(a, 8)
  <2>1. ull(a + 8 - 1) = a + 7
    BY <1>1
  <2>2. a < MEM_SIZE /\ a + 7 < MEM_SIZE
    BY Sizes
  <2>. QED  BY <2>1, <2>2 DEF verified, verifyAddress
<1>3. loadMem(m, a, v) = m
  <2>. DEFINE touched == bytesAt(a, 8)
              bytes == bytesOf(v)
  <2>1. \A x \in Addresses : x \in touched => bytes[ull(x - a) + 1] = m[x]
    <3>. SUFFICES ASSUME NEW x \in touched PROVE bytes[ull(x - a) + 1] = m[x]
      OBVIOUS
    <3>1. PICK k \in 0..(8 - 1) : x = ull(a + k)
      BY DEF bytesAt
    <3>2. k \in 0..7
      OBVIOUS
    <3>3. x = a + k /\ ull(k) = k
      BY <1>1, <3>1, <3>2
    <3>4. x - a = k
      BY <3>2, <3>3
    <3>. QED  BY <3>2, <3>3, <3>4
  <2>2. loadMem(m, a, v) =
          [x \in Addresses |-> IF x \in touched THEN bytes[ull(x - a) + 1] ELSE m[x]]
    BY DEF loadMem
  <2>. HIDE DEF touched, bytes
  <2>3. loadMem(m, a, v) = [x \in Addresses |-> m[x]]
    BY <2>1, <2>2
  <2>. QED  BY <2>3
<1>4. readMem(loadMem(m, a, v), a) = v
  BY <1>1, <1>2, ReadBack
<1>. QED  BY <1>3, <1>4

\* From one program to the other: where the simulator has loaded the bytes that the
\* assembler wrote, it fetches every word at its place in the code, reads every datum at
\* its place in the data, and finds zeros elsewhere, for every image whose sections lie
\* in memory, apart from each other and in either order.
THEOREM LoadedIsAssembled ==
  ASSUME NEW words \in Seq(Word), NEW data \in Seq(Values), NEW e \in Nat, NEW a \in Nat,
         e + 4 * Len(words) <= MEM_SIZE, a + 8 * Len(data) <= MEM_SIZE,
         e + 4 * Len(words) <= a \/ a + 8 * Len(data) <= e
  PROVE  LET m == loaded([entry |-> e, code |-> codeFrom(words),
                          at |-> a, data |-> dataFrom(data)])
             code == e..(e + 4 * Len(words) - 1)
             rest == a..(a + 8 * Len(data) - 1)
         IN /\ \A n \in DOMAIN words :
                 LET p == e + 4 * (n - 1)
                 IN parse(m[p], m[p + 1], m[p + 2], m[p + 3]) = words[n]
            /\ \A n \in DOMAIN data : readMem(m, a + 8 * (n - 1)) = data[n]
            /\ \A x \in Addresses \ (code \cup rest) : m[x] = 0
<1>. DEFINE cs == codeFrom(words)
            ds == dataFrom(data)
            zero == [x \in Addresses |-> 0]
            m1 == placed(zero, e, cs)
            m  == placed(m1, a, ds)
<1>1. loaded([entry |-> e, code |-> cs, at |-> a, data |-> ds]) = m
  BY DEF loaded
<1>2. zero \in [Addresses -> Byte] /\ \A x \in Addresses : zero[x] = 0
  BY DEF Byte
<1>3. cs \in Seq(Byte) /\ Len(cs) = 4 * Len(words)
  BY CodeBytes
<1>4. ds \in Seq(Byte) /\ Len(ds) = 8 * Len(data)
  BY DataBytes
<1>5. fits(e, cs) /\ fits(a, ds)
  BY <1>3, <1>4 DEF fits
<1>. HIDE DEF cs, ds, zero, m1, m
<1>6. /\ m1 \in [Addresses -> Byte]
      /\ \A k \in 0..(4 * Len(words) - 1) : e + k \in Addresses /\ m1[e + k] = cs[k + 1]
      /\ \A x \in Addresses : x \notin e..(e + 4 * Len(words) - 1) => m1[x] = zero[x]
  BY <1>2, <1>3, <1>5, SectionPlaced DEF m1
<1>7. /\ m \in [Addresses -> Byte]
      /\ \A k \in 0..(8 * Len(data) - 1) : a + k \in Addresses /\ m[a + k] = ds[k + 1]
      /\ \A x \in Addresses : x \notin a..(a + 8 * Len(data) - 1) => m[x] = m1[x]
  <2>1. m1 \in [Addresses -> Byte] /\ ds \in Seq(Byte) /\ fits(a, ds)
    BY <1>4, <1>5, <1>6
  <2>2. /\ m \in [Addresses -> Byte]
        /\ \A k \in 0..(Len(ds) - 1) : a + k \in Addresses /\ m[a + k] = ds[k + 1]
        /\ \A x \in Addresses : x \notin a..(a + Len(ds) - 1) => m[x] = m1[x]
    BY <2>1, SectionPlaced DEF m
  <2>. QED  BY <1>4, <2>2
<1>8. ASSUME NEW n \in DOMAIN words
      PROVE  LET p == e + 4 * (n - 1)
             IN parse(m[p], m[p + 1], m[p + 2], m[p + 3]) = words[n]
  <2>. DEFINE p == e + 4 * (n - 1)
              b == wordBytes(words[n])
  <2>1. n \in 1..Len(words) /\ words[n] \in Word
    OBVIOUS
  <2>2. \A k \in 0..3 : m[p + k] = b[k + 1]
    <3>. SUFFICES ASSUME NEW k \in 0..3 PROVE m[p + k] = b[k + 1]
      OBVIOUS
    <3>. DEFINE j == 4 * (n - 1) + k
    <3>1. j \in 0..(4 * Len(words) - 1) /\ p + k = e + j
      BY <2>1
    <3>2. cs[j + 1] = b[k + 1]
      BY CodeBytes DEF cs
    <3>. HIDE DEF j, p, b
    <3>3. e + j \in Addresses /\ m1[e + j] = b[k + 1]
      BY <1>6, <3>1, <3>2
    <3>4. e + j \notin a..(a + 8 * Len(data) - 1)
      BY <3>1
    <3>5. m[e + j] = m1[e + j]
      BY <1>7, <3>3, <3>4
    <3>. QED  BY <3>1, <3>3, <3>5
  <2>3. parse(b[1], b[2], b[3], b[4]) = words[n]
    BY <2>1, ParseUndoesBuild
  <2>4. p \in Int
    BY <2>1
  <2>. HIDE DEF p, b
  <2>5. m[p + 0] = b[0 + 1] /\ m[p + 1] = b[1 + 1] /\ m[p + 2] = b[2 + 1] /\ m[p + 3] = b[3 + 1]
    BY <2>2
  <2>6. m[p] = b[1] /\ m[p + 1] = b[2] /\ m[p + 2] = b[3] /\ m[p + 3] = b[4]
    BY <2>4, <2>5
  <2>7. parse(m[p], m[p + 1], m[p + 2], m[p + 3]) = words[n]
    BY <2>3, <2>6, Zenon
  <2>. QED  BY <2>7 DEF p
<1>9. ASSUME NEW n \in DOMAIN data
      PROVE  readMem(m, a + 8 * (n - 1)) = data[n]
  <2>. DEFINE p == a + 8 * (n - 1)
              v == data[n]
  <2>1. n \in 1..Len(data) /\ v \in Values
    OBVIOUS
  <2>2. p \in Nat /\ p + 8 <= MEM_SIZE
    BY <2>1, Sizes
  <2>3. \A k \in 0..7 : m[p + k] = bytesOf(v)[k + 1]
    <3>. SUFFICES ASSUME NEW k \in 0..7 PROVE m[p + k] = bytesOf(v)[k + 1]
      OBVIOUS
    <3>. DEFINE j == 8 * (n - 1) + k
    <3>1. j \in 0..(8 * Len(data) - 1) /\ p + k = a + j
      BY <2>1
    <3>2. ds[j + 1] = bytesOf(v)[k + 1]
      BY DataBytes DEF ds
    <3>. HIDE DEF j, p, v
    <3>3. m[a + j] = bytesOf(v)[k + 1]
      BY <1>7, <3>1, <3>2
    <3>. QED  BY <3>1, <3>3
  <2>. HIDE DEF p, v
  <2>4. readMem(m, p) = v
    BY <1>7, <2>1, <2>2, <2>3, BytesRead
  <2>. QED  BY <2>4 DEF p, v
<1>10. ASSUME NEW x \in Addresses, x \notin e..(e + 4 * Len(words) - 1),
              x \notin a..(a + 8 * Len(data) - 1)
       PROVE  m[x] = 0
  BY <1>2, <1>6, <1>7, <1>10
<1>. QED  BY <1>1, <1>8, <1>9, <1>10 DEF cs, ds
=============================================================================
