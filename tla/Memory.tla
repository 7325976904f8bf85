------------------------------- MODULE Memory -------------------------------
(***************************************************************************)
(* The values and the memory of the Tinker machine (sim/main.c): unsigned  *)
(* 64-bit words, bytes stored least significant first, and the checks that *)
(* stand before every access.                                              *)
(***************************************************************************)
EXTENDS Widths, Sequences, FiniteSetsExt

CONSTANTS MEM_SIZE,      \* bytes of memory (524288 in the code)
          BITS           \* bits of a register (64)

Values    == 0..(WORD - 1)
Addresses == 0..(MEM_SIZE - 1)
Byte      == 0..255

\* A value without its last byte.
above(v) == v \div 256

\* The eight bytes of a value, least significant first: (v >> (8 * i)) & 0xFF.
bytesOf(v) ==
  LET v1 == above(v)
      v2 == above(v1)
      v3 == above(v2)
      v4 == above(v3)
      v5 == above(v4)
      v6 == above(v5)
      v7 == above(v6)
  IN << v % 256, v1 % 256, v2 % 256, v3 % 256, v4 % 256, v5 % 256, v6 % 256, v7 % 256 >>

\* What eight bytes do not hold of a value.
beyondBytes(v) == above(above(above(above(above(above(above(above(v))))))))

\* The fields of an instruction have their real widths, a register has eight bytes,
\* and memory is small beside the range of an address.
ASSUME MachineAssumption ==
  /\ MEM_SIZE \in Nat /\ 8 <= MEM_SIZE
  /\ MEM_SIZE + IMM <= INT \div 2
  /\ IMM = 4096 /\ WORD = 2^BITS /\ beyondBytes(WORD - 1) = 0

---------------------------------------------------------------------------
(* Accesses *)

\* An int or a negative sum as an unsigned long long.
ull(x) == x % WORD

verifyAddress(a) == a < MEM_SIZE

\* As if only the first byte of an access were checked.
verifiedStart(a, size) == verifyAddress(a)

\* The checks of readMem and loadMem: its first and its last byte.
verified(a, size) == verifyAddress(a) /\ verifyAddress(ull(a + size - 1))

\* The bytes readMem and loadMem touch; their addresses wrap.
bytesAt(a, size) == {ull(a + k) : k \in 0..(size - 1)}

\* One round of the loop of readMem: the next byte comes in below.
shiftIn(v, b) == ull(256 * v + b)

\* readMem and loadMem of eight bytes.
readMem(mem, a) ==
  LET b(k) == mem[ull(a + k)]
      v7 == shiftIn(0, b(7))
      v6 == shiftIn(v7, b(6))
      v5 == shiftIn(v6, b(5))
      v4 == shiftIn(v5, b(4))
      v3 == shiftIn(v4, b(3))
      v2 == shiftIn(v3, b(2))
      v1 == shiftIn(v2, b(1))
  IN shiftIn(v1, b(0))

loadMem(mem, a, v) ==
  LET touched == bytesAt(a, 8)
      bytes   == bytesOf(v)
  IN [x \in Addresses |-> IF x \in touched THEN bytes[ull(x - a) + 1] ELSE mem[x]]

---------------------------------------------------------------------------
(* Words *)

\* The bits that are set, and the number some bits make.
setBits(v) == {i \in 0..(BITS - 1) : (v \div 2^i) % 2 = 1}
ofBits(B)  == SumSet({2^i : i \in B})

bitAnd(a, b) == ofBits(setBits(a) \cap setBits(b))
bitOr(a, b)  == ofBits(setBits(a) \cup setBits(b))
bitXor(a, b) == ofBits((setBits(a) \cup setBits(b)) \ (setBits(a) \cap setBits(b)))

\* The processor takes a shift count modulo the width.
shiftl(x, n) == (x * 2^(n % BITS)) % WORD
shiftr(x, n) == x \div 2^(n % BITS)

---------------------------------------------------------------------------
(* Input *)

\* A line by what strtoull makes of it: a number, a '-' in the first place or after
\* blanks and a number, nothing but its end, or anything else.
Line == [k : {"number", "minus", "blankMinus", "empty", "other"}, v : Nat]

\* The value of a line: a number in range.  Only a '-' in the first place is seen,
\* and a line that holds no number at all, but its end, reads as 0.
valueOf(ln) == CASE ln.k = "number" /\ ln.v < WORD       -> {ln.v}
                 [] ln.k = "blankMinus" /\ ln.v < WORD  -> {ull(-ln.v)}
                 [] ln.k = "empty"                       -> {0}
                 [] OTHER                                -> {}
=============================================================================
