-------------------------------- MODULE Image --------------------------------
(***************************************************************************)
(* The bytes of an image: what printToBinary writes for a word and for a   *)
(* datum, least significant byte first.                                    *)
(***************************************************************************)
EXTENDS Encode, Memory, SequencesExt

\* build_instruction packs imm, rt, rs, rd, op from bit 0 up, 12 and 5 bits wide;
\* loadMem stores the four bytes of that number.
wordBytes(w) ==
  << w.imm % 256,
     (w.imm \div 256) + 16 * (w.rt % 16),
     (w.rt \div 16) + 2 * w.rs + 64 * (w.rd % 4),
     (w.rd \div 4) + 8 * w.op >>

\* Byte n of a sequence of words, and of data: its part of the one it belongs to.
codeFrom(words) ==
  [n \in 1..(4 * Len(words)) |-> wordBytes(words[(n + 3) \div 4])[1 + ((n - 1) % 4)]]
dataFrom(data)  ==
  [n \in 1..(8 * Len(data)) |-> bytesOf(data[(n + 7) \div 8])[1 + ((n - 1) % 8)]]
=============================================================================
