------------------------------- MODULE Widths -------------------------------
(***************************************************************************)
(* The integers of the C code that both programs share, with their widths  *)
(* as constants so that a model checker can use small ones.                *)
(***************************************************************************)
EXTENDS Integers

CONSTANTS IMM,       \* values of the 12-bit immediate field (4096 in the code)
          INT,       \* values of int (2^32 in the code)
          WORD       \* values of unsigned long long (2^64 in the code)

ASSUME WidthAssumption ==
  /\ {IMM, INT, WORD} \subseteq Nat
  /\ 2 <= IMM /\ 2 * IMM <= INT /\ INT <= WORD
  /\ IMM % 2 = 0 /\ INT % IMM = 0 /\ WORD % INT = 0

\* As if an int were as wide as an unsigned long long.
toIntWide(u) == u

\* Assignment of an unsigned long long to an int, and to a long long.
toInt(u) == IF u % INT >= INT \div 2 THEN (u % INT) - INT ELSE u % INT
toLL(u)  == IF u >= WORD \div 2 THEN u - WORD ELSE u
=============================================================================
