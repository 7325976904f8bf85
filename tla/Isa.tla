-------------------------------- MODULE Isa --------------------------------
(***************************************************************************)
(* The two instruction tables of the Tinker tool chain.  The assembler     *)
(* (asm/parse.h) and the simulator (sim/main.h) each keep one of their     *)
(* own: nothing in the build ties an opcode of the first to a row of the   *)
(* second.  A command is its mnemonic; an opcode is a number.              *)
(***************************************************************************)
EXTENDS Integers, Sequences

\* Number of registers; a register operand is legal when it is below it.
NREGS == 32

---------------------------------------------------------------------------
(* cmdTable of the assembler *)

\* Commands the assembler rewrites before it encodes (macro.c, isMacro).
Macros == {"in", "out", "clr", "ld", "push", "pop", "halt"}

\* Column "opcode" of the assembler's cmdTable.
asmOpcode ==
  [ add |-> 24, addi |-> 25, sub |-> 26, subi |-> 27, mul |-> 28, div |-> 29,
    and |-> 0, or |-> 1, xor |-> 2, not |-> 3,
    shftr |-> 4, shftri |-> 5, shftl |-> 6, shftli |-> 7,
    br |-> 8, brr |-> 9, brnz |-> 11, call |-> 12, return |-> 13, brgt |-> 14,
    priv |-> 15, mov |-> 16,
    addf |-> 20, subf |-> 21, mulf |-> 22, divf |-> 23,
    in |-> -1, out |-> -1, clr |-> -1, ld |-> -1, push |-> -1, pop |-> -1,
    data |-> -1, halt |-> -1 ]

\* The names lookupCommand accepts.
Commands == DOMAIN asmOpcode

\* As if ld were still the eleven instructions of a 60-bit value.
cntShortLd(c) == CASE c = "ld"              -> 11
                   [] c \in {"push", "pop"} -> 2
                   [] OTHER                 -> 1

\* Column "cnt": the machine instructions the first pass reserves.
cnt(c) == CASE c = "ld"              -> 12
            [] c \in {"push", "pop"} -> 2
            [] OTHER                 -> 1

\* Column "arglenth": operands getInstruction asks for.
arglenth(c) ==
  CASE c = "priv" -> 4
    [] c \in {"add", "sub", "mul", "div", "and", "or", "xor", "shftr", "shftl",
              "brgt", "addf", "subf", "mulf", "divf", "mov"} -> 3
    [] c \in {"addi", "subi", "shftri", "shftli", "not", "brnz"} -> 2
    [] c \in {"br", "brr", "call"} -> 1
    [] OTHER -> 0

\* Column "hasLit": whether the last operand must be a literal.
hasLit(c) == IF c \in {"addi", "subi", "shftri", "shftli", "brr", "priv", "mov"}
             THEN 1 ELSE 0

---------------------------------------------------------------------------
(* cmdTable of the simulator *)

\* Column "type"; the row of opcode n is the element n + 1.
simCommand ==
  << "and", "or", "xor", "not", "shftr", "shftri", "shftl", "shftli",
     "br", "brr", "brr2", "brnz", "call", "return", "brgt", "priv",
     "mov", "mov1", "mov2", "mov3", "addf", "subf", "mulf", "divf",
     "add", "addi", "sub", "subi", "mul", "div" >>

\* Column "name": the two rows of brr share one, and so do the four of mov.
simName(c) == CASE c = "brr2"                     -> "brr"
                [] c \in {"mov1", "mov2", "mov3"} -> "mov"
                [] OTHER                          -> c

\* As if the loop over the table stopped one row early.
getCmdShort(op) == IF op \in 0..28 THEN simCommand[op + 1] ELSE "fault"

\* getCmd: the row of an opcode; "fault" is the simErr() of an unknown one.
getCmd(op) == IF op \in 0..29 THEN simCommand[op + 1] ELSE "fault"
=============================================================================
