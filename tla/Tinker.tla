------------------------------- MODULE Tinker -------------------------------
(***************************************************************************)
(* What a Tinker script means to its author: one machine that executes the *)
(* script line by line, each macro as the one operation its comment in     *)
(* macro.h describes, each operand as the number, register or label that   *)
(* is written.  There are no words, no encoding and no expansion here.     *)
(*                                                                         *)
(* A program that jumps between the instructions of a macro or out of its  *)
(* code, or that stores into its code, has no such meaning: it goes "wild".*)
(***************************************************************************)
EXTENDS Encode, Memory, SequencesExt

CONSTANTS CODE_BASE, DATA_BASE

VARIABLES script,    \* entries, as getScript leaves them
          status,    \* "ready", "running", "halted", "error" or "wild"
          at,        \* the instruction that comes next
          regs, memory, stdin, stdout

world == <<memory, stdin, stdout>>
vars  == <<script, status, at, regs, world>>

---------------------------------------------------------------------------
(* The places of a script *)

\* An instruction is known by its place in the script; the end is the last place.
isInstr(k)   == script[k].type = 0
places       == {k \in DOMAIN script : isInstr(k)} \cup {Len(script) + 1}
firstFrom(k) == Min({j \in places : j >= k})

\* Where the instruction at a place starts, or the code ends.
wordsBefore(k) == UNION {{j} \X (1..cnt(script[j].cmd)) : j \in {j \in 1..(k - 1) : isInstr(j)}}
startOf(k)     == CODE_BASE + 4 * Cardinality(wordsBefore(k))
code           == CODE_BASE..(startOf(Len(script) + 1) - 1)

\* The data before a place, and the address of the item a label precedes.
dataBefore(k) == Cardinality({j \in 1..(k - 1) : script[j].type = 1})
datumAt(k)    == DATA_BASE + 8 * dataBefore(k)
addressOf(l)  ==
  LET k == Min({j \in DOMAIN script : script[j].type = 2 /\ script[j].lbl = l})
      n == Min({j \in (k + 1)..Len(script) : script[j].type \in {0, 1}})
  IN IF script[n].type = 1 THEN datumAt(n) ELSE startOf(n)

dataAddresses == DATA_BASE..(datumAt(Len(script) + 1) - 1)

Init ==
  /\ status = "ready" /\ at = firstFrom(1) /\ stdout = <<>>
  /\ regs = [n \in 0..(NREGS - 1) |-> IF n = 31 THEN MEM_SIZE ELSE 0]
  /\ \A x \in Addresses \ (code \cup dataAddresses) : memory[x] = 0
  /\ \A n \in DOMAIN script : script[n].type = 1 =>
       readMem(memory, datumAt(n)) = script[n].val

---------------------------------------------------------------------------
(* One instruction *)

Is(cmds) == status = "running" /\ at \in DOMAIN script /\ script[at].cmd \in cmds
c    == script[at].cmd
a(n) == script[at].args[n]
R(n) == regs[a(n).n]
L(n) == a(n).v

Fail == status' = "error" /\ UNCHANGED <<script, at, regs, world>>
Wild == status' = "wild" /\ UNCHANGED <<script, at, regs, world>>

GoOn == at' = firstFrom(at + 1)
GoTo(x) == \/ /\ \E k \in places : startOf(k) = x /\ at' = k
              /\ UNCHANGED <<script, status, regs, world>>
           \/ (\A k \in places : startOf(k) # x) /\ Wild

Start == /\ status = "ready" /\ status' \in {"running", "error"}
         /\ UNCHANGED <<script, at, regs, world>>

\* Behind the last instruction there is no program.
RunOut == status = "running" /\ at = Len(script) + 1 /\ Wild

---------------------------------------------------------------------------
(* Registers *)

toRegister(cmds) == Is(cmds) \/ (Is({"mov"}) /\ a(1).k = "reg" /\ a(2).k \in {"reg", "lit"})

value ==
  CASE c = "and" -> bitAnd(R(2), R(3))
    [] c = "or"  -> bitOr(R(2), R(3))
    [] c = "xor" -> bitXor(R(2), R(3))
    [] c = "not" -> WORD - 1 - R(2)
    [] c = "shftr"  -> shiftr(R(2), R(3))
    [] c = "shftl"  -> shiftl(R(2), R(3))
    [] c = "shftri" -> shiftr(R(1), L(2))
    [] c = "shftli" -> shiftl(R(1), L(2))
    [] c = "add"  -> ull(R(2) + R(3))
    [] c = "sub"  -> ull(R(2) - R(3))
    [] c = "mul"  -> ull(R(2) * R(3))
    [] c = "div"  -> R(2) \div R(3)
    [] c = "addi" -> ull(R(1) + L(2))
    [] c = "subi" -> ull(R(1) - L(2))
    [] c = "clr"  -> 0
    [] c = "ld"   -> IF a(2).k = "lab" THEN addressOf(a(2).l) ELSE ull(L(2))
    [] c = "mov"  -> IF a(2).k = "reg" THEN R(2) ELSE R(1) - (R(1) % IMM) + L(2)

Assign ==
  /\ toRegister({"and", "or", "xor", "not", "shftr", "shftl", "shftri", "shftli", "add", "sub",
                 "mul", "div", "addi", "subi", "clr", "ld"})
  /\ ~(c = "div" /\ R(3) = 0)
  /\ regs' = [regs EXCEPT ![a(1).n] = value]
  /\ GoOn /\ UNCHANGED <<script, status, world>>

DivideByZero == Is({"div"}) /\ R(3) = 0 /\ Fail

---------------------------------------------------------------------------
(* Memory *)

\* A store of v at x that leaves the registers as rs.
Store(x, v, rs) ==
  \/ ~verified(x, 8) /\ Fail
  \/ verified(x, 8) /\ bytesAt(x, 8) \cap code # {} /\ Wild
  \/ /\ verified(x, 8) /\ bytesAt(x, 8) \cap code = {}
     /\ memory' = loadMem(memory, x, v) /\ regs' = rs
     /\ GoOn /\ UNCHANGED <<script, status, stdin, stdout>>

MovToMemory == /\ Is({"mov"}) /\ a(1).k = "mem"
               /\ Store(ull(R(1) + L(1)), R(2), regs)

\* push: r31 moves first, then the register is stored.
Push == /\ Is({"push"})
        /\ LET rs == [regs EXCEPT ![31] = ull(@ - 8)] IN Store(rs[31], rs[a(1).n], rs)

MovFromMemory ==
  /\ Is({"mov"}) /\ a(2).k = "mem"
  /\ LET x == ull(R(2) + L(2)) IN
     \/ ~verified(x, 8) /\ Fail
     \/ /\ verified(x, 8) /\ regs' = [regs EXCEPT ![a(1).n] = readMem(memory, x)]
        /\ GoOn /\ UNCHANGED <<script, status, world>>

\* pop: the register is loaded, then r31 moves, also when they are the same.
Pop ==
  /\ Is({"pop"})
  /\ \/ ~verified(regs[31], 8) /\ Fail
     \/ /\ verified(regs[31], 8)
        /\ regs' = [[regs EXCEPT ![a(1).n] = readMem(memory, regs[31])] EXCEPT ![31] = ull(@ + 8)]
        /\ GoOn /\ UNCHANGED <<script, status, world>>

---------------------------------------------------------------------------
(* Control *)

taken == CASE c = "br"   -> TRUE
           [] c = "brnz" -> R(2) # 0
           [] c = "brgt" -> R(2) > R(3)

Branch ==
  /\ Is({"br", "brnz", "brgt"})
  /\ \/ taken /\ ~verifyAddress(R(1)) /\ Fail
     \/ taken /\ verifyAddress(R(1)) /\ GoTo(R(1))
     \/ ~taken /\ GoOn /\ UNCHANGED <<script, status, regs, world>>

BranchRelative ==
  /\ Is({"brr"})
  /\ GoTo(IF a(1).k = "lit" THEN startOf(at) + L(1) ELSE toInt(ull(startOf(at) + R(1))))

\* call: the address of the next instruction goes below r31.
Call ==
  /\ Is({"call"})
  /\ LET x == ull(regs[31] - 8) IN
     \/ ~(verified(x, 8) /\ verifyAddress(R(1))) /\ Fail
     \/ verified(x, 8) /\ verifyAddress(R(1)) /\ bytesAt(x, 8) \cap code # {} /\ Wild
     \/ /\ verified(x, 8) /\ verifyAddress(R(1)) /\ bytesAt(x, 8) \cap code = {}
        /\ memory' = loadMem(memory, x, startOf(firstFrom(at + 1)))
        /\ \/ \E k \in places : startOf(k) = R(1) /\ at' = k /\ UNCHANGED status
           \/ (\A k \in places : startOf(k) # R(1)) /\ status' = "wild" /\ UNCHANGED at
        /\ UNCHANGED <<script, regs, stdin, stdout>>

Return ==
  /\ Is({"return"})
  /\ LET x == ull(regs[31] - 8) IN
     \/ ~verified(x, 8) /\ Fail
     \/ verified(x, 8) /\ GoTo(toInt(readMem(memory, x)))

---------------------------------------------------------------------------
(* Input, output and the end *)

In == /\ Is({"in"})
      /\ LET read == IF R(2) # 0 \/ stdin = <<>> THEN {} ELSE valueOf(Head(stdin)) IN
         \/ read = {} /\ Fail
         \/ /\ \E v \in read : regs' = [regs EXCEPT ![a(1).n] = v]
            /\ stdin' = Tail(stdin)
            /\ GoOn /\ UNCHANGED <<script, status, memory, stdout>>

Out == /\ Is({"out"})
       /\ \/ R(1) \notin {1, 3} /\ Fail
          \/ /\ R(1) \in {1, 3}
             /\ stdout' = Append(stdout, IF R(1) = 1 THEN [k |-> "number", v |-> R(2)]
                                         ELSE [k |-> "char", v |-> R(2) % 256])
             /\ GoOn /\ UNCHANGED <<script, status, regs, memory, stdin>>

Halt == Is({"halt"}) /\ status' = "halted" /\ UNCHANGED <<script, at, regs, world>>

---------------------------------------------------------------------------
Next == \/ Start \/ RunOut \/ Assign \/ DivideByZero
        \/ MovToMemory \/ Push \/ MovFromMemory \/ Pop
        \/ Branch \/ BranchRelative \/ Call \/ Return \/ In \/ Out \/ Halt

Spec == Init /\ [][Next]_vars
=============================================================================
