------------------------------ MODULE Programs ------------------------------
(***************************************************************************)
(* The Tinker programs of the repository, assembled and run by the         *)
(* simulator on inputs their documentation describes, against what they    *)
(* compute in mathematics.                                                 *)
(***************************************************************************)
EXTENDS Simulator, Assembly

CONSTANT ARRAY      \* where binary_search.tk keeps its numbers (0xa000)

ASSUME ArrayAssumption == ARRAY \in Addresses

VARIABLES program,  \* the name of the program that runs
          input     \* history: the whole standard input

progVars == <<vars, program, input>>

---------------------------------------------------------------------------
(* Lines of Tinker *)

Do(c, args) == [type |-> 0, cmd |-> c, args |-> args, lbl |-> NoLabel, val |-> 0]
Label(l)    == [type |-> 2, cmd |-> "add", args |-> <<>>, lbl |-> l, val |-> 0]

set(n, v)     == Do("ld", <<Reg(n), v>>)
mov(m, n)     == Do("mov", <<Reg(m), Reg(n)>>)
in(m, n)      == Do("in", <<Reg(m), Reg(n)>>)
out(m, n)     == Do("out", <<Reg(m), Reg(n)>>)
op(c, l, m, n) == Do(c, <<Reg(l), Reg(m), Reg(n)>>)
imm12(c, n, v) == Do(c, <<Reg(n), Lit(v)>>)
halt          == Do("halt", <<>>)

\* ld of one register after the other.
sets(first, values) == [n \in DOMAIN values |-> set(first + n - 1, values[n])]
outs(chars) == [n \in DOMAIN chars |-> out(27, chars[n])]

---------------------------------------------------------------------------
(* fibonacci.tk and fibbonacci.tk *)

fibStart == << set(10, Lit(0)), set(11, Lit(1)), set(1, Lit(0)), set(0, Lit(1)), in(2, 1),
               set(24, Lab(":Lp")), Label(":Lp"), op("add", 12, 11, 10) >>
fibNext  == << mov(10, 11), mov(11, 12), imm12("subi", 2, 1), op("brgt", 24, 2, 1) >>

\* As if it printed the newer of the two numbers it keeps.
fibonacciAhead == fibStart \o <<mov(9, 10)>> \o fibNext \o <<out(0, 10), halt>>

fibonacci  == fibStart \o <<mov(9, 10)>> \o fibNext \o <<out(0, 9), halt>>
fibbonacci == fibStart \o fibNext \o <<out(0, 10), halt>>

---------------------------------------------------------------------------
(* binary_search.tk *)

\* As if an element had sixteen bytes.
ReadValWide == << Label(":ReadVal"), in(5, 29), imm12("addi", 4, 1),
                  Do("mov", <<Mem(7, 8), Reg(5)>>), imm12("addi", 7, 16), op("brgt", 6, 0, 4) >>

ReadVal == << Label(":ReadVal"), in(5, 29), imm12("addi", 4, 1),
              Do("mov", <<Mem(7, 8), Reg(5)>>), imm12("addi", 7, 8), op("brgt", 6, 0, 4) >>

middle == << op("add", 4, 1, 2), op("div", 4, 4, 3) >>
again  == << op("add", 4, 1, 2), op("div", 5, 4, 3) >>
goto(n) == <<Do("br", <<Reg(n)>>)>>

Modp == <<Label(":Modp")>> \o middle
          \o << op("brgt", 16, 1, 2), op("mul", 4, 4, 9), set(5, Lit(ARRAY)), op("add", 5, 5, 4),
                Do("mov", <<Reg(10), Mem(5, 0)>>), op("brgt", 8, 10, 15), op("brgt", 7, 15, 10) >>
          \o goto(17)

RightHalf == <<Label(":RightHalf")>> \o again \o <<mov(1, 5), imm12("addi", 1, 1)>> \o goto(6)

\* As if the left half kept the middle.
LeftHalfWithMiddle == <<Label(":LeftHalf")>> \o again \o <<mov(2, 5)>> \o goto(6)

LeftHalf  == <<Label(":LeftHalf")>> \o again \o <<mov(2, 5), imm12("subi", 2, 1)>> \o goto(6)

\* The registers of the letters of "found" and of "not ".
found    == <<23, 21, 24, 20, 25>>
notFound == <<20, 21, 22, 26>> \o found
Nf == <<Label(":Nf")>> \o outs(notFound) \o <<halt>>
F  == <<Label(":F")>> \o outs(found) \o <<halt>>

binary_search ==
  << set(29, Lit(0)), set(30, Lit(1)), in(0, 29), set(1, Lit(1)), mov(2, 0), set(4, Lit(0)),
     set(6, Lab(":ReadVal")), set(7, Lit(ARRAY)) >>
    \o ReadVal
    \o << set(3, Lit(2)), set(6, Lab(":Modp")), set(7, Lab(":RightHalf")), set(8, Lab(":LeftHalf")),
          set(9, Lit(8)), in(15, 29), set(14, Lit(69)), set(13, Lit(68)) >>
    \o sets(16, <<Lab(":Nf"), Lab(":F"), Lit(404), Lit(400), Lit(110), Lit(111), Lit(116),
                 Lit(102), Lit(117), Lit(100), Lit(32), Lit(3)>>)
    \o Modp \o RightHalf \o LeftHalf \o Nf \o F

---------------------------------------------------------------------------
(* A program, assembled and run *)

scripts == [fibonacci |-> fibonacci, fibbonacci |-> fibbonacci, binary_search |-> binary_search]

\* What their labels mean, and what their images must be.
Asm == INSTANCE AsmSpec WITH script <- scripts[program], result <- "pending", image <- <<>>

\* Input as the programs expect it: numbers; the first counts from 1, or says how many
\* sorted numbers follow before the one that is searched.
expected(p, ls) ==
  /\ ls \in Seq(Line) /\ ls # <<>>
  /\ \A n \in DOMAIN ls : ls[n].k = "number" /\ ls[n].v \in Values
  /\ IF p = "binary_search"
     THEN /\ Len(ls) = ls[1].v + 2
          /\ \A m, n \in 2..(Len(ls) - 1) : m < n => ls[m].v <= ls[n].v
     ELSE ls[1].v # 0

\* The array lies behind the code of every program.
ProgInit ==
  /\ program \in DOMAIN scripts
  /\ \E its \in {items(scripts[program], Asm!meaning)} :
       Asm!isImage(its) /\ hasRoom(its) /\ file = imageOf(its)
  /\ CODE_BASE + Len(file.code) <= ARRAY
  /\ Idle /\ expected(program, stdin) /\ input = stdin

ProgNext == Next /\ UNCHANGED <<program, input>>

ProgSpec == ProgInit /\ [][ProgNext]_progVars /\ WF_progVars(ProgNext)

---------------------------------------------------------------------------
(* What the programs compute *)

\* The nth Fibonacci number and the one after it.
fibs[n \in Nat] == IF n = 0 THEN <<0, 1>>
                   ELSE LET p == fibs[n - 1] IN <<p[2], p[1] + p[2]>>
fib(n) == fibs[n][1]

line(n) == input[n].v

\* The search asks for a value behind a count and as many numbers.
count   == line(1)
present == \E n \in 1..count : line(n + 1) = line(count + 2)

text(chars) == [n \in DOMAIN chars |-> [k |-> "char", v |-> chars[n]]]
answer ==
  CASE program = "fibonacci"  -> <<[k |-> "number", v |-> ull(fib(line(1) - 1))]>>
    [] program = "fibbonacci" -> <<[k |-> "number", v |-> ull(fib(line(1)))]>>
    [] OTHER -> text((IF present THEN <<>> ELSE <<110, 111, 116, 32>>)
                       \o <<102, 111, 117, 110, 100>>)

\* A program that halts has printed what it is for: the nth Fibonacci number modulo the
\* word (of 0, 1, 1, ... in fibonacci.tk, as its tests say, of 1, 1, 2, ... in
\* fibbonacci.tk), or whether a sorted array holds the value: through both programs of
\* the tool chain, over sums that wrap, arrays of one element, repeated and largest values.
AnswersRight == status = "halted" => stdout = answer

\* Only the search fails, for an array of no element (whose value it reads as an
\* element) or of more than memory holds behind ARRAY.
FailsOnlyWithoutRoom ==
  status = "error" /\ r[31] = MEM_SIZE =>
    program = "binary_search" /\ (count = 0 \/ ~verified(ARRAY + 8 * count, 8))

\* Every run ends: the loops count down and the searched part shrinks, also when its
\* right end meets 0.
ProgramsEnd == <>(status \in {"halted", "error"})
=============================================================================
