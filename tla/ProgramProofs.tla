---------------------------- MODULE ProgramProofs ----------------------------
(***************************************************************************)
(* The Tinker programs of the repository, assembled and simulated, print   *)
(* what they are for, for every input their documentation describes.       *)
(***************************************************************************)
EXTENDS Programs, ToolchainProofs

---------------------------------------------------------------------------
(* One line of a script *)

\* The script runs and stands at line k.
At(k) == src.status = "running" /\ src.at = k /\ script \in Scripts /\ k \in DOMAIN script

\* It comes to line k with these registers, memory, input and output.
Goes(k, f, m, i, o) ==
  /\ src'.status = "running" /\ src'.at = k /\ src'.r = f /\ src'.mem = m
  /\ src'.stdin = i /\ src'.stdout = o

Fails == src'.status = "error"

\* Which steps a line allows.
LEMMA OnlyItsOwn ==
  ASSUME NEW k, At(k), Source!Next
  PROVE  LET cm == script[k].cmd
             b(n) == script[k].args[n].k
         IN /\ cm \in {"add", "addi", "subi", "mul", "ld"} => Source!Assign
            /\ cm = "div" => Source!Assign \/ (Source!R(3) = 0 /\ Source!Fail)
            /\ cm = "mov" /\ b(1) = "reg" /\ b(2) = "reg" => Source!Assign
            /\ cm = "mov" /\ b(1) = "mem" /\ b(2) = "reg" => Source!MovToMemory
            /\ cm = "mov" /\ b(1) = "reg" /\ b(2) = "mem" => Source!MovFromMemory
            /\ cm \in {"br", "brgt"} => Source!Branch
            /\ cm = "in" => Source!In
            /\ cm = "out" => Source!Out
            /\ cm = "halt" => Source!Halt
<1>1. /\ src.status = "running" /\ src.at = k /\ k \in 1..Len(script) /\ Len(script) \in Nat
  BY ScriptType DEF At
<1>2. ~Source!Start /\ ~Source!RunOut
  BY <1>1 DEF Source!Start, Source!RunOut
<1>3. /\ Source!c = script[k].cmd
      /\ \A cmds : Source!Is(cmds) => script[k].cmd \in cmds
      /\ \A n : Source!a(n) = script[k].args[n]
  BY <1>1 DEF Source!c, Source!Is, Source!a
<1> QED
  BY <1>2, <1>3 DEF Source!Next, Source!Assign, Source!toRegister, Source!DivideByZero,
     Source!MovToMemory, Source!Push, Source!MovFromMemory, Source!Pop, Source!Branch,
     Source!BranchRelative, Source!Call, Source!Return, Source!In, Source!Out, Source!Halt

\* A line that sets a register.
LEMMA AssignLine ==
  ASSUME NEW k, At(k), Source!Assign
  PROVE  Goes(Source!firstFrom(k + 1), [src.r EXCEPT ![script[k].args[1].n] = Source!value],
              src.mem, src.stdin, src.stdout)
  BY DEF At, Goes, Source!Assign, Source!GoOn, Source!world, Source!a

LEMMA SetLine ==
  ASSUME NEW k, At(k), Source!Next, NEW n, NEW e, script[k] = set(n, e)
  PROVE  Goes(Source!firstFrom(k + 1),
              [src.r EXCEPT ![n] = IF e.k = "lab" THEN Source!addressOf(e.l) ELSE ull(e.v)],
              src.mem, src.stdin, src.stdout)
<1>1. /\ script[k].cmd = "ld" /\ script[k].args[1].n = n /\ script[k].args[2] = e
  BY DEF set, Do, Reg
<1>2. Source!Assign
  BY <1>1, OnlyItsOwn
<1>3. Source!value = IF e.k = "lab" THEN Source!addressOf(e.l) ELSE ull(e.v)
  <2>1. Source!c = "ld" /\ Source!a(2) = e /\ Source!L(2) = e.v
    BY <1>1 DEF At, Source!c, Source!a, Source!L
  <2>2. Source!value = IF e.k = "lab" THEN Source!addressOf(e.l) ELSE Source!ull(e.v)
    BY <2>1 DEF Source!value
  <2> QED
    BY <2>2, SameMachine
<1> QED
  BY <1>1, <1>2, <1>3, AssignLine

LEMMA CopyLine ==
  ASSUME NEW k, At(k), Source!Next, NEW n, NEW m, script[k] = mov(m, n)
  PROVE  Goes(Source!firstFrom(k + 1), [src.r EXCEPT ![m] = src.r[n]],
              src.mem, src.stdin, src.stdout)
<1>1. /\ script[k].cmd = "mov" /\ script[k].args[1].n = m /\ script[k].args[2].n = n
      /\ script[k].args[1].k = "reg" /\ script[k].args[2].k = "reg"
  BY DEF mov, Do, Reg
<1>2. Source!Assign
  BY <1>1, OnlyItsOwn
<1>3. Source!value = src.r[n]
  <2>1. Source!c = "mov" /\ Source!a(2).k = "reg" /\ Source!R(2) = src.r[n]
    BY <1>1 DEF At, Source!c, Source!a, Source!R
  <2> QED
    BY <2>1 DEF Source!value
<1> QED
  BY <1>1, <1>2, <1>3, AssignLine

\* Sums, products and quotients of two registers.
LEMMA OpLine ==
  ASSUME NEW k, At(k), Source!Next, NEW cm \in {"add", "mul", "div"}, NEW l, NEW m, NEW n,
         script[k] = op(cm, l, m, n), cm = "div" => src.r[n] # 0
  PROVE  Goes(Source!firstFrom(k + 1),
              [src.r EXCEPT ![l] = CASE cm = "add" -> ull(src.r[m] + src.r[n])
                                     [] cm = "mul" -> ull(src.r[m] * src.r[n])
                                     [] cm = "div" -> src.r[m] \div src.r[n]],
              src.mem, src.stdin, src.stdout)
<1>1. /\ script[k].cmd = cm /\ script[k].args[1].n = l /\ script[k].args[2].n = m
      /\ script[k].args[3].n = n
  BY DEF op, Do, Reg
<1>2. Source!c = cm /\ Source!R(2) = src.r[m] /\ Source!R(3) = src.r[n]
  BY <1>1 DEF At, Source!c, Source!a, Source!R
<1>3. Source!Assign
  BY <1>1, <1>2, OnlyItsOwn
<1>4. Source!value = CASE cm = "add" -> ull(src.r[m] + src.r[n])
                       [] cm = "mul" -> ull(src.r[m] * src.r[n])
                       [] cm = "div" -> src.r[m] \div src.r[n]
  BY <1>2, SourceValue, SameMachine
<1> QED
  BY <1>1, <1>3, <1>4, AssignLine

LEMMA ImmLine ==
  ASSUME NEW k, At(k), Source!Next, NEW cm \in {"addi", "subi"}, NEW n, NEW v,
         script[k] = imm12(cm, n, v)
  PROVE  Goes(Source!firstFrom(k + 1),
              [src.r EXCEPT ![n] = IF cm = "addi" THEN ull(src.r[n] + v) ELSE ull(src.r[n] - v)],
              src.mem, src.stdin, src.stdout)
<1>1. /\ script[k].cmd = cm /\ script[k].args[1].n = n /\ script[k].args[2].v = v
  BY DEF imm12, Do, Reg, Lit
<1>2. Source!c = cm /\ Source!R(1) = src.r[n] /\ Source!L(2) = v
  BY <1>1 DEF At, Source!c, Source!a, Source!R, Source!L
<1>3. Source!Assign
  BY <1>1, OnlyItsOwn
<1>4. Source!value = IF cm = "addi" THEN ull(src.r[n] + v) ELSE ull(src.r[n] - v)
  <2>1. /\ cm = "addi" => Source!value = Source!ull(src.r[n] + v)
        /\ cm = "subi" => Source!value = Source!ull(src.r[n] - v)
    BY <1>2 DEF Source!value
  <2> QED
    BY <2>1, SameMachine
<1> QED
  BY <1>1, <1>3, <1>4, AssignLine

\* A store that stays out of the code, and a load.
LEMMA PutLine ==
  ASSUME NEW k, At(k), Source!Next, NEW n, NEW m, NEW v,
         script[k] = Do("mov", <<Mem(m, v), Reg(n)>>), NEW x, x = ull(src.r[m] + v),
         verified(x, 8) => bytesAt(x, 8) \cap Source!code = {}
  PROVE  \/ ~verified(x, 8) /\ Fails
         \/ verified(x, 8) /\ Goes(Source!firstFrom(k + 1), src.r, loadMem(src.mem, x, src.r[n]),
                                   src.stdin, src.stdout)
<1>1. /\ script[k].cmd = "mov" /\ script[k].args[1].n = m /\ script[k].args[1].v = v
      /\ script[k].args[2].n = n /\ script[k].args[1].k = "mem" /\ script[k].args[2].k = "reg"
  BY DEF Do, Reg, Mem
<1>2. Source!MovToMemory
  BY <1>1, OnlyItsOwn
<1>3. Source!R(1) = src.r[m] /\ Source!L(1) = v /\ Source!R(2) = src.r[n]
  BY <1>1 DEF At, Source!a, Source!R, Source!L
<1>4. Source!Store(x, src.r[n], src.r)
  BY <1>2, <1>3, SameMachine DEF Source!MovToMemory
<1>5. \/ ~verified(x, 8) /\ Source!Fail
      \/ /\ verified(x, 8) /\ src.mem' = loadMem(src.mem, x, src.r[n]) /\ src.r' = src.r
         /\ Source!GoOn /\ src.status' = src.status
         /\ src.stdin' = src.stdin /\ src.stdout' = src.stdout
  BY <1>4, SameMachine DEF Source!Store
<1> QED
  BY <1>5 DEF At, Goes, Fails, Source!Fail, Source!GoOn

LEMMA GetLine ==
  ASSUME NEW k, At(k), Source!Next, NEW n, NEW m, NEW v,
         script[k] = Do("mov", <<Reg(n), Mem(m, v)>>), NEW x, x = ull(src.r[m] + v), verified(x, 8)
  PROVE  Goes(Source!firstFrom(k + 1), [src.r EXCEPT ![n] = readMem(src.mem, x)],
              src.mem, src.stdin, src.stdout)
<1>1. /\ script[k].cmd = "mov" /\ script[k].args[1].n = n /\ script[k].args[2].v = v
      /\ script[k].args[2].n = m /\ script[k].args[1].k = "reg" /\ script[k].args[2].k = "mem"
  BY DEF Do, Reg, Mem
<1>2. Source!MovFromMemory
  BY <1>1, OnlyItsOwn
<1>3. Source!R(2) = src.r[m] /\ Source!L(2) = v /\ Source!a(1).n = n
  BY <1>1 DEF At, Source!a, Source!R, Source!L
<1>4. /\ src.r' = [src.r EXCEPT ![n] = readMem(src.mem, x)] /\ Source!GoOn
      /\ UNCHANGED <<script, src.status, Source!world>>
  BY <1>2, <1>3, SameMachine DEF Source!MovFromMemory
<1> QED
  BY <1>4 DEF At, Goes, Source!GoOn, Source!world

\* A branch that, if taken, finds place j.
LEMMA TakenTo ==
  ASSUME NEW k, At(k), Source!Branch, NEW j \in Source!places, Source!startOf(j) = Source!R(1),
         Source!startOf(j) < MEM_SIZE
  PROVE  IF Source!taken THEN Goes(j, src.r, src.mem, src.stdin, src.stdout)
         ELSE Goes(Source!firstFrom(k + 1), src.r, src.mem, src.stdin, src.stdout)
<1>1. script \in Scripts /\ src.status = "running" /\ src.at = k
  BY DEF At
<1>2. CASE Source!taken
  <2>1. Source!verifyAddress(Source!R(1))
    BY DEF Source!verifyAddress
  <2>2. Source!GoTo(Source!R(1))
    BY <1>2, <2>1 DEF Source!Branch
  <2>3. PICK i \in Source!places : Source!startOf(i) = Source!R(1) /\ src.at' = i
    BY <2>2 DEF Source!GoTo
  <2>4. i = j
    BY <1>1, <2>3, OnePlace
  <2> QED
    BY <1>1, <1>2, <2>2, <2>3, <2>4 DEF Source!GoTo, Source!world, Goes
<1>3. CASE ~Source!taken
  <2>1. Source!GoOn /\ UNCHANGED <<script, src.status, src.r, Source!world>>
    BY <1>3 DEF Source!Branch
  <2> QED
    BY <1>1, <1>3, <2>1 DEF Goes, Source!GoOn, Source!world
<1> QED
  BY <1>2, <1>3

LEMMA BrgtLine ==
  ASSUME NEW k, At(k), Source!Next, NEW l, NEW m, NEW n, script[k] = op("brgt", l, m, n),
         NEW j \in Source!places, Source!startOf(j) = src.r[l], Source!startOf(j) < MEM_SIZE
  PROVE  IF src.r[m] > src.r[n] THEN Goes(j, src.r, src.mem, src.stdin, src.stdout)
         ELSE Goes(Source!firstFrom(k + 1), src.r, src.mem, src.stdin, src.stdout)
<1>1. /\ script[k].cmd = "brgt" /\ script[k].args[1].n = l /\ script[k].args[2].n = m
      /\ script[k].args[3].n = n
  BY DEF op, Do, Reg
<1>2. /\ Source!c = "brgt" /\ Source!R(1) = src.r[l] /\ Source!R(2) = src.r[m]
      /\ Source!R(3) = src.r[n]
  BY <1>1 DEF At, Source!c, Source!a, Source!R
<1>3. Source!Branch /\ (Source!taken <=> src.r[m] > src.r[n])
  BY <1>1, <1>2, OnlyItsOwn DEF Source!taken
<1> QED
  BY <1>2, <1>3, TakenTo

LEMMA GotoLine ==
  ASSUME NEW k, At(k), Source!Next, NEW l, script[k] = goto(l)[1],
         NEW j \in Source!places, Source!startOf(j) = src.r[l], Source!startOf(j) < MEM_SIZE
  PROVE  Goes(j, src.r, src.mem, src.stdin, src.stdout)
<1>1. script[k].cmd = "br" /\ script[k].args[1].n = l
  BY DEF goto, Do, Reg
<1>2. Source!c = "br" /\ Source!R(1) = src.r[l]
  BY <1>1 DEF At, Source!c, Source!a, Source!R
<1>3. Source!Branch /\ Source!taken
  BY <1>1, <1>2, OnlyItsOwn DEF Source!taken
<1> QED
  BY <1>2, <1>3, TakenTo

\* Reading a number, printing and the end.
LEMMA InLine ==
  ASSUME NEW k, At(k), Source!Next, NEW m, NEW n, script[k] = in(m, n), src.r[n] = 0,
         src.stdin # <<>> => Head(src.stdin).k = "number" /\ Head(src.stdin).v < WORD
  PROVE  \/ src.stdin = <<>> /\ Fails
         \/ src.stdin # <<>> /\ Goes(Source!firstFrom(k + 1), [src.r EXCEPT ![m] = Head(src.stdin).v],
                                     src.mem, Tail(src.stdin), src.stdout)
<1>1. script[k].cmd = "in" /\ script[k].args[1].n = m /\ script[k].args[2].n = n
  BY DEF in, Do, Reg
<1>2. Source!R(2) = 0 /\ Source!a(1).n = m
  BY <1>1 DEF At, Source!a, Source!R
<1>3. Source!In
  BY <1>1, OnlyItsOwn
<1>4. src.stdin # <<>> => Source!valueOf(Head(src.stdin)) = {Head(src.stdin).v}
  BY SameMachine DEF valueOf
<1>5. \/ src.stdin = <<>> /\ Source!Fail
      \/ /\ src.stdin # <<>> /\ src.r' = [src.r EXCEPT ![m] = Head(src.stdin).v]
         /\ src.stdin' = Tail(src.stdin) /\ Source!GoOn
         /\ UNCHANGED <<script, src.status, src.mem, src.stdout>>
  BY <1>2, <1>3, <1>4 DEF Source!In
<1> QED
  BY <1>5 DEF At, Goes, Fails, Source!Fail, Source!GoOn

LEMMA OutLine ==
  ASSUME NEW k, At(k), Source!Next, NEW m, NEW n, script[k] = out(m, n), src.r[m] \in {1, 3}
  PROVE  Goes(Source!firstFrom(k + 1), src.r, src.mem, src.stdin,
              Append(src.stdout, IF src.r[m] = 1 THEN [k |-> "number", v |-> src.r[n]]
                                 ELSE [k |-> "char", v |-> src.r[n] % 256]))
<1>1. script[k].cmd = "out" /\ script[k].args[1].n = m /\ script[k].args[2].n = n
  BY DEF out, Do, Reg
<1>2. Source!R(1) = src.r[m] /\ Source!R(2) = src.r[n]
  BY <1>1 DEF At, Source!a, Source!R
<1>3. Source!Out
  BY <1>1, OnlyItsOwn
<1> QED
  BY <1>2, <1>3 DEF Source!Out, Source!GoOn, At, Goes

LEMMA OutLetter ==
  ASSUME NEW k, At(k), Source!Next, NEW m, NEW n, script[k] = out(m, n), src.r[m] = 3,
         NEW q, q = Append(src.stdout, [k |-> "char", v |-> src.r[n] % 256])
  PROVE  Goes(Source!firstFrom(k + 1), src.r, src.mem, src.stdin, q)
<1>1. script[k].cmd = "out" /\ script[k].args[1].n = m /\ script[k].args[2].n = n
  BY DEF out, Do, Reg
<1>2. Source!R(1) = 3 /\ Source!R(2) = src.r[n]
  BY <1>1 DEF At, Source!a, Source!R
<1>3. Source!Out
  BY <1>1, OnlyItsOwn
<1> QED
  BY <1>2, <1>3 DEF Source!Out, Source!GoOn, At, Goes

LEMMA EndLine ==
  ASSUME NEW k, At(k), Source!Next, script[k] = halt
  PROVE  src'.status = "halted" /\ src'.stdout = src.stdout
<1>1. script[k].cmd = "halt"
  BY DEF halt, Do
<1>2. Source!Halt
  BY <1>1, OnlyItsOwn
<1> QED
  BY <1>2 DEF Source!Halt, Source!world

---------------------------------------------------------------------------
(* The places of a program *)

\* The line behind a line is the next one, or the one behind a label.
LEMMA NextPlace ==
  ASSUME script \in Scripts, NEW k \in Nat, k + 1 \in DOMAIN script
  PROVE  /\ script[k + 1].type = 0 => Source!firstFrom(k + 1) = k + 1
         /\ script[k + 1].type = 2 /\ k + 2 \in DOMAIN script /\ script[k + 2].type = 0
              => Source!firstFrom(k + 1) = k + 2
<1> DEFINE f == Source!firstFrom(k + 1)
<1>1. DOMAIN script = 1..Len(script) /\ Len(script) \in Nat
  BY ScriptType
<1>2. k + 1 \in 1..(Len(script) + 1) /\ k + 1 \in Nat \ {0}
  BY <1>1
<1>3. f \in Source!places /\ Source!startOf(f) = Source!startOf(k + 1)
  BY <1>2, FirstFrom
<1> HIDE DEF f
<1>4. ASSUME script[k + 1].type = 0 PROVE f = k + 1
  <2>1. k + 1 \in Source!places
    BY <1>4 DEF Source!places, Source!isInstr
  <2> QED
    BY <1>3, <2>1, OnePlace
<1>5. ASSUME script[k + 1].type = 2, k + 2 \in DOMAIN script, script[k + 2].type = 0 PROVE f = k + 2
  <2>1. k + 2 \in Source!places /\ ~Source!isInstr(k + 1)
    BY <1>5 DEF Source!places, Source!isInstr
  <2>2. Source!startOf((k + 1) + 1) = Source!startOf(k + 1)
                                 + (IF Source!isInstr(k + 1) THEN 4 * cnt(script[k + 1].cmd) ELSE 0)
    BY <1>2, StartsGrow
  <2>3. Source!startOf(k + 1) \in Nat /\ (k + 1) + 1 = k + 2
    BY <1>2, Starts
  <2>4. Source!startOf(k + 2) = Source!startOf(k + 1)
    BY <2>1, <2>2, <2>3
  <2> QED
    BY <1>3, <2>1, <2>4, OnePlace
<1> QED
  BY <1>4, <1>5 DEF f

\* A name that stands once is the address of the line behind it.
LEMMA LabelPlace ==
  ASSUME script \in Scripts, NEW g \in Nat, {g, g + 1} \subseteq DOMAIN script, NEW l,
         \A j \in DOMAIN script : script[j].type = 2 /\ script[j].lbl = l <=> j = g,
         script[g + 1].type = 0
  PROVE  /\ Source!addressOf(l) = Source!startOf(g + 1)
         /\ g + 1 \in Source!places
<1> DEFINE W == {j \in DOMAIN script : script[j].type = 2 /\ script[j].lbl = l}
           k == Source!Min(W)
           A == {j \in (k + 1)..Len(script) : script[j].type \in {0, 1}}
           n == Source!Min(A)
<1>1. DOMAIN script = 1..Len(script) /\ Len(script) \in Nat
  BY ScriptType
<1>2. k = g
  <2>1. W = {g}
    OBVIOUS
  <2>2. Min({g}) \in {g}
    BY MinIn
  <2> QED
    BY <2>1, <2>2, SameSizes
<1>3. n = g + 1
  <2> HIDE DEF k
  <2>1. g + 1 \in A /\ A \subseteq Nat /\ \A j \in A : g + 1 <= j
    BY <1>1, <1>2
  <2> HIDE DEF A
  <2>2. Min(A) \in A /\ \A j \in A : Min(A) <= j
    BY <2>1, MinIn
  <2>3. Min(A) \in Nat /\ Min(A) <= g + 1 /\ g + 1 <= Min(A)
    BY <2>1, <2>2
  <2>4. Min(A) = g + 1
    BY <2>3
  <2> QED
    BY <2>4, SameSizes
<1>4. Source!addressOf(l) = IF script[n].type = 1 THEN Source!datumAt(n) ELSE Source!startOf(n)
  BY DEF Source!addressOf
<1> HIDE DEF n
<1> QED
  BY <1>1, <1>3, <1>4 DEF Source!places, Source!isInstr

\* Every line starts inside of memory, and behind ARRAY there is no code.
LEMMA LineInMemory ==
  ASSUME Assembled, NEW k \in DOMAIN script
  PROVE  Source!startOf(k) \in Nat /\ Source!startOf(k) < MEM_SIZE
<1>1. DOMAIN script = 1..Len(script) /\ Len(script) \in Nat
  BY ScriptType DEF Assembled
<1>2. k \in Nat \ {0} /\ Len(script) + 1 \in Nat \ {0} /\ k <= Len(script) + 1
  BY <1>1
<1>3. Source!startOf(k) \in Nat /\ Source!startOf(k) <= Source!startOf(Len(script) + 1)
  BY <1>2, Starts, StartsGrow
<1>4. Source!startOf(Len(script) + 1) = CODE_BASE + 4 * Target!codeUpTo((Len(script) + 1) - 1)
  BY <1>2, Starts
<1>5. Target!codeUpTo(Len(script)) \in Nat /\ CODE_BASE + 4 * Target!codeUpTo(Len(script)) <= DATA_BASE
  BY BuiltSections
<1>6. DATA_BASE < MEM_SIZE /\ DATA_BASE \in Nat /\ CODE_BASE \in Nat /\ MEM_SIZE \in Nat
  BY BaseAssumption, Sizes DEF Addresses
<1>7. (Len(script) + 1) - 1 = Len(script)
  BY <1>1
<1> QED
  BY <1>3, <1>4, <1>5, <1>6, <1>7

LEMMA ArrayApart ==
  ASSUME Assembled, CODE_BASE + Len(file.code) <= ARRAY, NEW x \in Values, ARRAY <= x, verified(x, 8)
  PROVE  bytesAt(x, 8) \cap Source!code = {}
<1> DEFINE w == Target!codeUpTo(Len(script))
<1>1. /\ w \in Nat /\ built.code \in Seq(Word) /\ Len(built.code) = w
      /\ Source!code = CODE_BASE..(CODE_BASE + 4 * w - 1)
  BY BuiltSections
<1>2. file.code = codeFrom(built.code)
  BY DEF Assembled, imageOf
<1>3. Len(file.code) = 4 * w
  BY <1>1, <1>2, CodeBytes
<1>4. ARRAY \in Nat /\ CODE_BASE \in Nat
  BY ArrayAssumption, Bases, Sizes DEF Addresses
<1>5. \A b \in bytesAt(x, 8) : b \in Nat /\ x <= b
  <2>1. 8 \in 1..8
    OBVIOUS
  <2>2. \A i \in 0..(8 - 1) : ull(x + i) = x + i
    BY <2>1, InMemory
  <2> QED
    BY <2>2 DEF bytesAt, Values
<1> HIDE DEF w
<1>6. \A b \in Source!code : b < CODE_BASE + 4 * w
  BY <1>1, <1>4
<1>7. ASSUME NEW b \in bytesAt(x, 8), b \in Source!code PROVE FALSE
  <2>1. b \in Nat /\ x <= b /\ b < CODE_BASE + 4 * w
    BY <1>5, <1>6, <1>7
  <2>2. x \in Nat /\ CODE_BASE + 4 * w <= ARRAY
    BY <1>3 DEF Values
  <2> QED
    BY ONLY <1>1, <1>4, <2>1, <2>2, ARRAY <= x
<1> QED
  BY <1>7

---------------------------------------------------------------------------
(* The Fibonacci numbers *)

\* The pair behind a pair, and the first pairs.
fibNextPair(p) == <<p[2], p[1] + p[2]>>
firstPairs(g, m) == /\ g \in [0..m -> Nat \X Nat] /\ g[0] = <<0, 1>>
                    /\ \A i \in 1..m : g[i] = fibNextPair(g[i - 1])

LEMMA PairType == \A p \in Nat \X Nat : fibNextPair(p) \in Nat \X Nat
  BY DEF fibNextPair

LEMMA FirstPairsExist == \A m \in Nat : \E g : firstPairs(g, m)
<1> DEFINE S == {m \in Nat : ~ \E g : firstPairs(g, m)}
<1> SUFFICES ASSUME S # {} PROVE FALSE
  OBVIOUS
<1>1. PICK m \in S : \A n \in S : m <= n
  BY Least
<1>2. CASE m = 0
  <2> DEFINE g == [i \in 0..0 |-> <<0, 1>>]
  <2>1. firstPairs(g, 0)
    BY DEF firstPairs
  <2> QED
    BY <1>1, <1>2, <2>1
<1>3. CASE m # 0
  <2>1. m \in Nat /\ m - 1 \in Nat /\ m - 1 \notin S
    BY <1>1, <1>3
  <2>2. PICK g : firstPairs(g, m - 1)
    BY <2>1
  <2> DEFINE h == [i \in 0..m |-> IF i < m THEN g[i] ELSE fibNextPair(g[m - 1])]
  <2>3. g[m - 1] \in Nat \X Nat
    BY <2>1, <2>2 DEF firstPairs
  <2>4. fibNextPair(g[m - 1]) \in Nat \X Nat
    BY <2>3, PairType
  <2>5. h \in [0..m -> Nat \X Nat]
    BY <2>1, <2>2, <2>4 DEF firstPairs
  <2>6. h[0] = <<0, 1>> /\ \A i \in 1..m : h[i] = fibNextPair(h[i - 1])
    <3>1. h[0] = <<0, 1>>
      BY <1>3, <2>1, <2>2 DEF firstPairs
    <3>2. ASSUME NEW i \in 1..m PROVE h[i] = fibNextPair(h[i - 1])
      <4>1. i - 1 \in 0..m /\ i - 1 < m /\ i \in 0..m
        BY <2>1
      <4>2. h[i - 1] = g[i - 1]
        BY <4>1
      <4>3. CASE i < m
        BY <2>1, <2>2, <4>1, <4>2, <4>3 DEF firstPairs
      <4>4. CASE i = m
        BY <4>1, <4>2, <4>4
      <4> QED
        BY <2>1, <4>3, <4>4
    <3> QED
      BY <3>1, <3>2
  <2> HIDE DEF h
  <2>7. firstPairs(h, m)
    BY <2>5, <2>6 DEF firstPairs
  <2> QED
    BY <1>1, <2>7
<1> QED
  BY <1>2, <1>3

LEMMA FirstPairsAgree ==
  ASSUME NEW m \in Nat, NEW n \in Nat, m <= n, NEW g, firstPairs(g, m), NEW h, firstPairs(h, n)
  PROVE  g[m] = h[m]
<1> DEFINE S == {i \in 0..m : g[i] # h[i]}
<1> SUFFICES ASSUME S # {} PROVE FALSE
  OBVIOUS
<1>1. S \in SUBSET Nat
  OBVIOUS
<1>2. PICK i \in S : \A j \in S : i <= j
  BY <1>1, Least
<1>3. i # 0
  BY <1>2 DEF firstPairs
<1>4. i \in 1..m /\ i \in 1..n /\ i - 1 \in 0..m /\ i - 1 \notin S
  BY <1>2, <1>3
<1>5. g[i - 1] = h[i - 1] /\ g[i] = fibNextPair(g[i - 1]) /\ h[i] = fibNextPair(h[i - 1])
  BY <1>4 DEF firstPairs
<1> QED
  BY <1>2, <1>5

LEMMA FibPairs ==
  /\ fibs[0] = <<0, 1>>
  /\ \A n \in Nat : fibs[n + 1] = fibNextPair(fibs[n])
<1> DEFINE G(n) == CHOOSE g : firstPairs(g, n)
           pairs == [n \in Nat |-> G(n)[n]]
           step(f) == [n \in Nat |-> IF n = 0 THEN <<0, 1>> ELSE fibNextPair(f[n - 1])]
<1>1. \A n \in Nat : firstPairs(G(n), n)
  BY FirstPairsExist
<1> HIDE DEF G
<1>2. G(0)[0] = <<0, 1>>
  BY <1>1 DEF firstPairs
<1>3. \A n \in Nat \ {0} : G(n)[n] = fibNextPair(G(n - 1)[n - 1])
  <2> SUFFICES ASSUME NEW n \in Nat \ {0} PROVE G(n)[n] = fibNextPair(G(n - 1)[n - 1])
    OBVIOUS
  <2>1. n \in 1..n /\ n \in Nat /\ n - 1 \in Nat /\ n - 1 <= n
    OBVIOUS
  <2>2. G(n)[n] = fibNextPair(G(n)[n - 1])
    BY <1>1, <2>1 DEF firstPairs
  <2>3. G(n - 1)[n - 1] = G(n)[n - 1]
    BY <1>1, <2>1, FirstPairsAgree
  <2> QED
    BY <2>2, <2>3
<1>4. pairs = step(pairs)
  BY <1>2, <1>3
<1>5. fibs = CHOOSE f : f = step(f)
  BY DEF fibs, fibNextPair
<1> HIDE DEF pairs, step
<1>6. fibs = step(fibs)
  BY <1>4, <1>5
<1>7. \A n \in Nat : fibs[n] = IF n = 0 THEN <<0, 1>> ELSE fibNextPair(fibs[n - 1])
  BY <1>6 DEF step
<1> QED
  BY <1>7

LEMMA FibTypes == \A n \in Nat : fibs[n] \in Nat \X Nat
<1> DEFINE S == {n \in Nat : fibs[n] \notin Nat \X Nat}
<1> SUFFICES ASSUME S # {} PROVE FALSE
  OBVIOUS
<1>1. PICK n \in S : \A m \in S : n <= m
  BY Least
<1>2. n # 0
  BY <1>1, FibPairs
<1>3. n - 1 \in Nat /\ n - 1 \notin S /\ (n - 1) + 1 = n
  BY <1>1, <1>2
<1>4. fibs[n - 1] \in Nat \X Nat /\ fibs[n] = fibNextPair(fibs[n - 1])
  BY <1>3, FibPairs
<1> QED
  BY <1>1, <1>4, PairType

\* The numbers are what they are known for: each is the sum of the two before it.
LEMMA Fibonacci ==
  /\ fib(0) = 0 /\ fib(1) = 1
  /\ \A n \in Nat : fib(n) \in Nat /\ fib(n + 2) = fib(n + 1) + fib(n)
<1>1. \A n \in Nat : fib(n) \in Nat
  BY FibTypes DEF fib
<1>2. fib(0) = 0 /\ fib(1) = 1
  <2>1. fibs[0] = <<0, 1>> /\ fibs[0 + 1] = fibNextPair(fibs[0]) /\ 0 + 1 = 1
    BY FibPairs
  <2> QED
    BY <2>1 DEF fib, fibNextPair
<1>3. ASSUME NEW n \in Nat PROVE fib(n + 2) = fib(n + 1) + fib(n)
  <2>1. /\ fibs[n + 1] = fibNextPair(fibs[n]) /\ fibs[(n + 1) + 1] = fibNextPair(fibs[n + 1])
        /\ (n + 1) + 1 = n + 2 /\ fibs[n] \in Nat \X Nat
    BY FibPairs, FibTypes
  <2>2. fibs[n + 2][1] = fibs[n + 1][2] /\ fibs[n + 1][2] = fibs[n][1] + fibs[n][2]
        /\ fibs[n + 1][1] = fibs[n][2] /\ fibs[n][1] \in Nat /\ fibs[n][2] \in Nat
    BY <2>1 DEF fibNextPair
  <2> QED
    BY <2>2 DEF fib
<1> QED
  BY <1>1, <1>2, <1>3

\* A sum of remainders is the remainder of the sum.
LEMMA UllSum ==
  ASSUME NEW x \in Nat, NEW y \in Nat
  PROVE  ull(ull(x) + ull(y)) = ull(x + y)
<1> DEFINE p == x \div WORD
           q == y \div WORD
           a1 == x % WORD
           b1 == y % WORD
           e1 == (a1 + b1) \div WORD
           f1 == (a1 + b1) % WORD
<1>1. WORD \in Nat /\ 0 < WORD
  BY Sizes
<1>2. p \in Nat /\ a1 \in 0..(WORD - 1) /\ x = p * WORD + a1
  BY <1>1, Division
<1>3. q \in Nat /\ b1 \in 0..(WORD - 1) /\ y = q * WORD + b1
  BY <1>1, Division
<1>4. a1 + b1 \in Nat
  BY <1>1, <1>2, <1>3
<1> HIDE DEF p, q, a1, b1
<1>5. e1 \in Nat /\ f1 \in 0..(WORD - 1) /\ a1 + b1 = e1 * WORD + f1
  BY <1>1, <1>4, Division
<1> HIDE DEF e1, f1
<1>6. x + y = WORD * (p + q + e1) + f1 /\ p + q + e1 \in Nat
  <2>1. WORD * (p + q + e1) = p * WORD + q * WORD + e1 * WORD
    BY ONLY <1>1, <1>2, <1>3, <1>5
  <2>2. p * WORD \in Nat /\ q * WORD \in Nat /\ e1 * WORD \in Nat
    BY ONLY <1>1, <1>2, <1>3, <1>5
  <2> HIDE DEF p, q
  <2>3. f1 \in Nat /\ a1 \in Nat /\ b1 \in Nat
    BY <1>1, <1>2, <1>3, <1>5
  <2> QED
    BY <1>2, <1>3, <1>5, <2>1, <2>2, <2>3
<1>7. (WORD * (p + q + e1) + f1) % WORD = f1
  BY <1>1, <1>5, <1>6, Remainder
<1> QED
  BY <1>6, <1>7 DEF ull, a1, b1, f1

---------------------------------------------------------------------------
(* The lines of fibonacci.tk and fibbonacci.tk *)

isFib == program \in {"fibonacci", "fibbonacci"} /\ script = scripts[program] /\ Assembled

\* fibbonacci.tk lacks the ninth line of fibonacci.tk.
spot(k)  == IF program = "fibbonacci" /\ k > 8 THEN k + 1 ELSE k
spots    == IF program = "fibbonacci" THEN (1..15) \ {9} ELSE 1..15
nextSpot(x) == IF x = 6 THEN 8 ELSE IF program = "fibbonacci" /\ x = 8 THEN 10 ELSE x + 1

LEMMA FibLines ==
  ASSUME isFib
  PROVE  /\ DOMAIN script = IF program = "fibbonacci" THEN 1..14 ELSE 1..15
         /\ \A k \in DOMAIN script :
              /\ spot(k) \in spots
              /\ spot(k) # 14 => script[k] = fibonacci[spot(k)]
              /\ spot(k) = 14 => script[k] = out(0, IF program = "fibbonacci" THEN 10 ELSE 9)
<1>1. CASE program = "fibonacci"
  <2>1. script = fibonacci
    BY <1>1 DEF isFib, scripts
  <2>2. DOMAIN fibonacci = 1..15 /\ fibonacci[14] = out(0, 9)
    BY DEF fibonacci, fibStart, fibNext
  <2> QED
    BY <1>1, <2>1, <2>2 DEF spot, spots
<1>2. CASE program = "fibbonacci"
  <2>1. script = fibbonacci
    BY <1>2 DEF isFib, scripts
  <2>2. /\ DOMAIN fibbonacci = 1..14 /\ fibbonacci[13] = out(0, 10)
        /\ \A k \in 1..8 : fibbonacci[k] = fibonacci[k]
        /\ \A k \in 9..12 : fibbonacci[k] = fibonacci[k + 1]
        /\ fibbonacci[14] = fibonacci[15]
    BY DEF fibbonacci, fibonacci, fibStart, fibNext
  <2> QED
    BY <1>2, <2>1, <2>2 DEF spot, spots
<1> QED
  BY <1>1, <1>2 DEF isFib

LEMMA FibLine ==
  /\ fibonacci[1] = set(10, Lit(0)) /\ fibonacci[2] = set(11, Lit(1))
  /\ fibonacci[3] = set(1, Lit(0)) /\ fibonacci[4] = set(0, Lit(1)) /\ fibonacci[5] = in(2, 1)
  /\ fibonacci[6] = set(24, Lab(":Lp")) /\ fibonacci[7] = Label(":Lp")
  /\ fibonacci[8] = op("add", 12, 11, 10) /\ fibonacci[9] = mov(9, 10)
  /\ fibonacci[10] = mov(10, 11) /\ fibonacci[11] = mov(11, 12)
  /\ fibonacci[12] = imm12("subi", 2, 1) /\ fibonacci[13] = op("brgt", 24, 2, 1)
  /\ fibonacci[15] = halt
  BY DEF fibonacci, fibStart, fibNext

LEMMA FibKinds ==
  ASSUME isFib
  PROVE  \A k \in DOMAIN script : /\ script[k].type = IF k = 7 THEN 2 ELSE 0
                                  /\ k = 7 => script[k].lbl = ":Lp"
<1>1. /\ \A k \in (1..15) \ {7, 14} : fibonacci[k].type = 0
      /\ fibonacci[7].type = 2 /\ fibonacci[7].lbl = ":Lp"
  BY FibLine DEF set, in, op, mov, imm12, halt, Label, Do
<1>2. \A m, n : out(m, n).type = 0
  BY DEF out, Do
<1>3. \A k \in DOMAIN script : spot(k) \in 1..15 /\ (spot(k) = 7 <=> k = 7)
  BY FibLines DEF spot, spots
<1> QED
  BY <1>1, <1>2, <1>3, FibLines

LEMMA FibNextSpot ==
  ASSUME isFib, NEW k \in DOMAIN script, spot(k) \notin {7, 15}
  PROVE  /\ Source!firstFrom(k + 1) \in DOMAIN script
         /\ spot(Source!firstFrom(k + 1)) = nextSpot(spot(k))
<1>1. script \in Scripts
  BY DEF isFib, Assembled
<1>2. k \in Nat /\ k # 7 /\ k + 1 \in DOMAIN script /\ (k = 6 => k + 2 \in DOMAIN script)
  BY FibLines DEF spot
<1>3. Source!firstFrom(k + 1) = IF k = 6 THEN k + 2 ELSE k + 1
  BY <1>1, <1>2, NextPlace, FibKinds
<1> QED
  BY <1>2, <1>3, FibLines DEF spot, nextSpot

\* The label of the loop is its first line.
LEMMA FibLoop ==
  ASSUME isFib
  PROVE  /\ 8 \in Source!places /\ 8 \in DOMAIN script
         /\ Source!addressOf(":Lp") = Source!startOf(8) /\ Source!startOf(8) < MEM_SIZE
<1>1. script \in Scripts /\ Assembled
  BY DEF isFib, Assembled
<1>2. {7, 7 + 1} \subseteq DOMAIN script /\ 7 + 1 = 8
  BY FibLines
<1>3. /\ \A j \in DOMAIN script : script[j].type = 2 /\ script[j].lbl = ":Lp" <=> j = 7
      /\ script[7 + 1].type = 0
  BY <1>2, FibKinds
<1>4. Source!addressOf(":Lp") = Source!startOf(7 + 1) /\ 7 + 1 \in Source!places
  BY <1>1, <1>2, <1>3, LabelPlace
<1> QED
  BY <1>1, <1>2, <1>4, LineInMemory

---------------------------------------------------------------------------
(* What holds at each of them *)

\* The count, and the numbers as registers hold them.
u(n) == ull(fib(n))

\* At line x, with n rounds done of the loop.
fibRound(x, f, n) ==
  /\ n \in 0..(line(1) - 1) /\ f[24] = Source!startOf(8)
  /\ f[2] = IF x = 13 THEN line(1) - n - 1 ELSE line(1) - n
  /\ f[10] = IF x \in 11..13 THEN u(n + 1) ELSE u(n)
  /\ f[11] = IF x \in 12..13 THEN u(n + 2) ELSE u(n + 1)
  /\ x \in 9..13 => f[12] = u(n + 2)
  /\ program = "fibonacci" /\ x \in 10..13 => f[9] = u(n)

fibAt(x, f, i, o) ==
  /\ x \in 1..5 => i = input
  /\ x \in 2..6 => f[10] = 0
  /\ x \in 3..6 => f[11] = 1
  /\ x \in 4..13 => f[1] = 0
  /\ x \in 5..14 => f[0] = 1
  /\ x = 6 => f[2] = line(1)
  /\ x \in 8..13 => \E n : fibRound(x, f, n)
  /\ x = 14 => f[IF program = "fibbonacci" THEN 10 ELSE 9] =
                 u(IF program = "fibbonacci" THEN line(1) ELSE line(1) - 1)
  /\ x # 15 => o = <<>>
  /\ x = 15 => o = answer

fibGood(k, f, i, o) == k \in DOMAIN script /\ spot(k) # 7 /\ fibAt(spot(k), f, i, o)

\* The step goes on to the next line, where this holds, or ends the run with the answer.
FibGoesOn ==
  \/ src'.status = "running" /\ fibGood(src'.at, src'.r, src'.stdin, src'.stdout)
  \/ src'.status = "halted" /\ src'.stdout = answer

FibHere(k) == /\ isFib /\ expected(program, input) /\ At(k)
              /\ src.r \in [0..31 -> Values] /\ fibGood(k, src.r, src.stdin, src.stdout)

LEMMA FibCount ==
  ASSUME isFib, expected(program, input)
  PROVE  /\ line(1) \in Nat /\ 1 <= line(1) /\ line(1) < WORD /\ Head(input) = input[1]
         /\ input # <<>> /\ Head(input).k = "number" /\ Head(input).v = line(1)
<1>1. /\ input \in Seq(Line) /\ input # <<>> /\ input[1].v # 0
      /\ \A n \in DOMAIN input : input[n].k = "number" /\ input[n].v \in Values
  BY DEF expected, isFib
<1>2. 1 \in DOMAIN input /\ Head(input) = input[1]
  BY <1>1
<1> QED
  BY <1>1, <1>2, Sizes DEF line, Values

LEMMA FibArrives ==
  ASSUME isFib, NEW k \in DOMAIN script, spot(k) \notin {7, 15}, NEW f, NEW m, NEW i, NEW o,
         Goes(Source!firstFrom(k + 1), f, m, i, o), fibAt(nextSpot(spot(k)), f, i, o)
  PROVE  FibGoesOn
<1>1. /\ Source!firstFrom(k + 1) \in DOMAIN script
      /\ spot(Source!firstFrom(k + 1)) = nextSpot(spot(k))
  BY FibNextSpot
<1>2. nextSpot(spot(k)) # 7
  <2>1. spot(k) \in 1..15
    BY FibLines DEF spots
  <2> QED
    BY <2>1 DEF nextSpot
<1> QED
  BY <1>1, <1>2 DEF Goes, FibGoesOn, fibGood

\* What the lines before the loop leave.
LEMMA FibAtOpens ==
  ASSUME NEW f \in [0..31 -> Values], NEW i, NEW o
  PROVE  /\ fibAt(1, f, i, o) => fibAt(2, [f EXCEPT ![10] = 0], i, o)
         /\ fibAt(2, f, i, o) => fibAt(3, [f EXCEPT ![11] = 1], i, o)
         /\ fibAt(3, f, i, o) => fibAt(4, [f EXCEPT ![1] = 0], i, o)
         /\ fibAt(4, f, i, o) => fibAt(5, [f EXCEPT ![0] = 1], i, o)
         /\ fibAt(5, f, i, o) => fibAt(6, [f EXCEPT ![2] = line(1)], Tail(i), o)
<1>1. fibAt(1, f, i, o) => fibAt(2, [f EXCEPT ![10] = 0], i, o)
  BY DEF fibAt
<1>2. fibAt(2, f, i, o) => fibAt(3, [f EXCEPT ![11] = 1], i, o)
  BY DEF fibAt
<1>3. fibAt(3, f, i, o) => fibAt(4, [f EXCEPT ![1] = 0], i, o)
  BY DEF fibAt
<1>4. fibAt(4, f, i, o) => fibAt(5, [f EXCEPT ![0] = 1], i, o)
  BY DEF fibAt
<1>5. fibAt(5, f, i, o) => fibAt(6, [f EXCEPT ![2] = line(1)], Tail(i), o)
  BY DEF fibAt
<1> QED
  BY <1>1, <1>2, <1>3, <1>4, <1>5

\* A line of the start or of the loop, with its place and the one behind it.
LEMMA FibHereIs ==
  ASSUME NEW k, FibHere(k), NEW x, x = spot(k), x # 14
  PROVE  /\ isFib /\ At(k) /\ k \in DOMAIN script /\ script[k] = fibonacci[x]
         /\ src.r \in [0..31 -> Values] /\ fibAt(x, src.r, src.stdin, src.stdout)
         /\ x \in (1..15) \ {7, 14}
  BY FibLines DEF FibHere, At, fibGood, spots

\* The lines before the loop.
LEMMA FibSets ==
  ASSUME NEW k, FibHere(k), Source!Next, NEW x, x = spot(k), x # 14, NEW n, NEW v \in {0, 1},
         fibonacci[x] = set(n, Lit(v)), x < 6, NEW y, y = x + 1,
         fibAt(y, [src.r EXCEPT ![n] = v], src.stdin, src.stdout)
  PROVE  FibGoesOn
<1>1. /\ isFib /\ At(k) /\ k \in DOMAIN script /\ script[k] = fibonacci[x] /\ x \in 1..15
      /\ x # 7 /\ x # 15
  BY FibHereIs
<1>2. ull(0) = 0 /\ ull(1) = 1
  BY Sizes, UllSame DEF Values
<1>3. Lit(v).k = "lit" /\ Lit(v).v = v
  BY DEF Lit
<1>4. (IF Lit(v).k = "lab" THEN Source!addressOf(Lit(v).l) ELSE ull(Lit(v).v)) = v
  BY <1>2, <1>3
<1>5. Goes(Source!firstFrom(k + 1), [src.r EXCEPT ![n] = v], src.mem, src.stdin, src.stdout)
  BY <1>1, <1>4, SetLine
<1>6. nextSpot(spot(k)) = x + 1
  BY <1>1 DEF nextSpot
<1> QED
  BY <1>1, <1>5, <1>6, FibArrives

LEMMA FibReads ==
  ASSUME NEW k, FibHere(k), Source!Next, spot(k) = 5
  PROVE  FibGoesOn
<1>1. /\ isFib /\ At(k) /\ k \in DOMAIN script /\ script[k] = in(2, 1)
      /\ src.r \in [0..31 -> Values] /\ fibAt(5, src.r, src.stdin, src.stdout)
  BY FibHereIs, FibLine
<1>2. src.stdin = input /\ src.r[1] = 0
  BY <1>1 DEF fibAt
<1>3. input # <<>> /\ Head(input).k = "number" /\ Head(input).v = line(1) /\ line(1) < WORD
  BY FibCount DEF FibHere
<1>4. Goes(Source!firstFrom(k + 1), [src.r EXCEPT ![2] = Head(src.stdin).v], src.mem,
           Tail(src.stdin), src.stdout)
  BY <1>1, <1>2, <1>3, InLine
<1>5. fibAt(6, [src.r EXCEPT ![2] = Head(src.stdin).v], Tail(src.stdin), src.stdout)
  BY <1>1, <1>2, <1>3, FibAtOpens
<1>6. nextSpot(spot(k)) = 6 /\ spot(k) \notin {7, 15}
  BY DEF nextSpot
<1> QED
  BY <1>1, <1>4, <1>5, <1>6, FibArrives

LEMMA FibEnters ==
  ASSUME NEW k, FibHere(k), Source!Next, spot(k) = 6
  PROVE  FibGoesOn
<1> DEFINE f == [src.r EXCEPT ![24] = Source!startOf(8)]
<1>1. /\ isFib /\ At(k) /\ k \in DOMAIN script /\ script[k] = set(24, Lab(":Lp"))
      /\ src.r \in [0..31 -> Values] /\ fibAt(6, src.r, src.stdin, src.stdout)
  BY FibHereIs, FibLine
<1>2. Lab(":Lp").k = "lab" /\ Lab(":Lp").l = ":Lp" /\ Source!addressOf(":Lp") = Source!startOf(8)
  BY <1>1, FibLoop DEF Lab
<1>3. Goes(Source!firstFrom(k + 1),
           [src.r EXCEPT ![24] = IF Lab(":Lp").k = "lab" THEN Source!addressOf(Lab(":Lp").l)
                                 ELSE ull(Lab(":Lp").v)], src.mem, src.stdin, src.stdout)
  BY <1>1, SetLine
<1>4. Goes(Source!firstFrom(k + 1), f, src.mem, src.stdin, src.stdout)
  BY <1>2, <1>3
<1>5. u(0) = 0 /\ u(0 + 1) = 1 /\ line(1) \in Nat /\ 1 <= line(1)
  <2>1. ull(0) = 0 /\ ull(1) = 1
    BY Sizes, UllSame DEF Values
  <2> QED
    BY <2>1, Fibonacci, FibCount DEF u, FibHere
<1>6. /\ src.r[10] = 0 /\ src.r[11] = 1 /\ src.r[1] = 0 /\ src.r[0] = 1 /\ src.r[2] = line(1)
      /\ src.stdout = <<>>
  BY <1>1 DEF fibAt
<1>7. /\ f[10] = 0 /\ f[11] = 1 /\ f[1] = 0 /\ f[0] = 1 /\ f[2] = line(1)
      /\ f[24] = Source!startOf(8)
  <2>1. PICK g \in [0..31 -> Values] : g = src.r
    BY <1>1
  <2>2. PICK v : v = Source!startOf(8)
    OBVIOUS
  <2>3. \A n \in 0..31 : [g EXCEPT ![24] = v][n] = IF n = 24 THEN v ELSE g[n]
    OBVIOUS
  <2>4. g[10] = 0 /\ g[11] = 1 /\ g[1] = 0 /\ g[0] = 1 /\ g[2] = line(1)
    BY <1>6, <2>1
  <2> QED
    BY ONLY <2>1, <2>2, <2>3, <2>4
<1> HIDE DEF f
<1>8. fibRound(8, f, 0)
  <2>1. /\ 0 \in 0..(line(1) - 1) /\ line(1) - 0 = line(1)
        /\ 8 \notin 11..13 /\ 8 \notin 12..13 /\ 8 \notin 9..13 /\ 8 \notin 10..13 /\ 8 # 13
    BY ONLY <1>5
  <2> QED
    BY ONLY <1>5, <1>7, <2>1 DEF fibRound
<1>9. fibAt(8, f, src.stdin, src.stdout)
  BY <1>6, <1>7, <1>8 DEF fibAt
<1>10. nextSpot(spot(k)) = 8 /\ spot(k) \notin {7, 15}
  BY DEF nextSpot
<1> QED
  BY <1>1, <1>4, <1>9, <1>10, FibArrives

LEMMA FibOpens ==
  ASSUME NEW k, FibHere(k), Source!Next, spot(k) \in 1..6
  PROVE  FibGoesOn
<1> DEFINE x == spot(k)
<1>1. x # 14 /\ src.r \in [0..31 -> Values] /\ fibAt(x, src.r, src.stdin, src.stdout)
  BY FibHereIs
<1>2. CASE x = 1
  <2>1. fibAt(2, [src.r EXCEPT ![10] = 0], src.stdin, src.stdout)
    BY <1>1, <1>2, FibAtOpens
  <2>2. /\ spot(k) = 1 /\ 2 = 1 + 1 /\ 1 # 14 /\ 1 < 6 /\ 0 \in {0, 1}
        /\ fibonacci[1] = set(10, Lit(0))
    BY <1>2, FibLine
  <2> QED
    BY ONLY FibHere(k), Source!Next, <2>1, <2>2, FibSets
<1>3. CASE x = 2
  <2>1. fibAt(3, [src.r EXCEPT ![11] = 1], src.stdin, src.stdout)
    BY <1>1, <1>3, FibAtOpens
  <2>2. /\ spot(k) = 2 /\ 3 = 2 + 1 /\ 2 # 14 /\ 2 < 6 /\ 1 \in {0, 1}
        /\ fibonacci[2] = set(11, Lit(1))
    BY <1>3, FibLine
  <2> QED
    BY ONLY FibHere(k), Source!Next, <2>1, <2>2, FibSets
<1>4. CASE x = 3
  <2>1. fibAt(4, [src.r EXCEPT ![1] = 0], src.stdin, src.stdout)
    BY <1>1, <1>4, FibAtOpens
  <2>2. /\ spot(k) = 3 /\ 4 = 3 + 1 /\ 3 # 14 /\ 3 < 6 /\ 0 \in {0, 1}
        /\ fibonacci[3] = set(1, Lit(0))
    BY <1>4, FibLine
  <2> QED
    BY ONLY FibHere(k), Source!Next, <2>1, <2>2, FibSets
<1>5. CASE x = 4
  <2>1. fibAt(5, [src.r EXCEPT ![0] = 1], src.stdin, src.stdout)
    BY <1>1, <1>5, FibAtOpens
  <2>2. /\ spot(k) = 4 /\ 5 = 4 + 1 /\ 4 # 14 /\ 4 < 6 /\ 1 \in {0, 1}
        /\ fibonacci[4] = set(0, Lit(1))
    BY <1>5, FibLine
  <2> QED
    BY ONLY FibHere(k), Source!Next, <2>1, <2>2, FibSets
<1> QED
  BY <1>2, <1>3, <1>4, <1>5, FibReads, FibEnters

\* What the lines of the loop do to the numbers.
LEMMA FibRounds ==
  ASSUME isFib, expected(program, input), NEW f \in [0..31 -> Values], NEW n
  PROVE  /\ fibRound(8, f, n) => fibRound(nextSpot(8), [f EXCEPT ![12] = ull(f[11] + f[10])], n)
         /\ fibRound(9, f, n) => fibRound(10, [f EXCEPT ![9] = f[10]], n)
         /\ fibRound(10, f, n) => fibRound(11, [f EXCEPT ![10] = f[11]], n)
         /\ fibRound(11, f, n) => fibRound(12, [f EXCEPT ![11] = f[12]], n)
         /\ fibRound(12, f, n) => fibRound(13, [f EXCEPT ![2] = ull(f[2] - 1)], n)
         /\ fibRound(13, f, n) /\ f[2] > 0 => fibRound(8, f, n + 1)
         /\ fibRound(13, f, n) /\ ~(f[2] > 0) =>
              f[IF program = "fibbonacci" THEN 10 ELSE 9] =
                u(IF program = "fibbonacci" THEN line(1) ELSE line(1) - 1)
<1>1. line(1) \in Nat /\ 1 <= line(1) /\ line(1) < WORD /\ program \in {"fibonacci", "fibbonacci"}
  BY FibCount DEF isFib
<1>2. nextSpot(8) = IF program = "fibbonacci" THEN 10 ELSE 9
  BY DEF nextSpot
<1>3. ASSUME fibRound(8, f, n)
      PROVE  fibRound(nextSpot(8), [f EXCEPT ![12] = ull(f[11] + f[10])], n)
  <2>1. n \in Nat /\ f[11] = u(n + 1) /\ f[10] = u(n)
    BY <1>1, <1>3 DEF fibRound
  <2>2. ull(ull(fib(n + 1)) + ull(fib(n))) = ull(fib(n + 1) + fib(n))
    BY <2>1, Fibonacci, UllSum, SMTT(30)
  <2>3. ull(f[11] + f[10]) = u(n + 2)
    BY <2>1, <2>2, Fibonacci DEF u
  <2>4. PICK v : v = ull(f[11] + f[10])
    OBVIOUS
  <2>5. fibRound(9, [f EXCEPT ![12] = v], n)
    BY <1>3, <2>3, <2>4 DEF fibRound
  <2>6. program = "fibbonacci" => fibRound(10, [f EXCEPT ![12] = v], n)
    BY <1>3, <2>3, <2>4 DEF fibRound
  <2> QED
    BY <1>2, <2>4, <2>5, <2>6
<1>4. ASSUME fibRound(9, f, n) PROVE fibRound(10, [f EXCEPT ![9] = f[10]], n)
  BY <1>4 DEF fibRound
<1>5. ASSUME fibRound(10, f, n) PROVE fibRound(11, [f EXCEPT ![10] = f[11]], n)
  BY <1>5 DEF fibRound
<1>6. ASSUME fibRound(11, f, n) PROVE fibRound(12, [f EXCEPT ![11] = f[12]], n)
  BY <1>6 DEF fibRound
<1>7. ASSUME fibRound(12, f, n) PROVE fibRound(13, [f EXCEPT ![2] = ull(f[2] - 1)], n)
  <2>1. n \in Nat /\ n <= line(1) - 1 /\ f[2] = line(1) - n
    BY <1>1, <1>7 DEF fibRound
  <2>2. line(1) - n - 1 \in Nat /\ line(1) - n - 1 < WORD
    BY <1>1, <2>1, Sizes
  <2>3. ull(f[2] - 1) = line(1) - n - 1
    BY <2>1, <2>2, Sizes, UllSame DEF Values
  <2>4. PICK v : v = ull(f[2] - 1)
    OBVIOUS
  <2>5. fibRound(13, [f EXCEPT ![2] = v], n)
    BY <1>7, <2>3, <2>4 DEF fibRound
  <2> QED
    BY <2>4, <2>5
<1>8. ASSUME fibRound(13, f, n)
      PROVE  /\ n \in Nat /\ n <= line(1) - 1 /\ f[2] = line(1) - n - 1 /\ f[10] = u(n + 1)
             /\ f[11] = u(n + 2) /\ f[24] = Source!startOf(8)
             /\ program = "fibonacci" => f[9] = u(n)
  BY <1>1, <1>8 DEF fibRound
<1>9. ASSUME fibRound(13, f, n), f[2] > 0 PROVE fibRound(8, f, n + 1)
  <2>1. n + 1 \in 0..(line(1) - 1) /\ f[2] = line(1) - (n + 1) /\ (n + 1) + 1 = n + 2
    BY <1>1, <1>8, <1>9
  <2>2. u((n + 1) + 1) = u(n + 2)
    BY <2>1
  <2>3. 8 # 13 /\ 8 \notin 11..13 /\ 8 \notin 12..13 /\ 8 \notin 9..13 /\ 8 \notin 10..13
    OBVIOUS
  <2> QED
    BY ONLY <1>8, <1>9, <2>1, <2>2, <2>3 DEF fibRound
<1>10. ASSUME fibRound(13, f, n), ~(f[2] > 0)
       PROVE  f[IF program = "fibbonacci" THEN 10 ELSE 9] =
                u(IF program = "fibbonacci" THEN line(1) ELSE line(1) - 1)
  <2>1. n = line(1) - 1 /\ n + 1 = line(1)
    BY <1>1, <1>8, <1>10
  <2> QED
    BY <1>1, <1>8, <1>10, <2>1
<1> QED
  BY <1>3, <1>4, <1>5, <1>6, <1>7, <1>9, <1>10

\* At the lines of the loop.
inLoop(x, f, o) == f[1] = 0 /\ f[0] = 1 /\ o = <<>> /\ \E n : fibRound(x, f, n)

LEMMA FibAtLoop ==
  ASSUME NEW x \in 8..13, NEW f, NEW i, NEW o
  PROVE  fibAt(x, f, i, o) <=> inLoop(x, f, o)
<1> DEFINE holds(y) == fibAt(y, f, i, o) <=> inLoop(y, f, o)
<1>1. holds(8)
  BY DEF fibAt, inLoop
<1>2. holds(9)
  BY DEF fibAt, inLoop
<1>3. holds(10)
  BY DEF fibAt, inLoop
<1>4. holds(11)
  BY DEF fibAt, inLoop
<1>5. holds(12)
  BY DEF fibAt, inLoop
<1>6. holds(13)
  BY DEF fibAt, inLoop
<1> HIDE DEF holds
<1>7. holds(x)
  BY <1>1, <1>2, <1>3, <1>4, <1>5, <1>6
<1> QED
  BY <1>7 DEF holds

\* A line of the loop that sets a register goes on to the next one.
LEMMA FibWorks ==
  ASSUME NEW k, FibHere(k), NEW x \in 8..12, x = spot(k), NEW y \in 8..13, y = nextSpot(x),
         NEW n \in 0..31, n \notin {0, 1}, NEW v, NEW j,
         fibRound(y, [src.r EXCEPT ![n] = v], j),
         Goes(Source!firstFrom(k + 1), [src.r EXCEPT ![n] = v], src.mem, src.stdin, src.stdout)
  PROVE  FibGoesOn
<1>1. /\ isFib /\ k \in DOMAIN script /\ fibAt(x, src.r, src.stdin, src.stdout)
      /\ src.r \in [0..31 -> Values]
  BY FibHereIs
<1>2. PICK f \in [0..31 -> Values] : f = src.r
  BY <1>1
<1>3. f[1] = 0 /\ f[0] = 1 /\ src.stdout = <<>>
  <2>1. x \in 8..13 /\ fibAt(x, f, src.stdin, src.stdout)
    BY <1>1, <1>2
  <2>2. inLoop(x, f, src.stdout)
    BY ONLY <2>1, FibAtLoop
  <2> QED
    BY <2>2 DEF inLoop
<1>4. PICK g : g = [f EXCEPT ![n] = v]
  OBVIOUS
<1>5. g[1] = 0 /\ g[0] = 1
  BY <1>3, <1>4
<1>6. fibRound(y, g, j)
  BY <1>2, <1>4
<1>7. fibAt(y, g, src.stdin, src.stdout)
  BY <1>3, <1>5, <1>6, FibAtLoop DEF inLoop
<1>8. Goes(Source!firstFrom(k + 1), g, src.mem, src.stdin, src.stdout)
  BY <1>2, <1>4
<1> QED
  BY <1>1, <1>7, <1>8, FibArrives

\* The lines of the loop.
LEMMA FibLoops ==
  ASSUME NEW k, FibHere(k), Source!Next, spot(k) \in 8..12
  PROVE  FibGoesOn
<1> DEFINE x == spot(k)
<1>1. /\ isFib /\ At(k) /\ script[k] = fibonacci[x] /\ k \in DOMAIN script
      /\ fibAt(x, src.r, src.stdin, src.stdout) /\ src.r \in [0..31 -> Values]
      /\ expected(program, input)
  BY FibHereIs DEF FibHere
<1>2. PICK n : fibRound(x, src.r, n)
  <2>1. x \in 8..13
    OBVIOUS
  <2>2. inLoop(x, src.r, src.stdout)
    BY <1>1, <2>1, FibAtLoop
  <2> QED
    BY <2>2 DEF inLoop
<1>3. CASE x = 8
  <2>1. PICK y : y = nextSpot(8)
    OBVIOUS
  <2>2. y \in 8..13 /\ 12 \in 0..31 /\ 12 \notin {0, 1} /\ 8 \in 8..12 /\ 8 = spot(k)
    BY <1>3, <2>1 DEF nextSpot
  <2>3. fibRound(y, [src.r EXCEPT ![12] = ull(src.r[11] + src.r[10])], n)
    <3>1. fibRound(8, src.r, n)
      BY <1>2, <1>3
    <3>2. fibRound(nextSpot(8), [src.r EXCEPT ![12] = ull(src.r[11] + src.r[10])], n)
      BY <1>1, <3>1, FibRounds
    <3> QED
      BY <2>1, <3>2
  <2>4. script[k] = op("add", 12, 11, 10)
    BY <1>1, <1>3, FibLine
  <2>5. Goes(Source!firstFrom(k + 1), [src.r EXCEPT ![12] = ull(src.r[11] + src.r[10])],
             src.mem, src.stdin, src.stdout)
    BY <1>1, <2>4, OpLine
  <2> QED
    BY ONLY FibHere(k), <2>1, <2>2, <2>3, <2>5, FibWorks
<1>4. CASE x = 9
  <2>1. 10 = nextSpot(9) /\ 10 \in 8..13 /\ 9 \in 0..31 /\ 9 \notin {0, 1} /\ 9 \in 8..12 /\ 9 = spot(k)
    BY <1>4 DEF nextSpot
  <2>2. fibRound(10, [src.r EXCEPT ![9] = src.r[10]], n)
    BY <1>1, <1>2, <1>4, FibRounds
  <2>3. script[k] = mov(9, 10)
    BY <1>1, <1>4, FibLine
  <2>4. Goes(Source!firstFrom(k + 1), [src.r EXCEPT ![9] = src.r[10]], src.mem, src.stdin, src.stdout)
    BY <1>1, <2>3, CopyLine
  <2> QED
    BY ONLY FibHere(k), <2>1, <2>2, <2>4, FibWorks
<1>5. CASE x = 10
  <2>1. /\ 11 = nextSpot(10) /\ 11 \in 8..13 /\ 10 \in 0..31 /\ 10 \notin {0, 1}
        /\ 10 \in 8..12 /\ 10 = spot(k)
    BY <1>5 DEF nextSpot
  <2>2. fibRound(11, [src.r EXCEPT ![10] = src.r[11]], n)
    BY <1>1, <1>2, <1>5, FibRounds
  <2>3. script[k] = mov(10, 11)
    BY <1>1, <1>5, FibLine
  <2>4. Goes(Source!firstFrom(k + 1), [src.r EXCEPT ![10] = src.r[11]], src.mem, src.stdin, src.stdout)
    BY <1>1, <2>3, CopyLine
  <2> QED
    BY ONLY FibHere(k), <2>1, <2>2, <2>4, FibWorks
<1>6. CASE x = 11
  <2>1. /\ 12 = nextSpot(11) /\ 12 \in 8..13 /\ 11 \in 0..31 /\ 11 \notin {0, 1}
        /\ 11 \in 8..12 /\ 11 = spot(k)
    BY <1>6 DEF nextSpot
  <2>2. fibRound(12, [src.r EXCEPT ![11] = src.r[12]], n)
    BY <1>1, <1>2, <1>6, FibRounds
  <2>3. script[k] = mov(11, 12)
    BY <1>1, <1>6, FibLine
  <2>4. Goes(Source!firstFrom(k + 1), [src.r EXCEPT ![11] = src.r[12]], src.mem, src.stdin, src.stdout)
    BY <1>1, <2>3, CopyLine
  <2> QED
    BY ONLY FibHere(k), <2>1, <2>2, <2>4, FibWorks
<1>7. CASE x = 12
  <2>1. 13 = nextSpot(12) /\ 13 \in 8..13 /\ 2 \in 0..31 /\ 2 \notin {0, 1} /\ 12 \in 8..12 /\ 12 = spot(k)
    BY <1>7 DEF nextSpot
  <2>2. fibRound(13, [src.r EXCEPT ![2] = ull(src.r[2] - 1)], n)
    BY <1>1, <1>2, <1>7, FibRounds
  <2>3. script[k] = imm12("subi", 2, 1)
    BY <1>1, <1>7, FibLine
  <2>4. Goes(Source!firstFrom(k + 1), [src.r EXCEPT ![2] = ull(src.r[2] - 1)], src.mem,
             src.stdin, src.stdout)
    BY <1>1, <2>3, ImmLine
  <2> QED
    BY ONLY FibHere(k), <2>1, <2>2, <2>4, FibWorks
<1> QED
  BY <1>3, <1>4, <1>5, <1>6, <1>7

\* The end of the loop, and of the program.
LEMMA FibTurns ==
  ASSUME NEW k, FibHere(k), Source!Next, spot(k) = 13
  PROVE  FibGoesOn
<1>1. /\ isFib /\ At(k) /\ script[k] = op("brgt", 24, 2, 1) /\ k \in DOMAIN script
      /\ fibAt(13, src.r, src.stdin, src.stdout) /\ src.r \in [0..31 -> Values]
      /\ expected(program, input)
  BY FibHereIs, FibLine DEF FibHere
<1>2. PICK f \in [0..31 -> Values] : f = src.r
  BY <1>1
<1>3. 13 \in 8..13 /\ 8 \in 8..13
  OBVIOUS
<1>4. f[1] = 0 /\ f[0] = 1 /\ src.stdout = <<>> /\ \E n : fibRound(13, f, n)
  BY <1>1, <1>2, <1>3, FibAtLoop DEF inLoop
<1>5. PICK n : fibRound(13, f, n)
  BY <1>4
<1>6. f[24] = Source!startOf(8)
  BY <1>5 DEF fibRound
<1>7. 8 \in Source!places /\ 8 \in DOMAIN script /\ Source!startOf(8) < MEM_SIZE
  BY <1>1, FibLoop
<1>8. IF f[2] > f[1] THEN Goes(8, f, src.mem, src.stdin, src.stdout)
      ELSE Goes(Source!firstFrom(k + 1), f, src.mem, src.stdin, src.stdout)
  BY <1>1, <1>2, <1>6, <1>7, BrgtLine
<1>9. CASE f[2] > 0
  <2>1. Goes(8, f, src.mem, src.stdin, src.stdout)
    BY <1>4, <1>8, <1>9
  <2>2. fibRound(8, f, n + 1)
    BY <1>1, <1>5, <1>9, FibRounds
  <2>3. fibAt(8, f, src.stdin, src.stdout)
    BY <1>3, <1>4, <2>2, FibAtLoop DEF inLoop
  <2>4. spot(8) = 8
    BY DEF spot
  <2>5. fibGood(8, f, src.stdin, src.stdout)
    BY <1>7, <2>3, <2>4 DEF fibGood
  <2> QED
    BY <2>1, <2>5 DEF FibGoesOn, Goes
<1>10. CASE ~(f[2] > 0)
  <2>1. Goes(Source!firstFrom(k + 1), f, src.mem, src.stdin, src.stdout)
    BY <1>4, <1>8, <1>10
  <2>2. f[IF program = "fibbonacci" THEN 10 ELSE 9] =
          u(IF program = "fibbonacci" THEN line(1) ELSE line(1) - 1)
    BY <1>1, <1>5, <1>10, FibRounds
  <2>3. fibAt(14, f, src.stdin, src.stdout)
    BY <1>4, <2>2 DEF fibAt
  <2>4. nextSpot(spot(k)) = 14 /\ spot(k) \notin {7, 15}
    BY DEF nextSpot
  <2> QED
    BY <1>1, <2>1, <2>3, <2>4, FibArrives
<1> QED
  BY <1>9, <1>10

LEMMA FibPrints ==
  ASSUME NEW k, FibHere(k), Source!Next, spot(k) = 14
  PROVE  FibGoesOn
<1> DEFINE n == IF program = "fibbonacci" THEN 10 ELSE 9
           v == u(IF program = "fibbonacci" THEN line(1) ELSE line(1) - 1)
<1>1. isFib /\ At(k) /\ k \in DOMAIN script /\ fibAt(14, src.r, src.stdin, src.stdout)
  BY DEF FibHere, At, fibGood
<1>2. script[k] = out(0, n)
  BY <1>1, FibLines
<1>3. src.r[0] = 1 /\ src.r[n] = v /\ src.stdout = <<>>
  BY <1>1 DEF fibAt
<1> HIDE DEF n, v
<1>4. Goes(Source!firstFrom(k + 1), src.r, src.mem, src.stdin,
           Append(src.stdout, [k |-> "number", v |-> v]))
  <2>1. src.r[0] \in {1, 3}
    BY <1>3
  <2>2. Goes(Source!firstFrom(k + 1), src.r, src.mem, src.stdin,
             Append(src.stdout, IF src.r[0] = 1 THEN [k |-> "number", v |-> src.r[n]]
                                ELSE [k |-> "char", v |-> src.r[n] % 256]))
    BY <1>1, <1>2, <2>1, OutLine
  <2> QED
    BY <1>3, <2>2
<1>5. Append(src.stdout, [k |-> "number", v |-> v]) = answer
  <2>1. answer = <<[k |-> "number", v |-> v]>>
    BY <1>1 DEF answer, isFib, u, v
  <2>2. Append(src.stdout, [k |-> "number", v |-> v]) = <<[k |-> "number", v |-> v]>>
    BY <1>3
  <2> QED
    BY <2>1, <2>2
<1>6. fibAt(15, src.r, src.stdin, answer)
  BY DEF fibAt
<1>7. nextSpot(spot(k)) = 15 /\ spot(k) \notin {7, 15}
  BY DEF nextSpot
<1> QED
  BY <1>1, <1>4, <1>5, <1>6, <1>7, FibArrives

\* Each step of an instruction.
LEMMA FibStep ==
  ASSUME NEW k, FibHere(k), Source!Next
  PROVE  FibGoesOn
<1>1. isFib /\ At(k) /\ k \in DOMAIN script /\ fibAt(spot(k), src.r, src.stdin, src.stdout)
  BY DEF FibHere, At, fibGood
<1>2. spot(k) \in 1..15 /\ spot(k) # 7
  BY <1>1, FibLines DEF FibHere, fibGood, spots
<1>3. CASE spot(k) = 15
  <2>1. script[k] = halt
    BY <1>1, <1>3, FibLines, FibLine
  <2>2. src.stdout = answer
    BY <1>1, <1>3 DEF fibAt
  <2> QED
    BY <1>1, <2>1, <2>2, EndLine DEF FibGoesOn
<1> QED
  BY <1>2, <1>3, FibOpens, FibLoops, FibTurns, FibPrints

---------------------------------------------------------------------------
(* The lines of binary_search.tk *)

isSearch == program = "binary_search" /\ script = scripts[program] /\ Assembled

\* Its labels, and the line behind a line.
labelLines  == {9, 35, 46, 52, 58, 69}
labelAt(k)  == CASE k = 9  -> ":ReadVal"
                 [] k = 35 -> ":Modp"
                 [] k = 46 -> ":RightHalf"
                 [] k = 52 -> ":LeftHalf"
                 [] k = 58 -> ":Nf"
                 [] k = 69 -> ":F"
nextLine(k) == IF k + 1 \in labelLines THEN k + 2 ELSE k + 1

LEMMA SearchLine ==
  /\ DOMAIN binary_search = 1..75
  /\ binary_search[1] = set(29, Lit(0)) /\ binary_search[2] = set(30, Lit(1))
  /\ binary_search[3] = in(0, 29) /\ binary_search[4] = set(1, Lit(1))
  /\ binary_search[5] = mov(2, 0) /\ binary_search[6] = set(4, Lit(0))
  /\ binary_search[7] = set(6, Lab(":ReadVal")) /\ binary_search[8] = set(7, Lit(ARRAY))
  /\ binary_search[9] = Label(":ReadVal") /\ binary_search[10] = in(5, 29)
  /\ binary_search[11] = imm12("addi", 4, 1) /\ binary_search[12] = Do("mov", <<Mem(7, 8), Reg(5)>>)
  /\ binary_search[13] = imm12("addi", 7, 8) /\ binary_search[14] = op("brgt", 6, 0, 4)
  /\ binary_search[15] = set(3, Lit(2)) /\ binary_search[16] = set(6, Lab(":Modp"))
  /\ binary_search[17] = set(7, Lab(":RightHalf")) /\ binary_search[18] = set(8, Lab(":LeftHalf"))
  /\ binary_search[19] = set(9, Lit(8)) /\ binary_search[20] = in(15, 29)
  /\ binary_search[21] = set(14, Lit(69)) /\ binary_search[22] = set(13, Lit(68))
  /\ binary_search[23] = set(16, Lab(":Nf")) /\ binary_search[24] = set(17, Lab(":F"))
  /\ binary_search[25] = set(18, Lit(404)) /\ binary_search[26] = set(19, Lit(400))
  /\ binary_search[27] = set(20, Lit(110)) /\ binary_search[28] = set(21, Lit(111))
  /\ binary_search[29] = set(22, Lit(116)) /\ binary_search[30] = set(23, Lit(102))
  /\ binary_search[31] = set(24, Lit(117)) /\ binary_search[32] = set(25, Lit(100))
  /\ binary_search[33] = set(26, Lit(32)) /\ binary_search[34] = set(27, Lit(3))
  /\ binary_search[35] = Label(":Modp") /\ binary_search[36] = op("add", 4, 1, 2)
  /\ binary_search[37] = op("div", 4, 4, 3) /\ binary_search[38] = op("brgt", 16, 1, 2)
  /\ binary_search[39] = op("mul", 4, 4, 9) /\ binary_search[40] = set(5, Lit(ARRAY))
  /\ binary_search[41] = op("add", 5, 5, 4) /\ binary_search[42] = Do("mov", <<Reg(10), Mem(5, 0)>>)
  /\ binary_search[43] = op("brgt", 8, 10, 15) /\ binary_search[44] = op("brgt", 7, 15, 10)
  /\ binary_search[45] = goto(17)[1] /\ binary_search[46] = Label(":RightHalf")
  /\ binary_search[47] = op("add", 4, 1, 2) /\ binary_search[48] = op("div", 5, 4, 3)
  /\ binary_search[49] = mov(1, 5) /\ binary_search[50] = imm12("addi", 1, 1)
  /\ binary_search[51] = goto(6)[1] /\ binary_search[52] = Label(":LeftHalf")
  /\ binary_search[53] = op("add", 4, 1, 2) /\ binary_search[54] = op("div", 5, 4, 3)
  /\ binary_search[55] = mov(2, 5) /\ binary_search[56] = imm12("subi", 2, 1)
  /\ binary_search[57] = goto(6)[1] /\ binary_search[58] = Label(":Nf")
  /\ binary_search[59] = out(27, 20) /\ binary_search[60] = out(27, 21)
  /\ binary_search[61] = out(27, 22) /\ binary_search[62] = out(27, 26)
  /\ binary_search[63] = out(27, 23) /\ binary_search[64] = out(27, 21)
  /\ binary_search[65] = out(27, 24) /\ binary_search[66] = out(27, 20)
  /\ binary_search[67] = out(27, 25) /\ binary_search[68] = halt /\ binary_search[69] = Label(":F")
  /\ binary_search[70] = out(27, 23) /\ binary_search[71] = out(27, 21)
  /\ binary_search[72] = out(27, 24) /\ binary_search[73] = out(27, 20)
  /\ binary_search[74] = out(27, 25) /\ binary_search[75] = halt
<1>1. DOMAIN binary_search = 1..75
  BY DEF binary_search, ReadVal, sets, Modp, RightHalf, LeftHalf, Nf, F, middle, again, goto,
         outs, notFound, found
<1>2. /\ binary_search[1] = set(29, Lit(0)) /\ binary_search[2] = set(30, Lit(1))
      /\ binary_search[3] = in(0, 29) /\ binary_search[4] = set(1, Lit(1))
      /\ binary_search[5] = mov(2, 0) /\ binary_search[6] = set(4, Lit(0))
      /\ binary_search[7] = set(6, Lab(":ReadVal")) /\ binary_search[8] = set(7, Lit(ARRAY))
  BY DEF binary_search, ReadVal, sets, Modp, RightHalf, LeftHalf, Nf, F, middle, again, goto,
         outs, notFound, found
<1>3. /\ binary_search[9] = Label(":ReadVal") /\ binary_search[10] = in(5, 29)
      /\ binary_search[11] = imm12("addi", 4, 1)
      /\ binary_search[12] = Do("mov", <<Mem(7, 8), Reg(5)>>)
      /\ binary_search[13] = imm12("addi", 7, 8) /\ binary_search[14] = op("brgt", 6, 0, 4)
  BY DEF binary_search, ReadVal, sets, Modp, RightHalf, LeftHalf, Nf, F, middle, again, goto,
         outs, notFound, found
<1>4. /\ binary_search[15] = set(3, Lit(2)) /\ binary_search[16] = set(6, Lab(":Modp"))
      /\ binary_search[17] = set(7, Lab(":RightHalf"))
      /\ binary_search[18] = set(8, Lab(":LeftHalf")) /\ binary_search[19] = set(9, Lit(8))
      /\ binary_search[20] = in(15, 29) /\ binary_search[21] = set(14, Lit(69))
      /\ binary_search[22] = set(13, Lit(68))
  BY DEF binary_search, ReadVal, sets, Modp, RightHalf, LeftHalf, Nf, F, middle, again, goto,
         outs, notFound, found
<1>5. /\ binary_search[23] = set(16, Lab(":Nf")) /\ binary_search[24] = set(17, Lab(":F"))
      /\ binary_search[25] = set(18, Lit(404)) /\ binary_search[26] = set(19, Lit(400))
      /\ binary_search[27] = set(20, Lit(110)) /\ binary_search[28] = set(21, Lit(111))
      /\ binary_search[29] = set(22, Lit(116)) /\ binary_search[30] = set(23, Lit(102))
      /\ binary_search[31] = set(24, Lit(117)) /\ binary_search[32] = set(25, Lit(100))
      /\ binary_search[33] = set(26, Lit(32)) /\ binary_search[34] = set(27, Lit(3))
  BY DEF binary_search, ReadVal, sets, Modp, RightHalf, LeftHalf, Nf, F, middle, again, goto,
         outs, notFound, found
<1>6. /\ binary_search[35] = Label(":Modp") /\ binary_search[36] = op("add", 4, 1, 2)
      /\ binary_search[37] = op("div", 4, 4, 3) /\ binary_search[38] = op("brgt", 16, 1, 2)
      /\ binary_search[39] = op("mul", 4, 4, 9) /\ binary_search[40] = set(5, Lit(ARRAY))
      /\ binary_search[41] = op("add", 5, 5, 4)
      /\ binary_search[42] = Do("mov", <<Reg(10), Mem(5, 0)>>)
      /\ binary_search[43] = op("brgt", 8, 10, 15) /\ binary_search[44] = op("brgt", 7, 15, 10)
      /\ binary_search[45] = goto(17)[1]
  BY DEF binary_search, ReadVal, sets, Modp, RightHalf, LeftHalf, Nf, F, middle, again, goto,
         outs, notFound, found
<1>7. /\ binary_search[46] = Label(":RightHalf") /\ binary_search[47] = op("add", 4, 1, 2)
      /\ binary_search[48] = op("div", 5, 4, 3) /\ binary_search[49] = mov(1, 5)
      /\ binary_search[50] = imm12("addi", 1, 1) /\ binary_search[51] = goto(6)[1]
      /\ binary_search[52] = Label(":LeftHalf") /\ binary_search[53] = op("add", 4, 1, 2)
      /\ binary_search[54] = op("div", 5, 4, 3) /\ binary_search[55] = mov(2, 5)
      /\ binary_search[56] = imm12("subi", 2, 1) /\ binary_search[57] = goto(6)[1]
  BY DEF binary_search, ReadVal, sets, Modp, RightHalf, LeftHalf, Nf, F, middle, again, goto,
         outs, notFound, found
<1>8. /\ binary_search[58] = Label(":Nf") /\ binary_search[59] = out(27, 20)
      /\ binary_search[60] = out(27, 21) /\ binary_search[61] = out(27, 22)
      /\ binary_search[62] = out(27, 26) /\ binary_search[63] = out(27, 23)
      /\ binary_search[64] = out(27, 21) /\ binary_search[65] = out(27, 24)
      /\ binary_search[66] = out(27, 20) /\ binary_search[67] = out(27, 25)
      /\ binary_search[68] = halt
  BY DEF binary_search, ReadVal, sets, Modp, RightHalf, LeftHalf, Nf, F, middle, again, goto,
         outs, notFound, found
<1>9. /\ binary_search[69] = Label(":F") /\ binary_search[70] = out(27, 23)
      /\ binary_search[71] = out(27, 21) /\ binary_search[72] = out(27, 24)
      /\ binary_search[73] = out(27, 20) /\ binary_search[74] = out(27, 25)
      /\ binary_search[75] = halt
  BY DEF binary_search, ReadVal, sets, Modp, RightHalf, LeftHalf, Nf, F, middle, again, goto,
         outs, notFound, found
<1> QED
  BY ONLY <1>1, <1>2, <1>3, <1>4, <1>5, <1>6, <1>7, <1>8, <1>9

LEMMA SearchKinds ==
  ASSUME isSearch
  PROVE  /\ DOMAIN script = 1..75
         /\ \A k \in 1..75 : /\ script[k] = binary_search[k]
                             /\ script[k].type = IF k \in labelLines THEN 2 ELSE 0
         /\ \A k \in labelLines : script[k].lbl = labelAt(k)
<1>1. script = binary_search
  BY DEF isSearch, scripts
<1>2. /\ \A l : Label(l).type = 2 /\ Label(l).lbl = l
      /\ \A n, v : set(n, v).type = 0 /\ mov(n, v).type = 0 /\ in(n, v).type = 0 /\ out(n, v).type = 0
      /\ \A cm, l, m, n : op(cm, l, m, n).type = 0 /\ imm12(cm, m, n).type = 0
      /\ \A n : goto(n)[1].type = 0
      /\ halt.type = 0 /\ \A cm, sq : Do(cm, sq).type = 0
  BY DEF Label, set, mov, in, out, op, imm12, halt, goto, Do
<1>3. \A k \in labelLines : binary_search[k] = Label(labelAt(k))
  BY SearchLine DEF labelLines, labelAt
<1>4. \A k \in 1..22 : k \notin labelLines => binary_search[k].type = 0
  BY <1>2, SearchLine DEF labelLines
<1>5. \A k \in 23..45 : k \notin labelLines => binary_search[k].type = 0
  BY <1>2, SearchLine DEF labelLines
<1>6. \A k \in 46..75 : k \notin labelLines => binary_search[k].type = 0
  BY <1>2, SearchLine DEF labelLines
<1> QED
  BY <1>1, <1>2, <1>3, <1>4, <1>5, <1>6, SearchLine DEF labelLines

LEMMA SearchNext ==
  ASSUME isSearch, NEW k \in (1..74) \ labelLines, k # 68
  PROVE  /\ Source!firstFrom(k + 1) = nextLine(k)
         /\ nextLine(k) \in (1..75) \ labelLines
<1>1. script \in Scripts /\ k \in Nat /\ k + 1 \in DOMAIN script
  BY SearchKinds DEF isSearch, Assembled
<1>2. k + 1 \in labelLines => k + 2 \in DOMAIN script /\ k + 2 \notin labelLines
  BY SearchKinds DEF labelLines
<1> QED
  BY <1>1, <1>2, NextPlace, SearchKinds DEF nextLine

\* A label is the line behind it.
LEMMA SearchPlaces ==
  ASSUME isSearch, NEW g \in labelLines
  PROVE  /\ Source!addressOf(labelAt(g)) = Source!startOf(g + 1)
         /\ g + 1 \in Source!places /\ g + 1 \in (1..75) \ labelLines
         /\ Source!startOf(g + 1) < MEM_SIZE
<1>1. script \in Scripts /\ Assembled
  BY DEF isSearch, Assembled
<1>2. g \in Nat /\ {g, g + 1} \subseteq DOMAIN script /\ g + 1 \in (1..75) \ labelLines
  BY SearchKinds DEF labelLines
<1>3. script[g + 1].type = 0
  BY <1>2, SearchKinds
<1>4. \A j \in DOMAIN script : script[j].type = 2 /\ script[j].lbl = labelAt(g) <=> j = g
  <2>1. \A j \in labelLines : labelAt(j) = labelAt(g) => j = g
    BY DEF labelLines, labelAt
  <2> QED
    BY <2>1, SearchKinds DEF labelLines
<1> QED
  BY <1>1, <1>2, <1>3, <1>4, LabelPlace, LineInMemory

---------------------------------------------------------------------------
(* What holds at each of them *)

\* How many numbers the first loop stores: the value itself, if there is no other.
stores == IF count = 0 THEN 1 ELSE count

\* All but the first j lines of the input are left.
after(i, j) == i \in Seq(Line) /\ Len(i) = Len(input) - j /\ \A n \in 1..Len(i) : i[n] = input[n + j]

\* The first e numbers are in memory.
stored(m, e) == \A n \in 1..e : verified(ARRAY + 8 * n, 8) /\ readMem(m, ARRAY + 8 * n) = line(n + 1)

\* Before the first loop, and in it, with e numbers stored.
begins(x, f) ==
  /\ x > 1 => f[29] = 0
  /\ x > 3 => f[0] = count
  /\ x > 4 => f[1] = 1
  /\ x > 5 => f[2] = count
  /\ x > 6 => f[4] = 0
  /\ x > 7 => f[6] = Source!startOf(10)

reads(x, f, m, i, e) ==
  /\ e \in 0..(stores - 1) /\ stored(m, IF x \in 13..14 THEN e + 1 ELSE e)
  /\ f[0] = count /\ f[1] = 1 /\ f[2] = count /\ f[29] = 0 /\ f[6] = Source!startOf(10)
  /\ f[4] = IF x \in 10..11 THEN e ELSE e + 1
  /\ f[7] = ARRAY + 8 * (IF x = 14 THEN e + 1 ELSE e)
  /\ x \in 11..12 => f[5] = line(e + 2)
  /\ after(i, IF x = 10 THEN e + 1 ELSE e + 2)

\* Lines 15 to 34 set these registers to these values.
constReg(j) == CASE j = 15 -> 3 [] j = 20 -> 15 [] j = 21 -> 14 [] j = 22 -> 13
                 [] j \in 16..19 -> j - 10 [] OTHER -> j - 7
constVal(j) == CASE j = 15 -> 2
                 [] j = 16 -> Source!startOf(36) [] j = 17 -> Source!startOf(47)
                 [] j = 18 -> Source!startOf(53) [] j = 19 -> 8 [] j = 20 -> line(count + 2)
                 [] j = 21 -> 69 [] j = 22 -> 68
                 [] j = 23 -> Source!startOf(59) [] j = 24 -> Source!startOf(70)
                 [] j = 25 -> 404 [] j = 26 -> 400 [] j = 27 -> 110 [] j = 28 -> 111
                 [] j = 29 -> 116 [] j = 30 -> 102 [] j = 31 -> 117 [] j = 32 -> 100
                 [] j = 33 -> 32 [] j = 34 -> 3
consts(x, f) == \A j \in 15..34 : j < x => f[constReg(j)] = constVal(j)

prepares(x, f, m, i) ==
  /\ consts(x, f) /\ f[1] = 1 /\ f[2] = count /\ f[29] = 0 /\ stored(m, stores)
  /\ x <= 20 => after(i, stores + 1)
  /\ x > 20 => count # 0

\* The value can only be between these two places, when it is anywhere.
bounds(p, q) ==
  /\ p \in 1..(count + 1) /\ q \in 0..count /\ p <= q + 1
  /\ \A n \in 1..count : /\ n < p => line(n + 1) < line(count + 2)
                         /\ q < n => line(count + 2) < line(n + 1)

half(f) == (f[1] + f[2]) \div 2

halves(x, f) ==
  /\ x \in 36..48 \cup 53..54 => bounds(f[1], f[2])
  /\ x \in 39..48 \cup 53..54 => f[1] <= f[2]
  /\ x \in {37, 48, 54} => f[4] = f[1] + f[2]
  /\ x \in 38..39 => f[4] = half(f)
  /\ x \in 40..41 => f[4] = 8 * half(f)
  /\ x = 41 => f[5] = ARRAY
  /\ x = 42 => f[5] = ARRAY + 8 * half(f)
  /\ x \in 43..45 => f[10] = line(half(f) + 1)
  /\ x = 44 => f[10] <= line(count + 2)
  /\ x = 45 => present
  /\ x \in 47..48 => bounds(half(f) + 1, f[2])
  /\ x = 49 => bounds(f[5] + 1, f[2])
  /\ x = 50 => bounds(f[1] + 1, f[2])
  /\ x \in 53..54 => bounds(f[1], half(f) - 1)
  /\ x = 55 => bounds(f[1], f[5] - 1)
  /\ x = 56 => bounds(f[1], f[2] - 1)
  /\ x \in {51, 57} => bounds(f[1], f[2])

\* The letters printed so far.
letters == (IF present THEN <<>> ELSE <<110, 111, 116, 32>>) \o <<102, 111, 117, 110, 100>>
printed(o, n) == /\ o \in Seq([k : {"number", "char"}, v : Values]) /\ Len(o) = n
                 /\ \A j \in 1..n : o[j] = [k |-> "char", v |-> letters[j]]

searchAt(x, f, m, i, o) ==
  /\ x \in 1..8 => begins(x, f) /\ (IF x <= 3 THEN i = input ELSE after(i, 1))
  /\ x \in 10..14 => \E e : reads(x, f, m, i, e)
  /\ x \in 15..34 => prepares(x, f, m, i)
  /\ x \in 36..57 => consts(35, f) /\ stored(m, count) /\ count # 0 /\ halves(x, f)
  /\ x \in 59..75 => consts(35, f)
  /\ x < 58 => o = <<>>
  /\ x \in 59..68 => ~present /\ printed(o, x - 59)
  /\ x \in 70..75 => present /\ printed(o, x - 70)

searchGood(k, f, m, i, o) == k \in (1..75) \ labelLines /\ searchAt(k, f, m, i, o)

\* There is no room for the numbers, or no number.
noRoom == count = 0 \/ ~verified(ARRAY + 8 * count, 8)

SearchGoesOn ==
  \/ src'.status = "running" /\ searchGood(src'.at, src'.r, src'.mem, src'.stdin, src'.stdout)
  \/ src'.status = "halted" /\ src'.stdout = answer
  \/ Fails /\ noRoom

SearchHere(k) ==
  /\ isSearch /\ expected(program, input) /\ CODE_BASE + Len(file.code) <= ARRAY /\ At(k)
  /\ src.r \in [0..31 -> Values] /\ src.mem \in [Addresses -> Byte]
  /\ searchGood(k, src.r, src.mem, src.stdin, src.stdout)

\* The input, and what is left of it.
LEMMA SearchInput ==
  ASSUME program = "binary_search", expected(program, input)
  PROVE  /\ input \in Seq(Line) /\ count \in Nat /\ count < WORD /\ Len(input) = count + 2
         /\ \A n \in 1..(count + 2) : input[n].k = "number" /\ input[n].v = line(n) /\ line(n) \in Values
         /\ \A m, n \in 1..count : m <= n => line(m + 1) <= line(n + 1)
         /\ stores \in Nat /\ 1 <= stores /\ stores <= count + 1 /\ (count # 0 => stores = count)
<1>1. /\ input \in Seq(Line) /\ Len(input) = line(1) + 2
      /\ \A n \in DOMAIN input : input[n].k = "number" /\ input[n].v \in Values
      /\ \A m, n \in 2..(Len(input) - 1) : m < n => line(m) <= line(n)
      /\ input # <<>>
  BY DEF expected, line
<1>2. 1 \in DOMAIN input /\ line(1) \in Values
  BY <1>1 DEF line
<1>3. count \in Nat /\ count < WORD /\ Len(input) = count + 2 /\ DOMAIN input = 1..(count + 2)
  BY <1>1, <1>2, Sizes DEF Values, count
<1>4. \A n \in 1..(count + 2) : input[n].k = "number" /\ input[n].v = line(n) /\ line(n) \in Values
  BY <1>1, <1>3 DEF line
<1>5. ASSUME NEW m \in 1..count, NEW n \in 1..count, m <= n PROVE line(m + 1) <= line(n + 1)
  <2>1. /\ m + 1 \in 2..(Len(input) - 1) /\ n + 1 \in 2..(Len(input) - 1)
        /\ m + 1 \in 1..(count + 2)
    BY <1>3
  <2>2. line(m + 1) \in Values
    BY <1>4, <2>1
  <2>3. CASE m = n
    BY <2>2, <2>3 DEF Values
  <2>4. CASE m < n
    BY <1>1, <2>1, <2>4
  <2> QED
    BY <1>5, <2>3, <2>4
<1>6. stores \in Nat /\ 1 <= stores /\ stores <= count + 1 /\ (count # 0 => stores = count)
  BY <1>3 DEF stores
<1> QED
  BY <1>1, <1>3, <1>4, <1>5, <1>6

LEMMA AfterOne ==
  ASSUME input \in Seq(Line), NEW i, NEW j \in Nat, after(i, j)
  PROVE  /\ i = <<>> <=> j = Len(input)
         /\ i # <<>> => Head(i) = input[j + 1] /\ after(Tail(i), j + 1) /\ j + 1 \in 1..Len(input)
<1>1. i \in Seq(Line) /\ Len(i) = Len(input) - j /\ \A n \in 1..Len(i) : i[n] = input[n + j]
  BY DEF after
<1>2. i = <<>> <=> j = Len(input)
  BY <1>1
<1>3. ASSUME i # <<>>
      PROVE  Head(i) = input[j + 1] /\ after(Tail(i), j + 1) /\ j + 1 \in 1..Len(input)
  <2>1. Len(i) >= 1 /\ Len(i) \in Nat /\ Len(input) \in Nat
    BY <1>1, <1>3
  <2>2. Head(i) = input[j + 1] /\ j + 1 \in 1..Len(input)
    BY <1>1, <2>1
  <2>3. /\ Tail(i) \in Seq(Line) /\ Len(Tail(i)) = Len(i) - 1
        /\ \A n \in 1..(Len(i) - 1) : Tail(i)[n] = i[n + 1]
    BY <1>1, <1>3
  <2>4. \A n \in 1..Len(Tail(i)) : Tail(i)[n] = input[n + (j + 1)]
    BY <1>1, <2>1, <2>3
  <2> QED
    BY <1>1, <2>1, <2>2, <2>3, <2>4 DEF after
<1> QED
  BY <1>2, <1>3

\* The lines behind which there is another one.
walks(k) == k \in (1..74) \ labelLines /\ k # 68

LEMMA SearchArrives ==
  ASSUME NEW k, SearchHere(k), NEW x, x = nextLine(k), walks(k),
         NEW f, NEW m, NEW i, NEW o,
         Goes(Source!firstFrom(k + 1), f, m, i, o), searchAt(x, f, m, i, o)
  PROVE  SearchGoesOn
<1>1. Source!firstFrom(k + 1) = x /\ x \in (1..75) \ labelLines
  BY SearchNext DEF SearchHere, walks
<1> QED
  BY <1>1 DEF Goes, SearchGoesOn, searchGood

\* A line that sets a register to a number, or to a label.
LEMMA SearchSets ==
  ASSUME NEW k, SearchHere(k), Source!Next, NEW x, x = nextLine(k), walks(k),
         NEW n, NEW v \in Values, script[k] = set(n, Lit(v)),
         NEW f, f = [src.r EXCEPT ![n] = v], searchAt(x, f, src.mem, src.stdin, src.stdout)
  PROVE  SearchGoesOn
<1>1. (IF Lit(v).k = "lab" THEN Source!addressOf(Lit(v).l) ELSE ull(Lit(v).v)) = v
  BY UllSame DEF Lit
<1>2. At(k)
  BY DEF SearchHere
<1>3. Goes(Source!firstFrom(k + 1), [src.r EXCEPT ![n] = v], src.mem, src.stdin, src.stdout)
  BY <1>1, <1>2, SetLine
<1>4. Goes(Source!firstFrom(k + 1), f, src.mem, src.stdin, src.stdout)
  BY <1>3
<1> QED
  BY <1>4, SearchArrives

LEMMA SearchPoints ==
  ASSUME NEW k, SearchHere(k), Source!Next, NEW x, x = nextLine(k), walks(k),
         NEW n, NEW g \in labelLines, NEW l, l = labelAt(g), script[k] = set(n, Lab(l)),
         NEW p, p = g + 1,
         NEW f, f = [src.r EXCEPT ![n] = Source!startOf(p)],
         searchAt(x, f, src.mem, src.stdin, src.stdout)
  PROVE  SearchGoesOn
<1>1. Source!addressOf(l) = Source!startOf(p)
  BY SearchPlaces DEF SearchHere
<1>2. (IF Lab(l).k = "lab" THEN Source!addressOf(Lab(l).l) ELSE ull(Lab(l).v)) = Source!startOf(p)
  BY <1>1 DEF Lab
<1>3. At(k)
  BY DEF SearchHere
<1>4. Goes(Source!firstFrom(k + 1), [src.r EXCEPT ![n] = Source!startOf(p)], src.mem,
           src.stdin, src.stdout)
  BY <1>2, <1>3, SetLine
<1>5. Goes(Source!firstFrom(k + 1), f, src.mem, src.stdin, src.stdout)
  BY <1>4
<1> QED
  BY <1>5, SearchArrives

\* Small numbers are values.
LEMMA SmallValues == 0..511 \subseteq Values /\ ARRAY \in Values
<1>1. 511 < WORD /\ WORD \in Nat /\ MEM_SIZE \in Nat /\ MEM_SIZE < WORD
  BY Sizes, MachineAssumption
<1> QED
  BY <1>1, ArrayAssumption DEF Values, Addresses

\* What the lines before the first loop leave.
LEMMA SearchBegins ==
  ASSUME NEW f \in [0..31 -> Values], NEW m, NEW i, NEW o
  PROVE  /\ searchAt(1, f, m, i, o) => searchAt(2, [f EXCEPT ![29] = 0], m, i, o)
         /\ searchAt(2, f, m, i, o) => searchAt(3, [f EXCEPT ![30] = 1], m, i, o)
         /\ searchAt(3, f, m, i, o) /\ after(Tail(i), 1) =>
              searchAt(4, [f EXCEPT ![0] = count], m, Tail(i), o)
         /\ searchAt(4, f, m, i, o) => searchAt(5, [f EXCEPT ![1] = 1], m, i, o)
         /\ searchAt(5, f, m, i, o) => searchAt(6, [f EXCEPT ![2] = f[0]], m, i, o)
         /\ searchAt(6, f, m, i, o) => searchAt(7, [f EXCEPT ![4] = 0], m, i, o)
         /\ searchAt(7, f, m, i, o) => searchAt(8, [f EXCEPT ![6] = Source!startOf(10)], m, i, o)
<1>1. searchAt(1, f, m, i, o) => searchAt(2, [f EXCEPT ![29] = 0], m, i, o)
  BY DEF searchAt, begins
<1>2. searchAt(2, f, m, i, o) => searchAt(3, [f EXCEPT ![30] = 1], m, i, o)
  BY DEF searchAt, begins
<1>3. searchAt(3, f, m, i, o) /\ after(Tail(i), 1) =>
        searchAt(4, [f EXCEPT ![0] = count], m, Tail(i), o)
  BY DEF searchAt, begins
<1>4. searchAt(4, f, m, i, o) => searchAt(5, [f EXCEPT ![1] = 1], m, i, o)
  BY DEF searchAt, begins
<1>5. searchAt(5, f, m, i, o) => searchAt(6, [f EXCEPT ![2] = f[0]], m, i, o)
  BY DEF searchAt, begins
<1>6. searchAt(6, f, m, i, o) => searchAt(7, [f EXCEPT ![4] = 0], m, i, o)
  BY DEF searchAt, begins
<1>7. searchAt(7, f, m, i, o) => searchAt(8, [f EXCEPT ![6] = Source!startOf(10)], m, i, o)
  <2>1. PICK v : v = Source!startOf(10)
    OBVIOUS
  <2>2. searchAt(7, f, m, i, o) => searchAt(8, [f EXCEPT ![6] = v], m, i, o)
    BY <2>1 DEF searchAt, begins
  <2> QED
    BY <2>1, <2>2
<1> QED
  BY <1>1, <1>2, <1>3, <1>4, <1>5, <1>6, <1>7

LEMMA SearchLoopEntry ==
  ASSUME program = "binary_search", expected(program, input),
         NEW f \in [0..31 -> Values], NEW m, NEW i, NEW o, searchAt(8, f, m, i, o)
  PROVE  searchAt(10, [f EXCEPT ![7] = ARRAY], m, i, o)
<1>1. /\ f[29] = 0 /\ f[0] = count /\ f[1] = 1 /\ f[2] = count /\ f[4] = 0
      /\ f[6] = Source!startOf(10) /\ after(i, 1) /\ o = <<>>
  BY DEF searchAt, begins
<1> DEFINE g == [f EXCEPT ![7] = ARRAY]
<1>2. PICK v : v = Source!startOf(10)
  OBVIOUS
<1>3. /\ g[29] = 0 /\ g[0] = count /\ g[1] = 1 /\ g[2] = count /\ g[4] = 0
      /\ g[6] = v /\ g[7] = ARRAY
  BY <1>1, <1>2
<1> HIDE DEF g
<1>4. reads(10, g, m, i, 0)
  <2>1. stored(m, 0) /\ 0 \in 0..(stores - 1)
    <3>1. stored(m, 0)
      BY DEF stored
    <3>2. stores \in Nat /\ 1 <= stores
      BY SearchInput
    <3> QED
      BY <3>1, <3>2
  <2>2. ARRAY + 8 * 0 = ARRAY /\ 0 + 1 = 1 /\ 10 \in 10..11 /\ 10 \notin 13..14 /\ 10 \notin 11..12
    BY SmallValues DEF Values
  <2> QED
    BY ONLY <1>1, <1>2, <1>3, <2>1, <2>2 DEF reads
<1> QED
  BY <1>1, <1>4 DEF searchAt, g

\* The lines before the first loop.
LEMMA SearchOpens ==
  ASSUME NEW k, SearchHere(k), Source!Next, k \in 1..8
  PROVE  SearchGoesOn
<1>1. /\ isSearch /\ program = "binary_search" /\ expected(program, input) /\ At(k)
      /\ script[k] = binary_search[k] /\ src.r \in [0..31 -> Values]
      /\ searchAt(k, src.r, src.mem, src.stdin, src.stdout)
  BY SearchKinds DEF SearchHere, searchGood, isSearch
<1>2. /\ nextLine(1) = 2 /\ nextLine(2) = 3 /\ nextLine(3) = 4 /\ nextLine(4) = 5
      /\ nextLine(5) = 6 /\ nextLine(6) = 7 /\ nextLine(7) = 8 /\ nextLine(8) = 10
      /\ walks(k)
  BY DEF nextLine, labelLines, walks
<1>3. CASE k = 1
  <2>1. 2 = nextLine(k) /\ 0 \in Values /\ script[k] = set(29, Lit(0))
    BY <1>1, <1>2, <1>3, SmallValues, SearchLine
  <2>2. PICK f : f = [src.r EXCEPT ![29] = 0]
    OBVIOUS
  <2>3. searchAt(2, f, src.mem, src.stdin, src.stdout)
    BY <1>1, <1>3, SearchBegins, <2>2
  <2> QED
    BY ONLY <1>2, <2>1, <2>2, <2>3, SearchHere(k), Source!Next, SearchSets
<1>4. CASE k = 2
  <2>1. 3 = nextLine(k) /\ 1 \in Values /\ script[k] = set(30, Lit(1))
    BY <1>1, <1>2, <1>4, SmallValues, SearchLine
  <2>2. PICK f : f = [src.r EXCEPT ![30] = 1]
    OBVIOUS
  <2>3. searchAt(3, f, src.mem, src.stdin, src.stdout)
    BY <1>1, <1>4, SearchBegins, <2>2
  <2> QED
    BY ONLY <1>2, <2>1, <2>2, <2>3, SearchHere(k), Source!Next, SearchSets
<1>5. CASE k = 3
  <2>1. 4 = nextLine(k) /\ script[k] = in(0, 29)
    BY <1>1, <1>2, <1>5, SearchLine
  <2>2. src.stdin = input /\ src.r[29] = 0
    BY <1>1, <1>5 DEF searchAt, begins
  <2>3. input \in Seq(Line) /\ Len(input) = count + 2 /\ count \in Nat /\ count < WORD
    BY <1>1, SearchInput
  <2>4. after(input, 0)
    BY <2>3 DEF after
  <2>5. input # <<>> /\ Head(input) = input[1] /\ after(Tail(input), 1)
    <3>1. 0 # Len(input) /\ 0 \in Nat /\ 0 + 1 = 1
      BY <2>3
    <3> QED
      BY <2>3, <2>4, <3>1, AfterOne
  <2>6. Head(input).k = "number" /\ Head(input).v = count
    <3>1. 1 \in 1..(count + 2)
      BY <2>3
    <3> QED
      BY <1>1, <2>5, <3>1, SearchInput DEF count
  <2>7. Goes(Source!firstFrom(k + 1), [src.r EXCEPT ![0] = Head(src.stdin).v], src.mem,
             Tail(src.stdin), src.stdout)
    BY <1>1, <2>1, <2>2, <2>3, <2>5, <2>6, InLine
  <2>8. searchAt(4, [src.r EXCEPT ![0] = count], src.mem, Tail(src.stdin), src.stdout)
    BY <1>1, <1>5, <2>2, <2>5, SearchBegins
  <2> QED
    BY <1>2, <2>1, <2>2, <2>6, <2>7, <2>8, SearchArrives
<1>6. CASE k = 4
  <2>1. 5 = nextLine(k) /\ 1 \in Values /\ script[k] = set(1, Lit(1))
    BY <1>1, <1>2, <1>6, SmallValues, SearchLine
  <2>2. PICK f : f = [src.r EXCEPT ![1] = 1]
    OBVIOUS
  <2>3. searchAt(5, f, src.mem, src.stdin, src.stdout)
    BY <1>1, <1>6, SearchBegins, <2>2
  <2> QED
    BY ONLY <1>2, <2>1, <2>2, <2>3, SearchHere(k), Source!Next, SearchSets
<1>7. CASE k = 5
  <2>1. 6 = nextLine(k) /\ script[k] = mov(2, 0)
    BY <1>1, <1>2, <1>7, SearchLine
  <2>2. Goes(Source!firstFrom(k + 1), [src.r EXCEPT ![2] = src.r[0]], src.mem, src.stdin, src.stdout)
    BY <1>1, <2>1, CopyLine
  <2>3. searchAt(6, [src.r EXCEPT ![2] = src.r[0]], src.mem, src.stdin, src.stdout)
    BY <1>1, <1>7, SearchBegins
  <2> QED
    BY <1>2, <2>1, <2>2, <2>3, SearchArrives
<1>8. CASE k = 6
  <2>1. 7 = nextLine(k) /\ 0 \in Values /\ script[k] = set(4, Lit(0))
    BY <1>1, <1>2, <1>8, SmallValues, SearchLine
  <2>2. PICK f : f = [src.r EXCEPT ![4] = 0]
    OBVIOUS
  <2>3. searchAt(7, f, src.mem, src.stdin, src.stdout)
    BY <1>1, <1>8, SearchBegins, <2>2
  <2> QED
    BY ONLY <1>2, <2>1, <2>2, <2>3, SearchHere(k), Source!Next, SearchSets
<1>9. CASE k = 7
  <2>1. /\ 8 = nextLine(k) /\ script[k] = set(6, Lab(":ReadVal")) /\ 9 \in labelLines
        /\ ":ReadVal" = labelAt(9) /\ 10 = 9 + 1
    BY <1>1, <1>2, <1>9, SearchLine DEF labelLines, labelAt
  <2>2. PICK f : f = [src.r EXCEPT ![6] = Source!startOf(10)]
    <3>1. PICK v : v = Source!startOf(10)
      OBVIOUS
    <3>2. \E f : f = [src.r EXCEPT ![6] = v]
      OBVIOUS
    <3> QED
      BY <3>1, <3>2
  <2>3. searchAt(8, f, src.mem, src.stdin, src.stdout)
    BY <1>1, <1>9, SearchBegins, <2>2
  <2> QED
    BY ONLY <1>2, <2>1, <2>2, <2>3, SearchHere(k), Source!Next, SearchPoints
<1>10. CASE k = 8
  <2>1. 10 = nextLine(k) /\ ARRAY \in Values /\ script[k] = set(7, Lit(ARRAY))
    BY <1>1, <1>2, <1>10, SmallValues, SearchLine
  <2>2. PICK f : f = [src.r EXCEPT ![7] = ARRAY]
    OBVIOUS
  <2>3. searchAt(10, f, src.mem, src.stdin, src.stdout)
    BY <1>1, <1>10, SearchLoopEntry, <2>2
  <2> QED
    BY ONLY <1>2, <2>1, <2>2, <2>3, SearchHere(k), Source!Next, SearchSets
<1> QED
  BY <1>3, <1>4, <1>5, <1>6, <1>7, <1>8, <1>9, <1>10

---------------------------------------------------------------------------
(* The first loop: numbers come into memory *)

\* The place of the number with index n, and which of them are in memory.
LEMMA PlaceInMemory ==
  ASSUME NEW n \in Nat, NEW x, x = ARRAY + 8 * n, verified(x, 8)
  PROVE  /\ x \in Values /\ x + 8 <= MEM_SIZE
         /\ bytesAt(x, 8) = {x + j : j \in 0..7}
<1>1. ARRAY \in Nat /\ MEM_SIZE \in Nat /\ MEM_SIZE < WORD /\ WORD \in Nat
  BY SmallValues, Sizes, MachineAssumption DEF Values
<1>2. ARRAY + 8 * n < MEM_SIZE /\ 8 * n \in Nat
  BY DEF verified, verifyAddress
<1>3. PICK a \in Values : a = ARRAY + 8 * n
  BY <1>1, <1>2 DEF Values
<1>4. 8 \in 1..8 /\ verified(a, 8) /\ 0..(8 - 1) = 0..7
  BY <1>3
<1>5. a + 8 - 1 < MEM_SIZE /\ \A j \in 0..7 : ull(a + j) = a + j
  BY <1>4, InMemory
<1>6. bytesAt(a, 8) = {a + j : j \in 0..7}
  BY <1>4, <1>5 DEF bytesAt
<1>7. a + 8 <= MEM_SIZE
  BY <1>1, <1>5 DEF Values
<1> QED
  BY <1>3, <1>6, <1>7

LEMMA PlaceFits ==
  ASSUME NEW n \in Nat, ARRAY + 8 * n + 8 <= MEM_SIZE
  PROVE  verified(ARRAY + 8 * n, 8)
<1>1. ARRAY \in Nat /\ MEM_SIZE \in Nat /\ MEM_SIZE < WORD /\ WORD \in Nat
  BY SmallValues, Sizes, MachineAssumption DEF Values
<1>2. PICK a \in Values : a = ARRAY + 8 * n
  BY <1>1 DEF Values
<1>3. a + 8 - 1 \in Values /\ a + 8 - 1 < MEM_SIZE /\ a < MEM_SIZE
  BY <1>1, <1>2 DEF Values
<1>4. ull(a + 8 - 1) = a + 8 - 1
  BY <1>3, UllSame
<1> QED
  BY <1>2, <1>3, <1>4 DEF verified, verifyAddress

\* A place is not below one that is in memory with all before it.
LEMMA NextInRange ==
  ASSUME NEW n \in Nat, NEW m, stored(m, n)
  PROVE  /\ ARRAY + 8 * n \in Values /\ ARRAY + 8 * (n + 1) \in Values
         /\ ull((ARRAY + 8 * n) + 8) = ARRAY + 8 * (n + 1)
         /\ 2 * n + 1 \in Values /\ n + 1 \in Values
<1>1. /\ ARRAY \in Nat /\ MEM_SIZE \in Nat /\ MEM_SIZE + 8 < WORD /\ WORD \in Nat
      /\ ARRAY < MEM_SIZE
  BY ArrayAssumption, Sizes, MachineAssumption DEF Addresses
<1>2. ARRAY + 8 * n < MEM_SIZE
  <2>1. CASE n = 0
    BY <1>1, <2>1
  <2>2. CASE n # 0
    <3>1. n \in 1..n
      BY <2>2
    <3>2. verified(ARRAY + 8 * n, 8)
      BY <3>1 DEF stored
    <3>3. ARRAY + 8 * n + 8 <= MEM_SIZE
      BY <3>2, PlaceInMemory
    <3> QED
      BY <1>1, <3>3
  <2> QED
    BY <2>1, <2>2
<1>3. /\ ARRAY + 8 * n \in Values /\ ARRAY + 8 * (n + 1) \in Values
      /\ (ARRAY + 8 * n) + 8 = ARRAY + 8 * (n + 1) /\ 2 * n + 1 \in Values /\ n + 1 \in Values
  BY <1>1, <1>2 DEF Values
<1> QED
  BY <1>3, UllSame

\* One more number is stored.
LEMMA StoreOne ==
  ASSUME NEW m \in [Addresses -> Byte], NEW e \in Nat, stored(m, e), NEW v \in Values,
         v = line(e + 2), verified(ARRAY + 8 * (e + 1), 8)
  PROVE  stored(loadMem(m, ARRAY + 8 * (e + 1), v), e + 1)
<1>1. PICK x : x = ARRAY + 8 * (e + 1)
  OBVIOUS
<1>2. e + 1 \in Nat /\ (e + 1) + 1 = e + 2 /\ ARRAY \in Nat
  BY SmallValues DEF Values
<1>3. x \in Values /\ verified(x, 8) /\ bytesAt(x, 8) = {x + j : j \in 0..7}
  <2>1. verified(x, 8)
    BY <1>1
  <2>2. PICK n \in Nat : n = e + 1
    BY <1>2
  <2>3. x = ARRAY + 8 * n
    BY <1>1, <2>2
  <2> QED
    BY ONLY <2>1, <2>3, PlaceInMemory
<1> DEFINE w == loadMem(m, x, v)
<1>4. readMem(w, x) = v
  BY <1>3, ReadBack
<1>5. ASSUME NEW n \in 1..e PROVE readMem(w, ARRAY + 8 * n) = line(n + 1)
  <2>1. PICK a : a = ARRAY + 8 * n
    OBVIOUS
  <2>2. verified(a, 8) /\ readMem(m, a) = line(n + 1) /\ n \in Nat
    BY <2>1 DEF stored
  <2>3. a \in Values /\ bytesAt(a, 8) = {a + j : j \in 0..7}
    BY <2>1, <2>2, PlaceInMemory
  <2>4. a + 8 <= x /\ a \in Nat /\ x \in Nat
    BY <1>1, <1>2, <2>1
  <2>5. bytesAt(a, 8) \cap bytesAt(x, 8) = {}
    BY <1>3, <2>3, <2>4
  <2>6. readMem(w, a) = readMem(m, a)
    BY <1>3, <2>2, <2>3, <2>5, ReadApart
  <2> QED
    BY <2>1, <2>2, <2>6
<1> HIDE DEF w
<1>6. stored(w, e + 1)
  <2> SUFFICES ASSUME NEW n \in 1..(e + 1)
               PROVE  verified(ARRAY + 8 * n, 8) /\ readMem(w, ARRAY + 8 * n) = line(n + 1)
    BY DEF stored
  <2>1. CASE n = e + 1
    BY <1>1, <1>2, <1>3, <1>4, <2>1
  <2>2. CASE n \in 1..e
    BY <1>5, <2>2 DEF stored
  <2> QED
    BY <2>1, <2>2
<1> QED
  BY <1>1, <1>6 DEF w

\* What the lines of the first loop do.
LEMMA ReadsIn ==
  ASSUME program = "binary_search", expected(program, input), NEW f \in [0..31 -> Values],
         NEW m, NEW i, NEW e, reads(10, f, m, i, e)
  PROVE  /\ i # <<>> /\ Head(i).k = "number" /\ Head(i).v = line(e + 2) /\ Head(i).v < WORD
         /\ reads(11, [f EXCEPT ![5] = Head(i).v], m, Tail(i), e)
<1>1. /\ input \in Seq(Line) /\ Len(input) = count + 2 /\ count \in Nat /\ stores \in Nat
      /\ 1 <= stores /\ stores <= count + 1
  BY SearchInput
<1>2. e \in Nat /\ e + 1 \in Nat /\ e + 1 # Len(input) /\ (e + 1) + 1 = e + 2 /\ after(i, e + 1)
  <2>1. e \in 0..(stores - 1) /\ after(i, e + 1)
    BY DEF reads
  <2>2. stores \in Nat /\ count \in Nat /\ stores <= count + 1 /\ Len(input) = count + 2
    BY <1>1
  <2>3. e \in Nat /\ e + 1 \in Nat /\ e + 1 # count + 2 /\ (e + 1) + 1 = e + 2
    <3>1. e \in 0..(stores - 1)
      BY <2>1
    <3>2. e \in Nat /\ e <= stores - 1
      BY ONLY <2>2, <3>1
    <3>3. e + 1 # count + 2
      BY ONLY <2>2, <3>2
    <3>4. e + 1 \in Nat
      BY ONLY <2>2, <3>2
    <3>5. (e + 1) + 1 = e + 2
      BY ONLY <2>2, <3>2
    <3> QED
      BY ONLY <3>2, <3>3, <3>4, <3>5
  <2> QED
    BY ONLY <2>1, <2>2, <2>3
<1>3. i # <<>> /\ Head(i) = input[e + 2] /\ after(Tail(i), e + 2) /\ e + 2 \in 1..Len(input)
  <2>1. PICK j \in Nat : j = e + 1
    BY <1>2
  <2>2. after(i, j) /\ j # Len(input) /\ j + 1 = e + 2
    BY <1>2, <2>1
  <2> QED
    BY <1>1, <2>2, AfterOne
<1>4. Head(i).k = "number" /\ Head(i).v = line(e + 2) /\ line(e + 2) \in Values
  BY <1>1, <1>3, SearchInput
<1>5. PICK v : v = Head(i).v
  OBVIOUS
<1>6. reads(11, [f EXCEPT ![5] = v], m, Tail(i), e)
  BY <1>3, <1>4, <1>5 DEF reads
<1>7. Head(i).v < WORD
  BY <1>4, Sizes DEF Values
<1> QED
  BY <1>3, <1>4, <1>5, <1>6, <1>7

LEMMA ReadsOn ==
  ASSUME program = "binary_search", expected(program, input), NEW f \in [0..31 -> Values],
         NEW m \in [Addresses -> Byte], NEW i, NEW e
  PROVE  /\ reads(11, f, m, i, e) => reads(12, [f EXCEPT ![4] = ull(f[4] + 1)], m, i, e)
         /\ reads(12, f, m, i, e) =>
              /\ ull(f[7] + 8) = ARRAY + 8 * (e + 1)
              /\ ARRAY + 8 * (e + 1) \in Values
              /\ verified(ARRAY + 8 * (e + 1), 8) =>
                   reads(13, f, loadMem(m, ARRAY + 8 * (e + 1), f[5]), i, e)
              /\ ~verified(ARRAY + 8 * (e + 1), 8) => noRoom
         /\ reads(13, f, m, i, e) => reads(14, [f EXCEPT ![7] = ull(f[7] + 8)], m, i, e)
         /\ reads(14, f, m, i, e) /\ f[0] > f[4] => reads(10, f, m, i, e + 1)
         /\ reads(14, f, m, i, e) /\ ~(f[0] > f[4]) => prepares(15, f, m, i)
<1>1. /\ count \in Nat /\ stores \in Nat /\ 1 <= stores /\ stores <= count + 1
      /\ (count # 0 => stores = count) /\ (count = 0 => stores = 1)
  BY SearchInput DEF stores
<1>2. ASSUME reads(11, f, m, i, e) PROVE reads(12, [f EXCEPT ![4] = ull(f[4] + 1)], m, i, e)
  <2>1. e \in Nat /\ stored(m, e) /\ f[4] = e
    BY <1>1, <1>2 DEF reads
  <2>2. ull(f[4] + 1) = e + 1
    BY <2>1, NextInRange, UllSame
  <2>3. PICK v : v = ull(f[4] + 1)
    OBVIOUS
  <2>4. reads(12, [f EXCEPT ![4] = v], m, i, e)
    BY <1>2, <2>2, <2>3 DEF reads
  <2> QED
    BY <2>3, <2>4
<1>3. ASSUME reads(12, f, m, i, e)
      PROVE  /\ ull(f[7] + 8) = ARRAY + 8 * (e + 1)
             /\ ARRAY + 8 * (e + 1) \in Values
             /\ verified(ARRAY + 8 * (e + 1), 8) =>
                  reads(13, f, loadMem(m, ARRAY + 8 * (e + 1), f[5]), i, e)
             /\ ~verified(ARRAY + 8 * (e + 1), 8) => noRoom
  <2>1. /\ e \in Nat /\ e <= stores - 1 /\ stored(m, e) /\ f[7] = ARRAY + 8 * e
        /\ f[5] = line(e + 2) /\ f[5] \in Values
    BY <1>1, <1>3 DEF reads
  <2>2. ull(f[7] + 8) = ARRAY + 8 * (e + 1) /\ ARRAY + 8 * (e + 1) \in Values
    BY <2>1, NextInRange
  <2>3. ASSUME verified(ARRAY + 8 * (e + 1), 8)
        PROVE  reads(13, f, loadMem(m, ARRAY + 8 * (e + 1), f[5]), i, e)
    <3>1. PICK w : w = loadMem(m, ARRAY + 8 * (e + 1), f[5])
      OBVIOUS
    <3>2. stored(w, e + 1)
      BY <2>1, <2>3, <3>1, StoreOne
    <3>3. reads(13, f, w, i, e)
      BY <1>3, <3>2 DEF reads
    <3> QED
      BY <3>1, <3>3
  <2>4. ASSUME ~verified(ARRAY + 8 * (e + 1), 8), ~noRoom PROVE FALSE
    <3>1. count # 0 /\ verified(ARRAY + 8 * count, 8) /\ e + 1 <= count /\ e + 1 \in Nat
      BY <1>1, <2>1, <2>4 DEF noRoom
    <3>2. ARRAY + 8 * count + 8 <= MEM_SIZE
      BY <1>1, <3>1, PlaceInMemory
    <3>3. ARRAY + 8 * (e + 1) + 8 <= MEM_SIZE
      BY <1>1, <2>1, <3>1, <3>2, SmallValues, Sizes DEF Values
    <3> QED
      BY <2>4, <3>1, <3>3, PlaceFits
  <2> QED
    BY <2>2, <2>3, <2>4
<1>4. ASSUME reads(13, f, m, i, e) PROVE reads(14, [f EXCEPT ![7] = ull(f[7] + 8)], m, i, e)
  <2>1. e \in Nat /\ stored(m, e + 1) /\ f[7] = ARRAY + 8 * e
    BY <1>1, <1>4 DEF reads
  <2>2. stored(m, e)
    BY <2>1 DEF stored
  <2>3. ull(f[7] + 8) = ARRAY + 8 * (e + 1)
    BY <2>1, <2>2, NextInRange
  <2>4. PICK v : v = ull(f[7] + 8)
    OBVIOUS
  <2>5. reads(14, [f EXCEPT ![7] = v], m, i, e)
    BY <1>4, <2>3, <2>4 DEF reads
  <2> QED
    BY <2>4, <2>5
<1>5. ASSUME reads(14, f, m, i, e)
      PROVE  /\ e \in Nat /\ e <= stores - 1 /\ stored(m, e + 1) /\ f[0] = count /\ f[1] = 1
             /\ f[2] = count /\ f[29] = 0 /\ f[6] = Source!startOf(10) /\ f[4] = e + 1
             /\ f[7] = ARRAY + 8 * (e + 1) /\ after(i, e + 2)
  BY <1>1, <1>5 DEF reads
<1>6. ASSUME reads(14, f, m, i, e), f[0] > f[4] PROVE reads(10, f, m, i, e + 1)
  <2>1. /\ e + 1 \in 0..(stores - 1) /\ (e + 1) + 1 = e + 2
        /\ 10 \notin 13..14 /\ 10 \in 10..11 /\ 10 # 14 /\ 10 \notin 11..12
    BY <1>1, <1>5, <1>6
  <2> QED
    BY ONLY <1>5, <1>6, <2>1 DEF reads
<1>7. ASSUME reads(14, f, m, i, e), ~(f[0] > f[4]) PROVE prepares(15, f, m, i)
  <2>1. e + 1 = stores /\ e + 2 = stores + 1
    BY <1>1, <1>5, <1>7
  <2>2. consts(15, f)
    BY DEF consts
  <2> QED
    BY <1>5, <1>7, <2>1, <2>2 DEF prepares
<1> QED
  BY <1>2, <1>3, <1>4, <1>6, <1>7

\* At the lines of the first loop.
inReading(x, f, m, i, o) == o = <<>> /\ \E e : reads(x, f, m, i, e)

LEMMA SearchAtReads ==
  ASSUME NEW x \in 10..14, NEW f, NEW m, NEW i, NEW o
  PROVE  searchAt(x, f, m, i, o) <=> inReading(x, f, m, i, o)
<1> DEFINE holds(y) == searchAt(y, f, m, i, o) <=> inReading(y, f, m, i, o)
<1>1. holds(10)
  BY DEF searchAt, inReading
<1>2. holds(11)
  BY DEF searchAt, inReading
<1>3. holds(12)
  BY DEF searchAt, inReading
<1>4. holds(13)
  BY DEF searchAt, inReading
<1>5. holds(14)
  BY DEF searchAt, inReading
<1> HIDE DEF holds
<1>6. holds(x)
  BY <1>1, <1>2, <1>3, <1>4, <1>5
<1> QED
  BY <1>6 DEF holds

\* A line of the first loop.
LEMMA SearchReads ==
  ASSUME NEW k, SearchHere(k), Source!Next, k \in 10..14
  PROVE  SearchGoesOn
<1>1. /\ isSearch /\ program = "binary_search" /\ expected(program, input) /\ At(k)
      /\ script[k] = binary_search[k] /\ src.r \in [0..31 -> Values]
      /\ src.mem \in [Addresses -> Byte] /\ Assembled /\ CODE_BASE + Len(file.code) <= ARRAY
      /\ searchAt(k, src.r, src.mem, src.stdin, src.stdout)
  BY SearchKinds DEF SearchHere, searchGood, isSearch
<1>2. PICK f \in [0..31 -> Values] : f = src.r
  BY <1>1
<1>3. PICK m, i, o : m \in [Addresses -> Byte] /\ m = src.mem /\ i = src.stdin /\ o = src.stdout
  BY <1>1
<1>4. o = <<>> /\ \E e : reads(k, f, m, i, e)
  <2>1. searchAt(k, f, m, i, o)
    BY <1>1, <1>2, <1>3
  <2>2. inReading(k, f, m, i, o)
    BY <2>1, SearchAtReads
  <2> QED
    BY <2>2 DEF inReading
<1>5. PICK e : reads(k, f, m, i, e)
  BY <1>4
<1>6. f[29] = 0 /\ f[6] = Source!startOf(10)
  BY <1>5 DEF reads
<1>7. /\ nextLine(10) = 11 /\ nextLine(11) = 12 /\ nextLine(12) = 13 /\ nextLine(13) = 14
      /\ nextLine(14) = 15 /\ walks(k)
  BY DEF nextLine, labelLines, walks
<1>8. CASE k = 10
  <2>1. script[k] = in(5, 29)
    BY <1>1, <1>8, SearchLine
  <2>2. /\ i # <<>> /\ Head(i).k = "number" /\ Head(i).v < WORD
        /\ reads(11, [f EXCEPT ![5] = Head(i).v], m, Tail(i), e)
    <3>1. program = "binary_search" /\ expected(program, input) /\ reads(10, f, m, i, e)
      BY <1>1, <1>5, <1>8
    <3> QED
      BY ONLY <3>1, f \in [0..31 -> Values], ReadsIn
  <2>3. PICK g : g = [f EXCEPT ![5] = Head(i).v]
    OBVIOUS
  <2>4. Goes(Source!firstFrom(k + 1), [src.r EXCEPT ![5] = Head(i).v], src.mem,
             Tail(src.stdin), src.stdout)
    BY <1>1, <1>2, <1>3, <1>6, <2>1, <2>2, InLine
  <2>5. PICK j : j = Tail(i)
    OBVIOUS
  <2>6. Goes(Source!firstFrom(k + 1), g, m, j, o)
    BY <1>2, <1>3, <2>3, <2>4, <2>5
  <2>7. reads(11, g, m, j, e)
    BY <2>2, <2>3, <2>5
  <2>8. searchAt(11, g, m, j, o) /\ 11 = nextLine(k)
    BY <1>4, <1>7, <1>8, <2>7 DEF searchAt
  <2> QED
    BY ONLY SearchHere(k), <1>7, <2>6, <2>8, SearchArrives
<1>9. CASE k = 11
  <2>1. script[k] = imm12("addi", 4, 1)
    BY <1>1, <1>9, SearchLine
  <2>2. PICK g : g = [f EXCEPT ![4] = ull(f[4] + 1)]
    OBVIOUS
  <2>3. Goes(Source!firstFrom(k + 1), [src.r EXCEPT ![4] = ull(src.r[4] + 1)], src.mem, src.stdin,
             src.stdout)
    BY <1>1, <2>1, ImmLine
  <2>4. Goes(Source!firstFrom(k + 1), g, m, i, o)
    BY <1>2, <1>3, <2>2, <2>3
  <2>5. reads(12, g, m, i, e)
    <3>1. program = "binary_search" /\ expected(program, input) /\ reads(11, f, m, i, e)
      BY <1>1, <1>5, <1>9
    <3>2. reads(12, [f EXCEPT ![4] = ull(f[4] + 1)], m, i, e)
      BY ONLY <3>1, f \in [0..31 -> Values], <1>3, ReadsOn
    <3> QED
      BY <2>2, <3>2
  <2>6. searchAt(12, g, m, i, o) /\ 12 = nextLine(k)
    BY <1>4, <1>7, <1>9, <2>5 DEF searchAt
  <2> QED
    BY ONLY SearchHere(k), <1>7, <2>4, <2>6, SearchArrives
<1>10. CASE k = 12
  <2>1. script[k] = Do("mov", <<Mem(7, 8), Reg(5)>>)
    BY <1>1, <1>10, SearchLine
  <2>2. /\ ull(f[7] + 8) = ARRAY + 8 * (e + 1) /\ ARRAY + 8 * (e + 1) \in Values
        /\ verified(ARRAY + 8 * (e + 1), 8) =>
             reads(13, f, loadMem(m, ARRAY + 8 * (e + 1), f[5]), i, e)
        /\ ~verified(ARRAY + 8 * (e + 1), 8) => noRoom
    <3>1. program = "binary_search" /\ expected(program, input) /\ reads(12, f, m, i, e)
      BY <1>1, <1>5, <1>10
    <3> QED
      BY ONLY <3>1, f \in [0..31 -> Values], <1>3, ReadsOn
  <2>3. PICK x \in Values : x = ARRAY + 8 * (e + 1)
    BY <2>2
  <2>4. e \in Nat
    <3>1. e \in 0..(stores - 1) /\ stores \in Nat
      BY <1>1, <1>5, SearchInput DEF reads
    <3> QED
      BY <3>1
  <2>5. ARRAY <= x
    BY <2>3, <2>4, SmallValues DEF Values
  <2>6. verified(x, 8) => bytesAt(x, 8) \cap Source!code = {}
    BY <1>1, <2>5, ArrayApart
  <2>7. x = ull(src.r[7] + 8)
    BY <1>2, <2>2, <2>3
  <2>8. \/ ~verified(x, 8) /\ Fails
        \/ verified(x, 8) /\ Goes(Source!firstFrom(k + 1), src.r, loadMem(src.mem, x, src.r[5]),
                                  src.stdin, src.stdout)
    BY <1>1, <2>1, <2>6, <2>7, PutLine
  <2>9. CASE ~verified(x, 8) /\ Fails
    BY <2>2, <2>3, <2>9 DEF SearchGoesOn
  <2>10. CASE verified(x, 8) /\ Goes(Source!firstFrom(k + 1), src.r,
                                     loadMem(src.mem, x, src.r[5]),
                                  src.stdin, src.stdout)
    <3>1. PICK w : w = loadMem(m, x, f[5])
      OBVIOUS
    <3>2. Goes(Source!firstFrom(k + 1), f, w, i, o)
      BY <1>2, <1>3, <2>10, <3>1
    <3>3. reads(13, f, w, i, e)
      BY <2>2, <2>3, <2>10, <3>1
    <3>4. searchAt(13, f, w, i, o) /\ 13 = nextLine(k)
      BY <1>4, <1>7, <1>10, <3>3 DEF searchAt
    <3> QED
      BY ONLY SearchHere(k), <1>7, <3>2, <3>4, SearchArrives
  <2> QED
    BY <2>8, <2>9, <2>10
<1>11. CASE k = 13
  <2>1. script[k] = imm12("addi", 7, 8)
    BY <1>1, <1>11, SearchLine
  <2>2. PICK g : g = [f EXCEPT ![7] = ull(f[7] + 8)]
    OBVIOUS
  <2>3. Goes(Source!firstFrom(k + 1), [src.r EXCEPT ![7] = ull(src.r[7] + 8)], src.mem, src.stdin,
             src.stdout)
    BY <1>1, <2>1, ImmLine
  <2>4. Goes(Source!firstFrom(k + 1), g, m, i, o)
    BY <1>2, <1>3, <2>2, <2>3
  <2>5. reads(14, g, m, i, e)
    <3>1. program = "binary_search" /\ expected(program, input) /\ reads(13, f, m, i, e)
      BY <1>1, <1>5, <1>11
    <3>2. reads(14, [f EXCEPT ![7] = ull(f[7] + 8)], m, i, e)
      BY ONLY <3>1, f \in [0..31 -> Values], <1>3, ReadsOn
    <3> QED
      BY <2>2, <3>2
  <2>6. searchAt(14, g, m, i, o) /\ 14 = nextLine(k)
    BY <1>4, <1>7, <1>11, <2>5 DEF searchAt
  <2> QED
    BY ONLY SearchHere(k), <1>7, <2>4, <2>6, SearchArrives
<1>12. CASE k = 14
  <2>1. script[k] = op("brgt", 6, 0, 4)
    BY <1>1, <1>12, SearchLine
  <2>2. /\ 10 \in Source!places /\ 10 \in (1..75) \ labelLines /\ Source!startOf(10) < MEM_SIZE
    <3>1. 9 \in labelLines /\ 9 + 1 = 10
      BY DEF labelLines
    <3> QED
      BY <1>1, <3>1, SearchPlaces
  <2>3. IF f[0] > f[4] THEN Goes(10, f, m, i, o) ELSE Goes(Source!firstFrom(k + 1), f, m, i, o)
    BY <1>1, <1>2, <1>3, <1>6, <2>1, <2>2, BrgtLine
  <2>4. CASE f[0] > f[4]
    <3>1. reads(10, f, m, i, e + 1)
      <4>1. program = "binary_search" /\ expected(program, input) /\ reads(14, f, m, i, e)
        BY <1>1, <1>5, <1>12
      <4> QED
        BY ONLY <4>1, f \in [0..31 -> Values], <1>3, <2>4, ReadsOn, Zenon
    <3>2. searchAt(10, f, m, i, o)
      BY <1>4, <3>1 DEF searchAt
    <3> QED
      BY <2>2, <2>3, <2>4, <3>2 DEF SearchGoesOn, searchGood, Goes
  <2>5. CASE ~(f[0] > f[4])
    <3>1. Goes(Source!firstFrom(k + 1), f, m, i, o)
      BY <2>3, <2>5
    <3>2. prepares(15, f, m, i)
      <4>1. program = "binary_search" /\ expected(program, input) /\ reads(14, f, m, i, e)
        BY <1>1, <1>5, <1>12
      <4> QED
        BY ONLY <4>1, f \in [0..31 -> Values], <1>3, <2>5, ReadsOn
    <3>3. searchAt(15, f, m, i, o) /\ 15 = nextLine(k)
      BY <1>4, <1>7, <1>12, <3>2 DEF searchAt
    <3> QED
      BY ONLY SearchHere(k), <1>7, <3>1, <3>3, SearchArrives
  <2> QED
    BY <2>4, <2>5
<1> QED
  BY <1>8, <1>9, <1>10, <1>11, <1>12

---------------------------------------------------------------------------
(* The constants of the search *)

LEMMA ConstRegs ==
  \A j \in 15..34 : /\ constReg(j) \in (0..31) \ {0, 1, 2, 4, 5, 10, 29}
                    /\ \A n \in 15..34 : constReg(j) = constReg(n) => j = n
<1>1. \A j \in 15..34 : constReg(j) \in (0..31) \ {0, 1, 2, 4, 5, 10, 29}
  BY DEF constReg
<1>2. \A j, n \in 15..34 : constReg(j) = constReg(n) => j = n
  BY DEF constReg
<1> QED
  BY <1>1, <1>2

withConst(x, f) == [f EXCEPT ![constReg(x)] = constVal(x)]

LEMMA ConstsGrow ==
  ASSUME NEW x \in 15..34, NEW f \in [0..31 -> Values], consts(x, f), NEW g, g = withConst(x, f)
  PROVE  consts(x + 1, g) /\ g[1] = f[1] /\ g[2] = f[2] /\ g[29] = f[29]
<1>1. PICK n \in 0..31 : n = constReg(x)
  BY ConstRegs
<1>2. PICK v : v = constVal(x)
  OBVIOUS
<1>3. \A j \in 0..31 : g[j] = IF j = n THEN v ELSE f[j]
  BY <1>1, <1>2 DEF withConst
<1>4. ASSUME NEW j \in 15..34, j < x + 1 PROVE g[constReg(j)] = constVal(j)
  <2>1. constReg(j) \in 0..31
    BY ConstRegs
  <2>2. CASE j = x
    BY <1>1, <1>2, <1>3, <2>1, <2>2
  <2>3. CASE j < x
    <3>1. constReg(j) # n
      BY <1>1, <2>3, ConstRegs
    <3>2. f[constReg(j)] = constVal(j)
      BY <2>3 DEF consts
    <3> QED
      BY <1>3, <2>1, <3>1, <3>2
  <2> QED
    BY <1>4, <2>2, <2>3
<1>5. n \notin {1, 2, 29}
  BY <1>1, ConstRegs
<1> QED
  BY <1>3, <1>4, <1>5 DEF consts

LEMMA PreparesOn ==
  ASSUME program = "binary_search", expected(program, input),
         NEW x \in 15..34, x # 20, NEW f \in [0..31 -> Values], NEW m, NEW i, prepares(x, f, m, i),
         NEW g, g = withConst(x, f)
  PROVE  prepares(x + 1, g, m, i)
<1>1. /\ consts(x, f) /\ f[1] = 1 /\ f[2] = count /\ f[29] = 0 /\ stored(m, stores)
      /\ x <= 20 => after(i, stores + 1)
      /\ x > 20 => count # 0
  BY DEF prepares
<1>2. consts(x + 1, g) /\ g[1] = 1 /\ g[2] = count /\ g[29] = 0
  <2>1. consts(x, f)
    BY <1>1
  <2>2. consts(x + 1, g) /\ g[1] = f[1] /\ g[2] = f[2] /\ g[29] = f[29]
    BY ONLY <2>1, x \in 15..34, f \in [0..31 -> Values],
            g = withConst(x, f), ConstsGrow
  <2> QED
    BY <1>1, <2>2
<1>3. (x + 1 <= 20 => x <= 20) /\ (x + 1 > 20 => x > 20)
  OBVIOUS
<1> QED
  BY <1>1, <1>2, <1>3 DEF prepares

\* The search starts with all of the numbers.
LEMMA AllBounds ==
  ASSUME program = "binary_search", expected(program, input), NEW f, NEW m, NEW i,
         NEW x \in 35..36, prepares(x, f, m, i), NEW o, o = <<>>
  PROVE  searchAt(36, f, m, i, o)
<1>1. consts(x, f) /\ f[1] = 1 /\ f[2] = count /\ stored(m, stores) /\ count # 0
  BY DEF prepares
<1>2. count \in Nat /\ stores = count
  BY <1>1, SearchInput
<1>3. consts(35, f)
  <2>1. \A j \in 15..34 : j < x
    OBVIOUS
  <2>2. \A j \in 15..34 : f[constReg(j)] = constVal(j)
    BY <1>1, <2>1, Zenon DEF consts
  <2> QED
    BY <2>2 DEF consts
<1>4. bounds(1, count)
  <2>1. 1 \in 1..(count + 1) /\ count \in 0..count /\ 1 <= count + 1
    BY <1>2
  <2>2. \A n \in 1..count : ~(n < 1) /\ ~(count < n)
    BY <1>2
  <2> QED
    BY ONLY <2>1, <2>2 DEF bounds
<1>5. halves(36, f)
  <2>1. bounds(f[1], f[2])
    BY <1>1, <1>4
  <2> QED
    BY ONLY <2>1 DEF halves
<1> QED
  BY <1>1, <1>2, <1>3, <1>5 DEF searchAt

\* At the lines that set them.
inPreparing(x, f, m, i, o) == o = <<>> /\ prepares(x, f, m, i)

LEMMA SearchAtPrepares ==
  ASSUME NEW x \in 15..34, NEW f, NEW m, NEW i, NEW o
  PROVE  searchAt(x, f, m, i, o) <=> inPreparing(x, f, m, i, o)
<1>1. /\ x \notin 1..8 /\ x \notin 10..14 /\ x \notin 36..57 /\ x \notin 59..75 /\ x < 58
      /\ x \notin 59..68 /\ x \notin 70..75
  OBVIOUS
<1> QED
  BY <1>1 DEF searchAt, inPreparing

\* What these lines are.
LEMMA ConstLines ==
  ASSUME isSearch, NEW x \in 15..34, x # 20
  PROVE  \/ constVal(x) \in Values /\ binary_search[x] = set(constReg(x), Lit(constVal(x)))
         \/ \E g \in labelLines : /\ binary_search[x] = set(constReg(x), Lab(labelAt(g)))
                                  /\ constVal(x) = Source!startOf(g + 1)
<1>1. ASSUME x \in {16, 17, 18, 23, 24}
      PROVE  \E g \in labelLines : /\ binary_search[x] = set(constReg(x), Lab(labelAt(g)))
                                   /\ constVal(x) = Source!startOf(g + 1)
  <2>1. CASE x = 16
    <3>1. 35 \in labelLines /\ 35 + 1 = 36 /\ labelAt(35) = ":Modp" /\ constReg(16) = 6
      BY DEF labelLines, labelAt, constReg
    <3>2. constVal(16) = Source!startOf(36)
      BY DEF constVal
    <3> QED
      BY <2>1, <3>1, <3>2, SearchLine
  <2>2. CASE x = 17
    <3>1. 46 \in labelLines /\ 46 + 1 = 47 /\ labelAt(46) = ":RightHalf" /\ constReg(17) = 7
      BY DEF labelLines, labelAt, constReg
    <3>2. constVal(17) = Source!startOf(47)
      BY DEF constVal
    <3> QED
      BY <2>2, <3>1, <3>2, SearchLine
  <2>3. CASE x = 18
    <3>1. 52 \in labelLines /\ 52 + 1 = 53 /\ labelAt(52) = ":LeftHalf" /\ constReg(18) = 8
      BY DEF labelLines, labelAt, constReg
    <3>2. constVal(18) = Source!startOf(53)
      BY DEF constVal
    <3> QED
      BY <2>3, <3>1, <3>2, SearchLine
  <2>4. CASE x = 23
    <3>1. 58 \in labelLines /\ 58 + 1 = 59 /\ labelAt(58) = ":Nf" /\ constReg(23) = 16
      BY DEF labelLines, labelAt, constReg
    <3>2. constVal(23) = Source!startOf(59)
      BY DEF constVal
    <3> QED
      BY <2>4, <3>1, <3>2, SearchLine
  <2>5. CASE x = 24
    <3>1. 69 \in labelLines /\ 69 + 1 = 70 /\ labelAt(69) = ":F" /\ constReg(24) = 17
      BY DEF labelLines, labelAt, constReg
    <3>2. constVal(24) = Source!startOf(70)
      BY DEF constVal
    <3> QED
      BY <2>5, <3>1, <3>2, SearchLine
  <2> QED
    BY <1>1, <2>1, <2>2, <2>3, <2>4, <2>5
<1>2. ASSUME x \notin {16, 17, 18, 23, 24}
      PROVE  /\ constVal(x) \in 0..511
             /\ binary_search[x] = set(constReg(x), Lit(constVal(x)))
  <2>1. /\ constVal(15) = 2 /\ constVal(19) = 8 /\ constVal(21) = 69 /\ constVal(22) = 68
        /\ constVal(25) = 404 /\ constVal(26) = 400 /\ constVal(27) = 110 /\ constVal(28) = 111
        /\ constVal(29) = 116 /\ constVal(30) = 102 /\ constVal(31) = 117 /\ constVal(32) = 100
        /\ constVal(33) = 32 /\ constVal(34) = 3
    BY DEF constVal
  <2>2. /\ constReg(15) = 3 /\ constReg(19) = 9 /\ constReg(21) = 14 /\ constReg(22) = 13
        /\ constReg(25) = 18 /\ constReg(26) = 19 /\ constReg(27) = 20 /\ constReg(28) = 21
        /\ constReg(29) = 22 /\ constReg(30) = 23 /\ constReg(31) = 24 /\ constReg(32) = 25
        /\ constReg(33) = 26 /\ constReg(34) = 27
    BY DEF constReg
  <2>3. x \in {15, 19, 21, 22, 25, 26, 27, 28, 29, 30, 31, 32, 33, 34}
    BY <1>2
  <2> QED
    BY <2>1, <2>2, <2>3, SearchLine
<1> QED
  BY <1>1, <1>2, SmallValues

\* A line that sets one of them, or reads the value to search for.
LEMMA SearchPrepares ==
  ASSUME NEW k, SearchHere(k), Source!Next, k \in 15..34
  PROVE  SearchGoesOn
<1>1. /\ isSearch /\ program = "binary_search" /\ expected(program, input) /\ At(k)
      /\ script[k] = binary_search[k] /\ src.r \in [0..31 -> Values]
      /\ searchAt(k, src.r, src.mem, src.stdin, src.stdout)
  BY SearchKinds DEF SearchHere, searchGood, isSearch
<1>2. PICK f \in [0..31 -> Values] : f = src.r
  BY <1>1
<1>3. PICK m, i, o : m = src.mem /\ i = src.stdin /\ o = src.stdout
  OBVIOUS
<1>4. o = <<>> /\ prepares(k, f, m, i)
  <2>1. searchAt(k, f, m, i, o)
    BY <1>1, <1>2, <1>3
  <2>2. inPreparing(k, f, m, i, o)
    BY <2>1, SearchAtPrepares
  <2> QED
    BY <2>2 DEF inPreparing
<1>5. walks(k) /\ nextLine(k) = IF k = 34 THEN 36 ELSE k + 1
  BY DEF walks, nextLine, labelLines
<1>6. PICK g : g = withConst(k, f)
  OBVIOUS
<1>7. ASSUME NEW j, prepares(k + 1, g, m, j) PROVE searchAt(nextLine(k), g, m, j, o)
  <2>1. CASE k = 34
    <3>1. prepares(35, g, m, j) /\ 35 \in 35..36
      BY <1>7, <2>1
    <3>2. searchAt(36, g, m, j, o)
      BY <1>1, <1>4, <3>1, AllBounds
    <3> QED
      BY <1>5, <2>1, <3>2
  <2>2. CASE k # 34
    <3>1. k + 1 \in 15..34 /\ nextLine(k) = k + 1
      BY <1>5, <2>2
    <3>2. inPreparing(k + 1, g, m, j, o)
      BY <1>4, <1>7 DEF inPreparing
    <3> QED
      BY <3>1, <3>2, SearchAtPrepares
  <2> QED
    BY <2>1, <2>2
<1>8. CASE k # 20
  <2>1. prepares(k + 1, g, m, i)
    BY <1>1, <1>4, <1>6, <1>8, PreparesOn
  <2>2. searchAt(nextLine(k), g, m, i, o)
    BY <1>7, <2>1
  <2>3. PICK n, v, x : n = constReg(k) /\ v = constVal(k) /\ x = nextLine(k)
    OBVIOUS
  <2>4. g = [src.r EXCEPT ![n] = v] /\ searchAt(x, g, src.mem, src.stdin, src.stdout)
    BY <1>2, <1>3, <1>6, <2>2, <2>3 DEF withConst
  <2>5. CASE v \in Values /\ script[k] = set(n, Lit(v))
    BY ONLY SearchHere(k), Source!Next, <1>5, <2>3, <2>4, <2>5, SearchSets
  <2>6. ASSUME NEW h \in labelLines, script[k] = set(n, Lab(labelAt(h))), v = Source!startOf(h + 1)
        PROVE  SearchGoesOn
    <3>1. PICK l, p : l = labelAt(h) /\ p = h + 1
      OBVIOUS
    <3>2. g = [src.r EXCEPT ![n] = Source!startOf(p)]
      BY <2>4, <2>6, <3>1
    <3> QED
      BY ONLY SearchHere(k), Source!Next, <1>5, <2>3, <2>4, <2>6, <3>1, <3>2, SearchPoints
  <2>7. \/ v \in Values /\ script[k] = set(n, Lit(v))
        \/ \E h \in labelLines : script[k] = set(n, Lab(labelAt(h))) /\ v = Source!startOf(h + 1)
    BY <1>1, <1>8, <2>3, ConstLines
  <2> QED
    BY <2>5, <2>6, <2>7
<1>9. CASE k = 20
  <2>1. /\ consts(20, f) /\ f[1] = 1 /\ f[2] = count /\ f[29] = 0 /\ stored(m, stores)
        /\ after(i, stores + 1)
    BY <1>4, <1>9 DEF prepares
  <2>2. /\ input \in Seq(Line) /\ count \in Nat /\ Len(input) = count + 2 /\ stores \in Nat
        /\ (count # 0 => stores = count) /\ (count = 0 => stores = 1)
    BY <1>1, SearchInput DEF stores
  <2>3. PICK j \in Nat : j = stores + 1
    BY <2>2
  <2>4. /\ i = <<>> <=> j = Len(input)
        /\ i # <<>> => Head(i) = input[j + 1] /\ j + 1 \in 1..Len(input)
    BY <2>1, <2>2, <2>3, AfterOne
  <2>5. i = <<>> <=> count = 0
    <3>1. ASSUME count = 0 PROVE j = Len(input)
      BY ONLY <2>2, <2>3, <3>1
    <3>2. ASSUME count # 0 PROVE j # Len(input)
      <4>1. j = count + 1
        BY ONLY <2>2, <2>3, <3>2
      <4>2. count + 1 # count + 2
        BY ONLY <2>2
      <4> QED
        BY ONLY <2>2, <4>1, <4>2
    <3> QED
      BY <2>4, <3>1, <3>2
  <2>6. ASSUME i # <<>>
        PROVE  Head(i).k = "number" /\ Head(i).v = line(count + 2) /\ Head(i).v < WORD
    <3>1. count # 0 /\ j + 1 = count + 2 /\ count + 2 \in 1..(count + 2)
      BY <2>2, <2>3, <2>5, <2>6
    <3>2. Head(i) = input[count + 2]
      BY <2>4, <2>6, <3>1
    <3>3. Head(i).k = "number" /\ Head(i).v = line(count + 2) /\ line(count + 2) \in Values
      BY <1>1, <3>1, <3>2, SearchInput
    <3> QED
      BY <3>3, Sizes DEF Values
  <2>7. script[k] = in(15, 29)
    BY <1>1, <1>9, SearchLine
  <2>8. \/ src.stdin = <<>> /\ Fails
        \/ src.stdin # <<>> /\ Goes(Source!firstFrom(k + 1), [src.r EXCEPT ![15] = Head(src.stdin).v],
                                    src.mem, Tail(src.stdin), src.stdout)
    BY <1>1, <1>2, <1>3, <2>1, <2>6, <2>7, InLine
  <2>9. CASE src.stdin = <<>> /\ Fails
    BY <1>3, <2>5, <2>9 DEF SearchGoesOn, noRoom
  <2>10. CASE src.stdin # <<>> /\ Goes(Source!firstFrom(k + 1),
                                       [src.r EXCEPT ![15] = Head(src.stdin).v],
                                       src.mem, Tail(src.stdin), src.stdout)
    <3>1. constReg(20) = 15 /\ constVal(20) = line(count + 2)
      BY DEF constReg, constVal
    <3>2. PICK q, v : q = Tail(i) /\ v = Head(i).v
      OBVIOUS
    <3>3. v = line(count + 2)
      BY <1>3, <2>6, <2>10, <3>2
    <3>4. g = [f EXCEPT ![15] = v]
      BY <1>6, <1>9, <3>1, <3>3 DEF withConst
    <3>5. Goes(Source!firstFrom(k + 1), g, m, q, o)
      BY <1>2, <1>3, <2>10, <3>2, <3>4
    <3>6. prepares(21, g, m, q)
      <4>1. 20 + 1 = 21
        OBVIOUS
      <4>2. consts(20 + 1, g) /\ g[1] = f[1] /\ g[2] = f[2] /\ g[29] = f[29]
        <5>1. consts(k, f)
          BY <1>9, <2>1
        <5>2. consts(k + 1, g) /\ g[1] = f[1] /\ g[2] = f[2] /\ g[29] = f[29]
          BY ONLY <1>6, <5>1, f \in [0..31 -> Values], k \in 15..34, ConstsGrow
        <5> QED
          BY <1>9, <5>2
      <4>4. consts(21, g) /\ g[1] = 1 /\ g[2] = count /\ g[29] = 0
        BY ONLY <2>1, <4>1, <4>2
      <4>3. count # 0
        BY <1>3, <2>5, <2>10
      <4> QED
        BY <2>1, <4>4, <4>3 DEF prepares
    <3>7. searchAt(nextLine(k), g, m, q, o)
      BY <1>7, <1>9, <3>6
    <3> QED
      BY <1>5, <3>5, <3>7, SearchArrives
  <2> QED
    BY <2>8, <2>9, <2>10
<1> QED
  BY <1>8, <1>9

---------------------------------------------------------------------------
(* The searching loop *)

with(f, n, v) == [f EXCEPT ![n] = v]

LEMMA With ==
  ASSUME NEW f \in [0..31 -> Values], NEW n \in 0..31, NEW v \in Values, NEW g, g = with(f, n, v)
  PROVE  g \in [0..31 -> Values] /\ g[n] = v /\ \A j \in 0..31 : j # n => g[j] = f[j]
  BY DEF with

\* What the constants are good for.
LEMMA ConstsAre ==
  ASSUME NEW f, consts(35, f)
  PROVE  /\ f[3] = 2 /\ f[9] = 8 /\ f[15] = line(count + 2) /\ f[27] = 3
         /\ f[6] = Source!startOf(36) /\ f[7] = Source!startOf(47) /\ f[8] = Source!startOf(53)
         /\ f[16] = Source!startOf(59) /\ f[17] = Source!startOf(70)
         /\ f[20] = 110 /\ f[21] = 111 /\ f[22] = 116 /\ f[23] = 102 /\ f[24] = 117
         /\ f[25] = 100 /\ f[26] = 32
<1>1. \A j \in 15..34 : f[constReg(j)] = constVal(j)
  BY DEF consts
<1>2. /\ constReg(15) = 3 /\ constReg(16) = 6 /\ constReg(17) = 7 /\ constReg(18) = 8
      /\ constReg(19) = 9 /\ constReg(20) = 15 /\ constReg(23) = 16 /\ constReg(24) = 17
      /\ constReg(27) = 20 /\ constReg(28) = 21 /\ constReg(29) = 22 /\ constReg(30) = 23
      /\ constReg(31) = 24 /\ constReg(32) = 25 /\ constReg(33) = 26 /\ constReg(34) = 27
  BY DEF constReg
<1>3. /\ constVal(15) = 2 /\ constVal(19) = 8 /\ constVal(27) = 110 /\ constVal(28) = 111
      /\ constVal(29) = 116 /\ constVal(30) = 102 /\ constVal(31) = 117 /\ constVal(32) = 100
      /\ constVal(33) = 32 /\ constVal(34) = 3
  BY DEF constVal
<1>4. /\ constVal(16) = Source!startOf(36) /\ constVal(17) = Source!startOf(47)
      /\ constVal(18) = Source!startOf(53) /\ constVal(20) = line(count + 2)
      /\ constVal(23) = Source!startOf(59) /\ constVal(24) = Source!startOf(70)
  BY DEF constVal
<1>5. /\ f[3] = 2 /\ f[9] = 8 /\ f[27] = 3 /\ f[20] = 110 /\ f[21] = 111 /\ f[22] = 116
      /\ f[23] = 102 /\ f[24] = 117 /\ f[25] = 100 /\ f[26] = 32
  BY <1>1, <1>2, <1>3
<1>6. /\ f[6] = constVal(16) /\ f[7] = constVal(17) /\ f[8] = constVal(18)
      /\ f[15] = constVal(20) /\ f[16] = constVal(23) /\ f[17] = constVal(24)
  BY <1>1, <1>2
<1> QED
  BY ONLY <1>4, <1>5, <1>6

\* The other registers do not disturb them.
LEMMA ConstsStay ==
  ASSUME NEW x, NEW f \in [0..31 -> Values], consts(x, f), NEW n \in {1, 2, 4, 5, 10},
         NEW v, NEW g, g = with(f, n, v)
  PROVE  consts(x, g)
<1>1. \A j \in 15..34 : constReg(j) \in 0..31 /\ constReg(j) # n
  BY ConstRegs
<1>2. \A j \in 0..31 : j # n => g[j] = f[j]
  BY DEF with
<1> QED
  BY <1>1, <1>2 DEF consts

\* The middle of the searched part lies in it, and is in memory.
LEMMA HalfInside ==
  ASSUME program = "binary_search", expected(program, input), NEW m, stored(m, count), count # 0,
         NEW p, NEW q, bounds(p, q), NEW h, h = (p + q) \div 2
  PROVE  /\ p \in Nat /\ q \in Nat /\ h \in Nat
         /\ p + q \in Values /\ h \in Values /\ h + 1 \in Values
         /\ p <= q => /\ p <= h /\ h <= q /\ h \in 1..count
                      /\ 8 * h \in Values /\ ARRAY + 8 * h \in Values
                      /\ verified(ARRAY + 8 * h, 8) /\ readMem(m, ARRAY + 8 * h) = line(h + 1)
<1>1. count \in Nat
  BY SearchInput
<1>2. p \in Nat /\ q \in Nat /\ 1 <= p /\ p <= count + 1 /\ q <= count
  BY <1>1 DEF bounds
<1>3. 2 * count + 1 \in Values /\ count + 1 \in Values
  BY <1>1, NextInRange
<1>4. h \in Nat /\ 2 * h <= p + q /\ p + q <= 2 * h + 1
  BY <1>2
<1>5. p + q \in Values /\ h \in Values /\ h + 1 \in Values
  <2>1. 2 * count + 1 < WORD /\ WORD \in Nat
    BY <1>3, Sizes DEF Values
  <2>2. p + q \in Nat /\ p + q < WORD
    BY <1>1, <1>2, <2>1
  <2>3. h < WORD /\ h + 1 < WORD
    <3>1. h <= count
      BY <1>1, <1>2, <1>4
    <3>2. count + 1 < WORD
      BY <1>3, Sizes DEF Values
    <3> QED
      BY <1>1, <1>4, <2>1, <3>1, <3>2
  <2> QED
    BY <1>4, <2>1, <2>2, <2>3 DEF Values
<1>6. ASSUME p <= q PROVE p <= h /\ h <= q /\ h \in 1..count
  BY <1>1, <1>2, <1>4, <1>6
<1>7. ASSUME p <= q
      PROVE  /\ 8 * h \in Values /\ ARRAY + 8 * h \in Values
             /\ verified(ARRAY + 8 * h, 8) /\ readMem(m, ARRAY + 8 * h) = line(h + 1)
  <2>1. verified(ARRAY + 8 * h, 8) /\ readMem(m, ARRAY + 8 * h) = line(h + 1)
    BY <1>6, <1>7 DEF stored
  <2>2. ARRAY + 8 * h \in Values
    <3>1. PICK a : a = ARRAY + 8 * h
      OBVIOUS
    <3>2. verified(a, 8)
      BY <2>1, <3>1
    <3> QED
      BY <1>4, <3>1, <3>2, PlaceInMemory
  <2>3. 8 * h \in Values
    <3>1. PICK e \in Nat : e = 8 * h
      BY <1>4
    <3>2. ARRAY \in Nat /\ WORD \in Nat /\ ARRAY + e \in 0..(WORD - 1)
      BY <2>2, <3>1, SmallValues, Sizes DEF Values
    <3>3. e \in 0..(WORD - 1)
      BY ONLY <3>2, e \in Nat
    <3> QED
      BY <3>1, <3>3 DEF Values
  <2> QED
    BY <2>1, <2>2, <2>3
<1> QED
  BY <1>2, <1>4, <1>5, <1>6, <1>7

\* How the searched part shrinks, and when the search ends.
LEMMA Narrows ==
  ASSUME program = "binary_search", expected(program, input), NEW p, NEW q, bounds(p, q)
  PROVE  /\ p > q => ~present
         /\ \A h \in 1..count :
              /\ p <= h /\ h <= q /\ line(h + 1) < line(count + 2) => bounds(h + 1, q)
              /\ p <= h /\ h <= q /\ line(count + 2) < line(h + 1) => bounds(p, h - 1)
              /\ line(count + 2) = line(h + 1) => present
<1>1. /\ count \in Nat /\ \A j \in 1..(count + 2) : line(j) \in Values
      /\ \A j, n \in 1..count : j <= n => line(j + 1) <= line(n + 1)
  BY SearchInput
<1>2. /\ p \in 1..(count + 1) /\ q \in 0..count /\ p <= q + 1
      /\ \A n \in 1..count : /\ n < p => line(n + 1) < line(count + 2)
                             /\ q < n => line(count + 2) < line(n + 1)
  BY DEF bounds
<1>3. /\ \A n \in 1..count : line(n + 1) \in Nat
      /\ line(count + 2) \in Nat
  <2>1. \A n \in 1..count : n + 1 \in 1..(count + 2)
    BY <1>1
  <2>2. count + 2 \in 1..(count + 2)
    BY <1>1
  <2> QED
    BY <1>1, <2>1, <2>2, Sizes DEF Values
<1>4. ASSUME p > q, NEW n \in 1..count PROVE line(n + 1) # line(count + 2)
  <2>1. n < p \/ q < n
    BY <1>1, <1>2, <1>4
  <2> QED
    BY <1>2, <1>3, <2>1
<1>5. ASSUME NEW h \in 1..count, p <= h, h <= q, line(h + 1) < line(count + 2)
      PROVE  bounds(h + 1, q)
  <2>1. h + 1 \in 1..(count + 1) /\ q \in 0..count /\ h + 1 <= q + 1
    BY <1>1, <1>2, <1>5
  <2>2. ASSUME NEW n \in 1..count, n < h + 1 PROVE line(n + 1) < line(count + 2)
    <3>1. n <= h
      BY <1>1, <2>2
    <3>2. line(n + 1) <= line(h + 1)
      BY <1>1, <3>1
    <3>3. line(n + 1) \in Nat /\ line(h + 1) \in Nat /\ line(count + 2) \in Nat
      BY <1>3
    <3> QED
      BY ONLY <1>5, <3>2, <3>3
  <2> QED
    BY <1>2, <2>1, <2>2 DEF bounds
<1>6. ASSUME NEW h \in 1..count, p <= h, h <= q, line(count + 2) < line(h + 1)
      PROVE  bounds(p, h - 1)
  <2>1. h - 1 \in 0..count /\ p <= (h - 1) + 1
    BY <1>1, <1>2, <1>6
  <2>2. ASSUME NEW n \in 1..count, h - 1 < n PROVE line(count + 2) < line(n + 1)
    <3>1. h <= n
      BY <1>1, <2>2
    <3>2. line(h + 1) <= line(n + 1)
      BY <1>1, <3>1
    <3>3. line(n + 1) \in Nat /\ line(h + 1) \in Nat /\ line(count + 2) \in Nat
      BY <1>3
    <3> QED
      BY ONLY <1>6, <3>2, <3>3
  <2> QED
    BY <1>2, <2>1, <2>2 DEF bounds
<1> QED
  BY <1>4, <1>5, <1>6 DEF present

\* What holds at its lines, for the ends p and q of the searched part and the middle h.
LEMMA HalvesSays ==
  ASSUME NEW f, NEW p, NEW q, NEW h, f[1] = p, f[2] = q, h = (p + q) \div 2
  PROVE  /\ halves(36, f) <=> bounds(p, q)
         /\ halves(37, f) <=> bounds(p, q) /\ f[4] = p + q
         /\ halves(38, f) <=> bounds(p, q) /\ f[4] = h
         /\ halves(39, f) <=> bounds(p, q) /\ p <= q /\ f[4] = h
         /\ halves(40, f) <=> bounds(p, q) /\ p <= q /\ f[4] = 8 * h
         /\ halves(41, f) <=> bounds(p, q) /\ p <= q /\ f[4] = 8 * h /\ f[5] = ARRAY
         /\ halves(42, f) <=> bounds(p, q) /\ p <= q /\ f[5] = ARRAY + 8 * h
         /\ halves(43, f) <=> bounds(p, q) /\ p <= q /\ f[10] = line(h + 1)
         /\ halves(44, f) <=> bounds(p, q) /\ p <= q /\ f[10] = line(h + 1)
                              /\ f[10] <= line(count + 2)
         /\ halves(45, f) <=> bounds(p, q) /\ p <= q /\ f[10] = line(h + 1) /\ present
         /\ halves(47, f) <=> bounds(p, q) /\ p <= q /\ bounds(h + 1, q)
         /\ halves(48, f) <=> bounds(p, q) /\ p <= q /\ bounds(h + 1, q) /\ f[4] = p + q
         /\ halves(49, f) <=> bounds(f[5] + 1, q)
         /\ halves(50, f) <=> bounds(p + 1, q)
         /\ halves(51, f) <=> bounds(p, q)
         /\ halves(53, f) <=> bounds(p, q) /\ p <= q /\ bounds(p, h - 1)
         /\ halves(54, f) <=> bounds(p, q) /\ p <= q /\ bounds(p, h - 1) /\ f[4] = p + q
         /\ halves(55, f) <=> bounds(p, f[5] - 1)
         /\ halves(56, f) <=> bounds(p, q - 1)
         /\ halves(57, f) <=> bounds(p, q)
<1>1. half(f) = h
  BY DEF half
<1>3. /\ halves(36, f) <=> bounds(p, q)
      /\ halves(37, f) <=> bounds(p, q) /\ f[4] = p + q
      /\ halves(38, f) <=> bounds(p, q) /\ f[4] = h
      /\ halves(39, f) <=> bounds(p, q) /\ p <= q /\ f[4] = h
      /\ halves(40, f) <=> bounds(p, q) /\ p <= q /\ f[4] = 8 * h
  BY <1>1 DEF halves
<1>4. /\ halves(41, f) <=> bounds(p, q) /\ p <= q /\ f[4] = 8 * h /\ f[5] = ARRAY
      /\ halves(42, f) <=> bounds(p, q) /\ p <= q /\ f[5] = ARRAY + 8 * h
      /\ halves(43, f) <=> bounds(p, q) /\ p <= q /\ f[10] = line(h + 1)
      /\ halves(44, f) <=> bounds(p, q) /\ p <= q /\ f[10] = line(h + 1)
                           /\ f[10] <= line(count + 2)
      /\ halves(45, f) <=> bounds(p, q) /\ p <= q /\ f[10] = line(h + 1) /\ present
  BY <1>1 DEF halves
<1>5. /\ halves(47, f) <=> bounds(p, q) /\ p <= q /\ bounds(h + 1, q)
      /\ halves(48, f) <=> bounds(p, q) /\ p <= q /\ bounds(h + 1, q) /\ f[4] = p + q
      /\ halves(49, f) <=> bounds(f[5] + 1, q)
      /\ halves(50, f) <=> bounds(p + 1, q)
      /\ halves(51, f) <=> bounds(p, q)
  BY <1>1 DEF halves
<1>6. /\ halves(53, f) <=> bounds(p, q) /\ p <= q /\ bounds(p, h - 1)
      /\ halves(54, f) <=> bounds(p, q) /\ p <= q /\ bounds(p, h - 1) /\ f[4] = p + q
      /\ halves(55, f) <=> bounds(p, f[5] - 1)
      /\ halves(56, f) <=> bounds(p, q - 1)
      /\ halves(57, f) <=> bounds(p, q)
  BY <1>1 DEF halves
<1> QED
  BY <1>3, <1>4, <1>5, <1>6

\* What its lines do: it looks at the middle, ...
LEMMA LooksAt ==
  ASSUME program = "binary_search", expected(program, input),
         NEW f \in [0..31 -> Values], consts(35, f), NEW m, stored(m, count), count # 0
  PROVE  /\ halves(36, f) => halves(37, with(f, 4, ull(f[1] + f[2])))
         /\ halves(37, f) => f[3] # 0 /\ halves(38, with(f, 4, f[4] \div f[3]))
         /\ halves(38, f) /\ f[1] > f[2] => ~present
         /\ halves(38, f) /\ ~(f[1] > f[2]) => halves(39, f)
         /\ halves(39, f) => halves(40, with(f, 4, ull(f[4] * f[9])))
         /\ halves(40, f) => halves(41, with(f, 5, ARRAY))
         /\ halves(41, f) => halves(42, with(f, 5, ull(f[5] + f[4])))
         /\ halves(42, f) => /\ verified(ull(f[5] + 0), 8)
                             /\ halves(43, with(f, 10, readMem(m, ull(f[5] + 0))))
<1>1. PICK pp, q, h : pp = f[1] /\ q = f[2] /\ h = (pp + q) \div 2
  OBVIOUS
<1>2. f[3] = 2 /\ f[9] = 8 /\ f[15] = line(count + 2)
  BY ConstsAre
<1>3. ASSUME NEW n \in {4, 5, 10}, NEW v \in Values
      PROVE  LET g == with(f, n, v)
             IN g[n] = v /\ \A j \in {1, 2, 4, 5, 10} \ {n} : g[j] = f[j]
  BY With
<1>4. ASSUME bounds(pp, q)
      PROVE  /\ pp \in Nat /\ q \in Nat /\ h \in Nat
             /\ pp + q \in Values /\ h \in Values /\ h + 1 \in Values
             /\ pp <= q => /\ pp <= h /\ h <= q /\ h \in 1..count
                           /\ 8 * h \in Values /\ ARRAY + 8 * h \in Values
                           /\ verified(ARRAY + 8 * h, 8) /\ readMem(m, ARRAY + 8 * h) = line(h + 1)
  BY <1>1, <1>4, HalfInside
<1>5. ASSUME halves(36, f) PROVE halves(37, with(f, 4, ull(f[1] + f[2])))
  <2>1. bounds(pp, q)
    BY <1>1, <1>5, HalvesSays
  <2>2. ull(f[1] + f[2]) = pp + q /\ pp + q \in Values
    BY <1>1, <1>4, <2>1, UllSame
  <2>3. PICK g : g = with(f, 4, ull(f[1] + f[2]))
    OBVIOUS
  <2>4. g[4] = pp + q /\ g[1] = pp /\ g[2] = q
    BY <1>1, <1>3, <2>2, <2>3
  <2>5. halves(37, g)
    BY <1>1, <2>1, <2>4, HalvesSays
  <2> QED
    BY <2>3, <2>5
<1>6. ASSUME halves(37, f) PROVE f[3] # 0 /\ halves(38, with(f, 4, f[4] \div f[3]))
  <2>1. bounds(pp, q) /\ f[4] = pp + q
    BY <1>1, <1>6, HalvesSays
  <2>2. f[4] \div f[3] = h /\ h \in Values
    BY <1>1, <1>2, <1>4, <2>1
  <2>3. PICK g : g = with(f, 4, f[4] \div f[3])
    OBVIOUS
  <2>4. g[4] = h /\ g[1] = pp /\ g[2] = q
    BY <1>1, <1>3, <2>2, <2>3
  <2>5. halves(38, g)
    BY <1>1, <2>1, <2>4, HalvesSays
  <2> QED
    BY <1>2, <2>3, <2>5
<1>7. ASSUME halves(38, f), f[1] > f[2] PROVE ~present
  <2>1. bounds(pp, q) /\ pp > q
    BY <1>1, <1>7, HalvesSays
  <2> QED
    BY <2>1, Narrows
<1>8. ASSUME halves(38, f), ~(f[1] > f[2]) PROVE halves(39, f)
  <2>1. bounds(pp, q) /\ f[4] = h
    BY <1>1, <1>8, HalvesSays
  <2>2. pp <= q
    BY <1>1, <1>4, <1>8, <2>1
  <2> QED
    BY <1>1, <2>1, <2>2, HalvesSays
<1>9. ASSUME halves(39, f) PROVE halves(40, with(f, 4, ull(f[4] * f[9])))
  <2>1. bounds(pp, q) /\ pp <= q /\ f[4] = h
    BY <1>1, <1>9, HalvesSays
  <2>2. f[4] * f[9] = 8 * h /\ 8 * h \in Values
    BY <1>2, <1>4, <2>1
  <2>3. PICK g, v : v = ull(f[4] * f[9]) /\ g = with(f, 4, v)
    OBVIOUS
  <2>4. v = 8 * h /\ v \in Values
    BY <2>2, <2>3, UllSame
  <2>5. g[4] = 8 * h /\ g[1] = pp /\ g[2] = q
    BY <1>1, <1>3, <2>3, <2>4
  <2>6. halves(40, g)
    BY <1>1, <2>1, <2>5, HalvesSays
  <2> QED
    BY <2>3, <2>6
<1>10. ASSUME halves(40, f) PROVE halves(41, with(f, 5, ARRAY))
  <2>1. bounds(pp, q) /\ pp <= q /\ f[4] = 8 * h
    BY <1>1, <1>10, HalvesSays
  <2>2. PICK g, v : v = ARRAY /\ g = with(f, 5, v)
    OBVIOUS
  <2>3. v \in Values
    BY <2>2, SmallValues
  <2>4. g[5] = v /\ g[4] = f[4] /\ g[1] = pp /\ g[2] = q
    BY <1>1, <1>3, <2>2, <2>3
  <2>5. halves(41, g)
    BY <1>1, <2>1, <2>2, <2>4, HalvesSays
  <2> QED
    BY <2>2, <2>5
<1>11. ASSUME halves(41, f) PROVE halves(42, with(f, 5, ull(f[5] + f[4])))
  <2>1. bounds(pp, q) /\ pp <= q /\ f[4] = 8 * h /\ f[5] = ARRAY
    BY <1>1, <1>11, HalvesSays
  <2>2. PICK g, v : v = ull(f[5] + f[4]) /\ g = with(f, 5, v)
    OBVIOUS
  <2>3. v = ARRAY + 8 * h /\ v \in Values
    BY <1>4, <2>1, <2>2, UllSame
  <2>4. g[5] = ARRAY + 8 * h /\ g[1] = pp /\ g[2] = q
    BY <1>1, <1>3, <2>2, <2>3
  <2>5. halves(42, g)
    BY <1>1, <2>1, <2>4, HalvesSays
  <2> QED
    BY <2>2, <2>5
<1>12. ASSUME halves(42, f)
       PROVE  /\ verified(ull(f[5] + 0), 8)
              /\ halves(43, with(f, 10, readMem(m, ull(f[5] + 0))))
  <2>1. bounds(pp, q) /\ pp <= q /\ f[5] = ARRAY + 8 * h
    BY <1>1, <1>12, HalvesSays
  <2>2. PICK x : x = ARRAY + 8 * h
    OBVIOUS
  <2>3. x \in Values /\ verified(x, 8) /\ readMem(m, x) = line(h + 1) /\ h + 1 \in 1..(count + 2)
    <3>1. count \in Nat
      BY SearchInput
    <3> QED
      BY <1>4, <2>1, <2>2, <3>1
  <2>4. ull(f[5] + 0) = x
    BY <2>1, <2>2, <2>3, UllSame DEF Values
  <2>5. PICK g, v : v = readMem(m, ull(f[5] + 0)) /\ g = with(f, 10, v)
    OBVIOUS
  <2>6. v = line(h + 1) /\ v \in Values
    BY <2>3, <2>4, <2>5, SearchInput
  <2>7. g[10] = line(h + 1) /\ g[1] = pp /\ g[2] = q
    BY <1>1, <1>3, <2>5, <2>6
  <2>8. halves(43, g)
    BY <1>1, <2>1, <2>7, HalvesSays
  <2> QED
    BY <2>3, <2>4, <2>5, <2>8
<1> QED
  BY <1>5, <1>6, <1>7, <1>8, <1>9, <1>10, <1>11, <1>12

\* ... takes the half of it that can hold the value, ...
LEMMA TakesHalf ==
  ASSUME program = "binary_search", expected(program, input),
         NEW f \in [0..31 -> Values], consts(35, f), NEW m, stored(m, count), count # 0
  PROVE  /\ halves(43, f) /\ f[10] > f[15] => halves(53, f)
         /\ halves(43, f) /\ ~(f[10] > f[15]) => halves(44, f)
         /\ halves(44, f) /\ f[15] > f[10] => halves(47, f)
         /\ halves(44, f) /\ ~(f[15] > f[10]) => halves(45, f)
         /\ halves(45, f) => present
<1>1. PICK pp, q, h : pp = f[1] /\ q = f[2] /\ h = (pp + q) \div 2
  OBVIOUS
<1>2. f[15] = line(count + 2) /\ f[15] \in Nat /\ f[10] \in Nat
  BY ConstsAre, Sizes DEF Values
<1>3. ASSUME bounds(pp, q), pp <= q PROVE h \in 1..count /\ pp <= h /\ h <= q
  BY <1>1, <1>3, HalfInside
<1>4. ASSUME halves(43, f), f[10] > f[15] PROVE halves(53, f)
  <2>1. bounds(pp, q) /\ pp <= q /\ f[10] = line(h + 1)
    BY <1>1, <1>4, HalvesSays
  <2>2. line(count + 2) < line(h + 1)
    BY <1>2, <1>4, <2>1
  <2>3. bounds(pp, h - 1)
    BY <1>3, <2>1, <2>2, Narrows
  <2> QED
    BY <1>1, <2>1, <2>3, HalvesSays
<1>5. ASSUME halves(43, f), ~(f[10] > f[15]) PROVE halves(44, f)
  <2>1. bounds(pp, q) /\ pp <= q /\ f[10] = line(h + 1)
    BY <1>1, <1>5, HalvesSays
  <2>2. f[10] <= line(count + 2)
    BY <1>2, <1>5
  <2> QED
    BY <1>1, <2>1, <2>2, HalvesSays
<1>6. ASSUME halves(44, f), f[15] > f[10] PROVE halves(47, f)
  <2>1. bounds(pp, q) /\ pp <= q /\ f[10] = line(h + 1)
    BY <1>1, <1>6, HalvesSays
  <2>2. line(h + 1) < line(count + 2)
    BY <1>2, <1>6, <2>1
  <2>3. bounds(h + 1, q)
    BY <1>3, <2>1, <2>2, Narrows
  <2> QED
    BY <1>1, <2>1, <2>3, HalvesSays
<1>7. ASSUME halves(44, f), ~(f[15] > f[10]) PROVE halves(45, f)
  <2>1. bounds(pp, q) /\ pp <= q /\ f[10] = line(h + 1) /\ f[10] <= line(count + 2)
    BY <1>1, <1>7, HalvesSays
  <2>2. line(count + 2) = line(h + 1)
    BY <1>2, <1>7, <2>1
  <2>3. present
    BY <1>3, <2>1, <2>2, Narrows
  <2> QED
    BY <1>1, <2>1, <2>3, HalvesSays
<1>8. ASSUME halves(45, f) PROVE present
  BY <1>1, <1>8, HalvesSays
<1> QED
  BY <1>4, <1>5, <1>6, <1>7, <1>8

\* ... and moves one of the ends.
LEMMA MovesEnd ==
  ASSUME program = "binary_search", expected(program, input),
         NEW f \in [0..31 -> Values], consts(35, f), NEW m, stored(m, count), count # 0
  PROVE  /\ halves(47, f) => halves(48, with(f, 4, ull(f[1] + f[2])))
         /\ halves(48, f) => f[3] # 0 /\ halves(49, with(f, 5, f[4] \div f[3]))
         /\ halves(49, f) => halves(50, with(f, 1, f[5]))
         /\ halves(50, f) => halves(51, with(f, 1, ull(f[1] + 1)))
         /\ halves(51, f) => halves(36, f)
         /\ halves(53, f) => halves(54, with(f, 4, ull(f[1] + f[2])))
         /\ halves(54, f) => f[3] # 0 /\ halves(55, with(f, 5, f[4] \div f[3]))
         /\ halves(55, f) => halves(56, with(f, 2, f[5]))
         /\ halves(56, f) => halves(57, with(f, 2, ull(f[2] - 1)))
         /\ halves(57, f) => halves(36, f)
<1>1. PICK pp, q, h : pp = f[1] /\ q = f[2] /\ h = (pp + q) \div 2
  OBVIOUS
<1>2. f[3] = 2
  BY ConstsAre
<1>3. ASSUME NEW n \in {1, 2, 4, 5}, NEW v \in Values
      PROVE  LET g == with(f, n, v)
             IN g[n] = v /\ \A j \in {1, 2, 4, 5} \ {n} : g[j] = f[j]
  BY With
<1>4. ASSUME bounds(pp, q)
      PROVE  pp + q \in Values /\ h \in Values
  BY <1>1, <1>4, HalfInside
<1>5. /\ halves(51, f) => halves(36, f)
      /\ halves(57, f) => halves(36, f)
  BY <1>1, HalvesSays
<1>6. ASSUME halves(47, f) \/ halves(53, f)
      PROVE  LET g == with(f, 4, ull(f[1] + f[2])) IN g[4] = pp + q /\ g[1] = pp /\ g[2] = q
  <2>1. bounds(pp, q)
    BY <1>1, <1>6, HalvesSays
  <2>2. PICK v : v = ull(f[1] + f[2])
    OBVIOUS
  <2>3. v = pp + q /\ v \in Values
    BY <1>1, <1>4, <2>1, <2>2, UllSame
  <2>4. PICK g : g = with(f, 4, v)
    OBVIOUS
  <2>5. g[4] = pp + q /\ g[1] = pp /\ g[2] = q
    BY <1>1, <1>3, <2>3, <2>4
  <2> QED
    BY <2>2, <2>4, <2>5
<1>7. ASSUME halves(47, f) PROVE halves(48, with(f, 4, ull(f[1] + f[2])))
  BY <1>1, <1>6, <1>7, HalvesSays
<1>8. ASSUME halves(53, f) PROVE halves(54, with(f, 4, ull(f[1] + f[2])))
  BY <1>1, <1>6, <1>8, HalvesSays
<1>9. ASSUME halves(48, f) \/ halves(54, f)
      PROVE  LET g == with(f, 5, f[4] \div f[3]) IN g[5] = h /\ g[1] = pp /\ g[2] = q
  <2>1. bounds(pp, q) /\ f[4] = pp + q
    BY <1>1, <1>9, HalvesSays
  <2>2. PICK v : v = f[4] \div f[3]
    OBVIOUS
  <2>3. v = h /\ v \in Values
    BY <1>1, <1>2, <1>4, <2>1, <2>2
  <2>4. PICK g : g = with(f, 5, v)
    OBVIOUS
  <2>5. g[5] = h /\ g[1] = pp /\ g[2] = q
    BY <1>1, <1>3, <2>3, <2>4
  <2> QED
    BY <2>2, <2>4, <2>5
<1>10. ASSUME halves(48, f) PROVE halves(49, with(f, 5, f[4] \div f[3]))
  BY <1>1, <1>9, <1>10, HalvesSays
<1>11. ASSUME halves(54, f) PROVE halves(55, with(f, 5, f[4] \div f[3]))
  BY <1>1, <1>9, <1>11, HalvesSays
<1>12. ASSUME halves(49, f) PROVE halves(50, with(f, 1, f[5]))
  <2>1. bounds(f[5] + 1, q)
    BY <1>1, <1>12, HalvesSays
  <2>2. PICK g, v : v = f[5] /\ g = with(f, 1, v)
    OBVIOUS
  <2>3. g[1] = v /\ g[2] = q
    BY <1>1, <1>3, <2>2
  <2>4. bounds(v + 1, q)
    BY <2>1, <2>2
  <2>5. halves(50, g)
    BY <2>3, <2>4, HalvesSays
  <2> QED
    BY <2>2, <2>5
<1>13. ASSUME halves(50, f) PROVE halves(51, with(f, 1, ull(f[1] + 1)))
  <2>1. bounds(pp + 1, q)
    BY <1>1, <1>13, HalvesSays
  <2>2. pp + 1 \in Values
    <3>1. count \in Nat /\ pp \in Nat /\ pp + 1 <= count + 1
      BY <1>1, <2>1, SearchInput, Sizes DEF bounds, Values
    <3>2. count + 1 \in Values
      BY <3>1, NextInRange
    <3> QED
      BY <3>1, <3>2, Sizes DEF Values
  <2>3. PICK g, v : v = ull(f[1] + 1) /\ g = with(f, 1, v)
    OBVIOUS
  <2>4. v = pp + 1
    BY <1>1, <2>2, <2>3, UllSame
  <2>5. g[1] = v /\ g[2] = q
    BY <1>1, <1>3, <2>2, <2>3, <2>4
  <2>6. bounds(v, q)
    BY <2>1, <2>4
  <2>7. halves(51, g)
    BY <2>5, <2>6, HalvesSays
  <2> QED
    BY <2>3, <2>7
<1>14. ASSUME halves(55, f) PROVE halves(56, with(f, 2, f[5]))
  <2>1. bounds(pp, f[5] - 1)
    BY <1>1, <1>14, HalvesSays
  <2>2. PICK g, v : v = f[5] /\ g = with(f, 2, v)
    OBVIOUS
  <2>3. g[2] = v /\ g[1] = pp
    BY <1>1, <1>3, <2>2
  <2>4. bounds(pp, v - 1)
    BY <2>1, <2>2
  <2>5. halves(56, g)
    BY <2>3, <2>4, HalvesSays
  <2> QED
    BY <2>2, <2>5
<1>15. ASSUME halves(56, f) PROVE halves(57, with(f, 2, ull(f[2] - 1)))
  <2>1. bounds(pp, q - 1)
    BY <1>1, <1>15, HalvesSays
  <2>2. q - 1 \in Values
    <3>1. q \in Values /\ q - 1 >= 0
      BY <1>1, <2>1, SearchInput DEF bounds
    <3> QED
      BY <3>1, Sizes DEF Values
  <2>3. PICK g, v : v = ull(f[2] - 1) /\ g = with(f, 2, v)
    OBVIOUS
  <2>4. v = q - 1
    BY <1>1, <2>2, <2>3, UllSame
  <2>5. g[2] = v /\ g[1] = pp
    BY <1>1, <1>3, <2>2, <2>3, <2>4
  <2>6. bounds(pp, v)
    BY <2>1, <2>4
  <2>7. halves(57, g)
    BY <2>5, <2>6, HalvesSays
  <2> QED
    BY <2>3, <2>7
<1> QED
  BY <1>2, <1>5, <1>7, <1>8, <1>10, <1>11, <1>12, <1>13, <1>14, <1>15

\* At its lines.
inHalving(x, f, m, i, o) ==
  o = <<>> /\ consts(35, f) /\ stored(m, count) /\ count # 0 /\ halves(x, f)

LEMMA SearchAtHalves ==
  ASSUME NEW x \in 36..57, NEW f, NEW m, NEW i, NEW o
  PROVE  searchAt(x, f, m, i, o) <=> inHalving(x, f, m, i, o)
<1>1. /\ x \notin 1..8 /\ x \notin 10..14 /\ x \notin 15..34 /\ x \notin 59..75 /\ x < 58
      /\ x \notin 59..68 /\ x \notin 70..75
  OBVIOUS
<1> QED
  BY <1>1 DEF searchAt, inHalving

\* One that sets a register and goes on.
LEMMA HalvingSets ==
  ASSUME NEW k, SearchHere(k), NEW x \in 36..57, x = nextLine(k), walks(k),
         NEW f \in [0..31 -> Values], NEW m, NEW i, NEW o, inHalving(k, f, m, i, o),
         NEW n \in {1, 2, 4, 5, 10}, NEW v, NEW g, g = with(f, n, v),
         Goes(Source!firstFrom(k + 1), g, m, i, o), halves(x, g)
  PROVE  SearchGoesOn
<1>1. o = <<>> /\ consts(35, f) /\ stored(m, count) /\ count # 0
  BY DEF inHalving
<1>2. consts(35, g)
  <2>1. PICK y : y = 35
    OBVIOUS
  <2>2. consts(y, f)
    BY <1>1, <2>1
  <2>3. consts(y, g)
    BY <2>2, ConstsStay
  <2> QED
    BY <2>1, <2>3
<1>3. inHalving(x, g, m, i, o)
  BY <1>1, <1>2 DEF inHalving
<1>4. searchAt(x, g, m, i, o)
  BY <1>3, SearchAtHalves
<1> QED
  BY <1>4, SearchArrives

\* One that jumps behind a label, or goes on.
LEMMA HalvingGoes ==
  ASSUME NEW k, SearchHere(k), NEW x \in 36..57, x = nextLine(k), walks(k),
         NEW f, NEW m, NEW i, NEW o, inHalving(k, f, m, i, o),
         Goes(Source!firstFrom(k + 1), f, m, i, o), halves(x, f)
  PROVE  SearchGoesOn
<1>1. inHalving(x, f, m, i, o)
  BY DEF inHalving
<1>2. searchAt(x, f, m, i, o)
  BY <1>1, SearchAtHalves
<1> QED
  BY <1>2, SearchArrives

LEMMA HalvingJumps ==
  ASSUME NEW k, NEW f, NEW m, NEW i, NEW o, inHalving(k, f, m, i, o), NEW x \in {36, 47, 53},
         Goes(x, f, m, i, o), halves(x, f)
  PROVE  SearchGoesOn
<1>1. inHalving(x, f, m, i, o) /\ x \in 36..57 /\ x \in (1..75) \ labelLines
  BY DEF inHalving, labelLines
<1>2. searchAt(x, f, m, i, o)
  BY <1>1, SearchAtHalves
<1> QED
  BY <1>1, <1>2 DEF SearchGoesOn, searchGood, Goes

LEMMA HalvingEnds ==
  ASSUME NEW k, NEW f, NEW m, NEW i, NEW o, inHalving(k, f, m, i, o), NEW x \in {59, 70},
         Goes(x, f, m, i, o), present <=> x = 70
  PROVE  SearchGoesOn
<1>1. consts(35, f) /\ o = <<>> /\ x \in (1..75) \ labelLines
  BY DEF inHalving, labelLines
<1>2. printed(o, 0)
  BY <1>1 DEF printed
<1>3. searchAt(x, f, m, i, o)
  <2>1. CASE x = 59
    BY <1>1, <1>2, <2>1 DEF searchAt
  <2>2. CASE x = 70
    BY <1>1, <1>2, <2>2 DEF searchAt
  <2> QED
    BY <2>1, <2>2
<1> QED
  BY <1>1, <1>3 DEF SearchGoesOn, searchGood, Goes

\* A line of it.
LEMMA SearchHalves ==
  ASSUME NEW k, SearchHere(k), Source!Next, k \in 36..57
  PROVE  SearchGoesOn
<1>1. /\ isSearch /\ program = "binary_search" /\ expected(program, input) /\ At(k)
      /\ script[k] = binary_search[k] /\ src.r \in [0..31 -> Values]
      /\ searchAt(k, src.r, src.mem, src.stdin, src.stdout) /\ k \notin labelLines
  BY SearchKinds DEF SearchHere, searchGood, isSearch
<1>2. PICK f \in [0..31 -> Values] : f = src.r
  BY <1>1
<1>3. PICK m, i, o : m = src.mem /\ i = src.stdin /\ o = src.stdout
  OBVIOUS
<1>4. inHalving(k, f, m, i, o)
  <2>1. searchAt(k, f, m, i, o)
    BY <1>1, <1>2, <1>3
  <2> QED
    BY <2>1, SearchAtHalves
<1>5. consts(35, f) /\ stored(m, count) /\ count # 0 /\ halves(k, f)
  BY <1>4 DEF inHalving
<1>6. /\ f[6] = Source!startOf(36) /\ f[7] = Source!startOf(47) /\ f[8] = Source!startOf(53)
      /\ f[16] = Source!startOf(59) /\ f[17] = Source!startOf(70)
  BY <1>5, ConstsAre
<1>7. \A x \in {36, 47, 53, 59, 70} : x \in Source!places /\ Source!startOf(x) < MEM_SIZE
  <2>1. \A x \in {36, 47, 53, 59, 70} : \E g \in labelLines : g + 1 = x
    <3>1. {35, 46, 52, 58, 69} \subseteq labelLines
      BY DEF labelLines
    <3> QED
      BY <3>1
  <2>2. \A g \in labelLines : g + 1 \in Source!places /\ Source!startOf(g + 1) < MEM_SIZE
    BY <1>1, SearchPlaces
  <2> QED
    BY <2>1, <2>2
<1>8. walks(k) /\ nextLine(k) = IF k \in {45, 51, 57} THEN k + 2 ELSE k + 1
  BY <1>1 DEF walks, nextLine, labelLines
<1>9. /\ \A g, n, v : g = with(f, n, v) => g = [src.r EXCEPT ![n] = v]
  BY <1>2 DEF with
<1>10. /\ halves(36, f) => halves(37, with(f, 4, ull(f[1] + f[2])))
       /\ halves(37, f) => f[3] # 0 /\ halves(38, with(f, 4, f[4] \div f[3]))
       /\ halves(38, f) /\ f[1] > f[2] => ~present
       /\ halves(38, f) /\ ~(f[1] > f[2]) => halves(39, f)
       /\ halves(39, f) => halves(40, with(f, 4, ull(f[4] * f[9])))
       /\ halves(40, f) => halves(41, with(f, 5, ARRAY))
       /\ halves(41, f) => halves(42, with(f, 5, ull(f[5] + f[4])))
       /\ halves(42, f) => /\ verified(ull(f[5] + 0), 8)
                           /\ halves(43, with(f, 10, readMem(m, ull(f[5] + 0))))
  BY <1>1, <1>5, LooksAt
<1>11. /\ halves(43, f) /\ f[10] > f[15] => halves(53, f)
       /\ halves(43, f) /\ ~(f[10] > f[15]) => halves(44, f)
       /\ halves(44, f) /\ f[15] > f[10] => halves(47, f)
       /\ halves(44, f) /\ ~(f[15] > f[10]) => halves(45, f)
       /\ halves(45, f) => present
  BY <1>1, <1>5, TakesHalf
<1>12. /\ halves(47, f) => halves(48, with(f, 4, ull(f[1] + f[2])))
       /\ halves(48, f) => f[3] # 0 /\ halves(49, with(f, 5, f[4] \div f[3]))
       /\ halves(49, f) => halves(50, with(f, 1, f[5]))
       /\ halves(50, f) => halves(51, with(f, 1, ull(f[1] + 1)))
       /\ halves(51, f) => halves(36, f)
       /\ halves(53, f) => halves(54, with(f, 4, ull(f[1] + f[2])))
       /\ halves(54, f) => f[3] # 0 /\ halves(55, with(f, 5, f[4] \div f[3]))
       /\ halves(55, f) => halves(56, with(f, 2, f[5]))
       /\ halves(56, f) => halves(57, with(f, 2, ull(f[2] - 1)))
       /\ halves(57, f) => halves(36, f)
  BY <1>1, <1>5, MovesEnd
<1>13. ASSUME NEW n \in {1, 2, 4, 5, 10}, NEW v, NEW x \in 36..57, x = nextLine(k),
              Goes(Source!firstFrom(k + 1), [src.r EXCEPT ![n] = v], src.mem, src.stdin, src.stdout),
              halves(x, with(f, n, v))
       PROVE  SearchGoesOn
  <2>1. PICK g : g = with(f, n, v)
    OBVIOUS
  <2>2. Goes(Source!firstFrom(k + 1), g, m, i, o)
    BY <1>2, <1>3, <1>13, <2>1 DEF with
  <2>3. halves(x, g)
    BY <1>13, <2>1
  <2> QED
    BY ONLY SearchHere(k), <1>4, <1>8, <1>13, <2>1, <2>2, <2>3, f \in [0..31 -> Values],
            n \in {1, 2, 4, 5, 10}, x \in 36..57, HalvingSets
<1>14. CASE k = 36
  <2>1. script[k] = op("add", 4, 1, 2)
    BY <1>1, <1>14, SearchLine
  <2>2. PICK v : v = ull(f[1] + f[2])
    OBVIOUS
  <2>3. halves(37, with(f, 4, v)) /\ 37 = nextLine(k) /\ 37 \in 36..57 /\ 4 \in {1, 2, 4, 5, 10}
    BY <1>5, <1>8, <1>10, <1>14, <2>2
  <2>4. Goes(Source!firstFrom(k + 1), [src.r EXCEPT ![4] = ull(src.r[1] + src.r[2])], src.mem, src.stdin,
             src.stdout)
    BY <1>1, <2>1, OpLine
  <2>5. Goes(Source!firstFrom(k + 1), [src.r EXCEPT ![4] = v], src.mem, src.stdin, src.stdout)
    BY <1>2, <1>3, <2>2, <2>4
  <2> QED
    BY ONLY <2>3, <2>5, <1>13
<1>15. CASE k = 37
  <2>1. script[k] = op("div", 4, 4, 3)
    BY <1>1, <1>15, SearchLine
  <2>2. PICK v : v = f[4] \div f[3]
    OBVIOUS
  <2>3. halves(38, with(f, 4, v)) /\ 38 = nextLine(k) /\ 38 \in 36..57 /\ 4 \in {1, 2, 4, 5, 10}
    BY <1>5, <1>8, <1>10, <1>15, <2>2
  <2>4. Goes(Source!firstFrom(k + 1), [src.r EXCEPT ![4] = src.r[4] \div src.r[3]], src.mem, src.stdin,
             src.stdout)
    BY <1>1, <1>2, <1>5, <1>10, <1>15, <2>1, OpLine
  <2>5. Goes(Source!firstFrom(k + 1), [src.r EXCEPT ![4] = v], src.mem, src.stdin, src.stdout)
    BY <1>2, <1>3, <2>2, <2>4
  <2> QED
    BY ONLY <2>3, <2>5, <1>13
<1>16. CASE k = 38
  <2>1. script[k] = op("brgt", 16, 1, 2)
    BY <1>1, <1>16, SearchLine
  <2>2. IF f[1] > f[2] THEN Goes(59, f, m, i, o) ELSE Goes(Source!firstFrom(k + 1), f, m, i, o)
    <3>1. 59 \in Source!places /\ Source!startOf(59) = src.r[16] /\ Source!startOf(59) < MEM_SIZE
      BY <1>2, <1>6, <1>7
    <3> QED
      BY <1>1, <1>2, <1>3, <2>1, <3>1, BrgtLine
  <2>3. CASE f[1] > f[2]
    <3>1. Goes(59, f, m, i, o) /\ ~present
      BY <1>5, <1>10, <1>16, <2>2, <2>3
    <3> QED
      BY <1>4, <3>1, HalvingEnds
  <2>4. CASE ~(f[1] > f[2])
    <3>1. Goes(Source!firstFrom(k + 1), f, m, i, o)
      BY <2>2, <2>4
    <3>2. halves(39, f) /\ 39 = nextLine(k) /\ 39 \in 36..57
      BY <1>5, <1>8, <1>10, <1>16, <2>4
    <3> QED
      BY ONLY SearchHere(k), <1>4, <1>8, <3>1, <3>2, HalvingGoes
  <2> QED
    BY <2>3, <2>4
<1>17. CASE k = 39
  <2>1. script[k] = op("mul", 4, 4, 9)
    BY <1>1, <1>17, SearchLine
  <2>2. PICK v : v = ull(f[4] * f[9])
    OBVIOUS
  <2>3. halves(40, with(f, 4, v)) /\ 40 = nextLine(k) /\ 40 \in 36..57 /\ 4 \in {1, 2, 4, 5, 10}
    BY <1>5, <1>8, <1>10, <1>17, <2>2
  <2>4. Goes(Source!firstFrom(k + 1), [src.r EXCEPT ![4] = ull(src.r[4] * src.r[9])], src.mem, src.stdin,
             src.stdout)
    BY <1>1, <2>1, OpLine
  <2>5. Goes(Source!firstFrom(k + 1), [src.r EXCEPT ![4] = v], src.mem, src.stdin, src.stdout)
    BY <1>2, <1>3, <2>2, <2>4
  <2> QED
    BY ONLY <2>3, <2>5, <1>13
<1>18. CASE k = 40
  <2>1. script[k] = set(5, Lit(ARRAY))
    BY <1>1, <1>18, SearchLine
  <2>2. halves(41, with(f, 5, ARRAY)) /\ 41 = nextLine(k) /\ 41 \in 36..57 /\ 5 \in {1, 2, 4, 5, 10}
    BY <1>5, <1>8, <1>10, <1>18
  <2>3. (IF Lit(ARRAY).k = "lab" THEN Source!addressOf(Lit(ARRAY).l) ELSE ull(Lit(ARRAY).v)) = ARRAY
    BY SmallValues, UllSame DEF Lit
  <2>4. Goes(Source!firstFrom(k + 1), [src.r EXCEPT ![5] = ARRAY], src.mem, src.stdin, src.stdout)
    BY <1>1, <2>1, <2>3, SetLine
  <2> QED
    BY ONLY <2>2, <2>4, <1>13
<1>19. CASE k = 41
  <2>1. script[k] = op("add", 5, 5, 4)
    BY <1>1, <1>19, SearchLine
  <2>2. PICK v : v = ull(f[5] + f[4])
    OBVIOUS
  <2>3. halves(42, with(f, 5, v)) /\ 42 = nextLine(k) /\ 42 \in 36..57 /\ 5 \in {1, 2, 4, 5, 10}
    BY <1>5, <1>8, <1>10, <1>19, <2>2
  <2>4. Goes(Source!firstFrom(k + 1), [src.r EXCEPT ![5] = ull(src.r[5] + src.r[4])], src.mem, src.stdin,
             src.stdout)
    BY <1>1, <2>1, OpLine
  <2>5. Goes(Source!firstFrom(k + 1), [src.r EXCEPT ![5] = v], src.mem, src.stdin, src.stdout)
    BY <1>2, <1>3, <2>2, <2>4
  <2> QED
    BY ONLY <2>3, <2>5, <1>13
<1>20. CASE k = 42
  <2>1. script[k] = Do("mov", <<Reg(10), Mem(5, 0)>>)
    BY <1>1, <1>20, SearchLine
  <2>2. PICK x : x = ull(f[5] + 0)
    OBVIOUS
  <2>3. PICK v : v = readMem(m, x)
    OBVIOUS
  <2>4. /\ verified(x, 8) /\ x = ull(src.r[5] + 0)
        /\ halves(43, with(f, 10, v)) /\ 43 = nextLine(k) /\ 43 \in 36..57 /\ 10 \in {1, 2, 4, 5, 10}
    BY <1>2, <1>5, <1>8, <1>10, <1>20, <2>2, <2>3
  <2>5. Goes(Source!firstFrom(k + 1), [src.r EXCEPT ![10] = readMem(src.mem, x)], src.mem,
             src.stdin, src.stdout)
    BY <1>1, <2>1, <2>4, GetLine
  <2>6. Goes(Source!firstFrom(k + 1), [src.r EXCEPT ![10] = v], src.mem, src.stdin, src.stdout)
    BY <1>3, <2>3, <2>5
  <2> QED
    BY ONLY <2>4, <2>6, <1>13
<1>21. CASE k = 43
  <2>1. script[k] = op("brgt", 8, 10, 15)
    BY <1>1, <1>21, SearchLine
  <2>2. IF f[10] > f[15] THEN Goes(53, f, m, i, o) ELSE Goes(Source!firstFrom(k + 1), f, m, i, o)
    <3>1. 53 \in Source!places /\ Source!startOf(53) = src.r[8] /\ Source!startOf(53) < MEM_SIZE
      BY <1>2, <1>6, <1>7
    <3> QED
      BY <1>1, <1>2, <1>3, <2>1, <3>1, BrgtLine
  <2>3. CASE f[10] > f[15]
    <3>1. Goes(53, f, m, i, o) /\ halves(53, f)
      BY <1>5, <1>11, <1>21, <2>2, <2>3
    <3> QED
      BY <1>4, <3>1, HalvingJumps
  <2>4. CASE ~(f[10] > f[15])
    <3>1. Goes(Source!firstFrom(k + 1), f, m, i, o)
      BY <2>2, <2>4
    <3>2. halves(44, f) /\ 44 = nextLine(k) /\ 44 \in 36..57
      BY <1>5, <1>8, <1>11, <1>21, <2>4
    <3> QED
      BY ONLY SearchHere(k), <1>4, <1>8, <3>1, <3>2, HalvingGoes
  <2> QED
    BY <2>3, <2>4
<1>22. CASE k = 44
  <2>1. script[k] = op("brgt", 7, 15, 10)
    BY <1>1, <1>22, SearchLine
  <2>2. IF f[15] > f[10] THEN Goes(47, f, m, i, o) ELSE Goes(Source!firstFrom(k + 1), f, m, i, o)
    <3>1. 47 \in Source!places /\ Source!startOf(47) = src.r[7] /\ Source!startOf(47) < MEM_SIZE
      BY <1>2, <1>6, <1>7
    <3> QED
      BY <1>1, <1>2, <1>3, <2>1, <3>1, BrgtLine
  <2>3. CASE f[15] > f[10]
    <3>1. Goes(47, f, m, i, o) /\ halves(47, f)
      BY <1>5, <1>11, <1>22, <2>2, <2>3
    <3> QED
      BY <1>4, <3>1, HalvingJumps
  <2>4. CASE ~(f[15] > f[10])
    <3>1. Goes(Source!firstFrom(k + 1), f, m, i, o)
      BY <2>2, <2>4
    <3>2. halves(45, f) /\ 45 = nextLine(k) /\ 45 \in 36..57
      BY <1>5, <1>8, <1>11, <1>22, <2>4
    <3> QED
      BY ONLY SearchHere(k), <1>4, <1>8, <3>1, <3>2, HalvingGoes
  <2> QED
    BY <2>3, <2>4
<1>23. CASE k = 45
  <2>1. script[k] = goto(17)[1]
    BY <1>1, <1>23, SearchLine
  <2>2. Goes(70, f, m, i, o)
    <3>1. 70 \in Source!places /\ Source!startOf(70) = src.r[17] /\ Source!startOf(70) < MEM_SIZE
      BY <1>2, <1>6, <1>7
    <3> QED
      BY <1>1, <1>2, <1>3, <2>1, <3>1, GotoLine
  <2>3. present
    BY <1>5, <1>11, <1>23
  <2> QED
    BY <1>4, <2>2, <2>3, HalvingEnds
<1>24. CASE k = 47
  <2>1. script[k] = op("add", 4, 1, 2)
    BY <1>1, <1>24, SearchLine
  <2>2. PICK v : v = ull(f[1] + f[2])
    OBVIOUS
  <2>3. halves(48, with(f, 4, v)) /\ 48 = nextLine(k) /\ 48 \in 36..57 /\ 4 \in {1, 2, 4, 5, 10}
    BY <1>5, <1>8, <1>12, <1>24, <2>2
  <2>4. Goes(Source!firstFrom(k + 1), [src.r EXCEPT ![4] = ull(src.r[1] + src.r[2])], src.mem, src.stdin,
             src.stdout)
    BY <1>1, <2>1, OpLine
  <2>5. Goes(Source!firstFrom(k + 1), [src.r EXCEPT ![4] = v], src.mem, src.stdin, src.stdout)
    BY <1>2, <1>3, <2>2, <2>4
  <2> QED
    BY ONLY <2>3, <2>5, <1>13
<1>25. CASE k = 48
  <2>1. script[k] = op("div", 5, 4, 3)
    BY <1>1, <1>25, SearchLine
  <2>2. PICK v : v = f[4] \div f[3]
    OBVIOUS
  <2>3. halves(49, with(f, 5, v)) /\ 49 = nextLine(k) /\ 49 \in 36..57 /\ 5 \in {1, 2, 4, 5, 10}
    BY <1>5, <1>8, <1>12, <1>25, <2>2
  <2>4. Goes(Source!firstFrom(k + 1), [src.r EXCEPT ![5] = src.r[4] \div src.r[3]], src.mem, src.stdin,
             src.stdout)
    BY <1>1, <1>2, <1>5, <1>12, <1>25, <2>1, OpLine
  <2>5. Goes(Source!firstFrom(k + 1), [src.r EXCEPT ![5] = v], src.mem, src.stdin, src.stdout)
    BY <1>2, <1>3, <2>2, <2>4
  <2> QED
    BY ONLY <2>3, <2>5, <1>13
<1>26. CASE k = 49
  <2>1. script[k] = mov(1, 5)
    BY <1>1, <1>26, SearchLine
  <2>2. PICK v : v = f[5]
    OBVIOUS
  <2>3. halves(50, with(f, 1, v)) /\ 50 = nextLine(k) /\ 50 \in 36..57 /\ 1 \in {1, 2, 4, 5, 10}
    BY <1>5, <1>8, <1>12, <1>26, <2>2
  <2>4. Goes(Source!firstFrom(k + 1), [src.r EXCEPT ![1] = src.r[5]], src.mem, src.stdin,
             src.stdout)
    BY <1>1, <2>1, CopyLine
  <2>5. Goes(Source!firstFrom(k + 1), [src.r EXCEPT ![1] = v], src.mem, src.stdin, src.stdout)
    BY <1>2, <1>3, <2>2, <2>4
  <2> QED
    BY ONLY <2>3, <2>5, <1>13
<1>27. CASE k = 50
  <2>1. script[k] = imm12("addi", 1, 1)
    BY <1>1, <1>27, SearchLine
  <2>2. PICK v : v = ull(f[1] + 1)
    OBVIOUS
  <2>3. halves(51, with(f, 1, v)) /\ 51 = nextLine(k) /\ 51 \in 36..57 /\ 1 \in {1, 2, 4, 5, 10}
    BY <1>5, <1>8, <1>12, <1>27, <2>2
  <2>4. Goes(Source!firstFrom(k + 1), [src.r EXCEPT ![1] = ull(src.r[1] + 1)], src.mem, src.stdin,
             src.stdout)
    BY <1>1, <2>1, ImmLine
  <2>5. Goes(Source!firstFrom(k + 1), [src.r EXCEPT ![1] = v], src.mem, src.stdin, src.stdout)
    BY <1>2, <1>3, <2>2, <2>4
  <2> QED
    BY ONLY <2>3, <2>5, <1>13
<1>28. CASE k = 51
  <2>1. script[k] = goto(6)[1]
    BY <1>1, <1>28, SearchLine
  <2>2. Goes(36, f, m, i, o)
    <3>1. 36 \in Source!places /\ Source!startOf(36) = src.r[6] /\ Source!startOf(36) < MEM_SIZE
      BY <1>2, <1>6, <1>7
    <3> QED
      BY <1>1, <1>2, <1>3, <2>1, <3>1, GotoLine
  <2>3. halves(36, f)
    BY <1>5, <1>12, <1>28
  <2> QED
    BY <1>4, <2>2, <2>3, HalvingJumps
<1>29. CASE k = 53
  <2>1. script[k] = op("add", 4, 1, 2)
    BY <1>1, <1>29, SearchLine
  <2>2. PICK v : v = ull(f[1] + f[2])
    OBVIOUS
  <2>3. halves(54, with(f, 4, v)) /\ 54 = nextLine(k) /\ 54 \in 36..57 /\ 4 \in {1, 2, 4, 5, 10}
    BY <1>5, <1>8, <1>12, <1>29, <2>2
  <2>4. Goes(Source!firstFrom(k + 1), [src.r EXCEPT ![4] = ull(src.r[1] + src.r[2])], src.mem, src.stdin,
             src.stdout)
    BY <1>1, <2>1, OpLine
  <2>5. Goes(Source!firstFrom(k + 1), [src.r EXCEPT ![4] = v], src.mem, src.stdin, src.stdout)
    BY <1>2, <1>3, <2>2, <2>4
  <2> QED
    BY ONLY <2>3, <2>5, <1>13
<1>30. CASE k = 54
  <2>1. script[k] = op("div", 5, 4, 3)
    BY <1>1, <1>30, SearchLine
  <2>2. PICK v : v = f[4] \div f[3]
    OBVIOUS
  <2>3. halves(55, with(f, 5, v)) /\ 55 = nextLine(k) /\ 55 \in 36..57 /\ 5 \in {1, 2, 4, 5, 10}
    BY <1>5, <1>8, <1>12, <1>30, <2>2
  <2>4. Goes(Source!firstFrom(k + 1), [src.r EXCEPT ![5] = src.r[4] \div src.r[3]], src.mem, src.stdin,
             src.stdout)
    BY <1>1, <1>2, <1>5, <1>12, <1>30, <2>1, OpLine
  <2>5. Goes(Source!firstFrom(k + 1), [src.r EXCEPT ![5] = v], src.mem, src.stdin, src.stdout)
    BY <1>2, <1>3, <2>2, <2>4
  <2> QED
    BY ONLY <2>3, <2>5, <1>13
<1>31. CASE k = 55
  <2>1. script[k] = mov(2, 5)
    BY <1>1, <1>31, SearchLine
  <2>2. PICK v : v = f[5]
    OBVIOUS
  <2>3. halves(56, with(f, 2, v)) /\ 56 = nextLine(k) /\ 56 \in 36..57 /\ 2 \in {1, 2, 4, 5, 10}
    BY <1>5, <1>8, <1>12, <1>31, <2>2
  <2>4. Goes(Source!firstFrom(k + 1), [src.r EXCEPT ![2] = src.r[5]], src.mem, src.stdin,
             src.stdout)
    BY <1>1, <2>1, CopyLine
  <2>5. Goes(Source!firstFrom(k + 1), [src.r EXCEPT ![2] = v], src.mem, src.stdin, src.stdout)
    BY <1>2, <1>3, <2>2, <2>4
  <2> QED
    BY ONLY <2>3, <2>5, <1>13
<1>32. CASE k = 56
  <2>1. script[k] = imm12("subi", 2, 1)
    BY <1>1, <1>32, SearchLine
  <2>2. PICK v : v = ull(f[2] - 1)
    OBVIOUS
  <2>3. halves(57, with(f, 2, v)) /\ 57 = nextLine(k) /\ 57 \in 36..57 /\ 2 \in {1, 2, 4, 5, 10}
    BY <1>5, <1>8, <1>12, <1>32, <2>2
  <2>4. Goes(Source!firstFrom(k + 1), [src.r EXCEPT ![2] = ull(src.r[2] - 1)], src.mem, src.stdin,
             src.stdout)
    BY <1>1, <2>1, ImmLine
  <2>5. Goes(Source!firstFrom(k + 1), [src.r EXCEPT ![2] = v], src.mem, src.stdin, src.stdout)
    BY <1>2, <1>3, <2>2, <2>4
  <2> QED
    BY ONLY <2>3, <2>5, <1>13
<1>33. CASE k = 57
  <2>1. script[k] = goto(6)[1]
    BY <1>1, <1>33, SearchLine
  <2>2. Goes(36, f, m, i, o)
    <3>1. 36 \in Source!places /\ Source!startOf(36) = src.r[6] /\ Source!startOf(36) < MEM_SIZE
      BY <1>2, <1>6, <1>7
    <3> QED
      BY <1>1, <1>2, <1>3, <2>1, <3>1, GotoLine
  <2>3. halves(36, f)
    BY <1>5, <1>12, <1>33
  <2> QED
    BY <1>4, <2>2, <2>3, HalvingJumps
<1>34. k \in (36..45) \cup (47..51) \cup (53..57)
  BY <1>1 DEF labelLines
<1> QED
  BY <1>14, <1>15, <1>16, <1>17, <1>18, <1>19, <1>20, <1>21, <1>22,
     <1>23, <1>24, <1>25, <1>26, <1>27, <1>28, <1>29, <1>30, <1>31, <1>32, <1>33, <1>34

---------------------------------------------------------------------------
(* Printing *)

\* What the letters are.
LEMMA Letters ==
  /\ present => /\ DOMAIN letters = 1..5
                /\ letters[1] = 102 /\ letters[2] = 111 /\ letters[3] = 117
                /\ letters[4] = 110 /\ letters[5] = 100
  /\ ~present => /\ DOMAIN letters = 1..9
                 /\ letters[1] = 110 /\ letters[2] = 111 /\ letters[3] = 116 /\ letters[4] = 32
                 /\ letters[5] = 102 /\ letters[6] = 111 /\ letters[7] = 117
                 /\ letters[8] = 110 /\ letters[9] = 100
  BY DEF letters

\* One more of them.
LEMMA PrintOn ==
  ASSUME NEW o, NEW n \in 0..8, printed(o, n), NEW v, v \in 0..255, v = letters[n + 1],
         NEW q, q = Append(o, [k |-> "char", v |-> v % 256])
  PROVE  printed(q, n + 1)
<1>1. PICK ln : ln = [k |-> "char", v |-> v % 256]
  OBVIOUS
<1>2. v % 256 = v /\ v \in Values
  <2>1. v % 256 = v
    BY ONLY v \in 0..255
  <2>2. v \in 0..511
    OBVIOUS
  <2>3. v \in Values
    BY ONLY <2>2, SmallValues
  <2> QED
    BY <2>1, <2>3
<1>3. ln \in [k : {"number", "char"}, v : Values] /\ ln = [k |-> "char", v |-> v]
  BY <1>1, <1>2
<1>4. /\ o \in Seq([k : {"number", "char"}, v : Values]) /\ Len(o) = n
      /\ \A j \in 1..n : o[j] = [k |-> "char", v |-> letters[j]]
  BY DEF printed
<1>5. q = Append(o, ln)
  BY <1>1
<1>6. /\ q \in Seq([k : {"number", "char"}, v : Values]) /\ Len(q) = n + 1
      /\ q[n + 1] = ln /\ \A j \in 1..n : q[j] = o[j]
  BY <1>3, <1>4, <1>5
<1>7. ASSUME NEW j \in 1..(n + 1) PROVE q[j] = [k |-> "char", v |-> letters[j]]
  <2>1. CASE j = n + 1
    BY <1>3, <1>6, <2>1
  <2>2. CASE j \in 1..n
    BY <1>4, <1>6, <2>2
  <2>3. j = n + 1 \/ j \in 1..n
    BY ONLY n \in 0..8, j \in 1..(n + 1)
  <2> QED
    BY <2>1, <2>2, <2>3
<1> QED
  BY <1>6, <1>7 DEF printed

\* All of them are the answer.
LEMMA PrintedAll ==
  ASSUME program = "binary_search", NEW o, printed(o, IF present THEN 5 ELSE 9)
  PROVE  o = answer
<1>1. PICK n, w : n = (IF present THEN 5 ELSE 9) /\ w = letters
  OBVIOUS
<1>2. n \in Nat /\ DOMAIN w = 1..n
  BY <1>1, Letters
<1>3. /\ o \in Seq([k : {"number", "char"}, v : Values]) /\ Len(o) = n
      /\ \A j \in 1..n : o[j] = [k |-> "char", v |-> w[j]]
  BY <1>1 DEF printed
<1>4. o = [j \in 1..n |-> [k |-> "char", v |-> w[j]]]
  BY <1>2, <1>3
<1>5. answer = text(w)
  BY <1>1 DEF answer, letters
<1> QED
  BY <1>2, <1>4, <1>5 DEF text

\* At its lines.
already(x) == IF x \in 59..68 THEN x - 59 ELSE x - 70

inPrinting(x, f, m, i, o) ==
  /\ consts(35, f) /\ printed(o, already(x))
  /\ present <=> x \notin 59..68

LEMMA SearchAtPrints ==
  ASSUME NEW x \in (59..68) \cup (70..75), NEW f, NEW m, NEW i, NEW o
  PROVE  searchAt(x, f, m, i, o) <=> inPrinting(x, f, m, i, o)
<1>1. /\ x \notin 1..8 /\ x \notin 10..14 /\ x \notin 15..34 /\ x \notin 36..57 /\ ~(x < 58)
      /\ x \in 59..75 /\ (x \in 70..75 <=> x \notin 59..68)
  OBVIOUS
<1>2. CASE x \in 59..68
  BY <1>1, <1>2 DEF searchAt, inPrinting, already
<1>3. CASE x \notin 59..68
  BY <1>1, <1>3 DEF searchAt, inPrinting, already
<1> QED
  BY <1>2, <1>3

\* What is printed where.
nextLetter(k, f, e) ==
  \E n \in 20..26 : script[k] = out(27, n) /\ f[n] \in 0..255 /\ f[n] = letters[e + 1]

LEMMA PrintLines ==
  ASSUME isSearch, NEW f, consts(35, f), NEW k \in (59..67) \cup (70..74), present <=> k >= 70,
         NEW e, e = already(k)
  PROVE  nextLetter(k, f, e)
<1>1. /\ f[20] = 110 /\ f[21] = 111 /\ f[22] = 116 /\ f[23] = 102 /\ f[24] = 117
      /\ f[25] = 100 /\ f[26] = 32
  BY ConstsAre
<1>2. script[k] = binary_search[k]
  BY SearchKinds
<1>3. CASE k \in 70..74
  <2>1. present /\ k \notin 59..68
    BY <1>3
  <2>2. /\ letters[1] = 102 /\ letters[2] = 111 /\ letters[3] = 117
        /\ letters[4] = 110 /\ letters[5] = 100
    BY <2>1, Letters
  <2>3. CASE k = 70
    <3>1. e = 0
      BY <2>3 DEF already
    <3> QED
      BY <1>1, <1>2, <2>2, <2>3, <3>1, SearchLine DEF nextLetter
  <2>4. CASE k = 71
    <3>1. e = 1
      BY <2>4 DEF already
    <3> QED
      BY <1>1, <1>2, <2>2, <2>4, <3>1, SearchLine DEF nextLetter
  <2>5. CASE k = 72
    <3>1. e = 2
      BY <2>5 DEF already
    <3> QED
      BY <1>1, <1>2, <2>2, <2>5, <3>1, SearchLine DEF nextLetter
  <2>6. CASE k = 73
    <3>1. e = 3
      BY <2>6 DEF already
    <3> QED
      BY <1>1, <1>2, <2>2, <2>6, <3>1, SearchLine DEF nextLetter
  <2>7. CASE k = 74
    <3>1. e = 4
      BY <2>7 DEF already
    <3> QED
      BY <1>1, <1>2, <2>2, <2>7, <3>1, SearchLine DEF nextLetter
  <2> QED
    BY <1>3, <2>3, <2>4, <2>5, <2>6, <2>7
<1>4. CASE k \in 59..67
  <2>1. ~present
    BY <1>4
  <2>2. /\ letters[1] = 110 /\ letters[2] = 111 /\ letters[3] = 116 /\ letters[4] = 32
        /\ letters[5] = 102 /\ letters[6] = 111 /\ letters[7] = 117
        /\ letters[8] = 110 /\ letters[9] = 100
    BY <2>1, Letters
  <2>3. CASE k = 59
    <3>1. e = 0
      BY <2>3 DEF already
    <3> QED
      BY <1>1, <1>2, <2>2, <2>3, <3>1, SearchLine DEF nextLetter
  <2>4. CASE k = 60
    <3>1. e = 1
      BY <2>4 DEF already
    <3> QED
      BY <1>1, <1>2, <2>2, <2>4, <3>1, SearchLine DEF nextLetter
  <2>5. CASE k = 61
    <3>1. e = 2
      BY <2>5 DEF already
    <3> QED
      BY <1>1, <1>2, <2>2, <2>5, <3>1, SearchLine DEF nextLetter
  <2>6. CASE k = 62
    <3>1. e = 3
      BY <2>6 DEF already
    <3> QED
      BY <1>1, <1>2, <2>2, <2>6, <3>1, SearchLine DEF nextLetter
  <2>7. CASE k = 63
    <3>1. e = 4
      BY <2>7 DEF already
    <3> QED
      BY <1>1, <1>2, <2>2, <2>7, <3>1, SearchLine DEF nextLetter
  <2>8. CASE k = 64
    <3>1. e = 5
      BY <2>8 DEF already
    <3> QED
      BY <1>1, <1>2, <2>2, <2>8, <3>1, SearchLine DEF nextLetter
  <2>9. CASE k = 65
    <3>1. e = 6
      BY <2>9 DEF already
    <3> QED
      BY <1>1, <1>2, <2>2, <2>9, <3>1, SearchLine DEF nextLetter
  <2>10. CASE k = 66
    <3>1. e = 7
      BY <2>10 DEF already
    <3> QED
      BY <1>1, <1>2, <2>2, <2>10, <3>1, SearchLine DEF nextLetter
  <2>11. CASE k = 67
    <3>1. e = 8
      BY <2>11 DEF already
    <3> QED
      BY <1>1, <1>2, <2>2, <2>11, <3>1, SearchLine DEF nextLetter
  <2>12. k \in {59, 60, 61, 62, 63, 64, 65, 66, 67}
    BY <1>4
  <2> QED
    BY <2>3, <2>4, <2>5, <2>6, <2>7, <2>8, <2>9, <2>10, <2>11, <2>12
<1> QED
  BY <1>3, <1>4

LEMMA SearchPrints ==
  ASSUME NEW k, SearchHere(k), Source!Next, k \in (59..68) \cup (70..75)
  PROVE  SearchGoesOn
<1>1. /\ isSearch /\ program = "binary_search" /\ At(k)
      /\ script[k] = binary_search[k]
      /\ searchAt(k, src.r, src.mem, src.stdin, src.stdout)
  BY SearchKinds DEF SearchHere, searchGood, isSearch
<1>2. PICK f, m, i, o : f = src.r /\ m = src.mem /\ i = src.stdin /\ o = src.stdout
  OBVIOUS
<1>3. inPrinting(k, f, m, i, o)
  <2>1. searchAt(k, f, m, i, o)
    BY <1>1, <1>2
  <2> QED
    BY <2>1, SearchAtPrints
<1>4. PICK e : e = already(k)
  OBVIOUS
<1>5. consts(35, f) /\ printed(o, e) /\ (present <=> k \notin 59..68)
  BY <1>3, <1>4 DEF inPrinting
<1>6. CASE k \in {68, 75}
  <2>1. script[k] = halt
    BY <1>1, <1>6, SearchLine
  <2>2. src'.status = "halted" /\ src'.stdout = o
    BY <1>1, <1>2, <2>1, EndLine
  <2>3. e = IF present THEN 5 ELSE 9
    BY <1>4, <1>5, <1>6 DEF already
  <2>4. printed(o, IF present THEN 5 ELSE 9)
    BY <1>5, <2>3
  <2>5. o = answer
    BY <1>1, <2>4, PrintedAll
  <2> QED
    BY <2>2, <2>5 DEF SearchGoesOn
<1>7. CASE k \in (59..67) \cup (70..74)
  <2>1. present <=> k >= 70
    BY <1>5, <1>7
  <2>2. PICK n \in 20..26 : script[k] = out(27, n) /\ f[n] \in 0..255 /\ f[n] = letters[e + 1]
    <3>1. isSearch
      BY <1>1
    <3>2. consts(35, f)
      BY <1>5
    <3>3. nextLetter(k, f, e)
      BY ONLY <1>4, <1>7, <2>1, <3>1, <3>2, PrintLines
    <3> QED
      BY <3>3 DEF nextLetter
  <2>3. f[27] = 3
    BY <1>5, ConstsAre
  <2>4. src.r[27] = 3
    BY <1>2, <2>3
  <2>5. PICK v, q : v = f[n] /\ q = Append(o, [k |-> "char", v |-> v % 256])
    OBVIOUS
  <2>6. Goes(Source!firstFrom(k + 1), f, m, i, q)
    <3>1. q = Append(src.stdout, [k |-> "char", v |-> src.r[n] % 256])
      BY <1>2, <2>5
    <3>2. At(k) /\ script[k] = out(27, n)
      BY <1>1, <2>2
    <3>3. Goes(Source!firstFrom(k + 1), src.r, src.mem, src.stdin, q)
      BY ONLY Source!Next, <2>4, <3>1, <3>2, OutLetter, ZenonT(40)
    <3> QED
      BY <1>2, <3>3
  <2>7. e \in 0..8
    BY <1>4, <1>7 DEF already
  <2>8. printed(q, e + 1)
    BY ONLY <1>5, <2>2, <2>5, <2>7, PrintOn
  <2>9. walks(k) /\ nextLine(k) = k + 1
    BY <1>7 DEF walks, nextLine, labelLines
  <2>10. PICK x \in (59..68) \cup (70..75) : x = k + 1
    BY <1>7
  <2>11. inPrinting(x, f, m, i, q)
    <3>1. e + 1 = already(x) /\ (x \in 59..68 <=> k \in 59..68)
      BY <1>4, <1>7, <2>10 DEF already
    <3> QED
      BY <1>5, <2>8, <3>1 DEF inPrinting
  <2>12. searchAt(x, f, m, i, q)
    BY <2>11, SearchAtPrints
  <2>13. x = nextLine(k)
    BY <2>9, <2>10
  <2> QED
    BY ONLY SearchHere(k), <2>6, <2>9, <2>12, <2>13, SearchArrives
<1> QED
  BY <1>6, <1>7

---------------------------------------------------------------------------
(* The search *)

\* Every line of the search leads to a good one, to the answer, or fails for lack of room.
LEMMA SearchStep ==
  ASSUME NEW k, SearchHere(k), Source!Next
  PROVE  SearchGoesOn
<1>1. k \in (1..75) \ labelLines
  BY DEF SearchHere, searchGood
<1>2. k \in 1..8 \/ k \in 10..14 \/ k \in 15..34 \/ k \in 36..57 \/ k \in (59..68) \cup (70..75)
  BY <1>1 DEF labelLines
<1> QED
  BY <1>2, SearchOpens, SearchReads, SearchPrepares, SearchHalves, SearchPrints

---------------------------------------------------------------------------
(* A program that runs, and the history of its script *)

\* The programs, followed line by line: script and src only record.
RecordedInit ==
  /\ ProgInit /\ script = scripts[program]
  /\ src = [status |-> "ready", at |-> Source!firstFrom(1), r |-> [r EXCEPT ![31] = MEM_SIZE],
            mem |-> loaded(file), stdin |-> stdin, stdout |-> <<>>]
RecordedNext == ProgNext /\ Observe /\ UNCHANGED script
RecordedVars == <<progVars, script, src>>
RecordedSpec == RecordedInit /\ [][RecordedNext]_RecordedVars

\* What does not change.
Given == /\ program \in DOMAIN scripts /\ script = scripts[program] /\ expected(program, input)
         /\ CODE_BASE + Len(file.code) <= ARRAY

\* Where a line of the script is reached, this holds.
goodAt(k, f, m, i, o) ==
  IF program = "binary_search" THEN searchGood(k, f, m, i, o) ELSE fibGood(k, f, i, o)

\* The history x, with the status, the stack register and the output of the machine.
holds(x, st, sp, o) ==
  /\ x.status # "wild"
  /\ x.status = "ready" => x.stdin = input /\ x.stdout = <<>> /\ sp = 0
  /\ x.status = "running" => goodAt(x.at, x.r, x.mem, x.stdin, x.stdout)
  /\ x.status \in {"halted", "error"} => st = x.status
  /\ st = "halted" => x.status = "halted" /\ o = answer
  /\ st = "error" /\ sp = MEM_SIZE => x.status = "error" /\ program = "binary_search" /\ noRoom

Good == \E x, st, sp, o : x = src /\ st = status /\ sp = r[31] /\ o = stdout /\ holds(x, st, sp, o)

GoodThen == holds(src', status', r'[31], stdout')

RecordedInv == ToolInv /\ Given /\ Good

LEMMA GoodHere == Good => holds(src, status, r[31], stdout)
  BY DEF Good

\* What is said of the program alone stays so.
LEMMA InputStays ==
  ASSUME UNCHANGED <<program, input>>
  PROVE  /\ \A n : line(n)' = line(n)
         /\ count' = count /\ present' = present /\ answer' = answer /\ stores' = stores
         /\ letters' = letters /\ noRoom' = noRoom
<1>1. \A n : line(n)' = line(n)
  BY DEF line
<1>2. count' = count
  BY DEF count, line
<1>3. present' = present
  BY DEF present, count, line
<1>4. answer' = answer
  BY <1>3 DEF answer, line
<1>5. stores' = stores
  BY <1>2 DEF stores
<1>6. letters' = letters
  BY <1>3 DEF letters
<1>7. noRoom' = noRoom
  BY <1>2 DEF noRoom
<1> QED
  BY <1>1, <1>2, <1>3, <1>4, <1>5, <1>6, <1>7

LEMMA FibStays ==
  ASSUME UNCHANGED <<program, input, script>>, NEW k, NEW f, NEW i, NEW o
  PROVE  fibGood(k, f, i, o)' = fibGood(k, f, i, o)
<1>1. \A n : line(n)' = line(n)
  BY InputStays
<1>2. answer' = answer
  BY InputStays
<1>3. \A n : Source!startOf(n)' = Source!startOf(n)
  BY Unmoved
<1>4. \A x, n : fibRound(x, f, n)' = fibRound(x, f, n)
  BY <1>1, <1>3 DEF fibRound
<1>5. spot(k)' = spot(k)
  BY DEF spot
<1>6. \A x : fibAt(x, f, i, o)' = fibAt(x, f, i, o)
  BY <1>1, <1>2, <1>4 DEF fibAt
<1> QED
  BY <1>5, <1>6 DEF fibGood

LEMMA SearchStays ==
  ASSUME UNCHANGED <<program, input, script>>, NEW k, NEW f, NEW m, NEW i, NEW o
  PROVE  searchGood(k, f, m, i, o)' = searchGood(k, f, m, i, o)
<1>1. \A n : line(n)' = line(n)
  BY InputStays
<1>2. /\ count' = count /\ present' = present /\ answer' = answer /\ stores' = stores
      /\ letters' = letters
  BY InputStays
<1>3. \A n : Source!startOf(n)' = Source!startOf(n)
  BY Unmoved
<1>4. \A n : after(i, n)' = after(i, n)
  BY DEF after
<1>5. \A n : stored(m, n)' = stored(m, n)
  BY <1>1 DEF stored
<1>6. \A x : begins(x, f)' = begins(x, f)
  BY <1>2, <1>3 DEF begins
<1>7. \A x, e : reads(x, f, m, i, e)' = reads(x, f, m, i, e)
  BY <1>1, <1>2, <1>3, <1>4, <1>5 DEF reads
<1>8. \A j : constVal(j)' = constVal(j)
  BY <1>1, <1>2, <1>3 DEF constVal
<1>9. \A x : consts(x, f)' = consts(x, f)
  BY <1>8 DEF consts
<1>10. \A x : prepares(x, f, m, i)' = prepares(x, f, m, i)
  BY <1>2, <1>4, <1>5, <1>9 DEF prepares
<1>11. \A y, q : bounds(y, q)' = bounds(y, q)
  BY <1>1, <1>2 DEF bounds
<1>12. \A x : halves(x, f)' = halves(x, f)
  BY <1>1, <1>2, <1>11 DEF halves
<1>13. \A n : printed(o, n)' = printed(o, n)
  BY <1>2 DEF printed
<1>14. ASSUME NEW x PROVE searchAt(x, f, m, i, o)' = searchAt(x, f, m, i, o)
  <2>1. (x \in 1..8 => begins(x, f) /\ (IF x <= 3 THEN i = input ELSE after(i, 1)))'
          = (x \in 1..8 => begins(x, f) /\ (IF x <= 3 THEN i = input ELSE after(i, 1)))
    BY <1>4, <1>6
  <2>2. (x \in 10..14 => \E e : reads(x, f, m, i, e))'
          = (x \in 10..14 => \E e : reads(x, f, m, i, e))
    BY <1>7
  <2>3. stored(m, count)' = stored(m, count)
    BY <1>2, <1>5
  <2>4. consts(35, f)' = consts(35, f)
    BY <1>9
  <2>5. (x \in 36..57 => consts(35, f) /\ stored(m, count) /\ count # 0 /\ halves(x, f))'
          = (x \in 36..57 => consts(35, f) /\ stored(m, count) /\ count # 0 /\ halves(x, f))
    BY <1>2, <1>12, <2>3, <2>4
  <2>6. (x \in 59..68 => ~present /\ printed(o, x - 59))'
          = (x \in 59..68 => ~present /\ printed(o, x - 59))
    BY <1>2, <1>13
  <2>7. (x \in 70..75 => present /\ printed(o, x - 70))'
          = (x \in 70..75 => present /\ printed(o, x - 70))
    BY <1>2, <1>13
  <2> QED
    BY <1>10, <2>1, <2>2, <2>4, <2>5, <2>6, <2>7 DEF searchAt
<1> QED
  BY <1>14 DEF searchGood

LEMMA GoodStays ==
  ASSUME UNCHANGED <<program, input, script>>, GoodThen
  PROVE  Good'
<1>1. PICK x, st, sp, o :
        x = src' /\ st = status' /\ sp = r'[31] /\ o = stdout' /\ holds(x, st, sp, o)
  BY DEF GoodThen
<1>2. \A k, f, m, i, q : goodAt(k, f, m, i, q)' = goodAt(k, f, m, i, q)
  BY FibStays, SearchStays DEF goodAt
<1>3. holds(x, st, sp, o)'
  BY <1>1, <1>2, InputStays DEF holds
<1> QED
  BY <1>1, <1>3 DEF Good

\* A line of the program that runs leads to a good one, or ends the run as it should.
LEMMA RunsOn ==
  ASSUME RecordedInv, src.status = "running", Source!Next
  PROVE  \/ /\ src'.status = "running"
            /\ goodAt(src'.at, src'.r, src'.mem, src'.stdin, src'.stdout)
         \/ src'.status = "halted" /\ src'.stdout = answer
         \/ src'.status = "error" /\ program = "binary_search" /\ noRoom
<1>1. /\ Assembled /\ Given /\ tracks(src, status, pc, r, mem, stdin, stdout)
      /\ holds(src, status, r[31], stdout)
  BY AgreesHere, GoodHere DEF RecordedInv, ToolInv
<1>2. /\ src.r \in [0..31 -> Values] /\ src.mem \in [Addresses -> Byte] /\ script \in Scripts
  BY <1>1 DEF tracks, SrcStates, Assembled
<1>3. /\ goodAt(src.at, src.r, src.mem, src.stdin, src.stdout)
      /\ program \in {"fibonacci", "fibbonacci", "binary_search"}
  BY <1>1 DEF holds, Given, scripts
<1>4. CASE program \in {"fibonacci", "fibbonacci"}
  <2>1. isFib /\ expected(program, input) /\ fibGood(src.at, src.r, src.stdin, src.stdout)
    BY <1>1, <1>3, <1>4 DEF isFib, Given, goodAt
  <2>2. src.at \in DOMAIN script
    BY <2>1 DEF fibGood
  <2>3. FibHere(src.at)
    BY <1>2, <2>1, <2>2 DEF FibHere, At
  <2>4. FibGoesOn
    BY ONLY <2>3, Source!Next, FibStep
  <2> QED
    BY <1>4, <2>4 DEF FibGoesOn, goodAt
<1>5. CASE program = "binary_search"
  <2>1. /\ isSearch /\ expected(program, input) /\ CODE_BASE + Len(file.code) <= ARRAY
        /\ searchGood(src.at, src.r, src.mem, src.stdin, src.stdout)
    BY <1>1, <1>3, <1>5 DEF isSearch, Given, goodAt
  <2>2. src.at \in DOMAIN script
    BY <2>1, SearchLine DEF searchGood, isSearch, scripts
  <2>3. SearchHere(src.at)
    BY <1>2, <2>1, <2>2 DEF SearchHere, At
  <2>4. SearchGoesOn
    BY ONLY <2>3, Source!Next, SearchStep
  <2> QED
    BY <1>5, <2>4 DEF SearchGoesOn, goodAt, Fails
<1> QED
  BY <1>3, <1>4, <1>5

\* The first line of every program asks for nothing.
LEMMA FirstLine ==
  ASSUME Assembled, Given
  PROVE  Source!firstFrom(1) = 1 /\ \A f, m : goodAt(1, f, m, input, <<>>)
<1>1. /\ script = scripts[program] /\ script \in Scripts
      /\ program \in {"fibonacci", "fibbonacci", "binary_search"}
  BY DEF Assembled, Given, scripts
<1>2. 1 \in DOMAIN script /\ script[1].type = 0
  <2>1. CASE program \in {"fibonacci", "fibbonacci"}
    <3>1. isFib
      BY <1>1, <2>1 DEF isFib
    <3>2. 1 \in DOMAIN script /\ spot(1) = 1
      BY <3>1, FibLines DEF spot
    <3>3. script[1] = fibonacci[1] /\ fibonacci[1] = set(10, Lit(0))
      BY <3>1, <3>2, FibLines DEF fibonacci, fibStart
    <3> QED
      BY <3>2, <3>3 DEF set, Do
  <2>2. CASE program = "binary_search"
    <3>1. script = binary_search
      BY <1>1, <2>2 DEF scripts
    <3> QED
      BY <3>1, SearchLine DEF set, Do
  <2> QED
    BY <1>1, <2>1, <2>2
<1>3. Source!firstFrom(1) = 1
  <2>1. 0 + 1 = 1 /\ 0 \in Nat
    OBVIOUS
  <2>2. Source!firstFrom(0 + 1) = 0 + 1
    BY ONLY <1>1, <1>2, <2>1, NextPlace
  <2> QED
    BY <2>1, <2>2
<1>4. ASSUME NEW f, NEW m PROVE goodAt(1, f, m, input, <<>>)
  <2>1. CASE program \in {"fibonacci", "fibbonacci"}
    <3>1. spot(1) = 1
      BY DEF spot
    <3>2. fibAt(1, f, input, <<>>)
      BY DEF fibAt
    <3> QED
      BY <1>2, <2>1, <3>1, <3>2 DEF goodAt, fibGood
  <2>2. CASE program = "binary_search"
    <3>1. searchAt(1, f, m, input, <<>>)
      BY DEF searchAt, begins
    <3>2. 1 \in (1..75) \ labelLines
      BY DEF labelLines
    <3> QED
      BY <2>2, <3>1, <3>2 DEF goodAt, searchGood
  <2> QED
    BY <1>1, <2>1, <2>2
<1> QED
  BY <1>3, <1>4

\* The copies of the assembler's promises for the program and for the recorded script.
LEMMA AsmMacros ==
  /\ \A c, args, tab : Asm!expandMacro(c, args, tab) = expandMacro(c, args, tab)
  /\ \A args, tab : Asm!replaceLabel(args, tab) = replaceLabel(args, tab)
<1>1. \A c, args, tab : Asm!expandMacro(c, args, tab) = expandMacro(c, args, tab)
  BY DEF Asm!expandMacro, expandMacro, Asm!xor, xor, Asm!priv, priv, Asm!push, push,
         Asm!pop, pop, Asm!ld, ld, Asm!ldValue, ldValue, Asm!registerOf, registerOf,
         Asm!looseRegister, looseRegister, Asm!Instr, Instr, Asm!Reg, Reg, Asm!Lit, Lit,
         Asm!Mem, Mem, Asm!slot, slot, Asm!isRegister, isRegister, Asm!NREGS, NREGS,
         Asm!NoLabel, NoLabel, Asm!parseLiteral, parseLiteral, Asm!getintAddress,
         getintAddress, Asm!Found, Found
<1>2. \A args, tab : Asm!replaceLabel(args, tab) = replaceLabel(args, tab)
  BY DEF Asm!replaceLabel, replaceLabel, Asm!labelArgs, labelArgs, Asm!isLabelArg,
         isLabelArg, Asm!withLast, withLast, Asm!Lit, Lit, Asm!NoLabel, NoLabel,
         Asm!getintAddress, getintAddress, Asm!Found, Found
<1> QED
  BY <1>1, <1>2

LEMMA AsmEncoder ==
  /\ \A c, args : Asm!getInstruction(c, args) = getInstruction(c, args)
  /\ \A w : Asm!Encoded(w) = Encoded(w)
<1>1. \A c, args : Asm!getInstruction(c, args) = getInstruction(c, args)
  BY DEF Asm!getInstruction, getInstruction, Asm!getMovInstruction, getMovInstruction,
         Asm!getBrrInstruction, getBrrInstruction, Asm!getPlainInstruction,
         getPlainInstruction, Asm!movMem, movMem, Asm!movLit, movLit, Asm!slot, slot,
         Asm!Lit, Lit, Asm!NoLabel, NoLabel, Asm!instructionList, instructionList,
         Asm!isRegister, isRegister, Asm!NREGS, NREGS, Asm!Encoded, Encoded, Asm!Exit,
         Exit, Asm!Error, Error, Asm!NoWord, NoWord, Asm!build_instruction,
         build_instruction, Asm!parseLiteral, parseLiteral, Asm!toInt, toInt,
         Asm!toLL, toLL, Asm!checkSigned, checkSigned, Asm!checkUnsigned, checkUnsigned,
         Asm!arglenth, arglenth, Asm!hasLit, hasLit, Asm!asmOpcode, asmOpcode
<1>2. \A w : Asm!Encoded(w) = Encoded(w)
  BY DEF Asm!Encoded, Encoded, Asm!NoWord, NoWord
<1> QED
  BY <1>1, <1>2

LEMMA AsmIsTarget ==
  ASSUME script = scripts[program]
  PROVE  Asm!meaning = Target!meaning /\ \A its : Asm!isImage(its) <=> Target!isImage(its)
<1>1. /\ \A n : Asm!codeUpTo(n) = Target!codeUpTo(n)
      /\ \A n : Asm!dataUpTo(n) = Target!dataUpTo(n)
  <2>1. \A S : Asm!Cardinality(S) = Target!Cardinality(S)
    BY DEF Asm!Cardinality, Target!Cardinality
  <2>2. \A k : Asm!words(k) = Target!words(k)
    BY DEF Asm!words, Target!words, Asm!cnt, Target!cnt
  <2> QED
    BY <2>1, <2>2 DEF Asm!codeUpTo, Target!codeUpTo, Asm!dataUpTo, Target!dataUpTo
<1>2. Asm!meaning = Target!meaning
  <2>1. \A k : Asm!address(k) = Target!address(k)
    BY <1>1 DEF Asm!address, Target!address
  <2>2. Asm!names = Target!names /\ \A l : Asm!itemsOf(l) = Target!itemsOf(l)
    BY DEF Asm!names, Target!names, Asm!itemsOf, Target!itemsOf, Asm!next, Target!next,
       Asm!written, Target!written, Asm!isItem, Target!isItem
  <2>3. \A S : Asm!Min(S) = Target!Min(S)
    BY DEF Asm!Min, Target!Min
  <2> QED
    BY <2>1, <2>2, <2>3 DEF Asm!meaning, Target!meaning
<1>3. \A c, args, tab, ws : Asm!encodes(c, args, tab, ws) <=> Target!encodes(c, args, tab, ws)
  BY AsmMacros, SameMacros, AsmEncoder, SameEncoder, ZenonT(40) DEF Asm!encodes, Target!encodes
<1>4. Asm!SetToSeq(Asm!meaning) = Target!SetToSeq(Target!meaning)
  BY <1>1, <1>2 DEF Asm!SetToSeq, Target!SetToSeq, Asm!IsInjective, Target!IsInjective,
     Asm!Cardinality, Target!Cardinality
<1>5. ASSUME NEW its PROVE Asm!isImage(its) <=> Target!isImage(its)
  BY <1>1, <1>3, <1>4 DEF Asm!isImage, Target!isImage
<1> QED
  BY <1>2, <1>5

\* The scripts of the programs are among those that are run.
TinkerScripts == \A pg \in DOMAIN scripts : scripts[pg] \in Scripts

LEMMA RecordedStarts ==
  ASSUME TinkerScripts
  PROVE  RecordedInit => RecordedInv
<1> SUFFICES ASSUME RecordedInit PROVE RecordedInv
  OBVIOUS
<1>1. /\ program \in DOMAIN scripts /\ CODE_BASE + Len(file.code) <= ARRAY /\ Idle
      /\ expected(program, stdin) /\ input = stdin /\ script = scripts[program] /\ script \in Scripts
  BY DEF RecordedInit, ProgInit, TinkerScripts
<1>2. Given
  BY <1>1 DEF Given
<1>3. stdin \in Seq(Line)
  BY <1>1 DEF expected
<1>4. ToolInv
  <2>1. items(scripts[program], Asm!meaning) = built
    BY <1>1, AsmIsTarget DEF built
  <2>2. Asm!isImage(built) /\ file = imageOf(built) /\ hasRoom(built)
    BY <2>1 DEF RecordedInit, ProgInit
  <2>3. Target!isImage(built)
    BY <1>1, <2>2, AsmIsTarget
  <2>4. \E its \in {items(script, Target!meaning)} :
          Target!isImage(its) /\ hasRoom(its) /\ file = imageOf(its)
    BY <2>2, <2>3 DEF built
  <2>5. ToolInit
    BY <1>1, <2>4 DEF RecordedInit, ToolInit
  <2> QED
    BY <1>3, <2>5, ToolStarts
<1>5. src.status = "ready" /\ src.stdin = stdin /\ src.stdout = <<>>
  BY DEF RecordedInit
<1>6. status = "start" /\ r[31] = 0
  BY <1>1 DEF Idle, NREGS
<1>7. holds(src, status, r[31], stdout)
  BY <1>1, <1>5, <1>6, Sizes DEF holds
<1>8. Good
  BY <1>7 DEF Good
<1> QED
  BY <1>2, <1>4, <1>8 DEF RecordedInv

\* The load, or a file that does not open, which leaves r31 at 0.
LEMMA GoodLoad ==
  ASSUME RecordedInv, src.status = "ready", Next, Observe
  PROVE  GoodThen
<1>1. /\ Assembled /\ Given /\ src \in SrcStates /\ status = "start"
      /\ src.at = Source!firstFrom(1) /\ holds(src, status, r[31], stdout)
      /\ r \in [0..31 -> Values]
  <2>1. tracks(src, status, pc, r, mem, stdin, stdout) /\ holds(src, status, r[31], stdout)
    BY AgreesHere, GoodHere DEF RecordedInv, ToolInv
  <2> QED
    BY <2>1, RegisterType DEF RecordedInv, ToolInv, Waiting, tracks, SimInv
<1>2. /\ src.stdin = input /\ src.stdout = <<>> /\ r[31] = 0
  BY <1>1 DEF holds
<1>3. src' = [src EXCEPT !.status = status']
  BY DEF Observe
<1>4. /\ src'.status = status' /\ src'.at = src.at /\ src'.r = src.r /\ src'.mem = src.mem
      /\ src'.stdin = src.stdin /\ src'.stdout = src.stdout
  <2>1. src' = [status |-> status', at |-> src.at, r |-> src.r, mem |-> src.mem,
                stdin |-> src.stdin, stdout |-> src.stdout]
    BY <1>1, <1>3, SrcFields
  <2> QED
    BY ONLY <2>1
<1>5. NoFile \/ Load
  <2>1. fits(file.entry, file.code) /\ fits(file.at, file.data)
    BY <1>1, LoadedImage
  <2>2. ~LoadOverrun /\ status # "running" /\ ~Ended
    BY <1>1, <2>1 DEF LoadOverrun, Ended
  <2> QED
    BY <2>2 DEF Next, Starting, BadFetch, BadOpcode, Compute, DivideByZero, Moving, ReadWord,
        WriteWord, BadAddress, Branching, Branch, BranchRelative, Call, BadCall, Return, Private,
        Halt, Input, BadInput, Output, BadPriv, Runs
<1>6. \A f, m : goodAt(1, f, m, input, <<>>)
  BY <1>1, FirstLine
<1>7. CASE NoFile
  <2>1. status' = "error" /\ r' = r
    BY <1>7 DEF NoFile, simErr, machine
  <2>2. r'[31] # MEM_SIZE
    BY <1>2, <2>1, Sizes
  <2> QED
    BY <1>4, <2>1, <2>2 DEF GoodThen, holds
<1>8. CASE Load
  <2>1. status' = "running"
    BY <1>8 DEF Load
  <2>2. src'.at = 1
    BY <1>1, <1>4, FirstLine
  <2>3. goodAt(src'.at, src'.r, src'.mem, src'.stdin, src'.stdout)
    BY <1>2, <1>4, <1>6, <2>2
  <2> QED
    BY <1>4, <2>1, <2>3 DEF GoodThen, holds
<1> QED
  BY <1>5, <1>7, <1>8

\* Between two lines, or in one, the machine and its history end alike.
LEMMA GoodRun ==
  ASSUME RecordedInv, src.status = "running", Observe, Source!Next \/ UNCHANGED Source!vars
  PROVE  GoodThen
<1>1. src \in SrcStates /\ goodAt(src.at, src.r, src.mem, src.stdin, src.stdout)
  <2>1. tracks(src, status, pc, r, mem, stdin, stdout) /\ holds(src, status, r[31], stdout)
    BY AgreesHere, GoodHere DEF RecordedInv, ToolInv
  <2> QED
    BY <2>1 DEF tracks, holds
<1>2. \/ /\ src'.status = "running"
         /\ goodAt(src'.at, src'.r, src'.mem, src'.stdin, src'.stdout)
      \/ src'.status = "halted" /\ src'.stdout = answer
      \/ src'.status = "error" /\ program = "binary_search" /\ noRoom
  <2>1. CASE Source!Next
    BY <2>1, RunsOn
  <2>2. CASE UNCHANGED Source!vars
    <3>1. /\ src'.status = src.status /\ src'.at = src.at /\ src'.r = src.r /\ src'.mem = src.mem
          /\ src'.stdin = src.stdin /\ src'.stdout = src.stdout
      BY <2>2 DEF Source!vars, Source!world
    <3> QED
      BY <1>1, <3>1
  <2> QED
    BY <2>1, <2>2
<1>3. status' = src'.status /\ (src'.status = "halted" => stdout' = src'.stdout)
  <2>1. src'.status # "wild"
    BY <1>2
  <2>2. ASSUME src' = [src EXCEPT !.status = "wild"] PROVE FALSE
    BY <1>1, <2>1, <2>2, WildTyped
  <2>3. ASSUME NEW st, NEW k, src' = now(st, k), st = status'
        PROVE  status' = src'.status /\ stdout' = src'.stdout
    BY <2>3, NowFields
  <2>4. ASSUME src' = [now("wild", src.at) EXCEPT !.r = src.r] PROVE FALSE
    BY <2>1, <2>4 DEF now
  <2> QED
    BY <2>2, <2>3, <2>4 DEF Observe
<1> QED
  BY <1>2, <1>3 DEF GoodThen, holds

LEMMA RecordedStep ==
  ASSUME RecordedInv, RecordedNext
  PROVE  RecordedInv'
<1>1. /\ Next /\ Observe /\ UNCHANGED <<program, input, script>>
      /\ ToolInv /\ Given /\ holds(src, status, r[31], stdout)
      /\ tracks(src, status, pc, r, mem, stdin, stdout)
  BY AgreesHere, GoodHere DEF RecordedNext, ProgNext, RecordedInv, ToolInv
<1>2. ToolNext
  BY <1>1 DEF holds, ToolNext
<1>3. ToolInv' /\ (Source!Next \/ UNCHANGED Source!vars)
  BY <1>1, <1>2, ToolStep
<1>4. Given'
  BY <1>1, FileStays DEF Given, expected
<1>5. GoodThen
  <2>1. CASE src.status = "ready"
    BY <1>1, <2>1, GoodLoad
  <2>2. CASE src.status = "running"
    BY <1>1, <1>3, <2>2, GoodRun
  <2>3. CASE src.status \in {"halted", "error"}
    <3>1. src' = src /\ status = src.status
      BY <1>1, <2>3 DEF Observe, holds
    <3>2. ~Starting /\ status # "running"
      BY <2>3, <3>1 DEF Starting, NoFile, Load, LoadOverrun
    <3>3. Ended
      BY <1>1, <3>2 DEF Next, BadFetch, BadOpcode, Compute, DivideByZero, Moving, ReadWord,
          WriteWord, BadAddress, Branching, Branch, BranchRelative, Call, BadCall, Return, Private,
          Halt, Input, BadInput, Output, BadPriv, Runs
    <3>4. status' = status /\ r' = r /\ stdout' = stdout
      BY <3>3 DEF Ended, vars, files, machine
    <3> QED
      BY <1>1, <3>1, <3>4 DEF GoodThen
  <2>4. src.status \in {"ready", "running", "halted", "error"}
    BY <1>1 DEF tracks, SrcStates, holds
  <2> QED
    BY <2>1, <2>2, <2>3, <2>4
<1>6. Good'
  BY <1>1, <1>5, GoodStays
<1> QED
  BY <1>3, <1>4, <1>6 DEF RecordedInv

LEMMA RecordedStutters ==
  ASSUME RecordedInv, UNCHANGED RecordedVars
  PROVE  RecordedInv'
<1>1. UNCHANGED <<program, input, script>> /\ UNCHANGED toolVars
  BY DEF RecordedVars, progVars, toolVars
<1>2. src' = src /\ status' = status /\ r' = r /\ stdout' = stdout /\ file' = file
  BY <1>1 DEF toolVars, vars, files, machine
<1>3. ToolInv'
  BY <1>1, ToolStutters DEF RecordedInv
<1>4. Given'
  BY <1>1, <1>2 DEF RecordedInv, Given, expected
<1>5. GoodThen
  BY <1>2, GoodHere DEF RecordedInv, GoodThen
<1>6. Good'
  BY <1>1, <1>5, GoodStays
<1> QED
  BY <1>3, <1>4, <1>6 DEF RecordedInv

LEMMA RecordedGood ==
  ASSUME TinkerScripts
  PROVE  RecordedSpec => []RecordedInv
<1>1. RecordedInit => RecordedInv
  BY RecordedStarts
<1>2. RecordedInv /\ [RecordedNext]_RecordedVars => RecordedInv'
  BY RecordedStep, RecordedStutters
<1> QED
  BY <1>1, <1>2, PTL DEF RecordedSpec

---------------------------------------------------------------------------
(* The history says nothing of its own *)

\* The records the history may become in a step.
Recording(y) ==
  \/ src.status = "ready" /\ y = [src EXCEPT !.status = status']
  \/ src.status \in {"halted", "error"} /\ y = src
  \/ /\ src.status = "running" /\ (ranOut \/ rewritesCode)
     /\ y = [src EXCEPT !.status = "wild"]
  \/ /\ src.status = "running" /\ ~ranOut /\ ~rewritesCode
     /\ \/ status' \in {"halted", "error"} /\ y = now(status', src.at)
        \/ status' = "running" /\ \E k \in placesAt(pc') : y = now("running", k)
        \/ /\ status' = "running" /\ placesAt(pc') = {}
           /\ y = IF pc' \in inside(src.at) /\ pc' = pc + 4 THEN src
                  ELSE [now("wild", src.at) EXCEPT !.r = src.r]

LEMMA RecordingObserves == Observe <=> Recording(src')
  BY DEF Observe, Recording

LEMMA Recorded ==
  ASSUME RecordedInv, ProgNext
  PROVE  \E y : Recording(y)
<1>1. /\ tracks(src, status, pc, r, mem, stdin, stdout) /\ holds(src, status, r[31], stdout)
      /\ SimInv /\ Next
  BY AgreesHere, GoodHere DEF RecordedInv, ToolInv, ProgNext
<1>2. src.status \in {"ready", "running", "halted", "error"}
  BY <1>1 DEF tracks, SrcStates, holds
<1>3. CASE src.status \in {"ready", "halted", "error"}
  BY <1>3 DEF Recording
<1>4. CASE src.status = "running"
  <2>1. status = "running"
    BY <1>1, <1>4 DEF tracks
  <2>2. status' \in {"running", "halted", "error"}
    <3>1. status' \in {"start", "running", "halted", "error", "crashed"}
      BY <1>1, SimStep DEF SimInv, TypeOK
    <3>2. status' # "start" /\ status' # "crashed"
      BY <1>1, <2>1 DEF Next, Starting, NoFile, Load, LoadOverrun, simErr, BadFetch, BadOpcode,
         Compute, DivideByZero, Moving, ReadWord, WriteWord, BadAddress, Branching, Branch, Jump,
         BranchRelative, Call, BadCall, Return, Private, Halt, Input, BadInput, Output, BadPriv,
         Ended
    <3> QED
      BY <3>1, <3>2
  <2>3. CASE ranOut \/ rewritesCode
    BY <1>4, <2>3 DEF Recording
  <2>4. CASE ~ranOut /\ ~rewritesCode
    <3>1. CASE status' \in {"halted", "error"}
      BY <1>4, <2>4, <3>1 DEF Recording
    <3>2. CASE status' = "running" /\ placesAt(pc') = {}
      BY <1>4, <2>4, <3>2 DEF Recording
    <3>3. CASE status' = "running" /\ placesAt(pc') # {}
      <4>1. PICK k : k \in placesAt(pc')
        BY <3>3
      <4> QED
        BY <1>4, <2>4, <3>3, <4>1 DEF Recording
    <3> QED
      BY <2>2, <3>1, <3>2, <3>3
  <2> QED
    BY <2>3, <2>4
<1> QED
  BY <1>2, <1>3, <1>4

---------------------------------------------------------------------------
(* What the programs print *)

\* script and src only record: every step of a program that keeps the invariant has a value
\* of src' that Observe allows (RecordedSpec asks nothing of a run but ProgSpec's steps).
THEOREM EveryStepIsRecorded ==
  /\ RecordedInv /\ ProgNext => \E y : Recording(y)
  /\ Observe <=> Recording(src')
  BY Recorded, RecordingObserves

\* A program that halts has printed the answer: the Fibonacci number of its input modulo
\* the word, or whether the sorted array holds the value; for every such input, every
\* length of the array and every size of the memory and of the word.
THEOREM ProgramsAnswer ==
  ASSUME TinkerScripts
  PROVE  RecordedSpec => []AnswersRight
<1>1. RecordedInv => AnswersRight
  BY GoodHere DEF RecordedInv, holds, AnswersRight
<1> QED
  BY <1>1, RecordedGood, PTL

\* The Fibonacci programs never fail once they are loaded, and the search only for an
\* array of no element, or of more than memory holds behind ARRAY.
THEOREM ProgramsFailWithoutRoom ==
  ASSUME TinkerScripts
  PROVE  RecordedSpec => []FailsOnlyWithoutRoom
<1>1. RecordedInv => FailsOnlyWithoutRoom
  BY GoodHere DEF RecordedInv, holds, FailsOnlyWithoutRoom, noRoom
<1> QED
  BY <1>1, RecordedGood, PTL

\* No program writes into its code, runs past its last line or jumps between the words of
\* a macro: the premise under which its lines mean what they say always holds.
THEOREM ProgramsStayTame ==
  ASSUME TinkerScripts
  PROVE  RecordedSpec => [](src.status # "wild")
<1>1. RecordedInv => src.status # "wild"
  BY GoodHere DEF RecordedInv, holds
<1> QED
  BY <1>1, RecordedGood, PTL
=============================================================================
