--------------------------- MODULE ToolchainProofs ---------------------------
(***************************************************************************)
(* Assembled and simulated, every script of Scripts does what its lines    *)
(* say.                                                                    *)
(***************************************************************************)
EXTENDS SimulatorProofs, CommonProofs, Toolchain

---------------------------------------------------------------------------
(* The copies of operators that Source and Target have *)

LEMMA SameSizes ==
  /\ \A S : Source!Cardinality(S) = Cardinality(S) /\ Target!Cardinality(S) = Cardinality(S)
  /\ \A S : Source!Min(S) = Min(S) /\ Target!Min(S) = Min(S)
  /\ \A c : Source!cnt(c) = cnt(c) /\ Target!cnt(c) = cnt(c)
<1>1. \A S : Source!Cardinality(S) = Cardinality(S) /\ Target!Cardinality(S) = Cardinality(S)
  BY DEF Source!Cardinality, Target!Cardinality, Cardinality
<1>2. \A S : Source!Min(S) = Min(S) /\ Target!Min(S) = Min(S)
  BY DEF Source!Min, Target!Min, Min
<1>3. \A c : Source!cnt(c) = cnt(c) /\ Target!cnt(c) = cnt(c)
  BY DEF Source!cnt, Target!cnt, cnt
<1> QED
  BY <1>1, <1>2, <1>3

LEMMA SameMachine ==
  /\ \A x : Source!ull(x) = ull(x) /\ Source!toInt(x) = toInt(x)
  /\ \A x : Source!verifyAddress(x) = verifyAddress(x)
  /\ \A x, n : Source!verified(x, n) = verified(x, n) /\ Source!bytesAt(x, n) = bytesAt(x, n)
  /\ \A m, x : Source!readMem(m, x) = readMem(m, x)
  /\ \A m, x, v : Source!loadMem(m, x, v) = loadMem(m, x, v)
  /\ \A ln : Source!valueOf(ln) = valueOf(ln)
<1>1. \A x : Source!ull(x) = ull(x) /\ Source!toInt(x) = toInt(x)
  BY DEF Source!ull, ull, Source!toInt, toInt
<1>2. \A x : Source!verifyAddress(x) = verifyAddress(x)
  BY DEF Source!verifyAddress, verifyAddress
<1>3. \A x, n : Source!verified(x, n) = verified(x, n) /\ Source!bytesAt(x, n) = bytesAt(x, n)
  BY DEF Source!verified, verified, Source!bytesAt, bytesAt, Source!verifyAddress, verifyAddress,
         Source!ull, ull
<1>4. \A m, x : Source!readMem(m, x) = readMem(m, x)
  BY DEF Source!readMem, readMem, Source!shiftIn, shiftIn, Source!ull, ull
<1>5. \A m, x, v : Source!loadMem(m, x, v) = loadMem(m, x, v)
  BY DEF Source!loadMem, loadMem, Source!bytesAt, bytesAt, Source!bytesOf, bytesOf,
         Source!above, above, Source!ull, ull, Source!Addresses, Addresses
<1>6. \A ln : Source!valueOf(ln) = valueOf(ln)
  BY DEF Source!valueOf, valueOf, Source!ull, ull
<1> QED
  BY <1>1, <1>2, <1>3, <1>4, <1>5, <1>6

\* An exclusive or with itself is 0: the bits cancel.
LEMMA EmptySum == SumSet({}) = 0
<1> DEFINE F == [z \in SUBSET {} |-> 0]
           step(it) == [z \in SUBSET {} |->
                          IF z = {} THEN 0 ELSE LET x == CHOOSE x \in z : TRUE IN x + it[z \ {x}]]
<1>1. F = step(F)
  OBVIOUS
<1>2. \A it : it = step(it) => it[{}] = 0
  OBVIOUS
<1>3. (CHOOSE it : it = step(it))[{}] = 0
  <2> HIDE DEF step, F
  <2> QED
    BY ONLY <1>1, <1>2
<1> QED
  BY <1>3 DEF SumSet, FoldSet, MapThenFoldSet

LEMMA XorSelf == \A v : bitXor(v, v) = 0
<1>1. \A v : (setBits(v) \cup setBits(v)) \ (setBits(v) \cap setBits(v)) = {}
  OBVIOUS
<1>2. {2^i : i \in {}} = {}
  OBVIOUS
<1> QED
  BY <1>1, <1>2, EmptySum, Zenon DEF bitXor, ofBits

\* What the instructions compute.
LEMMA SameWords ==
  \A x, y : /\ Source!bitAnd(x, y) = bitAnd(x, y)
            /\ Source!bitOr(x, y) = bitOr(x, y)
            /\ Source!bitXor(x, y) = bitXor(x, y)
            /\ Source!shiftl(x, y) = shiftl(x, y)
            /\ Source!shiftr(x, y) = shiftr(x, y)
<1>1. \A x : Source!setBits(x) = setBits(x)
  BY DEF Source!setBits, setBits
<1>2. \A B : Source!ofBits(B) = ofBits(B)
  BY Zenon DEF Source!ofBits, ofBits, Source!SumSet, SumSet, Source!FoldSet, FoldSet,
         Source!MapThenFoldSet, MapThenFoldSet
<1>3. \A x, y : /\ Source!bitAnd(x, y) = bitAnd(x, y)
                /\ Source!bitOr(x, y) = bitOr(x, y)
                /\ Source!bitXor(x, y) = bitXor(x, y)
  BY <1>1, <1>2, Zenon DEF Source!bitAnd, bitAnd, Source!bitOr, bitOr, Source!bitXor, bitXor
<1>4. \A x, y : Source!shiftl(x, y) = shiftl(x, y) /\ Source!shiftr(x, y) = shiftr(x, y)
  BY DEF Source!shiftl, shiftl, Source!shiftr, shiftr
<1> QED
  BY <1>3, <1>4

LEMMA Bases == CODE_BASE \in Nat /\ DATA_BASE \in Nat
  BY BaseAssumption, Sizes DEF Addresses

---------------------------------------------------------------------------
(* The places of a script *)

LEMMA ScriptType ==
  ASSUME script \in Scripts
  PROVE  /\ Len(script) \in Nat /\ DOMAIN script = 1..Len(script)
         /\ \A k \in DOMAIN script : /\ script[k] \in Entries
                                     /\ script[k].type = 0 => Meant(script[k].cmd, script[k].args)
<1>1. script \in Seq(Entries)
  BY ScriptsAssumption DEF isMeant
<1>2. Len(script) \in Nat /\ DOMAIN script = 1..Len(script)
  BY <1>1
<1>3. \A k \in DOMAIN script : script[k] \in Entries
  BY <1>1
<1> QED
  BY <1>2, <1>3, ScriptsAssumption DEF isMeant

\* The words before each entry, as AsmSpec counts them.
LEMMA CodeSums ==
  /\ Target!codeUpTo(0) = 0
  /\ \A n \in Nat : /\ Target!codeUpTo(n) \in Nat /\ Target!words(n) \in {0, 1, 2, 12}
                    /\ Target!codeUpTo(n + 1) = Target!codeUpTo(n) + Target!words(n + 1)
  /\ \A m, n \in Nat : m <= n =>
       /\ Target!codeUpTo(m) <= Target!codeUpTo(n)
       /\ (\A k \in (m + 1)..n : Target!words(k) = 0) => Target!codeUpTo(m) = Target!codeUpTo(n)
<1> DEFINE w == [k \in Nat |-> Target!words(k)]
<1>1. \A k \in Nat : w[k] = Target!words(k) /\ w[k] \in {0, 1, 2, 12}
  BY SameSizes DEF Target!words, cnt
<1>2. \A n \in Nat : UNION {{k} \X (1..Target!words(k)) : k \in 1..n} = wordsUpTo(w, n)
  <2> HIDE DEF w
  <2> QED
    BY <1>1 DEF wordsUpTo
<1>3. \A n \in Nat : Target!codeUpTo(n) = Cardinality(wordsUpTo(w, n))
  BY <1>2, SameSizes, Zenon DEF Target!codeUpTo
<1> HIDE DEF w
<1>4. \A n \in Nat : n + 1 \in Nat
  OBVIOUS
<1>5. \A k \in Nat : w[k] \in 0..12
  BY <1>1
<1>6. /\ Target!codeUpTo(0) = 0
      /\ \A n \in Nat : /\ Target!codeUpTo(n) \in Nat
                        /\ Target!codeUpTo(n + 1) = Target!codeUpTo(n) + Target!words(n + 1)
  BY <1>1, <1>3, <1>4, <1>5, WordsUpTo
<1>7. ASSUME NEW m \in Nat, NEW n \in Nat, m <= n
      PROVE  /\ Target!codeUpTo(m) <= Target!codeUpTo(n)
             /\ (\A k \in (m + 1)..n : Target!words(k) = 0) => Target!codeUpTo(m) = Target!codeUpTo(n)
  <2>1. \A k \in (m + 1)..n : w[k] = Target!words(k)
    BY <1>1
  <2> QED
    BY <1>3, <1>5, <1>7, <2>1, WordsOrder
<1> QED
  BY <1>1, <1>6, <1>7

\* Where an entry starts.
LEMMA Starts ==
  \A k \in Nat \ {0} : /\ Source!startOf(k) = CODE_BASE + 4 * Target!codeUpTo(k - 1)
                       /\ Source!startOf(k) \in Nat
<1> SUFFICES ASSUME NEW k \in Nat \ {0}
             PROVE  /\ Source!startOf(k) = CODE_BASE + 4 * Target!codeUpTo(k - 1)
                    /\ Source!startOf(k) \in Nat
  OBVIOUS
<1>1. \A j : Target!words(j) = IF Source!isInstr(j) THEN cnt(script[j].cmd) ELSE 0
  BY SameSizes DEF Target!words, Source!isInstr
<1>2. Source!wordsBefore(k) = UNION {{j} \X (1..Target!words(j)) : j \in 1..(k - 1)}
  <2>1. \A j : Target!words(j) = IF Source!isInstr(j) THEN Source!cnt(script[j].cmd) ELSE 0
    BY <1>1, SameSizes
  <2> QED
    BY <2>1 DEF Source!wordsBefore
<1>3. Source!startOf(k) = CODE_BASE + 4 * Target!codeUpTo(k - 1)
  BY <1>2, SameSizes DEF Source!startOf, Target!codeUpTo
<1>4. k - 1 \in Nat
  OBVIOUS
<1>5. Target!codeUpTo(k - 1) \in Nat
  BY <1>4, CodeSums
<1> QED
  BY <1>3, <1>5, Bases

\* An instruction ends where the next entry starts, and entries that are no
\* instructions take no room.
LEMMA StartsGrow ==
  /\ \A k \in Nat \ {0} :
       Source!startOf(k + 1) = Source!startOf(k)
                                 + (IF Source!isInstr(k) THEN 4 * cnt(script[k].cmd) ELSE 0)
  /\ \A k, m \in Nat \ {0} : k <= m =>
       /\ Source!startOf(k) <= Source!startOf(m)
       /\ (\A j \in k..(m - 1) : ~Source!isInstr(j)) => Source!startOf(k) = Source!startOf(m)
<1>1. \A j : Target!words(j) = IF Source!isInstr(j) THEN cnt(script[j].cmd) ELSE 0
  BY SameSizes DEF Target!words, Source!isInstr
<1>2. \A c : cnt(c) \in {1, 2, 12}
  BY DEF cnt
<1>3. ASSUME NEW k \in Nat \ {0}
      PROVE  Source!startOf(k + 1) = Source!startOf(k)
                                       + (IF Source!isInstr(k) THEN 4 * cnt(script[k].cmd) ELSE 0)
  <2>1. k - 1 \in Nat /\ (k - 1) + 1 = k /\ k + 1 \in Nat \ {0} /\ (k + 1) - 1 = k
    OBVIOUS
  <2>2. Target!codeUpTo(k) = Target!codeUpTo(k - 1) + Target!words(k)
    BY <2>1, CodeSums
  <2>3. /\ Source!startOf(k) = CODE_BASE + 4 * Target!codeUpTo(k - 1)
        /\ Source!startOf(k + 1) = CODE_BASE + 4 * Target!codeUpTo(k)
    BY <2>1, Starts
  <2>4. Target!codeUpTo(k - 1) \in Nat /\ Target!words(k) \in Nat
    <3>1. k \in Nat
      OBVIOUS
    <3>2. Target!words(k) \in {0, 1, 2, 12}
      BY <3>1, CodeSums
    <3>3. Target!codeUpTo(k - 1) \in Nat
      BY <2>1, CodeSums
    <3> QED
      BY <3>2, <3>3
  <2>5. Source!startOf(k + 1) = Source!startOf(k) + 4 * Target!words(k)
    BY <2>2, <2>3, <2>4, Bases
  <2> QED
    BY <1>1, <2>5
<1>4. ASSUME NEW k \in Nat \ {0}, NEW m \in Nat \ {0}, k <= m
      PROVE  /\ Source!startOf(k) <= Source!startOf(m)
             /\ (\A j \in k..(m - 1) : ~Source!isInstr(j)) => Source!startOf(k) = Source!startOf(m)
  <2>1. k - 1 \in Nat /\ m - 1 \in Nat /\ k - 1 <= m - 1 /\ (k - 1) + 1 = k
    BY <1>4
  <2>2. /\ Target!codeUpTo(k - 1) <= Target!codeUpTo(m - 1)
        /\ (\A j \in k..(m - 1) : Target!words(j) = 0) =>
             Target!codeUpTo(k - 1) = Target!codeUpTo(m - 1)
    BY <2>1, CodeSums
  <2>3. Target!codeUpTo(k - 1) \in Nat /\ Target!codeUpTo(m - 1) \in Nat
    BY <2>1, CodeSums
  <2>4. /\ Source!startOf(k) = CODE_BASE + 4 * Target!codeUpTo(k - 1)
        /\ Source!startOf(m) = CODE_BASE + 4 * Target!codeUpTo(m - 1)
    BY Starts
  <2>5. Source!startOf(k) <= Source!startOf(m)
    BY <2>2, <2>3, <2>4, Bases
  <2> QED
    BY <1>1, <2>2, <2>4, <2>5
<1> QED
  BY <1>3, <1>4

\* The first place from an entry on, which is where the entry starts.
LEMMA FirstFrom ==
  ASSUME script \in Scripts, NEW k \in 1..(Len(script) + 1)
  PROVE  /\ Source!firstFrom(k) \in Source!places /\ Source!firstFrom(k) \in k..(Len(script) + 1)
         /\ Source!startOf(Source!firstFrom(k)) = Source!startOf(k)
<1> DEFINE S == {j \in Source!places : j >= k}
           f == Source!firstFrom(k)
<1>1. Len(script) \in Nat /\ DOMAIN script = 1..Len(script)
  BY ScriptType
<1>2. Source!places \subseteq 1..(Len(script) + 1) /\ Len(script) + 1 \in Source!places
  BY <1>1 DEF Source!places
<1>3. S \in SUBSET Nat /\ S # {}
  <2>1. Len(script) + 1 \in S
    BY <1>1, <1>2
  <2>2. \A j \in S : j \in Nat
    BY <1>1, <1>2
  <2> QED
    BY <2>1, <2>2
<1>4. \E n \in S : \A m \in S : n <= m
  BY <1>3, Least
<1>5. f \in S /\ \A m \in S : f <= m
  <2>1. f = Min(S)
    BY SameSizes DEF Source!firstFrom
  <2>2. Min(S) = CHOOSE n \in S : \A m \in S : n <= m
    BY DEF Min
  <2> HIDE DEF S, f
  <2> QED
    BY <1>4, <2>1, <2>2
<1> HIDE DEF f
<1>6. f \in Source!places /\ f \in k..(Len(script) + 1)
  BY <1>1, <1>2, <1>5
<1>7. \A j \in k..(f - 1) : ~Source!isInstr(j)
  <2> SUFFICES ASSUME NEW j \in k..(f - 1), Source!isInstr(j) PROVE FALSE
    OBVIOUS
  <2>1. j \in DOMAIN script /\ j >= k /\ j < f
    BY <1>1, <1>6
  <2>2. j \in Source!places
    BY <2>1 DEF Source!places
  <2> QED
    BY <1>5, <1>6, <2>1, <2>2
<1>8. k \in Nat \ {0} /\ f \in Nat \ {0} /\ k <= f
  BY <1>6
<1>9. Source!startOf(k) = Source!startOf(f)
  BY <1>7, <1>8, StartsGrow
<1> QED
  BY <1>6, <1>9 DEF f

\* No two places start at the same address.
LEMMA OnePlace ==
  ASSUME script \in Scripts, NEW k \in Source!places, NEW m \in Source!places,
         Source!startOf(k) = Source!startOf(m)
  PROVE  k = m
<1>1. Len(script) \in Nat /\ DOMAIN script = 1..Len(script)
  BY ScriptType
<1>2. \A j, n \in Source!places : j < n => Source!startOf(j) < Source!startOf(n)
  <2> SUFFICES ASSUME NEW j \in Source!places, NEW n \in Source!places, j < n
               PROVE  Source!startOf(j) < Source!startOf(n)
    OBVIOUS
  <2>1. j \in Nat \ {0} /\ n \in Nat \ {0} /\ j + 1 \in Nat \ {0} /\ j + 1 <= n
    BY <1>1 DEF Source!places
  <2>2. Source!isInstr(j)
    BY <1>1 DEF Source!places
  <2>3. Source!startOf(j + 1) = Source!startOf(j) + 4 * cnt(script[j].cmd)
    BY <2>1, <2>2, StartsGrow
  <2>4. Source!startOf(j + 1) <= Source!startOf(n)
    BY <2>1, StartsGrow
  <2>5. Source!startOf(j) \in Nat /\ Source!startOf(n) \in Nat
    BY <2>1, Starts
  <2>6. cnt(script[j].cmd) \in {1, 2, 12}
    BY DEF cnt
  <2> QED
    BY <2>3, <2>4, <2>5, <2>6
<1>3. k \in Nat /\ m \in Nat /\ Source!startOf(k) \in Nat
  <2>1. k \in Nat \ {0} /\ m \in Nat
    BY <1>1 DEF Source!places
  <2> QED
    BY <2>1, Starts
<1> QED
  BY <1>2, <1>3

---------------------------------------------------------------------------
(* The image *)

\* The copies of the macros and of the encoder.
LEMMA SameMacros ==
  /\ \A c, args, tab : Target!expandMacro(c, args, tab) = expandMacro(c, args, tab)
  /\ \A args, tab : Target!replaceLabel(args, tab) = replaceLabel(args, tab)
<1>1. \A c, args, tab : Target!expandMacro(c, args, tab) = expandMacro(c, args, tab)
  BY DEF Target!expandMacro, expandMacro, Target!xor, xor, Target!priv, priv, Target!push, push,
         Target!pop, pop, Target!ld, ld, Target!ldValue, ldValue, Target!registerOf, registerOf,
         Target!looseRegister, looseRegister, Target!Instr, Instr, Target!Reg, Reg, Target!Lit, Lit,
         Target!Mem, Mem, Target!slot, slot, Target!isRegister, isRegister, Target!NREGS, NREGS,
         Target!NoLabel, NoLabel, Target!parseLiteral, parseLiteral, Target!getintAddress,
         getintAddress, Target!Found, Found
<1>2. \A args, tab : Target!replaceLabel(args, tab) = replaceLabel(args, tab)
  BY DEF Target!replaceLabel, replaceLabel, Target!labelArgs, labelArgs, Target!isLabelArg,
         isLabelArg, Target!withLast, withLast, Target!Lit, Lit, Target!NoLabel, NoLabel,
         Target!getintAddress, getintAddress, Target!Found, Found
<1> QED
  BY <1>1, <1>2

LEMMA SameEncoder ==
  /\ \A c, args : Target!getInstruction(c, args) = getInstruction(c, args)
  /\ \A w : Target!Encoded(w) = Encoded(w)
<1>1. \A c, args : Target!getInstruction(c, args) = getInstruction(c, args)
  BY DEF Target!getInstruction, getInstruction, Target!getMovInstruction, getMovInstruction,
         Target!getBrrInstruction, getBrrInstruction, Target!getPlainInstruction,
         getPlainInstruction, Target!movMem, movMem, Target!movLit, movLit, Target!slot, slot,
         Target!Lit, Lit, Target!NoLabel, NoLabel, Target!instructionList, instructionList,
         Target!isRegister, isRegister, Target!NREGS, NREGS, Target!Encoded, Encoded, Target!Exit,
         Exit, Target!Error, Error, Target!NoWord, NoWord, Target!build_instruction,
         build_instruction, Target!parseLiteral, parseLiteral, Target!toInt, toInt,
         Target!toLL, toLL, Target!checkSigned, checkSigned, Target!checkUnsigned, checkUnsigned,
         Target!arglenth, arglenth, Target!hasLit, hasLit, Target!asmOpcode, asmOpcode
<1>2. \A w : Target!Encoded(w) = Encoded(w)
  BY DEF Target!Encoded, Encoded, Target!NoWord, NoWord
<1> QED
  BY <1>1, <1>2

\* The data before each entry, as AsmSpec counts them.
LEMMA DataSums ==
  /\ Target!dataUpTo(0) = 0
  /\ \A n \in Nat : /\ Target!dataUpTo(n) \in Nat
                    /\ Target!dataUpTo(n + 1)
                         = Target!dataUpTo(n) + (IF script[n + 1].type = 1 THEN 1 ELSE 0)
  /\ \A m, n \in Nat : m <= n => Target!dataUpTo(m) <= Target!dataUpTo(n)
  /\ \A k : Source!datumAt(k) = DATA_BASE + 8 * Target!dataUpTo(k - 1)
<1> DEFINE D == {k \in Nat : script[k].type = 1}
<1>1. \A n \in Nat : Target!dataUpTo(n) = countUpTo(D, n)
  <2>1. \A n \in Nat : {k \in 1..n : script[k].type = 1} = {k \in 1..n : k \in D}
    OBVIOUS
  <2> QED
    BY <2>1, SameSizes, Zenon DEF Target!dataUpTo, countUpTo
<1>2. \A n \in Nat : n + 1 \in Nat /\ (n + 1 \in D <=> script[n + 1].type = 1)
  OBVIOUS
<1> HIDE DEF D
<1>3. \A m, n \in Nat : m <= n => Target!dataUpTo(m) <= Target!dataUpTo(n)
  BY <1>1, CountOrder
<1>4. \A k : Source!datumAt(k) = DATA_BASE + 8 * Target!dataUpTo(k - 1)
  BY SameSizes DEF Source!datumAt, Source!dataBefore, Target!dataUpTo
<1> QED
  BY <1>1, <1>2, <1>3, <1>4, CountUpTo

\* The image that the script assembles to.
built == items(script, Target!meaning)
Assembled == /\ script \in Scripts /\ Target!isImage(built) /\ hasRoom(built)
             /\ file = imageOf(built)

\* The words of the image stand in its code, and where they do.
wordAt(m, x)  == parse(m[x], m[x + 1], m[x + 2], m[x + 3])
CodeStands(m) == \A n \in DOMAIN built.code : wordAt(m, CODE_BASE + 4 * (n - 1)) = built.code[n]

LEMMA BuiltSections ==
  ASSUME Assembled
  PROVE  LET words == Target!codeUpTo(Len(script))
             data  == Target!dataUpTo(Len(script))
         IN /\ words \in Nat /\ data \in Nat
            /\ built.code \in Seq(Word) /\ Len(built.code) = words
            /\ built.data \in Seq(Values) /\ Len(built.data) = data
            /\ CODE_BASE + 4 * words <= DATA_BASE /\ DATA_BASE + 8 * data <= MEM_SIZE
            /\ Source!code = CODE_BASE..(CODE_BASE + 4 * words - 1)
            /\ Source!dataAddresses = DATA_BASE..(DATA_BASE + 8 * data - 1)
<1>1. Len(script) \in Nat
  BY ScriptType DEF Assembled
<1>2. Target!codeUpTo(Len(script)) \in Nat
  BY <1>1, CodeSums
<1>3. Target!dataUpTo(Len(script)) \in Nat
  BY <1>1, DataSums
<1>4. /\ Len(built.code) = Target!codeUpTo(Len(script))
      /\ Len(built.data) = Target!dataUpTo(Len(script))
  BY DEF Assembled, Target!isImage
<1>5. /\ built.code \in Seq(Word) /\ built.data \in Seq(Values)
      /\ CODE_BASE + 4 * Len(built.code) <= DATA_BASE
      /\ DATA_BASE + 8 * Len(built.data) <= MEM_SIZE
  BY DEF Assembled, hasRoom
<1>6. Len(script) + 1 \in Nat \ {0} /\ (Len(script) + 1) - 1 = Len(script)
  BY <1>1
<1>7. Source!startOf(Len(script) + 1) = CODE_BASE + 4 * Target!codeUpTo(Len(script))
  BY <1>6, Starts
<1>8. Source!datumAt(Len(script) + 1) = DATA_BASE + 8 * Target!dataUpTo(Len(script))
  BY <1>6, DataSums
<1>9. /\ Source!code = CODE_BASE..(CODE_BASE + 4 * Target!codeUpTo(Len(script)) - 1)
      /\ Source!dataAddresses = DATA_BASE..(DATA_BASE + 8 * Target!dataUpTo(Len(script)) - 1)
  <2>1. Source!code = CODE_BASE..(Source!startOf(Len(script) + 1) - 1)
    BY DEF Source!code
  <2>2. Source!dataAddresses = DATA_BASE..(Source!datumAt(Len(script) + 1) - 1)
    BY DEF Source!dataAddresses
  <2> QED
    BY <1>2, <1>3, <1>7, <1>8, <2>1, <2>2, Bases
<1>10. /\ CODE_BASE + 4 * Target!codeUpTo(Len(script)) <= DATA_BASE
       /\ DATA_BASE + 8 * Target!dataUpTo(Len(script)) <= MEM_SIZE
  BY <1>4, <1>5
<1> QED
  BY <1>2, <1>3, <1>4, <1>5, <1>9, <1>10, Zenon

\* What the simulator finds in memory once it has loaded the image.
LEMMA LoadedImage ==
  ASSUME Assembled
  PROVE  LET m == loaded(file)
         IN /\ ImageTyped /\ file.entry = CODE_BASE
            /\ fits(file.entry, file.code) /\ fits(file.at, file.data)
            /\ CodeStands(m)
            /\ \A k \in DOMAIN script : script[k].type = 1 =>
                 readMem(m, Source!datumAt(k)) = script[k].val
            /\ \A x \in Addresses \ (Source!code \cup Source!dataAddresses) : m[x] = 0
<1> DEFINE words == built.code
           data  == built.data
           m     == loaded(file)
<1>1. /\ words \in Seq(Word) /\ data \in Seq(Values)
      /\ Len(words) = Target!codeUpTo(Len(script)) /\ Len(data) = Target!dataUpTo(Len(script))
      /\ CODE_BASE + 4 * Len(words) <= DATA_BASE /\ DATA_BASE + 8 * Len(data) <= MEM_SIZE
  BY BuiltSections
<1>2. /\ Source!code = CODE_BASE..(CODE_BASE + 4 * Len(words) - 1)
      /\ Source!dataAddresses = DATA_BASE..(DATA_BASE + 8 * Len(data) - 1)
  BY BuiltSections
<1>3. file = [entry |-> CODE_BASE, code |-> codeFrom(words), at |-> DATA_BASE,
              data |-> dataFrom(data)]
  BY DEF Assembled, imageOf
<1>4. CODE_BASE \in Nat /\ DATA_BASE \in Nat /\ Len(words) \in Nat /\ Len(data) \in Nat
  BY <1>1, Bases
<1>5. /\ \A n \in DOMAIN words : wordAt(m, CODE_BASE + 4 * (n - 1)) = words[n]
      /\ \A n \in DOMAIN data : readMem(m, DATA_BASE + 8 * (n - 1)) = data[n]
      /\ \A x \in Addresses \ (Source!code \cup Source!dataAddresses) : m[x] = 0
  <2>1. CODE_BASE + 4 * Len(words) <= MEM_SIZE
    BY <1>1, <1>4, Sizes
  <2> HIDE DEF words, data
  <2> QED
    <3> DEFINE f == [entry |-> CODE_BASE, code |-> codeFrom(words), at |-> DATA_BASE,
                     data |-> dataFrom(data)]
    <3>1. /\ words \in Seq(Word) /\ data \in Seq(Values) /\ CODE_BASE \in Nat /\ DATA_BASE \in Nat
          /\ CODE_BASE + 4 * Len(words) <= MEM_SIZE /\ DATA_BASE + 8 * Len(data) <= MEM_SIZE
          /\ \/ CODE_BASE + 4 * Len(words) <= DATA_BASE
             \/ DATA_BASE + 8 * Len(data) <= CODE_BASE
      BY <1>1, <1>4, <2>1
    <3>2. /\ \A n \in DOMAIN words :
               LET p == CODE_BASE + 4 * (n - 1)
               IN parse(loaded(f)[p], loaded(f)[p + 1], loaded(f)[p + 2], loaded(f)[p + 3]) = words[n]
          /\ \A n \in DOMAIN data : readMem(loaded(f), DATA_BASE + 8 * (n - 1)) = data[n]
          /\ \A x \in Addresses \ ((CODE_BASE..(CODE_BASE + 4 * Len(words) - 1))
                                      \cup (DATA_BASE..(DATA_BASE + 8 * Len(data) - 1))) :
               loaded(f)[x] = 0
      BY ONLY <3>1, LoadedIsAssembled, ZenonT(60)
    <3>3. m = loaded(f)
      BY <1>3
    <3> HIDE DEF m, f
    <3>4. \A n \in DOMAIN words : wordAt(m, CODE_BASE + 4 * (n - 1)) = words[n]
      BY <3>2, <3>3 DEF wordAt
    <3>5. \A x \in Addresses \ (Source!code \cup Source!dataAddresses) : m[x] = 0
      BY <1>2, <3>2, <3>3
    <3> QED
      BY <3>2, <3>3, <3>4, <3>5
<1>6. CodeStands(m)
  BY <1>5 DEF CodeStands
<1>7. ASSUME NEW k \in DOMAIN script, script[k].type = 1
      PROVE  readMem(m, Source!datumAt(k)) = script[k].val
  <2>1. k \in 1..Len(script) /\ Len(script) \in Nat
    BY ScriptType DEF Assembled
  <2>2. k - 1 \in Nat /\ (k - 1) + 1 = k /\ k \in Nat /\ k <= Len(script)
    BY <2>1
  <2> DEFINE n == Target!dataUpTo(k)
  <2>3. n = Target!dataUpTo(k - 1) + 1 /\ n <= Target!dataUpTo(Len(script))
    BY <1>7, <2>1, <2>2, DataSums
  <2>4. Target!dataUpTo(k - 1) \in Nat
    BY <2>2, DataSums
  <2>5. data[n] = script[k].val
    BY <1>7 DEF Assembled, Target!isImage
  <2>6. Source!datumAt(k) = DATA_BASE + 8 * Target!dataUpTo(k - 1)
    BY DataSums
  <2> HIDE DEF n
  <2>7. n \in 1..Len(data) /\ n - 1 = Target!dataUpTo(k - 1)
    BY <1>1, <2>3, <2>4
  <2>8. n \in DOMAIN data
    BY <1>1, <2>7
  <2> QED
    BY <1>5, <2>5, <2>6, <2>7, <2>8
<1>8. /\ codeFrom(words) \in Seq(Byte) /\ Len(codeFrom(words)) = 4 * Len(words)
      /\ dataFrom(data) \in Seq(Byte) /\ Len(dataFrom(data)) = 8 * Len(data)
  BY <1>1, CodeBytes, DataBytes
<1>9. fits(file.entry, file.code) /\ fits(file.at, file.data)
  <2>1. CODE_BASE + 4 * Len(words) <= MEM_SIZE /\ DATA_BASE + 8 * Len(data) <= MEM_SIZE
    BY <1>1, <1>4, Sizes
  <2> HIDE DEF words, data
  <2> QED
    BY <1>3, <1>8, <2>1 DEF fits
<1>10. ImageTyped
  <2>1. CODE_BASE \in Addresses /\ DATA_BASE \in Addresses
    BY BaseAssumption
  <2> QED
    BY <1>3, <1>8, <2>1 DEF ImageTyped
<1>11. file.entry = CODE_BASE
  BY <1>3
<1> QED
  BY <1>5, <1>6, <1>7, <1>9, <1>10, <1>11, Zenon

---------------------------------------------------------------------------
(* The words of one line *)

table == Target!SetToSeq(Target!meaning)

\* Word n of the instruction at a place.
wordOf(k, n) == built.code[Target!codeUpTo(k - 1) + n]

LEMMA WordPlaces ==
  ASSUME Assembled, NEW k \in DOMAIN script, Source!isInstr(k), NEW n \in 1..cnt(script[k].cmd)
  PROVE  /\ Target!codeUpTo(k - 1) \in Nat /\ Target!codeUpTo(k - 1) + n \in DOMAIN built.code
         /\ Source!startOf(k) + 4 * (n - 1) = CODE_BASE + 4 * ((Target!codeUpTo(k - 1) + n) - 1)
         /\ wordOf(k, n) \in Word
<1>1. k \in 1..Len(script) /\ Len(script) \in Nat
  BY ScriptType DEF Assembled
<1>2. k - 1 \in Nat /\ (k - 1) + 1 = k /\ k \in Nat \ {0} /\ k \in Nat /\ k <= Len(script)
  BY <1>1
<1>3. Target!codeUpTo(k - 1) \in Nat
  BY <1>2, CodeSums
<1>4. Target!codeUpTo(k) = Target!codeUpTo(k - 1) + Target!words(k)
  BY <1>2, CodeSums
<1>5. Target!words(k) = cnt(script[k].cmd)
  BY SameSizes DEF Target!words, Source!isInstr
<1>6. Target!codeUpTo(k) <= Target!codeUpTo(Len(script))
  BY <1>1, <1>2, CodeSums
<1>7. Target!codeUpTo(Len(script)) \in Nat
  BY <1>1, CodeSums
<1>8. built.code \in Seq(Word) /\ Len(built.code) = Target!codeUpTo(Len(script))
  BY BuiltSections
<1>9. cnt(script[k].cmd) \in Nat
  BY DEF cnt
<1>10. Source!startOf(k) = CODE_BASE + 4 * Target!codeUpTo(k - 1)
  BY <1>2, Starts
<1> DEFINE p == Target!codeUpTo(k - 1)
<1>11. p + n \in 1..Len(built.code)
  <2> HIDE DEF p
  <2> QED
    BY <1>3, <1>4, <1>5, <1>6, <1>7, <1>8, <1>9 DEF p
<1>12. p + n \in DOMAIN built.code /\ built.code[p + n] \in Word
  BY <1>8, <1>11, ElementOf
<1>13. CODE_BASE + 4 * p + 4 * (n - 1) = CODE_BASE + 4 * ((p + n) - 1)
  <2> HIDE DEF p
  <2> QED
    BY <1>3, Bases DEF p
<1> QED
  BY <1>3, <1>10, <1>12, <1>13 DEF wordOf

\* An operation without labels is taken as it is.
LEMMA NoLabels ==
  ASSUME NEW args, NEW tab, \A n \in DOMAIN args : args[n].l = NoLabel
  PROVE  replaceLabel(args, tab) = {args}
<1>1. labelArgs(args) = {}
  BY DEF labelArgs, isLabelArg
<1> QED
  BY <1>1 DEF replaceLabel

\* The words of a line encode what it is rewritten to, in every image of the script.
LEMMA LinesWords ==
  ASSUME script \in Scripts, NEW img, img.code \in Seq(Word), Target!isImage(img),
         NEW k \in DOMAIN script, Source!isInstr(k)
  PROVE  \E x \in expandMacro(script[k].cmd, script[k].args, table) :
           /\ Len(x) = cnt(script[k].cmd) /\ DOMAIN x = 1..Len(x)
           /\ \A n \in DOMAIN x : \E a \in replaceLabel(x[n].args, table) :
                getInstruction(x[n].cmd, a) = Encoded(img.code[Target!codeUpTo(k - 1) + n])
<1> DEFINE c    == script[k].cmd
           args == script[k].args
           p    == Target!codeUpTo(k - 1)
           ws   == SubSeq(img.code, p + 1, Target!codeUpTo(k))
<1>1. k \in 1..Len(script) /\ Len(script) \in Nat
  BY ScriptType
<1>2. k - 1 \in Nat /\ (k - 1) + 1 = k /\ k \in Nat /\ k <= Len(script)
  BY <1>1
<1>3. p \in Nat
  BY <1>2, CodeSums
<1>4. Target!codeUpTo(k) = p + cnt(c)
  <2>1. Target!words(k) = cnt(c)
    BY SameSizes DEF Target!words, Source!isInstr
  <2>2. Target!codeUpTo(k) = p + Target!words(k)
    BY <1>2, CodeSums
  <2> QED
    BY <2>1, <2>2
<1>5. cnt(c) \in Nat
  BY DEF cnt
<1>6. p + cnt(c) <= Len(img.code)
  <2>1. Target!codeUpTo(k) <= Target!codeUpTo(Len(script))
    BY <1>1, <1>2, CodeSums
  <2>2. Len(img.code) = Target!codeUpTo(Len(script))
    BY DEF Target!isImage
  <2> QED
    BY <1>4, <2>1, <2>2
<1>7. Target!encodes(c, args, table, ws)
  BY DEF Target!isImage, Source!isInstr, table
<1>8. Len(ws) = cnt(c) /\ \A n \in 1..cnt(c) : ws[n] = img.code[p + n]
  <2>1. ws = SubSeq(img.code, p + 1, p + cnt(c))
    BY <1>4
  <2> HIDE DEF c, p, ws
  <2> QED
    BY <1>3, <1>5, <1>6, <2>1, PartOf
<1> HIDE DEF ws, p
<1>9. PICK x \in expandMacro(c, args, table) :
        /\ Len(ws) = Len(x)
        /\ \A n \in DOMAIN x : \E a \in replaceLabel(x[n].args, table) :
             getInstruction(x[n].cmd, a) = Encoded(ws[n])
  BY <1>7, SameMacros, SameEncoder, Zenon DEF Target!encodes
<1>10. DOMAIN x = 1..Len(x)
  <2>1. \A rd, v : /\ DOMAIN xor(rd) = 1..Len(xor(rd)) /\ DOMAIN push(rd) = 1..Len(push(rd))
                   /\ DOMAIN pop(rd) = 1..Len(pop(rd)) /\ DOMAIN ld(rd, v) = 1..Len(ld(rd, v))
    BY DEF xor, push, pop, ld
  <2>2. \A rd, rs, op : DOMAIN priv(rd, rs, op) = 1..Len(priv(rd, rs, op))
    BY DEF priv
  <2>3. \A i : DOMAIN <<i>> = 1..Len(<<i>>)
    OBVIOUS
  <2> QED
    BY <2>1, <2>2, <2>3 DEF expandMacro
<1>11. \A n \in DOMAIN x : \E a \in replaceLabel(x[n].args, table) :
         getInstruction(x[n].cmd, a) = Encoded(img.code[p + n])
  BY <1>8, <1>9, <1>10
<1> QED
  BY <1>8, <1>9, <1>10, <1>11 DEF p

LEMMA WordsOf ==
  ASSUME Assembled, NEW k \in DOMAIN script, Source!isInstr(k)
  PROVE  \E x \in expandMacro(script[k].cmd, script[k].args, table) :
           /\ Len(x) = cnt(script[k].cmd) /\ DOMAIN x = 1..Len(x)
           /\ \A n \in DOMAIN x : \E a \in replaceLabel(x[n].args, table) :
                getInstruction(x[n].cmd, a) = Encoded(wordOf(k, n))
<1>1. built.code \in Seq(Word) /\ script \in Scripts /\ Target!isImage(built)
  BY BuiltSections DEF Assembled
<1> HIDE DEF built
<1> QED
  BY <1>1, LinesWords DEF wordOf

---------------------------------------------------------------------------
(* From a word back to the operands it encodes *)

\* Numbers that an int holds and that are not written in hexadecimal.
Ordinary(args) == /\ args \in Seq(Operands)
                  /\ \A n \in DOMAIN args : /\ ~args[n].hex
                                            /\ args[n].v \in (-(INT \div 2))..((INT \div 2) - 1)

\* They survive the conversions of the assembler.
LEMMA OrdinaryNumbers ==
  \A v \in (-(INT \div 2))..((INT \div 2) - 1) :
    /\ toInt(parseLiteral(v, FALSE)) = v /\ toLL(parseLiteral(v, FALSE)) = v
    /\ checkUnsigned(v) => v % IMM = v
    /\ checkSigned(v) => v % IMM \in 0..(IMM - 1) /\ sign(v % IMM) = v
<1> SUFFICES ASSUME NEW v \in (-(INT \div 2))..((INT \div 2) - 1)
             PROVE  /\ toInt(parseLiteral(v, FALSE)) = v /\ toLL(parseLiteral(v, FALSE)) = v
                    /\ checkUnsigned(v) => v % IMM = v
                    /\ checkSigned(v) => v % IMM \in 0..(IMM - 1) /\ sign(v % IMM) = v
  OBVIOUS
<1>1. PICK h \in Nat : INT = 2 * h /\ INT \div 2 = h
  BY Sizes
<1>2. PICK q \in Nat : WORD = INT * q /\ 1 <= q
  <2>1. INT \in Nat /\ WORD \in Nat /\ 0 < INT /\ WORD % INT = 0 /\ INT <= WORD
    BY Sizes, WidthAssumption
  <2>2. WORD = INT * (WORD \div INT) + (WORD % INT)
    BY <2>1
  <2>3. WORD \div INT \in Nat /\ WORD \div INT >= 1
    BY <2>1
  <2> QED
    BY <2>1, <2>2, <2>3
<1>3. PICK g \in Nat : WORD = 2 * g /\ WORD \div 2 = g /\ h <= g
  <2>1. h * q \in Nat /\ h <= h * q
    BY <1>2
  <2>2. WORD = 2 * (h * q)
    BY <1>1, <1>2
  <2> DEFINE g == h * q
  <2>3. g \in Nat /\ WORD = 2 * g /\ h <= g
    BY <2>1, <2>2
  <2> HIDE DEF g
  <2>4. WORD \div 2 = g
    BY <2>3
  <2> QED
    BY <2>3, <2>4
<1>4. v \in Int /\ -h <= v /\ v < h
  BY <1>1
<1>5. parseLiteral(v, FALSE) = v % WORD
  BY <1>3, <1>4, Sizes DEF parseLiteral
<1>6. v % WORD = IF v >= 0 THEN v ELSE WORD + v
  BY <1>3, <1>4, Sizes
<1>7. (v % WORD) % INT = IF v >= 0 THEN v ELSE INT + v
  <2>1. CASE v >= 0
    BY <1>1, <1>4, <1>6, <2>1, Sizes
  <2>2. CASE v < 0
    <3>1. v % WORD = INT * (q - 1) + (INT + v)
      BY <1>2, <1>4, <1>6, <2>2, Sizes
    <3>2. INT + v \in 0..(INT - 1) /\ q - 1 \in Nat
      BY <1>1, <1>2, <1>4, <2>2, Sizes
    <3>3. INT \in Nat \ {0}
      BY Sizes
    <3>4. (INT * (q - 1) + (INT + v)) % INT = INT + v
      <4> DEFINE y == INT + v
      <4> HIDE DEF y
      <4>1. y \in 0..(INT - 1)
        BY <3>2 DEF y
      <4>2. (INT * (q - 1) + y) % INT = y
        BY ONLY <3>2, <3>3, <4>1, Remainder
      <4> QED
        BY <4>2 DEF y
    <3> QED
      BY <2>2, <3>1, <3>4, <1>4
  <2> QED
    BY <2>1, <2>2, <1>4
<1>8. toInt(v % WORD) = v
  BY <1>1, <1>4, <1>7, Sizes DEF toInt
<1>9. toLL(v % WORD) = v
  BY <1>3, <1>4, <1>6 DEF toLL
<1>10. checkUnsigned(v) => v % IMM = v
  BY <1>4, Sizes DEF checkUnsigned
<1>11. checkSigned(v) => v % IMM \in 0..(IMM - 1) /\ sign(v % IMM) = v
  <2>1. IMM = 4096
    BY MachineAssumption
  <2> QED
    BY <1>4, <2>1 DEF checkSigned, sign
<1> QED
  BY <1>5, <1>8, <1>9, <1>10, <1>11

\* What the general case of the encoder accepts, and the fields of the word it makes.
LEMMA PlainShape ==
  ASSUME NEW c \in Commands, NEW args, Ordinary(args), NEW w,
         getPlainInstruction(c, args) = Encoded(w), arglenth(c) < 4 \/ Len(args) = 4
  PROVE  LET m == arglenth(c)
         IN /\ Len(args) = m
            /\ \A n \in 1..(m - hasLit(c)) : args[n].k = "reg" /\ args[n].n \in 0..31
            /\ hasLit(c) = 1 => args[m].k = "lit" /\ args[m].v \in 0..(IMM - 1) /\ w.imm = args[m].v
            /\ w.op = asmOpcode[c] % 32
            /\ 1 <= m - hasLit(c) => w.rd = args[1].n
            /\ 2 <= m - hasLit(c) => w.rs = args[2].n
            /\ 3 <= m - hasLit(c) => w.rt = args[3].n
<1> DEFINE m    == arglenth(c)
           a    == instructionList(args)
           lits == {i \in DOMAIN a : a[i].k = "lit"}
           regs == {i \in DOMAIN a : \A j \in lits : i < j}
           rg(i) == IF i \in regs THEN a[i].n ELSE 0
           last == Len(a)
           num  == IF lits = {} THEN 0 ELSE toInt(parseLiteral(a[last].v, a[last].hex))
<1>1. /\ last = m /\ \A i \in regs : isRegister(a[i])
      /\ lits = (IF hasLit(c) = 1 THEN {last} ELSE {}) /\ checkUnsigned(num)
      /\ w = build_instruction(asmOpcode[c], rg(1), rg(2), rg(3), num)
  <2>1. \A x : Encoded(x) # Exit /\ Encoded(x) # Error
    BY DEF Encoded, Exit, Error
  <2>2. \A x : Encoded(x) = Encoded(w) => x = w
    BY DEF Encoded
  <2>3. getPlainInstruction(c, args) =
          IF last # m THEN Exit
          ELSE IF \E i \in regs : ~isRegister(a[i]) THEN Error
          ELSE IF lits # (IF hasLit(c) = 1 THEN {last} ELSE {}) \/ ~checkUnsigned(num) THEN Exit
          ELSE Encoded(build_instruction(asmOpcode[c], rg(1), rg(2), rg(3), num))
    BY DEF getPlainInstruction
  <2> HIDE DEF m, a, lits, regs, rg, last, num
  <2> QED
    BY <2>1, <2>2, <2>3
<1>2. args \in Seq(Operands)
  BY DEF Ordinary
<1>3. Len(args) \in Nat /\ DOMAIN args = 1..Len(args) /\ \A n \in 1..Len(args) : args[n] \in Operands
  BY <1>2
<1>4. m \in 0..4 /\ hasLit(c) \in {0, 1} /\ (hasLit(c) = 1 => m >= 1)
  BY DEF arglenth, hasLit
<1>5. a = SubSeq(args, 1, IF Len(args) < 4 THEN Len(args) ELSE 4)
  BY DEF instructionList
<1>6. Len(args) = m /\ a = args
  <2>1. CASE Len(args) < 4
    <3>1. a = SubSeq(args, 1, Len(args))
      BY <1>5, <2>1
    <3>2. SubSeq(args, 1, Len(args)) = args
      BY <1>2
    <3> QED
      BY <1>1, <3>1, <3>2
  <2>2. CASE Len(args) >= 4
    <3>1. a = SubSeq(args, 1, 4)
      BY <1>3, <1>5, <2>2
    <3>2. Len(SubSeq(args, 1, 4)) = 4
      BY <1>2, <2>2
    <3>3. Len(args) = 4 /\ m = 4
      BY <1>1, <1>4, <3>1, <3>2
    <3>4. SubSeq(args, 1, Len(args)) = args
      BY <1>2
    <3> QED
      BY <3>1, <3>3, <3>4
  <2> QED
    BY <1>3, <2>1, <2>2
<1> HIDE DEF a
<1>7. DOMAIN a = 1..m /\ last = m
  BY <1>3, <1>6
<1>8. \A i \in 1..m : i \in regs <=> i <= m - hasLit(c)
  <2>1. CASE hasLit(c) = 0
    BY <1>1, <1>4, <1>7, <2>1
  <2>2. CASE hasLit(c) = 1
    <3>1. lits = {m}
      BY <1>1, <1>7, <2>2
    <3> HIDE DEF lits, m
    <3> QED
      BY <1>4, <1>7, <2>2, <3>1
  <2> QED
    BY <1>4, <2>1, <2>2
<1>9. \A n \in 1..(m - hasLit(c)) : args[n].k = "reg" /\ args[n].n \in 0..31 /\ rg(n) = args[n].n
  <2> SUFFICES ASSUME NEW n \in 1..(m - hasLit(c))
               PROVE  args[n].k = "reg" /\ args[n].n \in 0..31 /\ rg(n) = args[n].n
    OBVIOUS
  <2> HIDE DEF m, lits, regs
  <2>1. n \in 1..m /\ n \in regs
    BY <1>4, <1>8
  <2>2. isRegister(args[n])
    BY <1>1, <1>6, <2>1
  <2>3. args[n].n \in Nat
    BY <1>3, <1>6, <2>1 DEF Operands
  <2>4. args[n].k = "reg" /\ args[n].n < 32
    BY <2>2 DEF isRegister, NREGS
  <2>5. args[n].n \in 0..31
    BY <2>3, <2>4
  <2>6. rg(n) = args[n].n
    BY <1>6, <2>1
  <2> QED
    BY <2>4, <2>5, <2>6
<1>10. ASSUME hasLit(c) = 1
       PROVE  args[m].k = "lit" /\ args[m].v \in 0..(IMM - 1) /\ num = args[m].v
  <2>1. lits = {m} /\ m \in 1..m
    BY <1>1, <1>4, <1>7, <1>10
  <2>2. args[m].k = "lit"
    BY <1>6, <2>1
  <2>3. ~args[m].hex /\ args[m].v \in (-(INT \div 2))..((INT \div 2) - 1)
    BY <1>3, <1>6, <2>1 DEF Ordinary
  <2>4. args[m].hex = FALSE
    <3>1. args[m].hex \in BOOLEAN
      BY <1>3, <1>6, <2>1 DEF Operands
    <3> QED
      BY <2>3, <3>1
  <2>5. num = toInt(parseLiteral(args[m].v, FALSE))
    BY <1>6, <1>7, <2>1, <2>4
  <2>6. num = args[m].v
    BY <2>3, <2>5, OrdinaryNumbers
  <2>7. args[m].v \in 0..(IMM - 1)
    <3>1. checkUnsigned(args[m].v) /\ args[m].v \in Int
      BY <1>1, <2>3, <2>6, Sizes
    <3> QED
      BY <3>1, Sizes DEF checkUnsigned
  <2> QED
    BY <2>2, <2>6, <2>7
<1>11. w = [op |-> asmOpcode[c] % 32, rd |-> rg(1), rs |-> rg(2), rt |-> rg(3), imm |-> num % IMM]
  BY <1>1 DEF build_instruction
<1> HIDE DEF m, lits, regs, rg, num
<1>12. w.op = asmOpcode[c] % 32 /\ w.rd = rg(1) /\ w.rs = rg(2) /\ w.rt = rg(3) /\ w.imm = num % IMM
  BY <1>11
<1>13. hasLit(c) = 1 => args[m].k = "lit" /\ args[m].v \in 0..(IMM - 1) /\ w.imm = args[m].v
  BY <1>10, <1>12, Sizes
<1>14. /\ 1 <= m - hasLit(c) => w.rd = args[1].n
       /\ 2 <= m - hasLit(c) => w.rs = args[2].n
       /\ 3 <= m - hasLit(c) => w.rt = args[3].n
  BY <1>4, <1>9, <1>12
<1> QED
  BY <1>6, <1>9, <1>12, <1>13, <1>14 DEF m

LEMMA RegisterRange == \A a : isRegister(a) /\ a.n \in Nat => a.n \in 0..31
<1> SUFFICES ASSUME NEW a, isRegister(a), a.n \in Nat PROVE a.n \in 0..31
  OBVIOUS
<1>1. a.k = "reg" /\ a.n < 32
  BY DEF isRegister, NREGS
<1> QED
  BY <1>1

\* The same for the forms of mov ...
LEMMA MovShape ==
  ASSUME NEW args, Ordinary(args), 2 <= Len(args), NEW w, getMovInstruction(args) = Encoded(w)
  PROVE  /\ args[1].k = "reg" /\ args[2].k = "mem" =>
              /\ w.op = 16 /\ w.rd = args[1].n /\ w.rs = args[2].n
              /\ w.imm \in 0..(IMM - 1) /\ sign(w.imm) = args[2].v
         /\ args[1].k = "reg" /\ args[2].k = "reg" =>
              w.op = 17 /\ w.rd = args[1].n /\ w.rs = args[2].n
         /\ args[1].k = "reg" /\ args[2].k = "lit" =>
              w.op = 18 /\ w.rd = args[1].n /\ w.imm = args[2].v /\ args[2].v \in 0..(IMM - 1)
         /\ args[1].k = "mem" /\ args[2].k = "reg" =>
              /\ w.op = 19 /\ w.rd = args[1].n /\ w.rs = args[2].n
              /\ w.imm \in 0..(IMM - 1) /\ sign(w.imm) = args[1].v
         /\ args[1].k \in {"reg", "mem"} /\ args[2].k \in {"reg", "mem"} =>
              \/ args[1].k = "mem" /\ args[2].k = "mem"
              \/ args[1].n \in 0..31 /\ args[2].n \in 0..31
         /\ args[1].k = "reg" /\ args[2].k = "lit" => args[1].n \in 0..31
<1> DEFINE a == args[1]
           b == args[2]
<1>1. slot(args, 1) = a /\ slot(args, 2) = b /\ asmOpcode["mov"] = 16
  BY DEF slot, asmOpcode
<1>2. args \in Seq(Operands) /\ 1 \in DOMAIN args /\ 2 \in DOMAIN args
  BY DEF Ordinary
<1>3. /\ a.n \in Nat /\ b.n \in Nat /\ a.hex = FALSE /\ b.hex = FALSE
      /\ a.v \in (-(INT \div 2))..((INT \div 2) - 1) /\ b.v \in (-(INT \div 2))..((INT \div 2) - 1)
  <2>1. a \in Operands /\ b \in Operands
    BY <1>2
  <2>2. ~a.hex /\ ~b.hex
    BY <1>2 DEF Ordinary
  <2>3. /\ a.v \in (-(INT \div 2))..((INT \div 2) - 1)
        /\ b.v \in (-(INT \div 2))..((INT \div 2) - 1)
    BY <1>2 DEF Ordinary
  <2>4. a.hex \in BOOLEAN /\ b.hex \in BOOLEAN /\ a.n \in Nat /\ b.n \in Nat
    BY <2>1 DEF Operands
  <2> QED
    BY <2>2, <2>3, <2>4
<1>4. \A x : Encoded(x) # Exit /\ Encoded(x) # Error
  BY DEF Encoded, Exit, Error
<1>5. \A x : Encoded(x) = Encoded(w) => x = w
  BY DEF Encoded
<1>6. /\ toInt(parseLiteral(a.v, a.hex)) = a.v /\ toInt(parseLiteral(b.v, b.hex)) = b.v
      /\ checkUnsigned(b.v) => b.v % IMM = b.v
      /\ checkSigned(a.v) => a.v % IMM \in 0..(IMM - 1) /\ sign(a.v % IMM) = a.v
      /\ checkSigned(b.v) => b.v % IMM \in 0..(IMM - 1) /\ sign(b.v % IMM) = b.v
  BY <1>3, OrdinaryNumbers
<1>12. a.n \in Nat /\ b.n \in Nat
  BY <1>3, Zenon
<1> HIDE DEF a, b
<1>7. ASSUME a.k = "reg", b.k = "mem"
      PROVE  /\ w.op = 16 /\ w.rd = a.n /\ w.rs = b.n /\ a.n \in 0..31 /\ b.n \in 0..31
             /\ w.imm \in 0..(IMM - 1) /\ sign(w.imm) = b.v
  <2>1. movMem(16, a, b, a.n, b.n) = Encoded(w)
    BY <1>1, <1>7 DEF getMovInstruction
  <2>2. /\ isRegister(a) /\ b.n < 32 /\ checkSigned(b.v)
        /\ w = build_instruction(16, a.n, b.n, 0, b.v)
    BY <1>3, <1>4, <1>5, <1>6, <2>1 DEF movMem, NREGS
  <2>3. w.op = 16 /\ w.rd = a.n /\ w.rs = b.n /\ w.imm = b.v % IMM
    BY <2>2 DEF build_instruction
  <2>4. a.n \in 0..31 /\ b.n \in 0..31
    <3>1. isRegister(a)
      BY <2>2, Zenon
    <3>4. b.n < 32
      BY <2>2, Zenon
    <3>2. a.n \in 0..31
      BY <1>12, <3>1, RegisterRange
    <3>3. b.n \in 0..31
      BY ONLY <1>12, <3>4
    <3> QED
      BY <3>2, <3>3
  <2> QED
    BY <1>6, <2>2, <2>3, <2>4
<1>8. ASSUME a.k = "reg", b.k = "reg"
      PROVE  w.op = 17 /\ w.rd = a.n /\ w.rs = b.n /\ a.n \in 0..31 /\ b.n \in 0..31
  <2>1. isRegister(a) /\ isRegister(b) /\ w = build_instruction(16 + 1, a.n, b.n, 0, 0)
    BY <1>1, <1>4, <1>5, <1>8 DEF getMovInstruction
  <2>2. w.op = 17 /\ w.rd = a.n /\ w.rs = b.n
    BY <2>1 DEF build_instruction
  <2>3. a.n \in 0..31 /\ b.n \in 0..31
    BY <1>12, <2>1, RegisterRange
  <2> QED
    BY <2>2, <2>3
<1>9. ASSUME a.k = "reg", b.k = "lit"
      PROVE  w.op = 18 /\ w.rd = a.n /\ w.imm = b.v /\ b.v \in 0..(IMM - 1) /\ a.n \in 0..31
  <2>1. movLit(16 + 2, a, b) = Encoded(w)
    BY <1>1, <1>9 DEF getMovInstruction
  <2>2. isRegister(a) /\ checkUnsigned(b.v) /\ w = build_instruction(16 + 2, a.n, 0, 0, b.v)
    BY <1>4, <1>5, <1>6, <2>1 DEF movLit
  <2>3. w.op = 18 /\ w.rd = a.n /\ w.imm = b.v % IMM
    BY <2>2 DEF build_instruction
  <2>4. b.v \in 0..(IMM - 1)
    BY <1>3, <2>2, Sizes DEF checkUnsigned
  <2>5. a.n \in 0..31
    BY <1>12, <2>2, RegisterRange
  <2> QED
    BY <1>6, <2>2, <2>3, <2>4, <2>5
<1>10. ASSUME a.k = "mem", b.k = "reg"
       PROVE  /\ w.op = 19 /\ w.rd = a.n /\ w.rs = b.n /\ a.n \in 0..31 /\ b.n \in 0..31
              /\ w.imm \in 0..(IMM - 1) /\ sign(w.imm) = a.v
  <2>1. movMem(16 + 3, b, a, a.n, b.n) = Encoded(w)
    BY <1>1, <1>10 DEF getMovInstruction
  <2>2. /\ isRegister(b) /\ a.n < 32 /\ checkSigned(a.v)
        /\ w = build_instruction(16 + 3, a.n, b.n, 0, a.v)
    BY <1>3, <1>4, <1>5, <1>6, <2>1 DEF movMem, NREGS
  <2>3. w.op = 19 /\ w.rd = a.n /\ w.rs = b.n /\ w.imm = a.v % IMM
    BY <2>2 DEF build_instruction
  <2>4. a.n \in 0..31 /\ b.n \in 0..31
    <3>1. isRegister(b)
      BY <2>2, Zenon
    <3>4. a.n < 32
      BY <2>2, Zenon
    <3>2. b.n \in 0..31
      BY <1>12, <3>1, RegisterRange
    <3>3. a.n \in 0..31
      BY ONLY <1>12, <3>4
    <3> QED
      BY <3>2, <3>3
  <2> QED
    BY <1>6, <2>2, <2>3, <2>4
<1>11. /\ a.k \in {"reg", "mem"} /\ b.k \in {"reg", "mem"} =>
            (a.k = "mem" /\ b.k = "mem") \/ (a.n \in 0..31 /\ b.n \in 0..31)
       /\ a.k = "reg" /\ b.k = "lit" => a.n \in 0..31
  BY <1>7, <1>8, <1>9, <1>10
<1> QED
  BY <1>7, <1>8, <1>9, <1>10, <1>11, Zenon DEF a, b

\* ... and of brr.
LEMMA BrrShape ==
  ASSUME NEW args, Ordinary(args), 1 <= Len(args), NEW w, getBrrInstruction(args) = Encoded(w)
  PROVE  /\ args[1].k = "lit" =>
              w.op = 10 /\ w.imm \in 0..(IMM - 1) /\ sign(w.imm) = args[1].v
         /\ args[1].k # "lit" => w.op = 9 /\ w.rd = args[1].n /\ args[1].n \in 0..31
<1> DEFINE a == args[1]
<1>1. slot(args, 1) = a /\ asmOpcode["brr"] = 9
  BY DEF slot, asmOpcode
<1>2. a \in Operands /\ ~a.hex /\ a.v \in (-(INT \div 2))..((INT \div 2) - 1)
  BY DEF Ordinary
<1>3. a.n \in Nat /\ a.hex = FALSE
  BY <1>2 DEF Operands
<1>4. \A x : Encoded(x) # Exit /\ Encoded(x) # Error
  BY DEF Encoded, Exit, Error
<1>5. \A x : Encoded(x) = Encoded(w) => x = w
  BY DEF Encoded
<1>6. /\ toLL(parseLiteral(a.v, a.hex)) = a.v
      /\ checkSigned(a.v) => a.v % IMM \in 0..(IMM - 1) /\ sign(a.v % IMM) = a.v
  BY <1>2, <1>3, OrdinaryNumbers
<1>12. a.n \in Nat
  BY <1>3, Zenon
<1> HIDE DEF a
<1>7. ASSUME a.k = "lit"
      PROVE  w.op = 10 /\ w.imm \in 0..(IMM - 1) /\ sign(w.imm) = a.v
  <2>1. checkSigned(a.v) /\ w = build_instruction(9 + 1, 0, 0, 0, a.v)
    <3> DEFINE x == toLL(parseLiteral(a.v, a.hex))
               i == Encoded(build_instruction(9 + 1, 0, 0, 0, x))
    <3>1. ASSUME checkSigned(x) PROVE getBrrInstruction(args) = i
      BY <1>1, <1>7, <3>1 DEF getBrrInstruction, isRegister, checkSigned
    <3>2. ASSUME ~checkSigned(x) PROVE getBrrInstruction(args) = Exit
      BY <1>1, <1>7, <3>2 DEF getBrrInstruction, isRegister
    <3> HIDE DEF x, i
    <3>3. checkSigned(x) /\ Encoded(w) = i
      BY <1>4, <3>1, <3>2, Zenon
    <3>4. x = a.v
      BY <1>6 DEF x
    <3> QED
      BY <1>5, <3>3, <3>4, Zenon DEF i
  <2>2. w.op = 10 /\ w.imm = a.v % IMM
    BY <2>1 DEF build_instruction
  <2> QED
    BY <1>6, <2>1, <2>2
<1>8. ASSUME a.k # "lit"
      PROVE  w.op = 9 /\ w.rd = a.n /\ a.n \in 0..31
  <2>1. isRegister(a) /\ w = build_instruction(9, a.n, 0, 0, 0)
    BY <1>1, <1>4, <1>5, <1>8 DEF getBrrInstruction
  <2>2. w.op = 9 /\ w.rd = a.n
    BY <2>1 DEF build_instruction
  <2>3. a.n \in 0..31
    <3>1. isRegister(a)
      BY <2>1, Zenon
    <3> QED
      BY <1>12, <3>1, RegisterRange
  <2> QED
    BY <2>2, <2>3
<1> QED
  BY <1>7, <1>8 DEF a

---------------------------------------------------------------------------
(* The words of each kind of line *)

Plainly(a) == /\ a \in Operands /\ ~a.hex /\ a.l = NoLabel
              /\ a.v \in (-(INT \div 2))..((INT \div 2) - 1)

LEMMA PlainOperands ==
  /\ \A n \in Nat : Plainly(Reg(n)) /\ Reg(n).k = "reg" /\ Reg(n).n = n
  /\ \A v \in (-(INT \div 2))..((INT \div 2) - 1) :
       Plainly(Lit(v)) /\ Lit(v).k = "lit" /\ Lit(v).v = v
  /\ \A n \in Nat, v \in (-(INT \div 2))..((INT \div 2) - 1) :
       Plainly(Mem(n, v)) /\ Mem(n, v).k = "mem" /\ Mem(n, v).n = n /\ Mem(n, v).v = v
<1>1. 0 \in (-(INT \div 2))..((INT \div 2) - 1) /\ 0 \in Int /\ 0 \in Nat
  BY Sizes
<1>2. \A v \in (-(INT \div 2))..((INT \div 2) - 1) : v \in Int
  BY Sizes
<1>3. {"reg", "lit", "mem"} \subseteq OperandKinds
  BY DEF OperandKinds
<1>4. \A n \in Nat : Plainly(Reg(n)) /\ Reg(n).k = "reg" /\ Reg(n).n = n
  BY <1>1, <1>3 DEF Plainly, Operands, Reg
<1>5. \A v \in (-(INT \div 2))..((INT \div 2) - 1) :
        Plainly(Lit(v)) /\ Lit(v).k = "lit" /\ Lit(v).v = v
  BY <1>1, <1>2, <1>3 DEF Plainly, Operands, Lit
<1>6. \A n \in Nat, v \in (-(INT \div 2))..((INT \div 2) - 1) :
        Plainly(Mem(n, v)) /\ Mem(n, v).k = "mem" /\ Mem(n, v).n = n /\ Mem(n, v).v = v
  BY <1>1, <1>2, <1>3 DEF Plainly, Operands, Mem
<1> QED
  BY <1>4, <1>5, <1>6

LEMMA OrdinaryLines ==
  /\ \A args : args \in Seq(Operands) /\ (\A n \in DOMAIN args : Plainly(args[n])) =>
       Ordinary(args) /\ \A tab : replaceLabel(args, tab) = {args}
  /\ \A a, b \in Operands :
       Plainly(a) /\ Plainly(b) =>
         /\ <<a, b>> \in Seq(Operands) /\ \A n \in DOMAIN <<a, b>> : Plainly(<<a, b>>[n])
  /\ \A a, b, c \in Operands :
       Plainly(a) /\ Plainly(b) /\ Plainly(c) =>
         /\ <<a, b, c>> \in Seq(Operands)
         /\ \A n \in DOMAIN <<a, b, c>> : Plainly(<<a, b, c>>[n])
  /\ \A a, b, c, e \in Operands :
       Plainly(a) /\ Plainly(b) /\ Plainly(c) /\ Plainly(e) =>
         /\ <<a, b, c, e>> \in Seq(Operands)
         /\ \A n \in DOMAIN <<a, b, c, e>> : Plainly(<<a, b, c, e>>[n])
<1>1. ASSUME NEW args \in Seq(Operands), \A n \in DOMAIN args : Plainly(args[n])
      PROVE  Ordinary(args) /\ \A tab : replaceLabel(args, tab) = {args}
  <2>1. Ordinary(args)
    BY <1>1 DEF Ordinary, Plainly
  <2>2. \A n \in DOMAIN args : args[n].l = NoLabel
    BY <1>1, Zenon DEF Plainly
  <2> QED
    BY <2>1, <2>2, NoLabels
<1> QED
  BY <1>1

\* An operation that is no macro is encoded as it is written.
LEMMA OperationWord ==
  ASSUME Assembled, NEW k \in DOMAIN script, Source!isInstr(k), script[k].cmd \notin Macros
  PROVE  /\ Ordinary(script[k].args) /\ Meant(script[k].cmd, script[k].args)
         /\ script[k].cmd \in Commands /\ cnt(script[k].cmd) = 1
         /\ getInstruction(script[k].cmd, script[k].args) = Encoded(wordOf(k, 1))
<1> DEFINE c    == script[k].cmd
           args == script[k].args
<1>1. script[k] \in Entries /\ Meant(c, args)
  BY ScriptType DEF Assembled, Source!isInstr
<1>2. args \in Seq(Operands) /\ c \in Commands
  BY <1>1 DEF Entries
<1>3. \A n \in DOMAIN args : Plainly(args[n])
  <2> SUFFICES ASSUME NEW n \in DOMAIN args PROVE Plainly(args[n])
    OBVIOUS
  <2>1. args[n] \in Operands
    BY <1>2
  <2>2. c # "ld"
    BY DEF Macros
  <2>3. ~args[n].hex /\ args[n].l = NoLabel /\ args[n].v \in (-(INT \div 2))..((INT \div 2) - 1)
    BY <1>1, <2>2 DEF Meant
  <2> QED
    BY <2>1, <2>3 DEF Plainly
<1>4. Ordinary(args) /\ \A tab : replaceLabel(args, tab) = {args}
  BY <1>2, <1>3, OrdinaryLines
<1>5. c \notin {"in", "out", "clr", "ld", "push", "pop", "halt"}
  BY DEF Macros
<1>6. cnt(c) = 1 /\ expandMacro(c, args, table) = {<<Instr(c, args)>>}
  BY <1>5 DEF cnt, expandMacro
<1>7. PICK x \in {<<Instr(c, args)>>} :
        \A n \in DOMAIN x : \E a \in replaceLabel(x[n].args, table) :
          getInstruction(x[n].cmd, a) = Encoded(wordOf(k, n))
  BY <1>6, WordsOf
<1>8. 1 \in DOMAIN x /\ x[1].cmd = c /\ x[1].args = args
  BY DEF Instr
<1>9. \E a \in replaceLabel(args, table) : getInstruction(c, a) = Encoded(wordOf(k, 1))
  BY <1>7, <1>8
<1>10. getInstruction(c, args) = Encoded(wordOf(k, 1))
  BY <1>4, <1>9
<1> QED
  BY <1>1, <1>2, <1>4, <1>6, <1>10

Registers3 == {"and", "or", "xor", "shftr", "shftl", "add", "sub", "mul", "div", "brgt"}
Registers2 == {"not", "brnz"}
Registers1 == {"br", "call"}
Immediates == {"addi", "subi", "shftri", "shftli"}
PlainCommands == Registers3 \cup Registers2 \cup Registers1 \cup Immediates \cup {"return"}

\* The operations without forms and rewritings.
LEMMA PlainLine ==
  ASSUME Assembled, NEW k \in DOMAIN script, Source!isInstr(k), script[k].cmd \in PlainCommands
  PROVE  LET c    == script[k].cmd
             args == script[k].args
             w    == wordOf(k, 1)
         IN /\ w.op = asmOpcode[c] /\ cnt(c) = 1
            /\ c \in Registers3 => /\ args[1].n \in 0..31 /\ args[2].n \in 0..31 /\ args[3].n \in 0..31
                                   /\ w.rd = args[1].n /\ w.rs = args[2].n /\ w.rt = args[3].n
            /\ c \in Registers2 => /\ args[1].n \in 0..31 /\ args[2].n \in 0..31
                                   /\ w.rd = args[1].n /\ w.rs = args[2].n
            /\ c \in Registers1 => args[1].n \in 0..31 /\ w.rd = args[1].n
            /\ c \in Immediates => /\ args[1].n \in 0..31 /\ args[2].v \in 0..(IMM - 1)
                                   /\ w.rd = args[1].n /\ w.imm = args[2].v
<1> DEFINE c    == script[k].cmd
           args == script[k].args
           w    == wordOf(k, 1)
<1>1. c \in PlainCommands /\ c \notin Macros /\ c \notin {"mov", "brr"}
  BY DEF PlainCommands, Registers3, Registers2, Registers1, Immediates, Macros
<1>2. /\ Ordinary(args) /\ c \in Commands /\ cnt(c) = 1
      /\ getInstruction(c, args) = Encoded(w)
  BY <1>1, OperationWord
<1> HIDE DEF c, args, w
<1>3. getPlainInstruction(c, args) = Encoded(w)
  BY <1>1, <1>2 DEF getInstruction
<1>4. /\ c \in Registers3 => arglenth(c) = 3 /\ hasLit(c) = 0
      /\ c \in Registers2 => arglenth(c) = 2 /\ hasLit(c) = 0
      /\ c \in Registers1 => arglenth(c) = 1 /\ hasLit(c) = 0
      /\ c \in Immediates => arglenth(c) = 2 /\ hasLit(c) = 1
      /\ c = "return" => arglenth(c) = 0 /\ hasLit(c) = 0
  BY DEF arglenth, hasLit, Registers3, Registers2, Registers1, Immediates
<1>5. arglenth(c) < 4
  BY <1>1, <1>4 DEF PlainCommands
<1>6. LET m == arglenth(c)
      IN /\ Len(args) = m
         /\ \A n \in 1..(m - hasLit(c)) : args[n].k = "reg" /\ args[n].n \in 0..31
         /\ hasLit(c) = 1 => args[m].k = "lit" /\ args[m].v \in 0..(IMM - 1) /\ w.imm = args[m].v
         /\ w.op = asmOpcode[c] % 32
         /\ 1 <= m - hasLit(c) => w.rd = args[1].n
         /\ 2 <= m - hasLit(c) => w.rs = args[2].n
         /\ 3 <= m - hasLit(c) => w.rt = args[3].n
  BY <1>2, <1>3, <1>5, PlainShape
<1>7. w.op = asmOpcode[c]
  <2>1. asmOpcode[c] \in 0..31
    BY <1>1 DEF asmOpcode, PlainCommands, Registers3, Registers2, Registers1, Immediates
  <2>2. w.op = asmOpcode[c] % 32
    BY <1>6, Zenon
  <2> QED
    BY ONLY <2>1, <2>2
<1>8. c \in Registers3 => /\ args[1].n \in 0..31 /\ args[2].n \in 0..31 /\ args[3].n \in 0..31
                          /\ w.rd = args[1].n /\ w.rs = args[2].n /\ w.rt = args[3].n
  BY <1>4, <1>6
<1>9. c \in Registers2 => /\ args[1].n \in 0..31 /\ args[2].n \in 0..31
                          /\ w.rd = args[1].n /\ w.rs = args[2].n
  BY <1>4, <1>6
<1>10. c \in Registers1 => args[1].n \in 0..31 /\ w.rd = args[1].n
  BY <1>4, <1>6
<1>11. c \in Immediates => /\ args[1].n \in 0..31 /\ args[2].v \in 0..(IMM - 1)
                           /\ w.rd = args[1].n /\ w.imm = args[2].v
  BY <1>4, <1>6
<1> QED
  BY <1>2, <1>7, <1>8, <1>9, <1>10, <1>11, Zenon DEF c, args, w

\* A register that a macro finds in its text.
Register(a) == Plainly(a) /\ a.k = "reg" /\ a.n \in 0..31

LEMMA MacroRegister ==
  ASSUME Assembled, NEW k \in DOMAIN script, Source!isInstr(k), NEW i \in {1, 2},
         NEW rd \in registerOf(script[k].args, i)
  PROVE  rd = script[k].args[i] /\ Register(rd)
<1> DEFINE args == script[k].args
<1>1. script[k] \in Entries /\ Meant(script[k].cmd, args)
  BY ScriptType DEF Assembled, Source!isInstr
<1>2. args \in Seq(Operands)
  BY <1>1 DEF Entries
<1> HIDE DEF args
<1>3. rd = slot(args, i) /\ isRegister(rd)
  BY Zenon DEF registerOf, args
<1>4. rd.k = "reg" /\ rd.n < 32
  BY <1>3 DEF isRegister, NREGS
<1>5. i <= Len(args) /\ rd = args[i]
  <2>1. CASE i <= Len(args)
    BY <1>3, <2>1 DEF slot
  <2>2. CASE ~(i <= Len(args))
    <3>1. rd = Lit(0)
      BY <1>3, <2>2 DEF slot
    <3> QED
      BY <1>4, <3>1 DEF Lit
  <2> QED
    BY <2>1, <2>2
<1>6. i \in DOMAIN args
  BY <1>2, <1>5
<1>7. rd \in Operands /\ rd = Reg(rd.n)
  <2>1. rd \in Operands
    BY <1>2, <1>5, <1>6
  <2>2. args[i].k = "reg" => args[i] = Reg(args[i].n)
    BY <1>1, <1>6, Zenon DEF Meant
  <2> QED
    BY <1>4, <1>5, <2>1, <2>2
<1>8. rd.n \in Nat
  BY <1>7 DEF Operands
<1>9. Plainly(rd)
  <2> DEFINE n == rd.n
  <2>1. Plainly(Reg(n))
    BY <1>8, PlainOperands
  <2>2. rd = Reg(n)
    BY <1>7
  <2> HIDE DEF n
  <2> QED
    BY ONLY <2>1, <2>2
<1>10. rd.n \in 0..31
  BY ONLY <1>4, <1>8
<1> QED
  BY <1>4, <1>5, <1>9, <1>10 DEF Register, args

LEMMA SmallNumbers ==
  /\ 0..(IMM - 1) \subseteq (-(INT \div 2))..((INT \div 2) - 1)
  /\ {0, 3, 4, 8, -8} \subseteq (-(INT \div 2))..((INT \div 2) - 1)
<1>1. MEM_SIZE + IMM <= INT \div 2 /\ 8 <= MEM_SIZE /\ MEM_SIZE \in Nat /\ IMM \in Nat
      /\ INT \div 2 \in Nat /\ 2 <= IMM
  BY Sizes
<1> QED
  BY <1>1

\* The operations that macros are rewritten to.
LEMMA XorWord ==
  ASSUME NEW rd, Register(rd), NEW w,
         NEW a \in replaceLabel(<<rd, rd, rd>>, table), getInstruction("xor", a) = Encoded(w)
  PROVE  w.op = 2 /\ w.rd = rd.n /\ w.rs = rd.n /\ w.rt = rd.n
<1> DEFINE args == <<rd, rd, rd>>
<1>1. Plainly(rd) /\ rd \in Operands
  BY DEF Register, Plainly
<1>2. args \in Seq(Operands) /\ \A n \in DOMAIN args : Plainly(args[n])
  BY <1>1
<1>3. /\ args[1] = rd /\ args[2] = rd /\ args[3] = rd
      /\ arglenth("xor") = 3 /\ hasLit("xor") = 0 /\ asmOpcode["xor"] = 2 /\ "xor" \in Commands
  BY DEF arglenth, hasLit, asmOpcode, Commands
<1> HIDE DEF args
<1>4. Ordinary(args) /\ \A tab : replaceLabel(args, tab) = {args}
  BY <1>2, OrdinaryLines
<1>5. getPlainInstruction("xor", args) = Encoded(w)
  <2>1. a = args
    BY <1>4 DEF args
  <2> QED
    BY <2>1 DEF getInstruction
<1>6. LET m == arglenth("xor")
      IN /\ w.op = asmOpcode["xor"] % 32
         /\ 1 <= m - hasLit("xor") => w.rd = args[1].n
         /\ 2 <= m - hasLit("xor") => w.rs = args[2].n
         /\ 3 <= m - hasLit("xor") => w.rt = args[3].n
  BY <1>3, <1>4, <1>5, PlainShape
<1> QED
  BY <1>3, <1>6

LEMMA ImmediateWord ==
  ASSUME NEW c \in {"addi", "subi", "shftli"}, NEW rd, Register(rd), NEW v \in 0..(IMM - 1), NEW w,
         NEW a \in replaceLabel(<<rd, Lit(v)>>, table), getInstruction(c, a) = Encoded(w)
  PROVE  w.op = asmOpcode[c] /\ w.rd = rd.n /\ w.imm = v
<1> DEFINE args == <<rd, Lit(v)>>
<1>1. Plainly(rd) /\ rd \in Operands
  BY DEF Register, Plainly
<1>2. v \in (-(INT \div 2))..((INT \div 2) - 1)
  BY SmallNumbers
<1>3. Plainly(Lit(v)) /\ Lit(v) \in Operands /\ Lit(v).v = v
  <2>1. Plainly(Lit(v)) /\ Lit(v).v = v
    BY <1>2, PlainOperands
  <2> QED
    BY <2>1 DEF Plainly
<1>4. args \in Seq(Operands) /\ \A n \in DOMAIN args : Plainly(args[n])
  BY <1>1, <1>3, OrdinaryLines
<1>5. args[1] = rd /\ args[2] = Lit(v)
  OBVIOUS
<1>6. arglenth(c) = 2 /\ hasLit(c) = 1 /\ asmOpcode[c] \in 0..31 /\ c \in Commands
  BY DEF arglenth, hasLit, asmOpcode, Commands
<1> HIDE DEF args
<1>7. Ordinary(args) /\ \A tab : replaceLabel(args, tab) = {args}
  BY <1>4, OrdinaryLines
<1>8. getPlainInstruction(c, args) = Encoded(w)
  <2>1. a = args
    BY <1>7 DEF args
  <2> QED
    BY <2>1 DEF getInstruction
<1>9. LET m == arglenth(c)
      IN /\ hasLit(c) = 1 => w.imm = args[m].v
         /\ w.op = asmOpcode[c] % 32
         /\ 1 <= m - hasLit(c) => w.rd = args[1].n
  BY <1>6, <1>7, <1>8, PlainShape
<1>10. w.op = asmOpcode[c] % 32 /\ w.rd = args[1].n /\ w.imm = args[2].v
  BY <1>6, <1>9
<1>11. asmOpcode[c] % 32 = asmOpcode[c]
  BY ONLY <1>6
<1> QED
  BY <1>3, <1>5, <1>10, <1>11

LEMMA PrivWord ==
  ASSUME NEW rd, Register(rd), NEW rs, Register(rs), NEW op, Plainly(Lit(op)), NEW w
  PROVE  \A a \in replaceLabel(<<rd, rs, Reg(0), Lit(op)>>, table) :
           getInstruction("priv", a) = Encoded(w) =>
             w.op = 15 /\ w.rd = rd.n /\ w.rs = rs.n /\ w.imm = op
<1> DEFINE args == <<rd, rs, Reg(0), Lit(op)>>
<1> SUFFICES ASSUME NEW a \in replaceLabel(args, table), getInstruction("priv", a) = Encoded(w)
             PROVE  w.op = 15 /\ w.rd = rd.n /\ w.rs = rs.n /\ w.imm = op
  OBVIOUS
<1>1. Plainly(rd) /\ rd \in Operands /\ Plainly(rs) /\ rs \in Operands
  BY DEF Register, Plainly
<1>3. Plainly(Lit(op)) /\ Lit(op) \in Operands /\ Lit(op).v = op /\ Plainly(Reg(0)) /\ Reg(0) \in Operands
  <2>1. Plainly(Lit(op)) /\ Plainly(Reg(0))
    BY PlainOperands
  <2>2. Lit(op).v = op
    BY DEF Lit
  <2> QED
    BY <2>1, <2>2 DEF Plainly
<1>4. args \in Seq(Operands) /\ \A n \in DOMAIN args : Plainly(args[n])
  BY <1>1, <1>3, OrdinaryLines
<1>5. args[1] = rd /\ args[2] = rs /\ args[4] = Lit(op) /\ Len(args) = 4
  OBVIOUS
<1>6. arglenth("priv") = 4 /\ hasLit("priv") = 1 /\ asmOpcode["priv"] = 15 /\ "priv" \in Commands
  BY DEF arglenth, hasLit, asmOpcode, Commands
<1> HIDE DEF args
<1>7. Ordinary(args) /\ \A tab : replaceLabel(args, tab) = {args}
  BY <1>4, OrdinaryLines
<1>8. getPlainInstruction("priv", args) = Encoded(w)
  <2>1. a = args
    BY <1>7 DEF args
  <2> QED
    BY <2>1 DEF getInstruction
<1>9. LET m == arglenth("priv")
      IN /\ hasLit("priv") = 1 => w.imm = args[m].v
         /\ w.op = asmOpcode["priv"] % 32
         /\ 1 <= m - hasLit("priv") => w.rd = args[1].n
         /\ 2 <= m - hasLit("priv") => w.rs = args[2].n
  BY <1>5, <1>6, <1>7, <1>8, PlainShape
<1> QED
  BY <1>3, <1>5, <1>6, <1>9

LEMMA StackWord ==
  ASSUME NEW rd, Register(rd), NEW v \in {0, -8}, NEW w
  PROVE  /\ \A a \in replaceLabel(<<rd, Mem(31, v)>>, table) :
              getInstruction("mov", a) = Encoded(w) =>
                w.op = 16 /\ w.rd = rd.n /\ w.rs = 31 /\ w.imm \in 0..(IMM - 1) /\ sign(w.imm) = v
         /\ \A a \in replaceLabel(<<Mem(31, v), rd>>, table) :
              getInstruction("mov", a) = Encoded(w) =>
                w.op = 19 /\ w.rd = 31 /\ w.rs = rd.n /\ w.imm \in 0..(IMM - 1) /\ sign(w.imm) = v
<1>1. Plainly(rd) /\ rd \in Operands /\ rd.k = "reg"
  BY DEF Register, Plainly
<1>2. v \in (-(INT \div 2))..((INT \div 2) - 1) /\ 31 \in Nat
  BY SmallNumbers
<1> DEFINE e == Mem(31, v)
<1>3. Plainly(e) /\ e.k = "mem" /\ e.n = 31 /\ e.v = v
  BY <1>2, PlainOperands
<1> HIDE DEF e
<1>4. e \in Operands
  BY <1>3 DEF Plainly
<1> DEFINE in  == <<rd, e>>
           out == <<e, rd>>
<1>5. /\ in \in Seq(Operands) /\ \A n \in DOMAIN in : Plainly(in[n])
      /\ out \in Seq(Operands) /\ \A n \in DOMAIN out : Plainly(out[n])
  BY <1>1, <1>3, <1>4, OrdinaryLines
<1>6. /\ in[1] = rd /\ in[2] = e /\ Len(in) = 2 /\ out[1] = e /\ out[2] = rd /\ Len(out) = 2
  OBVIOUS
<1> HIDE DEF in, out
<1>7. Ordinary(in) /\ Ordinary(out) /\ replaceLabel(in, table) = {in} /\ replaceLabel(out, table) = {out}
  BY <1>5, OrdinaryLines
<1>8. getInstruction("mov", in) = Encoded(w) =>
        w.op = 16 /\ w.rd = rd.n /\ w.rs = 31 /\ w.imm \in 0..(IMM - 1) /\ sign(w.imm) = v
  <2> SUFFICES ASSUME getMovInstruction(in) = Encoded(w)
               PROVE  /\ w.op = 16 /\ w.rd = rd.n /\ w.rs = 31
                      /\ w.imm \in 0..(IMM - 1) /\ sign(w.imm) = v
    BY DEF getInstruction
  <2>1. in[1].k = "reg" /\ in[2].k = "mem" =>
          /\ w.op = 16 /\ w.rd = in[1].n /\ w.rs = in[2].n
          /\ w.imm \in 0..(IMM - 1) /\ sign(w.imm) = in[2].v
    BY <1>6, <1>7, MovShape
  <2> QED
    BY <1>1, <1>3, <1>6, <2>1
<1>9. getInstruction("mov", out) = Encoded(w) =>
        w.op = 19 /\ w.rd = 31 /\ w.rs = rd.n /\ w.imm \in 0..(IMM - 1) /\ sign(w.imm) = v
  <2> SUFFICES ASSUME getMovInstruction(out) = Encoded(w)
               PROVE  /\ w.op = 19 /\ w.rd = 31 /\ w.rs = rd.n
                      /\ w.imm \in 0..(IMM - 1) /\ sign(w.imm) = v
    BY DEF getInstruction
  <2>1. out[1].k = "mem" /\ out[2].k = "reg" =>
          /\ w.op = 19 /\ w.rd = out[1].n /\ w.rs = out[2].n
          /\ w.imm \in 0..(IMM - 1) /\ sign(w.imm) = out[1].v
    BY <1>6, <1>7, MovShape, SMTT(30)
  <2> QED
    BY <1>1, <1>3, <1>6, <2>1
<1> QED
  BY <1>7, <1>8, <1>9 DEF in, out, e

---------------------------------------------------------------------------
(* The addresses of labels *)

rowOf(l) == [lbl |-> l, address |-> Target!address(Target!Min(Target!itemsOf(l)))]
named    == {l \in Target!names : Target!itemsOf(l) # {}}

LEMMA TableRows ==
  ASSUME Assembled
  PROVE  \A n \in DOMAIN table : \E l \in named : table[n] = rowOf(l)
<1>1. Target!meaning = {rowOf(l) : l \in named}
  BY DEF Target!meaning, named, rowOf
<1>2. IsFiniteSet(Target!names)
  <2> DEFINE D == {k \in DOMAIN script : script[k].type = 2}
             f == [k \in D |-> script[k].lbl]
  <2>1. Target!names = {script[k].lbl : k \in D}
    BY DEF Target!names
  <2>2. DOMAIN script = 1..Len(script) /\ Len(script) \in Nat
    BY ScriptType DEF Assembled
  <2>3. IsFiniteSet(1..Len(script))
    BY <2>2, IntervalSize
  <2>4. D \in SUBSET (1..Len(script))
    BY <2>2
  <2> HIDE DEF D
  <2>5. IsFiniteSet(D)
    BY <2>3, <2>4, FS_Subset
  <2>6. f \in [D -> Target!names]
    BY <2>1
  <2>7. Target!names = {f[k] : k \in D}
    BY <2>1
  <2> HIDE DEF f
  <2>8. IsFiniteSet({f[k] : k \in D})
    BY ONLY <2>5, <2>6, FiniteRange
  <2> QED
    BY <2>7, <2>8
<1>3. IsFiniteSet(named)
  <2>1. named \in SUBSET Target!names
    BY DEF named
  <2> QED
    BY <1>2, <2>1, FS_Subset
<1>4. IsFiniteSet(Target!meaning)
  <2> DEFINE f == [l \in named |-> rowOf(l)]
  <2>1. f \in [named -> Target!meaning] /\ Target!meaning = {f[l] : l \in named}
    BY <1>1
  <2> HIDE DEF f
  <2>2. IsFiniteSet({f[l] : l \in named})
    <3>1. f \in [named -> Target!meaning]
      BY <2>1
    <3> QED
      BY ONLY <1>3, <3>1, FiniteRange
  <2> QED
    BY <2>1, <2>2
<1>5. table = listOf(Target!meaning)
  BY SameSizes DEF table, Target!SetToSeq, Target!IsInjective, listOf
<1>6. table \in Seq(Target!meaning)
  BY <1>4, <1>5, Listing
<1>7. \A n \in DOMAIN table : table[n] \in Target!meaning
  BY <1>6
<1> QED
  BY <1>1, <1>7

LEMMA MinIn ==
  ASSUME NEW S \in SUBSET Nat, S # {}
  PROVE  Min(S) \in S /\ \A m \in S : Min(S) <= m
<1>1. \E n \in S : \A m \in S : n <= m
  BY Least
<1>2. Min(S) = CHOOSE n \in S : \A m \in S : n <= m
  BY DEF Min
<1> QED
  BY <1>1, <1>2

\* A label that the assembler finds is the address that the script gives it.
LEMMA LabelMeans ==
  ASSUME Assembled, NEW l, NEW x \in getintAddress(l, table)
  PROVE  x = Source!addressOf(l) /\ x \in Values
<1> DEFINE its == Target!itemsOf(l)
           n1  == Target!Min(its)
           W   == {j \in DOMAIN script : script[j].type = 2 /\ script[j].lbl = l}
           k   == Source!Min(W)
           A   == {j \in (k + 1)..Len(script) : script[j].type \in {0, 1}}
           n2  == Source!Min(A)
<1>1. its # {} /\ x = Target!address(n1)
  <2>1. PICK i \in Found(l, table) : x = table[i].address
    BY DEF getintAddress
  <2>2. i \in DOMAIN table /\ table[i].lbl = l
    BY <2>1 DEF Found
  <2>3. PICK m \in named : table[i] = rowOf(m)
    BY <2>2, TableRows
  <2>4. m = l /\ x = rowOf(m).address
    BY <2>1, <2>2, <2>3 DEF rowOf
  <2>5. rowOf(m).address = Target!address(Target!Min(Target!itemsOf(m)))
    BY DEF rowOf
  <2>6. Target!itemsOf(m) # {}
    BY <2>3 DEF named
  <2> QED
    BY <2>4, <2>5, <2>6
<1>2. DOMAIN script = 1..Len(script) /\ Len(script) \in Nat
  BY ScriptType DEF Assembled
<1>3. \A j : j \in its <=> \E g \in W : j \in Target!next(g)
  BY DEF Target!itemsOf, Target!written
<1>4. \A g \in W : g \in 1..Len(script) /\ \A j \in Target!next(g) :
        /\ j \in (g + 1)..Len(script) /\ script[j].type \in {0, 1}
        /\ \A i \in (g + 1)..(j - 1) : script[i].type \notin {0, 1}
  BY <1>2 DEF Target!next, Target!isItem
<1>5. \A g \in W : \A j \in (g + 1)..Len(script) :
        script[j].type \in {0, 1} /\ (\A i \in (g + 1)..(j - 1) : script[i].type \notin {0, 1}) =>
          j \in Target!next(g)
  BY DEF Target!next, Target!isItem
<1>6. Source!addressOf(l) = IF script[n2].type = 1 THEN Source!datumAt(n2) ELSE Source!startOf(n2)
  BY DEF Source!addressOf
<1> HIDE DEF its, W
<1>7. its \in SUBSET Nat
  <2>1. \A j \in its : j \in Nat
    BY <1>2, <1>3, <1>4
  <2> QED
    BY <2>1
<1>8. n1 \in its /\ \A j \in its : n1 <= j
  <2>1. n1 = Min(its)
    BY SameSizes
  <2> QED
    BY <1>1, <1>7, <2>1, MinIn
<1> HIDE DEF n1
<1>9. PICK g \in W : n1 \in Target!next(g)
  BY <1>3, <1>8
<1>10. k \in W /\ k <= g
  <2>1. W \in SUBSET Nat
    <3>1. \A j \in W : j \in Nat
      BY <1>2, <1>4
    <3> QED
      BY <3>1
  <2>2. k = Min(W)
    BY SameSizes
  <2> QED
    BY <1>9, <2>1, <2>2, MinIn
<1> HIDE DEF k
<1>11. k \in 1..Len(script) /\ g \in 1..Len(script)
  BY <1>4, <1>9, <1>10
<1>12. n1 \in A
  <2>1. n1 \in (g + 1)..Len(script) /\ script[n1].type \in {0, 1}
    BY <1>4, <1>9
  <2> QED
    BY <1>2, <1>10, <1>11, <2>1
<1>13. A \in SUBSET Nat
  <2>1. \A j \in A : j \in Nat
    BY <1>2, <1>11
  <2> QED
    BY <2>1
<1>14. n2 \in A /\ \A j \in A : n2 <= j
  <2>1. n2 = Min(A)
    BY SameSizes
  <2> HIDE DEF A, n2
  <2> QED
    BY <1>12, <1>13, <2>1, MinIn
<1> HIDE DEF n2
<1>15. n2 \in its
  <2>1. n2 \in (k + 1)..Len(script) /\ script[n2].type \in {0, 1}
    BY <1>14
  <2>2. \A i \in (k + 1)..(n2 - 1) : script[i].type \notin {0, 1}
    <3> SUFFICES ASSUME NEW i \in (k + 1)..(n2 - 1), script[i].type \in {0, 1} PROVE FALSE
      OBVIOUS
    <3>1. i \in (k + 1)..Len(script) /\ i < n2
      BY <1>2, <1>11, <2>1
    <3>2. n2 <= i
      BY <1>14, <3>1
    <3> QED
      BY <1>11, <1>2, <2>1, <3>1, <3>2
  <2>3. n2 \in Target!next(k)
    BY <1>5, <1>10, <2>1, <2>2
  <2> QED
    BY <1>3, <1>10, <2>3
<1>16. n1 = n2 /\ n1 \in Nat
  <2>1. n1 <= n2 /\ n2 <= n1
    BY <1>8, <1>12, <1>14, <1>15
  <2>2. n1 \in Nat /\ n2 \in Nat
    BY <1>7, <1>8, <1>15
  <2> QED
    BY <2>1, <2>2
<1>17. n1 \in 1..Len(script) /\ n1 \in Nat \ {0} /\ n1 - 1 \in Nat /\ script[n1].type \in {0, 1}
  <2>1. n1 \in (k + 1)..Len(script) /\ script[n1].type \in {0, 1}
    BY <1>12
  <2> QED
    BY <1>2, <1>11, <2>1
<1>18. x = IF script[n1].type = 1 THEN Source!datumAt(n1) ELSE Source!startOf(n1)
  BY <1>1, <1>17, DataSums, Starts DEF Target!address
<1>19. x = Source!addressOf(l)
  BY <1>6, <1>16, <1>18
<1>20. x \in Values
  <2>1. CASE script[n1].type = 1
    <3>1. Source!datumAt(n1) = DATA_BASE + 8 * Target!dataUpTo(n1 - 1)
      BY DataSums
    <3>2. Target!dataUpTo(n1 - 1) \in Nat
      BY <1>17, DataSums
    <3>3. Target!dataUpTo(n1 - 1) <= Target!dataUpTo(Len(script))
      BY <1>2, <1>17, DataSums
    <3>4. Target!dataUpTo(Len(script)) \in Nat /\ DATA_BASE + 8 * Target!dataUpTo(Len(script)) <= MEM_SIZE
      BY BuiltSections
    <3> QED
      BY <1>18, <2>1, <3>1, <3>2, <3>3, <3>4, Bases, Sizes DEF Values
  <2>2. CASE script[n1].type # 1
    <3>1. Source!startOf(n1) = CODE_BASE + 4 * Target!codeUpTo(n1 - 1)
      BY <1>17, Starts
    <3>2. Target!codeUpTo(n1 - 1) \in Nat
      BY <1>17, CodeSums
    <3>3. Target!codeUpTo(n1 - 1) <= Target!codeUpTo(Len(script))
      BY <1>2, <1>17, CodeSums
    <3>4. /\ Target!codeUpTo(Len(script)) \in Nat /\ Target!dataUpTo(Len(script)) \in Nat
          /\ CODE_BASE + 4 * Target!codeUpTo(Len(script)) <= DATA_BASE
          /\ DATA_BASE + 8 * Target!dataUpTo(Len(script)) <= MEM_SIZE
      BY BuiltSections
    <3>5. x = Source!startOf(n1)
      BY <1>18, <2>2
    <3>6. MEM_SIZE \in Nat /\ WORD \in Nat /\ MEM_SIZE < WORD
      BY Sizes
    <3> QED
      BY <3>1, <3>2, <3>3, <3>4, <3>5, <3>6, Bases DEF Values
  <2> QED
    BY <2>1, <2>2
<1> QED
  BY <1>19, <1>20

---------------------------------------------------------------------------
(* The words of the macros *)

LEMMA ClrLine ==
  ASSUME Assembled, NEW k \in DOMAIN script, Source!isInstr(k), script[k].cmd = "clr"
  PROVE  LET rd == script[k].args[1]
             w  == wordOf(k, 1)
         IN rd.n \in 0..31 /\ w.op = 2 /\ w.rd = rd.n /\ w.rs = rd.n /\ w.rt = rd.n
<1>1. PICK x \in expandMacro("clr", script[k].args, table) :
        \A n \in DOMAIN x : \E a \in replaceLabel(x[n].args, table) :
          getInstruction(x[n].cmd, a) = Encoded(wordOf(k, n))
  BY WordsOf
<1>2. PICK rd \in registerOf(script[k].args, 1) : x = xor(rd)
  BY DEF expandMacro
<1>3. rd = script[k].args[1] /\ Register(rd)
  BY MacroRegister, "clr" \in Macros DEF Macros
<1>4. 1 \in DOMAIN x /\ x[1].cmd = "xor" /\ x[1].args = <<rd, rd, rd>>
  BY <1>2 DEF xor, Instr
<1>5. \E a \in replaceLabel(<<rd, rd, rd>>, table) : getInstruction("xor", a) = Encoded(wordOf(k, 1))
  BY <1>1, <1>4
<1>6. /\ wordOf(k, 1).op = 2 /\ wordOf(k, 1).rd = rd.n /\ wordOf(k, 1).rs = rd.n
      /\ wordOf(k, 1).rt = rd.n
  BY <1>3, <1>5, XorWord
<1> QED
  BY <1>3, <1>6 DEF Register

LEMMA HaltLine ==
  ASSUME Assembled, NEW k \in DOMAIN script, Source!isInstr(k), script[k].cmd = "halt"
  PROVE  wordOf(k, 1).op = 15 /\ wordOf(k, 1).imm = 0
<1>1. PICK x \in expandMacro("halt", script[k].args, table) :
        \A n \in DOMAIN x : \E a \in replaceLabel(x[n].args, table) :
          getInstruction(x[n].cmd, a) = Encoded(wordOf(k, n))
  BY WordsOf
<1>2. x = priv(Reg(0), Reg(0), 0)
  BY DEF expandMacro
<1>3. 1 \in DOMAIN x /\ x[1].cmd = "priv" /\ x[1].args = <<Reg(0), Reg(0), Reg(0), Lit(0)>>
  BY <1>2 DEF priv, Instr
<1>4. Register(Reg(0))
  <2>1. Plainly(Reg(0)) /\ Reg(0).k = "reg" /\ Reg(0).n = 0
    BY PlainOperands
  <2> QED
    BY <2>1 DEF Register
<1>5. PICK a \in replaceLabel(<<Reg(0), Reg(0), Reg(0), Lit(0)>>, table) :
        getInstruction("priv", a) = Encoded(wordOf(k, 1))
  BY <1>1, <1>3
<1>6. \A u \in replaceLabel(<<Reg(0), Reg(0), Reg(0), Lit(0)>>, table) :
        getInstruction("priv", u) = Encoded(wordOf(k, 1)) =>
          wordOf(k, 1).op = 15 /\ wordOf(k, 1).imm = 0
  <2> DEFINE w == wordOf(k, 1)
  <2> HIDE DEF w
  <2>1. Plainly(Lit(0))
    BY SmallNumbers, PlainOperands
  <2>2. \A u \in replaceLabel(<<Reg(0), Reg(0), Reg(0), Lit(0)>>, table) :
          getInstruction("priv", u) = Encoded(w) =>
            w.op = 15 /\ w.rd = Reg(0).n /\ w.rs = Reg(0).n /\ w.imm = 0
    BY ONLY <1>4, <2>1, PrivWord
  <2> QED
    BY <2>2, Zenon DEF w
<1> QED
  BY ONLY <1>5, <1>6, Zenon

LEMMA DeviceLine ==
  ASSUME Assembled, NEW k \in DOMAIN script, Source!isInstr(k), script[k].cmd \in {"in", "out"}
  PROVE  LET args == script[k].args
             w    == wordOf(k, 1)
         IN /\ args[1].n \in 0..31 /\ args[2].n \in 0..31
            /\ w.op = 15 /\ w.rd = args[1].n /\ w.rs = args[2].n
            /\ w.imm = IF script[k].cmd = "in" THEN 3 ELSE 4
<1> DEFINE c    == script[k].cmd
           args == script[k].args
           op   == IF c = "in" THEN 3 ELSE 4
<1>1. PICK x \in expandMacro(c, args, table) :
        \A n \in DOMAIN x : \E a \in replaceLabel(x[n].args, table) :
          getInstruction(x[n].cmd, a) = Encoded(wordOf(k, n))
  BY WordsOf
<1>2. PICK rd \in looseRegister(args, 1), rs \in looseRegister(args, 2) : x = priv(rd, rs, op)
  BY DEF expandMacro
<1>3. 2 <= Len(args) /\ 1 <= Len(args)
  <2>1. Meant(c, args) /\ script[k] \in Entries
    BY ScriptType DEF Assembled, Source!isInstr
  <2>2. args \in Seq(Operands)
    BY <2>1 DEF Entries
  <2>3. 2 <= Len(args)
    BY <2>1 DEF Meant
  <2> QED
    BY <2>2, <2>3
<1>4. rd \in registerOf(args, 1) /\ rs \in registerOf(args, 2)
  BY <1>3 DEF looseRegister
<1>5. c \in Macros
  BY DEF Macros
<1>6. rd = args[1] /\ Register(rd)
  BY <1>4, MacroRegister
<1>7. rs = args[2] /\ Register(rs)
  BY <1>4, MacroRegister
<1>8. 1 \in DOMAIN x /\ x[1].cmd = "priv" /\ x[1].args = <<rd, rs, Reg(0), Lit(op)>>
  BY <1>2 DEF priv, Instr
<1>9. op \in {0, 3, 4}
  OBVIOUS
<1> HIDE DEF op
<1>10. PICK a \in replaceLabel(<<rd, rs, Reg(0), Lit(op)>>, table) :
         getInstruction("priv", a) = Encoded(wordOf(k, 1))
  BY <1>1, <1>8
<1>11. /\ wordOf(k, 1).op = 15 /\ wordOf(k, 1).rd = rd.n /\ wordOf(k, 1).rs = rs.n
       /\ wordOf(k, 1).imm = op
  <2> DEFINE w == wordOf(k, 1)
  <2> HIDE DEF w
  <2>1. Plainly(Lit(op))
    BY <1>9, SmallNumbers, PlainOperands
  <2>2. \A b \in replaceLabel(<<rd, rs, Reg(0), Lit(op)>>, table) :
          getInstruction("priv", b) = Encoded(w) =>
            w.op = 15 /\ w.rd = rd.n /\ w.rs = rs.n /\ w.imm = op
    BY ONLY <1>6, <1>7, <2>1, PrivWord
  <2> QED
    BY <1>10, <2>2, Zenon DEF w
<1> QED
  BY <1>6, <1>7, <1>11 DEF Register, op

LEMMA PushLine ==
  ASSUME Assembled, NEW k \in DOMAIN script, Source!isInstr(k), script[k].cmd = "push"
  PROVE  LET rd == script[k].args[1]
             w  == wordOf(k, 1)
             u  == wordOf(k, 2)
         IN /\ rd.n \in 0..30
            /\ w.op = 19 /\ w.rd = 31 /\ w.rs = rd.n /\ sign(w.imm) = -8
            /\ u.op = 27 /\ u.rd = 31 /\ u.imm = 8
<1>1. PICK x \in expandMacro("push", script[k].args, table) :
        \A n \in DOMAIN x : \E a \in replaceLabel(x[n].args, table) :
          getInstruction(x[n].cmd, a) = Encoded(wordOf(k, n))
  BY WordsOf
<1>2. PICK rd \in registerOf(script[k].args, 1) : x = push(rd)
  BY DEF expandMacro
<1>3. rd = script[k].args[1] /\ Register(rd)
  BY MacroRegister, "push" \in Macros DEF Macros
<1>4. /\ 1 \in DOMAIN x /\ x[1].cmd = "mov" /\ x[1].args = <<Mem(31, -8), rd>>
      /\ 2 \in DOMAIN x /\ x[2].cmd = "subi" /\ x[2].args = <<Reg(31), Lit(8)>>
  BY <1>2 DEF push, Instr
<1>5. PICK a \in replaceLabel(<<Mem(31, -8), rd>>, table) :
        getInstruction("mov", a) = Encoded(wordOf(k, 1))
  BY <1>1, <1>4
<1>6. PICK b \in replaceLabel(<<Reg(31), Lit(8)>>, table) :
        getInstruction("subi", b) = Encoded(wordOf(k, 2))
  BY <1>1, <1>4
<1>7. /\ wordOf(k, 1).op = 19 /\ wordOf(k, 1).rd = 31 /\ wordOf(k, 1).rs = rd.n
      /\ sign(wordOf(k, 1).imm) = -8
  <2> DEFINE w == wordOf(k, 1)
  <2> HIDE DEF w
  <2>1. Register(rd) /\ -8 \in {0, -8}
    BY <1>3
  <2>2. \A e \in replaceLabel(<<Mem(31, -8), rd>>, table) :
          getInstruction("mov", e) = Encoded(w) =>
            w.op = 19 /\ w.rd = 31 /\ w.rs = rd.n /\ w.imm \in 0..(IMM - 1) /\ sign(w.imm) = -8
    BY ONLY <2>1, StackWord
  <2>3. getInstruction("mov", a) = Encoded(w)
    BY <1>5 DEF w
  <2>4. w.op = 19 /\ w.rd = 31 /\ w.rs = rd.n /\ sign(w.imm) = -8
    BY <2>2, <2>3
  <2> QED
    BY <2>4 DEF w
<1>8. Register(Reg(31)) /\ Reg(31).n = 31
  <2>1. Plainly(Reg(31)) /\ Reg(31).k = "reg" /\ Reg(31).n = 31
    BY PlainOperands
  <2> QED
    BY <2>1 DEF Register
<1>9. 8 \in 0..(IMM - 1) /\ asmOpcode["subi"] = 27
  BY MachineAssumption DEF asmOpcode
<1>10. wordOf(k, 2).op = 27 /\ wordOf(k, 2).rd = 31 /\ wordOf(k, 2).imm = 8
  BY <1>6, <1>8, <1>9, ImmediateWord
<1>11. rd.n \in 0..30
  <2>1. script[k] \in Entries /\ Meant("push", script[k].args)
    BY ScriptType DEF Assembled, Source!isInstr
  <2>2. script[k].args[1].n # 31
    <3>1. 1 \in DOMAIN script[k].args
      <4>1. rd = slot(script[k].args, 1) /\ isRegister(rd)
        BY Zenon DEF registerOf
      <4>2. script[k].args \in Seq(Operands)
        BY <2>1 DEF Entries
      <4>3. rd.k = "reg"
        BY <1>3 DEF Register
      <4>4. 1 <= Len(script[k].args)
        BY <4>1, <4>3 DEF slot, Lit
      <4> QED
        BY <4>2, <4>4
    <3> QED
      BY <2>1, <3>1 DEF Meant
  <2>3. rd.n \in 0..31
    BY <1>3 DEF Register
  <2> QED
    BY <1>3, <2>2, <2>3
<1> QED
  BY <1>3, <1>7, <1>10, <1>11

LEMMA PopLine ==
  ASSUME Assembled, NEW k \in DOMAIN script, Source!isInstr(k), script[k].cmd = "pop"
  PROVE  LET rd == script[k].args[1]
             w  == wordOf(k, 1)
             u  == wordOf(k, 2)
         IN /\ rd.n \in 0..31
            /\ w.op = 16 /\ w.rd = rd.n /\ w.rs = 31 /\ sign(w.imm) = 0
            /\ u.op = 25 /\ u.rd = 31 /\ u.imm = 8
<1>1. PICK x \in expandMacro("pop", script[k].args, table) :
        \A n \in DOMAIN x : \E a \in replaceLabel(x[n].args, table) :
          getInstruction(x[n].cmd, a) = Encoded(wordOf(k, n))
  BY WordsOf
<1>2. PICK rd \in registerOf(script[k].args, 1) : x = pop(rd)
  BY DEF expandMacro
<1>3. rd = script[k].args[1] /\ Register(rd)
  BY MacroRegister, "pop" \in Macros DEF Macros
<1>4. /\ 1 \in DOMAIN x /\ x[1].cmd = "mov" /\ x[1].args = <<rd, Mem(31, 0)>>
      /\ 2 \in DOMAIN x /\ x[2].cmd = "addi" /\ x[2].args = <<Reg(31), Lit(8)>>
  BY <1>2 DEF pop, Instr
<1>5. PICK a \in replaceLabel(<<rd, Mem(31, 0)>>, table) :
        getInstruction("mov", a) = Encoded(wordOf(k, 1))
  BY <1>1, <1>4
<1>6. PICK b \in replaceLabel(<<Reg(31), Lit(8)>>, table) :
        getInstruction("addi", b) = Encoded(wordOf(k, 2))
  BY <1>1, <1>4
<1>7. /\ wordOf(k, 1).op = 16 /\ wordOf(k, 1).rd = rd.n /\ wordOf(k, 1).rs = 31
      /\ sign(wordOf(k, 1).imm) = 0
  <2> DEFINE w == wordOf(k, 1)
  <2> HIDE DEF w
  <2>1. Register(rd) /\ 0 \in {0, -8}
    BY <1>3
  <2>2. \A e \in replaceLabel(<<rd, Mem(31, 0)>>, table) :
          getInstruction("mov", e) = Encoded(w) =>
            w.op = 16 /\ w.rd = rd.n /\ w.rs = 31 /\ w.imm \in 0..(IMM - 1) /\ sign(w.imm) = 0
    BY ONLY <2>1, StackWord
  <2>3. getInstruction("mov", a) = Encoded(w)
    BY <1>5 DEF w
  <2>4. w.op = 16 /\ w.rd = rd.n /\ w.rs = 31 /\ sign(w.imm) = 0
    BY <2>2, <2>3
  <2> QED
    BY <2>4 DEF w
<1>8. Register(Reg(31)) /\ Reg(31).n = 31
  <2>1. Plainly(Reg(31)) /\ Reg(31).k = "reg" /\ Reg(31).n = 31
    BY PlainOperands
  <2> QED
    BY <2>1 DEF Register
<1>9. 8 \in 0..(IMM - 1) /\ asmOpcode["addi"] = 25
  BY MachineAssumption DEF asmOpcode
<1>10. wordOf(k, 2).op = 25 /\ wordOf(k, 2).rd = 31 /\ wordOf(k, 2).imm = 8
  BY <1>6, <1>8, <1>9, ImmediateWord
<1>11. rd.n \in 0..31
  BY <1>3 DEF Register
<1> QED
  BY <1>3, <1>7, <1>10, <1>11

\* What ld puts into its register ...
meantBy(args) == IF args[2].k = "lab" THEN Source!addressOf(args[2].l) ELSE ull(args[2].v)

LEMMA LdValue ==
  ASSUME Assembled, NEW args \in Seq(Operands), Meant("ld", args), NEW v \in ldValue(args, table)
  PROVE  v \in Values /\ v = meantBy(args)
<1>1. args[2].k \in {"lit", "lab"} /\ args[2].v \in (-(WORD - 1))..(WORD - 1) /\ 2 <= Len(args)
  BY DEF Meant
<1>2. slot(args, 2) = args[2]
  BY <1>1 DEF slot
<1>3. CASE args[2].k = "lab"
  <2>1. v \in getintAddress(args[2].l, table)
    BY <1>2, <1>3 DEF ldValue
  <2>2. v = Source!addressOf(args[2].l) /\ v \in Values
    BY <2>1, LabelMeans
  <2> QED
    BY <1>3, <2>2, Zenon DEF meantBy
<1>4. CASE args[2].k = "lit"
  <2>1. v = parseLiteral(args[2].v, args[2].hex)
    BY <1>2, <1>4 DEF ldValue
  <2>2. 2 \in DOMAIN args
    BY <1>1
  <2>3. ~args[2].hex
    BY <2>2 DEF Meant
  <2>4. args[2].v \in Int /\ WORD \in Nat /\ 0 < WORD /\ ~(args[2].v >= WORD \/ -args[2].v >= WORD)
    BY <1>1, WidthAssumption
  <2>5. v = args[2].v % WORD
    BY <2>1, <2>3, <2>4, Zenon DEF parseLiteral
  <2>6. args[2].v % WORD \in 0..(WORD - 1)
    BY <2>4
  <2>7. v = meantBy(args)
    BY <1>4, <2>5 DEF meantBy, ull
  <2> QED
    BY <2>5, <2>6, <2>7 DEF Values
<1> QED
  BY <1>1, <1>3, <1>4

\* ... and the words that do it: the register is cleared, then the value comes in, chunk
\* by chunk.
adds(w, n, x)   == w.op = 25 /\ w.rd = n /\ w.imm = x
shifts(w, n, x) == w.op = 7 /\ w.rd = n /\ w.imm = x
clears(w, n)    == w.op = 2 /\ w.rd = n /\ w.rs = n /\ w.rt = n

buildsValue(k, n, v) ==
  /\ clears(wordOf(k, 1), n)
  /\ adds(wordOf(k, 2), n, rest4(v) % IMM)   /\ shifts(wordOf(k, 3), n, IMM_BITS)
  /\ adds(wordOf(k, 4), n, rest3(v) % IMM)   /\ shifts(wordOf(k, 5), n, IMM_BITS)
  /\ adds(wordOf(k, 6), n, rest2(v) % IMM)   /\ shifts(wordOf(k, 7), n, IMM_BITS)
  /\ adds(wordOf(k, 8), n, rest1(v) % IMM)   /\ shifts(wordOf(k, 9), n, IMM_BITS)
  /\ adds(wordOf(k, 10), n, rest0(v) % IMM)  /\ shifts(wordOf(k, 11), n, LOW_BITS)
  /\ adds(wordOf(k, 12), n, v % LOW)

LEMMA LdLine ==
  ASSUME Assembled, NEW k \in DOMAIN script, Source!isInstr(k), script[k].cmd = "ld"
  PROVE  LET args == script[k].args
         IN /\ args[1].n \in 0..31 /\ meantBy(args) \in Values
            /\ buildsValue(k, args[1].n, meantBy(args))
<1> DEFINE args == script[k].args
<1>1. PICK x \in expandMacro("ld", args, table) :
        \A n \in DOMAIN x : \E a \in replaceLabel(x[n].args, table) :
          getInstruction(x[n].cmd, a) = Encoded(wordOf(k, n))
  BY WordsOf
<1>2. \E rd \in registerOf(args, 1), v \in ldValue(args, table) : x = ld(rd, v)
  BY DEF expandMacro
<1>3. PICK rd \in registerOf(args, 1), v \in ldValue(args, table) : x = ld(rd, v)
  BY <1>2
<1>4. rd = args[1] /\ Register(rd)
  BY MacroRegister, "ld" \in Macros DEF Macros
<1>5. args \in Seq(Operands) /\ Meant("ld", args)
  BY ScriptType DEF Assembled, Source!isInstr, Entries
<1>6. v \in Values /\ v = meantBy(args)
  BY <1>5, LdValue
<1> DEFINE add(n, y)   == n \in DOMAIN x /\ x[n].cmd = "addi" /\ x[n].args = <<rd, Lit(y)>>
           shift(n, y) == n \in DOMAIN x /\ x[n].cmd = "shftli" /\ x[n].args = <<rd, Lit(y)>>
<1>7. /\ 1 \in DOMAIN x /\ x[1].cmd = "xor" /\ x[1].args = <<rd, rd, rd>>
      /\ add(2, rest4(v) % IMM)
      /\ shift(3, IMM_BITS) /\ add(4, rest3(v) % IMM)
      /\ shift(5, IMM_BITS) /\ add(6, rest2(v) % IMM)
      /\ shift(7, IMM_BITS) /\ add(8, rest1(v) % IMM)
      /\ shift(9, IMM_BITS) /\ add(10, rest0(v) % IMM)
      /\ shift(11, LOW_BITS) /\ add(12, v % LOW)
  BY <1>3 DEF ld, Instr, rest0, rest1, rest2, rest3, rest4
<1>8. clears(wordOf(k, 1), rd.n)
  <2>1. PICK a \in replaceLabel(<<rd, rd, rd>>, table) : getInstruction("xor", a) = Encoded(wordOf(k, 1))
    BY <1>1, <1>7
  <2> QED
    BY <1>4, <2>1, XorWord DEF clears
<1>9. ASSUME NEW n, NEW y \in 0..(IMM - 1), add(n, y)
      PROVE  adds(wordOf(k, n), rd.n, y)
  <2>1. PICK a \in replaceLabel(<<rd, Lit(y)>>, table) : getInstruction("addi", a) = Encoded(wordOf(k, n))
    BY <1>1, <1>9
  <2>2. asmOpcode["addi"] = 25
    BY DEF asmOpcode
  <2>3. /\ wordOf(k, n).op = asmOpcode["addi"] /\ wordOf(k, n).rd = rd.n /\ wordOf(k, n).imm = y
    BY <1>4, <2>1, ImmediateWord
  <2> QED
    BY <2>2, <2>3, Zenon DEF adds
<1>10. ASSUME NEW n, NEW y \in 0..(IMM - 1), shift(n, y)
       PROVE  shifts(wordOf(k, n), rd.n, y)
  <2>1. PICK a \in replaceLabel(<<rd, Lit(y)>>, table) : getInstruction("shftli", a) = Encoded(wordOf(k, n))
    BY <1>1, <1>10
  <2>2. asmOpcode["shftli"] = 7
    BY DEF asmOpcode
  <2>3. /\ wordOf(k, n).op = asmOpcode["shftli"] /\ wordOf(k, n).rd = rd.n /\ wordOf(k, n).imm = y
    BY <1>4, <2>1, ImmediateWord
  <2> QED
    BY <2>2, <2>3, Zenon DEF shifts
<1>11. /\ rest4(v) % IMM \in 0..(IMM - 1) /\ rest3(v) % IMM \in 0..(IMM - 1)
       /\ rest2(v) % IMM \in 0..(IMM - 1) /\ rest1(v) % IMM \in 0..(IMM - 1)
       /\ rest0(v) % IMM \in 0..(IMM - 1) /\ v % LOW \in 0..(IMM - 1)
       /\ IMM_BITS \in 0..(IMM - 1) /\ LOW_BITS \in 0..(IMM - 1)
  <2>1. \A y \in Nat : y % IMM \in 0..(IMM - 1) /\ y % LOW \in 0..(IMM - 1)
    BY WidthAssumption, ChunkAssumption
  <2>2. /\ rest4(v) \in Nat /\ rest3(v) \in Nat /\ rest2(v) \in Nat /\ rest1(v) \in Nat
        /\ rest0(v) \in Nat /\ v \in Nat
    BY <1>6, Chunks DEF Values
  <2>3. IMM_BITS \in 0..(IMM - 1) /\ LOW_BITS \in 0..(IMM - 1)
    BY ChunkAssumption, ShiftAssumption, WidthAssumption
  <2> QED
    BY <2>1, <2>2, <2>3
<1> HIDE DEF add, shift
<1>12. buildsValue(k, rd.n, v)
  BY <1>7, <1>8, <1>9, <1>10, <1>11, Zenon DEF buildsValue
<1> QED
  BY <1>4, <1>6, <1>12 DEF Register

\* What the register holds after each of them.
partsOf(v) == << 0, rest4(v), rest4(v) * IMM, rest3(v), rest3(v) * IMM, rest2(v), rest2(v) * IMM,
                 rest1(v), rest1(v) * IMM, rest0(v), rest0(v) * LOW, v >>

LEMMA ShiftedIn ==
  ASSUME NEW y \in Values, NEW w \in Nat, 0 < w, NEW b \in Nat, 2^b = w, b < BITS
  PROVE  /\ shiftl(y \div w, b) = (y \div w) * w /\ (y \div w) * w \in Values
         /\ ull(((y \div w) * w) + (y % w)) = y
<1> DEFINE q == y \div w
           z == q * w
           c == y % w
<1>1. y \in Nat /\ y < WORD /\ WORD \in Nat /\ 0 < WORD
  BY WidthAssumption DEF Values
<1>2. q \in Nat /\ c \in Nat /\ z \in Nat /\ z <= y /\ z + c = y
  <2>1. /\ y \div w \in Nat /\ y % w \in 0..(w - 1) /\ y = (y \div w) * w + (y % w)
        /\ (y \div w) * w <= y
    BY <1>1, Division
  <2> QED
    BY <2>1
<1>3. b % BITS = b
  BY ShiftAssumption
<1>4. shiftl(q, b) = z % WORD
  BY <1>3 DEF shiftl
<1> HIDE DEF z, c, q
<1>5. z % WORD = z /\ z \in Values /\ ull(z + c) = y
  BY <1>1, <1>2 DEF Values, ull
<1> QED
  BY <1>4, <1>5 DEF z, c, q

LEMMA LdSteps ==
  ASSUME NEW k, NEW n, NEW v \in Values, buildsValue(k, n, v)
  PROVE  /\ \A j \in 1..12 : partsOf(v)[j] \in Values
         /\ partsOf(v)[1] = 0 /\ partsOf(v)[12] = v
         /\ \A j \in 1..11 :
              \/ /\ wordOf(k, j + 1).op = 25 /\ wordOf(k, j + 1).rd = n
                 /\ partsOf(v)[j + 1] = ull(partsOf(v)[j] + wordOf(k, j + 1).imm)
              \/ /\ wordOf(k, j + 1).op = 7 /\ wordOf(k, j + 1).rd = n
                 /\ partsOf(v)[j + 1] = shiftl(partsOf(v)[j], wordOf(k, j + 1).imm)
<1> DEFINE p == partsOf(v)
           adding(j)   == /\ wordOf(k, j + 1).op = 25 /\ wordOf(k, j + 1).rd = n
                          /\ p[j + 1] = ull(p[j] + wordOf(k, j + 1).imm)
           shifting(j) == /\ wordOf(k, j + 1).op = 7 /\ wordOf(k, j + 1).rd = n
                          /\ p[j + 1] = shiftl(p[j], wordOf(k, j + 1).imm)
<1>1. /\ p[1] = 0 /\ p[2] = rest4(v) /\ p[3] = rest4(v) * IMM /\ p[4] = rest3(v)
      /\ p[5] = rest3(v) * IMM /\ p[6] = rest2(v) /\ p[7] = rest2(v) * IMM /\ p[8] = rest1(v)
      /\ p[9] = rest1(v) * IMM /\ p[10] = rest0(v) /\ p[11] = rest0(v) * LOW /\ p[12] = v
  BY DEF partsOf
<1> HIDE DEF p
<1>2. /\ IMM \in Nat /\ 0 < IMM /\ 2^IMM_BITS = IMM /\ IMM_BITS \in Nat /\ IMM_BITS < BITS
      /\ LOW \in Nat /\ 0 < LOW /\ 2^LOW_BITS = LOW /\ LOW_BITS \in Nat /\ LOW_BITS < BITS
      /\ WORD \in Nat /\ 0 < WORD
  BY WidthAssumption, ChunkAssumption, LdAssumption, ShiftAssumption
<1>3. /\ rest4(v) \in Values /\ rest3(v) \in Values /\ rest2(v) \in Values /\ rest1(v) \in Values
      /\ rest0(v) \in Values /\ rest4(v) % IMM = rest4(v)
  BY Chunks DEF Values
<1>4. \A y \in Values : /\ shiftl(y \div IMM, IMM_BITS) = (y \div IMM) * IMM
                        /\ (y \div IMM) * IMM \in Values
                        /\ ull(((y \div IMM) * IMM) + (y % IMM)) = y
  BY ONLY <1>2, ShiftedIn
<1>5. /\ shiftl(v \div LOW, LOW_BITS) = (v \div LOW) * LOW /\ (v \div LOW) * LOW \in Values
      /\ ull(((v \div LOW) * LOW) + (v % LOW)) = v
  BY ONLY <1>2, ShiftedIn, v \in Values
<1>6. /\ shiftl(rest4(v), IMM_BITS) = rest4(v) * IMM /\ rest4(v) * IMM \in Values
      /\ ull(rest4(v) * IMM + (rest3(v) % IMM)) = rest3(v)
  BY <1>3, <1>4, Zenon DEF rest4
<1>7. /\ shiftl(rest3(v), IMM_BITS) = rest3(v) * IMM /\ rest3(v) * IMM \in Values
      /\ ull(rest3(v) * IMM + (rest2(v) % IMM)) = rest2(v)
  BY <1>3, <1>4, Zenon DEF rest3
<1>8. /\ shiftl(rest2(v), IMM_BITS) = rest2(v) * IMM /\ rest2(v) * IMM \in Values
      /\ ull(rest2(v) * IMM + (rest1(v) % IMM)) = rest1(v)
  BY <1>3, <1>4, Zenon DEF rest2
<1>9. /\ shiftl(rest1(v), IMM_BITS) = rest1(v) * IMM /\ rest1(v) * IMM \in Values
      /\ ull(rest1(v) * IMM + (rest0(v) % IMM)) = rest0(v)
  BY <1>3, <1>4, Zenon DEF rest1
<1>10. /\ shiftl(rest0(v), LOW_BITS) = rest0(v) * LOW /\ rest0(v) * LOW \in Values
       /\ ull(rest0(v) * LOW + (v % LOW)) = v
  BY <1>5, Zenon DEF rest0
<1>11. ull(0 + (rest4(v) % IMM)) = rest4(v) /\ 0 \in Values
  <2>1. rest4(v) \in 0..(WORD - 1)
    BY <1>3 DEF Values
  <2> QED
    BY <1>2, <1>3, <2>1 DEF ull, Values
<1>12. \A j \in 1..12 : p[j] \in Values
  BY <1>1, <1>3, <1>6, <1>7, <1>8, <1>9, <1>10, <1>11
<1>13. adding(1) /\ adding(3) /\ adding(5) /\ adding(7) /\ adding(9) /\ adding(11)
  BY <1>1, <1>6, <1>7, <1>8, <1>9, <1>10, <1>11 DEF buildsValue, adds
<1>14. shifting(2) /\ shifting(4) /\ shifting(6) /\ shifting(8) /\ shifting(10)
  BY <1>1, <1>6, <1>7, <1>8, <1>9, <1>10 DEF buildsValue, shifts
<1> HIDE DEF adding, shifting
<1>15. \A j \in 1..11 : adding(j) \/ shifting(j)
  <2>1. \A j \in 1..11 : j \in {1, 2, 3, 4, 5, 6, 7, 8, 9, 10, 11}
    OBVIOUS
  <2> QED
    BY <1>13, <1>14, <2>1
<1> QED
  BY <1>1, <1>12, <1>15 DEF p, adding, shifting

\* The forms of mov and brr.
LEMMA MovLine ==
  ASSUME Assembled, NEW k \in DOMAIN script, Source!isInstr(k), script[k].cmd = "mov"
  PROVE  LET a == script[k].args[1]
             b == script[k].args[2]
             w == wordOf(k, 1)
         IN \/ /\ a.k = "reg" /\ b.k = "mem" /\ a.n \in 0..31 /\ b.n \in 0..31
               /\ w.op = 16 /\ w.rd = a.n /\ w.rs = b.n /\ sign(w.imm) = b.v
            \/ /\ a.k = "reg" /\ b.k = "reg" /\ a.n \in 0..31 /\ b.n \in 0..31
               /\ w.op = 17 /\ w.rd = a.n /\ w.rs = b.n
            \/ /\ a.k = "reg" /\ b.k = "lit" /\ a.n \in 0..31
               /\ w.op = 18 /\ w.rd = a.n /\ w.imm = b.v
            \/ /\ a.k = "mem" /\ b.k = "reg" /\ a.n \in 0..31 /\ b.n \in 0..31
               /\ w.op = 19 /\ w.rd = a.n /\ w.rs = b.n /\ sign(w.imm) = a.v
<1> DEFINE args == script[k].args
           w    == wordOf(k, 1)
<1>1. Ordinary(args) /\ Meant("mov", args) /\ getInstruction("mov", args) = Encoded(w)
  BY OperationWord DEF Macros
<1>2. getMovInstruction(args) = Encoded(w)
  BY <1>1, Zenon DEF getInstruction
<1>3. 2 <= Len(args) /\ <<args[1].k, args[2].k>> \in
                {<<"reg", "reg">>, <<"reg", "lit">>, <<"reg", "mem">>, <<"mem", "reg">>}
  BY <1>1 DEF Meant
<1>4. wordOf(k, 1) \in Word
  BY WordPlaces DEF cnt
<1> HIDE DEF args, w
<1>5. 2 <= Len(args)
  BY <1>3
<1>6. \/ args[1].k = "reg" /\ args[2].k = "mem"
      \/ args[1].k = "reg" /\ args[2].k = "reg"
      \/ args[1].k = "reg" /\ args[2].k = "lit"
      \/ args[1].k = "mem" /\ args[2].k = "reg"
  BY <1>3
<1>7. /\ args[1].k = "reg" /\ args[2].k = "mem" =>
           w.op = 16 /\ w.rd = args[1].n /\ w.rs = args[2].n /\ sign(w.imm) = args[2].v
      /\ args[1].k = "reg" /\ args[2].k = "reg" =>
           w.op = 17 /\ w.rd = args[1].n /\ w.rs = args[2].n
      /\ args[1].k = "reg" /\ args[2].k = "lit" =>
           w.op = 18 /\ w.rd = args[1].n /\ w.imm = args[2].v
      /\ args[1].k = "mem" /\ args[2].k = "reg" =>
           w.op = 19 /\ w.rd = args[1].n /\ w.rs = args[2].n /\ sign(w.imm) = args[1].v
      /\ args[1].k \in {"reg", "mem"} /\ args[2].k \in {"reg", "mem"} =>
           \/ args[1].k = "mem" /\ args[2].k = "mem"
           \/ args[1].n \in 0..31 /\ args[2].n \in 0..31
  BY ONLY <1>1, <1>2, <1>5, MovShape
<1>8. w.rd \in 0..31
  BY <1>4 DEF w, Word
<1>9. args[1].k = "reg" /\ args[2].k = "lit" => args[1].n \in 0..31
  BY ONLY <1>7, <1>8
<1>10. \/ /\ args[1].k = "reg" /\ args[2].k = "mem" /\ args[1].n \in 0..31 /\ args[2].n \in 0..31
          /\ w.op = 16 /\ w.rd = args[1].n /\ w.rs = args[2].n /\ sign(w.imm) = args[2].v
       \/ /\ args[1].k = "reg" /\ args[2].k = "reg" /\ args[1].n \in 0..31 /\ args[2].n \in 0..31
          /\ w.op = 17 /\ w.rd = args[1].n /\ w.rs = args[2].n
       \/ /\ args[1].k = "reg" /\ args[2].k = "lit" /\ args[1].n \in 0..31
          /\ w.op = 18 /\ w.rd = args[1].n /\ w.imm = args[2].v
       \/ /\ args[1].k = "mem" /\ args[2].k = "reg" /\ args[1].n \in 0..31 /\ args[2].n \in 0..31
          /\ w.op = 19 /\ w.rd = args[1].n /\ w.rs = args[2].n /\ sign(w.imm) = args[1].v
  BY ONLY <1>6, <1>7, <1>9
<1> QED
  BY <1>10 DEF args, w

LEMMA BrrLine ==
  ASSUME Assembled, NEW k \in DOMAIN script, Source!isInstr(k), script[k].cmd = "brr"
  PROVE  LET a == script[k].args[1]
             w == wordOf(k, 1)
         IN /\ a.k = "lit" => w.op = 10 /\ sign(w.imm) = a.v
            /\ a.k # "lit" => w.op = 9 /\ w.rd = a.n /\ a.n \in 0..31
<1> DEFINE args == script[k].args
           w    == wordOf(k, 1)
<1>1. Ordinary(args) /\ Meant("brr", args) /\ getInstruction("brr", args) = Encoded(w)
  BY OperationWord DEF Macros
<1>2. getBrrInstruction(args) = Encoded(w)
  BY <1>1, Zenon DEF getInstruction
<1>3. 1 <= Len(args)
  BY <1>1 DEF Meant
<1> HIDE DEF args, w
<1>4. /\ args[1].k = "lit" => w.op = 10 /\ w.imm \in 0..(IMM - 1) /\ sign(w.imm) = args[1].v
      /\ args[1].k # "lit" => w.op = 9 /\ w.rd = args[1].n /\ args[1].n \in 0..31
  BY ONLY <1>1, <1>2, <1>3, BrrShape
<1> QED
  BY <1>4, Zenon DEF args, w

---------------------------------------------------------------------------
(* What the simulator finds at pc *)

LEMMA InsideCode ==
  ASSUME Assembled, NEW k \in DOMAIN script, Source!isInstr(k), NEW n \in 1..cnt(script[k].cmd)
  PROVE  LET x == Source!startOf(k) + 4 * (n - 1)
         IN x \in Nat /\ x + 4 <= MEM_SIZE /\ x..(x + 3) \subseteq Source!code
<1> DEFINE p == Target!codeUpTo(k - 1) + n
           x == Source!startOf(k) + 4 * (n - 1)
           m == Target!codeUpTo(Len(script))
<1>1. Target!codeUpTo(k - 1) \in Nat /\ p \in DOMAIN built.code /\ x = CODE_BASE + 4 * (p - 1)
  BY WordPlaces
<1>2. /\ m \in Nat /\ built.code \in Seq(Word) /\ Len(built.code) = m
      /\ Source!code = CODE_BASE..(CODE_BASE + 4 * m - 1)
  BY BuiltSections
<1>3. CODE_BASE + 4 * m <= MEM_SIZE
  <2>1. Target!dataUpTo(Len(script)) \in Nat /\ CODE_BASE + 4 * m <= DATA_BASE
        /\ DATA_BASE + 8 * Target!dataUpTo(Len(script)) <= MEM_SIZE
    BY BuiltSections
  <2> HIDE DEF m
  <2> QED
    BY <1>2, <2>1, Bases, Sizes
<1>4. p \in 1..m
  BY <1>1, <1>2
<1> HIDE DEF p, x, m
<1>5. x = CODE_BASE + 4 * (p - 1) /\ m \in Nat
  BY <1>1, <1>2
<1>6. x \in Nat /\ CODE_BASE <= x /\ x + 4 <= CODE_BASE + 4 * m
  BY ONLY <1>4, <1>5, Bases
<1>7. x + 4 <= MEM_SIZE
  BY ONLY <1>3, <1>5, <1>6, Bases, Sizes
<1>8. x..(x + 3) \subseteq Source!code
  <2>1. Source!code = CODE_BASE..(CODE_BASE + 4 * m - 1)
    BY <1>2
  <2>2. \A y \in x..(x + 3) : y \in CODE_BASE..(CODE_BASE + 4 * m - 1)
    BY ONLY <1>5, <1>6, Bases
  <2> QED
    BY <2>1, <2>2
<1> QED
  BY <1>6, <1>7, <1>8 DEF x

LEMMA Fetch ==
  ASSUME Assembled, TypeOK, CodeStands(mem), NEW k \in DOMAIN script, Source!isInstr(k),
         NEW n \in 1..cnt(script[k].cmd), pc = Source!startOf(k) + 4 * (n - 1)
  PROVE  fetched /\ ins = wordOf(k, n)
<1>1. pc \in Nat /\ pc + 4 <= MEM_SIZE
  BY InsideCode
<1>2. pc \in Values /\ (pc + 4) - 1 \in Values /\ (pc + 4) - 1 < MEM_SIZE /\ pc < MEM_SIZE
  BY <1>1, Sizes DEF Values
<1>3. ull(pc) = pc /\ ull((pc + 4) - 1) = (pc + 4) - 1
  BY <1>2, UllSame
<1>4. fetched
  BY <1>2, <1>3 DEF fetched, verified, verifyAddress
<1>5. /\ Target!codeUpTo(k - 1) + n \in DOMAIN built.code
      /\ pc = CODE_BASE + 4 * ((Target!codeUpTo(k - 1) + n) - 1)
  BY WordPlaces
<1>6. wordAt(mem, pc) = built.code[Target!codeUpTo(k - 1) + n]
  BY <1>5 DEF CodeStands
<1> QED
  BY <1>4, <1>6 DEF wordAt, ins, wordOf

\* The rows of the simulator's table are those the assembler means.
LEMMA Decoded ==
  /\ \A c \in PlainCommands : getCmd(asmOpcode[c]) = c
  /\ getCmd(2) = "xor" /\ getCmd(7) = "shftli" /\ getCmd(25) = "addi" /\ getCmd(27) = "subi"
  /\ getCmd(9) = "brr" /\ getCmd(10) = "brr2" /\ getCmd(15) = "priv"
  /\ getCmd(16) = "mov" /\ getCmd(17) = "mov1" /\ getCmd(18) = "mov2" /\ getCmd(19) = "mov3"
<1>1. \A op \in 0..29 : getCmd(op) = simCommand[op + 1]
  BY DEF getCmd
<1>2. /\ getCmd(0) = "and" /\ getCmd(1) = "or" /\ getCmd(2) = "xor" /\ getCmd(3) = "not"
      /\ getCmd(4) = "shftr" /\ getCmd(5) = "shftri" /\ getCmd(6) = "shftl" /\ getCmd(7) = "shftli"
      /\ getCmd(8) = "br" /\ getCmd(9) = "brr" /\ getCmd(10) = "brr2" /\ getCmd(11) = "brnz"
      /\ getCmd(12) = "call" /\ getCmd(13) = "return" /\ getCmd(14) = "brgt" /\ getCmd(15) = "priv"
  BY <1>1 DEF simCommand
<1>3. /\ getCmd(16) = "mov" /\ getCmd(17) = "mov1" /\ getCmd(18) = "mov2" /\ getCmd(19) = "mov3"
      /\ getCmd(24) = "add" /\ getCmd(25) = "addi" /\ getCmd(26) = "sub" /\ getCmd(27) = "subi"
      /\ getCmd(28) = "mul" /\ getCmd(29) = "div"
  BY <1>1 DEF simCommand
<1>4. /\ asmOpcode["and"] = 0 /\ asmOpcode["or"] = 1 /\ asmOpcode["xor"] = 2 /\ asmOpcode["not"] = 3
      /\ asmOpcode["shftr"] = 4 /\ asmOpcode["shftri"] = 5 /\ asmOpcode["shftl"] = 6
      /\ asmOpcode["shftli"] = 7 /\ asmOpcode["br"] = 8 /\ asmOpcode["brnz"] = 11
      /\ asmOpcode["call"] = 12 /\ asmOpcode["return"] = 13 /\ asmOpcode["brgt"] = 14
  BY DEF asmOpcode
<1>5. /\ asmOpcode["add"] = 24 /\ asmOpcode["addi"] = 25 /\ asmOpcode["sub"] = 26
      /\ asmOpcode["subi"] = 27 /\ asmOpcode["mul"] = 28 /\ asmOpcode["div"] = 29
  BY DEF asmOpcode
<1>6. ASSUME NEW c \in PlainCommands PROVE getCmd(asmOpcode[c]) = c
  <2>1. CASE c \in {"and", "or", "xor", "not", "shftr", "shftri", "shftl", "shftli"}
    BY ONLY <1>2, <1>4, <2>1
  <2>2. CASE c \in {"br", "brnz", "call", "return", "brgt"}
    BY ONLY <1>2, <1>4, <2>2
  <2>3. CASE c \in {"add", "addi", "sub", "subi", "mul", "div"}
    BY ONLY <1>3, <1>5, <2>3
  <2> QED
    BY <2>1, <2>2, <2>3 DEF PlainCommands, Registers3, Registers2, Registers1, Immediates
<1> QED
  BY <1>2, <1>3, <1>6

\* Which actions an instruction can take.
Failing(why) == why /\ simErr

LEMMA Round ==
  ASSUME status = "running", fetched, Next
  PROVE  /\ cmd \in Computing => (Compute /\ ~byZero) \/ Failing(byZero)
         /\ cmd = "mov" => ReadWord \/ Failing(~verified(operand, 8))
         /\ cmd = "mov3" => WriteWord \/ Failing(~verified(operand, 8))
         /\ cmd \in {"br", "brnz", "brgt"} => Branch
         /\ cmd \in {"brr", "brr2"} => BranchRelative
         /\ cmd = "call" => \/ Call
                            \/ Failing(~verified(operand, 8) \/ ~verifyAddress(d))
         /\ cmd = "return" => Return \/ Failing(~verified(operand, 8))
         /\ cmd = "priv" => \/ Halt \/ Input \/ Output
                            \/ Failing(imm = 3 /\ s = 0 /\ lineRead = {})
                            \/ Failing(imm # 0 /\ ~(imm = 3 /\ s = 0) /\ ~(imm = 4 /\ d \in {1, 3}))
<1>1. /\ ~Starting /\ ~BadFetch /\ ~Ended
  BY DEF Starting, NoFile, Load, LoadOverrun, BadFetch, Ended
<1>2. \/ Runs({"fault"}) \/ Compute \/ DivideByZero \/ Moving \/ Branching \/ Private
  BY <1>1 DEF Next, BadOpcode
<1>3. cmd \in Computing => (Compute /\ ~byZero) \/ Failing(byZero)
  BY <1>2 DEF Computing, Runs, Compute, DivideByZero, Moving, ReadWord, WriteWord, BadAddress,
       Branching, Branch, BranchRelative, Call, BadCall, Return,
       Private, Halt, Input, BadInput, Output, BadPriv, Failing
<1>4. /\ cmd = "mov" => ReadWord \/ Failing(~verified(operand, 8))
      /\ cmd = "mov3" => WriteWord \/ Failing(~verified(operand, 8))
  BY <1>2 DEF Computing, Runs, Compute, DivideByZero, Moving, ReadWord, WriteWord, BadAddress,
       Branching, Branch, BranchRelative, Call, BadCall, Return,
       Private, Halt, Input, BadInput, Output, BadPriv, Failing
<1>5. /\ cmd \in {"br", "brnz", "brgt"} => Branch
      /\ cmd \in {"brr", "brr2"} => BranchRelative
      /\ cmd = "call" => Call \/ Failing(~verified(operand, 8) \/ ~verifyAddress(d))
      /\ cmd = "return" => Return \/ Failing(~verified(operand, 8))
  BY <1>2 DEF Computing, Runs, Compute, DivideByZero, Moving, ReadWord, WriteWord, BadAddress,
       Branching, Branch, BranchRelative, Call, BadCall, Return,
       Private, Halt, Input, BadInput, Output, BadPriv, Failing
<1>6. cmd = "priv" => \/ Halt \/ Input \/ Output
                      \/ Failing(imm = 3 /\ s = 0 /\ lineRead = {})
                      \/ Failing(imm # 0 /\ ~(imm = 3 /\ s = 0) /\ ~(imm = 4 /\ d \in {1, 3}))
  BY <1>2 DEF Computing, Runs, Compute, DivideByZero, Moving, ReadWord, WriteWord, BadAddress,
       Branching, Branch, BranchRelative, Call, BadCall, Return,
       Private, Halt, Input, BadInput, Output, BadPriv, Failing
<1> QED
  BY <1>3, <1>4, <1>5, <1>6

---------------------------------------------------------------------------
(* How src and the machine agree *)

\* src is the machine between two lines, or inside of a macro what it was before it.
midway(x, j, rr, m) ==
  LET c == script[x.at].cmd
      n == script[x.at].args[1].n
      a == ull(x.r[31] - 8)
  IN \/ /\ c = "push" /\ verified(a, 8) /\ bytesAt(a, 8) \cap Source!code = {}
        /\ rr = x.r /\ m = loadMem(x.mem, a, x.r[n])
     \/ /\ c = "pop" /\ verified(x.r[31], 8)
        /\ rr = [x.r EXCEPT ![n] = readMem(x.mem, x.r[31])] /\ m = x.mem
     \/ /\ c = "ld"
        /\ rr = [x.r EXCEPT ![n] = partsOf(meantBy(script[x.at].args))[j]] /\ m = x.mem

atLine(x, p, rr, m) == p = Source!startOf(x.at) /\ rr = x.r /\ m = x.mem
inMacro(x, p, rr, m) ==
  /\ x.at \in DOMAIN script
  /\ \E j \in 1..(cnt(script[x.at].cmd) - 1) :
       p = Source!startOf(x.at) + 4 * j /\ midway(x, j, rr, m)

SrcStates == [status : {"ready", "running", "halted", "error", "wild"}, at : Source!places,
              r : [0..31 -> Values], mem : [Addresses -> Byte], stdin : Seq(Line),
              stdout : Seq([k : {"number", "char"}, v : Values])]

tracks(x, st, p, rr, m, i, o) ==
  /\ x \in SrcStates
  /\ x.status = "running" =>
       /\ st = "running" /\ CodeStands(m) /\ i = x.stdin /\ o = x.stdout
       /\ atLine(x, p, rr, m) \/ inMacro(x, p, rr, m)

\* The machine stands before a line, or somewhere in it.
Running == /\ Assembled /\ SimInv /\ tracks(src, status, pc, r, mem, stdin, stdout)
           /\ src.status = "running"
OnLine  == Running /\ src.at \in DOMAIN script /\ atLine(src, pc, r, mem)

Tracked == tracks(src', status', pc', r', mem', stdin', stdout')

LEMMA PlaceIsInstr ==
  ASSUME script \in Scripts, NEW k \in Source!places, k \in DOMAIN script
  PROVE  Source!isInstr(k)
  BY ScriptType DEF Source!places

LEMMA NowTyped ==
  ASSUME SimInv', NEW k \in Source!places, NEW st \in {"ready", "running", "halted", "error", "wild"}
  PROVE  now(st, k) \in SrcStates
<1>1. r' \in [0..31 -> Values]
  BY DEF SimInv, TypeOK, NREGS
<1>2. /\ mem' \in [Addresses -> Byte] /\ stdin' \in Seq(Line)
      /\ stdout' \in Seq([k : {"number", "char"}, v : Values])
  BY DEF SimInv, TypeOK
<1> QED
  BY <1>1, <1>2 DEF now, SrcStates

LEMMA SrcFields ==
  ASSUME NEW x \in SrcStates, NEW st
  PROVE  [x EXCEPT !.status = st] = [status |-> st, at |-> x.at, r |-> x.r, mem |-> x.mem,
                                     stdin |-> x.stdin, stdout |-> x.stdout]
<1>1. PICK u, k, f, m, i, o :
        x = [status |-> u, at |-> k, r |-> f, mem |-> m, stdin |-> i, stdout |-> o]
  <2>1. x = [status |-> x.status, at |-> x.at, r |-> x.r, mem |-> x.mem,
             stdin |-> x.stdin, stdout |-> x.stdout]
    BY DEF SrcStates
  <2> QED
    BY ONLY <2>1
<1>2. [[status |-> u, at |-> k, r |-> f, mem |-> m, stdin |-> i, stdout |-> o] EXCEPT !.status = st]
        = [status |-> st, at |-> k, r |-> f, mem |-> m, stdin |-> i, stdout |-> o]
  OBVIOUS
<1>3. x.at = k /\ x.r = f /\ x.mem = m /\ x.stdin = i /\ x.stdout = o
  BY <1>1
<1> QED
  BY ONLY <1>1, <1>2, <1>3

LEMMA WildTyped ==
  \A x \in SrcStates : /\ [x EXCEPT !.status = "wild"] \in SrcStates
                       /\ [x EXCEPT !.status = "wild"].status = "wild"
                       /\ \A f \in [0..31 -> Values] : /\ [x EXCEPT !.r = f] \in SrcStates
                                                     /\ [x EXCEPT !.r = f].status = x.status
  BY DEF SrcStates

\* The round ends the run.
LEMMA Stops ==
  ASSUME Running, src.at \in DOMAIN script, SimInv', Observe, status' \in {"halted", "error"}
  PROVE  src' = now(status', src.at) /\ Tracked
<1>1. ~ranOut /\ ~rewritesCode /\ status' # "running"
  BY DEF ranOut, rewritesCode
<1>2. src.status = "running" /\ src.at \in Source!places
  BY DEF Running, tracks, SrcStates
<1>3. src' = now(status', src.at)
  BY <1>1, <1>2 DEF Observe
<1>4. src' \in SrcStates
  BY <1>2, <1>3, NowTyped
<1>5. src'.status # "running"
  BY <1>1, <1>3 DEF now
<1> QED
  BY <1>3, <1>4, <1>5 DEF Tracked, tracks

LEMMA FailsOnLine ==
  ASSUME OnLine, SimInv', Observe, simErr
  PROVE  src' = [src EXCEPT !.status = "error"] /\ Tracked
<1>1. Running /\ src.at \in DOMAIN script /\ status' = "error"
  BY DEF OnLine, simErr
<1>2. src' = now("error", src.at) /\ Tracked
  BY <1>1, Stops
<1>3. r' = src.r /\ mem' = src.mem /\ stdin' = src.stdin /\ stdout' = src.stdout
  BY DEF OnLine, Running, tracks, atLine, simErr, files, machine
<1>4. src \in SrcStates
  BY DEF OnLine, Running, tracks
<1>5. now("error", src.at) = [src EXCEPT !.status = "error"]
  BY ONLY <1>3, <1>4, SrcFields DEF now
<1> QED
  BY <1>2, <1>5

\* It writes into the code, or the script is over.
LEMMA GoesWild ==
  ASSUME Running, Observe, ranOut \/ rewritesCode
  PROVE  src' = [src EXCEPT !.status = "wild"] /\ Tracked
<1>1. src.status = "running" /\ src \in SrcStates
  BY DEF Running, tracks
<1>2. src' = [src EXCEPT !.status = "wild"]
  BY <1>1 DEF Observe
<1>3. src' \in SrcStates /\ src'.status = "wild"
  BY <1>1, <1>2, WildTyped
<1> QED
  BY <1>2, <1>3 DEF Tracked, tracks

\* It comes to a place, or to none.
LEMMA Comes ==
  ASSUME Running, src.at \in DOMAIN script, SimInv', Observe, ~rewritesCode, status' = "running",
         CodeStands(mem'), NEW k \in Source!places, Source!startOf(k) = pc'
  PROVE  src' = now("running", k) /\ Tracked
<1>1. ~ranOut /\ src.status = "running" /\ script \in Scripts
  BY DEF ranOut, Running, Assembled
<1>2. k \in placesAt(pc')
  BY DEF placesAt
<1>3. PICK n \in placesAt(pc') : src' = now("running", n)
  BY <1>1, <1>2 DEF Observe
<1>4. n = k
  <2>1. n \in Source!places /\ Source!startOf(n) = Source!startOf(k)
    BY DEF placesAt
  <2> QED
    BY <1>1, <2>1, OnePlace
<1>5. src' = now("running", k)
  BY <1>3, <1>4
<1>6. src' \in SrcStates
  BY <1>5, NowTyped
<1>7. atLine(src', pc', r', mem') /\ stdin' = src'.stdin /\ stdout' = src'.stdout
  BY <1>5 DEF atLine, now
<1> QED
  BY <1>5, <1>6, <1>7 DEF Tracked, tracks

LEMMA GetsLost ==
  ASSUME Running, src.at \in DOMAIN script, SimInv', Observe, ~rewritesCode, status' = "running",
         \A k \in Source!places : Source!startOf(k) # pc',
         ~(pc' \in inside(src.at) /\ pc' = pc + 4)
  PROVE  src' = [now("wild", src.at) EXCEPT !.r = src.r] /\ Tracked
<1>1. ~ranOut /\ src.status = "running" /\ src \in SrcStates /\ placesAt(pc') = {}
  BY DEF ranOut, Running, tracks, placesAt
<1>2. src' = [now("wild", src.at) EXCEPT !.r = src.r]
  BY <1>1 DEF Observe
<1>3. now("wild", src.at) \in SrcStates
  BY <1>1, NowTyped DEF SrcStates
<1>4. src.r \in [0..31 -> Values] /\ now("wild", src.at).status = "wild"
  BY <1>1 DEF SrcStates, now
<1>5. src' \in SrcStates /\ src'.status = "wild"
  BY ONLY <1>2, <1>3, <1>4, WildTyped
<1> QED
  BY <1>2, <1>5 DEF Tracked, tracks

\* Behind an instruction comes the next place, and inside of it there is none.
LEMMA Behind ==
  ASSUME script \in Scripts, NEW k \in Source!places, k \in DOMAIN script
  PROVE  LET n == Source!firstFrom(k + 1)
         IN /\ n \in Source!places /\ Source!startOf(k) \in Nat
            /\ Source!startOf(n) = Source!startOf(k) + 4 * cnt(script[k].cmd)
            /\ Source!startOf(n) <= Source!startOf(Len(script) + 1)
            /\ \A m \in Source!places : m <= k \/ Source!startOf(n) <= Source!startOf(m)
<1> DEFINE n == Source!firstFrom(k + 1)
<1>1. Len(script) \in Nat /\ DOMAIN script = 1..Len(script)
  BY ScriptType
<1>2. k \in 1..Len(script) /\ k + 1 \in 1..(Len(script) + 1) /\ k \in Nat \ {0} /\ k + 1 \in Nat \ {0}
  BY <1>1
<1>3. Source!isInstr(k)
  BY PlaceIsInstr
<1>4. n \in Source!places /\ Source!startOf(n) = Source!startOf(k + 1)
  BY <1>2, FirstFrom
<1>5. Source!startOf(k) \in Nat
  BY <1>2, Starts
<1>6. Source!startOf(k + 1) = Source!startOf(k) + 4 * cnt(script[k].cmd)
  BY <1>2, <1>3, StartsGrow
<1>7. Source!startOf(k + 1) <= Source!startOf(Len(script) + 1)
  <2>1. Len(script) + 1 \in Nat \ {0} /\ k + 1 <= Len(script) + 1
    BY <1>1, <1>2
  <2> QED
    BY <1>2, <2>1, StartsGrow
<1>8. \A m \in Source!places : m <= k \/ Source!startOf(k + 1) <= Source!startOf(m)
  <2> SUFFICES ASSUME NEW m \in Source!places, ~(m <= k)
               PROVE  Source!startOf(k + 1) <= Source!startOf(m)
    OBVIOUS
  <2>1. m \in 1..(Len(script) + 1)
    BY <1>1 DEF Source!places
  <2>2. m \in Nat \ {0} /\ k + 1 <= m
    BY <1>1, <1>2, <2>1
  <2> QED
    BY <1>2, <2>2, StartsGrow
<1> HIDE DEF n
<1>9. /\ n \in Source!places /\ Source!startOf(k) \in Nat
      /\ Source!startOf(n) = Source!startOf(k) + 4 * cnt(script[k].cmd)
      /\ Source!startOf(n) <= Source!startOf(Len(script) + 1)
      /\ \A m \in Source!places : m <= k \/ Source!startOf(n) <= Source!startOf(m)
  BY ONLY <1>4, <1>5, <1>6, <1>7, <1>8
<1> QED
  BY ONLY <1>9 DEF n

LEMMA InBetween ==
  ASSUME Assembled, NEW k \in Source!places, k \in DOMAIN script,
         NEW j \in 1..(cnt(script[k].cmd) - 1)
  PROVE  LET x == Source!startOf(k) + 4 * j
         IN x \in inside(k) /\ \A m \in Source!places : Source!startOf(m) # x
<1> DEFINE n == Source!firstFrom(k + 1)
           w == cnt(script[k].cmd)
           S(m) == Source!startOf(m)
           x == S(k) + 4 * j
<1>1. script \in Scripts /\ w \in Nat
  BY DEF Assembled, cnt
<1>2. /\ S(k) \in Nat /\ S(n) = S(k) + 4 * w
      /\ \A m \in Source!places : m <= k \/ S(n) <= S(m)
  BY <1>1, Behind
<1>3. Source!isInstr(k)
  BY <1>1, PlaceIsInstr
<1>4. Len(script) \in Nat /\ DOMAIN script = 1..Len(script) /\ k \in Nat \ {0}
  BY <1>1, ScriptType
<1>5. \A m \in Source!places : m <= k => S(m) \in Nat /\ S(m) <= S(k)
  <2> SUFFICES ASSUME NEW m \in Source!places, m <= k PROVE S(m) \in Nat /\ S(m) <= S(k)
    OBVIOUS
  <2>1. m \in Nat \ {0}
    BY <1>4 DEF Source!places
  <2> QED
    BY <1>4, <2>1, Starts, StartsGrow
<1>6. j \in Nat /\ 0 < j /\ j < w
  BY <1>1
<1>7. j + 1 \in 1..w /\ (j + 1) - 1 = j
  BY <1>1
<1>8. S(k) + 4 * ((j + 1) - 1) \in Source!code
  <2>1. LET y == S(k) + 4 * ((j + 1) - 1) IN y \in Nat /\ y..(y + 3) \subseteq Source!code
    BY <1>3, <1>7, InsideCode
  <2> DEFINE y == S(k) + 4 * ((j + 1) - 1)
  <2>2. y \in Nat /\ y..(y + 3) \subseteq Source!code
    BY <2>1
  <2> HIDE DEF y
  <2>3. y \in Source!code
    BY <2>2
  <2> QED
    BY <2>3 DEF y
<1>9. x \in Source!code
  BY <1>7, <1>8
<1> HIDE DEF S, w, n
<1>10. S(k) < x /\ x < S(n)
  BY ONLY <1>1, <1>2, <1>6
<1>11. x \in inside(k)
  BY <1>9, <1>10 DEF inside, S, n, x
<1>12. \A m \in Source!places : S(m) # x
  <2> SUFFICES ASSUME NEW m \in Source!places, S(m) = x PROVE FALSE
    OBVIOUS
  <2>1. x \in Nat
    BY ONLY <1>2, <1>6
  <2>2. m <= k \/ S(n) <= S(m)
    BY <1>2
  <2>3. m <= k => S(m) <= S(k)
    BY <1>5
  <2>4. S(n) \in Nat
    BY ONLY <1>1, <1>2
  <2> HIDE DEF x
  <2> QED
    BY ONLY <1>2, <1>10, <2>1, <2>2, <2>3, <2>4, S(m) = x
<1> QED
  BY <1>11, <1>12 DEF S, x

LEMMA GoesOn ==
  ASSUME Running, src.at \in DOMAIN script, SimInv', Observe, ~rewritesCode, status' = "running",
         CodeStands(mem'), pc' = Source!startOf(src.at) + 4 * cnt(script[src.at].cmd)
  PROVE  src' = now("running", Source!firstFrom(src.at + 1)) /\ Tracked
<1>1. script \in Scripts /\ src.at \in Source!places
  BY DEF Running, Assembled, tracks, SrcStates
<1> DEFINE n == Source!firstFrom(src.at + 1)
<1>2. n \in Source!places /\ Source!startOf(n) = pc'
  BY <1>1, Behind
<1> HIDE DEF n
<1>3. src' = now("running", n) /\ Tracked
  BY <1>2, Comes
<1> QED
  BY <1>3 DEF n

LEMMA StaysInside ==
  ASSUME Running, src.at \in DOMAIN script, Observe, ~rewritesCode, status' = "running",
         CodeStands(mem'), UNCHANGED <<stdin, stdout>>, NEW j \in 1..(cnt(script[src.at].cmd) - 1),
         pc' = Source!startOf(src.at) + 4 * j, pc' = pc + 4, midway(src, j, r', mem')
  PROVE  src' = src /\ Tracked
<1>1. /\ Assembled /\ script \in Scripts /\ src.at \in Source!places /\ src.status = "running"
      /\ src \in SrcStates /\ stdin = src.stdin /\ stdout = src.stdout /\ ~ranOut
  BY DEF Running, Assembled, tracks, SrcStates, ranOut
<1>2. pc' \in inside(src.at) /\ \A m \in Source!places : Source!startOf(m) # pc'
  BY <1>1, InBetween
<1>3. placesAt(pc') = {}
  BY <1>2 DEF placesAt
<1>4. src' = src
  BY <1>1, <1>2, <1>3 DEF Observe
<1>5. inMacro(src, pc', r', mem')
  BY DEF inMacro
<1>6. inMacro(src', pc', r', mem')
  BY ONLY <1>4, <1>5
<1>7. stdin' = src'.stdin /\ stdout' = src'.stdout /\ src' \in SrcStates
  BY <1>1, <1>4
<1> QED
  BY <1>4, <1>6, <1>7 DEF Tracked, tracks

LEMMA Jumps ==
  ASSUME OnLine, cnt(script[src.at].cmd) = 1, SimInv', Observe, ~rewritesCode,
         status' = "running", CodeStands(mem')
  PROVE  /\ Tracked
         /\ \/ \E k \in Source!places : Source!startOf(k) = pc' /\ src' = now("running", k)
            \/ /\ \A k \in Source!places : Source!startOf(k) # pc'
               /\ src' = [now("wild", src.at) EXCEPT !.r = src.r]
<1>1. /\ Running /\ src.at \in DOMAIN script /\ script \in Scripts /\ src.at \in Source!places
      /\ pc = Source!startOf(src.at)
  BY DEF OnLine, Running, Assembled, tracks, SrcStates, atLine
<1>2. CASE \E k \in Source!places : Source!startOf(k) = pc'
  <2>1. PICK k \in Source!places : Source!startOf(k) = pc'
    BY <1>2
  <2>2. src' = now("running", k) /\ Tracked
    BY <1>1, <2>1, Comes
  <2> QED
    BY <2>1, <2>2
<1>3. CASE \A k \in Source!places : Source!startOf(k) # pc'
  <2>1. ~(pc' \in inside(src.at) /\ pc' = pc + 4)
    <3> SUFFICES ASSUME pc' \in inside(src.at), pc' = pc + 4 PROVE FALSE
      OBVIOUS
    <3>1. Source!startOf(Source!firstFrom(src.at + 1)) = pc + 4 * 1
      BY <1>1, Behind
    <3>2. Source!startOf(src.at) \in Nat
      BY <1>1, Behind
    <3>3. pc' < Source!startOf(Source!firstFrom(src.at + 1))
      BY DEF inside
    <3> QED
      BY ONLY <1>1, <3>1, <3>2, <3>3, pc' = pc + 4
  <2>2. src' = [now("wild", src.at) EXCEPT !.r = src.r] /\ Tracked
    BY <1>1, <1>3, <2>1, GetsLost
  <2> QED
    BY <1>3, <2>2
<1> QED
  BY <1>2, <1>3

\* A store beside the code leaves the words of the code as they are.
LEMMA StoreKeepsCode ==
  ASSUME Assembled, NEW m \in [Addresses -> Byte], CodeStands(m), NEW x, NEW v,
         bytesAt(x, 8) \cap Source!code = {}
  PROVE  CodeStands(loadMem(m, x, v))
<1> DEFINE z == loadMem(m, x, v)
           words == Target!codeUpTo(Len(script))
<1>1. \A y \in Addresses : y \notin bytesAt(x, 8) => z[y] = m[y]
  BY DEF loadMem
<1>2. /\ words \in Nat /\ built.code \in Seq(Word) /\ Len(built.code) = words
      /\ Source!code = CODE_BASE..(CODE_BASE + 4 * words - 1)
  BY BuiltSections
<1>3. CODE_BASE + 4 * words <= MEM_SIZE
  <2>1. Target!dataUpTo(Len(script)) \in Nat /\ CODE_BASE + 4 * words <= DATA_BASE
        /\ DATA_BASE + 8 * Target!dataUpTo(Len(script)) <= MEM_SIZE
    BY BuiltSections
  <2> HIDE DEF words
  <2> QED
    BY <1>2, <2>1, Bases, Sizes
<1> HIDE DEF z, words
<1>4. \A y \in Source!code : z[y] = m[y]
  <2> SUFFICES ASSUME NEW y \in Source!code PROVE z[y] = m[y]
    OBVIOUS
  <2>1. y \in CODE_BASE..(CODE_BASE + 4 * words - 1)
    BY <1>2
  <2>2. y \in Addresses
    BY ONLY <1>2, <1>3, <2>1, Bases, Sizes DEF Addresses
  <2>3. y \notin bytesAt(x, 8)
    OBVIOUS
  <2> QED
    BY <1>1, <2>2, <2>3
<1>5. ASSUME NEW n \in DOMAIN built.code
      PROVE  wordAt(z, CODE_BASE + 4 * (n - 1)) = wordAt(m, CODE_BASE + 4 * (n - 1))
  <2> DEFINE y == CODE_BASE + 4 * (n - 1)
  <2>1. n \in 1..words
    BY <1>2
  <2>2. y \in Nat /\ CODE_BASE <= y /\ y + 4 <= CODE_BASE + 4 * words
    BY ONLY <1>2, <2>1, Bases
  <2> HIDE DEF y
  <2>3. \A i \in {y, y + 1, y + 2, y + 3} : i \in CODE_BASE..(CODE_BASE + 4 * words - 1)
    BY ONLY <1>2, <2>2, Bases
  <2>4. z[y] = m[y] /\ z[y + 1] = m[y + 1] /\ z[y + 2] = m[y + 2] /\ z[y + 3] = m[y + 3]
    BY <1>2, <1>4, <2>3
  <2> QED
    BY <2>4 DEF wordAt, y
<1>6. CodeStands(z)
  BY <1>5 DEF CodeStands
<1> QED
  BY <1>6 DEF z

---------------------------------------------------------------------------
(* Steps of the source *)

LEMMA SourceFail ==
  ASSUME src \in SrcStates, UNCHANGED script, src' = [src EXCEPT !.status = "error"]
  PROVE  Source!Fail
<1>1. src' = [status |-> "error", at |-> src.at, r |-> src.r, mem |-> src.mem,
              stdin |-> src.stdin, stdout |-> src.stdout]
  BY SrcFields
<1> QED
  BY ONLY <1>1, script' = script DEF Source!Fail, Source!world

LEMMA SourceWild ==
  ASSUME src \in SrcStates, UNCHANGED script, src' = [src EXCEPT !.status = "wild"]
  PROVE  Source!Wild
<1>1. src' = [status |-> "wild", at |-> src.at, r |-> src.r, mem |-> src.mem,
              stdin |-> src.stdin, stdout |-> src.stdout]
  BY SrcFields
<1> QED
  BY ONLY <1>1, script' = script DEF Source!Wild, Source!world

LEMMA NowFields ==
  ASSUME NEW st, NEW k, src' = now(st, k)
  PROVE  /\ src'.status = st /\ src'.at = k /\ src'.r = r' /\ src'.mem = mem'
         /\ src'.stdin = stdin' /\ src'.stdout = stdout'
  BY DEF now

\* A line is executed from its first word on.
LEMMA AtItsWord ==
  ASSUME OnLine
  PROVE  /\ Assembled /\ script \in Scripts /\ src \in SrcStates /\ SimInv /\ TypeOK
         /\ src.at \in DOMAIN script /\ src.at \in Source!places /\ Source!isInstr(src.at)
         /\ status = "running" /\ fetched /\ ins = wordOf(src.at, 1) /\ CodeStands(mem)
         /\ src.status = "running" /\ pc = Source!startOf(src.at) /\ r = src.r /\ mem = src.mem
         /\ stdin = src.stdin /\ stdout = src.stdout /\ src.r \in [0..31 -> Values]
         /\ src.mem \in [Addresses -> Byte]
<1>1. Running /\ src.at \in DOMAIN script /\ atLine(src, pc, r, mem)
  BY DEF OnLine
<1>2. /\ Assembled /\ SimInv /\ src \in SrcStates /\ src.status = "running" /\ status = "running"
      /\ CodeStands(mem) /\ stdin = src.stdin /\ stdout = src.stdout
  BY <1>1 DEF Running, tracks
<1>3. script \in Scripts /\ TypeOK
  BY <1>2 DEF Assembled, SimInv
<1>4. src.at \in Source!places /\ src.r \in [0..31 -> Values] /\ src.mem \in [Addresses -> Byte]
  BY <1>2 DEF SrcStates
<1>5. Source!isInstr(src.at)
  BY <1>1, <1>3, <1>4, PlaceIsInstr
<1>6. pc = Source!startOf(src.at) /\ r = src.r /\ mem = src.mem
  BY <1>1 DEF atLine
<1>7. 1 \in 1..cnt(script[src.at].cmd)
  BY DEF cnt
<1>8. pc = Source!startOf(src.at) + 4 * (1 - 1)
  <2>1. Source!startOf(src.at) \in Nat
    BY <1>1, <1>3, <1>4, Behind
  <2> QED
    BY ONLY <1>6, <2>1
<1>9. fetched /\ ins = wordOf(src.at, 1)
  BY <1>1, <1>2, <1>3, <1>5, <1>7, <1>8, Fetch
<1> QED
  BY <1>1, <1>2, <1>3, <1>4, <1>5, <1>6, <1>9

---------------------------------------------------------------------------
(* Lines that compute *)

\* What a line leaves in its first register, by its command.
LEMMA SourceValue ==
  /\ Source!c = "and" => Source!value = Source!bitAnd(Source!R(2), Source!R(3))
  /\ Source!c = "or"  => Source!value = Source!bitOr(Source!R(2), Source!R(3))
  /\ Source!c = "xor" => Source!value = Source!bitXor(Source!R(2), Source!R(3))
  /\ Source!c = "not" => Source!value = WORD - 1 - Source!R(2)
  /\ Source!c = "shftr"  => Source!value = Source!shiftr(Source!R(2), Source!R(3))
  /\ Source!c = "shftl"  => Source!value = Source!shiftl(Source!R(2), Source!R(3))
  /\ Source!c = "shftri" => Source!value = Source!shiftr(Source!R(1), Source!L(2))
  /\ Source!c = "shftli" => Source!value = Source!shiftl(Source!R(1), Source!L(2))
  /\ Source!c = "add"  => Source!value = Source!ull(Source!R(2) + Source!R(3))
  /\ Source!c = "sub"  => Source!value = Source!ull(Source!R(2) - Source!R(3))
  /\ Source!c = "mul"  => Source!value = Source!ull(Source!R(2) * Source!R(3))
  /\ Source!c = "div"  => Source!value = Source!R(2) \div Source!R(3)
  /\ Source!c = "addi" => Source!value = Source!ull(Source!R(1) + Source!L(2))
  /\ Source!c = "subi" => Source!value = Source!ull(Source!R(1) - Source!L(2))
  /\ Source!c = "clr"  => Source!value = 0
  /\ Source!c = "ld"   => Source!value = IF Source!a(2).k = "lab" THEN Source!addressOf(Source!a(2).l)
                                         ELSE Source!ull(Source!L(2))
  /\ Source!c = "mov"  => Source!value = IF Source!a(2).k = "reg" THEN Source!R(2)
                                         ELSE Source!R(1) - (Source!R(1) % IMM) + Source!L(2)
  BY DEF Source!value

\* What an instruction leaves in its register.
LEMMA ResultIs ==
  /\ cmd = "and" => result = bitAnd(s, t)
  /\ cmd = "or"  => result = bitOr(s, t)
  /\ cmd = "xor" => result = bitXor(s, t)
  /\ cmd = "not" => result = WORD - 1 - s
  /\ cmd = "shftr"  => result = shiftr(s, t)
  /\ cmd = "shftl"  => result = shiftl(s, t)
  /\ cmd = "shftri" => result = shiftr(d, imm)
  /\ cmd = "shftli" => result = shiftl(d, imm)
  /\ cmd = "add"  => result = ull(s + t)
  /\ cmd = "sub"  => result = ull(s - t)
  /\ cmd = "mul"  => result = ull(s * t)
  /\ cmd = "div"  => result = s \div t
  /\ cmd = "addi" => result = ull(d + imm)
  /\ cmd = "subi" => result = ull(d - imm)
  /\ cmd = "mov1" => result = s
  /\ cmd = "mov2" => result = d - (d % IMM) + imm
  BY DEF result

LEMMA SourceOperands ==
  /\ Source!c = script[src.at].cmd
  /\ \A n : /\ Source!a(n) = script[src.at].args[n]
            /\ Source!R(n) = src.r[script[src.at].args[n].n]
            /\ Source!L(n) = script[src.at].args[n].v
  BY DEF Source!c, Source!a, Source!R, Source!L

\* An instruction that computes moves on and leaves its result.
LEMMA Computed ==
  ASSUME TypeOK, fetched, Compute, cmd \notin {"addf", "subf", "mulf", "divf"}
  PROVE  /\ r' = [r EXCEPT ![ins.rd] = result] /\ result \in Values /\ pc' = pc + 4
         /\ status' = "running" /\ mem' = mem /\ stdin' = stdin /\ stdout' = stdout
         /\ ~rewritesCode
<1>1. PICK v \in results : Set(v)
  BY DEF Compute
<1>2. v = result /\ result \in Values
  BY <1>1 DEF results
<1>3. r' = [r EXCEPT ![ins.rd] = result]
  BY <1>1, <1>2 DEF Set
<1>4. /\ pc' = pc + 4 /\ status' = "running" /\ mem' = mem /\ stdin' = stdin /\ stdout' = stdout
  BY DEF Compute, Advance, files, Runs
<1>5. ~rewritesCode
  BY DEF Compute, Runs, Computing, rewritesCode
<1> QED
  BY <1>2, <1>3, <1>4, <1>5

Assigning == {"and", "or", "xor", "not", "shftr", "shftl", "shftri", "shftli", "add", "sub",
              "mul", "div", "addi", "subi", "clr", "ld"}

LEMMA SourceAssign ==
  ASSUME src.status = "running", src.at \in DOMAIN script, UNCHANGED script,
         Source!toRegister(Assigning), ~(Source!c = "div" /\ Source!R(3) = 0),
         src' = now("running", Source!firstFrom(src.at + 1)),
         r' = [src.r EXCEPT ![Source!a(1).n] = Source!value],
         mem' = src.mem, stdin' = src.stdin, stdout' = src.stdout
  PROVE  Source!Assign
<1>1. /\ src'.status = src.status /\ src'.at = Source!firstFrom(src.at + 1)
      /\ src'.r = [src.r EXCEPT ![Source!a(1).n] = Source!value]
      /\ src'.mem = src.mem /\ src'.stdin = src.stdin /\ src'.stdout = src.stdout
  BY NowFields
<1>2. Source!GoOn /\ UNCHANGED <<script, src.status, Source!world>>
  BY <1>1 DEF Source!GoOn, Source!world
<1> QED
  BY <1>1, <1>2, Zenon DEF Source!Assign, Assigning

\* A line of one word that computes.
LEMMA Assigns ==
  ASSUME OnLine, SimInv', Observe, UNCHANGED script, Compute,
         cmd \notin {"addf", "subf", "mulf", "divf"}, cnt(script[src.at].cmd) = 1,
         Source!toRegister(Assigning), ~(Source!c = "div" /\ Source!R(3) = 0),
         ins.rd = Source!a(1).n, Source!value = result
  PROVE  Source!Assign /\ Tracked
<1>1. /\ Running /\ TypeOK /\ fetched /\ src.status = "running" /\ src.at \in DOMAIN script
      /\ CodeStands(mem) /\ pc = Source!startOf(src.at) /\ r = src.r /\ mem = src.mem
      /\ stdin = src.stdin /\ stdout = src.stdout
  BY AtItsWord DEF OnLine
<1>2. /\ r' = [r EXCEPT ![ins.rd] = result] /\ pc' = pc + 4
      /\ status' = "running" /\ mem' = mem /\ stdin' = stdin /\ stdout' = stdout
      /\ ~rewritesCode
  BY <1>1, Computed
<1>3. CodeStands(mem') /\ pc' = Source!startOf(src.at) + 4 * cnt(script[src.at].cmd)
  BY <1>1, <1>2
<1>4. src' = now("running", Source!firstFrom(src.at + 1)) /\ Tracked
  BY <1>1, <1>2, <1>3, GoesOn
<1>5. r' = [src.r EXCEPT ![Source!a(1).n] = Source!value]
  BY <1>1, <1>2
<1>6. mem' = src.mem /\ stdin' = src.stdin /\ stdout' = src.stdout
  BY <1>1, <1>2
<1>7. Source!Assign
  BY <1>1, <1>4, <1>5, <1>6, SourceAssign
<1> QED
  BY <1>4, <1>7

ComputingLines == {"and", "or", "xor", "not", "shftr", "shftri", "shftl", "shftli",
                   "add", "addi", "sub", "subi", "mul", "div"}

\* The instruction of such a line has the operands of the line.
LEMMA LineOperands ==
  ASSUME OnLine, Source!c \in PlainCommands
  PROVE  /\ cmd = Source!c /\ cnt(script[src.at].cmd) = 1
         /\ cmd \in Registers3 => ins.rd = Source!a(1).n /\ d = Source!R(1)
                                  /\ s = Source!R(2) /\ t = Source!R(3)
         /\ cmd \in Registers2 => ins.rd = Source!a(1).n /\ d = Source!R(1) /\ s = Source!R(2)
         /\ cmd \in Registers1 => ins.rd = Source!a(1).n /\ d = Source!R(1)
         /\ cmd \in Immediates => ins.rd = Source!a(1).n /\ d = Source!R(1) /\ imm = Source!L(2)
<1>1. /\ Assembled /\ src.at \in DOMAIN script /\ Source!isInstr(src.at)
      /\ ins = wordOf(src.at, 1) /\ r = src.r
  BY AtItsWord
<1>2. Source!c = script[src.at].cmd
  BY SourceOperands
<1> DEFINE c    == script[src.at].cmd
           args == script[src.at].args
<1>3. /\ ins.op = asmOpcode[c] /\ cnt(c) = 1
      /\ c \in Registers3 => ins.rd = args[1].n /\ ins.rs = args[2].n /\ ins.rt = args[3].n
      /\ c \in Registers2 => ins.rd = args[1].n /\ ins.rs = args[2].n
      /\ c \in Registers1 => ins.rd = args[1].n
      /\ c \in Immediates => ins.rd = args[1].n /\ ins.imm = args[2].v
  BY <1>1, <1>2, PlainLine
<1>4. cmd = c
  BY <1>2, <1>3, Decoded DEF cmd
<1>5. \A n : /\ Source!a(n) = args[n] /\ Source!L(n) = args[n].v
             /\ Source!R(n) = r[args[n].n]
  BY <1>1, SourceOperands
<1> HIDE DEF c, args
<1>6. /\ cmd \in Registers3 => ins.rd = Source!a(1).n /\ d = Source!R(1)
                               /\ s = Source!R(2) /\ t = Source!R(3)
      /\ cmd \in Registers2 => ins.rd = Source!a(1).n /\ d = Source!R(1) /\ s = Source!R(2)
      /\ cmd \in Registers1 => ins.rd = Source!a(1).n /\ d = Source!R(1)
      /\ cmd \in Immediates => ins.rd = Source!a(1).n /\ d = Source!R(1) /\ imm = Source!L(2)
  BY <1>3, <1>4, <1>5 DEF d, s, t, imm
<1> QED
  BY <1>2, <1>3, <1>4, <1>6 DEF c

LEMMA SameResult ==
  ASSUME OnLine, Source!c \in ComputingLines
  PROVE  Source!value = result
<1>1. Source!c \in PlainCommands
  BY DEF ComputingLines, PlainCommands, Registers3, Registers2, Immediates
<1>2. /\ cmd = Source!c
      /\ cmd \in Registers3 => s = Source!R(2) /\ t = Source!R(3)
      /\ cmd \in Registers2 => s = Source!R(2)
      /\ cmd \in Immediates => d = Source!R(1) /\ imm = Source!L(2)
  BY <1>1, LineOperands
<1>3. CASE cmd \in {"and", "or", "xor", "shftr", "shftl"}
  <2>1. s = Source!R(2) /\ t = Source!R(3)
    BY <1>2, <1>3 DEF Registers3
  <2> QED
    BY <1>2, <1>3, <2>1, SourceValue, ResultIs, SameWords
<1>4. CASE cmd \in {"add", "sub", "mul", "div"}
  <2>1. s = Source!R(2) /\ t = Source!R(3)
    BY <1>2, <1>4 DEF Registers3
  <2> QED
    BY <1>2, <1>4, <2>1, SourceValue, ResultIs, SameMachine
<1>5. CASE cmd = "not"
  <2>1. s = Source!R(2)
    BY <1>2, <1>5 DEF Registers2
  <2> QED
    BY <1>2, <1>5, <2>1, SourceValue, ResultIs
<1>6. CASE cmd \in {"shftri", "shftli"}
  <2>1. d = Source!R(1) /\ imm = Source!L(2)
    BY <1>2, <1>6 DEF Immediates
  <2> QED
    BY <1>2, <1>6, <2>1, SourceValue, ResultIs, SameWords
<1>7. CASE cmd \in {"addi", "subi"}
  <2>1. d = Source!R(1) /\ imm = Source!L(2)
    BY <1>2, <1>7 DEF Immediates
  <2> QED
    BY <1>2, <1>7, <2>1, SourceValue, ResultIs, SameMachine
<1> QED
  BY <1>2, <1>3, <1>4, <1>5, <1>6, <1>7 DEF ComputingLines

LEMMA ComputingStep ==
  ASSUME OnLine, SimInv', Observe, UNCHANGED script, Next, Source!c \in ComputingLines
  PROVE  Source!Next /\ Tracked
<1>1. Source!c \in PlainCommands
  BY DEF ComputingLines, PlainCommands, Registers3, Registers2, Immediates
<1>2. /\ cmd = Source!c /\ cnt(script[src.at].cmd) = 1 /\ ins.rd = Source!a(1).n
      /\ cmd = "div" => t = Source!R(3)
  <2>1. /\ cmd = Source!c /\ cnt(script[src.at].cmd) = 1
        /\ cmd \in Registers3 => ins.rd = Source!a(1).n /\ t = Source!R(3)
        /\ cmd \in Registers2 => ins.rd = Source!a(1).n
        /\ cmd \in Immediates => ins.rd = Source!a(1).n
    BY <1>1, LineOperands
  <2> QED
    BY <2>1 DEF ComputingLines, Registers3, Registers2, Immediates
<1>3. /\ src.status = "running" /\ src.at \in DOMAIN script /\ src \in SrcStates
      /\ status = "running" /\ fetched
  BY AtItsWord
<1>4. cmd \in Computing /\ cmd \notin {"addf", "subf", "mulf", "divf"}
  BY <1>2 DEF ComputingLines, Computing
<1>5. (Compute /\ ~byZero) \/ Failing(byZero)
  BY <1>3, <1>4, Round
<1>6. byZero <=> (Source!c = "div" /\ Source!R(3) = 0)
  BY <1>2, <1>4 DEF byZero
<1>7. Source!Is(Assigning) /\ (Source!c = "div" => Source!Is({"div"}))
  BY <1>3 DEF Source!Is, Source!c, ComputingLines, Assigning
<1>8. CASE Compute /\ ~byZero
  <2>1. Source!toRegister(Assigning)
    BY <1>7 DEF Source!toRegister
  <2>2. Source!value = result
    BY SameResult
  <2>3. Source!Assign /\ Tracked
    BY <1>2, <1>4, <1>6, <1>8, <2>1, <2>2, Assigns
  <2> QED
    BY <2>3 DEF Source!Next
<1>9. CASE Failing(byZero)
  <2>1. simErr /\ byZero
    BY <1>9 DEF Failing
  <2>2. src' = [src EXCEPT !.status = "error"] /\ Tracked
    BY <2>1, FailsOnLine
  <2>3. Source!Fail
    BY <1>3, <2>2, SourceFail
  <2>4. Source!DivideByZero
    BY <1>6, <1>7, <2>1, <2>3 DEF Source!DivideByZero
  <2> QED
    BY <2>2, <2>4 DEF Source!Next
<1> QED
  BY <1>5, <1>8, <1>9

LEMMA ClrStep ==
  ASSUME OnLine, SimInv', Observe, UNCHANGED script, Next, Source!c = "clr"
  PROVE  Source!Next /\ Tracked
<1>1. /\ Assembled /\ src.at \in DOMAIN script /\ Source!isInstr(src.at)
      /\ ins = wordOf(src.at, 1) /\ src.status = "running" /\ status = "running" /\ fetched
  BY AtItsWord
<1>2. script[src.at].cmd = "clr" /\ Source!a(1) = script[src.at].args[1]
  BY SourceOperands
<1>3. ins.op = 2 /\ ins.rd = Source!a(1).n /\ ins.rs = ins.rd /\ ins.rt = ins.rd
  BY <1>1, <1>2, ClrLine
<1>4. cmd = "xor" /\ s = t
  BY <1>3, Decoded DEF cmd, s, t
<1>5. cmd \in Computing /\ cmd \notin {"addf", "subf", "mulf", "divf"} /\ ~byZero
  BY <1>4 DEF Computing, byZero
<1>6. Compute
  BY <1>1, <1>5, Round DEF Failing
<1>7. Source!value = result
  <2>1. result = bitXor(s, s)
    BY <1>4, ResultIs
  <2> QED
    BY <2>1, XorSelf, SourceValue
<1>8. Source!toRegister(Assigning) /\ ~(Source!c = "div" /\ Source!R(3) = 0)
  BY <1>1, <1>2 DEF Source!toRegister, Source!Is, Assigning
<1>9. cnt(script[src.at].cmd) = 1
  BY <1>2 DEF cnt
<1>10. Source!Assign /\ Tracked
  BY <1>3, <1>5, <1>6, <1>7, <1>8, <1>9, Assigns
<1> QED
  BY <1>10 DEF Source!Next

\* A load of eight bytes, by mov and by the first word of pop.
LEMMA Reading ==
  ASSUME TypeOK, fetched, ReadWord
  PROVE  /\ verified(operand, 8) /\ r' = [r EXCEPT ![ins.rd] = readMem(mem, operand)]
         /\ pc' = pc + 4 /\ status' = "running" /\ mem' = mem /\ stdin' = stdin /\ stdout' = stdout
         /\ ~rewritesCode
  BY DEF ReadWord, Runs, Set, Advance, files, rewritesCode

\* A store of eight bytes, by mov and by the first word of push.
LEMMA Writing ==
  ASSUME TypeOK, fetched, WriteWord
  PROVE  /\ verified(operand, 8) /\ mem' = loadMem(mem, operand, s)
         /\ pc' = pc + 4 /\ status' = "running" /\ r' = r /\ stdin' = stdin /\ stdout' = stdout
         /\ rewritesCode <=> bytesAt(operand, 8) \cap Source!code # {}
  BY DEF WriteWord, Runs, Advance, files, rewritesCode

LEMMA MovOperands ==
  ASSUME OnLine, Source!c = "mov"
  PROVE  /\ cnt(script[src.at].cmd) = 1
         /\ \/ /\ Source!a(1).k = "reg" /\ Source!a(2).k = "mem" /\ cmd = "mov"
               /\ ins.rd = Source!a(1).n /\ operand = ull(Source!R(2) + Source!L(2))
            \/ /\ Source!a(1).k = "reg" /\ Source!a(2).k = "reg" /\ cmd = "mov1"
               /\ ins.rd = Source!a(1).n /\ s = Source!R(2)
            \/ /\ Source!a(1).k = "reg" /\ Source!a(2).k = "lit" /\ cmd = "mov2"
               /\ ins.rd = Source!a(1).n /\ d = Source!R(1) /\ imm = Source!L(2)
            \/ /\ Source!a(1).k = "mem" /\ Source!a(2).k = "reg" /\ cmd = "mov3"
               /\ operand = ull(Source!R(1) + Source!L(1)) /\ s = Source!R(2)
<1>1. /\ Assembled /\ src.at \in DOMAIN script /\ Source!isInstr(src.at)
      /\ ins = wordOf(src.at, 1) /\ r = src.r
  BY AtItsWord
<1>2. /\ script[src.at].cmd = "mov"
      /\ \A n : /\ Source!a(n) = script[src.at].args[n]
                /\ Source!L(n) = Source!a(n).v /\ Source!R(n) = r[Source!a(n).n]
  BY <1>1, SourceOperands
<1> DEFINE p == Source!a(1)
           q == Source!a(2)
<1>3. \/ /\ p.k = "reg" /\ q.k = "mem"
         /\ ins.op = 16 /\ ins.rd = p.n /\ ins.rs = q.n /\ sign(ins.imm) = q.v
      \/ /\ p.k = "reg" /\ q.k = "reg"
         /\ ins.op = 17 /\ ins.rd = p.n /\ ins.rs = q.n
      \/ /\ p.k = "reg" /\ q.k = "lit"
         /\ ins.op = 18 /\ ins.rd = p.n /\ ins.imm = q.v
      \/ /\ p.k = "mem" /\ q.k = "reg"
         /\ ins.op = 19 /\ ins.rd = p.n /\ ins.rs = q.n /\ sign(ins.imm) = p.v
  BY <1>1, <1>2, MovLine
<1>4. /\ Source!R(1) = r[p.n] /\ Source!R(2) = r[q.n] /\ Source!L(1) = p.v /\ Source!L(2) = q.v
  BY <1>2
<1>5. cnt(script[src.at].cmd) = 1
  BY <1>2 DEF cnt
<1>6. /\ cmd = "mov" => operand = ull(r[ins.rs] + sign(ins.imm))
      /\ cmd = "mov3" => operand = ull(r[ins.rd] + sign(ins.imm))
  BY DEF operand, d, s, imm
<1>7. /\ ins.op = 16 => cmd = "mov"
      /\ ins.op = 17 => cmd = "mov1"
      /\ ins.op = 18 => cmd = "mov2"
      /\ ins.op = 19 => cmd = "mov3"
  BY Decoded DEF cmd
<1> HIDE DEF p, q
<1>8. \/ /\ p.k = "reg" /\ q.k = "mem" /\ cmd = "mov"
         /\ ins.rd = p.n /\ operand = ull(Source!R(2) + Source!L(2))
      \/ /\ p.k = "reg" /\ q.k = "reg" /\ cmd = "mov1"
         /\ ins.rd = p.n /\ s = Source!R(2)
      \/ /\ p.k = "reg" /\ q.k = "lit" /\ cmd = "mov2"
         /\ ins.rd = p.n /\ d = Source!R(1) /\ imm = Source!L(2)
      \/ /\ p.k = "mem" /\ q.k = "reg" /\ cmd = "mov3"
         /\ operand = ull(Source!R(1) + Source!L(1)) /\ s = Source!R(2)
  BY ONLY <1>3, <1>4, <1>6, <1>7 DEF d, s, imm
<1> QED
  BY <1>5, <1>8 DEF p, q

LEMMA StoreLine ==
  ASSUME OnLine, SimInv', Observe, UNCHANGED script, WriteWord, cnt(script[src.at].cmd) = 1,
         NEW x, operand = x, NEW v, s = v
  PROVE  Source!Store(x, v, src.r) /\ Tracked
<1>1. /\ Assembled /\ TypeOK /\ fetched /\ src.status = "running" /\ src.at \in DOMAIN script
      /\ CodeStands(mem) /\ pc = Source!startOf(src.at) /\ r = src.r /\ mem = src.mem
      /\ stdin = src.stdin /\ stdout = src.stdout /\ src \in SrcStates /\ mem \in [Addresses -> Byte]
  BY AtItsWord
<1>2. /\ verified(x, 8) /\ mem' = loadMem(mem, x, v)
      /\ pc' = pc + 4 /\ status' = "running" /\ r' = r /\ stdin' = stdin /\ stdout' = stdout
      /\ rewritesCode <=> bytesAt(x, 8) \cap Source!code # {}
  BY <1>1, Writing
<1>3. Source!verified(x, 8)
  BY <1>2, SameMachine
<1>4. Running
  BY DEF OnLine
<1>5. CASE rewritesCode
  <2>1. src' = [src EXCEPT !.status = "wild"] /\ Tracked
    BY <1>4, <1>5, GoesWild
  <2>2. Source!Wild
    BY <1>1, <2>1, SourceWild
  <2>3. Source!bytesAt(x, 8) \cap Source!code # {}
    BY <1>2, <1>5, SameMachine
  <2> QED
    BY <1>3, <2>1, <2>2, <2>3 DEF Source!Store
<1>6. CASE ~rewritesCode
  <2>1. bytesAt(x, 8) \cap Source!code = {}
    BY <1>2, <1>6
  <2>2. CodeStands(mem')
    BY <1>1, <1>2, <2>1, StoreKeepsCode
  <2>3. pc' = Source!startOf(src.at) + 4 * cnt(script[src.at].cmd)
    BY <1>1, <1>2
  <2>4. src' = now("running", Source!firstFrom(src.at + 1)) /\ Tracked
    BY <1>1, <1>2, <1>4, <1>6, <2>2, <2>3, GoesOn
  <2>5. /\ src'.status = src.status /\ src'.at = Source!firstFrom(src.at + 1)
        /\ src'.r = src.r /\ src'.mem = Source!loadMem(src.mem, x, v)
        /\ src'.stdin = src.stdin /\ src'.stdout = src.stdout
    BY <1>1, <1>2, <2>4, NowFields, SameMachine
  <2>6. Source!bytesAt(x, 8) \cap Source!code = {}
    BY <2>1, SameMachine
  <2> QED
    BY <1>3, <2>4, <2>5, <2>6 DEF Source!Store, Source!GoOn
<1> QED
  BY <1>5, <1>6

\* A load into the register that a line names.
LEMMA ReadLine ==
  ASSUME OnLine, SimInv', Observe, UNCHANGED script, ReadWord, cnt(script[src.at].cmd) = 1,
         NEW x, operand = x, ins.rd = Source!a(1).n
  PROVE  /\ Source!verified(x, 8)
         /\ src'.r = [src.r EXCEPT ![Source!a(1).n] = Source!readMem(src.mem, x)]
         /\ Source!GoOn /\ UNCHANGED <<script, src.status, Source!world>> /\ Tracked
<1>1. /\ TypeOK /\ fetched /\ src.status = "running" /\ src.at \in DOMAIN script
      /\ CodeStands(mem) /\ pc = Source!startOf(src.at) /\ r = src.r /\ mem = src.mem
      /\ stdin = src.stdin /\ stdout = src.stdout
  BY AtItsWord
<1>2. /\ verified(x, 8) /\ r' = [r EXCEPT ![ins.rd] = readMem(mem, x)]
      /\ pc' = pc + 4 /\ status' = "running" /\ mem' = mem /\ stdin' = stdin /\ stdout' = stdout
      /\ ~rewritesCode
  BY <1>1, Reading
<1>3. Running
  BY DEF OnLine
<1>4. CodeStands(mem') /\ pc' = Source!startOf(src.at) + 4 * cnt(script[src.at].cmd)
  BY <1>1, <1>2
<1>5. src' = now("running", Source!firstFrom(src.at + 1)) /\ Tracked
  BY <1>1, <1>2, <1>3, <1>4, GoesOn
<1>6. /\ src'.status = src.status /\ src'.at = Source!firstFrom(src.at + 1)
      /\ src'.r = r' /\ src'.mem = src.mem /\ src'.stdin = src.stdin /\ src'.stdout = src.stdout
  BY <1>1, <1>2, <1>5, NowFields
<1>7. Source!GoOn /\ UNCHANGED <<script, src.status, Source!world>>
  BY <1>6 DEF Source!GoOn, Source!world
<1>8. Source!verified(x, 8) /\ Source!readMem(src.mem, x) = readMem(mem, x)
  BY <1>1, <1>2, SameMachine
<1> QED
  BY <1>1, <1>2, <1>5, <1>6, <1>7, <1>8

LEMMA MovStep ==
  ASSUME OnLine, SimInv', Observe, UNCHANGED script, Next, Source!c = "mov"
  PROVE  Source!Next /\ Tracked
<1>1. /\ src.status = "running" /\ src.at \in DOMAIN script /\ src \in SrcStates
      /\ status = "running" /\ fetched
  BY AtItsWord
<1>2. Source!Is({"mov"}) /\ cnt(script[src.at].cmd) = 1
  BY <1>1, MovOperands, SourceOperands DEF Source!Is
<1>3. CASE /\ Source!a(1).k = "reg" /\ Source!a(2).k = "mem" /\ cmd = "mov"
           /\ ins.rd = Source!a(1).n /\ operand = ull(Source!R(2) + Source!L(2))
  <2> DEFINE x == Source!ull(Source!R(2) + Source!L(2))
  <2>1. operand = x
    BY <1>3, SameMachine
  <2> HIDE DEF x
  <2>2. ReadWord \/ Failing(~verified(operand, 8))
    BY <1>1, <1>3, Round
  <2>3. ASSUME ReadWord PROVE Source!MovFromMemory /\ Tracked
    <3>1. /\ Source!verified(x, 8)
          /\ src'.r = [src.r EXCEPT ![Source!a(1).n] = Source!readMem(src.mem, x)]
          /\ Source!GoOn /\ UNCHANGED <<script, src.status, Source!world>> /\ Tracked
      BY <1>2, <1>3, <2>1, <2>3, ReadLine
    <3> QED
      BY <1>2, <1>3, <3>1 DEF Source!MovFromMemory, x
  <2>4. ASSUME Failing(~verified(operand, 8)) PROVE Source!MovFromMemory /\ Tracked
    <3>1. simErr /\ ~Source!verified(x, 8)
      BY <2>1, <2>4, SameMachine DEF Failing
    <3>2. src' = [src EXCEPT !.status = "error"] /\ Tracked
      BY <3>1, FailsOnLine
    <3>3. Source!Fail
      BY <1>1, <3>2, SourceFail
    <3> QED
      BY <1>2, <1>3, <3>1, <3>2, <3>3 DEF Source!MovFromMemory, x
  <2> QED
    BY <2>2, <2>3, <2>4 DEF Source!Next
<1>4. CASE /\ Source!a(1).k = "mem" /\ Source!a(2).k = "reg" /\ cmd = "mov3"
           /\ operand = ull(Source!R(1) + Source!L(1)) /\ s = Source!R(2)
  <2> DEFINE x == Source!ull(Source!R(1) + Source!L(1))
             v == Source!R(2)
  <2>1. operand = x /\ s = v
    BY <1>4, SameMachine
  <2> HIDE DEF x, v
  <2>2. WriteWord \/ Failing(~verified(operand, 8))
    BY <1>1, <1>4, Round
  <2>3. ASSUME WriteWord PROVE Source!Store(x, v, src.r) /\ Tracked
    BY <1>2, <2>1, <2>3, StoreLine
  <2>4. ASSUME Failing(~verified(operand, 8)) PROVE Source!Store(x, v, src.r) /\ Tracked
    <3>1. simErr /\ ~Source!verified(x, 8)
      BY <2>1, <2>4, SameMachine DEF Failing
    <3>2. src' = [src EXCEPT !.status = "error"] /\ Tracked
      BY <3>1, FailsOnLine
    <3>3. Source!Fail
      BY <1>1, <3>2, SourceFail
    <3> QED
      BY <3>1, <3>2, <3>3 DEF Source!Store
  <2>5. Source!Store(x, v, src.r) /\ Tracked
    BY <2>2, <2>3, <2>4
  <2>6. Source!MovToMemory
    BY <1>2, <1>4, <2>5 DEF Source!MovToMemory, x, v
  <2> QED
    BY <2>5, <2>6 DEF Source!Next
<1>5. CASE /\ Source!a(1).k = "reg" /\ Source!a(2).k \in {"reg", "lit"} /\ cmd \in {"mov1", "mov2"}
           /\ ins.rd = Source!a(1).n /\ Source!value = result
  <2>1. cmd \in Computing /\ cmd \notin {"addf", "subf", "mulf", "divf"} /\ ~byZero
    BY <1>5 DEF Computing, byZero
  <2>2. Compute
    BY <1>1, <2>1, Round DEF Failing
  <2>3. Source!toRegister(Assigning) /\ ~(Source!c = "div" /\ Source!R(3) = 0)
    BY <1>2, <1>5 DEF Source!toRegister
  <2>4. Source!Assign /\ Tracked
    BY <1>2, <1>5, <2>1, <2>2, <2>3, Assigns
  <2> QED
    BY <2>4 DEF Source!Next
<1>6. CASE /\ Source!a(1).k = "reg" /\ Source!a(2).k = "reg" /\ cmd = "mov1"
           /\ ins.rd = Source!a(1).n /\ s = Source!R(2)
  <2>1. Source!value = result
    BY <1>6, SourceValue, ResultIs
  <2> QED
    BY <1>5, <1>6, <2>1
<1>7. CASE /\ Source!a(1).k = "reg" /\ Source!a(2).k = "lit" /\ cmd = "mov2"
           /\ ins.rd = Source!a(1).n /\ d = Source!R(1) /\ imm = Source!L(2)
  <2>1. Source!value = result
    BY <1>7, SourceValue, ResultIs
  <2> QED
    BY <1>5, <1>7, <2>1
<1> QED
  BY <1>3, <1>4, <1>6, <1>7, MovOperands

---------------------------------------------------------------------------
(* Lines that jump *)

LEMMA GoesTo ==
  ASSUME OnLine, SimInv', Observe, UNCHANGED script, cnt(script[src.at].cmd) = 1, ~rewritesCode,
         status' = "running", UNCHANGED <<r, mem, stdin, stdout>>, NEW x, pc' = x
  PROVE  Source!GoTo(x) /\ Tracked
<1>1. /\ src.status = "running" /\ src \in SrcStates /\ CodeStands(mem)
      /\ r' = src.r /\ mem' = src.mem /\ stdin' = src.stdin /\ stdout' = src.stdout
  BY AtItsWord
<1>2. CodeStands(mem')
  BY <1>1
<1>3. /\ Tracked
      /\ \/ \E k \in Source!places : Source!startOf(k) = x /\ src' = now("running", k)
         \/ /\ \A k \in Source!places : Source!startOf(k) # x
            /\ src' = [now("wild", src.at) EXCEPT !.r = src.r]
  BY <1>2, Jumps
<1>4. CASE \E k \in Source!places : Source!startOf(k) = x /\ src' = now("running", k)
  <2>1. PICK k \in Source!places : Source!startOf(k) = x /\ src' = now("running", k)
    BY <1>4
  <2>2. /\ src'.status = src.status /\ src'.at = k /\ src'.r = src.r /\ src'.mem = src.mem
        /\ src'.stdin = src.stdin /\ src'.stdout = src.stdout
    BY <1>1, <2>1, NowFields
  <2> QED
    BY <1>3, <2>1, <2>2 DEF Source!GoTo, Source!world
<1>5. CASE /\ \A k \in Source!places : Source!startOf(k) # x
           /\ src' = [now("wild", src.at) EXCEPT !.r = src.r]
  <2>1. src' = [status |-> "wild", at |-> src.at, r |-> src.r, mem |-> src.mem,
                stdin |-> src.stdin, stdout |-> src.stdout]
    BY <1>1, <1>5 DEF now
  <2>2. src' = [src EXCEPT !.status = "wild"]
    BY ONLY <1>1, <2>1, SrcFields
  <2>3. Source!Wild
    BY <1>1, <2>2, SourceWild
  <2> QED
    BY <1>3, <1>5, <2>3 DEF Source!GoTo
<1> QED
  BY <1>3, <1>4, <1>5

LEMMA TakenAlike ==
  ASSUME OnLine, Source!c \in {"br", "brnz", "brgt"}
  PROVE  taken <=> Source!taken
<1>1. Source!c \in PlainCommands
  BY DEF PlainCommands, Registers3, Registers2, Registers1
<1>2. /\ cmd = Source!c
      /\ cmd \in Registers3 => s = Source!R(2) /\ t = Source!R(3)
      /\ cmd \in Registers2 => s = Source!R(2)
  BY <1>1, LineOperands
<1>3. CASE Source!c = "br"
  BY <1>2, <1>3 DEF taken, Source!taken
<1>4. CASE Source!c = "brnz"
  <2>1. s = Source!R(2)
    BY <1>2, <1>4 DEF Registers2
  <2> QED
    BY <1>2, <1>4, <2>1 DEF taken, Source!taken
<1>5. CASE Source!c = "brgt"
  <2>1. s = Source!R(2) /\ t = Source!R(3)
    BY <1>2, <1>5 DEF Registers3
  <2> QED
    BY <1>2, <1>5, <2>1 DEF taken, Source!taken
<1> QED
  BY <1>3, <1>4, <1>5

LEMMA BranchingStep ==
  ASSUME OnLine, SimInv', Observe, UNCHANGED script, Next, Source!c \in {"br", "brnz", "brgt"}
  PROVE  Source!Next /\ Tracked
<1>1. Source!c \in PlainCommands
  BY DEF PlainCommands, Registers3, Registers2, Registers1
<1>2. cmd = Source!c /\ cnt(script[src.at].cmd) = 1 /\ d = Source!R(1)
  <2>1. /\ cmd = Source!c /\ cnt(script[src.at].cmd) = 1
        /\ cmd \in Registers3 => d = Source!R(1)
        /\ cmd \in Registers2 => d = Source!R(1)
        /\ cmd \in Registers1 => d = Source!R(1)
    BY <1>1, LineOperands
  <2> QED
    BY <2>1 DEF Registers3, Registers2, Registers1
<1>3. /\ src.status = "running" /\ src.at \in DOMAIN script /\ src \in SrcStates /\ Running
      /\ status = "running" /\ fetched /\ CodeStands(mem) /\ pc = Source!startOf(src.at)
      /\ r = src.r /\ mem = src.mem /\ stdin = src.stdin /\ stdout = src.stdout
  BY AtItsWord DEF OnLine
<1>4. Branch
  BY <1>2, <1>3, Round
<1>5. Source!Is({"br", "brnz", "brgt"})
  BY <1>3 DEF Source!Is, Source!c
<1>6. ~rewritesCode
  BY <1>2 DEF rewritesCode, Runs
<1>7. (taken <=> Source!taken) /\ (verifyAddress(d) <=> Source!verifyAddress(Source!R(1)))
  <2>1. taken <=> Source!taken
    BY TakenAlike
  <2>2. Source!verifyAddress(Source!R(1)) = verifyAddress(d)
    BY <1>2, SameMachine
  <2> QED
    BY <2>1, <2>2
<1>8. CASE taken /\ ~verifyAddress(d)
  <2>1. simErr
    BY <1>4, <1>8 DEF Branch, Jump
  <2>2. src' = [src EXCEPT !.status = "error"] /\ Tracked
    BY <2>1, FailsOnLine
  <2>3. Source!Fail
    BY <1>3, <2>2, SourceFail
  <2>4. Source!Branch
    BY <1>5, <1>7, <1>8, <2>3 DEF Source!Branch
  <2> QED
    BY <2>2, <2>4 DEF Source!Next
<1>9. CASE taken /\ verifyAddress(d)
  <2>1. /\ pc' = d /\ status' = "running" /\ r' = r /\ mem' = mem
        /\ stdin' = stdin /\ stdout' = stdout
    BY <1>3, <1>4, <1>9 DEF Branch, Jump, files
  <2>2. pc' = Source!R(1) /\ UNCHANGED <<r, mem, stdin, stdout>>
    BY <1>2, <2>1
  <2>3. \A x : pc' = x => Source!GoTo(x) /\ Tracked
    BY <1>2, <1>6, <2>1, <2>2, GoesTo
  <2>4. Source!GoTo(Source!R(1)) /\ Tracked
    BY <2>2, <2>3
  <2>5. Source!Branch
    BY <1>5, <1>7, <1>9, <2>4 DEF Source!Branch
  <2> QED
    BY <2>4, <2>5 DEF Source!Next
<1>10. CASE ~taken
  <2>1. /\ pc' = pc + 4 /\ status' = "running" /\ r' = r /\ mem' = mem
        /\ stdin' = stdin /\ stdout' = stdout
    BY <1>3, <1>4, <1>10 DEF Branch, Advance, files
  <2>2. pc' = Source!startOf(src.at) + 4 * cnt(script[src.at].cmd) /\ CodeStands(mem')
    BY <1>2, <1>3, <2>1
  <2>3. src' = now("running", Source!firstFrom(src.at + 1)) /\ Tracked
    BY <1>3, <1>6, <2>1, <2>2, GoesOn
  <2>4. /\ src'.status = src.status /\ src'.at = Source!firstFrom(src.at + 1)
        /\ src'.r = src.r /\ src'.mem = src.mem /\ src'.stdin = src.stdin /\ src'.stdout = src.stdout
    BY <1>3, <2>1, <2>3, NowFields
  <2>5. Source!Branch
    BY <1>5, <1>7, <1>10, <2>4 DEF Source!Branch, Source!GoOn, Source!world
  <2> QED
    BY <2>3, <2>5 DEF Source!Next
<1> QED
  BY <1>8, <1>9, <1>10

LEMMA BrrStep ==
  ASSUME OnLine, SimInv', Observe, UNCHANGED script, Next, Source!c = "brr"
  PROVE  Source!Next /\ Tracked
<1>1. /\ Assembled /\ src.at \in DOMAIN script /\ Source!isInstr(src.at)
      /\ ins = wordOf(src.at, 1) /\ src.status = "running" /\ status = "running" /\ fetched
      /\ pc = Source!startOf(src.at) /\ r = src.r
  BY AtItsWord
<1>2. /\ script[src.at].cmd = "brr" /\ Source!a(1) = script[src.at].args[1]
      /\ Source!L(1) = Source!a(1).v /\ Source!R(1) = r[Source!a(1).n]
  BY <1>1, SourceOperands
<1>3. /\ Source!a(1).k = "lit" => ins.op = 10 /\ sign(ins.imm) = Source!a(1).v
      /\ Source!a(1).k # "lit" => ins.op = 9 /\ ins.rd = Source!a(1).n
  BY <1>1, <1>2, BrrLine
<1>4. /\ Source!a(1).k = "lit" => cmd = "brr2" /\ sign(imm) = Source!L(1)
      /\ Source!a(1).k # "lit" => cmd = "brr" /\ d = Source!R(1)
  BY <1>2, <1>3, Decoded DEF cmd, d, imm
<1>5. BranchRelative
  BY <1>1, <1>4, Round
<1> DEFINE x == IF Source!a(1).k = "lit" THEN Source!startOf(src.at) + Source!L(1)
                ELSE Source!toInt(Source!ull(Source!startOf(src.at) + Source!R(1)))
<1>6. pc' = x
  <2>1. pc' = IF cmd = "brr" THEN toInt(ull(pc + d)) ELSE pc + sign(imm)
    BY <1>5 DEF BranchRelative
  <2> QED
    BY <1>1, <1>4, <2>1, SameMachine
<1>7. status' = "running" /\ UNCHANGED <<r, mem, stdin, stdout>>
  BY <1>1, <1>5 DEF BranchRelative, files
<1>8. ~rewritesCode
  BY <1>4 DEF rewritesCode, Runs
<1>9. cnt(script[src.at].cmd) = 1
  BY <1>2 DEF cnt
<1>10. Source!Is({"brr"})
  BY <1>1, <1>2 DEF Source!Is
<1> HIDE DEF x
<1>11. Source!GoTo(x) /\ Tracked
  BY <1>6, <1>7, <1>8, <1>9, GoesTo
<1>12. Source!BranchRelative
  BY <1>10, <1>11 DEF Source!BranchRelative, x
<1> QED
  BY <1>11, <1>12 DEF Source!Next

\* The slot of a call, and of a return.
LEMMA SlotOperand ==
  ASSUME OnLine, Source!c \in {"call", "return"}
  PROVE  /\ cmd = Source!c /\ cnt(script[src.at].cmd) = 1
         /\ operand = Source!ull(src.r[31] - 8)
         /\ Source!c = "call" => d = Source!R(1)
<1>1. Source!c \in PlainCommands
  BY DEF PlainCommands, Registers1
<1>2. /\ cmd = Source!c /\ cnt(script[src.at].cmd) = 1
      /\ cmd \in Registers1 => d = Source!R(1)
  BY <1>1, LineOperands
<1>3. r = src.r
  BY AtItsWord
<1>4. operand = ull(r[31] - 8)
  BY <1>2 DEF operand
<1> QED
  BY <1>2, <1>3, <1>4, SameMachine DEF Registers1

LEMMA ReturnLineStep ==
  ASSUME OnLine, SimInv', Observe, UNCHANGED script, Next, Source!c = "return"
  PROVE  Source!Next /\ Tracked
<1> DEFINE x == Source!ull(src.r[31] - 8)
<1>1. cmd = "return" /\ cnt(script[src.at].cmd) = 1 /\ operand = x
  BY SlotOperand
<1>2. /\ src.status = "running" /\ src.at \in DOMAIN script /\ src \in SrcStates
      /\ status = "running" /\ fetched /\ r = src.r /\ mem = src.mem
  BY AtItsWord
<1>3. Return \/ Failing(~verified(operand, 8))
  BY <1>1, <1>2, Round
<1>4. Source!Is({"return"})
  BY <1>2 DEF Source!Is, Source!c
<1> HIDE DEF x
<1>5. CASE Return
  <2>1. /\ verified(x, 8) /\ pc' = toInt(readMem(mem, x)) /\ status' = "running"
        /\ UNCHANGED <<r, mem, stdin, stdout>>
    BY <1>1, <1>2, <1>5 DEF Return, files
  <2>2. pc' = Source!toInt(Source!readMem(src.mem, x)) /\ Source!verified(x, 8)
    BY <1>2, <2>1, SameMachine
  <2>3. ~rewritesCode
    BY <1>1 DEF rewritesCode, Runs
  <2>4. Source!GoTo(Source!toInt(Source!readMem(src.mem, x))) /\ Tracked
    BY <1>1, <2>1, <2>2, <2>3, GoesTo
  <2>5. Source!Return
    BY <1>4, <2>2, <2>4 DEF Source!Return, x
  <2> QED
    BY <2>4, <2>5 DEF Source!Next
<1>6. CASE Failing(~verified(operand, 8))
  <2>1. simErr /\ ~Source!verified(x, 8)
    BY <1>1, <1>6, SameMachine DEF Failing
  <2>2. src' = [src EXCEPT !.status = "error"] /\ Tracked
    BY <2>1, FailsOnLine
  <2>3. Source!Fail
    BY <1>2, <2>2, SourceFail
  <2>4. Source!Return
    BY <1>4, <2>1, <2>3 DEF Source!Return, x
  <2> QED
    BY <2>2, <2>4 DEF Source!Next
<1> QED
  BY <1>3, <1>5, <1>6

LEMMA CallLineStep ==
  ASSUME OnLine, SimInv', Observe, UNCHANGED script, Next, Source!c = "call"
  PROVE  Source!Next /\ Tracked
<1> DEFINE x == Source!ull(src.r[31] - 8)
           y == Source!R(1)
           z == Source!startOf(Source!firstFrom(src.at + 1))
<1>1. cmd = "call" /\ cnt(script[src.at].cmd) = 1 /\ operand = x /\ d = y
  BY SlotOperand
<1>2. /\ src.status = "running" /\ src.at \in DOMAIN script /\ src.at \in Source!places
      /\ src \in SrcStates /\ Assembled /\ script \in Scripts /\ Running
      /\ status = "running" /\ fetched /\ pc = Source!startOf(src.at) /\ r = src.r /\ mem = src.mem
      /\ CodeStands(mem) /\ stdin = src.stdin /\ stdout = src.stdout /\ mem \in [Addresses -> Byte]
  BY AtItsWord DEF OnLine
<1>3. Call \/ Failing(~verified(operand, 8) \/ ~verifyAddress(d))
  BY <1>1, <1>2, Round
<1>4. Source!Is({"call"})
  BY <1>2 DEF Source!Is, Source!c
<1>5. z = pc + 4
  <2>1. z = Source!startOf(src.at) + 4 * cnt(script[src.at].cmd)
    BY <1>2, Behind
  <2> QED
    BY <1>1, <1>2, <2>1
<1>6. /\ Source!verified(x, 8) <=> verified(x, 8)
      /\ Source!verifyAddress(y) <=> verifyAddress(y)
      /\ Source!bytesAt(x, 8) = bytesAt(x, 8)
  <2>1. /\ Source!verified(x, 8) = verified(x, 8) /\ Source!bytesAt(x, 8) = bytesAt(x, 8)
        /\ Source!verifyAddress(y) = verifyAddress(y)
    BY SameMachine, Zenon
  <2> QED
    BY <2>1
<1> HIDE DEF x, y, z
<1>7. CASE Failing(~verified(operand, 8) \/ ~verifyAddress(d))
  <2>1. simErr /\ ~(Source!verified(x, 8) /\ Source!verifyAddress(y))
    BY <1>1, <1>6, <1>7 DEF Failing
  <2>2. src' = [src EXCEPT !.status = "error"] /\ Tracked
    BY <2>1, FailsOnLine
  <2>3. Source!Fail
    BY <1>2, <2>2, SourceFail
  <2>4. Source!Call
    BY <1>4, <2>1, <2>3 DEF Source!Call, x, y
  <2> QED
    BY <2>2, <2>4 DEF Source!Next
<1>8. CASE Call
  <2>1. /\ verified(x, 8) /\ verifyAddress(y) /\ mem' = loadMem(mem, x, z) /\ pc' = y
        /\ status' = "running" /\ UNCHANGED <<r, stdin, stdout>>
    BY <1>1, <1>2, <1>5, <1>8 DEF Call, files
  <2>2. rewritesCode <=> bytesAt(x, 8) \cap Source!code # {}
    BY <1>1, <1>2, <2>1 DEF rewritesCode, Runs
  <2>3. Source!verified(x, 8) /\ Source!verifyAddress(y)
    BY <1>6, <2>1
  <2>4. CASE rewritesCode
    <3>1. src' = [src EXCEPT !.status = "wild"] /\ Tracked
      BY <1>2, <2>4, GoesWild
    <3>2. Source!Wild
      BY <1>2, <3>1, SourceWild
    <3>3. Source!bytesAt(x, 8) \cap Source!code # {}
      BY <1>6, <2>2, <2>4
    <3>4. Source!Call
      BY <1>4, <2>3, <3>2, <3>3 DEF Source!Call, x, y
    <3> QED
      BY <3>1, <3>4 DEF Source!Next
  <2>5. CASE ~rewritesCode
    <3>1. bytesAt(x, 8) \cap Source!code = {}
      BY <2>2, <2>5
    <3>2. CodeStands(mem')
      BY <1>2, <2>1, <3>1, StoreKeepsCode
    <3>3. /\ Tracked
          /\ \/ \E k \in Source!places : Source!startOf(k) = y /\ src' = now("running", k)
             \/ /\ \A k \in Source!places : Source!startOf(k) # y
                /\ src' = [now("wild", src.at) EXCEPT !.r = src.r]
      BY <1>1, <2>1, <2>5, <3>2, Jumps
    <3>4. Source!bytesAt(x, 8) \cap Source!code = {} /\ mem' = Source!loadMem(src.mem, x, z)
      BY <1>2, <1>6, <2>1, <3>1, SameMachine
    <3>5. CASE \E k \in Source!places : Source!startOf(k) = y /\ src' = now("running", k)
      <4>1. PICK k \in Source!places : Source!startOf(k) = y /\ src' = now("running", k)
        BY <3>5
      <4>2. /\ src'.status = src.status /\ src'.at = k /\ src'.r = src.r /\ src'.mem = mem'
            /\ src'.stdin = src.stdin /\ src'.stdout = src.stdout
        BY <1>2, <2>1, <4>1, NowFields
      <4>3. Source!Call
        BY <1>4, <2>3, <3>4, <4>1, <4>2 DEF Source!Call, x, y, z
      <4> QED
        BY <3>3, <4>3 DEF Source!Next
    <3>6. CASE /\ \A k \in Source!places : Source!startOf(k) # y
               /\ src' = [now("wild", src.at) EXCEPT !.r = src.r]
      <4>1. src' = [status |-> "wild", at |-> src.at, r |-> src.r, mem |-> mem',
                    stdin |-> src.stdin, stdout |-> src.stdout]
        BY <1>2, <2>1, <3>6 DEF now
      <4>2. /\ src'.status = "wild" /\ src'.at = src.at /\ src'.r = src.r /\ src'.mem = mem'
            /\ src'.stdin = src.stdin /\ src'.stdout = src.stdout
        BY ONLY <4>1
      <4>3. Source!Call
        BY <1>4, <2>3, <3>4, <3>6, <4>2 DEF Source!Call, x, y, z
      <4> QED
        BY <3>3, <4>3 DEF Source!Next
    <3> QED
      BY <3>3, <3>5, <3>6
  <2> QED
    BY <2>4, <2>5
<1> QED
  BY <1>3, <1>7, <1>8

---------------------------------------------------------------------------
(* Lines that halt, read or print *)

LEMMA HaltLineStep ==
  ASSUME OnLine, SimInv', Observe, UNCHANGED script, Next, Source!c = "halt"
  PROVE  Source!Next /\ Tracked
<1>1. /\ Assembled /\ src.at \in DOMAIN script /\ Source!isInstr(src.at) /\ Running
      /\ ins = wordOf(src.at, 1) /\ src.status = "running" /\ status = "running" /\ fetched
      /\ r = src.r /\ mem = src.mem /\ stdin = src.stdin /\ stdout = src.stdout
  BY AtItsWord DEF OnLine
<1>2. script[src.at].cmd = "halt"
  BY SourceOperands
<1>3. ins.op = 15 /\ imm = 0
  BY <1>1, <1>2, HaltLine DEF imm
<1>4. cmd = "priv"
  BY <1>3, Decoded DEF cmd
<1>5. \/ Halt \/ Input \/ Output
      \/ Failing(imm = 3 /\ s = 0 /\ lineRead = {})
      \/ Failing(imm # 0 /\ ~(imm = 3 /\ s = 0) /\ ~(imm = 4 /\ d \in {1, 3}))
  BY <1>1, <1>4, Round
<1>6. Halt
  BY <1>3, <1>5 DEF Input, Output, Failing
<1>7. status' = "halted" /\ UNCHANGED <<r, mem, stdin, stdout>>
  BY <1>6 DEF Halt, files
<1>8. src' = now("halted", src.at) /\ Tracked
  BY <1>1, <1>7, Stops
<1>9. /\ src'.status = "halted" /\ src'.at = src.at /\ src'.r = src.r /\ src'.mem = src.mem
      /\ src'.stdin = src.stdin /\ src'.stdout = src.stdout
  BY <1>1, <1>7, <1>8, NowFields
<1>10. Source!Is({"halt"})
  BY <1>1, <1>2 DEF Source!Is
<1>11. Source!Halt
  BY <1>9, <1>10 DEF Source!Halt, Source!world
<1> QED
  BY <1>8, <1>11 DEF Source!Next

\* in and out become priv.
LEMMA DeviceOperands ==
  ASSUME OnLine, Source!c \in {"in", "out"}
  PROVE  /\ cmd = "priv" /\ cnt(script[src.at].cmd) = 1
         /\ ins.rd = Source!a(1).n /\ d = Source!R(1) /\ s = Source!R(2)
         /\ imm = IF Source!c = "in" THEN 3 ELSE 4
<1>1. /\ Assembled /\ src.at \in DOMAIN script /\ Source!isInstr(src.at)
      /\ ins = wordOf(src.at, 1) /\ r = src.r
  BY AtItsWord
<1>2. /\ Source!c = script[src.at].cmd
      /\ \A n : /\ Source!a(n) = script[src.at].args[n]
                /\ Source!R(n) = r[Source!a(n).n]
  BY <1>1, SourceOperands
<1>3. /\ ins.op = 15 /\ ins.rd = Source!a(1).n /\ ins.rs = Source!a(2).n
      /\ ins.imm = IF Source!c = "in" THEN 3 ELSE 4
  BY <1>1, <1>2, DeviceLine
<1>4. cmd = "priv"
  BY <1>3, Decoded DEF cmd
<1>5. cnt(script[src.at].cmd) = 1
  BY <1>2 DEF cnt
<1>6. d = Source!R(1) /\ s = Source!R(2) /\ imm = IF Source!c = "in" THEN 3 ELSE 4
  BY <1>2, <1>3 DEF d, s, imm
<1> QED
  BY <1>3, <1>4, <1>5, <1>6

LEMMA InStep ==
  ASSUME OnLine, SimInv', Observe, UNCHANGED script, Next, Source!c = "in"
  PROVE  Source!Next /\ Tracked
<1>1. /\ src.at \in DOMAIN script /\ Running /\ src \in SrcStates /\ CodeStands(mem)
      /\ src.status = "running" /\ status = "running" /\ fetched /\ pc = Source!startOf(src.at)
      /\ r = src.r /\ mem = src.mem /\ stdin = src.stdin /\ stdout = src.stdout
  BY AtItsWord DEF OnLine
<1>2. /\ cmd = "priv" /\ cnt(script[src.at].cmd) = 1
      /\ ins.rd = Source!a(1).n /\ s = Source!R(2) /\ imm = 3
  BY DeviceOperands
<1>3. \/ Halt \/ Input \/ Output
      \/ Failing(imm = 3 /\ s = 0 /\ lineRead = {})
      \/ Failing(imm # 0 /\ ~(imm = 3 /\ s = 0) /\ ~(imm = 4 /\ d \in {1, 3}))
  BY <1>1, <1>2, Round
<1>4. Source!Is({"in"})
  BY <1>1 DEF Source!Is, Source!c
<1> DEFINE read == IF Source!R(2) # 0 \/ src.stdin = <<>> THEN {}
                   ELSE Source!valueOf(Head(src.stdin))
<1>5. read = IF s # 0 THEN {} ELSE lineRead
  BY <1>1, <1>2, SameMachine DEF lineRead
<1> HIDE DEF read
<1>6. CASE Input
  <2>1. s = 0 /\ (\E v \in lineRead : Set(v)) /\ stdin' = Tail(stdin)
        /\ pc' = pc + 4 /\ status' = "running" /\ mem' = mem /\ stdout' = stdout
    BY <1>1, <1>6 DEF Input, Advance
  <2>2. PICK v \in lineRead : Set(v)
    BY <2>1
  <2>3. v \in read /\ r' = [src.r EXCEPT ![Source!a(1).n] = v]
    BY <1>1, <1>2, <1>5, <2>1, <2>2 DEF Set
  <2>4. ~rewritesCode
    BY <1>2 DEF rewritesCode, Runs
  <2>5. CodeStands(mem') /\ pc' = Source!startOf(src.at) + 4 * cnt(script[src.at].cmd)
    BY <1>1, <1>2, <2>1
  <2>6. src' = now("running", Source!firstFrom(src.at + 1)) /\ Tracked
    BY <1>1, <2>1, <2>4, <2>5, GoesOn
  <2>7. /\ src'.status = src.status /\ src'.at = Source!firstFrom(src.at + 1)
        /\ src'.r = [src.r EXCEPT ![Source!a(1).n] = v] /\ src'.mem = src.mem
        /\ src'.stdin = Tail(src.stdin) /\ src'.stdout = src.stdout
    BY <1>1, <2>1, <2>3, <2>6, NowFields
  <2>8. Source!In
    BY <1>4, <2>3, <2>7 DEF Source!In, Source!GoOn, read
  <2> QED
    BY <2>6, <2>8 DEF Source!Next
<1>7. CASE simErr /\ (s # 0 \/ lineRead = {})
  <2>1. src' = [src EXCEPT !.status = "error"] /\ Tracked
    BY <1>7, FailsOnLine
  <2>2. Source!Fail
    BY <1>1, <2>1, SourceFail
  <2>3. read = {}
    BY <1>5, <1>7
  <2>4. Source!In
    BY <1>4, <2>2, <2>3 DEF Source!In, read
  <2> QED
    BY <2>1, <2>4 DEF Source!Next
<1>8. Input \/ (simErr /\ (s # 0 \/ lineRead = {}))
  BY <1>2, <1>3 DEF Halt, Output, Failing
<1> QED
  BY <1>6, <1>7, <1>8

LEMMA OutStep ==
  ASSUME OnLine, SimInv', Observe, UNCHANGED script, Next, Source!c = "out"
  PROVE  Source!Next /\ Tracked
<1>1. /\ src.at \in DOMAIN script /\ Running /\ src \in SrcStates /\ CodeStands(mem)
      /\ src.status = "running" /\ status = "running" /\ fetched /\ pc = Source!startOf(src.at)
      /\ r = src.r /\ mem = src.mem /\ stdin = src.stdin /\ stdout = src.stdout
  BY AtItsWord DEF OnLine
<1>2. /\ cmd = "priv" /\ cnt(script[src.at].cmd) = 1
      /\ d = Source!R(1) /\ s = Source!R(2) /\ imm = 4
  BY DeviceOperands
<1>3. \/ Halt \/ Input \/ Output
      \/ Failing(imm = 3 /\ s = 0 /\ lineRead = {})
      \/ Failing(imm # 0 /\ ~(imm = 3 /\ s = 0) /\ ~(imm = 4 /\ d \in {1, 3}))
  BY <1>1, <1>2, Round
<1>4. Source!Is({"out"})
  BY <1>1 DEF Source!Is, Source!c
<1>5. CASE Output
  <2>1. /\ Source!R(1) \in {1, 3}
        /\ stdout' = Append(stdout, IF Source!R(1) = 1 THEN [k |-> "number", v |-> Source!R(2)]
                                    ELSE [k |-> "char", v |-> Source!R(2) % 256])
    BY <1>2, <1>5 DEF Output
  <2>2. pc' = pc + 4 /\ status' = "running" /\ r' = r /\ mem' = mem /\ stdin' = stdin
    BY <1>1, <1>5 DEF Output, Advance
  <2>3. ~rewritesCode
    BY <1>2 DEF rewritesCode, Runs
  <2>4. CodeStands(mem') /\ pc' = Source!startOf(src.at) + 4 * cnt(script[src.at].cmd)
    BY <1>1, <1>2, <2>2
  <2>5. src' = now("running", Source!firstFrom(src.at + 1)) /\ Tracked
    BY <1>1, <2>2, <2>3, <2>4, GoesOn
  <2>6. /\ src'.status = src.status /\ src'.at = Source!firstFrom(src.at + 1)
        /\ src'.r = src.r /\ src'.mem = src.mem /\ src'.stdin = src.stdin /\ src'.stdout = stdout'
    BY <1>1, <2>2, <2>5, NowFields
  <2>7. Source!Out
    BY <1>1, <1>4, <2>1, <2>6 DEF Source!Out, Source!GoOn
  <2> QED
    BY <2>5, <2>7 DEF Source!Next
<1>6. CASE simErr /\ d \notin {1, 3}
  <2>1. src' = [src EXCEPT !.status = "error"] /\ Tracked
    BY <1>6, FailsOnLine
  <2>2. Source!Fail
    BY <1>1, <2>1, SourceFail
  <2>3. Source!Out
    BY <1>2, <1>4, <1>6, <2>2 DEF Source!Out
  <2> QED
    BY <2>1, <2>3 DEF Source!Next
<1>7. Output \/ (simErr /\ d \notin {1, 3})
  BY <1>2, <1>3 DEF Halt, Input, Failing
<1> QED
  BY <1>5, <1>6, <1>7

---------------------------------------------------------------------------
(* Macros *)

\* Inside of a macro the simulator fetches its next word.
LEMMA AtInnerWord ==
  ASSUME Running, src.at \in DOMAIN script, NEW j \in 1..(cnt(script[src.at].cmd) - 1),
         pc = Source!startOf(src.at) + 4 * j
  PROVE  /\ Assembled /\ script \in Scripts /\ src \in SrcStates /\ TypeOK
         /\ src.at \in Source!places /\ Source!isInstr(src.at)
         /\ status = "running" /\ fetched /\ ins = wordOf(src.at, j + 1) /\ CodeStands(mem)
         /\ src.status = "running" /\ Source!startOf(src.at) \in Nat
         /\ stdin = src.stdin /\ stdout = src.stdout /\ src.r \in [0..31 -> Values]
         /\ src.mem \in [Addresses -> Byte] /\ r \in [0..31 -> Values]
<1>1. /\ Assembled /\ SimInv /\ src \in SrcStates /\ src.status = "running" /\ status = "running"
      /\ CodeStands(mem) /\ stdin = src.stdin /\ stdout = src.stdout
  BY DEF Running, tracks
<1>2. script \in Scripts /\ TypeOK
  BY <1>1 DEF Assembled, SimInv
<1>3. src.at \in Source!places /\ src.r \in [0..31 -> Values] /\ src.mem \in [Addresses -> Byte]
  BY <1>1 DEF SrcStates
<1>4. Source!isInstr(src.at) /\ Source!startOf(src.at) \in Nat
  BY <1>2, <1>3, PlaceIsInstr, Behind
<1>5. j + 1 \in 1..cnt(script[src.at].cmd) /\ (j + 1) - 1 = j
  BY DEF cnt
<1>6. pc = Source!startOf(src.at) + 4 * ((j + 1) - 1)
  BY ONLY <1>5, pc = Source!startOf(src.at) + 4 * j
<1>7. fetched /\ ins = wordOf(src.at, j + 1)
  BY <1>1, <1>2, <1>4, <1>5, <1>6, Fetch
<1>8. r \in [0..31 -> Values]
  BY <1>2, RegisterType
<1> QED
  BY <1>1, <1>2, <1>3, <1>4, <1>7, <1>8

\* Its words after the first compute and cannot fail.
LEMMA InnerComputes ==
  ASSUME Running, src.at \in DOMAIN script, NEW j \in 1..(cnt(script[src.at].cmd) - 1),
         pc = Source!startOf(src.at) + 4 * j, Next, NEW n, ins.rd = n,
         ins.op \in {7, 25, 27}
  PROVE  /\ r' = [r EXCEPT ![n] = result] /\ result \in Values /\ pc' = pc + 4
         /\ status' = "running" /\ mem' = mem /\ stdin' = stdin /\ stdout' = stdout
         /\ ~rewritesCode
         /\ ins.op = 7  => result = shiftl(r[n], ins.imm)
         /\ ins.op = 25 => result = ull(r[n] + ins.imm)
         /\ ins.op = 27 => result = ull(r[n] - ins.imm)
<1>1. TypeOK /\ status = "running" /\ fetched
  BY AtInnerWord
<1>2. /\ ins.op = 7  => cmd = "shftli"
      /\ ins.op = 25 => cmd = "addi"
      /\ ins.op = 27 => cmd = "subi"
  BY Decoded DEF cmd
<1>3. cmd \in {"shftli", "addi", "subi"}
  BY <1>2
<1>4. cmd \in Computing /\ cmd \notin {"addf", "subf", "mulf", "divf"} /\ ~byZero
  BY <1>3 DEF Computing, byZero
<1>5. Compute
  BY <1>1, <1>4, Round DEF Failing
<1>6. /\ r' = [r EXCEPT ![ins.rd] = result] /\ result \in Values /\ pc' = pc + 4
      /\ status' = "running" /\ mem' = mem /\ stdin' = stdin /\ stdout' = stdout
      /\ ~rewritesCode
  BY <1>1, <1>4, <1>5, Computed
<1>7. /\ cmd = "shftli" => result = shiftl(d, imm)
      /\ cmd = "addi" => result = ull(d + imm)
      /\ cmd = "subi" => result = ull(d - imm)
  BY ResultIs
<1>8. d = r[n] /\ imm = ins.imm
  BY DEF d, imm
<1> QED
  BY <1>2, <1>6, <1>7, <1>8

\* The slot of push, and r31 after it.
LEMMA PushSlot ==
  ASSUME Assembled, src \in SrcStates, src.at \in DOMAIN script, Source!isInstr(src.at),
         Source!c = "push", NEW rs, rs = [src.r EXCEPT ![31] = Source!ull(src.r[31] - 8)]
  PROVE  /\ Source!a(1).n \in 0..30
         /\ rs[31] = ull(src.r[31] - 8) /\ rs[Source!a(1).n] = src.r[Source!a(1).n]
<1>1. Source!c = script[src.at].cmd /\ Source!a(1) = script[src.at].args[1]
  BY SourceOperands
<1>2. Source!a(1).n \in 0..30
  BY <1>1, PushLine
<1>3. src.r \in [0..31 -> Values]
  BY DEF SrcStates
<1>4. Source!ull(src.r[31] - 8) = ull(src.r[31] - 8)
  BY SameMachine
<1>5. Source!a(1).n \in 0..31 /\ Source!a(1).n # 31 /\ 31 \in 0..31
  BY <1>2
<1> QED
  BY <1>2, <1>3, <1>4, <1>5

LEMMA PushStarts ==
  ASSUME OnLine, SimInv', Observe, UNCHANGED script, Next, Source!c = "push"
  PROVE  (Source!Next \/ src' = src) /\ Tracked
<1>1. /\ Assembled /\ src.at \in DOMAIN script /\ Source!isInstr(src.at) /\ Running
      /\ src \in SrcStates /\ TypeOK /\ CodeStands(mem) /\ ins = wordOf(src.at, 1)
      /\ src.status = "running" /\ status = "running" /\ fetched /\ pc = Source!startOf(src.at)
      /\ r = src.r /\ mem = src.mem /\ stdin = src.stdin /\ stdout = src.stdout
      /\ src.r \in [0..31 -> Values] /\ mem \in [Addresses -> Byte]
  BY AtItsWord DEF OnLine
<1>2. script[src.at].cmd = "push" /\ Source!a(1) = script[src.at].args[1]
  BY SourceOperands
<1> DEFINE rs == [src.r EXCEPT ![31] = Source!ull(src.r[31] - 8)]
           x  == ull(src.r[31] - 8)
           n  == Source!a(1).n
<1>3. n \in 0..30 /\ rs[31] = x /\ rs[n] = src.r[n]
  BY <1>1, PushSlot
<1>4. ins.op = 19 /\ ins.rd = 31 /\ ins.rs = n /\ sign(ins.imm) = -8
  BY <1>1, <1>2, PushLine
<1>5. cmd = "mov3" /\ operand = x /\ s = src.r[n]
  <2>1. cmd = "mov3"
    BY <1>4, Decoded DEF cmd
  <2>2. operand = ull(src.r[31] + (-8)) /\ s = src.r[n]
    BY <1>1, <1>4, <2>1 DEF operand, d, s, imm
  <2>3. src.r[31] \in Int
    <3>1. src.r \in [0..31 -> Values] /\ 31 \in 0..31
      BY <1>1
    <3> QED
      BY ONLY <3>1, ValuesAreInts
  <2>4. src.r[31] + (-8) = src.r[31] - 8
    BY ONLY <2>3
  <2> QED
    BY <2>1, <2>2, <2>4
<1>6. WriteWord \/ Failing(~verified(operand, 8))
  BY <1>1, <1>5, Round
<1>7. Source!Is({"push"})
  BY <1>1, <1>2 DEF Source!Is
<1>8. Source!Store(x, src.r[n], rs) => Source!Push
  <2>1. Source!Store(rs[31], rs[n], rs) => Source!Push
    BY <1>7 DEF Source!Push
  <2>2. rs[31] = x /\ rs[n] = src.r[n]
    BY <1>3
  <2> HIDE DEF rs, x, n
  <2> QED
    BY <2>1, <2>2 DEF Source!Store
<1> HIDE DEF rs, x, n
<1>9. CASE Failing(~verified(operand, 8))
  <2>1. simErr /\ ~Source!verified(x, 8)
    BY <1>5, <1>9, SameMachine DEF Failing
  <2>2. src' = [src EXCEPT !.status = "error"] /\ Tracked
    BY <2>1, FailsOnLine
  <2>3. Source!Fail
    BY <1>1, <2>2, SourceFail
  <2>4. Source!Push
    BY <1>8, <2>1, <2>3 DEF Source!Store
  <2> QED
    BY <2>2, <2>4 DEF Source!Next
<1>10. CASE WriteWord
  <2>1. /\ verified(x, 8) /\ mem' = loadMem(mem, x, src.r[n])
        /\ pc' = pc + 4 /\ status' = "running" /\ r' = r /\ stdin' = stdin /\ stdout' = stdout
        /\ rewritesCode <=> bytesAt(x, 8) \cap Source!code # {}
    BY <1>1, <1>5, <1>10, Writing
  <2>2. CASE rewritesCode
    <3>1. src' = [src EXCEPT !.status = "wild"] /\ Tracked
      BY <1>1, <2>2, GoesWild
    <3>2. Source!Wild
      BY <1>1, <3>1, SourceWild
    <3>3. Source!verified(x, 8) /\ Source!bytesAt(x, 8) \cap Source!code # {}
      BY <2>1, <2>2, SameMachine
    <3>4. Source!Push
      BY <1>8, <3>2, <3>3 DEF Source!Store
    <3> QED
      BY <3>1, <3>4 DEF Source!Next
  <2>3. CASE ~rewritesCode
    <3>1. bytesAt(x, 8) \cap Source!code = {}
      BY <2>1, <2>3
    <3>2. CodeStands(mem')
      BY <1>1, <2>1, <3>1, StoreKeepsCode
    <3>3. 1 \in 1..(cnt(script[src.at].cmd) - 1)
      BY <1>2 DEF cnt
    <3>4. pc' = Source!startOf(src.at) + 4 * 1
      BY <1>1, <2>1
    <3>5. midway(src, 1, r', mem')
      BY <1>1, <1>2, <2>1, <3>1 DEF midway, x, n
    <3>6. src' = src /\ Tracked
      BY <1>1, <2>1, <2>3, <3>2, <3>3, <3>4, <3>5, StaysInside
    <3> QED
      BY <3>6
  <2> QED
    BY <2>2, <2>3
<1> QED
  BY <1>6, <1>9, <1>10

LEMMA PushEnds ==
  ASSUME Running, src.at \in DOMAIN script, SimInv', Observe, UNCHANGED script, Next,
         Source!c = "push", pc = Source!startOf(src.at) + 4 * 1, midway(src, 1, r, mem)
  PROVE  Source!Next /\ Tracked
<1>1. script[src.at].cmd = "push" /\ Source!a(1) = script[src.at].args[1]
  BY SourceOperands
<1>2. 1 \in 1..(cnt(script[src.at].cmd) - 1) /\ cnt(script[src.at].cmd) = 2
  BY <1>1 DEF cnt
<1>3. /\ Assembled /\ src \in SrcStates /\ src.at \in Source!places /\ Source!isInstr(src.at)
      /\ status = "running" /\ fetched /\ ins = wordOf(src.at, 1 + 1) /\ CodeStands(mem)
      /\ src.status = "running" /\ stdin = src.stdin /\ stdout = src.stdout
      /\ Source!startOf(src.at) \in Nat
  BY <1>2, AtInnerWord
<1> DEFINE rs == [src.r EXCEPT ![31] = Source!ull(src.r[31] - 8)]
           x  == ull(src.r[31] - 8)
           n  == Source!a(1).n
<1>4. rs[31] = x /\ rs[n] = src.r[n]
  BY <1>1, <1>3, PushSlot
<1>5. /\ verified(x, 8) /\ bytesAt(x, 8) \cap Source!code = {}
      /\ r = src.r /\ mem = loadMem(src.mem, x, src.r[n])
  BY <1>1 DEF midway
<1>6. ins.op = 27 /\ ins.rd = 31 /\ ins.imm = 8
  BY <1>1, <1>3, PushLine
<1>7. /\ r' = [r EXCEPT ![31] = result] /\ pc' = pc + 4 /\ result = ull(r[31] - 8)
      /\ status' = "running" /\ mem' = mem /\ stdin' = stdin /\ stdout' = stdout
      /\ ~rewritesCode
  BY <1>2, <1>6, InnerComputes
<1>8. pc' = Source!startOf(src.at) + 4 * cnt(script[src.at].cmd) /\ CodeStands(mem')
  BY <1>2, <1>3, <1>7
<1>9. src' = now("running", Source!firstFrom(src.at + 1)) /\ Tracked
  BY <1>7, <1>8, GoesOn
<1>10. r' = rs
  BY <1>5, <1>7, SameMachine
<1>11. Source!Is({"push"})
  BY <1>1, <1>3 DEF Source!Is
<1>12. Source!Store(x, src.r[n], rs) => Source!Push
  <2>1. Source!Store(rs[31], rs[n], rs) => Source!Push
    BY <1>11 DEF Source!Push
  <2> HIDE DEF rs, x, n
  <2> QED
    BY <1>4, <2>1 DEF Source!Store
<1> HIDE DEF rs, x, n
<1>13. /\ src'.status = src.status /\ src'.at = Source!firstFrom(src.at + 1)
       /\ src'.r = rs /\ src'.mem = Source!loadMem(src.mem, x, src.r[n])
       /\ src'.stdin = src.stdin /\ src'.stdout = src.stdout
  BY <1>3, <1>5, <1>7, <1>9, <1>10, NowFields, SameMachine
<1>14. Source!verified(x, 8) /\ Source!bytesAt(x, 8) \cap Source!code = {}
  BY <1>5, SameMachine
<1>15. Source!Store(x, src.r[n], rs)
  BY <1>13, <1>14 DEF Source!Store, Source!GoOn
<1> QED
  BY <1>9, <1>12, <1>15 DEF Source!Next

LEMMA PopStarts ==
  ASSUME OnLine, SimInv', Observe, UNCHANGED script, Next, Source!c = "pop"
  PROVE  (Source!Next \/ src' = src) /\ Tracked
<1>1. /\ Assembled /\ src.at \in DOMAIN script /\ Source!isInstr(src.at) /\ Running
      /\ src \in SrcStates /\ TypeOK /\ CodeStands(mem) /\ ins = wordOf(src.at, 1)
      /\ src.status = "running" /\ status = "running" /\ fetched /\ pc = Source!startOf(src.at)
      /\ r = src.r /\ mem = src.mem /\ stdin = src.stdin /\ stdout = src.stdout
      /\ src.r \in [0..31 -> Values]
  BY AtItsWord DEF OnLine
<1>2. script[src.at].cmd = "pop" /\ Source!a(1) = script[src.at].args[1]
  BY SourceOperands
<1> DEFINE x == src.r[31]
           n == Source!a(1).n
<1>3. x \in Values /\ x \in Int
  <2>1. src.r \in [0..31 -> Values] /\ 31 \in 0..31
    BY <1>1
  <2> QED
    BY ONLY <2>1, ValuesAreInts
<1>4. ins.op = 16 /\ ins.rd = n /\ ins.rs = 31 /\ sign(ins.imm) = 0
  BY <1>1, <1>2, PopLine
<1>5. cmd = "mov" /\ operand = x
  <2>1. cmd = "mov"
    BY <1>4, Decoded DEF cmd
  <2>2. operand = ull(x + 0)
    BY <1>1, <1>4, <2>1 DEF operand, s, imm
  <2> HIDE DEF x
  <2>3. x + 0 = x
    BY ONLY <1>3
  <2>4. ull(x) = x
    BY ONLY <1>3, UllSame
  <2> QED
    BY <2>1, <2>2, <2>3, <2>4
<1>6. ReadWord \/ Failing(~verified(operand, 8))
  BY <1>1, <1>5, Round
<1>7. Source!Is({"pop"})
  BY <1>1, <1>2 DEF Source!Is
<1>8. CASE Failing(~verified(operand, 8))
  <2>1. simErr /\ ~Source!verified(x, 8)
    BY <1>5, <1>8, SameMachine DEF Failing
  <2>2. src' = [src EXCEPT !.status = "error"] /\ Tracked
    BY <2>1, FailsOnLine
  <2>3. Source!Fail
    BY <1>1, <2>2, SourceFail
  <2>4. Source!Pop
    BY <1>7, <2>1, <2>3 DEF Source!Pop
  <2> QED
    BY <2>2, <2>4 DEF Source!Next
<1>9. CASE ReadWord
  <2>1. /\ verified(x, 8) /\ r' = [src.r EXCEPT ![n] = readMem(src.mem, x)]
        /\ pc' = pc + 4 /\ status' = "running" /\ mem' = mem /\ stdin' = stdin /\ stdout' = stdout
        /\ ~rewritesCode
    BY <1>1, <1>4, <1>5, <1>9, Reading
  <2>2. CodeStands(mem') /\ mem' = src.mem
    BY <1>1, <2>1
  <2>3. 1 \in 1..(cnt(script[src.at].cmd) - 1)
    BY <1>2 DEF cnt
  <2>4. pc' = Source!startOf(src.at) + 4 * 1
    BY <1>1, <2>1
  <2>5. midway(src, 1, r', mem')
    BY <1>2, <2>1, <2>2 DEF midway
  <2>6. src' = src /\ Tracked
    BY <1>1, <2>1, <2>2, <2>3, <2>4, <2>5, StaysInside
  <2> QED
    BY <2>6
<1> QED
  BY <1>6, <1>8, <1>9

LEMMA PopEnds ==
  ASSUME Running, src.at \in DOMAIN script, SimInv', Observe, UNCHANGED script, Next,
         Source!c = "pop", pc = Source!startOf(src.at) + 4 * 1, midway(src, 1, r, mem)
  PROVE  Source!Next /\ Tracked
<1>1. script[src.at].cmd = "pop" /\ Source!a(1) = script[src.at].args[1]
  BY SourceOperands
<1>2. 1 \in 1..(cnt(script[src.at].cmd) - 1) /\ cnt(script[src.at].cmd) = 2
  BY <1>1 DEF cnt
<1>3. /\ Assembled /\ src \in SrcStates /\ src.at \in Source!places /\ Source!isInstr(src.at)
      /\ status = "running" /\ fetched /\ ins = wordOf(src.at, 1 + 1) /\ CodeStands(mem)
      /\ src.status = "running" /\ stdin = src.stdin /\ stdout = src.stdout
      /\ Source!startOf(src.at) \in Nat /\ r \in [0..31 -> Values]
  BY <1>2, AtInnerWord
<1> DEFINE n  == Source!a(1).n
           rs == [src.r EXCEPT ![n] = readMem(src.mem, src.r[31])]
<1>4. verified(src.r[31], 8) /\ r = rs /\ mem = src.mem
  BY <1>1 DEF midway
<1>5. ins.op = 25 /\ ins.rd = 31 /\ ins.imm = 8
  BY <1>1, <1>3, PopLine
<1>6. /\ r' = [r EXCEPT ![31] = result] /\ pc' = pc + 4 /\ result = ull(r[31] + 8)
      /\ status' = "running" /\ mem' = mem /\ stdin' = stdin /\ stdout' = stdout
      /\ ~rewritesCode
  BY <1>2, <1>5, InnerComputes
<1>7. pc' = Source!startOf(src.at) + 4 * cnt(script[src.at].cmd) /\ CodeStands(mem')
  BY <1>2, <1>3, <1>6
<1>8. src' = now("running", Source!firstFrom(src.at + 1)) /\ Tracked
  BY <1>6, <1>7, GoesOn
<1>9. r' = [rs EXCEPT ![31] = Source!ull(rs[31] + 8)]
  BY <1>4, <1>6, SameMachine
<1>10. rs = [src.r EXCEPT ![n] = Source!readMem(src.mem, src.r[31])]
  BY SameMachine
<1>11. /\ src'.status = src.status /\ src'.at = Source!firstFrom(src.at + 1)
       /\ src'.r = r' /\ src'.mem = src.mem
       /\ src'.stdin = src.stdin /\ src'.stdout = src.stdout
  BY <1>3, <1>4, <1>6, <1>8, NowFields
<1>12. Source!Is({"pop"}) /\ Source!verified(src.r[31], 8)
  BY <1>1, <1>3, <1>4, SameMachine DEF Source!Is
<1> HIDE DEF rs
<1>13. src'.r = [[src.r EXCEPT ![n] = Source!readMem(src.mem, src.r[31])]
                   EXCEPT ![31] = Source!ull(@ + 8)]
  BY <1>9, <1>10, <1>11
<1>14. Source!Pop
  BY <1>11, <1>12, <1>13 DEF Source!Pop, Source!GoOn, Source!world
<1> QED
  BY <1>8, <1>14 DEF Source!Next

\* The value that ld builds.
LEMMA LdMeans ==
  ASSUME Assembled, src.at \in DOMAIN script, Source!isInstr(src.at), Source!c = "ld"
  PROVE  LET n == Source!a(1).n
             v == meantBy(script[src.at].args)
         IN /\ n \in 0..31 /\ v \in Values /\ Source!value = v
            /\ clears(wordOf(src.at, 1), n) /\ buildsValue(src.at, n, v)
            /\ cnt(script[src.at].cmd) = 12 /\ Source!a(1) = script[src.at].args[1]
<1>1. /\ Source!c = script[src.at].cmd
      /\ \A n : Source!a(n) = script[src.at].args[n] /\ Source!L(n) = script[src.at].args[n].v
  BY SourceOperands
<1> DEFINE n == Source!a(1).n
           v == meantBy(script[src.at].args)
<1>2. n \in 0..31 /\ v \in Values /\ buildsValue(src.at, n, v)
  BY <1>1, LdLine
<1>3. clears(wordOf(src.at, 1), n)
  BY <1>2 DEF buildsValue
<1>4. Source!value = v
  BY <1>1, SourceValue, SameMachine DEF meantBy
<1>5. cnt(script[src.at].cmd) = 12
  BY <1>1 DEF cnt
<1> QED
  BY <1>1, <1>2, <1>3, <1>4, <1>5

LEMMA LdStarts ==
  ASSUME OnLine, SimInv', Observe, UNCHANGED script, Next, Source!c = "ld"
  PROVE  src' = src /\ Tracked
<1>1. /\ Assembled /\ src.at \in DOMAIN script /\ Source!isInstr(src.at) /\ Running
      /\ TypeOK /\ CodeStands(mem) /\ ins = wordOf(src.at, 1)
      /\ status = "running" /\ fetched /\ pc = Source!startOf(src.at)
      /\ r = src.r /\ mem = src.mem
  BY AtItsWord DEF OnLine
<1> DEFINE n == Source!a(1).n
           v == meantBy(script[src.at].args)
<1>2. /\ v \in Values /\ clears(ins, n) /\ buildsValue(src.at, n, v)
      /\ cnt(script[src.at].cmd) = 12 /\ Source!a(1) = script[src.at].args[1]
      /\ script[src.at].cmd = "ld"
  BY <1>1, LdMeans, SourceOperands
<1>3. cmd = "xor" /\ s = t /\ ins.rd = n
  BY <1>2, Decoded DEF clears, cmd, s, t
<1>4. cmd \in Computing /\ cmd \notin {"addf", "subf", "mulf", "divf"} /\ ~byZero
  BY <1>3 DEF Computing, byZero
<1>5. Compute
  BY <1>1, <1>4, Round DEF Failing
<1>6. /\ r' = [r EXCEPT ![n] = result] /\ pc' = pc + 4
      /\ status' = "running" /\ mem' = mem /\ stdin' = stdin /\ stdout' = stdout
      /\ ~rewritesCode
  BY <1>1, <1>3, <1>4, <1>5, Computed
<1>7. result = partsOf(v)[1]
  <2>1. result = bitXor(s, s)
    BY <1>3, ResultIs
  <2>2. partsOf(v)[1] = 0
    BY <1>2, LdSteps
  <2> QED
    BY <2>1, <2>2, XorSelf
<1>8. midway(src, 1, r', mem')
  BY <1>1, <1>2, <1>6, <1>7 DEF midway
<1>9. 1 \in 1..(cnt(script[src.at].cmd) - 1)
  BY <1>2
<1>10. pc' = Source!startOf(src.at) + 4 * 1 /\ CodeStands(mem')
  BY <1>1, <1>6
<1> QED
  BY <1>1, <1>6, <1>8, <1>9, <1>10, StaysInside

LEMMA LdContinues ==
  ASSUME Running, src.at \in DOMAIN script, SimInv', Observe, UNCHANGED script, Next,
         Source!c = "ld", NEW j \in 1..(cnt(script[src.at].cmd) - 1),
         pc = Source!startOf(src.at) + 4 * j, midway(src, j, r, mem)
  PROVE  (Source!Next \/ src' = src) /\ Tracked
<1>1. /\ Assembled /\ src \in SrcStates /\ src.at \in Source!places /\ Source!isInstr(src.at)
      /\ status = "running" /\ fetched /\ ins = wordOf(src.at, j + 1) /\ CodeStands(mem)
      /\ src.status = "running" /\ stdin = src.stdin /\ stdout = src.stdout
      /\ Source!startOf(src.at) \in Nat /\ src.r \in [0..31 -> Values]
  BY AtInnerWord
<1> DEFINE n    == Source!a(1).n
           v    == meantBy(script[src.at].args)
           p(i) == partsOf(v)[i]
<1>2. /\ n \in 0..31 /\ v \in Values /\ buildsValue(src.at, n, v) /\ Source!value = v
      /\ cnt(script[src.at].cmd) = 12 /\ Source!a(1) = script[src.at].args[1]
      /\ script[src.at].cmd = "ld"
  BY <1>1, LdMeans, SourceOperands
<1>3. r = [src.r EXCEPT ![n] = p(j)] /\ mem = src.mem
  BY <1>2 DEF midway
<1>4. j \in 1..11 /\ j + 1 \in 2..12
  BY <1>2
<1>5. p(12) = v
  BY <1>2, LdSteps
<1>6. \/ ins.op = 25 /\ ins.rd = n /\ p(j + 1) = ull(p(j) + ins.imm)
      \/ ins.op = 7 /\ ins.rd = n /\ p(j + 1) = shiftl(p(j), ins.imm)
  BY <1>1, <1>2, <1>4, LdSteps
<1> HIDE DEF p, v, n
<1>7. r[n] = p(j)
  BY <1>1, <1>2, <1>3
<1>8. /\ r' = [r EXCEPT ![n] = result] /\ pc' = pc + 4
      /\ status' = "running" /\ mem' = mem /\ stdin' = stdin /\ stdout' = stdout
      /\ ~rewritesCode
      /\ ins.op = 7  => result = shiftl(r[n], ins.imm)
      /\ ins.op = 25 => result = ull(r[n] + ins.imm)
  <2>1. ins.rd = n /\ ins.op \in {7, 25, 27}
    BY <1>6
  <2> QED
    BY <2>1, InnerComputes
<1>9. result = p(j + 1)
  BY <1>6, <1>7, <1>8
<1>10. r' = [src.r EXCEPT ![n] = p(j + 1)]
  BY <1>1, <1>3, <1>8, <1>9
<1>11. mem' = src.mem /\ CodeStands(mem') /\ stdin' = src.stdin /\ stdout' = src.stdout
  BY <1>1, <1>3, <1>8
<1>12. pc' = Source!startOf(src.at) + 4 * (j + 1)
  <2>1. pc' = pc + 4
    BY <1>8
  <2> QED
    BY ONLY <1>1, <1>4, <2>1, pc = Source!startOf(src.at) + 4 * j
<1>13. CASE j + 1 \in 1..11
  <2>1. j + 1 \in 1..(cnt(script[src.at].cmd) - 1)
    BY <1>2, <1>13
  <2>2. midway(src, j + 1, r', mem')
    BY <1>2, <1>10, <1>11 DEF midway, p, v, n
  <2>3. src' = src /\ Tracked
    BY <1>8, <1>11, <1>12, <2>1, <2>2, StaysInside
  <2> QED
    BY <2>3
<1>14. CASE j + 1 = 12
  <2>1. pc' = Source!startOf(src.at) + 4 * cnt(script[src.at].cmd)
    BY <1>2, <1>12, <1>14
  <2>2. src' = now("running", Source!firstFrom(src.at + 1)) /\ Tracked
    BY <1>8, <1>11, <2>1, GoesOn
  <2>3. r' = [src.r EXCEPT ![Source!a(1).n] = Source!value]
    BY <1>2, <1>5, <1>10, <1>14 DEF n
  <2>4. Source!toRegister(Assigning) /\ ~(Source!c = "div" /\ Source!R(3) = 0)
    BY <1>1, <1>2 DEF Source!toRegister, Source!Is, Assigning
  <2>5. Source!Assign
    BY <1>1, <1>11, <2>2, <2>3, <2>4, SourceAssign
  <2> QED
    BY <2>2, <2>5 DEF Source!Next
<1>15. j + 1 \in 1..11 \/ j + 1 = 12
  BY <1>4
<1> QED
  BY <1>13, <1>14, <1>15

---------------------------------------------------------------------------
(* Every step *)

LEMMA LineCommands ==
  ASSUME script \in Scripts, src.at \in DOMAIN script, Source!isInstr(src.at)
  PROVE  \/ Source!c \in ComputingLines
         \/ Source!c \in {"br", "brnz", "brgt"}
         \/ Source!c \in {"clr", "mov", "brr", "call", "return", "halt", "in", "out"}
         \/ Source!c \in {"push", "pop", "ld"}
<1>1. Source!c = script[src.at].cmd
  BY SourceOperands
<1>2. script[src.at] \in Entries /\ Meant(Source!c, script[src.at].args)
  BY <1>1, ScriptType DEF Source!isInstr
<1>3. Source!c \in Commands
  BY <1>1, <1>2 DEF Entries
<1>4. Source!c \notin {"priv", "data", "addf", "subf", "mulf", "divf"}
  BY <1>2, Zenon DEF Meant
<1> QED
  BY <1>3, <1>4 DEF Commands, asmOpcode, ComputingLines

LEMMA LineStep ==
  ASSUME OnLine, SimInv', Observe, UNCHANGED script, Next
  PROVE  (Source!Next \/ src' = src) /\ Tracked
<1>1. script \in Scripts /\ src.at \in DOMAIN script /\ Source!isInstr(src.at)
  BY AtItsWord
<1>2. CASE Source!c \in ComputingLines
  BY <1>2, ComputingStep
<1>3. CASE Source!c \in {"br", "brnz", "brgt"}
  BY <1>3, BranchingStep
<1>4. CASE Source!c \in {"clr", "mov", "brr", "call"}
  BY <1>4, ClrStep, MovStep, BrrStep, CallLineStep
<1>5. CASE Source!c \in {"return", "halt", "in", "out"}
  BY <1>5, ReturnLineStep, HaltLineStep, InStep, OutStep
<1>6. CASE Source!c \in {"push", "pop", "ld"}
  BY <1>6, PushStarts, PopStarts, LdStarts
<1> QED
  BY <1>1, <1>2, <1>3, <1>4, <1>5, <1>6, LineCommands

LEMMA MacroStep ==
  ASSUME Running, inMacro(src, pc, r, mem), SimInv', Observe, UNCHANGED script, Next
  PROVE  (Source!Next \/ src' = src) /\ Tracked
<1>1. src.at \in DOMAIN script
  BY DEF inMacro
<1>2. PICK j \in 1..(cnt(script[src.at].cmd) - 1) :
        pc = Source!startOf(src.at) + 4 * j /\ midway(src, j, r, mem)
  BY DEF inMacro
<1>3. Source!c = script[src.at].cmd
  BY SourceOperands
<1>4. Source!c \in {"push", "pop", "ld"}
  BY <1>2, <1>3 DEF midway
<1>5. Source!c \in {"push", "pop"} => j = 1
  BY <1>2, <1>3 DEF cnt
<1>6. CASE Source!c = "push"
  BY <1>1, <1>2, <1>5, <1>6, PushEnds
<1>7. CASE Source!c = "pop"
  BY <1>1, <1>2, <1>5, <1>7, PopEnds
<1>8. CASE Source!c = "ld"
  BY <1>1, <1>2, <1>8, LdContinues
<1> QED
  BY <1>4, <1>6, <1>7, <1>8

LEMMA RunningStep ==
  ASSUME Running, SimInv', Observe, UNCHANGED script, Next
  PROVE  (Source!Next \/ src' = src) /\ Tracked
<1>1. /\ src.status = "running" /\ src \in SrcStates /\ script \in Scripts
      /\ atLine(src, pc, r, mem) \/ inMacro(src, pc, r, mem)
  BY DEF Running, tracks, Assembled
<1>2. CASE src.at \notin DOMAIN script
  <2>1. src' = [src EXCEPT !.status = "wild"] /\ Tracked
    BY <1>2, GoesWild DEF ranOut
  <2>2. Source!Wild
    BY <1>1, <2>1, SourceWild
  <2>3. src.at = Len(script) + 1
    BY <1>1, <1>2 DEF SrcStates, Source!places
  <2>4. Source!RunOut
    BY <1>1, <2>2, <2>3 DEF Source!RunOut
  <2> QED
    BY <2>1, <2>4 DEF Source!Next
<1>3. CASE src.at \in DOMAIN script /\ atLine(src, pc, r, mem)
  BY <1>3, LineStep DEF OnLine
<1>4. CASE inMacro(src, pc, r, mem)
  BY <1>4, MacroStep
<1> QED
  BY <1>1, <1>2, <1>3, <1>4

---------------------------------------------------------------------------
(* The script stays as it is *)

\* What is said of the script alone stays so.
LEMMA Unmoved ==
  ASSUME UNCHANGED script
  PROVE  /\ Source!places' = Source!places /\ Source!code' = Source!code
         /\ built' = built /\ (Target!isImage(built))' = Target!isImage(built)
         /\ \A k : Source!startOf(k)' = Source!startOf(k)
         /\ \A l : Source!addressOf(l)' = Source!addressOf(l)
<1>1. Source!places' = Source!places
  BY DEF Source!places, Source!isInstr
<1>2. Source!code' = Source!code
  BY DEF Source!code, Source!startOf, Source!wordsBefore, Source!isInstr
<1>3. \A k : Source!startOf(k)' = Source!startOf(k)
  BY DEF Source!startOf, Source!wordsBefore, Source!isInstr
<1>4. Target!meaning' = Target!meaning
  BY DEF Target!meaning, Target!names, Target!itemsOf, Target!next, Target!written, Target!isItem,
     Target!address, Target!dataUpTo, Target!codeUpTo, Target!words
<1>5. built' = built
  BY <1>4 DEF built
<1>6. \A l : Source!addressOf(l)' = Source!addressOf(l)
  BY DEF Source!addressOf, Source!datumAt, Source!dataBefore, Source!startOf, Source!wordsBefore,
     Source!isInstr
<1>7. (Target!isImage(built))' = Target!isImage(built)
  BY <1>4, <1>5 DEF Target!isImage, Target!dataUpTo, Target!codeUpTo, Target!words
<1> QED
  BY <1>1, <1>2, <1>3, <1>5, <1>6, <1>7

LEMMA AssembledStays ==
  ASSUME Assembled, UNCHANGED <<script, file>>
  PROVE  Assembled'
  BY Unmoved DEF Assembled

\* The agreement, said of values.
Agrees == \E x, st, p, rr, m, i, o :
            /\ x = src /\ st = status /\ p = pc /\ rr = r /\ m = mem /\ i = stdin /\ o = stdout
            /\ tracks(x, st, p, rr, m, i, o)

LEMMA TracksStays ==
  ASSUME UNCHANGED script, NEW x, NEW st, NEW p, NEW rr, NEW m, NEW i, NEW o,
         tracks(x, st, p, rr, m, i, o)
  PROVE  tracks(x, st, p, rr, m, i, o)'
<1>1. SrcStates' = SrcStates
  BY Unmoved DEF SrcStates
<1>2. \A y : CodeStands(y)' = CodeStands(y)
  BY Unmoved DEF CodeStands, wordAt
<1>3. \A y, q, f, g : atLine(y, q, f, g)' = atLine(y, q, f, g)
  BY Unmoved DEF atLine
<1>4. \A y, j, f, g : midway(y, j, f, g)' = midway(y, j, f, g)
  BY Unmoved DEF midway, meantBy
<1>5. \A y, q, f, g : inMacro(y, q, f, g)' = inMacro(y, q, f, g)
  BY <1>4, Unmoved DEF inMacro
<1> QED
  BY <1>1, <1>2, <1>3, <1>5 DEF tracks

---------------------------------------------------------------------------
(* The invariant *)

\* Before the image is loaded src is what the load will make of the machine.
Waiting == src.status = "ready" =>
             /\ status = "start" /\ src.at = Source!firstFrom(1)
             /\ src.r = [r EXCEPT ![31] = MEM_SIZE] /\ src.mem = loaded(file)
             /\ src.stdin = stdin /\ src.stdout = stdout

ToolInv == Assembled /\ SimInv /\ Waiting /\ Agrees

Lines == \A f : \A ls \in Stdins(f) : ls \in Seq(Line)

LEMMA FileStays == Next => file' = file
<1>1. Starting => file' = file
  BY DEF Starting, NoFile, Load, LoadOverrun, simErr, files
<1>2. BadFetch \/ BadOpcode \/ Compute \/ DivideByZero => file' = file
  BY DEF BadFetch, BadOpcode, Compute, DivideByZero, simErr, files
<1>3. Moving => file' = file
  BY DEF Moving, ReadWord, WriteWord, BadAddress, simErr, files
<1>4. Branching => file' = file
  BY DEF Branching, Branch, Jump, BranchRelative, Call, BadCall, Return, simErr, files
<1>5. Private => file' = file
  BY DEF Private, Halt, Input, BadInput, Output, BadPriv, simErr, files
<1>6. Ended => file' = file
  BY DEF Ended, vars, files
<1> QED
  BY <1>1, <1>2, <1>3, <1>4, <1>5, <1>6 DEF Next

LEMMA AgreesHere == Agrees => tracks(src, status, pc, r, mem, stdin, stdout)
  BY DEF Agrees

LEMMA AgreesThen ==
  ASSUME UNCHANGED script, Tracked
  PROVE  Agrees'
<1>1. PICK x, st, p, rr, m, i, o :
        /\ x = src' /\ st = status' /\ p = pc' /\ rr = r' /\ m = mem' /\ i = stdin' /\ o = stdout'
        /\ tracks(x, st, p, rr, m, i, o)
  BY DEF Tracked
<1>2. tracks(x, st, p, rr, m, i, o)'
  BY <1>1, TracksStays
<1> QED
  BY <1>1, <1>2 DEF Agrees

LEMMA FirstPlace ==
  ASSUME script \in Scripts
  PROVE  Source!firstFrom(1) \in Source!places /\ Source!startOf(Source!firstFrom(1)) = CODE_BASE
<1>1. 1 \in 1..(Len(script) + 1) /\ 1 \in Nat \ {0}
  BY ScriptType
<1>2. Source!startOf(1) = CODE_BASE
  <2>1. Source!startOf(1) = CODE_BASE + 4 * Target!codeUpTo(1 - 1) /\ Target!codeUpTo(0) = 0
    BY <1>1, Starts, CodeSums
  <2> QED
    BY <2>1, Bases
<1> QED
  BY <1>1, <1>2, FirstFrom

LEMMA ToolStarts ==
  ASSUME stdin \in Seq(Line), ToolInit
  PROVE  ToolInv /\ Source!Init
<1>1. Assembled /\ script \in Scripts
  <2>1. script \in Scripts /\ \E its \in {built} :
          Target!isImage(its) /\ hasRoom(its) /\ file = imageOf(its)
    BY DEF ToolInit, built
  <2> QED
    BY <2>1 DEF Assembled
<1>2. Idle /\ src = [status |-> "ready", at |-> Source!firstFrom(1), r |-> [r EXCEPT ![31] = MEM_SIZE],
                     mem |-> loaded(file), stdin |-> stdin, stdout |-> <<>>]
  BY DEF ToolInit
<1>3. /\ status = "start" /\ stdin \in Seq(Line) /\ stdout = <<>>
      /\ r = [n \in 0..(NREGS - 1) |-> 0]
  BY <1>2 DEF Idle
<1>4. /\ src.status = "ready" /\ src.at = Source!firstFrom(1) /\ src.r = [r EXCEPT ![31] = MEM_SIZE]
      /\ src.mem = loaded(file) /\ src.stdin = stdin /\ src.stdout = stdout
  BY <1>2, <1>3
<1>5. /\ ImageTyped
      /\ \A k \in DOMAIN script : script[k].type = 1 =>
           readMem(loaded(file), Source!datumAt(k)) = script[k].val
      /\ \A x \in Addresses \ (Source!code \cup Source!dataAddresses) : loaded(file)[x] = 0
  BY <1>1, LoadedImage
<1>6. SimInv
  BY <1>2, <1>3, <1>5, SimIdle
<1>7. Waiting
  BY <1>3, <1>4 DEF Waiting
<1>8. src \in SrcStates
  <2>1. [r EXCEPT ![31] = MEM_SIZE] \in [0..31 -> Values]
    <3>1. MEM_SIZE \in Values
      BY Sizes DEF Values
    <3>2. r \in [0..31 -> Values]
      BY <1>6, RegisterType DEF SimInv
    <3> QED
      BY <3>1, <3>2
  <2>2. loaded(file) \in [Addresses -> Byte]
    <3>1. /\ file.entry \in Addresses /\ file.at \in Addresses
          /\ file.code \in Seq(Byte) /\ file.data \in Seq(Byte)
      BY <1>5 DEF ImageTyped
    <3>2. [a \in Addresses |-> 0] \in [Addresses -> Byte]
      BY DEF Byte
    <3> DEFINE m == placed([a \in Addresses |-> 0], file.entry, file.code)
    <3>3. m \in [Addresses -> Byte]
      BY <3>1, <3>2, PlacedType
    <3> HIDE DEF m
    <3>4. placed(m, file.at, file.data) \in [Addresses -> Byte]
      BY <3>1, <3>3, PlacedType
    <3> QED
      BY <3>4 DEF loaded, m
  <2>3. Source!firstFrom(1) \in Source!places
    BY <1>1, FirstPlace
  <2>4. <<>> \in Seq([k : {"number", "char"}, v : Values])
    OBVIOUS
  <2> QED
    BY <1>2, <1>3, <2>1, <2>2, <2>3, <2>4 DEF SrcStates
<1>9. tracks(src, status, pc, r, mem, stdin, stdout)
  BY <1>4, <1>8 DEF tracks
<1>10. Agrees
  BY <1>9 DEF Agrees
<1>11. Source!Init
  <2>1. src.r = [n \in 0..(NREGS - 1) |-> IF n = 31 THEN MEM_SIZE ELSE 0]
    BY <1>3, <1>4 DEF NREGS
  <2>2. \A x \in Addresses \ (Source!code \cup Source!dataAddresses) : src.mem[x] = 0
    BY <1>4, <1>5
  <2>3. \A n \in DOMAIN script : script[n].type = 1 =>
          Source!readMem(src.mem, Source!datumAt(n)) = script[n].val
    BY <1>4, <1>5, SameMachine
  <2>4. Source!Addresses = Addresses /\ Source!NREGS = NREGS
    BY DEF Source!Addresses, Addresses, Source!NREGS, NREGS
  <2> QED
    BY <1>3, <1>4, <2>1, <2>2, <2>3, <2>4 DEF Source!Init
<1> QED
  BY <1>1, <1>6, <1>7, <1>10, <1>11 DEF ToolInv

\* The image is loaded, or its file does not open.
LEMMA ReadyStep ==
  ASSUME ToolInv, src.status = "ready", SimInv', Next, Observe, UNCHANGED script
  PROVE  Source!Next /\ Tracked
<1>1. /\ Assembled /\ script \in Scripts /\ status = "start" /\ src.at = Source!firstFrom(1)
      /\ src.r = [r EXCEPT ![31] = MEM_SIZE] /\ src.mem = loaded(file)
      /\ src.stdin = stdin /\ src.stdout = stdout /\ src \in SrcStates
  <2>1. tracks(src, status, pc, r, mem, stdin, stdout)
    BY AgreesHere DEF ToolInv
  <2> QED
    BY <2>1 DEF ToolInv, Waiting, Assembled, tracks
<1>2. src' = [src EXCEPT !.status = status']
  BY DEF Observe
<1>3. /\ src'.status = status' /\ src'.at = src.at /\ src'.r = src.r /\ src'.mem = src.mem
      /\ src'.stdin = src.stdin /\ src'.stdout = src.stdout
  <2>1. src' = [status |-> status', at |-> src.at, r |-> src.r, mem |-> src.mem,
                stdin |-> src.stdin, stdout |-> src.stdout]
    BY <1>1, <1>2, SrcFields
  <2> QED
    BY ONLY <2>1
<1>4. NoFile \/ Load
  <2>1. fits(file.entry, file.code) /\ fits(file.at, file.data)
    BY <1>1, LoadedImage
  <2>2. ~LoadOverrun /\ status # "running" /\ ~Ended
    BY <1>1, <2>1 DEF LoadOverrun, Ended
  <2> QED
    BY <2>2 DEF Next, Starting, BadFetch, BadOpcode, Compute, DivideByZero, Moving, ReadWord,
        WriteWord, BadAddress, Branching, Branch, BranchRelative, Call, BadCall, Return, Private,
        Halt, Input, BadInput, Output, BadPriv, Runs
<1>5. status' \in {"running", "error"}
  BY <1>4 DEF NoFile, Load, simErr
<1>6. src' \in SrcStates
  BY <1>1, <1>3, <1>5, <1>2 DEF SrcStates
<1>7. Source!Next
  BY <1>3, <1>5, src.status = "ready" DEF Source!Next, Source!Start, Source!world
<1>8. CASE NoFile
  <2>1. src'.status # "running"
    BY <1>3, <1>8 DEF NoFile, simErr
  <2> QED
    BY <1>6, <1>7, <2>1 DEF Tracked, tracks
<1>9. CASE Load
  <2>1. /\ status' = "running" /\ pc' = file.entry /\ mem' = loaded(file)
        /\ r' = [r EXCEPT ![31] = MEM_SIZE] /\ stdin' = stdin /\ stdout' = stdout
    BY <1>9 DEF Load, files
  <2>2. CodeStands(mem') /\ pc' = CODE_BASE
    BY <1>1, <2>1, LoadedImage
  <2>3. pc' = Source!startOf(src'.at)
    BY <1>1, <1>3, <2>2, FirstPlace
  <2>4. atLine(src', pc', r', mem')
    BY <1>1, <1>3, <2>1, <2>3 DEF atLine
  <2> QED
    BY <1>1, <1>3, <1>6, <1>7, <2>1, <2>2, <2>4 DEF Tracked, tracks
<1> QED
  BY <1>4, <1>8, <1>9

LEMMA ToolStep ==
  ASSUME ToolInv, ToolNext
  PROVE  ToolInv' /\ (Source!Next \/ UNCHANGED Source!vars)
<1>1. /\ Assembled /\ SimInv /\ src.status # "wild" /\ Next /\ Observe /\ UNCHANGED script
      /\ tracks(src, status, pc, r, mem, stdin, stdout)
  BY AgreesHere DEF ToolInv, ToolNext
<1>2. SimInv' /\ Assembled'
  <2>1. SimInv'
    BY <1>1, SimStep
  <2> QED
    BY <1>1, <2>1, FileStays, AssembledStays
<1>3. src' = src => UNCHANGED Source!vars
  BY <1>1 DEF Source!vars, Source!world
<1>4. CASE src.status = "ready"
  <2>1. Source!Next /\ Tracked
    BY <1>1, <1>2, <1>4, ReadyStep
  <2>2. src'.status # "ready"
    <3>1. src'.status \in {"running", "error"}
      BY <1>4, <2>1 DEF Source!Next, Source!Start, Source!RunOut, Source!Is, Source!Assign,
         Source!DivideByZero, Source!toRegister, Source!MovToMemory, Source!Push,
         Source!MovFromMemory, Source!Pop, Source!Branch, Source!BranchRelative, Source!Call,
         Source!Return, Source!In, Source!Out, Source!Halt
    <3> QED
      BY <3>1
  <2>3. Agrees' /\ Waiting'
    BY <1>1, <2>1, <2>2, AgreesThen DEF Waiting
  <2> QED
    BY <1>2, <2>1, <2>3 DEF ToolInv
<1>5. CASE src.status = "running"
  <2>1. Running
    BY <1>1, <1>5 DEF Running
  <2>2. (Source!Next \/ src' = src) /\ Tracked
    BY <1>1, <1>2, <2>1, RunningStep
  <2>3. src'.status # "ready"
    <3>1. src \in SrcStates
      BY <1>1 DEF tracks
    <3>2. CASE src' = [src EXCEPT !.status = "wild"]
      BY <3>1, <3>2, WildTyped
    <3>3. ASSUME NEW st, NEW k, src' = now(st, k), st # "ready" PROVE src'.status # "ready"
      BY <3>3, NowFields
    <3>4. CASE src' = [now("wild", src.at) EXCEPT !.r = src.r]
      BY <3>4 DEF now
    <3>5. CASE src' = src
      BY <1>5, <3>5
    <3> QED
      BY <1>1, <1>5, <3>2, <3>3, <3>4, <3>5 DEF Observe
  <2>4. Agrees' /\ Waiting'
    BY <1>1, <2>2, <2>3, AgreesThen DEF Waiting
  <2> QED
    BY <1>2, <1>3, <2>2, <2>4 DEF ToolInv
<1>6. CASE src.status \in {"halted", "error"}
  <2>1. src' = src
    BY <1>1, <1>6 DEF Observe
  <2>2. src' \in SrcStates /\ src'.status # "running" /\ src'.status # "ready"
    BY <1>1, <1>6, <2>1 DEF tracks
  <2>3. Tracked
    BY <2>2 DEF Tracked, tracks
  <2>4. Agrees' /\ Waiting'
    BY <1>1, <2>2, <2>3, AgreesThen DEF Waiting
  <2> QED
    BY <1>2, <1>3, <2>1, <2>4 DEF ToolInv
<1>7. src.status \in {"ready", "running", "halted", "error", "wild"}
  BY <1>1 DEF tracks, SrcStates
<1> QED
  BY <1>1, <1>4, <1>5, <1>6, <1>7

LEMMA ToolStutters ==
  ASSUME ToolInv, UNCHANGED toolVars
  PROVE  ToolInv' /\ UNCHANGED Source!vars
<1>1. /\ UNCHANGED script /\ src' = src /\ file' = file /\ UNCHANGED vars
      /\ UNCHANGED <<status, pc, r, mem, stdin, stdout>>
  BY DEF toolVars, vars, files, machine
<1>2. SimInv' /\ Assembled'
  BY <1>1, SimStep, AssembledStays DEF ToolInv
<1>3. tracks(src, status, pc, r, mem, stdin, stdout)
  BY AgreesHere DEF ToolInv
<1>4. Tracked
  BY <1>1, <1>3 DEF Tracked
<1>5. Agrees'
  BY <1>1, <1>4, AgreesThen
<1>6. Waiting'
  <2>1. Source!firstFrom(1)' = Source!firstFrom(1)
    BY <1>1, Unmoved DEF Source!firstFrom
  <2>2. loaded(file)' = loaded(file)
    BY <1>1 DEF loaded
  <2> QED
    BY <1>1, <2>1, <2>2 DEF Waiting, ToolInv
<1> QED
  BY <1>1, <1>2, <1>5, <1>6 DEF ToolInv, Source!vars, Source!world

---------------------------------------------------------------------------
(* The only image *)

\* A macro has one rewriting at most, and what it is rewritten to one reading.
LEMMA OneRewriting ==
  ASSUME Assembled, NEW c, NEW args, c \in {"in", "out"} => Len(args) >= 2
  PROVE  /\ \A x, y \in expandMacro(c, args, table) : x = y
         /\ \A q : \A a, b \in replaceLabel(q, table) : a = b
<1>1. \A l : \A v, w \in getintAddress(l, table) : v = w
  BY LabelMeans
<1>2. \A i : \A m, n \in registerOf(args, i) : m = n
  BY DEF registerOf
<1>3. \A v, w \in ldValue(args, table) : v = w
  BY <1>1 DEF ldValue
<1>4. \A x, y \in expandMacro(c, args, table) : x = y
  <2>1. CASE c \in {"in", "out"}
    <3>1. looseRegister(args, 1) = registerOf(args, 1) /\ looseRegister(args, 2) = registerOf(args, 2)
      <4> HIDE DEF registerOf
      <4>1. Len(args) >= 2
        BY <2>1
      <4>2. 1 <= Len(args) /\ 2 <= Len(args)
        BY <4>1
      <4> QED
        BY <4>2 DEF looseRegister
    <3> QED
      BY <1>2, <2>1, <3>1 DEF expandMacro
  <2>2. CASE c \notin {"in", "out"}
    BY <1>2, <1>3, <2>2 DEF expandMacro
  <2> QED
    BY <2>1, <2>2
<1>5. \A q : \A a, b \in replaceLabel(q, table) : a = b
  BY <1>1 DEF replaceLabel
<1> QED
  BY <1>4, <1>5

\* A script has one image: the macros leave the assembler no choice, every label has one
\* address, and every word of the code and every datum belongs to one line.  So what
\* Toolchain loads is what any program that implements AsmSpec writes.
THEOREM OnlyImage ==
  ASSUME Assembled, NEW code \in Seq(Word), NEW data \in Seq(Values),
         Target!isImage([code |-> code, data |-> data])
  PROVE  built = [code |-> code, data |-> data]
<1> DEFINE N == Len(script)
           img == [code |-> code, data |-> data]
<1>1. N \in Nat /\ DOMAIN script = 1..N
  BY ScriptType DEF Assembled
<1>2. /\ built.code \in Seq(Word) /\ Len(built.code) = Target!codeUpTo(N)
      /\ built.data \in Seq(Values) /\ Len(built.data) = Target!dataUpTo(N)
      /\ Target!codeUpTo(N) \in Nat /\ Target!dataUpTo(N) \in Nat
  BY BuiltSections
<1>3. Len(code) = Target!codeUpTo(N) /\ Len(data) = Target!dataUpTo(N)
  BY DEF Target!isImage
<1>4. ASSUME NEW k \in DOMAIN script, Source!isInstr(k), NEW n \in 1..cnt(script[k].cmd)
      PROVE  code[Target!codeUpTo(k - 1) + n] = wordOf(k, n)
  <2>1. PICK x \in expandMacro(script[k].cmd, script[k].args, table) :
          /\ Len(x) = cnt(script[k].cmd) /\ DOMAIN x = 1..Len(x)
          /\ \A j \in DOMAIN x : \E a \in replaceLabel(x[j].args, table) :
               getInstruction(x[j].cmd, a) = Encoded(wordOf(k, j))
    BY <1>4, WordsOf
  <2>2. PICK y \in expandMacro(script[k].cmd, script[k].args, table) :
          /\ Len(y) = cnt(script[k].cmd) /\ DOMAIN y = 1..Len(y)
          /\ \A j \in DOMAIN y : \E a \in replaceLabel(y[j].args, table) :
               getInstruction(y[j].cmd, a) = Encoded(code[Target!codeUpTo(k - 1) + j])
    <3>1. img.code = code
      OBVIOUS
    <3> HIDE DEF img
    <3> QED
      BY <1>4, <3>1, LinesWords DEF img, Assembled
  <2>3. script[k].cmd \in {"in", "out"} => Len(script[k].args) >= 2
    BY <1>4, ScriptType DEF Assembled, Source!isInstr, Meant
  <2>4. x = y
    BY <2>1, <2>2, <2>3, OneRewriting
  <2>5. n \in DOMAIN x
    BY <2>1
  <2>6. PICK a \in replaceLabel(x[n].args, table) :
          getInstruction(x[n].cmd, a) = Encoded(wordOf(k, n))
    BY <2>1, <2>5
  <2>7. PICK b \in replaceLabel(x[n].args, table) :
          getInstruction(x[n].cmd, b) = Encoded(code[Target!codeUpTo(k - 1) + n])
    BY <2>2, <2>4, <2>5
  <2>8. a = b
    BY <2>3, OneRewriting
  <2> QED
    BY <2>6, <2>7, <2>8 DEF Encoded
<1>5. ASSUME NEW p \in 1..Target!codeUpTo(N) PROVE code[p] = built.code[p]
  <2> DEFINE S == {j \in 0..N : p <= Target!codeUpTo(j)}
  <2>1. PICK k \in S : \A j \in S : k <= j
    <3>1. N \in S
      BY <1>1, <1>5
    <3>2. S \in SUBSET Nat
      BY <1>1
    <3> QED
      BY <3>1, <3>2, Least
  <2>2. k \in 1..N /\ k - 1 \in 0..N /\ (k - 1) + 1 = k /\ k - 1 \in Nat
    <3>1. k # 0
      BY <1>2, <1>5, <2>1, CodeSums
    <3> QED
      BY <1>1, <2>1, <3>1
  <2>3. k - 1 \notin S
    BY <2>1, <2>2
  <2>4. /\ Target!codeUpTo(k - 1) \in Nat /\ Target!words(k) \in {0, 1, 2, 12}
        /\ Target!codeUpTo(k) = Target!codeUpTo(k - 1) + Target!words(k)
    <3>1. k \in Nat
      BY <2>2
    <3>2. Target!words(k) \in {0, 1, 2, 12}
      BY <3>1, CodeSums
    <3>3. /\ Target!codeUpTo(k - 1) \in Nat
          /\ Target!codeUpTo((k - 1) + 1) = Target!codeUpTo(k - 1) + Target!words((k - 1) + 1)
      BY <2>2, CodeSums
    <3> QED
      BY <2>2, <3>2, <3>3
  <2>5. Target!codeUpTo(k - 1) < p /\ p <= Target!codeUpTo(k)
    BY <1>2, <2>1, <2>2, <2>3, <2>4
  <2> DEFINE n == p - Target!codeUpTo(k - 1)
  <2>6. n \in 1..Target!words(k) /\ Target!codeUpTo(k - 1) + n = p
    BY <1>2, <2>4, <2>5
  <2>7. Source!isInstr(k) /\ Target!words(k) = cnt(script[k].cmd)
    BY <2>6, SameSizes DEF Target!words, Source!isInstr
  <2> QED
    BY <1>1, <1>4, <2>2, <2>6, <2>7 DEF wordOf
<1>6. ASSUME NEW g \in 1..Target!dataUpTo(N) PROVE data[g] = built.data[g]
  <2> DEFINE S == {j \in 0..N : g <= Target!dataUpTo(j)}
  <2>1. PICK k \in S : \A j \in S : k <= j
    <3>1. N \in S
      BY <1>1, <1>6
    <3>2. S \in SUBSET Nat
      BY <1>1
    <3> QED
      BY <3>1, <3>2, Least
  <2>2. k \in 1..N /\ k - 1 \in 0..N /\ (k - 1) + 1 = k /\ k - 1 \in Nat
    <3>1. k # 0
      BY <1>2, <1>6, <2>1, DataSums
    <3> QED
      BY <1>1, <2>1, <3>1
  <2>3. k - 1 \notin S
    BY <2>1, <2>2
  <2>4. /\ Target!dataUpTo(k - 1) \in Nat
        /\ Target!dataUpTo(k) = Target!dataUpTo(k - 1) + (IF script[k].type = 1 THEN 1 ELSE 0)
    BY <2>2, DataSums
  <2>5. script[k].type = 1 /\ Target!dataUpTo(k) = g
    BY <1>2, <2>1, <2>2, <2>3, <2>4
  <2>6. data[g] = script[k].val /\ built.data[g] = script[k].val
    BY <1>1, <2>2, <2>5 DEF Assembled, Target!isImage
  <2> QED
    BY <2>6
<1>7. code = built.code /\ data = built.data
  BY <1>2, <1>3, <1>5, <1>6
<1> QED
  BY <1>7 DEF built, items

---------------------------------------------------------------------------
\* Every script of Scripts that assembles and has room, assembled and simulated, executes
\* its lines one after the other, whatever it reads: no line of the script has another
\* effect on registers, memory, input and output than the one its author wrote.
THEOREM ScriptsRun ==
  ASSUME Lines
  PROVE  ToolSpec => RunsTheScript
<1>1. ToolInit => ToolInv /\ Source!Init
  <2>1. ToolInit => stdin \in Seq(Line)
    BY DEF ToolInit, Idle, Lines
  <2> QED
    BY <2>1, ToolStarts
<1>2. ToolInv /\ [ToolNext]_toolVars => ToolInv' /\ [Source!Next]_(Source!vars)
  BY ToolStep, ToolStutters
<1> QED
  BY <1>1, <1>2, PTL DEF ToolSpec, RunsTheScript, Source!Spec
=============================================================================
