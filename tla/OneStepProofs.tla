---------------------------- MODULE OneStepProofs ----------------------------
(***************************************************************************)
(* Two passes, a buffer of labels and a table do what AsmSpec does in one  *)
(* step: the assembler refines its specification, for every script.  And   *)
(* the twelve instructions of ld leave the number of its operand, for every*)
(* width the chunks cover, wherever they stand in the script.              *)
(***************************************************************************)
EXTENDS ImageProofs, CommonProofs

---------------------------------------------------------------------------
(* Prefix sums *)

\* The specification's own copy of Cardinality.
LEMMA SameCardinality == \A S : Abs!Cardinality(S) = Cardinality(S)
  BY DEF Abs!Cardinality, Cardinality

\* The words of an entry, as the specification counts them.
LEMMA WordsOf ==
  ASSUME NEW k
  PROVE  /\ Abs!words(k) \in 0..12
         /\ codeBytes(entries[k]) = 4 * Abs!words(k)
<1>1. Abs!cnt(entries[k].cmd) = cnt(entries[k].cmd)
  BY DEF Abs!cnt, cnt
<1>2. cnt(entries[k].cmd) \in {1, 2, 12}
  BY DEF cnt
<1> QED
  BY <1>1, <1>2 DEF Abs!words, codeBytes

\* A prefix sum of words grows by the words of the entry that is added.
LEMMA CodeCount ==
  /\ Abs!codeUpTo(0) = 0
  /\ \A n \in Nat : /\ Abs!codeUpTo(n) \in Nat
                    /\ Abs!codeUpTo(n + 1) = Abs!codeUpTo(n) + Abs!words(n + 1)
<1> DEFINE w == [k \in Nat |-> Abs!words(k)]
<1>1. \A k \in Nat : w[k] = Abs!words(k) /\ w[k] \in 0..12
  BY WordsOf
<1>2. \A n \in Nat : UNION {{k} \X (1..Abs!words(k)) : k \in 1..n} = wordsUpTo(w, n)
  <2> HIDE DEF w
  <2> QED
    BY <1>1 DEF wordsUpTo
<1>3. \A n \in Nat : Abs!codeUpTo(n) = Cardinality(wordsUpTo(w, n))
  BY <1>2, SameCardinality, Zenon DEF Abs!codeUpTo
<1> HIDE DEF w
<1>4. \A n \in Nat : n + 1 \in Nat
  OBVIOUS
<1> QED
  BY <1>1, <1>3, <1>4, WordsUpTo

\* A prefix count of data grows by one at a datum.
LEMMA DataCount ==
  /\ Abs!dataUpTo(0) = 0
  /\ \A n \in Nat : /\ Abs!dataUpTo(n) \in Nat
                    /\ 8 * Abs!dataUpTo(n + 1) = 8 * Abs!dataUpTo(n) + dataBytes(entries[n + 1])
<1> DEFINE D == {k \in Nat : entries[k].type = 1}
<1>1. \A n \in Nat : Abs!dataUpTo(n) = countUpTo(D, n)
  <2>1. \A n \in Nat : {k \in 1..n : entries[k].type = 1} = {k \in 1..n : k \in D}
    OBVIOUS
  <2> QED
    BY <2>1, SameCardinality, Zenon DEF Abs!dataUpTo, countUpTo
<1>2. \A n \in Nat : n + 1 \in Nat /\ (n + 1 \in D <=> entries[n + 1].type = 1)
  OBVIOUS
<1> HIDE DEF D
<1>3. \A n \in Nat : dataBytes(entries[n + 1]) = IF n + 1 \in D THEN 8 ELSE 0
  BY <1>2 DEF dataBytes
<1> QED
  BY <1>1, <1>2, <1>3, CountUpTo

\* The sums of the first pass are the prefix sums: by induction over the entries, of
\* which the first one that were wrong would follow one that is right.
LEMMA PassOneCounts ==
  ASSUME TypeOK, PassOne
  PROVE  Counted
<1> DEFINE right(k) == before[k] = [code |-> 4 * Abs!codeUpTo(k - 1),
                                    data |-> 8 * Abs!dataUpTo(k - 1)]
           wrong == {k \in DOMAIN before : ~right(k)}
<1>1. before \in Seq(Sizes) /\ DOMAIN before = 1..Len(before) /\ Len(before) \in Nat
  BY DEF TypeOK
<1>2. SUFFICES ASSUME wrong # {} PROVE FALSE
  BY DEF Counted
<1>3. PICK k \in wrong : \A m \in wrong : k <= m
  <2>1. wrong \in SUBSET Nat
    BY <1>1
  <2> HIDE DEF wrong
  <2> QED
    BY <1>2, <2>1, Least
<1>4. k \in 1..Len(before) /\ ~right(k)
  BY <1>1, <1>3
<1>5. k # 1
  <2>1. before[1] = [code |-> 0, data |-> 0]
    BY DEF PassOne
  <2>2. Abs!codeUpTo(0) = 0 /\ Abs!dataUpTo(0) = 0
    BY CodeCount, DataCount
  <2>3. right(1)
    BY <2>1, <2>2
  <2> QED
    BY <1>4, <2>3
<1>6. PICK m \in 1..(Len(before) - 1) : k = m + 1
  BY <1>1, <1>4, <1>5
<1>7. right(m)
  BY <1>1, <1>3, <1>6
<1>8. before[m + 1] = [code |-> before[m].code + codeBytes(entries[m]),
                       data |-> before[m].data + dataBytes(entries[m])]
  BY <1>6 DEF PassOne
<1>9. before[m].code = 4 * Abs!codeUpTo(m - 1) /\ before[m].data = 8 * Abs!dataUpTo(m - 1)
  BY <1>7
<1>10. PICK n \in Nat : m = n + 1 /\ m - 1 = n
  BY <1>1, <1>6
<1>11. /\ 4 * Abs!codeUpTo(n + 1) = 4 * Abs!codeUpTo(n) + codeBytes(entries[n + 1])
       /\ 8 * Abs!dataUpTo(n + 1) = 8 * Abs!dataUpTo(n) + dataBytes(entries[n + 1])
  <2>1. /\ Abs!codeUpTo(n) \in Nat /\ Abs!words(n + 1) \in 0..12
        /\ Abs!codeUpTo(n + 1) = Abs!codeUpTo(n) + Abs!words(n + 1)
        /\ codeBytes(entries[n + 1]) = 4 * Abs!words(n + 1)
    BY CodeCount, WordsOf
  <2>2. \A a \in Nat, b \in 0..12 : 4 * (a + b) = 4 * a + 4 * b
    OBVIOUS
  <2> QED
    BY <2>1, <2>2, DataCount
<1>12. right(m + 1)
  <2>1. (m + 1) - 1 = n + 1
    BY <1>10
  <2> QED
    BY <1>8, <1>9, <1>10, <1>11, <2>1
<1> QED
  BY <1>4, <1>6, <1>12

---------------------------------------------------------------------------
(* The label table *)

\* The search finds nothing when no row has the name, and at most one row.
LEMMA FoundRows ==
  ASSUME NEW l, NEW table \in Seq(LabelRow)
  PROVE  /\ getintAddress(l, table) = {} <=> \A n \in DOMAIN table : table[n].lbl # l
         /\ \A n \in Found(l, table) : getintAddress(l, table) = {table[n].address}
<1>1. DOMAIN table = 1..Len(table) /\ Len(table) \in Nat
  OBVIOUS
<1>2. ASSUME NEW n \in DOMAIN table, table[n].lbl = l
      PROVE  Found(l, table) # {}
  <2> DEFINE S == {k \in DOMAIN table : table[k].lbl = l}
  <2>1. S \in SUBSET Nat /\ S # {}
    BY <1>1, <1>2
  <2>2. PICK k \in S : \A m \in S : k <= m
    <3> HIDE DEF S
    <3> QED
      BY <2>1, Least
  <2>3. k \in DOMAIN table /\ table[k].lbl = l
    OBVIOUS
  <2>4. \A j \in 1..(k - 1) : j \in DOMAIN table /\ ~(k <= j)
    BY <1>1, <2>3
  <2>5. \A j \in 1..(k - 1) : table[j].lbl # l
    BY <2>2, <2>4
  <2> QED
    BY <2>3, <2>5 DEF Found
<1>3. Found(l, table) # {} => getintAddress(l, table) # {}
  BY DEF getintAddress
<1>4. (\A n \in DOMAIN table : table[n].lbl # l) => getintAddress(l, table) = {}
  BY DEF Found, getintAddress
<1>5. \A n, m \in Found(l, table) : n = m
  <2> SUFFICES ASSUME NEW n \in Found(l, table), NEW m \in Found(l, table) PROVE n = m
    OBVIOUS
  <2>1. n \in 1..Len(table) /\ m \in 1..Len(table) /\ table[n].lbl = l /\ table[m].lbl = l
    BY <1>1 DEF Found
  <2>2. n \notin 1..(m - 1) /\ m \notin 1..(n - 1)
    BY <2>1 DEF Found
  <2> QED
    BY <1>1, <2>1, <2>2
<1>6. \A n \in Found(l, table) : getintAddress(l, table) = {table[n].address}
  BY <1>5 DEF getintAddress
<1> QED
  BY <1>2, <1>3, <1>4, <1>6

\* What stands where, after two sequences are joined.
LEMMA Joined ==
  \A S : \A s, t \in Seq(S) :
    /\ Len(s) \in Nat /\ Len(t) \in Nat /\ s \o t \in Seq(S)
    /\ DOMAIN s = 1..Len(s) /\ DOMAIN t = 1..Len(t) /\ Len(s \o t) = Len(s) + Len(t)
    /\ \A p \in DOMAIN s : (s \o t)[p] = s[p]
    /\ \A n \in DOMAIN t : Len(s) + n \in DOMAIN (s \o t) /\ (s \o t)[Len(s) + n] = t[n]
<1> SUFFICES ASSUME NEW S, NEW s \in Seq(S), NEW t \in Seq(S)
    PROVE  /\ Len(s) \in Nat /\ Len(t) \in Nat /\ s \o t \in Seq(S)
           /\ DOMAIN s = 1..Len(s) /\ DOMAIN t = 1..Len(t) /\ Len(s \o t) = Len(s) + Len(t)
           /\ \A p \in DOMAIN s : (s \o t)[p] = s[p]
           /\ \A n \in DOMAIN t : Len(s) + n \in DOMAIN (s \o t) /\ (s \o t)[Len(s) + n] = t[n]
  OBVIOUS
<1>1. /\ Len(s) \in Nat /\ Len(t) \in Nat /\ s \o t \in Seq(S)
      /\ DOMAIN s = 1..Len(s) /\ DOMAIN t = 1..Len(t) /\ Len(s \o t) = Len(s) + Len(t)
  OBVIOUS
<1>2. \A p \in 1..Len(s) : (s \o t)[p] = s[p]
  OBVIOUS
<1>3. \A n \in 1..Len(t) : (s \o t)[Len(s) + n] = t[n]
  OBVIOUS
<1>4. \A n \in 1..Len(t) : Len(s) + n \in DOMAIN (s \o t)
  OBVIOUS
<1> QED
  BY <1>1, <1>2, <1>3, <1>4

\* What insertLabel adds is found only under a name that had no row.
LEMMA Inserted ==
  ASSUME NEW names \in Seq(Labels), NEW a \in Nat, NEW table \in Seq(LabelRow), NEW l
  PROVE  getintAddress(l, insertLabels(names, a, table)) =
           IF getintAddress(l, table) # {} THEN getintAddress(l, table)
           ELSE IF \E n \in DOMAIN names : names[n] = l THEN {a} ELSE {}
<1> DEFINE t == insertLabels(names, a, table)
<1>1. /\ t \in Seq(LabelRow) /\ DOMAIN names = 1..Len(names) /\ Len(names) \in Nat
      /\ Len(table) \in Nat /\ DOMAIN table = 1..Len(table)
  BY InsertType
<1>2. /\ DOMAIN t = 1..(Len(table) + Len(names))
      /\ \A n \in DOMAIN table : t[n] = table[n]
      /\ \A n \in DOMAIN names : t[Len(table) + n] = [lbl |-> names[n], address |-> a]
  <2> DEFINE rows == [n \in DOMAIN names |-> [lbl |-> names[n], address |-> a]]
  <2>1. rows \in Seq(LabelRow) /\ Len(rows) = Len(names)
    <3>1. \A n \in 1..Len(names) : [lbl |-> names[n], address |-> a] \in LabelRow
      BY DEF LabelRow
    <3> QED
      BY <1>1, <3>1
  <2>2. t = table \o rows
    BY DEF insertLabels
  <2>3. \A n \in DOMAIN names : rows[n] = [lbl |-> names[n], address |-> a]
    OBVIOUS
  <2> HIDE DEF rows, t
  <2>4. /\ DOMAIN t = 1..(Len(table) + Len(rows))
        /\ \A n \in 1..Len(table) : t[n] = table[n]
        /\ \A n \in 1..Len(rows) : t[Len(table) + n] = rows[n]
    <3>1. /\ table \o rows \in Seq(LabelRow) /\ Len(table \o rows) = Len(table) + Len(rows)
          /\ \A n \in DOMAIN table : (table \o rows)[n] = table[n]
          /\ \A n \in DOMAIN rows : (table \o rows)[Len(table) + n] = rows[n]
      BY <2>1, Joined
    <3>2. DOMAIN rows = 1..Len(rows)
      BY ONLY <2>1
    <3>3. t \in Seq(LabelRow) /\ Len(t) = Len(table) + Len(rows)
      BY <2>2, <3>1
    <3>4. DOMAIN t = 1..Len(t)
      BY ONLY <3>3
    <3>5. \A n \in DOMAIN table : t[n] = table[n]
      BY <2>2, <3>1
    <3>6. \A n \in DOMAIN rows : t[Len(table) + n] = rows[n]
      BY <2>2, <3>1
    <3> QED
      BY <1>1, <3>2, <3>3, <3>4, <3>5, <3>6
  <2> QED
    BY <1>1, <2>1, <2>3, <2>4
<1> HIDE DEF t
<1>3. \A n \in DOMAIN table : n \in DOMAIN t
  BY <1>1, <1>2
<1>4. CASE getintAddress(l, table) # {}
  <2>1. PICK n \in Found(l, table) : TRUE
    BY <1>4 DEF getintAddress
  <2>2. n \in DOMAIN table /\ table[n].lbl = l /\ \A j \in 1..(n - 1) : table[j].lbl # l
    BY DEF Found
  <2>3. \A j \in 1..(n - 1) : j \in DOMAIN table
    BY <1>1, <2>2
  <2>4. n \in Found(l, t)
    BY <1>2, <1>3, <2>2, <2>3 DEF Found
  <2>5. getintAddress(l, t) = {t[n].address} /\ getintAddress(l, table) = {table[n].address}
    BY <1>1, <2>4, FoundRows
  <2> QED
    BY <1>2, <1>4, <2>2, <2>5 DEF t
<1>5. CASE getintAddress(l, table) = {}
  <2>1. \A n \in DOMAIN table : table[n].lbl # l
    BY <1>5, FoundRows
  <2>2. ASSUME NEW m \in DOMAIN t, t[m].lbl = l
        PROVE  \E n \in DOMAIN names : m = Len(table) + n /\ names[n] = l /\ t[m].address = a
    <3>1. m \notin DOMAIN table
      BY <1>2, <2>1, <2>2
    <3>2. PICK n \in DOMAIN names : m = Len(table) + n
      <4>1. m \in 1..(Len(table) + Len(names)) /\ ~(m \in 1..Len(table))
        BY <1>1, <1>2, <3>1
      <4>2. m - Len(table) \in 1..Len(names) /\ m = Len(table) + (m - Len(table))
        BY <1>1, <4>1
      <4> QED
        BY <1>1, <4>2
    <3>3. t[m] = [lbl |-> names[n], address |-> a]
      BY <1>2, <3>2
    <3>4. names[n] = l /\ t[m].address = a
      BY <2>2, <3>3
    <3> QED
      BY <3>2, <3>4
  <2>3. CASE \E n \in DOMAIN names : names[n] = l
    <3>1. PICK n \in DOMAIN names : names[n] = l
      BY <2>3
    <3>2. Len(table) + n \in DOMAIN t /\ t[Len(table) + n].lbl = l
      <4>1. Len(table) + n \in 1..(Len(table) + Len(names))
        BY <1>1
      <4>2. t[Len(table) + n] = [lbl |-> names[n], address |-> a]
        BY <1>2
      <4> QED
        BY <1>2, <3>1, <4>1, <4>2
    <3>3. getintAddress(l, t) # {}
      BY <1>1, <3>2, FoundRows
    <3>4. PICK m \in Found(l, t) : TRUE
      BY <3>3 DEF getintAddress
    <3>5. m \in DOMAIN t /\ t[m].lbl = l
      BY DEF Found
    <3>6. getintAddress(l, t) = {t[m].address} /\ t[m].address = a
      BY <1>1, <2>2, <3>4, <3>5, FoundRows
    <3> QED
      BY <1>5, <2>3, <3>6 DEF t
  <2>4. CASE ~\E n \in DOMAIN names : names[n] = l
    <3>1. \A m \in DOMAIN t : t[m].lbl # l
      BY <2>2, <2>4
    <3>2. getintAddress(l, t) = {}
      BY <1>1, <3>1, FoundRows
    <3> QED
      BY <1>5, <2>4, <3>2 DEF t
  <2> QED
    BY <2>3, <2>4
<1> QED
  BY <1>4, <1>5

---------------------------------------------------------------------------
(* The first pass: labels that wait, and addresses that are known *)

\* What the specification says of the entries changes with the entries only.
LEMMA SameScript ==
  ASSUME entries' = entries
  PROVE  /\ \A k : Abs!isItem(k)' = Abs!isItem(k)
         /\ \A k : Abs!address(k)' = Abs!address(k)
         /\ \A l : Abs!itemsOf(l)' = Abs!itemsOf(l)
  BY DEF Abs!isItem, Abs!address, Abs!itemsOf, Abs!next, Abs!written, Abs!codeUpTo,
         Abs!dataUpTo, Abs!words

\* The steps that touch what the first pass computes from.
LEMMA PassSteps ==
  ASSUME [Next]_vars
  PROVE  \/ UNCHANGED <<entries, passVars>>
         \/ phase = "getScript" /\ UNCHANGED passVars
         \/ FillLabel \/ FillItem \/ FillDirective
<1>1. CASE Reading
  <2>1. CASE NoScript
    BY <2>1 DEF NoScript, Crash, scriptVars, passVars
  <2>2. CASE EndOfFile
    BY <2>2 DEF EndOfFile, scriptVars, passVars
  <2>3. ASSUME NEW ln \in Lines, ReadDirective(ln) PROVE phase = "getScript" /\ UNCHANGED passVars
    BY <2>3 DEF ReadDirective, Running, Save, passVars
  <2>4. ASSUME NEW ln \in Lines, ReadLabel(ln) PROVE phase = "getScript" /\ UNCHANGED passVars
    BY <2>4 DEF ReadLabel, Running, Save, Exit1, passVars
  <2>5. ASSUME NEW ln \in Lines, ReadData(ln) PROVE phase = "getScript" /\ UNCHANGED passVars
    BY <2>5 DEF ReadData, Running, Save, Exit1, passVars
  <2>6. ASSUME NEW ln \in Lines, ReadInstr(ln) PROVE phase = "getScript" /\ UNCHANGED passVars
    BY <2>6 DEF ReadInstr, Running, Save, Exit1, passVars
  <2> QED
    BY <1>1, <2>1, <2>2, <2>3, <2>4, <2>5, <2>6 DEF Reading
<1>2. CASE Filling
  BY <1>2 DEF Filling, FillDone, scriptVars, passVars
<1>3. CASE Expanding
  BY <1>3 DEF Expanding, ExpandEntry, ExpandFails, ExpandDone, ErrorExit, scriptVars, passVars
<1>4. CASE Replacing
  BY <1>4 DEF Replacing, ReplaceEntry, ReplaceFails, ReplaceWild, ReplaceOverrun, ReplaceDone,
              ErrorExit, Crash, scriptVars, passVars
<1>5. CASE Printing
  BY <1>5 DEF Printing, OpenBinary, OpenFails, NoMemory, EmitData, EmitInstr, EmitFails, EmitNothing,
              WriteOut, ErrorExit, Exit1, scriptVars, passVars
<1>6. CASE UNCHANGED vars
  BY <1>6 DEF vars, scriptVars, passVars
<1> QED
  BY <1>1, <1>2, <1>3, <1>4, <1>5, <1>6 DEF Next, Ended

\* How far the first pass has come, before and after one of its steps.
LEMMA PassReaches ==
  ASSUME TypeOK, PassOne
  PROVE  /\ Len(before) \in Nat /\ DOMAIN before = 1..Len(before)
         /\ DOMAIN entries = 1..Len(entries) /\ Len(entries) \in Nat
         /\ phase = "getScript" => Len(before) = 1
         /\ phase = "fillLabelTable" => Len(before) = i
<1>1. before \in Seq(Sizes) /\ entries \in Seq(Entry)
  BY DEF TypeOK
<1>2. Len(before) = ReachedByPassOne
  BY DEF PassOne
<1>3. phase = "getScript" => ReachedByPassOne = 1
  BY DEF ReachedByPassOne
<1>4. phase = "fillLabelTable" => ReachedByPassOne = i
  BY DEF ReachedByPassOne
<1>5. /\ Len(before) \in Nat /\ DOMAIN before = 1..Len(before)
      /\ DOMAIN entries = 1..Len(entries) /\ Len(entries) \in Nat
  BY ONLY <1>1
<1> QED
  BY <1>2, <1>3, <1>4, <1>5

LEMMA PassGrows ==
  ASSUME TypeOK, PassOne, FillStep, Recorded
  PROVE  /\ i = Len(before) /\ Len(before') = Len(before) + 1
         /\ i \in DOMAIN entries /\ phase = "fillLabelTable"
<1>1. i = Len(before) /\ before \in Seq(Sizes)
  BY PassReaches DEF FillStep, Running, TypeOK
<1>2. Len(before') = Len(before) + 1
  BY <1>1 DEF Recorded
<1> QED
  BY <1>1, <1>2 DEF FillStep, AtEntry, Running

\* The labels of the pending set, as far as entry number n.
noItemIn(a, b) == \A g \in a..b : ~Abs!isItem(g)
pendingAt(n) == {k \in 1..(n - 1) : entries[k].type = 2 /\ noItemIn(k + 1, n - 1)}

LEMMA PendingGrows ==
  ASSUME NEW n \in Nat \ {0}, DOMAIN entries = 1..Len(entries), Len(entries) \in Nat,
         n \in DOMAIN entries, entries[n].type \in Types
  PROVE  pendingAt(n + 1) = CASE entries[n].type = 2        -> pendingAt(n) \cup {n}
                              [] entries[n].type \in {0, 1} -> {}
                              [] OTHER                      -> pendingAt(n)
<1>1. (n + 1) - 1 = n /\ 1..n = 1..(n - 1) \cup {n} /\ n \in 1..n
  OBVIOUS
<1>2. Abs!isItem(n) <=> entries[n].type \in {0, 1}
  BY DEF Abs!isItem
<1>3. \A k \in 1..(n - 1) : /\ (k + 1)..n = ((k + 1)..(n - 1)) \cup {n}
                            /\ k # n
  OBVIOUS
<1>4. \A k \in 1..(n - 1) : noItemIn(k + 1, n) <=> noItemIn(k + 1, n - 1) /\ ~Abs!isItem(n)
  BY <1>3 DEF noItemIn
<1>5. noItemIn(n + 1, n)
  BY DEF noItemIn
<1>6. pendingAt(n + 1) = {k \in 1..n : entries[k].type = 2 /\ noItemIn(k + 1, n)}
  BY <1>1 DEF pendingAt
<1>7. \A k : k \in pendingAt(n + 1) <=> \/ k \in pendingAt(n) /\ ~Abs!isItem(n)
                                        \/ k = n /\ entries[n].type = 2
  BY <1>1, <1>4, <1>5, <1>6, Zenon DEF pendingAt
<1>8. CASE entries[n].type = 2
  BY <1>2, <1>7, <1>8
<1>9. CASE entries[n].type \in {0, 1}
  BY <1>2, <1>7, <1>9
<1>10. CASE entries[n].type \in {3, 4}
  <2>1. entries[n].type # 2 /\ entries[n].type \notin {0, 1}
    BY <1>10
  <2>2. pendingAt(n + 1) = pendingAt(n)
    BY <1>2, <1>7, <2>1
  <2> QED
    BY <2>1, <2>2
<1> QED
  BY <1>8, <1>9, <1>10 DEF Types

\* A fill step keeps the set of labels that wait.
LEMMA PendingStep ==
  ASSUME TypeOK, PassOne, Pending, [Next]_vars
  PROVE  Pending'
<1> DEFINE held == {labelbuf[n] : n \in DOMAIN labelbuf}
<1>1. CASE UNCHANGED <<entries, passVars>>
  BY <1>1 DEF Pending, passVars, Abs!isItem
<1>2. CASE phase = "getScript" /\ UNCHANGED passVars
  <2>1. Len(before) = 1 /\ UNCHANGED <<labelbuf, before>>
    BY <1>2, PassReaches DEF passVars
  <2>2. 1..(Len(before) - 1) = {}
    BY <2>1
  <2> QED
    BY <2>1, <2>2 DEF Pending
<1>3. ASSUME FillStep, Recorded, UNCHANGED scriptVars
      PROVE  /\ Len(before) \in Nat \ {0} /\ entries' = entries
             /\ entries[i].type \in Types /\ i = Len(before)
             /\ Pending <=> held = pendingAt(i)
             /\ Pending' <=> held' = pendingAt(i + 1)
             /\ pendingAt(i + 1) = CASE entries[i].type = 2        -> pendingAt(i) \cup {i}
                                     [] entries[i].type \in {0, 1} -> {}
                                     [] OTHER                      -> pendingAt(i)
  <2>1. /\ i = Len(before) /\ Len(before') = i + 1 /\ i \in DOMAIN entries
        /\ i \in Nat \ {0} /\ entries' = entries
        /\ DOMAIN entries = 1..Len(entries) /\ Len(entries) \in Nat
    BY <1>3, PassGrows, PassReaches DEF TypeOK, scriptVars
  <2>2. entries[i].type \in Types
    <3>1. entries[i] \in Entry
      BY <2>1 DEF TypeOK
    <3> QED
      BY <3>1 DEF Entry
  <2>3. Pending <=> held = pendingAt(i)
    BY <2>1 DEF Pending, pendingAt, noItemIn
  <2>4. Pending' <=> held' = pendingAt(i + 1)
    BY <2>1 DEF Pending, pendingAt, noItemIn, Abs!isItem
  <2> QED
    BY <2>1, <2>2, <2>3, <2>4, PendingGrows
<1>4. CASE FillLabel
  <2>1. /\ held = pendingAt(i) /\ entries[i].type = 2 /\ labelbuf' = Append(labelbuf, i)
        /\ Pending' <=> held' = pendingAt(i) \cup {i}
    BY <1>3, <1>4 DEF FillLabel
  <2>2. held' = held \cup {i}
    <3>1. /\ DOMAIN Append(labelbuf, i) = DOMAIN labelbuf \cup {Len(labelbuf) + 1}
          /\ \A n \in DOMAIN labelbuf : Append(labelbuf, i)[n] = labelbuf[n]
          /\ Append(labelbuf, i)[Len(labelbuf) + 1] = i
      <4>1. labelbuf \in Seq(1..Len(entries))
        BY DEF TypeOK
      <4>2. /\ Len(Append(labelbuf, i)) = Len(labelbuf) + 1
            /\ DOMAIN labelbuf = 1..Len(labelbuf) /\ Len(labelbuf) \in Nat
            /\ DOMAIN Append(labelbuf, i) = 1..Len(Append(labelbuf, i))
            /\ Append(labelbuf, i)[Len(labelbuf) + 1] = i
            /\ \A n \in 1..Len(labelbuf) : Append(labelbuf, i)[n] = labelbuf[n]
        BY ONLY <4>1
      <4> QED
        BY <4>2
    <3>2. held' = {Append(labelbuf, i)[n] : n \in DOMAIN Append(labelbuf, i)}
      BY <2>1
    <3> HIDE <2>1
    <3>3. \A k : k \in held' <=> k \in held \/ k = i
      BY <3>1, <3>2, Zenon
    <3> QED
      BY <3>3
  <2> QED
    BY <2>1, <2>2
<1>5. CASE FillItem
  <2>1. /\ entries[i].type \in {0, 1} /\ labelbuf' = <<>>
        /\ Pending' <=> held' = {}
    BY <1>3, <1>5 DEF FillItem
  <2> QED
    BY <2>1
<1>6. CASE FillDirective
  <2>1. /\ held = pendingAt(i) /\ labelbuf' = labelbuf
        /\ Pending' <=> held' = pendingAt(i)
    BY <1>3, <1>6 DEF FillDirective
  <2> QED
    BY <2>1
<1> QED
  BY <1>1, <1>2, <1>4, <1>5, <1>6, PassSteps

\* The first item of a name among the items the first pass has come past.
LEMMA FirstOf ==
  ASSUME NEW l, DOMAIN entries = 1..Len(entries), Len(entries) \in Nat
  PROVE  /\ Abs!itemsOf(l) \in SUBSET (Nat \ {0, 1})
         /\ \A j, h \in firstOf(l) : j = h
         /\ Len(before) \in Nat =>
              \A g \in Abs!itemsOf(l) : g < Len(before) => firstOf(l) # {}
<1>1. Abs!itemsOf(l) \in SUBSET (Nat \ {0, 1})
  <2> SUFFICES ASSUME NEW j \in Abs!itemsOf(l) PROVE j \in Nat \ {0, 1}
    OBVIOUS
  <2>1. PICK k \in Abs!written(l) : j \in Abs!next(k)
    BY DEF Abs!itemsOf
  <2>2. k \in DOMAIN entries /\ j \in (k + 1)..Len(entries)
    BY <2>1 DEF Abs!written, Abs!next
  <2> QED
    BY <2>2
<1>2. \A j, h \in firstOf(l) : j = h
  <2> SUFFICES ASSUME NEW j \in firstOf(l), NEW h \in firstOf(l) PROVE j = h
    OBVIOUS
  <2>1. j \in Nat /\ h \in Nat /\ j <= h /\ h <= j
    BY <1>1 DEF firstOf
  <2> QED
    BY <2>1
<1>3. ASSUME Len(before) \in Nat, NEW g \in Abs!itemsOf(l), g < Len(before)
      PROVE  firstOf(l) # {}
  <2>1. Abs!itemsOf(l) \in SUBSET Nat
    BY <1>1
  <2>2. PICK j \in Abs!itemsOf(l) : \A h \in Abs!itemsOf(l) : j <= h
    BY <2>1, Least
  <2>3. j \in Nat /\ g \in Nat /\ j <= g
    BY <2>1, <2>2
  <2>4. j < Len(before)
    BY <1>3, <2>3
  <2> QED
    BY <2>2, <2>4 DEF firstOf
<1> QED
  BY <1>1, <1>2, <1>3

\* The next item is the first of a name if the name has none before and waits.
LEMMA FirstGrows ==
  ASSUME TypeOK, PassOne, FillStep, Recorded, entries' = entries, NEW l
  PROVE  firstOf(l)' = IF firstOf(l) # {} THEN firstOf(l)
                       ELSE IF i \in Abs!itemsOf(l) THEN {i} ELSE {}
<1> DEFINE S == Abs!itemsOf(l)
           new == {j \in S : j < i + 1 /\ \A g \in S : j <= g}
           old == {j \in S : j < i /\ \A g \in S : j <= g}
<1>1. /\ i = Len(before) /\ Len(before') = i + 1 /\ i \in Nat
      /\ DOMAIN entries = 1..Len(entries) /\ Len(entries) \in Nat
  BY PassGrows, PassReaches
<1>2. firstOf(l) = old /\ firstOf(l)' = new
  <2>1. S' = S
    BY SameScript
  <2> QED
    BY <1>1, <2>1 DEF firstOf
<1>3. S \in SUBSET Nat
  BY <1>1, FirstOf
<1>4. \A g \in S : g < i => old # {}
  <2>1. \A g \in S : g < Len(before) => firstOf(l) # {}
    BY <1>1, FirstOf
  <2> QED
    BY <1>1, <1>2, <2>1
<1> HIDE DEF S
<1>5. CASE old # {}
  <2>1. PICK j \in old : TRUE
    BY <1>5
  <2>2. j \in S /\ j < i /\ j \in Nat /\ \A g \in S : j <= g
    BY <1>3, <2>1
  <2>3. \A g \in S : g \in Nat /\ (g < i => g < i + 1)
    BY <1>1, <1>3
  <2>4. new \subseteq old
    <3> SUFFICES ASSUME NEW g \in new PROVE g \in old
      OBVIOUS
    <3>1. g \in S /\ g <= j /\ \A h \in S : g <= h
      BY <2>2
    <3>2. g < i
      BY <1>1, <2>2, <2>3, <3>1
    <3> QED
      BY <3>1, <3>2
  <2>5. old \subseteq new
    BY <2>3
  <2> QED
    BY <1>2, <1>5, <2>4, <2>5
<1>6. CASE old = {}
  <2>1. \A g \in S : g \in Nat /\ ~(g < i)
    BY <1>3, <1>4, <1>6
  <2>2. \A g \in new : g = i
    BY <1>1, <2>1
  <2>3. i \in S => i \in new
    BY <1>1, <2>1
  <2>4. \A g \in new : g \in S
    OBVIOUS
  <2> QED
    <3> HIDE DEF new, old
    <3> QED
      BY <1>2, <1>6, <2>2, <2>3, <2>4 DEF S
<1> QED
  BY <1>5, <1>6

\* The address the pass gives is that of the item it has come to.
LEMMA CurrentAddress ==
  ASSUME TypeOK, PassOne, FillStep
  PROVE  /\ Abs!address(i) = IF entries[i].type = 1 THEN daddress ELSE caddress
         /\ {caddress, daddress} \subseteq Nat
<1>1. i = Len(before) /\ i \in DOMAIN before
  <2>1. i = Len(before) /\ DOMAIN before = 1..Len(before)
    BY PassReaches DEF FillStep, Running
  <2>2. i \in Nat \ {0}
    BY DEF TypeOK
  <2> QED
    BY <2>1, <2>2
<1>2. before[i] = [code |-> codeSize, data |-> dataSize]
  BY <1>1 DEF PassOne
<1>3. before[i] = [code |-> 4 * Abs!codeUpTo(i - 1), data |-> 8 * Abs!dataUpTo(i - 1)]
  BY <1>1, PassOneCounts DEF Counted
<1>4. codeSize = 4 * Abs!codeUpTo(i - 1) /\ dataSize = 8 * Abs!dataUpTo(i - 1)
  BY <1>2, <1>3
<1>5. caddress = CODE_BASE + codeSize /\ daddress = DATA_BASE + dataSize
  BY DEF PassOne
<1> QED
  BY <1>4, <1>5 DEF Abs!address, TypeOK

\* The labels that wait are the labels whose next item is the one the pass has come to.
LEMMA WaitingFor ==
  ASSUME TypeOK, PassOne, Pending, FillStep, Abs!isItem(i), NEW l
  PROVE  (\E n \in DOMAIN waiting : waiting[n] = l) <=> i \in Abs!itemsOf(l)
<1>1. /\ i = Len(before) /\ i \in Nat \ {0} /\ i \in 1..Len(entries)
      /\ DOMAIN entries = 1..Len(entries) /\ Len(entries) \in Nat
  BY PassReaches DEF FillStep, Running, AtEntry, TypeOK
<1>2. {labelbuf[n] : n \in DOMAIN labelbuf} = pendingAt(i)
  BY <1>1 DEF Pending, pendingAt, noItemIn
<1>3. (\E n \in DOMAIN waiting : waiting[n] = l) <=> \E k \in pendingAt(i) : entries[k].lbl = l
  <2> DEFINE size == Len(labelbuf)
  <2>1. DOMAIN labelbuf = 1..size /\ size \in Nat /\ DOMAIN waiting = 1..size
    BY DEF TypeOK, waiting
  <2>2. \A n \in 1..size : waiting[n] = entries[labelbuf[size + 1 - n]].lbl
    BY <2>1 DEF waiting
  <2> HIDE DEF size
  <2>3. \A n \in 1..size : size + 1 - n \in 1..size /\ size + 1 - (size + 1 - n) = n
    BY <2>1
  <2>4. (\E n \in 1..size : waiting[n] = l) <=> \E n \in 1..size : entries[labelbuf[n]].lbl = l
    BY <2>2, <2>3
  <2> QED
    BY <1>2, <2>1, <2>4, Zenon
<1>4. \A k \in 1..Len(entries) : k \in pendingAt(i) <=> k \in 1..(i - 1) /\ entries[k].type = 2
                                                        /\ noItemIn(k + 1, i - 1)
  BY DEF pendingAt
<1>5. \A k \in 1..Len(entries) : i \in (k + 1)..Len(entries) <=> k \in 1..(i - 1)
  BY <1>1
<1>6. \A k \in 1..Len(entries) : i \in Abs!next(k) <=> k \in 1..(i - 1) /\ noItemIn(k + 1, i - 1)
  BY <1>5 DEF Abs!next, noItemIn
<1>7. pendingAt(i) \subseteq 1..Len(entries)
  BY <1>1 DEF pendingAt
<1>8. Abs!written(l) = {k \in 1..Len(entries) : entries[k].type = 2 /\ entries[k].lbl = l}
  BY <1>1 DEF Abs!written
<1>9. i \in Abs!itemsOf(l) <=> \E k \in Abs!written(l) : i \in Abs!next(k)
  BY DEF Abs!itemsOf
<1>10. i \in Abs!itemsOf(l) <=> \E k \in pendingAt(i) : entries[k].lbl = l
  BY <1>4, <1>6, <1>7, <1>8, <1>9, Zenon
<1> QED
  BY <1>3, <1>10

LEMMA AnswersStep ==
  ASSUME TypeOK, PassOne, Pending, Answers, [Next]_vars
  PROVE  Answers'
<1>0. /\ ltable \in Seq(LabelRow)
      /\ DOMAIN entries = 1..Len(entries) /\ Len(entries) \in Nat
  BY PassReaches DEF TypeOK
<1>1. CASE UNCHANGED <<entries, passVars>>
  <2>1. entries' = entries /\ before' = before /\ ltable' = ltable
    BY <1>1 DEF passVars
  <2>2. \A l : firstOf(l)' = firstOf(l)
    BY <2>1, SameScript DEF firstOf
  <2> QED
    BY <2>1, <2>2, SameScript DEF Answers
<1>2. CASE phase = "getScript" /\ UNCHANGED passVars
  <2>1. Len(before) = 1 /\ before' = before /\ ltable' = ltable
    BY <1>2, PassReaches DEF passVars
  <2>2. \A l : firstOf(l) = {}
    <3> SUFFICES ASSUME NEW l, NEW j \in firstOf(l) PROVE FALSE
      OBVIOUS
    <3>1. j < 1 /\ j \in Nat \ {0, 1}
      BY <1>0, <2>1, FirstOf DEF firstOf
    <3> QED
      BY <3>1
  <2>3. TypeOK' /\ PassOne'
    BY TypeStep
  <2>4. DOMAIN entries' = 1..Len(entries') /\ Len(entries') \in Nat
    BY <2>3 DEF TypeOK
  <2>5. \A l : firstOf(l)' = {}
    <3> SUFFICES ASSUME NEW l, NEW j \in firstOf(l)' PROVE FALSE
      OBVIOUS
    <3>1. j < 1 /\ j \in Abs!itemsOf(l)'
      BY <2>1 DEF firstOf
    <3>2. PICK k \in Abs!written(l)' : j \in Abs!next(k)'
      BY <3>1 DEF Abs!itemsOf
    <3>3. k \in DOMAIN entries' /\ j \in (k + 1)..Len(entries')
      BY <3>2 DEF Abs!written, Abs!next
    <3> QED
      BY <2>4, <3>1, <3>3
  <2> QED
    BY <2>1, <2>2, <2>5 DEF Answers
<1>3. ASSUME FillStep, Recorded, UNCHANGED scriptVars, NEW l \in Labels
      PROVE  /\ firstOf(l)' = IF firstOf(l) # {} THEN firstOf(l)
                              ELSE IF i \in Abs!itemsOf(l) THEN {i} ELSE {}
             /\ \A k : Abs!address(k)' = Abs!address(k)
             /\ i \in Abs!itemsOf(l) => Abs!isItem(i)
             /\ getintAddress(l, ltable) = {Abs!address(j) : j \in firstOf(l)}
  <2>1. entries' = entries
    BY <1>3 DEF scriptVars
  <2>2. i \in Abs!itemsOf(l) => Abs!isItem(i)
    BY DEF Abs!itemsOf, Abs!next
  <2> QED
    BY <1>3, <2>1, <2>2, SameScript, FirstGrows DEF Answers
<1>4. CASE FillLabel \/ FillDirective
  <2> SUFFICES ASSUME NEW l \in Labels
               PROVE  getintAddress(l, ltable') = {Abs!address(j)' : j \in firstOf(l)'}
    BY DEF Answers
  <2>1. FillStep /\ Recorded /\ UNCHANGED scriptVars /\ ltable' = ltable /\ ~Abs!isItem(i)
    BY <1>4 DEF FillLabel, FillDirective, Abs!isItem
  <2>2. firstOf(l)' = firstOf(l)
    BY <1>3, <2>1
  <2> QED
    BY <1>3, <2>1, <2>2
<1>5. CASE FillItem
  <2> SUFFICES ASSUME NEW l \in Labels
               PROVE  getintAddress(l, ltable') = {Abs!address(j)' : j \in firstOf(l)'}
    BY DEF Answers
  <2>1. /\ FillStep /\ Recorded /\ UNCHANGED scriptVars /\ Abs!isItem(i)
        /\ ltable' = insertLabels(waiting, IF entries[i].type = 1 THEN daddress ELSE caddress,
                                  ltable)
    BY <1>5 DEF FillItem, Abs!isItem
  <2>2. ltable' = insertLabels(waiting, Abs!address(i), ltable) /\ Abs!address(i) \in Nat
    BY <2>1, CurrentAddress
  <2>3. waiting \in Seq(Labels)
    BY WaitingType
  <2>4. getintAddress(l, ltable') =
          IF getintAddress(l, ltable) # {} THEN getintAddress(l, ltable)
          ELSE IF \E n \in DOMAIN waiting : waiting[n] = l THEN {Abs!address(i)} ELSE {}
    BY <1>0, <2>2, <2>3, Inserted
  <2>5. getintAddress(l, ltable') =
          IF getintAddress(l, ltable) # {} THEN getintAddress(l, ltable)
          ELSE IF i \in Abs!itemsOf(l) THEN {Abs!address(i)} ELSE {}
    BY <2>1, <2>4, WaitingFor
  <2>6. getintAddress(l, ltable) = {Abs!address(j) : j \in firstOf(l)}
    BY <1>3, <2>1
  <2>7. {Abs!address(j)' : j \in firstOf(l)'} = {Abs!address(j) : j \in firstOf(l)'}
    BY <1>3, <2>1
  <2>8. firstOf(l)' = IF firstOf(l) # {} THEN firstOf(l)
                      ELSE IF i \in Abs!itemsOf(l) THEN {i} ELSE {}
    BY <1>3, <2>1
  <2> QED
    BY <2>5, <2>6, <2>7, <2>8
<1> QED
  BY <1>1, <1>2, <1>4, <1>5, PassSteps

---------------------------------------------------------------------------
(* The rewriting: every entry stands at its place among the new entries *)

\* What an entry that stays where it is keeps, through the rewriting of its labels.
argsOf(p, a) == newEntries[p].args \in IF replaced(p) THEN replaceLabel(a, ltable) ELSE {a}

entryStays(p) == /\ newEntries'[p].type = newEntries[p].type
                 /\ newEntries'[p].cmd = newEntries[p].cmd
                 /\ newEntries'[p].val = newEntries[p].val
                 /\ spot'[p] = spot[p]
                 /\ \A a : argsOf(p, a) => argsOf(p, a)'

LEMMA StillPlaced ==
  ASSUME UNCHANGED <<entries, ltable, before>>, newEntries \in Seq(Entry),
         newEntries' \in Seq(Entry), Len(newEntries) <= Len(newEntries'),
         \A p \in DOMAIN newEntries : entryStays(p), NEW k, isPlaced(k)
  PROVE  isPlaced(k)'
<1>1. DOMAIN newEntries \subseteq DOMAIN newEntries' /\ 0..Len(newEntries) \subseteq 0..Len(newEntries')
  OBVIOUS
<1>2. CASE entries[k].type = 1
  <2>1. PICK m \in DOMAIN newEntries : /\ newEntries[m].type = 1
                                       /\ newEntries[m].val = entries[k].val
                                       /\ spot[m] = before[k]
    BY <1>2 DEF isPlaced
  <2>2. m \in DOMAIN newEntries' /\ entryStays(m)
    BY <1>1
  <2>3. newEntries'[m].type = 1 /\ newEntries'[m].val = entries'[k].val /\ spot'[m] = before'[k]
    BY <2>1, <2>2 DEF entryStays
  <2> QED
    BY <1>2, <2>2, <2>3 DEF isPlaced
<1>3. CASE entries[k].type = 0
  <2>1. PICK x \in expandMacro(entries[k].cmd, entries[k].args, ltable) :
          \E m \in 0..Len(newEntries) : standsAt(x, k, m)
    BY <1>3 DEF isPlaced
  <2>2. PICK m \in 0..Len(newEntries) : standsAt(x, k, m)
    BY <2>1
  <2>3. standsAt(x, k, m)'
    <3> SUFFICES ASSUME NEW n \in DOMAIN x
                 PROVE  /\ m + n \in DOMAIN newEntries'
                        /\ newEntries'[m + n].type = 0 /\ newEntries'[m + n].cmd = x[n].cmd
                        /\ argsOf(m + n, x[n].args)'
                        /\ spot'[m + n].code = before'[k].code + 4 * (n - 1)
      BY DEF standsAt, argsOf
    <3> DEFINE p == m + n
    <3>1. /\ p \in DOMAIN newEntries
          /\ newEntries[p].type = 0 /\ newEntries[p].cmd = x[n].cmd
          /\ argsOf(p, x[n].args)
          /\ spot[p].code = before[k].code + 4 * (n - 1)
      BY <2>2 DEF standsAt, argsOf
    <3>2. p \in DOMAIN newEntries' /\ entryStays(p)
      BY <1>1, <3>1
    <3> HIDE DEF p
    <3>3. /\ newEntries'[p].type = 0 /\ newEntries'[p].cmd = x[n].cmd
          /\ argsOf(p, x[n].args)'
          /\ spot'[p].code = before'[k].code + 4 * (n - 1)
      BY <3>1, <3>2 DEF entryStays
    <3> QED
      BY <3>2, <3>3 DEF p
  <2>4. x \in expandMacro(entries'[k].cmd, entries'[k].args, ltable')
    BY <2>1
  <2>5. m \in 0..Len(newEntries')
    BY <1>1
  <2> QED
    BY <1>3, <2>3, <2>4, <2>5 DEF isPlaced
<1>4. CASE entries[k].type \notin {0, 1}
  BY <1>4 DEF isPlaced
<1> QED
  BY <1>2, <1>3, <1>4

\* Where expandMacros has come to, it puts the entry's rewriting at the end.
LEMMA PlacedByExpanding ==
  ASSUME TypeOK, PassOne, Layout, Placed, ExpandEntry
  PROVE  Placed'
<1>1. /\ phase = "expandMacros" /\ phase' = "expandMacros" /\ i' = i + 1
      /\ i \in DOMAIN entries /\ UNCHANGED <<entries, ltable, before>>
  BY DEF ExpandEntry, Running, AtEntry, NextEntry, scriptVars, passVars
<1>2. PICK new \in rewritings(entries[i]) :
        /\ newEntries' = newEntries \o new
        /\ spot' = spot \o positions(new, before[i])
  BY DEF ExpandEntry, positions
<1>3. /\ entries[i] \in Entry /\ entries[i].wild # "bang" /\ newEntries \in Seq(Entry)
      /\ ltable \in Seq(LabelRow) /\ spot \in Seq(Sizes) /\ before[i] \in Sizes
      /\ Len(spot) = Len(newEntries) /\ i \in Nat
      /\ DOMAIN entries = 1..Len(entries) /\ Len(entries) \in Nat
  <2>1. /\ entries \in Seq(Entry) /\ newEntries \in Seq(Entry) /\ ltable \in Seq(LabelRow)
        /\ spot \in Seq(Sizes) /\ i \in Nat
    BY DEF TypeOK
  <2>2. DOMAIN entries = 1..Len(entries) /\ Len(entries) \in Nat /\ entries[i] \in Entry
    BY <1>1, <2>1
  <2>3. before[i] \in Sizes
    BY <1>1, RoomOf
  <2>4. Len(spot) = Len(newEntries) /\ entries[i].wild # "bang"
    BY <1>1 DEF Layout, Untouched, Expanded
  <2> QED
    BY <2>1, <2>2, <2>3, <2>4
<1>4. /\ new \in Seq(Entry) /\ positions(new, before[i]) \in Seq(Sizes)
      /\ DOMAIN positions(new, before[i]) = DOMAIN new
      /\ \A n \in DOMAIN new : /\ positions(new, before[i])[n].code = before[i].code + 4 * (n - 1)
                               /\ positions(new, before[i])[n].data = before[i].data
  <2>1. /\ new \in Seq(Entry)
        /\ entries[i].type = 0 => Len(new) = cnt(entries[i].cmd)
                                  /\ \A n \in DOMAIN new : new[n].type = 0
        /\ entries[i].type # 0 /\ entries[i].wild # "bang" => new = <<entries[i]>>
    BY <1>3, RewritingType
  <2>2. positions(new, before[i]) \in Seq(Sizes)
    BY <1>3, <2>1, PositionsChained
  <2> QED
    BY <2>1, <2>2 DEF positions
<1> DEFINE at == positions(new, before[i])
<1>m. PICK m \in Nat : m = Len(newEntries)
  BY <1>3
<1>5. /\ newEntries' \in Seq(Entry) /\ Len(newEntries') = m + Len(new) /\ m \in Nat
      /\ Len(new) \in Nat /\ DOMAIN new = 1..Len(new) /\ m = Len(spot)
      /\ \A p \in DOMAIN newEntries : newEntries'[p] = newEntries[p] /\ spot'[p] = spot[p]
      /\ \A n \in DOMAIN new : /\ m + n \in DOMAIN newEntries'
                               /\ newEntries'[m + n] = new[n] /\ spot'[m + n] = at[n]
  <2>1. DOMAIN spot = DOMAIN newEntries
    BY <1>3
  <2>2. /\ newEntries' \in Seq(Entry) /\ Len(newEntries') = m + Len(new) /\ m \in Nat
        /\ Len(new) \in Nat /\ DOMAIN new = 1..Len(new)
        /\ \A p \in DOMAIN newEntries : newEntries'[p] = newEntries[p]
        /\ \A n \in DOMAIN new : m + n \in DOMAIN newEntries' /\ newEntries'[m + n] = new[n]
    BY <1>m, <1>2, <1>3, <1>4, Joined
  <2>4. at \in Seq(Sizes) /\ spot' = spot \o at
    BY <1>2, <1>4
  <2> HIDE DEF at
  <2>3. /\ \A p \in DOMAIN spot : spot'[p] = spot[p]
        /\ \A n \in DOMAIN at : spot'[Len(spot) + n] = at[n]
    BY <1>3, <2>4, Joined
  <2> QED
    BY <1>m, <1>3, <1>4, <2>1, <2>2, <2>3 DEF at
<1>6. \A p : ~replaced(p) /\ ~replaced(p)'
  BY <1>1 DEF replaced
<1>7. ASSUME NEW k \in DOMAIN entries, k < i
      PROVE  isPlaced(k)'
  <2>1. isPlaced(k)
    BY <1>1, <1>7 DEF Placed
  <2>2. \A p \in DOMAIN newEntries : entryStays(p)
    BY <1>5, <1>6 DEF entryStays, argsOf
  <2>3. Len(newEntries) <= Len(newEntries')
    BY <1>m, <1>5
  <2> QED
    BY <1>1, <1>3, <1>5, <2>1, <2>2, <2>3, StillPlaced
<1>8. ASSUME NEW k \in DOMAIN entries, k = i
      PROVE  isPlaced(k)'
  <2>1. entries'[k] = entries[k] /\ before'[k] = before[k] /\ ltable' = ltable
    BY <1>1
  <2>2. CASE entries[k].type = 1
    <3>1. new = <<entries[k]>>
      BY <1>3, <1>8, <2>2, RewritingType
    <3>2. 1 \in DOMAIN new /\ new[1] = entries[k]
      BY <3>1
    <3>3. /\ m + 1 \in DOMAIN newEntries' /\ newEntries'[m + 1] = entries[k]
          /\ spot'[m + 1] = at[1]
      BY <1>5, <3>2
    <3>4. at[1] = before[k]
      <4>1. at[1] = [code |-> before[k].code + 4 * (1 - 1), data |-> before[k].data]
        BY <1>8, <3>2 DEF positions
      <4>2. \A s \in Sizes : s = [code |-> s.code + 4 * (1 - 1), data |-> s.data]
        BY DEF Sizes
      <4> QED
        BY <1>3, <1>8, <4>1, <4>2
    <3> HIDE DEF at
    <3>5. /\ newEntries'[m + 1].type = 1 /\ newEntries'[m + 1].val = entries'[k].val
          /\ spot'[m + 1] = before'[k]
      BY <2>1, <2>2, <3>3, <3>4
    <3>6. entries'[k].type = 1
      BY <2>1, <2>2
    <3> QED
      BY <3>3, <3>5, <3>6 DEF isPlaced
  <2>3. CASE entries[k].type = 0
    <3>1. PICK x \in expandMacro(entries[k].cmd, entries[k].args, ltable) :
            new = instrEntries(x)
      BY <1>2, <1>8, <2>3 DEF rewritings
    <3>2. DOMAIN new = DOMAIN x
      BY <3>1 DEF instrEntries
    <3>3. \A n \in DOMAIN x : new[n] = instrEntry(x[n].cmd, x[n].args)
      BY <3>1 DEF instrEntries
    <3>4. \A c, a : instrEntry(c, a).type = 0 /\ instrEntry(c, a).cmd = c /\ instrEntry(c, a).args = a
      BY DEF instrEntry, EntryOf
    <3>5. standsAt(x, k, m)'
      <4> SUFFICES ASSUME NEW n \in DOMAIN x
                   PROVE  /\ m + n \in DOMAIN newEntries'
                          /\ newEntries'[m + n].type = 0 /\ newEntries'[m + n].cmd = x[n].cmd
                          /\ newEntries'[m + n].args \in
                               IF replaced(m + n)' THEN replaceLabel(x[n].args, ltable')
                                                   ELSE {x[n].args}
                          /\ spot'[m + n].code = before'[k].code + 4 * (n - 1)
        BY DEF standsAt
      <4>1. /\ m + n \in DOMAIN newEntries' /\ newEntries'[m + n] = new[n]
            /\ spot'[m + n] = at[n]
        BY <1>5, <3>2
      <4>2. /\ newEntries'[m + n].type = 0 /\ newEntries'[m + n].cmd = x[n].cmd
            /\ newEntries'[m + n].args = x[n].args
        BY <3>3, <3>4, <4>1
      <4>3. at[n].code = before[k].code + 4 * (n - 1)
        BY <1>4, <1>8, <3>2
      <4> QED
        BY <1>6, <2>1, <4>1, <4>2, <4>3
    <3>6. m \in 0..Len(newEntries')
      BY <1>5
    <3>7. x \in expandMacro(entries'[k].cmd, entries'[k].args, ltable') /\ entries'[k].type = 0
      BY <2>1, <2>3, <3>1
    <3> QED
      BY <3>5, <3>6, <3>7 DEF isPlaced
  <2>4. CASE entries[k].type \notin {0, 1}
    <3>1. entries'[k].type # 0 /\ entries'[k].type # 1
      BY <2>1, <2>4
    <3> QED
      BY <3>1 DEF isPlaced
  <2> QED
    BY <2>2, <2>3, <2>4
<1>9. DOMAIN entries' = DOMAIN entries /\ \A k \in DOMAIN entries : k < i' => k < i \/ k = i
  BY <1>1, <1>3
<1>10. \A k \in DOMAIN entries : k < i' => isPlaced(k)'
  BY <1>7, <1>8, <1>9
<1> QED
  BY <1>1, <1>9, <1>10 DEF Placed

\* The steps after expandMacros leave every entry at its place.
LEMMA PlacedStep ==
  ASSUME TypeOK, PassOne, Layout, Placed, [Next]_vars
  PROVE  Placed'
<1>0. /\ newEntries \in Seq(Entry) /\ DOMAIN newEntries = 1..Len(newEntries)
      /\ DOMAIN entries = 1..Len(entries) /\ Len(entries) \in Nat /\ i \in Nat \ {0}
      /\ Len(newEntries) \in Nat
  BY PassReaches DEF TypeOK
<1>1. newEntries' \in Seq(Entry)
  BY TypeStep DEF TypeOK
<1>2. ASSUME UNCHANGED <<entries, ltable, before, spot>>, Len(newEntries') = Len(newEntries),
             \A p \in DOMAIN newEntries : entryStays(p),
             phase \notin {"getScript", "fillLabelTable"},
             phase' = "expandMacros" => phase = "expandMacros" /\ i' = i,
             phase = "expandMacros" => phase' = "expandMacros" \/ i \notin DOMAIN entries
      PROVE  Placed'
  <2> SUFFICES ASSUME NEW k \in DOMAIN entries, phase' = "expandMacros" => k < i'
               PROVE  isPlaced(k)'
    BY <1>2 DEF Placed
  <2>1. phase = "expandMacros" => k < i
    BY <1>0, <1>2
  <2>2. isPlaced(k)
    BY <1>2, <2>1 DEF Placed
  <2> QED
    BY <1>0, <1>1, <1>2, <2>2, StillPlaced
<1>3. ASSUME UNCHANGED <<phase, i, entries, ltable, before, spot, newEntries>>
      PROVE  Placed'
  <2>1. CASE phase \in {"getScript", "fillLabelTable"}
    BY <1>3, <2>1 DEF Placed
  <2>2. CASE phase \notin {"getScript", "fillLabelTable"}
    <3>1. \A p \in DOMAIN newEntries : entryStays(p)
      BY <1>3 DEF entryStays, argsOf, replaced
    <3> QED
      BY <1>2, <1>3, <2>2, <3>1
  <2> QED
    BY <2>1, <2>2
<1>4. ASSUME UNCHANGED <<entries, ltable, before, spot, newEntries>>,
             phase \in {"openBinary", "printToBinary"}, phase' \in {"openBinary", "printToBinary"}
      PROVE  Placed'
  <2>1. \A p \in DOMAIN newEntries : entryStays(p)
    BY <1>4 DEF entryStays, argsOf, replaced
  <2> QED
    BY <1>2, <1>4, <2>1
<1>5. CASE Reading
  <2>1. phase = "getScript"
    BY <1>5 DEF Reading, NoScript, ReadDirective, ReadLabel, ReadData, ReadInstr, EndOfFile,
                Running
  <2>2. CASE NoScript
    BY <1>3, <2>2 DEF NoScript, Crash, progVars, scriptVars, passVars, expandVars
  <2>3. CASE EndOfFile
    BY <2>3 DEF EndOfFile, Goto, Placed
  <2>4. ASSUME NEW ln \in Lines, ReadDirective(ln) \/ ReadLabel(ln) \/ ReadData(ln) \/ ReadInstr(ln)
        PROVE  phase' = phase
    BY <2>4 DEF ReadDirective, ReadLabel, ReadData, ReadInstr, Save, Exit1, progVars
  <2> QED
    BY <1>5, <2>1, <2>2, <2>3, <2>4 DEF Reading, Placed
<1>6. CASE Filling
  <2>1. CASE FillDone
    <3>1. phase' = "expandMacros" /\ i' = 1 /\ entries' = entries
      BY <2>1 DEF FillDone, Goto, scriptVars
    <3> QED
      BY <1>0, <3>1 DEF Placed
  <2>2. CASE FillLabel \/ FillItem \/ FillDirective
    BY <2>2 DEF FillLabel, FillItem, FillDirective, FillStep, Running, NextEntry, Placed
  <2> QED
    BY <1>6, <2>1, <2>2 DEF Filling
<1>7. CASE Expanding
  <2>1. CASE ExpandFails
    BY <1>3, <2>1 DEF ExpandFails, ErrorExit, progVars, scriptVars, passVars, expandVars
  <2>2. CASE ExpandDone
    <3>1. /\ phase = "expandMacros" /\ phase' = "replaceLabels" /\ i' = 1
          /\ i \notin DOMAIN entries /\ UNCHANGED <<entries, ltable, before, spot, newEntries>>
      BY <2>2 DEF ExpandDone, Running, Goto, AtEntry, scriptVars, passVars, expandVars
    <3>2. \A p \in DOMAIN newEntries : ~replaced(p) /\ ~replaced(p)'
      BY <1>0, <3>1 DEF replaced
    <3>3. \A p \in DOMAIN newEntries : entryStays(p)
      BY <3>1, <3>2 DEF entryStays, argsOf
    <3> QED
      BY <1>2, <3>1, <3>3
  <2> QED
    BY <1>7, <2>1, <2>2, PlacedByExpanding DEF Expanding
<1>8. CASE Replacing
  <2>1. CASE ReplaceFails \/ ReplaceWild \/ ReplaceOverrun
    BY <1>3, <2>1 DEF ReplaceFails, ReplaceWild, ReplaceOverrun, ErrorExit, Crash, progVars,
                      scriptVars, passVars, expandVars
  <2>2. CASE ReplaceEntry
    <3>1. /\ phase = "replaceLabels" /\ phase' = "replaceLabels" /\ i' = i + 1
          /\ i \in DOMAIN newEntries /\ UNCHANGED <<entries, ltable, before, spot>>
      BY <2>2 DEF ReplaceEntry, Running, AtEntry, NextEntry, scriptVars, passVars
    <3>2. PICK args \in replaceLabel(newEntries[i].args, ltable) :
            newEntries' = [newEntries EXCEPT ![i].args = args]
      BY <2>2 DEF ReplaceEntry
    <3>3. \A p \in DOMAIN newEntries : newEntries[p] \in Entry
      BY <1>0
    <3>4. \A p \in DOMAIN newEntries : /\ newEntries'[p].type = newEntries[p].type
                                       /\ newEntries'[p].cmd = newEntries[p].cmd
                                       /\ newEntries'[p].val = newEntries[p].val
                                       /\ newEntries'[p].args = IF p = i THEN args
                                                                ELSE newEntries[p].args
      BY <3>1, <3>2, <3>3 DEF Entry
    <3>5. \A p \in DOMAIN newEntries : /\ replaced(p) <=> p < i
                                       /\ replaced(p)' <=> p < i \/ p = i
      BY <1>0, <3>1 DEF replaced
    <3>6. ASSUME NEW p \in DOMAIN newEntries PROVE entryStays(p)
      <4>1. CASE p = i
        <5>1. ~replaced(p) /\ replaced(p)' /\ newEntries'[p].args = args
          BY <1>0, <3>4, <3>5, <4>1
        <5>2. \A a : argsOf(p, a) => newEntries[i].args = a
          BY <4>1, <5>1 DEF argsOf
        <5> QED
          BY <3>1, <3>2, <3>4, <5>1, <5>2 DEF entryStays, argsOf
      <4>2. CASE p # i
        <5>1. replaced(p)' = replaced(p) /\ newEntries'[p].args = newEntries[p].args
          BY <3>4, <3>5, <4>2 DEF replaced
        <5> QED
          BY <3>1, <3>4, <5>1 DEF entryStays, argsOf
      <4> QED
        BY <4>1, <4>2
    <3>7. Len(newEntries') = Len(newEntries)
      BY <1>0, <3>2
    <3> QED
      BY <1>2, <3>1, <3>6, <3>7
  <2>3. CASE ReplaceDone
    <3>1. /\ phase = "replaceLabels" /\ phase' = "openBinary"
          /\ i \notin DOMAIN newEntries /\ UNCHANGED <<entries, ltable, before, spot, newEntries>>
      BY <2>3 DEF ReplaceDone, Running, Goto, AtEntry, scriptVars, passVars, expandVars
    <3>2. \A p \in DOMAIN newEntries : replaced(p) /\ replaced(p)'
      BY <1>0, <3>1 DEF replaced
    <3>3. \A p \in DOMAIN newEntries : entryStays(p)
      BY <3>1, <3>2 DEF entryStays, argsOf
    <3> QED
      BY <1>2, <3>1, <3>3
  <2> QED
    BY <1>8, <2>1, <2>2, <2>3 DEF Replacing
<1>9. CASE Printing
  <2>1. CASE OpenFails \/ NoMemory \/ EmitFails \/ WriteOut
    BY <1>3, <2>1 DEF OpenFails, NoMemory, EmitFails, WriteOut, ErrorExit, Exit1, progVars,
                      scriptVars, passVars, expandVars
  <2>2. CASE OpenBinary \/ EmitData \/ EmitInstr \/ EmitNothing
    BY <1>4, <2>2 DEF OpenBinary, EmitData, EmitInstr, EmitNothing, Running, Goto, NextEntry,
                      scriptVars, passVars, expandVars
  <2> QED
    BY <1>9, <2>1, <2>2 DEF Printing
<1>10. CASE UNCHANGED vars
  BY <1>3, <1>10 DEF vars, progVars, scriptVars, passVars, expandVars
<1> QED
  BY <1>5, <1>6, <1>7, <1>8, <1>9, <1>10 DEF Next, Ended

---------------------------------------------------------------------------
(* The table the first pass has built says what the specification says *)

\* SetToSeq lists a finite set: every element has a place.
LEMMA SetToSeqLists ==
  ASSUME NEW S, IsFiniteSet(S)
  PROVE  /\ Abs!SetToSeq(S) \in Seq(S)
         /\ \A s \in S : \E n \in DOMAIN Abs!SetToSeq(S) : Abs!SetToSeq(S)[n] = s
<1>1. Abs!SetToSeq(S) = listOf(S)
  BY SameCardinality DEF Abs!SetToSeq, Abs!IsInjective, listOf
<1> QED
  BY <1>1, Listing

\* The least element that the specification chooses.
LEMMA MinOf ==
  ASSUME NEW S \in SUBSET Nat, S # {}
  PROVE  Abs!Min(S) \in S /\ \A m \in S : Abs!Min(S) <= m
<1>1. \E n \in S : \A m \in S : n <= m
  BY Least
<1>2. Abs!Min(S) = CHOOSE n \in S : \A m \in S : n <= m
  BY DEF Abs!Min
<1> QED
  BY <1>1, <1>2

\* Two tables that answer alike give the same rewritings.
sameAnswers(t, u) == \A l \in Labels : getintAddress(l, t) = getintAddress(l, u)

LEMMA SameRewritings ==
  ASSUME NEW t, NEW u, sameAnswers(t, u), NEW args \in Seq(Operand)
  PROVE  /\ \A c : expandMacro(c, args, t) = expandMacro(c, args, u)
         /\ replaceLabel(args, t) = replaceLabel(args, u)
<1>1. DOMAIN args = 1..Len(args) /\ Len(args) \in Nat /\ \A n \in DOMAIN args : args[n].l \in Labels
  <2>1. \A n \in DOMAIN args : args[n] \in Operand
    OBVIOUS
  <2>2. \A n \in DOMAIN args : args[n].l \in Labels
    BY <2>1 DEF Operand
  <2> QED
    BY <2>2
<1>2. ldValue(args, t) = ldValue(args, u)
  <2>1. CASE Len(args) = 2
    <3>1. 2 \in DOMAIN args /\ slot(args, 2) = args[2]
      BY <1>1, <2>1 DEF slot
    <3>2. getintAddress(slot(args, 2).l, t) = getintAddress(slot(args, 2).l, u)
      BY <1>1, <3>1 DEF sameAnswers
    <3> QED
      BY <3>2 DEF ldValue
  <2>2. CASE Len(args) # 2
    BY <2>2 DEF ldValue
  <2> QED
    BY <2>1, <2>2
<1>3. \A c : expandMacro(c, args, t) = expandMacro(c, args, u)
  BY <1>2 DEF expandMacro
<1>4. replaceLabel(args, t) = replaceLabel(args, u)
  <2>1. CASE Len(args) = 0
    <3>1. Len(args) \notin labelArgs(args)
      BY <1>1, <2>1 DEF labelArgs
    <3>2. labelArgs(args) # {Len(args)}
      BY <3>1
    <3> QED
      BY <3>2 DEF replaceLabel
  <2>2. CASE Len(args) # 0
    <3>1. Len(args) \in DOMAIN args
      BY <1>1, <2>2
    <3>2. getintAddress(args[Len(args)].l, t) = getintAddress(args[Len(args)].l, u)
      BY <1>1, <3>1 DEF sameAnswers
    <3> QED
      BY <3>2 DEF replaceLabel
  <2> QED
    BY <2>1, <2>2
<1> QED
  BY <1>3, <1>4

\* The rows of the specification's table.
rowOf(l) == [lbl |-> l, address |-> Abs!address(Abs!Min(Abs!itemsOf(l)))]
named    == {l \in Abs!names : Abs!itemsOf(l) # {}}

LEMMA MeaningRows ==
  ASSUME TypeOK
  PROVE  /\ Abs!meaning = {rowOf(l) : l \in named}
         /\ IsFiniteSet(Abs!meaning) /\ Abs!meaning \subseteq LabelRow
         /\ \A l : Abs!itemsOf(l) # {} => l \in named
<1>1. DOMAIN entries = 1..Len(entries) /\ Len(entries) \in Nat /\ \A k \in DOMAIN entries : entries[k] \in Entry
  BY DEF TypeOK
<1>2. Abs!meaning = {rowOf(l) : l \in named}
  BY DEF Abs!meaning, named, rowOf
<1>3. Abs!names \subseteq Labels /\ IsFiniteSet(Abs!names)
  <2> DEFINE D == {k \in DOMAIN entries : entries[k].type = 2}
             f == [k \in D |-> entries[k].lbl]
  <2>1. Abs!names = {entries[k].lbl : k \in D}
    BY DEF Abs!names
  <2>2. \A k \in D : entries[k].lbl \in Labels
    BY <1>1 DEF Entry
  <2>3. IsFiniteSet(1..Len(entries))
    BY <1>1, IntervalSize
  <2>4. D \in SUBSET (1..Len(entries))
    BY <1>1
  <2> HIDE DEF D
  <2>5. IsFiniteSet(D)
    BY <2>3, <2>4, FS_Subset
  <2>6. f \in [D -> Labels] /\ Abs!names = {f[k] : k \in D}
    BY <2>1, <2>2
  <2> HIDE DEF f
  <2>7. IsFiniteSet(Abs!names)
    BY <2>5, <2>6, FiniteRange
  <2> QED
    BY <2>1, <2>2, <2>7
<1>4. IsFiniteSet(named)
  <2>1. named \in SUBSET Abs!names
    BY DEF named
  <2> QED
    BY <1>3, <2>1, FS_Subset
<1>5. ASSUME NEW l \in named PROVE rowOf(l) \in LabelRow
  <2>1. l \in Labels /\ Abs!itemsOf(l) # {}
    BY <1>3 DEF named
  <2>2. Abs!itemsOf(l) \in SUBSET (Nat \ {0, 1})
    BY <1>1, FirstOf
  <2>3. Abs!itemsOf(l) \in SUBSET Nat
    BY <2>2
  <2>4. Abs!Min(Abs!itemsOf(l)) \in Nat \ {0, 1}
    BY <2>1, <2>2, <2>3, MinOf
  <2>5. \A k \in Nat \ {0, 1} : Abs!address(k) \in Nat
    <3> SUFFICES ASSUME NEW k \in Nat \ {0, 1} PROVE Abs!address(k) \in Nat
      OBVIOUS
    <3>1. k - 1 \in Nat
      OBVIOUS
    <3>2. Abs!codeUpTo(k - 1) \in Nat /\ Abs!dataUpTo(k - 1) \in Nat
      BY <3>1, CodeCount, DataCount
    <3> QED
      BY <3>2, LayoutAssumption DEF Abs!address
  <2> QED
    BY <2>1, <2>4, <2>5 DEF rowOf, LabelRow
<1>6. IsFiniteSet(Abs!meaning)
  <2> DEFINE f == [l \in named |-> rowOf(l)]
  <2>1. f \in [named -> LabelRow] /\ Abs!meaning = {f[l] : l \in named}
    BY <1>2, <1>5
  <2> HIDE DEF f
  <2> QED
    BY <1>4, <2>1, FiniteRange
<1>7. \A l : Abs!itemsOf(l) # {} => l \in named
  BY DEF Abs!itemsOf, Abs!written, Abs!names, named
<1> QED
  BY <1>2, <1>5, <1>6, <1>7

\* Once the pass has come past the last entry, both tables answer alike.
LEMMA TableOfMeaning ==
  ASSUME TypeOK, PassOne, Answers, phase \notin {"getScript", "fillLabelTable"}
  PROVE  sameAnswers(Abs!SetToSeq(Abs!meaning), ltable)
<1> DEFINE t == Abs!SetToSeq(Abs!meaning)
<1>1. /\ DOMAIN entries = 1..Len(entries) /\ Len(entries) \in Nat
      /\ Len(before) = Len(entries) + 1
  BY PassReaches DEF PassOne, ReachedByPassOne
<1>2. /\ t \in Seq(Abs!meaning) /\ t \in Seq(LabelRow)
      /\ \A r \in Abs!meaning : \E n \in DOMAIN t : t[n] = r
      /\ \A n \in DOMAIN t : t[n] \in Abs!meaning
  <2>1. /\ t \in Seq(Abs!meaning)
        /\ \A r \in Abs!meaning : \E n \in DOMAIN t : t[n] = r
    BY MeaningRows, SetToSeqLists
  <2> HIDE DEF t
  <2> QED
    BY <2>1, MeaningRows
<1> HIDE DEF t
<1> SUFFICES ASSUME NEW l \in Labels
             PROVE  getintAddress(l, t) = {Abs!address(j) : j \in firstOf(l)}
  BY DEF Answers, sameAnswers, t
<1>3. Abs!itemsOf(l) \in SUBSET Nat
  BY <1>1, FirstOf
<1>4. \A n \in DOMAIN t : t[n].lbl = l => l \in named /\ t[n] = rowOf(l)
  <2> SUFFICES ASSUME NEW n \in DOMAIN t, t[n].lbl = l PROVE l \in named /\ t[n] = rowOf(l)
    OBVIOUS
  <2>1. PICK m \in named : t[n] = rowOf(m)
    BY <1>2, MeaningRows
  <2>2. m = l
    BY <2>1 DEF rowOf
  <2> QED
    BY <2>1, <2>2
<1>5. CASE Abs!itemsOf(l) = {}
  <2>1. firstOf(l) = {} /\ l \notin named
    BY <1>5 DEF firstOf, named
  <2>2. getintAddress(l, t) = {}
    BY <1>2, <1>4, <2>1, FoundRows
  <2> QED
    BY <2>1, <2>2
<1>6. CASE Abs!itemsOf(l) # {}
  <2> DEFINE first == Abs!Min(Abs!itemsOf(l))
  <2>1. first \in Abs!itemsOf(l) /\ \A g \in Abs!itemsOf(l) : first <= g
    BY <1>3, <1>6, MinOf
  <2>2. first < Len(before)
    <3>1. first \in 1..Len(entries)
      <4>1. PICK k \in Abs!written(l) : first \in Abs!next(k)
        BY <2>1 DEF Abs!itemsOf
      <4>2. k \in 1..Len(entries) /\ first \in (k + 1)..Len(entries)
        BY <1>1, <4>1 DEF Abs!written, Abs!next
      <4> QED
        BY <1>1, <4>2
    <3> QED
      BY <1>1, <3>1
  <2> HIDE DEF first
  <2>3. first \in firstOf(l)
    BY <2>1, <2>2 DEF firstOf
  <2>4. firstOf(l) = {first}
    BY <1>1, <2>3, FirstOf
  <2>5. rowOf(l) \in Abs!meaning
    BY <1>6, MeaningRows
  <2>6. rowOf(l).lbl = l /\ rowOf(l).address = Abs!address(first)
    BY DEF rowOf, first
  <2>7. getintAddress(l, t) # {}
    BY <1>2, <2>5, <2>6, FoundRows
  <2>8. PICK n \in Found(l, t) : TRUE
    BY <2>7 DEF getintAddress
  <2>9. n \in DOMAIN t /\ t[n].lbl = l
    BY DEF Found
  <2>10. getintAddress(l, t) = {t[n].address} /\ t[n] = rowOf(l)
    BY <1>2, <1>4, <2>9, FoundRows
  <2> QED
    BY <2>4, <2>6, <2>10
<1> QED
  BY <1>5, <1>6

---------------------------------------------------------------------------
(* The image *)

\* The specification's own copies of the macros and of the encoder.
LEMMA SameMacros ==
  /\ \A c, args, t : Abs!expandMacro(c, args, t) = expandMacro(c, args, t)
  /\ \A args, t : Abs!replaceLabel(args, t) = replaceLabel(args, t)
<1>1. \A c, args, t : Abs!expandMacro(c, args, t) = expandMacro(c, args, t)
  BY DEF Abs!expandMacro, expandMacro, Abs!xor, xor, Abs!priv, priv, Abs!push, push, Abs!pop, pop,
         Abs!ld, ld, Abs!ldValue, ldValue, Abs!registerOf, registerOf, Abs!looseRegister,
         looseRegister, Abs!Instr, Instr, Abs!Reg, Reg, Abs!Lit, Lit, Abs!Mem, Mem, Abs!slot, slot,
         Abs!isRegister, isRegister, Abs!NREGS, NREGS, Abs!NoLabel, NoLabel, Abs!parseLiteral,
         parseLiteral, Abs!getintAddress, getintAddress, Abs!Found, Found
<1>2. \A args, t : Abs!replaceLabel(args, t) = replaceLabel(args, t)
  BY DEF Abs!replaceLabel, replaceLabel, Abs!labelArgs, labelArgs, Abs!isLabelArg, isLabelArg,
         Abs!withLast, withLast, Abs!Lit, Lit, Abs!NoLabel, NoLabel, Abs!getintAddress,
         getintAddress, Abs!Found, Found
<1> QED
  BY <1>1, <1>2

LEMMA SameEncoder ==
  /\ \A c, args : Abs!getInstruction(c, args) = getInstruction(c, args)
  /\ \A w : Abs!Encoded(w) = Encoded(w)
  /\ \A c : Abs!cnt(c) = cnt(c)
<1>1. \A c, args : Abs!getInstruction(c, args) = getInstruction(c, args)
  BY DEF Abs!getInstruction, getInstruction, Abs!getMovInstruction, getMovInstruction,
         Abs!getBrrInstruction, getBrrInstruction, Abs!getPlainInstruction, getPlainInstruction,
         Abs!movMem, movMem, Abs!movLit, movLit, Abs!slot, slot, Abs!Lit, Lit, Abs!NoLabel, NoLabel,
         Abs!instructionList, instructionList, Abs!isRegister, isRegister, Abs!NREGS, NREGS,
         Abs!Encoded, Encoded, Abs!Exit, Exit, Abs!Error, Error, Abs!NoWord, NoWord,
         Abs!build_instruction, build_instruction, Abs!parseLiteral, parseLiteral, Abs!toInt, toInt,
         Abs!toLL, toLL, Abs!checkSigned, checkSigned, Abs!checkUnsigned, checkUnsigned,
         Abs!arglenth, arglenth, Abs!hasLit, hasLit, Abs!asmOpcode, asmOpcode
<1>2. \A w : Abs!Encoded(w) = Encoded(w)
  BY DEF Abs!Encoded, Encoded, Abs!NoWord, NoWord
<1>3. \A c : Abs!cnt(c) = cnt(c)
  BY DEF Abs!cnt, cnt
<1> QED
  BY <1>1, <1>2, <1>3

\* The sections of the image, and the part of each that an entry takes.
LEMMA Sections ==
  ASSUME TypeOK, PassOne, phase \notin {"getScript", "fillLabelTable"}
  PROVE  LET n == Len(entries) IN
         /\ n \in Nat /\ DOMAIN entries = 1..n /\ DOMAIN before = 1..(n + 1)
         /\ Abs!codeUpTo(n) \in Nat /\ codeSize = 4 * Abs!codeUpTo(n)
         /\ Abs!dataUpTo(n) \in Nat /\ dataSize = 8 * Abs!dataUpTo(n)
         /\ \A k \in 1..n :
              /\ Abs!codeUpTo(k - 1) \in Nat /\ before[k].code = 4 * Abs!codeUpTo(k - 1)
              /\ Abs!dataUpTo(k - 1) \in Nat /\ before[k].data = 8 * Abs!dataUpTo(k - 1)
              /\ Abs!codeUpTo(k) = Abs!codeUpTo(k - 1) + Abs!words(k)
              /\ entries[k].type = 1 => Abs!dataUpTo(k) = Abs!dataUpTo(k - 1) + 1
              /\ Abs!codeUpTo(k) <= Abs!codeUpTo(n) /\ Abs!dataUpTo(k) <= Abs!dataUpTo(n)
              /\ Abs!words(k) \in 0..12
<1> DEFINE n == Len(entries)
<1>1. /\ n \in Nat /\ DOMAIN entries = 1..n /\ DOMAIN before = 1..(n + 1) /\ Len(before) = n + 1
  <2>1. Len(before) = n + 1
    BY DEF PassOne, ReachedByPassOne
  <2> QED
    BY <2>1, PassReaches
<1> HIDE DEF n
<1>2. before[n + 1] = [code |-> codeSize, data |-> dataSize]
  BY <1>1 DEF PassOne
<1>3. \A k \in 1..(n + 1) : before[k].code = 4 * Abs!codeUpTo(k - 1)
                            /\ before[k].data = 8 * Abs!dataUpTo(k - 1)
  BY <1>1, PassOneCounts DEF Counted
<1>4. \A k \in 1..(n + 1) : before[k].code <= codeSize /\ before[k].data <= dataSize
  BY <1>1 DEF PassOne, Inside
<1>5. \A k \in Nat : Abs!codeUpTo(k) \in Nat /\ Abs!dataUpTo(k) \in Nat
  BY CodeCount, DataCount
<1>6. (n + 1) - 1 = n /\ n + 1 \in 1..(n + 1)
  BY <1>1
<1>7. codeSize = 4 * Abs!codeUpTo(n) /\ dataSize = 8 * Abs!dataUpTo(n)
  BY <1>2, <1>3, <1>6
<1>8. ASSUME NEW k \in 1..n
      PROVE  /\ Abs!codeUpTo(k - 1) \in Nat /\ before[k].code = 4 * Abs!codeUpTo(k - 1)
             /\ Abs!dataUpTo(k - 1) \in Nat /\ before[k].data = 8 * Abs!dataUpTo(k - 1)
             /\ Abs!codeUpTo(k) = Abs!codeUpTo(k - 1) + Abs!words(k)
             /\ entries[k].type = 1 => Abs!dataUpTo(k) = Abs!dataUpTo(k - 1) + 1
             /\ Abs!codeUpTo(k) <= Abs!codeUpTo(n) /\ Abs!dataUpTo(k) <= Abs!dataUpTo(n)
             /\ Abs!words(k) \in 0..12
  <2>1. PICK m \in Nat : m = k - 1 /\ k = m + 1 /\ k \in Nat /\ k \in 1..(n + 1) /\ k + 1 \in 1..(n + 1)
                         /\ (k + 1) - 1 = k
    BY <1>1
  <2>2. before[k].code = 4 * Abs!codeUpTo(m) /\ before[k].data = 8 * Abs!dataUpTo(m)
    BY <1>3, <2>1
  <2>3. Abs!codeUpTo(k) = Abs!codeUpTo(m) + Abs!words(k)
    BY <2>1, CodeCount
  <2>4. entries[k].type = 1 => Abs!dataUpTo(k) = Abs!dataUpTo(m) + 1
    <3>1. 8 * Abs!dataUpTo(k) = 8 * Abs!dataUpTo(m) + dataBytes(entries[k])
      BY <2>1, DataCount
    <3>2. Abs!dataUpTo(k) \in Nat /\ Abs!dataUpTo(m) \in Nat
      BY <1>5, <2>1
    <3> QED
      BY <3>1, <3>2 DEF dataBytes
  <2>5. /\ 4 * Abs!codeUpTo(k) <= 4 * Abs!codeUpTo(n)
        /\ 8 * Abs!dataUpTo(k) <= 8 * Abs!dataUpTo(n)
    BY <1>3, <1>4, <1>7, <2>1
  <2>6. Abs!codeUpTo(k) <= Abs!codeUpTo(n) /\ Abs!dataUpTo(k) <= Abs!dataUpTo(n)
    <3>1. \A a, b \in Nat : (4 * a <= 4 * b => a <= b) /\ (8 * a <= 8 * b => a <= b)
      OBVIOUS
    <3>2. /\ Abs!codeUpTo(k) \in Nat /\ Abs!codeUpTo(n) \in Nat
          /\ Abs!dataUpTo(k) \in Nat /\ Abs!dataUpTo(n) \in Nat
      BY <1>1, <1>5, <2>1
    <3> QED
      BY <2>5, <3>1, <3>2
  <2> QED
    BY <1>5, <2>1, <2>2, <2>3, <2>4, <2>6, WordsOf
<1> QED
  BY <1>1, <1>5, <1>7, <1>8 DEF n

\* What stands in the image, word by word and datum by datum.
LEMMA ImageParts ==
  ASSUME TypeOK, PassOne, phase \notin {"getScript", "fillLabelTable"}
  PROVE  /\ imageOut.code \in Seq({mem[o].w : o \in Nat})
         /\ Len(imageOut.code) = Abs!codeUpTo(Len(entries))
         /\ \A q \in 1..Abs!codeUpTo(Len(entries)) :
              imageOut.code[q] = mem[HEADER + 4 * (q - 1)].w
         /\ Len(imageOut.data) = Abs!dataUpTo(Len(entries))
         /\ \A q \in 1..Abs!dataUpTo(Len(entries)) :
              imageOut.data[q] = mem[HEADER + codeSize + 8 * (q - 1)].v
<1> DEFINE c == Abs!codeUpTo(Len(entries))
           d == Abs!dataUpTo(Len(entries))
<1>1. c \in Nat /\ codeSize = 4 * c /\ d \in Nat /\ dataSize = 8 * d
  BY Sections
<1> HIDE DEF c, d
<1>2. codeSize \div 4 = c /\ dataSize \div 8 = d
  BY <1>1
<1>3. imageOut.code = [q \in 1..c |-> mem[HEADER + 4 * (q - 1)].w]
  BY <1>2 DEF imageOut, section
<1>4. imageOut.data = [q \in 1..d |-> mem[HEADER + codeSize + 8 * (q - 1)].v]
  BY <1>2 DEF imageOut, section
<1>5. \A q \in 1..c : HEADER + 4 * (q - 1) \in Nat
  BY <1>1 DEF HEADER
<1>6. imageOut.code \in Seq({mem[o].w : o \in Nat}) /\ Len(imageOut.code) = c
  <2> DEFINE W == {mem[o].w : o \in Nat}
             f == [q \in 1..c |-> mem[HEADER + 4 * (q - 1)].w]
  <2>1. \A q \in 1..c : f[q] \in W
    BY <1>5
  <2>2. DOMAIN f = 1..c /\ f = [q \in DOMAIN f |-> f[q]]
    OBVIOUS
  <2> HIDE DEF f, W
  <2>3. f \in [1..c -> W]
    BY <2>1, <2>2
  <2>4. f \in Seq(W) /\ Len(f) = c
    BY <1>1, <2>3
  <2> QED
    BY <1>3, <2>4 DEF f, W
<1>7. Len(imageOut.data) = d
  <2> DEFINE g == [q \in 1..d |-> mem[HEADER + codeSize + 8 * (q - 1)].v]
  <2>1. DOMAIN g = 1..d
    OBVIOUS
  <2>2. Len(g) = d
    BY <1>1, <2>1
  <2> QED
    BY <1>4, <2>2
<1> QED
  BY <1>3, <1>4, <1>6, <1>7 DEF c, d

\* A datum stands where the specification puts it.
LEMMA DatumInPlace ==
  ASSUME TypeOK, PassOne, Layout, Placed, Emitted, phase = "printToBinary",
         i \notin DOMAIN newEntries, NEW k \in DOMAIN entries, entries[k].type = 1
  PROVE  imageOut.data[Abs!dataUpTo(k)] = entries[k].val
<1> DEFINE d == Abs!dataUpTo(k - 1)
<1>1. /\ d \in Nat /\ before[k].data = 8 * d
      /\ Abs!dataUpTo(k) = d + 1 /\ Abs!dataUpTo(k) <= Abs!dataUpTo(Len(entries))
      /\ Abs!dataUpTo(Len(entries)) \in Nat
  BY Sections
<1> HIDE DEF d
<1>2. PICK m \in DOMAIN newEntries : /\ newEntries[m].type = 1
                                     /\ newEntries[m].val = entries[k].val
                                     /\ spot[m] = before[k]
  BY DEF Placed, isPlaced
<1>3. m < i
  <2>1. DOMAIN newEntries = 1..Len(newEntries) /\ Len(newEntries) \in Nat /\ i \in Nat \ {0}
    BY DEF TypeOK
  <2> QED
    BY <2>1
<1>4. mem[datumAt(m)].v = entries[k].val
  BY <1>2, <1>3 DEF Emitted
<1>5. datumAt(m) = HEADER + codeSize + 8 * d
  BY <1>1, <1>2 DEF datumAt
<1>6. imageOut.data[d + 1] = mem[HEADER + codeSize + 8 * ((d + 1) - 1)].v
  <2>1. d + 1 \in 1..Abs!dataUpTo(Len(entries))
    BY <1>1
  <2> QED
    BY <2>1, ImageParts
<1>7. (d + 1) - 1 = d
  BY <1>1
<1> QED
  BY <1>1, <1>4, <1>5, <1>6, <1>7

\* The words of an instruction stand where the specification puts them, and are the
\* words its expansion is encoded as.
LEMMA WordsInPlace ==
  ASSUME TypeOK, PassOne, Layout, Answers, Placed, Emitted, phase = "printToBinary",
         i \notin DOMAIN newEntries, NEW k \in DOMAIN entries, entries[k].type = 0
  PROVE  Abs!encodes(entries[k].cmd, entries[k].args, Abs!SetToSeq(Abs!meaning),
                     SubSeq(imageOut.code, Abs!codeUpTo(k - 1) + 1, Abs!codeUpTo(k)))
<1> DEFINE c     == Abs!codeUpTo(k - 1)
           size  == Abs!words(k)
           ws    == SubSeq(imageOut.code, c + 1, Abs!codeUpTo(k))
           table == Abs!SetToSeq(Abs!meaning)
<1>1. /\ c \in Nat /\ size \in 0..12 /\ before[k].code = 4 * c
      /\ Abs!codeUpTo(k) = c + size /\ c + size <= Abs!codeUpTo(Len(entries))
      /\ Abs!codeUpTo(Len(entries)) \in Nat
  BY Sections
<1>2. size = cnt(entries[k].cmd)
  BY SameEncoder DEF Abs!words
<1>3. /\ entries[k].cmd \in Commands /\ entries[k].args \in Seq(Operand)
      /\ ltable \in Seq(LabelRow)
  <2>1. entries[k] \in Entry /\ ltable \in Seq(LabelRow)
    BY DEF TypeOK
  <2> QED
    BY <2>1 DEF Entry
<1> HIDE DEF c, size
<1>4. PICK x \in expandMacro(entries[k].cmd, entries[k].args, ltable) :
        \E m \in 0..Len(newEntries) : standsAt(x, k, m)
  BY DEF Placed, isPlaced
<1>5. PICK m \in 0..Len(newEntries) : standsAt(x, k, m)
  BY <1>4
<1>6. x \in Seq(Operation) /\ Len(x) = size /\ DOMAIN x = 1..size
  <2>1. x \in Seq(Operation) /\ Len(x) = cnt(entries[k].cmd)
    BY <1>3, <1>4, ExpansionType
  <2> QED
    BY <1>2, <2>1
<1>7. sameAnswers(table, ltable)
  BY TableOfMeaning
<1>8. /\ Len(ws) = size
      /\ \A n \in 1..size : ws[n] = mem[HEADER + 4 * c + 4 * (n - 1)].w
  <2>1. /\ Len(imageOut.code) = Abs!codeUpTo(Len(entries))
        /\ imageOut.code \in Seq({mem[o].w : o \in Nat})
        /\ \A q \in 1..Abs!codeUpTo(Len(entries)) :
              imageOut.code[q] = mem[HEADER + 4 * (q - 1)].w
    BY ImageParts
  <2> DEFINE s == imageOut.code
  <2> HIDE DEF s
  <2>2. /\ Len(SubSeq(s, c + 1, c + size)) = size
        /\ \A n \in 1..size : SubSeq(s, c + 1, c + size)[n] = s[c + n]
    <3>1. s \in Seq({mem[o].w : o \in Nat}) /\ c + size <= Len(s)
      BY <1>1, <2>1 DEF s
    <3> QED
      BY <1>1, <3>1, PartOf
  <2>3. \A n \in 1..size : /\ c + n \in 1..Abs!codeUpTo(Len(entries))
                           /\ 4 * ((c + n) - 1) = 4 * c + 4 * (n - 1)
    BY <1>1
  <2>4. \A n \in 1..size : s[c + n] = mem[HEADER + (4 * c + 4 * (n - 1))].w
    BY <2>1, <2>3 DEF s
  <2>5. \A n \in 1..size : HEADER + (4 * c + 4 * (n - 1)) = HEADER + 4 * c + 4 * (n - 1)
    BY <1>1 DEF HEADER
  <2>6. ws = SubSeq(s, c + 1, c + size)
    BY <1>1 DEF s
  <2>7. \A n \in 1..size : s[c + n] = mem[HEADER + 4 * c + 4 * (n - 1)].w
    BY <2>4, <2>5
  <2> HIDE DEF ws
  <2> QED
    BY <2>2, <2>6, <2>7
<1> HIDE DEF ws, table
<1>9. ASSUME NEW n \in DOMAIN x
      PROVE  \E a \in replaceLabel(x[n].args, ltable) :
               getInstruction(x[n].cmd, a) = Encoded(ws[n])
  <2> DEFINE p == m + n
  <2>1. /\ p \in DOMAIN newEntries
        /\ newEntries[p].type = 0 /\ newEntries[p].cmd = x[n].cmd
        /\ newEntries[p].args \in IF replaced(p) THEN replaceLabel(x[n].args, ltable)
                                                 ELSE {x[n].args}
        /\ spot[p].code = before[k].code + 4 * (n - 1)
    BY <1>5 DEF standsAt
  <2> HIDE DEF p
  <2>2. newEntries[p].args \in replaceLabel(x[n].args, ltable)
    BY <2>1 DEF replaced
  <2>3. p < i
    <3>1. DOMAIN newEntries = 1..Len(newEntries) /\ Len(newEntries) \in Nat /\ i \in Nat \ {0}
      BY DEF TypeOK
    <3> QED
      BY <2>1, <3>1
  <2>4. getInstruction(newEntries[p].cmd, newEntries[p].args) = Encoded(mem[wordAt(p)].w)
    BY <2>1, <2>3 DEF Emitted
  <2>5. wordAt(p) = HEADER + 4 * c + 4 * (n - 1)
    <3>1. wordAt(p) = HEADER + (4 * c + 4 * (n - 1)) /\ n \in Nat
      BY <1>1, <1>6, <2>1 DEF wordAt
    <3> QED
      BY <1>1, <3>1 DEF HEADER
  <2>6. ws[n] = mem[wordAt(p)].w
    BY <1>6, <1>8, <2>5
  <2> QED
    BY <2>1, <2>2, <2>4, <2>6
<1>10. \A n \in DOMAIN x : replaceLabel(x[n].args, table) = replaceLabel(x[n].args, ltable)
  <2> SUFFICES ASSUME NEW n \in DOMAIN x
               PROVE  replaceLabel(x[n].args, table) = replaceLabel(x[n].args, ltable)
    OBVIOUS
  <2>1. x[n].args \in Seq(Operand)
    <3>1. x[n] \in Operation
      BY <1>6
    <3> QED
      BY <3>1 DEF Operation
  <2> QED
    BY <1>7, <2>1, SameRewritings
<1>11. x \in Abs!expandMacro(entries[k].cmd, entries[k].args, table)
  BY <1>3, <1>4, <1>7, SameRewritings, SameMacros
<1>12. \A n \in DOMAIN x : \E a \in Abs!replaceLabel(x[n].args, table) :
         Abs!getInstruction(x[n].cmd, a) = Abs!Encoded(ws[n])
  BY <1>9, <1>10, SameMacros, SameEncoder
<1>13. Abs!encodes(entries[k].cmd, entries[k].args, table, ws)
  BY <1>6, <1>8, <1>11, <1>12 DEF Abs!encodes
<1> QED
  BY <1>13 DEF ws, c, table

\* What the second pass leaves is an image of the script.
LEMMA ImageIsRight ==
  ASSUME TypeOK, PassOne, Layout, Answers, Placed, Emitted, phase = "printToBinary",
         i \notin DOMAIN newEntries
  PROVE  Abs!isImage(imageOut)
  BY ImageParts, DatumInPlace, WordsInPlace DEF Abs!isImage

---------------------------------------------------------------------------
(* The theorems *)

\* The first pass finds for each name the first item that follows it, and the rewriting
\* puts every entry where the prefix sums of the script say.
THEOREM RefiningAlways ==
  ASSUME "bang" \notin StaleTexts
  PROVE  Spec => []Refining
<1> DEFINE Parts == Pending /\ Answers /\ Placed
<1>1. Init => Parts
  <2> SUFFICES ASSUME Init PROVE Parts
    OBVIOUS
  <2>1. entries = <<>> /\ labelbuf = <<>> /\ ltable = <<>> /\ Len(before) = 1 /\ phase = "getScript"
    BY DEF Init
  <2>2. Pending
    BY <2>1 DEF Pending
  <2>3. \A l : firstOf(l) = {} /\ getintAddress(l, ltable) = {}
    BY <2>1 DEF firstOf, Abs!itemsOf, Abs!written, getintAddress, Found
  <2>4. Answers /\ Placed
    BY <2>1, <2>3 DEF Answers, Placed
  <2> QED
    BY <2>2, <2>4
<1>2. TypeOK /\ PassOne /\ Inductive /\ Parts /\ [Next]_vars => Parts'
  <2>1. Inductive => Layout
    BY DEF Inductive, Layout
  <2> QED
    BY <2>1, PendingStep, AnswersStep, PlacedStep
<1>3. TypeOK /\ PassOne /\ Parts => Refining
  BY PassOneCounts DEF Refining
<1> QED
  BY <1>1, <1>2, <1>3, TypeCorrect, LayoutInvariant, PTL DEF Spec

\* The kinds of steps that the specification can tell apart.
LEMMA VisibleSteps ==
  ASSUME [Next]_vars
  PROVE  \/ status = "running" /\ status' = "running" /\ entries' = entries
         \/ status = "running" /\ status' = "running" /\ \E e : entries' = Append(entries, e)
         \/ status = "running" /\ status' \in {"failed", "crashed"} /\ entries' = entries
         \/ WriteOut
         \/ UNCHANGED vars
<1>1. CASE Reading
  <2>1. CASE NoScript
    BY <2>1 DEF NoScript, Running, Crash, scriptVars
  <2>2. CASE EndOfFile
    BY <2>2 DEF EndOfFile, Running, scriptVars
  <2>3. ASSUME NEW ln \in Lines, ReadDirective(ln)
        PROVE  status = "running" /\ status' = status /\ \E e : entries' = Append(entries, e)
    BY <2>3 DEF ReadDirective, Running, Save
  <2>4. ASSUME NEW ln \in Lines, ReadLabel(ln) \/ ReadData(ln) \/ ReadInstr(ln)
        PROVE  /\ status = "running"
               /\ \/ status' = status /\ \E e : entries' = Append(entries, e)
                  \/ status' = "failed" /\ entries' = entries
    BY <2>4 DEF ReadLabel, ReadData, ReadInstr, Running, Save, Exit1, scriptVars
  <2> QED
    BY <1>1, <2>1, <2>2, <2>3, <2>4 DEF Reading
<1>2. CASE Filling
  BY <1>2 DEF Filling, FillLabel, FillItem, FillDirective, FillDone, FillStep, Running, scriptVars
<1>3. CASE Expanding
  BY <1>3 DEF Expanding, ExpandEntry, ExpandFails, ExpandDone, ErrorExit, Running, scriptVars
<1>4. CASE Replacing
  BY <1>4 DEF Replacing, ReplaceEntry, ReplaceFails, ReplaceWild, ReplaceOverrun, ReplaceDone,
              ErrorExit, Crash, Running, scriptVars
<1>5. CASE Printing
  BY <1>5 DEF Printing, OpenBinary, OpenFails, NoMemory, EmitData, EmitInstr, EmitFails, EmitNothing,
              ErrorExit, Exit1, Running, scriptVars
<1>6. CASE UNCHANGED vars
  BY <1>6
<1> QED
  BY <1>1, <1>2, <1>3, <1>4, <1>5, <1>6 DEF Next, Ended

\* A step of the assembler is a step of its specification, or none.
outcome == CASE status = "running" -> "pending"
             [] status = "ok"      -> "image"
             [] OTHER              -> "rejected"
visible == IF status = "ok" THEN imageOut ELSE [code |-> <<>>, data |-> <<>>]

LEMMA StepRefines ==
  ASSUME TypeOK, PassOne, Layout, Emitted, Answers, Placed, [Next]_vars
  PROVE  Abs!Next \/ UNCHANGED <<entries, outcome, visible>>
<1>1. CASE status = "running" /\ status' = "running" /\ entries' = entries
  BY <1>1 DEF outcome, visible
<1>2. CASE status = "running" /\ status' = "running" /\ \E e : entries' = Append(entries, e)
  <2>1. PICK e : entries' = Append(entries, e)
    BY <1>2
  <2>2. entries \in Seq(Entry)
    BY DEF TypeOK
  <2>3. entries' # <<>> /\ Abs!Front(entries') = entries
    <3>1. Len(entries') = Len(entries) + 1 /\ Len(entries) \in Nat
      BY <2>1, <2>2
    <3>2. Abs!Front(entries') = SubSeq(entries', 1, Len(entries') - 1)
      BY DEF Abs!Front
    <3>3. SubSeq(Append(entries, e), 1, Len(entries)) = entries
      BY <2>2
    <3> QED
      BY <2>1, <3>1, <3>2, <3>3
  <2>4. Abs!ReadEntry
    BY <1>2, <2>3 DEF Abs!ReadEntry
  <2> QED
    BY <2>4 DEF Abs!Next
<1>3. CASE status = "running" /\ status' \in {"failed", "crashed"} /\ entries' = entries
  <2>1. Abs!Reject
    BY <1>3 DEF Abs!Reject
  <2> QED
    BY <2>1 DEF Abs!Next
<1>4. CASE WriteOut
  <2>1. /\ status = "running" /\ status' = "ok" /\ entries' = entries
        /\ phase = "printToBinary" /\ i \notin DOMAIN newEntries
        /\ UNCHANGED <<mem, codeSize, dataSize>>
    BY <1>4 DEF WriteOut, Running, AtEntry, scriptVars, passVars, printVars
  <2>2. imageOut' = imageOut
    BY <2>1 DEF imageOut, section
  <2>3. Abs!isImage(imageOut)
    BY <2>1, ImageIsRight
  <2>4. Abs!Assemble
    BY <2>1, <2>2, <2>3 DEF Abs!Assemble
  <2> QED
    BY <2>4 DEF Abs!Next
<1>5. CASE UNCHANGED vars
  <2>1. UNCHANGED <<entries, status, mem, codeSize, dataSize>>
    BY <1>5 DEF vars, scriptVars, passVars, printVars
  <2> QED
    BY <2>1 DEF outcome, visible, imageOut, section
<1> QED
  BY <1>1, <1>2, <1>3, <1>4, <1>5, VisibleSteps

\* For every script: what the two passes write is the image of the one-step
\* specification, and a script that has none is rejected.
THEOREM AssemblerRefines ==
  ASSUME "bang" \notin StaleTexts
  PROVE  Spec => OneStep
<1>1. Init => Abs!Init
  BY DEF Init, Abs!Init, Abs!NoImage
<1>2. TypeOK /\ PassOne /\ Inductive /\ Emitted /\ Refining /\ [Next]_vars
      => Abs!Next \/ UNCHANGED <<entries, outcome, visible>>
  <2>1. Inductive => Layout
    BY DEF Inductive, Layout
  <2>2. Refining => Answers /\ Placed
    BY DEF Refining
  <2> QED
    BY <2>1, <2>2, StepRefines
<1> QED
  BY <1>1, <1>2, TypeCorrect, LayoutInvariant, EmittedAlways, RefiningAlways, PTL
     DEF Spec, OneStep, Abs!Spec, outcome, visible

---------------------------------------------------------------------------
(* The instructions of ld *)

\* A shift by the width of a chunk and the addition of that chunk put back what a
\* division has taken away.
LEMMA ShiftAndAdd ==
  ASSUME NEW y \in 0..(WORD - 1), NEW w \in Nat, 0 < w, NEW b, 2^b = w, NEW p,
         newEntries[p].cmd = "shftli", newEntries[p].args[2].v = b,
         newEntries[p + 1].cmd = "addi", newEntries[p + 1].args[2].v = y % w
  PROVE  pair(y \div w, p) = y
<1> DEFINE z == (y \div w) * w
           c == y % w
<1>1. WORD \in Nat /\ 0 < WORD
  BY WidthAssumption
<1>2. z \in Nat /\ c \in Nat /\ z <= y /\ z + c = y
  BY Division
<1>3. after(y \div w, newEntries[p]) = z % WORD
  BY DEF after
<1> HIDE DEF z
<1>4. after(z, newEntries[p + 1]) = (z + c) % WORD
  BY DEF after
<1> HIDE DEF c
<1>5. z % WORD = z
  BY <1>1, <1>2
<1>6. y % WORD = y
  BY <1>1
<1> QED
  BY <1>2, <1>3, <1>4, <1>5, <1>6 DEF pair

\* The twelve instructions from entry m on are those of ld for v.
isLd(m, rd, v) ==
  \A n \in 1..12 : /\ newEntries[(m - 1) + n].cmd = ld(rd, v)[n].cmd
                   /\ newEntries[(m - 1) + n].args = ld(rd, v)[n].args

LEMMA LdBuilds ==
  ASSUME NEW m \in Nat, NEW rd, NEW v \in 0..(WORD - 1), isLd(m, rd, v)
  PROVE  built(m) = v /\ \A n \in 0..11 : newEntries[m + n].args[1] = rd
<1> DEFINE e(n)  == newEntries[m + n]
           add(n, x)   == e(n).cmd = "addi" /\ e(n).args = <<rd, Lit(x)>>
           shift(n, x) == e(n).cmd = "shftli" /\ e(n).args = <<rd, Lit(x)>>
<1>1. \A n \in 1..12 : e(n - 1).cmd = ld(rd, v)[n].cmd /\ e(n - 1).args = ld(rd, v)[n].args
  BY DEF isLd
<1>2. /\ e(0).cmd = "xor" /\ e(0).args = <<rd, rd, rd>>
      /\ add(1, rest4(v) % IMM) 
      /\ shift(2, IMM_BITS) /\ add(3, rest3(v) % IMM)
      /\ shift(4, IMM_BITS) /\ add(5, rest2(v) % IMM)
      /\ shift(6, IMM_BITS) /\ add(7, rest1(v) % IMM)
      /\ shift(8, IMM_BITS) /\ add(9, rest0(v) % IMM)
      /\ shift(10, LOW_BITS) /\ add(11, v % LOW)
  BY <1>1 DEF ld, Instr, rest0, rest1, rest2, rest3, rest4
<1>3. \A n \in 0..11 : e(n).args[1] = rd
  BY <1>2
<1> DEFINE value(n, x) == e(n).args[2].v = x
<1>4. /\ value(1, rest4(v))
      /\ value(2, IMM_BITS) /\ value(3, rest3(v) % IMM) /\ value(4, IMM_BITS) /\ value(5, rest2(v) % IMM)
      /\ value(6, IMM_BITS) /\ value(7, rest1(v) % IMM) /\ value(8, IMM_BITS) /\ value(9, rest0(v) % IMM)
      /\ value(10, LOW_BITS) /\ value(11, v % LOW)
  BY <1>2, Chunks DEF Lit
<1>5. /\ 2^IMM_BITS = IMM /\ 2^LOW_BITS = LOW
      /\ IMM \in Nat /\ 0 < IMM /\ LOW \in Nat /\ 0 < LOW
      /\ WORD \in Nat /\ 0 < WORD
  BY WidthAssumption, ChunkAssumption, LdAssumption
<1>6. pair(0, m) = rest4(v)
  <2>1. after(0, newEntries[m]) = 0
    BY <1>2 DEF after
  <2>2. after(0, newEntries[m + 1]) = (0 + rest4(v)) % WORD
    BY <1>2, <1>4 DEF after
  <2>3. rest4(v) \in 0..(WORD - 1)
    BY Chunks
  <2> HIDE DEF e
  <2>4. (0 + rest4(v)) % WORD = rest4(v)
    BY <1>5, <2>3
  <2> QED
    BY <2>1, <2>2, <2>4 DEF pair
<1>7. pair(rest4(v), m + 2) = rest3(v)
  <2>1. rest4(v) = rest3(v) \div IMM /\ rest3(v) \in 0..(WORD - 1)
    BY Chunks DEF rest4
  <2> DEFINE p == m + 2
  <2>2. p + 1 = m + 3
    OBVIOUS
  <2>3. /\ newEntries[p].cmd = "shftli" /\ newEntries[p].args[2].v = IMM_BITS
        /\ newEntries[p + 1].cmd = "addi" /\ newEntries[p + 1].args[2].v = rest3(v) % IMM
    BY <1>2, <1>4, <2>2
  <2> HIDE DEF p
  <2>4. pair(rest3(v) \div IMM, p) = rest3(v)
    BY ONLY <1>5, <2>1, <2>3, ShiftAndAdd
  <2> QED
    BY <2>1, <2>4 DEF p
<1>8. pair(rest3(v), m + 4) = rest2(v)
  <2>1. rest3(v) = rest2(v) \div IMM /\ rest2(v) \in 0..(WORD - 1)
    BY Chunks DEF rest3
  <2> DEFINE p == m + 4
  <2>2. p + 1 = m + 5
    OBVIOUS
  <2>3. /\ newEntries[p].cmd = "shftli" /\ newEntries[p].args[2].v = IMM_BITS
        /\ newEntries[p + 1].cmd = "addi" /\ newEntries[p + 1].args[2].v = rest2(v) % IMM
    BY <1>2, <1>4, <2>2
  <2> HIDE DEF p
  <2>4. pair(rest2(v) \div IMM, p) = rest2(v)
    BY ONLY <1>5, <2>1, <2>3, ShiftAndAdd
  <2> QED
    BY <2>1, <2>4 DEF p
<1>9. pair(rest2(v), m + 6) = rest1(v)
  <2>1. rest2(v) = rest1(v) \div IMM /\ rest1(v) \in 0..(WORD - 1)
    BY Chunks DEF rest2
  <2> DEFINE p == m + 6
  <2>2. p + 1 = m + 7
    OBVIOUS
  <2>3. /\ newEntries[p].cmd = "shftli" /\ newEntries[p].args[2].v = IMM_BITS
        /\ newEntries[p + 1].cmd = "addi" /\ newEntries[p + 1].args[2].v = rest1(v) % IMM
    BY <1>2, <1>4, <2>2
  <2> HIDE DEF p
  <2>4. pair(rest1(v) \div IMM, p) = rest1(v)
    BY ONLY <1>5, <2>1, <2>3, ShiftAndAdd
  <2> QED
    BY <2>1, <2>4 DEF p
<1>10. pair(rest1(v), m + 8) = rest0(v)
  <2>1. rest1(v) = rest0(v) \div IMM /\ rest0(v) \in 0..(WORD - 1)
    BY Chunks DEF rest1
  <2> DEFINE p == m + 8
  <2>2. p + 1 = m + 9
    OBVIOUS
  <2>3. /\ newEntries[p].cmd = "shftli" /\ newEntries[p].args[2].v = IMM_BITS
        /\ newEntries[p + 1].cmd = "addi" /\ newEntries[p + 1].args[2].v = rest0(v) % IMM
    BY <1>2, <1>4, <2>2
  <2> HIDE DEF p
  <2>4. pair(rest0(v) \div IMM, p) = rest0(v)
    BY ONLY <1>5, <2>1, <2>3, ShiftAndAdd
  <2> QED
    BY <2>1, <2>4 DEF p
<1>11. pair(rest0(v), m + 10) = v
  <2>1. rest0(v) = v \div LOW /\ v \in 0..(WORD - 1)
    BY Chunks DEF rest0
  <2> DEFINE p == m + 10
  <2>2. p + 1 = m + 11
    OBVIOUS
  <2>3. /\ newEntries[p].cmd = "shftli" /\ newEntries[p].args[2].v = LOW_BITS
        /\ newEntries[p + 1].cmd = "addi" /\ newEntries[p + 1].args[2].v = v % LOW
    BY <1>2, <1>4, <2>2
  <2> HIDE DEF p
  <2>4. pair(v \div LOW, p) = v
    BY ONLY <1>5, <2>1, <2>3, ShiftAndAdd
  <2> QED
    BY <2>1, <2>4 DEF p
<1> QED
  BY <1>3, <1>6, <1>7, <1>8, <1>9, <1>10, <1>11 DEF built

---------------------------------------------------------------------------
(* Where the instructions stand *)

\* Behind an instruction no entry stands at its place again.
LEMMA LaterStandsHigher ==
  ASSUME TypeOK, PassOne, Expanded, phase \notin {"getScript", "fillLabelTable"},
         NEW p \in DOMAIN newEntries, newEntries[p].type = 0
  PROVE  \A m \in DOMAIN newEntries : p < m => spot[p].code < spot[m].code
<1> DEFINE lower == {m \in DOMAIN newEntries : p < m /\ ~(spot[p].code < spot[m].code)}
<1>1. /\ DOMAIN newEntries = 1..Len(newEntries) /\ DOMAIN spot = DOMAIN newEntries
      /\ Len(newEntries) \in Nat /\ Len(spot) = Len(newEntries)
      /\ spot \in Seq(Sizes) /\ newEntries \in Seq(Entry)
  BY DEF TypeOK, Expanded
<1>2. \A m \in DOMAIN newEntries : spot[m].code \in Nat
  <2>1. \A m \in DOMAIN newEntries : spot[m] \in Sizes
    BY <1>1
  <2> QED
    BY <2>1 DEF Sizes
<1>3. \A m \in 1..(Len(newEntries) - 1) :
        spot[m + 1].code = spot[m].code + (IF newEntries[m].type = 0 THEN 4 ELSE 0)
  <2> SUFFICES ASSUME NEW m \in 1..(Len(newEntries) - 1)
               PROVE  spot[m + 1].code = spot[m].code + (IF newEntries[m].type = 0 THEN 4 ELSE 0)
    OBVIOUS
  <2>1. m \in DOMAIN spot /\ m + 1 \in DOMAIN spot
    BY <1>1
  <2>2. spotOf(m + 1) = afterItem(spot[m], newEntries[m])
    BY <2>1 DEF Expanded
  <2> QED
    BY <2>1, <2>2 DEF spotOf, afterItem
<1>4. SUFFICES ASSUME lower # {} PROVE FALSE
  OBVIOUS
<1>5. PICK m \in lower : \A h \in lower : m <= h
  <2>1. lower \in SUBSET Nat
    BY <1>1
  <2> HIDE DEF lower
  <2> QED
    BY <1>4, <2>1, Least
<1>6. PICK h \in 1..(Len(newEntries) - 1) : m = h + 1 /\ p <= h
  <2>1. m \in 1..Len(newEntries) /\ p \in 1..Len(newEntries) /\ p < m
    BY <1>1, <1>5
  <2> HIDE DEF lower
  <2>2. m - 1 \in 1..(Len(newEntries) - 1) /\ m = (m - 1) + 1 /\ p <= m - 1
    BY <1>1, <2>1
  <2> QED
    BY <2>2
<1>7. h \in DOMAIN newEntries /\ ~(spot[p].code < spot[h + 1].code) /\ ~(m <= h)
  BY <1>1, <1>5, <1>6
<1>8. p < h => spot[p].code < spot[h].code
  BY <1>5, <1>7
<1>9. spot[p].code \in Nat /\ spot[h].code \in Nat
  BY <1>2, <1>7
<1>10. spot[h + 1].code = spot[h].code + (IF newEntries[h].type = 0 THEN 4 ELSE 0)
  BY <1>3
<1>11. spot[h].code <= spot[h + 1].code /\ (newEntries[h].type = 0 => spot[h].code < spot[h + 1].code)
  BY <1>9, <1>10
<1>12. spot[h + 1].code \in Nat
  BY <1>9, <1>10
<1> HIDE DEF lower
<1>13. ~(p < h)
  BY <1>7, <1>8, <1>9, <1>11, <1>12
<1>14. p # h
  BY <1>7, <1>11
<1>15. p \in Nat /\ h \in Nat
  BY <1>1
<1> QED
  BY <1>6, <1>13, <1>14, <1>15

\* Two instructions at one place are one.
LEMMA OnePlace ==
  ASSUME TypeOK, PassOne, Expanded, phase \notin {"getScript", "fillLabelTable"},
         NEW p \in DOMAIN newEntries, newEntries[p].type = 0,
         NEW m \in DOMAIN newEntries, newEntries[m].type = 0, spot[p].code = spot[m].code
  PROVE  p = m
<1>1. p \in Nat /\ m \in Nat /\ spot[p].code \in Nat
  <2>1. p \in DOMAIN spot /\ spot[p] \in Sizes
    BY DEF TypeOK, Expanded
  <2>2. newEntries \in Seq(Entry)
    BY DEF TypeOK
  <2> QED
    BY <2>1, <2>2 DEF Sizes
<1>2. ~(p < m) /\ ~(m < p)
  BY <1>1, LaterStandsHigher
<1> QED
  BY <1>1, <1>2

\* No operand of the instructions of ld is looked up as a label, or the script fails.
LEMMA NotReplaced ==
  ASSUME NEW rd, NEW x, NEW table
  PROVE  /\ replaceLabel(<<rd, Lit(x)>>, table) \subseteq {<<rd, Lit(x)>>}
         /\ replaceLabel(<<rd, rd, rd>>, table) \subseteq {<<rd, rd, rd>>}
<1>1. 2 \notin labelArgs(<<rd, Lit(x)>>)
  BY DEF labelArgs, isLabelArg, Lit
<1>2. labelArgs(<<rd, rd, rd>>) # {3}
  BY DEF labelArgs
<1> QED
  BY <1>1, <1>2 DEF replaceLabel

LEMMA LdOperands ==
  ASSUME NEW rd, NEW v, NEW n \in 1..12, NEW table
  PROVE  replaceLabel(ld(rd, v)[n].args, table) \subseteq {ld(rd, v)[n].args}
<1>1. ld(rd, v)[1].args = <<rd, rd, rd>>
  BY DEF ld, Instr
<1>2. /\ \E x : ld(rd, v)[2].args = <<rd, Lit(x)>>
      /\ \E x : ld(rd, v)[3].args = <<rd, Lit(x)>>
      /\ \E x : ld(rd, v)[4].args = <<rd, Lit(x)>>
      /\ \E x : ld(rd, v)[5].args = <<rd, Lit(x)>>
  BY DEF ld, Instr
<1>3. /\ \E x : ld(rd, v)[6].args = <<rd, Lit(x)>>
      /\ \E x : ld(rd, v)[7].args = <<rd, Lit(x)>>
      /\ \E x : ld(rd, v)[8].args = <<rd, Lit(x)>>
      /\ \E x : ld(rd, v)[9].args = <<rd, Lit(x)>>
  BY DEF ld, Instr
<1>4. /\ \E x : ld(rd, v)[10].args = <<rd, Lit(x)>>
      /\ \E x : ld(rd, v)[11].args = <<rd, Lit(x)>>
      /\ \E x : ld(rd, v)[12].args = <<rd, Lit(x)>>
  BY DEF ld, Instr
<1>5. n \in {1, 2, 3, 4, 5, 6, 7, 8, 9, 10, 11, 12}
  OBVIOUS
<1> DEFINE s == ld(rd, v)
<1> HIDE DEF s
<1>6. (\E x : s[n].args = <<rd, Lit(x)>>) \/ s[n].args = <<rd, rd, rd>>
  BY <1>1, <1>2, <1>3, <1>4, <1>5 DEF s
<1> QED
  BY <1>6, NotReplaced DEF s

\* The entries that ld in entry k is rewritten to.
LEMMA LdStands ==
  ASSUME TypeOK, PassOne, Expanded, Placed,
         phase \in {"replaceLabels", "openBinary", "printToBinary"},
         NEW k \in DOMAIN entries, entries[k].type = 0, entries[k].cmd = "ld",
         NEW m \in DOMAIN newEntries, newEntries[m].type = 0, spot[m] = before[k]
  PROVE  /\ Len(entries[k].args) >= 2
         /\ \E v \in ldValue(entries[k].args, ltable) : isLd(m, entries[k].args[1], v)
<1> DEFINE args == entries[k].args
<1>1. PICK x \in expandMacro("ld", args, ltable) : \E h \in 0..Len(newEntries) : standsAt(x, k, h)
  BY DEF Placed, isPlaced
<1>2. PICK h \in 0..Len(newEntries) : standsAt(x, k, h)
  BY <1>1
<1>3. /\ Len(args) >= 2
      /\ \E rd \in registerOf(args, 1), v \in ldValue(args, ltable) : x = ld(rd, v)
  <2>1. args \in Seq(Operand)
    <3>1. entries[k] \in Entry
      BY DEF TypeOK
    <3> QED
      BY <3>1 DEF Entry
  <2>2. Len(args) \in Nat /\ ~(Len(args) < 2)
    BY <1>1, <2>1 DEF expandMacro
  <2>3. \E rd \in registerOf(args, 1), v \in ldValue(args, ltable) : x = ld(rd, v)
    BY <1>1, <2>2 DEF expandMacro
  <2> QED
    BY <2>2, <2>3
<1>4. PICK v \in ldValue(args, ltable) : x = ld(args[1], v)
  BY <1>3 DEF registerOf, slot
<1>5. DOMAIN x = 1..12
  BY <1>4 DEF ld
<1>6. \A n \in 1..12 : /\ h + n \in DOMAIN newEntries
                       /\ newEntries[h + n].type = 0 /\ newEntries[h + n].cmd = x[n].cmd
                       /\ newEntries[h + n].args = x[n].args
                       /\ spot[h + n].code = before[k].code + 4 * (n - 1)
  <2> SUFFICES ASSUME NEW n \in 1..12
               PROVE  /\ h + n \in DOMAIN newEntries
                      /\ newEntries[h + n].type = 0 /\ newEntries[h + n].cmd = x[n].cmd
                      /\ newEntries[h + n].args = x[n].args
                      /\ spot[h + n].code = before[k].code + 4 * (n - 1)
    OBVIOUS
  <2>1. /\ h + n \in DOMAIN newEntries
        /\ newEntries[h + n].type = 0 /\ newEntries[h + n].cmd = x[n].cmd
        /\ newEntries[h + n].args \in IF replaced(h + n) THEN replaceLabel(x[n].args, ltable)
                                                         ELSE {x[n].args}
        /\ spot[h + n].code = before[k].code + 4 * (n - 1)
    BY <1>2, <1>5 DEF standsAt
  <2>2. replaceLabel(x[n].args, ltable) \subseteq {x[n].args}
    BY <1>4, LdOperands
  <2> QED
    BY <2>1, <2>2
<1>7. spot[h + 1].code = spot[m].code
  <2>1. spot[m] \in Sizes
    BY DEF TypeOK, Expanded
  <2>2. spot[m].code \in Nat
    BY <2>1 DEF Sizes
  <2>3. spot[h + 1].code = before[k].code + 4 * (1 - 1)
    BY <1>6
  <2> QED
    BY <2>2, <2>3
<1>8. m = h + 1
  <2>1. h + 1 \in DOMAIN newEntries /\ newEntries[h + 1].type = 0
    BY <1>6
  <2>2. phase \notin {"getScript", "fillLabelTable"}
    OBVIOUS
  <2> QED
    BY <1>7, <2>1, <2>2, OnePlace
<1>9. (m - 1) = h
  BY <1>8
<1>10. isLd(m, args[1], v)
  BY <1>4, <1>6, <1>9 DEF isLd
<1> QED
  BY <1>3, <1>10

---------------------------------------------------------------------------
(* What is read *)

\* Every instruction is that of a line, and there are as many entries as lines at most.
isRead(e)  == e.type = 0 => \E ln \in Lines : ln.cmd = e.cmd /\ ln.args = e.args
FromLines  == Len(entries) <= MaxLines /\ \A k \in DOMAIN entries : isRead(entries[k])

LEMMA Appended ==
  ASSUME TypeOK, FromLines, NEW e, isRead(e), Save(e)
  PROVE  FromLines'
<1>1. entries \in Seq(Entry)
  BY DEF TypeOK
<1>2. Len(entries) < MaxLines /\ entries' = Append(entries, e) /\ MaxLines \in Nat
  BY BoundAssumption DEF Save
<1>3. /\ Len(entries') = Len(entries) + 1 /\ Len(entries) \in Nat
      /\ DOMAIN entries = 1..Len(entries) /\ DOMAIN entries' = 1..(Len(entries) + 1)
      /\ \A k \in 1..Len(entries) : entries'[k] = entries[k]
      /\ entries'[Len(entries) + 1] = e
  BY <1>1, <1>2
<1>4. Len(entries') <= MaxLines
  BY <1>2, <1>3
<1>5. \A k \in DOMAIN entries' : isRead(entries'[k])
  <2>1. \A k \in 1..(Len(entries) + 1) : k \in 1..Len(entries) \/ k = Len(entries) + 1
    BY <1>3
  <2>2. \A k \in DOMAIN entries : isRead(entries[k])
    BY DEF FromLines
  <2> QED
    BY <1>3, <2>1, <2>2
<1> QED
  BY <1>4, <1>5 DEF FromLines, isRead

LEMMA FromLinesStep ==
  ASSUME TypeOK, FromLines, [Next]_vars
  PROVE  FromLines'
<1>1. ASSUME entries' = entries PROVE FromLines'
  BY <1>1 DEF FromLines, isRead
<1>2. CASE Reading
  <2>1. CASE NoScript \/ EndOfFile
    BY <1>1, <2>1 DEF NoScript, EndOfFile, Crash, scriptVars
  <2>2. ASSUME NEW ln \in Lines, ReadDirective(ln)
        PROVE  FromLines'
    <3>1. Save(dirEntry(mode', stale)) /\ mode' \in {0, 1}
      BY <2>2 DEF ReadDirective
    <3>2. \A x \in {0, 1} : isRead(dirEntry(x, stale))
      BY DEF isRead, dirEntry, EntryOf
    <3>3. PICK x \in {0, 1} : Save(dirEntry(x, stale))
      BY <3>1
    <3> QED
      BY <3>2, <3>3, Appended
  <2>3. ASSUME NEW ln \in Lines, ReadLabel(ln)
        PROVE  FromLines'
    <3>1. Save(labelEntry(ln.lbl, stale)) \/ entries' = entries
      BY <2>3 DEF ReadLabel, Exit1, scriptVars
    <3>2. isRead(labelEntry(ln.lbl, stale))
      BY DEF isRead, labelEntry, EntryOf
    <3> QED
      BY <1>1, <3>1, <3>2, Appended
  <2>4. ASSUME NEW ln \in Lines, ReadData(ln)
        PROVE  FromLines'
    <3>1. Save(dataEntry(ln.val)) \/ entries' = entries
      BY <2>4 DEF ReadData, Exit1, scriptVars
    <3>2. isRead(dataEntry(ln.val))
      BY DEF isRead, dataEntry, EntryOf
    <3> QED
      BY <1>1, <3>1, <3>2, Appended
  <2>5. ASSUME NEW ln \in Lines, ReadInstr(ln)
        PROVE  FromLines'
    <3>1. Save(instrEntry(ln.cmd, ln.args)) \/ entries' = entries
      BY <2>5 DEF ReadInstr, Exit1, scriptVars
    <3>2. isRead(instrEntry(ln.cmd, ln.args))
      BY DEF isRead, instrEntry, EntryOf
    <3> QED
      BY <1>1, <3>1, <3>2, Appended
  <2> QED
    BY <1>2, <2>1, <2>2, <2>3, <2>4, <2>5 DEF Reading
<1>3. CASE Filling
  BY <1>1, <1>3 DEF Filling, FillLabel, FillItem, FillDirective, FillDone, scriptVars
<1>4. CASE Expanding
  BY <1>1, <1>4 DEF Expanding, ExpandEntry, ExpandFails, ExpandDone, ErrorExit, scriptVars
<1>5. CASE Replacing
  BY <1>1, <1>5 DEF Replacing, ReplaceEntry, ReplaceFails, ReplaceWild, ReplaceOverrun, ReplaceDone,
                    ErrorExit, Crash, scriptVars
<1>6. CASE Printing
  BY <1>1, <1>6 DEF Printing, OpenBinary, OpenFails, NoMemory, EmitData, EmitInstr, EmitFails, EmitNothing,
                    WriteOut, ErrorExit, Exit1, scriptVars
<1>7. CASE UNCHANGED vars
  BY <1>1, <1>7 DEF vars, scriptVars
<1> QED
  BY <1>2, <1>3, <1>4, <1>5, <1>6, <1>7 DEF Next, Ended

---------------------------------------------------------------------------
(* Addresses are numbers of 64 bits *)

\* An entry takes at most twelve words.
LEMMA SumsBounded ==
  \A n \in Nat : /\ Abs!codeUpTo(n) \in 0..(12 * n)
                 /\ Abs!dataUpTo(n) \in 0..n
<1> DEFINE bounded(n) == Abs!codeUpTo(n) \in 0..(12 * n) /\ Abs!dataUpTo(n) \in 0..n
           beyond == {n \in Nat : ~bounded(n)}
<1>1. SUFFICES ASSUME beyond # {} PROVE FALSE
  OBVIOUS
<1>2. PICK n \in beyond : \A m \in beyond : n <= m
  <2>1. beyond \in SUBSET Nat
    OBVIOUS
  <2> HIDE DEF beyond
  <2> QED
    BY <1>1, <2>1, Least
<1>3. bounded(0)
  BY CodeCount, DataCount
<1>4. n \in Nat /\ ~bounded(n) /\ n # 0
  BY <1>2, <1>3
<1>5. PICK m \in Nat : n = m + 1
  <2>1. n - 1 \in Nat /\ n = (n - 1) + 1
    BY <1>4
  <2> QED
    BY <2>1
<1>6. bounded(m)
  BY <1>2, <1>5
<1>7. /\ Abs!codeUpTo(m) \in Nat /\ Abs!words(m + 1) \in 0..12
      /\ Abs!codeUpTo(m + 1) = Abs!codeUpTo(m) + Abs!words(m + 1)
  BY CodeCount, WordsOf
<1>8. /\ Abs!dataUpTo(m) \in Nat /\ Abs!dataUpTo(m + 1) \in Nat
      /\ 8 * Abs!dataUpTo(m + 1) = 8 * Abs!dataUpTo(m) + dataBytes(entries[m + 1])
      /\ dataBytes(entries[m + 1]) \in {0, 8}
  BY DataCount DEF dataBytes
<1>9. Abs!codeUpTo(m + 1) \in 0..(12 * (m + 1))
  BY <1>6, <1>7
<1>10. Abs!dataUpTo(m + 1) \in 0..(m + 1)
  BY <1>6, <1>8
<1> QED
  BY <1>4, <1>5, <1>9, <1>10

LEMMA AddressFits ==
  ASSUME NEW j \in Nat \ {0}, j <= MaxLines
  PROVE  Abs!address(j) \in 0..(WORD - 1)
<1> DEFINE c == Abs!codeUpTo(j - 1)
           d == Abs!dataUpTo(j - 1)
<1>1. j - 1 \in Nat /\ MaxLines \in Nat /\ j - 1 <= MaxLines
  BY BoundAssumption
<1>2. c \in 0..(12 * (j - 1)) /\ d \in 0..(j - 1)
  BY <1>1, SumsBounded
<1>3. Abs!address(j) \in {DATA_BASE + 8 * d, CODE_BASE + 4 * c}
  BY DEF Abs!address
<1> HIDE DEF c, d
<1>4. 4 * c <= 48 * MaxLines /\ 8 * d <= 8 * MaxLines
  BY <1>1, <1>2
<1> QED
  BY <1>1, <1>2, <1>3, <1>4, AddressAssumption, LayoutAssumption, WidthAssumption

---------------------------------------------------------------------------
(* The theorem *)

\* The numbers of ld are those of 64 bits, with or without a sign; strtol stops those
\* written in hexadecimal at 2^63 - 1.
plain(a)     == a.k = "lit" => /\ -WORD < a.v /\ a.v < WORD
                               /\ a.hex => a.v < WORD \div 2
PlainNumbers == \A ln \in Lines : ln.cmd = "ld" => \A n \in DOMAIN ln.args : plain(ln.args[n])

LEMMA LiteralValue ==
  ASSUME NEW a \in Operand, a.k = "lit", plain(a)
  PROVE  parseLiteral(a.v, a.hex) = a.v % WORD
<1>1. a.v \in Int /\ a.hex \in BOOLEAN /\ WORD \in Nat /\ 0 < WORD
  BY WidthAssumption DEF Operand
<1>2. -WORD < a.v /\ a.v < WORD /\ (a.hex => a.v < WORD \div 2)
  BY DEF plain
<1>3. CASE a.hex /\ a.v >= 0
  <2>1. parseLiteral(a.v, a.hex) = a.v
    BY <1>1, <1>2, <1>3 DEF parseLiteral
  <2> DEFINE x == a.v
  <2>2. x \in Nat /\ x < WORD
    BY <1>1, <1>2, <1>3
  <2> HIDE DEF x
  <2>3. x % WORD = x
    BY <1>1, <2>2
  <2> QED
    BY <2>1, <2>3 DEF x
<1>4. CASE ~(a.hex /\ a.v >= 0)
  BY <1>1, <1>2, <1>4 DEF parseLiteral
<1> QED
  BY <1>3, <1>4

LEMMA LdRight ==
  ASSUME TypeOK, PassOne, Expanded, Answers, Placed, FromLines, PlainNumbers
  PROVE  LdBuildsItsValue
<1> SUFFICES ASSUME phase \in {"replaceLabels", "openBinary", "printToBinary"},
                    NEW k \in DOMAIN entries, NEW m \in DOMAIN newEntries,
                    entries[k].type = 0, entries[k].cmd = "ld",
                    spot[m] = before[k], newEntries[m].type = 0
             PROVE  /\ \A n \in 0..11 : newEntries[m + n].args[1] = entries[k].args[1]
                    /\ entries[k].args[2].k = "lit" => built(m) = entries[k].args[2].v % WORD
                    /\ entries[k].args[2].k = "lab" =>
                         built(m) = Abs!address(Abs!Min(Abs!itemsOf(entries[k].args[2].l)))
  BY DEF LdBuildsItsValue
<1> DEFINE args == entries[k].args
           a == args[2]
<1>1. args \in Seq(Operand) /\ entries \in Seq(Entry) /\ newEntries \in Seq(Entry)
  <2>1. entries[k] \in Entry
    BY DEF TypeOK
  <2> QED
    BY <2>1 DEF Entry, TypeOK
<1>2. Len(args) >= 2 /\ \E v \in ldValue(args, ltable) : isLd(m, args[1], v)
  BY LdStands
<1>3. PICK v \in ldValue(args, ltable) : isLd(m, args[1], v)
  BY <1>2
<1>4. a \in Operand /\ 2 \in DOMAIN args /\ m \in Nat
  BY <1>1, <1>2
<1>5. slot(args, 2) = a
  BY <1>1, <1>2 DEF slot
<1>6. WORD \in Nat /\ 0 < WORD
  BY WidthAssumption
<1>7. ASSUME a.k = "lit"
      PROVE  v = a.v % WORD /\ v \in 0..(WORD - 1)
  <2>1. PICK ln \in Lines : ln.cmd = "ld" /\ ln.args = args
    BY DEF FromLines, isRead
  <2>2. plain(a)
    BY <1>4, <2>1 DEF PlainNumbers
  <2>3. v = parseLiteral(a.v, a.hex)
    BY <1>3, <1>5, <1>7 DEF ldValue
  <2>4. v = a.v % WORD /\ a.v \in Int
    BY <1>4, <1>7, <2>2, <2>3, LiteralValue DEF Operand
  <2> QED
    BY <1>6, <2>4
<1>8. ASSUME a.k = "lab"
      PROVE  v = Abs!address(Abs!Min(Abs!itemsOf(a.l))) /\ v \in 0..(WORD - 1)
  <2>1. v \in getintAddress(a.l, ltable)
    BY <1>3, <1>5, <1>8 DEF ldValue
  <2>2. a.l \in Labels
    BY <1>4 DEF Operand
  <2>3. PICK j \in firstOf(a.l) : v = Abs!address(j)
    BY <2>1, <2>2 DEF Answers
  <2>4. DOMAIN entries = 1..Len(entries) /\ Len(entries) \in Nat
    BY <1>1
  <2>5. Abs!itemsOf(a.l) \in SUBSET (Nat \ {0, 1})
    BY <2>4, FirstOf
  <2>6. /\ j \in Abs!itemsOf(a.l) /\ \A g \in Abs!itemsOf(a.l) : j <= g
        /\ j < Len(before)
    BY <2>3 DEF firstOf
  <2>7. Abs!itemsOf(a.l) \in SUBSET Nat /\ Abs!itemsOf(a.l) # {}
    BY <2>5, <2>6
  <2>8. Abs!Min(Abs!itemsOf(a.l)) \in Abs!itemsOf(a.l) /\ Abs!Min(Abs!itemsOf(a.l)) <= j
    BY <2>6, <2>7, MinOf
  <2>9. Abs!Min(Abs!itemsOf(a.l)) = j
    <3> DEFINE x == Abs!Min(Abs!itemsOf(a.l))
    <3>1. x \in Nat /\ j \in Nat /\ x <= j /\ j <= x
      BY <2>6, <2>7, <2>8
    <3> HIDE DEF x
    <3>2. x = j
      BY <3>1
    <3> QED
      BY <3>2 DEF x
  <2>10. j \in Nat \ {0} /\ j <= MaxLines
    <3>1. /\ Len(before) \in Nat /\ Len(before) <= Len(entries) + 1 /\ Len(entries) <= MaxLines
          /\ MaxLines \in Nat
      BY BoundAssumption DEF TypeOK, PassOne, FromLines
    <3>2. j \in Nat \ {0}
      BY <2>5, <2>6
    <3> QED
      BY <2>4, <2>6, <3>1, <3>2
  <2>11. Abs!address(j) \in 0..(WORD - 1)
    BY <2>10, AddressFits
  <2> QED
    BY <2>3, <2>9, <2>11
<1>9. ASSUME a.k \notin {"lit", "lab"}
      PROVE  v \in 0..(WORD - 1)
  BY <1>3, <1>5, <1>6, <1>9 DEF ldValue
<1>10. v \in 0..(WORD - 1)
  BY <1>7, <1>8, <1>9
<1>11. built(m) = v /\ \A n \in 0..11 : newEntries[m + n].args[1] = args[1]
  BY <1>3, <1>4, <1>10, LdBuilds
<1> QED
  BY <1>7, <1>8, <1>11

\* ld leaves in its register, and in no other, the number its operand denotes or the
\* address of its label, in every script whose numbers fit 64 bits: whichever chunks
\* their bits fall into, whatever stands before, and whatever happens to the entries later.
THEOREM LdAlwaysBuildsItsValue ==
  ASSUME "bang" \notin StaleTexts, PlainNumbers
  PROVE  Spec => []LdBuildsItsValue
<1>1. Init => FromLines
  BY BoundAssumption DEF Init, FromLines
<1>2. TypeOK /\ FromLines /\ [Next]_vars => FromLines'
  BY FromLinesStep
<1>3. TypeOK /\ PassOne /\ Inductive /\ Refining /\ FromLines => LdBuildsItsValue
  BY LdRight DEF Inductive, Refining
<1> QED
  BY <1>1, <1>2, <1>3, TypeCorrect, LayoutInvariant, RefiningAlways, PTL DEF Spec
=============================================================================
