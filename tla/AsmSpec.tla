------------------------------- MODULE AsmSpec -------------------------------
(***************************************************************************)
(* What the assembler promises, without passes, buffers or a label table:  *)
(* a script is read item by item, then in one step it is rejected or       *)
(* becomes an image in which every item stands at the sum of the sizes of  *)
(* the items before it and every label is the address of the next item.    *)
(***************************************************************************)
EXTENDS Macro, FiniteSetsExt, SequencesExt

CONSTANTS CODE_BASE, DATA_BASE

VARIABLES script, result, image

NoImage == [code |-> <<>>, data |-> <<>>]

Init == script = <<>> /\ result = "pending" /\ image = NoImage

---------------------------------------------------------------------------
isItem(k)  == script[k].type \in {0, 1}
words(k)   == IF script[k].type = 0 THEN cnt(script[k].cmd) ELSE 0

\* Words of code, and data, of the first n items.
codeUpTo(n) == Cardinality(UNION {{k} \X (1..words(k)) : k \in 1..n})
dataUpTo(n) == Cardinality({k \in 1..n : script[k].type = 1})

\* The address of an item.
address(k) == IF script[k].type = 1 THEN DATA_BASE + 8 * dataUpTo(k - 1)
                                    ELSE CODE_BASE + 4 * codeUpTo(k - 1)

\* The item that comes after an entry, in whichever section, and the items that come
\* after the labels of a name.
next(k)    == {j \in (k + 1)..Len(script) : /\ isItem(j)
                                            /\ \A g \in (k + 1)..(j - 1) : ~isItem(g)}
written(l) == {k \in DOMAIN script : script[k].type = 2 /\ script[k].lbl = l}
itemsOf(l) == UNION {next(k) : k \in written(l)}

\* The meaning of the names: the first item counts, and a name nothing follows has
\* no address.
names   == {script[k].lbl : k \in {j \in DOMAIN script : script[j].type = 2}}
meaning == {[lbl |-> l, address |-> address(Min(itemsOf(l)))] :
              l \in {m \in names : itemsOf(m) # {}}}

\* The words an instruction of the script stands for.
encodes(c, args, table, ws) ==
  \E x \in expandMacro(c, args, table) :
    /\ Len(ws) = Len(x)
    /\ \A n \in DOMAIN x : \E a \in replaceLabel(x[n].args, table) :
         getInstruction(x[n].cmd, a) = Encoded(ws[n])

isImage(img) ==
  LET n == Len(script)
      table == SetToSeq(meaning)
  IN /\ Len(img.code) = codeUpTo(n)
     /\ Len(img.data) = dataUpTo(n)
     /\ \A k \in DOMAIN script :
          /\ script[k].type = 1 => img.data[dataUpTo(k)] = script[k].val
          /\ script[k].type = 0 =>
               encodes(script[k].cmd, script[k].args, table,
                       SubSeq(img.code, codeUpTo(k - 1) + 1, codeUpTo(k)))

---------------------------------------------------------------------------
ReadEntry ==
  /\ result = "pending"
  /\ script' # <<>> /\ Front(script') = script
  /\ UNCHANGED <<result, image>>

Reject == /\ result = "pending" /\ result' = "rejected"
          /\ UNCHANGED <<script, image>>

Assemble == /\ result = "pending" /\ result' = "image"
            /\ isImage(image')
            /\ UNCHANGED script

Next == ReadEntry \/ Reject \/ Assemble

Spec == Init /\ [][Next]_<<script, result, image>>
=============================================================================
