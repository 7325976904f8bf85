----------------------------- MODULE MCPrograms -----------------------------
(***************************************************************************)
(* Inputs of the Tinker programs for the model checker.                    *)
(***************************************************************************)
EXTENDS Programs

lines(nums) == [n \in DOMAIN nums |-> [k |-> "number", v |-> nums[n]]]
search(array, value) == lines(<<Len(array)>> \o array \o <<value>>)

\* Up to the numbers that no longer fit a word.
FibInputs == {lines(<<n>>) : n \in 1..28}

\* Every sorted array of one or two of three values, and values in and between.
sorted(a)   == \A m, n \in DOMAIN a : m < n => a[m] <= a[n]
ShortArrays == {a \in UNION {[1..n -> {1, 7, WORD - 1}] : n \in 1..2} : sorted(a)}
ShortInputs == {search(a, v) : a \in ShortArrays, v \in {0, 5, 7, WORD - 1}}

\* Cases of test.c, no element, and one more than memory has room for.
TestInputs ==
  {search(<<1, 3, 5, 7, 9>>, v) : v \in {0, 1, 4, 5, 9, 10}}
    \cup {search(<<2, 4, 6, 8>>, v) : v \in {2, 5, 8}}
    \cup {search([n \in 1..10 |-> 10 * n], v) : v \in {55, 100}}
    \cup {search(<<7, 7, 7, 7, 7>>, v) : v \in {3, 7}}
    \cup {search(<<>>, 3), search([n \in 1..11 |-> n], 3)}

ProgramStdins(f) == FibInputs \cup ShortInputs \cup TestInputs

\* What is proved of scripts that mean what they say is proved of the programs.
ASSUME ProgramsMeant == \A pg \in DOMAIN scripts : isMeant(scripts[pg])
=============================================================================
