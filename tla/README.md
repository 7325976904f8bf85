# A verification project for the Tinker tool chain

The repository holds a small tool chain for the teaching instruction set
"Tinker": an assembler (`asm/`, built as `hw5-asm`), a simulator (`sim/`, built
as `hw5-sim`), a harness that runs both on test programs, and Tinker programs.
This directory holds TLA+ models of it, the TLC runs that check them on small
instances, and proofs TLAPS checks for every value of the constants.

## 1. The system

| Component | State | Operations | Hard behaviour | What makes it correct |
|---|---|---|---|---|
| Script reader (`asm/parse.c`) | mode, entries | one per kind of line | fields of entries left uninitialised, lines refused | a label or directive is only that |
| First pass and label table (`asm/main.c`, `asm/labletable.c`) | section sizes, waiting labels, table | `fillLabelTable`, `insertLabel`, `getintAddress` | labels wait for an item of either section, last in first out; duplicates | a label is the address of the next item |
| Macros (`asm/macro.c`) | new entries | `expandMacros` | one entry becomes up to twelve; sizes were fixed before | the words written are those counted |
| Label replacement (`asm/main.c`) | operand texts | `replaceLabels` | a scan that leaves the text | |
| Encoder (`asm/encode.c`, `asm/argparse.c`) | none | `getInstruction` | integer widths, many error exits | the simulator reads back the operation written |
| Output (`asm/main.c`) | image buffer, two files | `printToBinary`, `error` | buffer uninitialised, sized by the other pass; what a failure leaves behind | every byte written once, inside |
| Simulator (`sim/main.c`) | 32 registers, memory, pc, halt | one per opcode | wrap-around, truncation, faults half-way, stack discipline | accesses stay in memory, returns go behind their calls, the words do what the script says |
| Test harness (`sim/test_harness.c`) | counters, child process, pipe, buffer | `compile_test`, `run_test` | two processes over a bounded pipe, who holds which end, a buffer that fills, no time limit | no byte is lost, every test gets the verdict its simulator deserves |
| Programs (`fibonacci.tk`, `fibbonacci.tk`, `binary_search.tk`) | registers, an array in memory | loops | counts of one and none, sums that wrap, an interval that shrinks to nothing | they end, and print what they are for |

The components interact through values only: the reader hands a script to the
passes, each pass rewrites it for the next, the image file couples assembler and
simulator, and the harness couples both to pipes and exit codes. The opcode
tables of the two programs are separate copies (`asm/parse.h`, `sim/main.h`).

## 2. The modules

| Module | Models | Code |
|---|---|---|
| `Isa` | the two instruction tables: sizes, operand counts and opcodes of the assembler, rows of the simulator | `asm/parse.h`, `sim/main.h` |
| `Widths` | the widths of the immediate field, `int` and `unsigned long long`, and the conversions between them | C types |
| `Encode` | from the operands of one operation to one word, or to `exit(1)` or `error()` | `asm/argparse.c`, `asm/encode.c` |
| `Macro` | label table, macros, label replacement, as functions of their inputs | `asm/labletable.c`, `asm/macro.c`, `asm/main.c` |
| `Assembler` | the program `hw5-asm`: one action per line read, entry passed, file opened or written | `asm/main.c`, `asm/parse.c` |
| `AsmSpec` | what the assembler promises: a script becomes, in one step, the image in which items stand at prefix sums | abstract |
| `Memory` | 64-bit values, little-endian memory, the two comparisons before an access, bit operations, `strtoull` on a line | `sim/main.c` |
| `Image` | the bytes of words and data in an image file | `asm/encode.c`, `asm/main.c` |
| `Simulator` | the program `hw5-sim`: one action per kind of round of its loop, and one per error | `sim/main.c`, `sim/main.h` |
| `Tinker` | what a script means line by line, macros atomic, without words or encoding | abstract |
| `Toolchain` | a script assembled as `AsmSpec` says and run by `Simulator`, mapped to `Tinker` | composition |
| `Assembly` | the image of a script, and which scripts mean what they say, for the modules that run one | composition |
| `Programs` | the Tinker programs, assembled and run on `Simulator`, against what they compute | `*.tk`, `test.c` |
| `Harness` | the harness and its child as two processes with a pipe between them | `sim/test_harness.c` |
| `Grading` | what the harness promises: verdicts on whole outputs | abstract |
| `MCAssembler`, `MCSimulator`, `MCToolchain`, `MCPrograms`, `MCHarness` | instances for TLC, and statements of the repository that do not hold | |
| `AssemblerProofs`, `ImageProofs`, `OneStepProofs` | proofs about `Assembler`: types and layout, what the encoder writes, the refinement of `AsmSpec`, `ld` | |
| `SimulatorProofs` | proofs about `Simulator`, `Memory`, `Image` | |
| `ToolchainProofs` | proofs about `Toolchain`: the refinement of `Tinker` | |
| `ProgramProofs` | proofs about `Programs`: what the Tinker programs print | |
| `CommonProofs` | lemmas the proof modules share: finite sets, prefix sums, the chunks of `ld` | |
| `HarnessProofs` | proofs about `Harness` | |

How they fit together:

    Assembler --OneStep--> AsmSpec -- Assembly --\
                                                  Toolchain --RunsTheScript--> Tinker
    Simulator (Memory, Isa) ---------------------/
                                                 \
                                      Assembly -- Programs

    Harness --GradesWhatRan--> Grading

### State and actions of the assembler

`phase` is the function of `main` that runs, `i` the entry its loop is at,
`entries` and `newEntries` the two arrays of entries, `labelbuf`, `ltable`,
`codeSize`, `dataSize`, `caddress`, `daddress`, `cadd` and `dadd` the variables
of those names, `mem` the output buffer by the offset of its first byte (a
function whose domain is what has been written), `argv2` and `argv3` what the
two output files hold, `status` how the process ends. `before` and `spot` are
history: the sizes in front of each entry in the first and the second pass.
Every loop body is an action per kind of entry, so that every early exit is a
state in which files and buffers are seen half done.

A line of input is a record of its kind, an operand a record of its kind,
register and number. The text is not modelled, except where the code depends on
it: whether a number is written in hexadecimal (it is read by another function),
and what a fresh `malloc` leaves in fields that an entry does not set (`stale`).

### State and actions of the simulator

`r`, `pc`, `mem` are the globals; `file`, `stdin`, `stdout` the surroundings; the
loop variable `halt` and the exit code are `status`. A round of `while (!halt)`
is one action; the actions partition the rounds by what they do to the state
(`Compute` for the twenty opcodes that only set a register, `ReadWord`,
`WriteWord`, `Branch`, `BranchRelative`, `Call`, `Return`, `Halt`, `Input`,
`Output`) and the ways into `simErr()` each have their own. `frames` is history:
for each call, the slot of its return address, until a store touches that slot.

Operations on doubles give any value of a set; a shift takes its count modulo
the width, as the processor does where C leaves it undefined; reading a header
that puts code or data over the end of `mem` ends the run as `crashed`.

### The composition

`Toolchain` starts from a script. `AsmSpec` is the interface: its meaning of
the labels and its predicate `isImage` pick the image (the run `asm_layout` shows
that the two passes of `Assembler` give that image). `Simulator` then runs. The
history variable `src` is the machine's state at the last instruction boundary
of the script, and `RunsTheScript` says that `src` is a behaviour of `Tinker`.
Programs that jump into a macro or out of their code, or store into their code,
have no meaning at the level of lines; `Tinker` lets them go `wild` and the model
follows them no further (this is the one place where a run may stop, hence
`CHECK_DEADLOCK FALSE` there).

### State and actions of the programs

`Programs` writes the three programs line by line as scripts; `ProgInit` lets `AsmSpec`
pick the image of one, as `Toolchain` does, and `Simulator` runs it. `program` names the
one that runs, `input` keeps the whole standard input, so that at the end the answer can
be computed from it in mathematics: the Fibonacci numbers as a recursive function,
presence in the array as a quantifier. `expected` says which inputs are asked about: those
the programs' documentation and `test.c` describe (a count from 1; or a length, as many
numbers in order and one more). The array lies behind the code (`ARRAY`).

### State and actions of the harness

`at` is where the harness is: `main`, `run_test` up to `fork`, the closing of pipe
ends, the `fgets` loop, `waitpid`. `child` is the process it forked, `writers` the
processes that hold the writing end of the output pipe (at `eof` nobody does),
`pipe` its bytes, `line` what the `fgets` in progress has read, `buf` the buffer up
to `output_len`. One byte moves at a time, so that the two processes meet in every
order. `rest` and `ran` are the simulator: the harness knows nothing of it, so it
may write any output and end in any way, or not at all. `compile_test` waits for
the assembler with nothing in between and is one action; `access` and the missing
source file are choices. `verdicts` stands for `stats`, which counts them.
The source file checks, the temporary files and the printed report are left out.

## 3. The runs

| Run | Question | States | Result |
|---|---|---|---|
| `asm_layout` | every script of up to five lines over two sections, two labels and items of each size | 429 000 | `TypeOK`, `PassesAgree`, `ImageComplete`, `LabelsInImage`, `Inductive`, `Refining`, `Termination`, `OneStep` hold |
| `asm_operands` | every command with operands right, missing, too many, of another kind, out of range | 90 900 | `PassesAgree`, `SameOperation`, `FieldsFit`, `FilesTell` hold |
| `asm_ld` | `ld` on the edges of its chunks and on labels | 11 000 | `LdBuildsItsValue` holds |
| `sim_runs` | every program of one or two instructions, operands around the end of memory, the sign of a word and its range; four instructions out of calls, returns, stores and moves of `r31` | 237 700 | `TypeOK`, `MemorySafe`, `FramesHold`, `ReturnsToCaller`, `EndsWithoutBranches` hold |
| `tool_runs` | scripts of every instruction in pairs, pushes and pops in triples, calls that come back, scripts without `halt` | 35 500 | `RunsTheScript` holds |
| `programs` | the three programs on 28 counts, on every sorted array of one or two of three values and on the cases of `test.c` | 34 700 | `AnswersRight`, `FailsOnlyWithoutRoom`, `ProgramsEnd` hold |
| `harness_runs` | three tests, every output of up to four characters of text, every end of a simulator, every interleaving | 9 600 | `TypeOK`, `NothingLost`, `GradesWhatRan`, `FinishesOrStuck` hold |
| `asm_hex`, `asm_range`, `asm_trailing`, `asm_leftover`, `sim_empty` | one statement of the repository each | | violated, see section 5 |

What the properties say:

- `PassesAgree`: the first pass sizes code by the column `cnt`, the second writes
  what macros were rewritten to; they count the same bytes and no write leaves its
  section.
- `ImageComplete`: the buffer from `malloc` goes out whole; each byte was written.
- `LabelsInImage`: a label's address is that of an item, whatever switches of
  section and runs of labels precede it.
- `OneStep`: the program implements `AsmSpec`; a failing run leaves no image.
- `Inductive`, `Refining`: the invariants behind the proofs of the layout and of `OneStep`
  (section 4), checked here before they were proved.
- `SameOperation`: the simulator's table reads each word as the operation written.
- `FieldsFit`: no field of a written word is wider than its place; `build_instruction`
  masks none but the immediate.
- `FilesTell`: what a run leaves in the files of its command line. Only a run that ends
  well leaves an image of its own; one that fails once it has opened its output (`exit(1)`
  and a `malloc` that fails leave it empty, `error()` removes both files) leaves no image of an
  earlier run either. It holds because `fopen` comes before the encoding.
- `LdBuildsItsValue`: the twelve instructions of `ld` leave in its register, and touch no
  other, the number of its operand or, for a label, the address `AsmSpec` gives it.
- `Termination`, `EndsWithoutBranches`: every run of the assembler ends; a program
  that meets no more branches ends too, with or without its `halt`.
- `MemorySafe`: two comparisons in wrapping arithmetic keep all bytes of an access
  inside of memory.
- `FramesHold`, `ReturnsToCaller`: a return address no store touched is intact, and
  its return goes behind its call. (Calls do not move `r31`, so nested calls do
  touch it: the property is about what is left.)
- `RunsTheScript`: labels, macros, encoding, sign extension, memory, branches,
  input and output together do what the lines say.
- `AnswersRight`: a program that halts has printed the Fibonacci number of its input
  modulo the word, or whether the sorted array holds the value. It passes through both
  programs of the tool chain, over sums that wrap and arrays of repeated values.
- `FailsOnlyWithoutRoom`, `ProgramsEnd`: only a search of no element, or of more than
  memory holds, fails; every loop ends, also when the right end of the searched
  interval meets zero.
- `NothingLost`: what is in the buffer, in the line being read, in the pipe and still
  unwritten is, in this order, the simulator's output, wherever lines, pipe and
  buffer cut it.
- `GradesWhatRan`: the harness implements `Grading`: a test passes if and only if its
  simulator exited with 0 and wrote exactly the expected output, and the exit code
  sums up the verdicts.
- `FinishesOrStuck`: the harness ends, or stays for ever at one of three things:
  a simulator that does not end, an output that fills the buffer (with room for the
  final NUL alone `fgets` returns without reading, and never reports the end), or
  more standard input than a pipe holds, written before there is a reader. In
  particular no end of the pipe left open makes it wait.

### Bounds

- `MaxLines` bounds a script: 5 lines hold two labels before a switch of section,
  an item of each section and a reference back; 2 and 3 are enough where the
  question is one operation. In `asm_operands` scripts have two lines, so that an operand
  that is a label is mostly one without a meaning; `asm_layout` and `asm_ld` have the
  scripts in which labels resolve.
- Widths are constants. `IMM` is 4096 wherever operands are encoded, because the
  fields of a word are at fixed bits; `INT` and `WORD` are scaled, far enough apart
  that a value can fit one and not the other (`asm_operands`: 2^20 and 2^30;
  the simulator: 2^14 and 2^15, two of a word's eight bytes in use). `asm_ld` scales the
  chunks of `ld` with the word, so that all six are in use.
- `MEM_SIZE` is 64 in the simulator's own runs and 216 with assembled scripts: room
  for the code, the data and a stack that reaches both. `programs` needs 1704: 1600
  bytes of code before the array and ten numbers in it, one fewer than the largest
  input asks for.
- `programs` has words of 15 bits, so that the Fibonacci numbers of its 28 counts
  pass the word as they pass 64 bits from the 94th on; arrays have at most eleven
  elements, enough for both halves to be taken at both parities.
- `harness_runs` has a buffer of 4 and a pipe of 2, so that outputs that stop short of
  the buffer, that just fit it and that overflow it all occur, every one over several
  refills of the pipe. Tests have no input, as much as the pipe holds, and more;
  after a third test nothing new can happen, since only `verdicts` carries over.
- Programs of two instructions after one input put every pair of opcodes on every
  boundary value; calls nest twice in four instructions. An unbounded loop that
  changes a register is left out of the scripts of `tool_runs`: it would only count
  to the end of the word.
- `StaleTexts` is what reused memory may read as: ordinary text, or ("bang") text
  that makes the entry look like `halt`. The passing runs leave the second out;
  `asm_leftover` is the run with it.

### Fairness

`FairSpec` of both programs, and `ToolSpec`, assume `WF_vars(Next)`: each is one
thread, no step waits for another process, input is a file or a closed pipe. Only
`Termination`, `EndsWithoutBranches` and `ProgramsEnd` need it.

The harness is two processes, and `Harness!FairSpec` assumes weak fairness of each
alone: a process that stays able to run is scheduled. A simulator that loops takes
steps that change nothing; the assumption does not make it end.

## 4. The proofs

TLAPS checks these for all values of the constants the named assumptions allow.

- `AssemblerProofs!TypeCorrect`: types of every variable, together with `PassOne`,
  without which `labelbuf` and `before` have no typed elements.
- `AssemblerProofs!LayoutInvariant`: `Inductive` is an invariant, for every script
  that fits `labelbuf` (`BoundAssumption`). `PassesAgree` is not inductive: that the second pass ends where the first
  did needs the sums of both. `PassOne` says `before` holds the prefix sums of the
  first pass; `Expanded` says the same of `spot` over the new entries and that the
  two meet at the entry being expanded; `Written` ties the write positions and the
  set of bytes written to `spot`; `Labelled` bounds the addresses. From it follow
  `PassesAgreeAlways`, `ImageAlwaysComplete`, `LabelsAlwaysInImage`. They assume
  `"bang" \notin StaleTexts`, which leaves out the fault the run `asm_leftover` shows and
  nothing else: with it they do not hold.
- `AssemblerProofs!FilesAlwaysTell`: `FilesTell`, for every script and whatever reused memory
  holds. `FilesKept` adds what holds on the way: the files are untouched until the second
  pass, and from there on the second is not the earlier one.
- `ImageProofs`: what the second pass has written, entry by entry. `SameOperation` is not
  inductive: it speaks of finished images. `Emitted` says that each entry passed has left
  the word its encoding gives, at the place `spot` names, and `MacrosGone` that no macro is
  left when the encoder runs (its opcode -1 would be read as another one); from them
  `EmittedAlways` and `SameOperationAlways`. `FieldsAlwaysFit` goes through every
  way out of `getInstruction` (`FieldsOf`): each register operand has passed the range
  check and each number is cut by the mask or by `int`.
- `OneStepProofs`: the refinement of `AsmSpec`. The program counts bytes while it reads
  and keeps labels waiting in a stack; the specification looks at the whole script and
  takes cardinalities. `Refining` relates them: `Counted` (the sizes recorded in front of
  each entry are the prefix sums of the specification), `Pending` (the labels that wait
  are those behind the last item), `Answers` (the table, read from its head, gives for
  each label the address of the first item behind it), `Placed` (each expansion stands in
  one piece, its operands replaced as far as `replaceLabels` has come). There is no
  induction over the script: a label that is wrong has a least counterexample, and a
  prefix sum changes by one entry per step. `TableOfMeaning` says that a lookup in the
  program's table is a lookup in the specification's, `ImageIsRight` that the bytes written form
  an image the specification allows; `AssemblerRefines` puts the steps together. Like the layout
  it assumes `"bang" \notin StaleTexts`.
- `OneStepProofs!LdAlwaysBuildsItsValue`: `FromLines` (instructions are still those of the
  input) and `Placed` give the twelve entries of an `ld` anywhere in a script; `Chunks`
  and `ShiftAndAdd` compute what they do to any number of a word. The hypothesis
  `PlainNumbers` says that the numbers of `ld` fit 64 bits, and 63 when written in
  hexadecimal; the run `asm_hex` shows that it fails otherwise.
- `SimulatorProofs!SimulatorInvariant`: `TypeOK /\ file \in Files /\ FramesHold` is
  inductive. It rests on lemmas about memory: an access that passes its comparisons
  does not wrap (`InMemory`), eight bytes stored are read back (`ReadBack`), a store
  elsewhere changes nothing (`ReadApart`). From it: `SimulatorTypes`,
  `MemoryAlwaysSafe`, `FramesAlwaysHold`, `ReturnsAlwaysToCaller`.
- `SimulatorProofs!ParseUndoesBuild`: the simulator's `parse` takes from the four bytes
  of any word the fields `build_instruction` packed. With `FieldsAlwaysFit` the
  simulator reads back every word the assembler writes. `LoadedIsAssembled`
  takes this to whole images: once loaded, every word and every datum is found at its
  place, and zeros elsewhere, if the two sections fit and do not overlap (nothing in
  `load` checks either).
- `ToolchainProofs!ScriptsRun`: `RunsTheScript`, the refinement of `Tinker` by the two programs
  together, for scripts of every length (`Scripts` is bounded by no constant). `RunsTheScript` speaks of `src` alone and is not
  inductive. `ToolInv` adds what the machine has to do with it: the image of the script
  is the one loaded (`Assembled`), the simulator's own invariant holds (`SimInv`), and while
  `src` runs (`tracks`), the words of the code stand in memory (`CodeStands`, from
  `LoadedIsAssembled`; every store that is followed lies outside of the code, `rewritesCode`)
  and the machine is at the first word of the line `src` is at, with its registers and its
  memory (`atLine`), or some words into a macro with what those words have done (`midway`:
  a `push` has stored, a `pop` has read, an `ld` has built the upper chunks, `partsOf`).
  `ReadyStep` loads; `LineStep` takes the word a line begins with, by what the line is: for
  each command a lemma gives the word its line is encoded as, what `parse` makes of it, which
  action of `Simulator` can run (`Round`), and that `Tinker` has a step with that effect,
  errors included, or stutters inside a macro. `MacroStep` takes the other words of a macro;
  the last one is the step of `Tinker`. Places of a script are sums of sizes, so the word
  behind a line is the first of the next; a branch that lands on no line leaves `src` wild.
  No step needs induction over the script: lookups have a first item and prefix sums grow
  by one entry.
- `ToolchainProofs!OnlyImage`: `AsmSpec` says which images a script may have; for a script
  `Toolchain` can start with there is one. By `AssemblerRefines` an image the assembler
  writes is among those allowed, so it is the one `ScriptsRun` and `ProgramsAnswer` speak of.
- `ProgramProofs!ProgramsAnswer`: `AnswersRight`, for every input the programs are asked
  about, every length of the array and every size of memory and word. `AnswersRight` speaks
  of halted runs only; what holds before is an invariant of each program, line by line, at
  the level of `Tinker` (`goodAt`). To use `ScriptsRun` it needs the history variables of
  `Toolchain`. The proof language has no quantifier over a variable's history, so
  `RecordedSpec` adds them to `ProgSpec`: `script` and `src`, which only record.
  `EveryStepIsRecorded` shows that they stop no step: for every step from a state of the
  invariant there is a value of `src'` that `Observe` allows. The invariant `RecordedInv` is
  `ToolInv`, what does not change (`Given`), and `Good`: while `src` runs, `goodAt` holds of
  the line it is at. One lemma per kind of line gives the step of `Tinker` it allows; one
  per line of a program takes `goodAt` to the next line.
  - Fibonacci (`fibAt`): the two registers hold the numbers of the rounds done, modulo the
    word. TLAPS has no induction for a function over all of `Nat`; `firstPairs` is a finite
    piece of it, whose existence follows from a least counterexample (`FirstPairsExist`).
  - Search (`searchAt`): while it reads, the numbers read so far stand in memory
    (`stored`), in place and in order, and the rest is still to read (`after`); then the value is at no index outside of the interval
    (`bounds`), which sortedness carries over to a half, and the interval's ends stay in
    `1..count+1` and `0..count`, so that neither passes below 0. Each element read lies
    where one was stored.
- `ProgramProofs!ProgramsFailWithoutRoom`: `FailsOnlyWithoutRoom`, from the same invariant.
  `r[31] = MEM_SIZE` tells a run that fails from an image that could not be loaded.
  `ProgramsStayTame`: `src` never goes `wild`. No program writes into its code, falls off its
  end or enters a macro half-way, so the refinement of `Tinker` leaves nothing of them out.
  The three theorems assume `TinkerScripts`: the programs are among the `Scripts` of
  `Toolchain`. `ScriptsAssumption` asks of those that they are `Meant`; that the programs are
  is `ProgramsMeant`, which TLC evaluates in the run `programs` (the provers do not know that
  a string literal is a `STRING`).
- `HarnessProofs!HarnessTypes`: types and bounds of buffer and pipe. The bound on
  `verdicts` is not inductive: that a verdict still finds a test without one needs to
  know where the harness is. `Consistent` adds what the place of each process says of
  the state (`HarnessAt`, `ChildAt`: who holds the pipe, what is empty, what has run).
  `NothingEverLost`: with it `NothingLost` is inductive; the steps that move a byte rest
  on `Shift` (a byte from the head of one sequence to the end of another keeps its
  place), `fgets` and `strlen` on `CStringWhole`. `HarnessGrades`: the refinement of
  `Grading`, one step at a time; when the harness judges, `Consistent` says that line,
  pipe and rest are empty, so that the buffer is the output. The last two assume
  `Texts`: no output has a NUL (section 5).

Assumptions: `WidthAssumption` (widths divide each other), `ChunkAssumption`,
`LdAssumption` (six chunks cover a word), `BoundAssumption` (scripts of the assembler have at
most 500 entries, so that `labelbuf` holds whatever waits; what is proved of `Assembler` is
proved for those), `AddressAssumption` (an image of `MaxLines`
lines ends below the largest address),
`MachineAssumption` (fields have their real widths, a register has eight bytes,
memory is small beside an `int`), `SizeAssumption` (the buffer has two bytes, the pipe
one), `BaseAssumption` and `ShiftAssumption` (code and data begin inside of memory; a
register has at least as many bits as a chunk of `ld`, and their number fits the
immediate field), `ArrayAssumption` (`ARRAY` is an address), and typing of the inputs. TLC evaluates all of them in the runs.

`ScriptsAssumption` says for which scripts `ScriptsRun` is proved: those whose lines are
`Meant`. Left out are the lines the assembler takes although they mean nothing, or
something else: a `mov` of no known form, missing operands, numbers wider than an `int`
(`asm_range`) or, for `ld`, than a word, hexadecimal ones (`asm_hex`), a label where a
number belongs, `push r31` (section 5); and `priv` and doubles, which `Tinker` does not have.
Its hypothesis `Lines` only types the inputs: they are sequences of `Line`.
The scripts of `tool_runs` satisfy all of this.

Only model-checked: `Termination`, `EndsWithoutBranches`, `ProgramsEnd` and
`FinishesOrStuck`, because they are liveness, which needs `ENABLED`. Every invariant and
every refinement that a passing run checks is stated by a theorem. Of `Tinker!Spec`, which has no fairness, everything is
proved; that a script goes on running is `EndsWithoutBranches` and `ProgramsEnd`.

In `Simulator` the result of a computation is intersected with the 64-bit values: bit
operations are sums over a set of bits, and that such a sum stays below a bound needs an
induction the provers cannot do. The deadlock check of `sim_runs` shows that nothing is
lost by it.

## 5. Where the code and what is said of it differ

- `asm_hex`: hexadecimal operands of 2^63 or more become 2^63 - 1 (`argparse.c`).
- `asm_range`: a literal is cut to an `int` before its range check.
- `asm_trailing`: a label after the last item is dropped.
- `asm_leftover`: a label entry can be taken for `halt`.
- `sim_empty`: an empty line is the number 0.

The models show more, without a run of their own:

- The binary goes to the second file name, not the third as `asm/README.md` says
  (`WriteOut`). The harness passes three names and runs the third; it calls programs
  named `hw3` and `hw4`, so which names matter is theirs.
- The test for `-` looks at the first character only, so a negative number behind a
  blank is read as a number near 2^64 (`valueOf` on a `blankMinus` line).
- `push r31` stores the old value of `r31`; in the order of the comment in `macro.h` it
  would be the new one (`push` against `popMovesFirst`). `RunsTheScript` leaves the
  line out of its scripts.
- The harness compares C strings: behind a NUL that a program prints, the rest of the
  line is not seen, and the buffer goes on from there (`cString`). With such outputs
  `NothingLost` and `GradesWhatRan` do not hold, so `harness_runs` has none.
- A simulator that cannot be executed may pass on, as its output, what the harness had
  printed and not flushed (`ExecFails`); its exit code makes the test fail all the same.
- `fibonacci.tk` and `fibbonacci.tk` count the sequence differently, by one. For 0
  their counter starts below zero; `binary_search.tk` takes the value for an element
  when the count is 0, and fails. Its draft `file.tk`, which counts from 0, lets the
  right end pass below zero.

## 6. Not modelled

- Text: trimming, punctuation inside operands, numbers `strtol` stops in, labels of
  64 characters, lines of more than the buffers hold.
- `printToIntermediate`, `charNum`, `binNum`, `printScript`: nothing calls them.
- `file.tk`, a draft of `binary_search.tk` that nothing builds or runs; the driver
  `test.c`, whose cases are inputs of `programs` and whose own code calls `system` and
  `popen` in order; the unit tests of the assembler.
- In the harness: the printed report, the names of temporary files, and calls whose
  failure the code does not look at (`dup2`, `fdopen`).
- An `fwrite` that fails: `printToBinary` does not look at its result, so a full disk
  leaves a short image behind the exit status 0.
- The values of doubles. The fixed capacities of `labelbuf` and `allEntries`: their
  overflow is undefined and beyond any bound of the model checker.

## 7. What is left

The assembler, its one-step specification and the refinement between them; the simulator;
the codec between the two; the composition and its refinement of the source-level machine;
the Tinker programs and what they print; the harness and its refinement: all are modelled,
checked and proved, liveness checked only. What could be added:

1. `AssemblerRefines` and `OnlyImage` meet in the reader's mind: a theorem that names both
   `Assembler` and `Toolchain` needs the two in one module, with two sets of variables.
2. Termination of the programs as a decreasing measure: the counter, or the length of the
   interval, that `goodAt` already bounds.
