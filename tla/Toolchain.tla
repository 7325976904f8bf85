------------------------------ MODULE Toolchain ------------------------------
(***************************************************************************)
(* Both programs together: a script is assembled (as AsmSpec promises) and *)
(* the simulator runs its image.  The history variable src is the state of *)
(* the simulator when it last stood between two instructions of the script;*)
(* seen through it the machine code executes the script itself (Tinker).   *)
(***************************************************************************)
EXTENDS Simulator, Assembly

CONSTANT Scripts

ASSUME BaseAssumption == {CODE_BASE, DATA_BASE} \subseteq Addresses

\* A shift count is less than the width of a register and fits its field.
ASSUME ShiftAssumption == /\ BITS \in Nat /\ BITS <= IMM
                          /\ IMM_BITS < BITS /\ LOW_BITS < BITS

\* Lines that mean what they say.
ASSUME ScriptsAssumption == \A sc \in Scripts : isMeant(sc)

---------------------------------------------------------------------------
VARIABLES script, src

toolVars == <<vars, script, src>>

\* The instructions, and their places, come from the source.
Source == INSTANCE Tinker WITH
            status <- src.status, at <- src.at, regs <- src.r, memory <- src.mem,
            stdin <- src.stdin, stdout <- src.stdout

\* The addresses of its labels, and what its image must be, come from the assembler.
Target == INSTANCE AsmSpec WITH result <- "pending", image <- <<>>

---------------------------------------------------------------------------
(* Both together *)

ToolInit ==
  /\ script \in Scripts
  /\ \E its \in {items(script, Target!meaning)} :
       Target!isImage(its) /\ hasRoom(its) /\ file = imageOf(its)
  /\ Idle
  /\ src = [status |-> "ready", at |-> Source!firstFrom(1), r |-> [r EXCEPT ![31] = MEM_SIZE],
            mem |-> loaded(file), stdin |-> stdin, stdout |-> <<>>]

\* The place of the script an address is, and the addresses inside of a macro.
placesAt(x) == {k \in Source!places : Source!startOf(k) = x}
inside(k)   == {x \in Source!code : /\ Source!startOf(k) < x
                                    /\ x < Source!startOf(Source!firstFrom(k + 1))}
ranOut == src.at \notin DOMAIN script

\* This step writes into the code.
rewritesCode == /\ Runs({"mov3", "call"}) /\ status' = "running"
                /\ bytesAt(operand, 8) \cap Source!code # {}

now(st, k) == [status |-> st, at |-> k, r |-> r', mem |-> mem', stdin |-> stdin', stdout |-> stdout']

\* What src becomes in a step.
Observe ==
  \/ src.status = "ready" /\ src' = [src EXCEPT !.status = status']
  \/ src.status \in {"halted", "error"} /\ UNCHANGED src
  \/ /\ src.status = "running" /\ (ranOut \/ rewritesCode)
     /\ src' = [src EXCEPT !.status = "wild"]
  \/ /\ src.status = "running" /\ ~ranOut /\ ~rewritesCode
     /\ \/ status' \in {"halted", "error"} /\ src' = now(status', src.at)
        \/ status' = "running" /\ \E k \in placesAt(pc') : src' = now("running", k)
        \/ /\ status' = "running" /\ placesAt(pc') = {}
           /\ src' = IF pc' \in inside(src.at) /\ pc' = pc + 4 THEN src
                     ELSE [now("wild", src.at) EXCEPT !.r = src.r]

\* A machine that went wild is followed no further.
ToolNext == src.status # "wild" /\ Next /\ Observe /\ UNCHANGED script

ToolSpec == ToolInit /\ [][ToolNext]_toolVars /\ WF_toolVars(ToolNext)

---------------------------------------------------------------------------
\* Assembled and simulated, a script does what its lines say one after the other:
\* macros are atomic, operands keep their values through text, fields and bytes,
\* branches and calls go to the lines that are named, and input and output come in
\* the order of the lines.
RunsTheScript == Source!Spec
=============================================================================
