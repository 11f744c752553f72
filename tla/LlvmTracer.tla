----------------------------- MODULE LlvmTracer -----------------------------
(***************************************************************************)
(* The LLVM pass that makes a program trace itself, MemoryTracer.cpp, and  *)
(* the program it makes.  The pass goes over the basic blocks four times:  *)
(* it lets main print the instruction count before it returns, puts a GEP  *)
(* instruction in front of every instruction that has a constant GEP for   *)
(* an operand, a counter behind every instruction, and a call of           *)
(* memory_trace behind every GEP.  The program then runs as one thread.    *)
(***************************************************************************)
EXTENDS Integers, Sequences, FiniteSets, SequencesExt

CONSTANTS
  Programs,           \* the programs: block |-> sequence of instructions
  Main,               \* the blocks of the function main
  Addrs,              \* the addresses a GEP may compute
  skipInstrLimit,
  memoryAccessLimit,
  MaxExecuted         \* bound of the model: instructions the program executes

\* An instruction: a PHI node, a GEP of one address or of a vector of them, the
\* end of its block (a branch or a return), or another one; and the number of
\* its operands that are constant GEPs.
Kinds == {"phi", "gep", "vectorGep", "other", "branch", "return"}
Instr == [kind : Kinds, constants : Nat]
Ends == {"branch", "return"}

\* Nothing but PHI nodes precedes a PHI node.
PhisLead(B) ==
  \A k \in DOMAIN B : B[k].kind = "phi" => \A j \in 1 .. k : B[j].kind = "phi"

\* A block of LLVM IR: PHI nodes first, one end.
IsBlock(B) ==
  /\ B \in Seq(Instr) /\ B # <<>>
  /\ \A k \in DOMAIN B : (B[k].kind \in Ends) <=> (k = Len(B))
  /\ PhisLead(B)

ASSUME LlvmAssumption ==
  /\ \A P \in Programs : Main \subseteq DOMAIN P /\ \A b \in DOMAIN P : IsBlock(P[b])
  /\ {skipInstrLimit, memoryAccessLimit, MaxExecuted} \subseteq Nat

VARIABLES
  program,   \* the program as it was
  code,      \* and as the pass leaves it
  stage,     \* the loop of the pass that is next, then "verify", "rejected" or
             \* "run", and "ended"
  block, at, \* the instruction that runs next
  counter, memoryInstcounter,   \* the global variables of the same names
  address,   \* result of the last GEP
  trace,     \* the addresses written
  printed,   \* the counts printed, with the number that they count
  (* What the program did, to compare the trace with: *)
  executed,  \* instructions of the program that were executed
  retired,   \* those that count: neither PHI nor end, with what the pass added
  wanted     \* the addresses computed when more than the limit had retired

pass == <<program, code>>
globals == <<counter, memoryInstcounter, trace, printed>>
history == <<executed, retired, wanted>>
vars == <<pass, stage, block, at, globals, address, history>>

-----------------------------------------------------------------------------
(* The pass.  In transformed code an instruction is marked `own' when it    *)
(* was the program's.                                                      *)

Own(instr) == [kind |-> instr.kind, constants |-> instr.constants, own |-> TRUE]
Added(kind) == [kind |-> kind, constants |-> 0, own |-> FALSE]

\* Every instruction of B replaced by a sequence.
Spliced(B, Op(_, _)) == FlattenSeq([k \in DOMAIN B |-> Op(B, k)])

Init ==
  /\ program \in Programs
  /\ code = [b \in DOMAIN program |-> [k \in DOMAIN program[b] |-> Own(program[b][k])]]
  /\ stage = "print"
  /\ block \in DOMAIN program /\ at = 1
  /\ counter = 0 /\ memoryInstcounter = 0
  /\ address = 0 /\ trace = <<>> /\ printed = <<>>
  /\ executed = 0 /\ retired = 0 /\ wanted = <<>>

\* One loop of the pass over the blocks of all functions.
Loop(from, to, Op(_, _)) ==
  /\ stage = from
  /\ code' = [b \in DOMAIN code |-> Spliced(code[b], Op)]
  /\ stage' = to
  /\ UNCHANGED <<program, block, at, globals, address, history>>

\* main loads the counter and prints it before it returns.
PrintAtReturn ==
  /\ stage = "print"
  /\ code' = [b \in DOMAIN code |->
       IF b \in Main /\ Last(code[b]).kind = "return"
       THEN Front(code[b]) \o <<Added("load"), Added("printf"), Last(code[b])>>
       ELSE code[b]]
  /\ stage' = "expand"
  /\ UNCHANGED <<program, block, at, globals, address, history>>

\* A bug in Expanded, the GEP inserted behind the instruction.
ExpandedBehind(B, k) == <<B[k]>> \o [c \in 1 .. B[k].constants |-> Added("gep")]

\* getAsInstruction(&I) for every operand; what is not a GEP is erased again.
Expanded(B, k) == [c \in 1 .. B[k].constants |-> Added("gep")] \o <<B[k]>>

ExpandConstants == Loop("expand", "count", Expanded)

\* A bug in Countable, PHI nodes not left out.
CountableAll(B, k) == k < Len(B)

\* There is a next node, and no PHI.
Countable(B, k) == k < Len(B) /\ B[k].kind # "phi"

\* Load, add and store of the counter, in front of the next node.
Counted(B, k) == IF Countable(B, k) THEN <<B[k], Added("count")>> ELSE <<B[k]>>

CountInstructions == Loop("count", "trace", Counted)

\* The call goes in front of the next node, which is the counter's load.  An
\* address of any other type than a pointer is not traced.
Traced(B, k) == IF B[k].kind = "gep" THEN <<B[k], Added("trace")>> ELSE <<B[k]>>

TraceGeps == Loop("trace", "verify", Traced)

\* opt verifies the module before it writes it.
Verify ==
  /\ stage = "verify"
  /\ stage' = IF \A b \in DOMAIN code : PhisLead(code[b]) THEN "run" ELSE "rejected"
  /\ UNCHANGED <<pass, block, at, globals, address, history>>

-----------------------------------------------------------------------------
(* The instrumented program.                                               *)

Current == code[block][at]
Running(kinds) == stage = "run" /\ Current.kind \in kinds

\* An instruction of the program, or a GEP that stands for an operand of it, or
\* what main prints with; only the ends of blocks are executed elsewhere.
Execute ==
  /\ Running(Kinds \ Ends)
  /\ Current.own => executed < MaxExecuted
  /\ executed' = IF Current.own THEN executed + 1 ELSE executed
  /\ retired' = IF Current.kind = "phi" THEN retired ELSE retired + 1
  /\ IF Current.kind = "gep"
     THEN /\ address' \in Addrs
          /\ wanted' = IF retired > skipInstrLimit THEN Append(wanted, address') ELSE wanted
     ELSE UNCHANGED <<address, wanted>>
  /\ at' = at + 1
  /\ UNCHANGED <<pass, stage, block, globals>>

\* A branch leads to some block; a return of main ends the program, another one
\* leads back to its caller.
End ==
  /\ Running(Ends)
  /\ executed < MaxExecuted
  /\ executed' = executed + 1
  /\ at' = 1
  /\ IF Current.kind = "return" /\ block \in Main
     THEN stage' = "ended" /\ UNCHANGED block
     ELSE block' \in DOMAIN code /\ UNCHANGED stage
  /\ UNCHANGED <<pass, globals, address, retired, wanted>>

Count ==
  /\ Running({"count"})
  /\ counter' = counter + 1
  /\ at' = at + 1
  /\ UNCHANGED <<pass, stage, block, memoryInstcounter, trace, printed, address, history>>

\* main's load reads what its printf prints.
LoadCounter ==
  /\ Running({"load"})
  /\ printed' = Append(printed, [count |-> counter, of |-> retired])
  /\ retired' = retired + 1
  /\ at' = at + 1
  /\ UNCHANGED <<pass, stage, block, counter, memoryInstcounter, trace, address,
                 executed, wanted>>

Printf ==
  /\ Running({"printf"})
  /\ retired' = retired + 1
  /\ at' = at + 1
  /\ UNCHANGED <<pass, stage, block, globals, address, executed, wanted>>

\* A bug in Skipping, the comparison not strict.
SkippingOneLess == counter < skipInstrLimit

\* memory_trace does nothing until the counter exceeds the limit, ...
Skipping == counter <= skipInstrLimit

Skip ==
  /\ Running({"trace"})
  /\ Skipping
  /\ at' = at + 1
  /\ UNCHANGED <<pass, stage, block, globals, address, history>>

BelowLimit == memoryInstcounter < memoryAccessLimit

\* ... then writes the address, ...
Write ==
  /\ Running({"trace"})
  /\ ~Skipping
  /\ BelowLimit
  /\ memoryInstcounter' = memoryInstcounter + 1
  /\ trace' = Append(trace, address)
  /\ at' = at + 1
  /\ UNCHANGED <<pass, stage, block, counter, printed, address, history>>

\* ... and at the limit prints the count, without the GEP it was called for, and
\* exits.
Exit ==
  /\ Running({"trace"})
  /\ ~Skipping
  /\ ~BelowLimit
  /\ memoryInstcounter' = memoryInstcounter + 1
  /\ printed' = Append(printed, [count |-> counter, of |-> retired - 1])
  /\ stage' = "ended"
  /\ UNCHANGED <<pass, block, at, counter, trace, address, history>>

Pass == PrintAtReturn \/ ExpandConstants \/ CountInstructions \/ TraceGeps \/ Verify

Next ==
  \/ Pass
  \/ Execute \/ End
  \/ Count \/ LoadCounter \/ Printf
  \/ Skip \/ Write \/ Exit

Spec == Init /\ [][Next]_vars
-----------------------------------------------------------------------------
(* Properties.                                                             *)

Inserted == {"gep", "load", "printf", "count", "trace"}

\* The program's own instructions in B, and how many of them there are up to k.
OwnAt(B) == {k \in DOMAIN B : B[k].own}
OwnUpTo(B, k) == Cardinality({j \in OwnAt(B) : j <= k})

\* After each loop every block still holds the program's instructions, all of
\* them and in their order, and ends as it did: the GEP of an operand precedes
\* the instruction it belongs to, and nothing follows the end.
ProgramKept ==
  \A b \in DOMAIN code :
    /\ Cardinality(OwnAt(code[b])) = Len(program[b])
    /\ \A k \in OwnAt(code[b]) : code[b][k] = Own(program[b][OwnUpTo(code[b], k)])
    /\ Last(code[b]).kind \in Ends

\* `For some reasons PHI nodes create problems': PHI nodes stay at the beginning
\* of their block, unless one of them has an operand to expand itself.
PhisFirst ==
  \A b \in DOMAIN code :
    (\A k \in DOMAIN program[b] : program[b][k].kind = "phi" => program[b][k].constants = 0) =>
      PhisLead(code[b])

\* The last address computed is wanted and its call is still to come.
Pending == stage = "run" /\ Current.kind = "trace" /\ retired - 1 > skipInstrLimit

\* The trace is the addresses that GEPs compute after the skip, in their order
\* and each once, up to the limit; the program is ended by the one after these.
TraceExact ==
  LET n == Len(trace) IN
  /\ n <= Len(wanted) /\ trace = SubSeq(wanted, 1, n)
  /\ \/ Len(wanted) = n + (IF Pending THEN 1 ELSE 0)
     \/ n = memoryAccessLimit /\ Len(wanted) = n + 1 /\ stage = "ended"

\* The counter never misses an instruction that counts, and is behind by the
\* one instruction whose counter is still to run.  A program that has ended
\* printed its count, as it was then: once, or twice when the limit is met by an
\* operand of main's return.
CountExact ==
  /\ stage = "run" =>
       counter = retired - (IF Current.kind \in {"count", "trace"} THEN 1 ELSE 0)
  /\ stage = "ended" =>
       \/ Len(printed) = 1
       \/ Len(printed) = 2 /\ memoryInstcounter > memoryAccessLimit
  /\ \A k \in DOMAIN printed : printed[k].count = printed[k].of
=============================================================================
