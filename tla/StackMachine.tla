---------------------------- MODULE StackMachine ----------------------------
(***************************************************************************)
(* What tiny-vm's instructions promise (docs/bytecode.md): a program is a  *)
(* sequence of instructions, the operands are whole integers on a stack of *)
(* bounded size, arithmetic replaces the two top ones by the result and    *)
(* touches nothing else.  The documents say nothing of operands of another *)
(* width than the operation's: then the result may be anything, but        *)
(* what is below must still be as it was.  Only ever implemented, never    *)
(* run.                                                                    *)
(***************************************************************************)
EXTENDS TinyInstructions

CONSTANT capacity    \* words of the stack, one per operand for its header

VARIABLES program, pc, phase, operands    \* the top operand comes first

machineVars == <<program, pc, phase, operands>>

used(q) ==
    LET upTo[i \in 0..Len(q)] == IF i = 0 THEN 0 ELSE upTo[i - 1] + Len(q[i]) + 1
    IN  upTo[Len(q)]

room(n) == capacity - used(operands) >= n + 1

MachineInit == program = << >> /\ pc = 0 /\ phase = "assembling" /\ operands = << >>

Load ==
    /\ phase = "assembling"
    /\ phase' \in {"running", "crashed"}
    /\ UNCHANGED <<pc, operands>>

current(name) == phase = "running" /\ pc < Len(program) /\ program[pc + 1].inst.name = name
width == program[pc + 1].inst.width
arg   == program[pc + 1].arg

goesOn     == pc' = pc + 1 /\ UNCHANGED <<program, phase>>
jumps      == pc' = arg[1] /\ UNCHANGED <<program, phase>>
crashes    == phase' = "crashed" /\ UNCHANGED <<program, operands>>
isZero(o)  == \A i \in 1..Len(o) : o[i] = 0
need(name) == IF name \in arithmetic THEN 2 ELSE IF name \in {"int", "jmp_if"} THEN 1 ELSE 0

Execute ==
    \/ current("int") /\ goesOn /\ UNCHANGED operands
    \/ current("jmp") /\ jumps /\ UNCHANGED operands
    \/ /\ current("jmp_if") /\ operands # << >> /\ UNCHANGED operands
       /\ IF isZero(operands[1]) THEN jumps ELSE goesOn
    \/ /\ current("pop") /\ goesOn
       /\ operands' = IF operands = << >> THEN << >> ELSE Tail(operands)
    \/ current("push") /\ room(width) /\ goesOn /\ operands' = <<arg>> \o operands

Calculate(name) ==
    /\ current(name) /\ Len(operands) >= 2 /\ goesOn
    /\ LET y == operands[1]  x == operands[2]  z == operands'[1] IN
       /\ z \in [1..width -> 0..(W - 1)]
       /\ operands' = <<z>> \o Tail(Tail(operands))
       /\ Len(x) = width /\ Len(y) = width =>
             /\ ~traps(name, value(x), value(y), width)
             /\ z = asWords(calculate(name, value(x), value(y), width), width)

Crash ==
    \/ \E name \in arithmetic \cup {"int", "jmp_if"} :
          current(name) /\ Len(operands) < need(name) /\ crashes
    \/ current("push") /\ ~room(width) /\ crashes
    \/ /\ current("div") /\ Len(operands) >= 2 /\ crashes
       /\ \/ Len(operands[1]) # width \/ Len(operands[2]) # width
          \/ traps("div", value(operands[2]), value(operands[1]), width)

Finish ==
    /\ phase = "running" /\ pc >= Len(program)
    /\ phase' = "halted"
    /\ UNCHANGED <<program, pc, operands>>

\* The program may be interpreted again, with what is on the stack.
Again ==
    /\ phase = "halted"
    /\ phase' = "running" /\ pc' = 0
    /\ UNCHANGED <<program, operands>>

MachineNext ==
    Load \/ Execute \/ (\E name \in arithmetic : Calculate(name)) \/ Crash \/ Finish \/ Again

MachineSpec == MachineInit /\ [][MachineNext]_machineVars
=============================================================================
