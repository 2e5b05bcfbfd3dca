------------------------------ MODULE SimpleVM ------------------------------
(***************************************************************************)
(* The example SimpleVM (examples/SimpleVM/main.cpp) on the collector of   *)
(* SparkGC.tla: a stack machine whose operands are Vec2 objects, popped    *)
(* before the result is allocated, and which has the collection done by a  *)
(* thread it waits for, answering handshakes.                              *)
(*                                                                         *)
(* The stack is SparkGC's stack of the mutator's roots; what an            *)
(* instruction has popped is in C++ locals, here hand, and no root.        *)
(***************************************************************************)
EXTENDS SparkGC

CONSTANTS vm,        \* the only mutator
          Programs   \* the opcodes given to addCode

Opcodes == {"NEW_VEC2", "ADD2", "SHOW2", "INC2_X", "INC2_Y", "COLLECT", "HALT"}

arity(op) == CASE op = "ADD2" -> 2
               [] op \in {"SHOW2", "INC2_X", "INC2_Y"} -> 1
               [] OTHER -> 0

\* How many operands the first n opcodes of p leave on the stack.
count(p, n, ops) == Cardinality({i \in 1..n : p[i] \in ops})
height(p, n) == count(p, n, {"NEW_VEC2"}) - count(p, n, {"ADD2", "SHOW2"})

\* No program pops an empty stack: what std::deque does then is undefined.
ASSUME SimpleVMAssumption ==
    /\ Mutators = {vm}
    /\ Programs \subseteq Seq(Opcodes)
    /\ \A p \in Programs : \A i \in DOMAIN p : height(p, i - 1) >= arity(p[i])

VARIABLES
    program, ip,   \* opcodes, and run's position in them
    vmPc,          \* where entrance is
    hand,          \* operands popped by the current instruction
    wait, thread,  \* the wait flag, and what doGCWait's thread is doing
    vec,           \* x and y of the Vec2 at each place, also after it is freed
    expected       \* ghost: what hand and stack should hold, or lost

vmVars  == <<program, ip, vmPc, hand, wait, thread, vec, expected>>
allVars == <<vars, vmVars>>

\* What is expected of an object that was the first root of a collection.
lost == << >>

VMInit ==
    /\ Init
    /\ program \in Programs /\ ip = 1
    /\ vmPc = "constructor"
    /\ hand = << >>
    /\ wait = FALSE /\ thread = "none"
    /\ vec = << >>
    /\ expected = << >>

\* "end" stands for the end of run's loop.
opcode == IF ip <= Len(program) THEN program[ip] ELSE "end"

Construct ==
    /\ vmPc = "constructor"
    /\ MutatorStep(vm) /\ registered' = {vm}
    /\ vmPc' = "run"
    /\ UNCHANGED <<program, ip, hand, wait, thread, vec, expected>>

executing == vmPc = "run" /\ running(vm)

\* Mutant of PopOperand: the operand stays on the stack.
PopWithoutRemoval ==
    /\ executing
    /\ Len(hand) < arity(opcode)
    /\ stack[vm] # << >>
    /\ hand' = Append(hand, Head(stack[vm]))
    /\ UNCHANGED <<vars, program, ip, vmPc, wait, thread, vec, expected>>

\* pop: the operand is a root no longer.
PopOperand ==
    /\ executing
    /\ Len(hand) < arity(opcode)
    /\ Pop(vm)
    /\ hand' = Append(hand, Head(stack[vm]))
    /\ UNCHANGED <<program, ip, vmPc, wait, thread, vec, expected>>

\* x and y of the result, from those of the operands.
result(vs) ==
    CASE opcode = "NEW_VEC2" -> <<0, 0>>
      [] opcode = "ADD2"     -> <<vs[1][1] + vs[2][1], vs[1][2] + vs[2][2]>>
      [] opcode = "INC2_X"   -> <<vs[1][1] + 1, vs[1][2]>>
      [] opcode = "INC2_Y"   -> <<vs[1][1], vs[1][2] + 1>>

allocating == /\ executing
              /\ opcode \in {"NEW_VEC2", "ADD2", "INC2_X", "INC2_Y"}
              /\ Len(hand) = arity(opcode)

\* gcNew, the instruction's arithmetic and push.  The operands are read after
\* the constructor has cleared the new object.  Places are handed out in
\* order, which ones matters to nothing here.
NewObject ==
    /\ allocating
    /\ \E o \in Places \ objects :
         LET cleared == [p \in DOMAIN vec \cup {o} |-> IF p = o THEN <<0, 0>> ELSE vec[p]] IN
         /\ \A q \in Places \ objects : o <= q
         /\ Allocate(vm, o)
         /\ vec' = [cleared EXCEPT ![o] = result([i \in DOMAIN hand |-> cleared[hand[i]]])]
    /\ LET wanted == SubSeq(expected, 1, Len(hand)) IN
       expected' = <<IF lost \in Range(wanted) THEN lost ELSE result(wanted)>>
                   \o SubSeq(expected, Len(hand) + 1, Len(expected))
    /\ hand' = << >> /\ ip' = ip + 1
    /\ UNCHANGED <<program, vmPc, wait, thread>>

\* The heap has no room: SparkMutator::allocate colors the nullptr, offsetOf
\* throws, and nobody catches it.  gcNew never sees the nullptr it would
\* collect for.  (CollectedHeap may also fail with places left.)
GcNewFails ==
    /\ allocating
    /\ pc' = "crashed"
    /\ UNCHANGED <<controlVars, heapVars, rootVars, traceVars, grayed, vmVars>>

Show ==
    /\ executing /\ opcode = "SHOW2" /\ Len(hand) = 1
    /\ hand' = << >> /\ expected' = Tail(expected)
    /\ ip' = ip + 1
    /\ UNCHANGED <<vars, program, vmPc, wait, thread, vec>>

\* The program has no HALT, and the loop ends.
CodeEnds ==
    /\ executing /\ opcode = "end"
    /\ vmPc' = "returned"
    /\ UNCHANGED <<vars, program, ip, hand, wait, thread, vec, expected>>

DoGCWait ==
    /\ executing /\ opcode \in {"COLLECT", "HALT"}
    /\ wait' = TRUE /\ thread' = "created"
    /\ vmPc' = "waiting"
    /\ UNCHANGED <<vars, program, ip, hand, vec, expected>>

\* Mutant of AnswerHandshake: the VM calls collect itself and is not there to answer.
AnswerNothing == FALSE

\* The loop's body.  The first root that is put in the mark buffer will not
\* be marked (OnlyFirstRootLost).
AnswerHandshake ==
    /\ vmPc = "waiting" /\ (wait \/ mPc[vm] # "run")
    /\ Answer(vm)
    /\ expected' = [i \in DOMAIN expected |->
                        IF grayed'[vm] # << >> /\ (hand \o stack[vm])[i] = grayed'[vm][1]
                        THEN lost ELSE expected[i]]
    /\ UNCHANGED <<program, ip, vmPc, hand, wait, thread, vec>>

\* The end of the loop, and of COLLECT or HALT.
WaitOver ==
    /\ vmPc = "waiting" /\ ~wait /\ mPc[vm] = "run"
    /\ vmPc' = IF opcode = "HALT" THEN "returned" ELSE "run"
    /\ ip' = IF opcode = "COLLECT" THEN ip + 1 ELSE ip
    /\ UNCHANGED <<vars, program, hand, wait, thread, vec, expected>>

Destroy ==
    /\ vmPc = "returned"
    /\ MutatorStep(vm) /\ registered' = {}
    /\ vmPc' = "destroyed"
    /\ UNCHANGED <<program, ip, hand, wait, thread, vec, expected>>

-----------------------------------------------------------------------------
\* The thread of doGCWait: collect, then the flag.
ThreadCollects ==
    /\ thread = "created"
    /\ StageClear
    /\ thread' = "collecting"
    /\ UNCHANGED <<program, ip, vmPc, hand, wait, vec, expected>>

ThreadRuns == thread = "collecting" /\ Collector /\ UNCHANGED vmVars

\* Mutant of ThreadEnds: the flag is cleared while collect still runs.
ThreadEndsEarly ==
    /\ thread = "collecting"
    /\ wait' = FALSE
    /\ UNCHANGED <<vars, program, ip, vmPc, hand, thread, vec, expected>>

ThreadEnds ==
    /\ thread = "collecting" /\ pc = "resting"
    /\ wait' = FALSE /\ thread' = "none"
    /\ UNCHANGED <<vars, program, ip, vmPc, hand, vec, expected>>

Run == Construct \/ PopOperand \/ NewObject \/ GcNewFails \/ Show \/ CodeEnds
       \/ DoGCWait \/ AnswerHandshake \/ WaitOver \/ Destroy
Thread == ThreadCollects \/ ThreadRuns \/ ThreadEnds

VMNext == Run \/ Thread

\* Two threads, each running as long as it can.
VMSpec == VMInit /\ [][VMNext]_allVars /\ WF_allVars(Run) /\ WF_allVars(Thread)
-----------------------------------------------------------------------------
held == hand \o stack[vm]

(***************************************************************************)
(* Type invariant; an operand that is to be popped is there.               *)
(***************************************************************************)
VMTypeOK ==
    /\ vmPc \in {"constructor", "run", "waiting", "returned", "destroyed"}
    /\ ip \in 1..(Len(program) + 1)
    /\ wait \in BOOLEAN /\ thread \in {"none", "created", "collecting"}
    /\ DOMAIN vec = DOMAIN slots
    /\ Len(expected) = Len(held) /\ Len(hand) <= arity(opcode)
    /\ vmPc = "run" => Len(held) >= arity(opcode)

(***************************************************************************)
(* No instruction is executed and no root changes while the collector is   *)
(* at work: the flag is set from before the thread is created until after  *)
(* collect has returned.                                                   *)
(***************************************************************************)
WaitCoversCollection ==
    pc \notin {"resting", "crashed"} => vmPc = "waiting" /\ wait /\ thread = "collecting"

(***************************************************************************)
(* Through every history of collections, toggles and reused places, every  *)
(* operand, on the stack or popped, is an object in use with the value the *)
(* program computed, but for the one root that a collection loses: the     *)
(* first it puts in the mark buffer.  (A process whose heap is full ends.) *)
(***************************************************************************)
ValuesKept ==
    pc # "crashed" => \A i \in DOMAIN held :
        expected[i] # lost => held[i] \in objects /\ vec[held[i]] = expected[i]

(***************************************************************************)
(* The program of main.cpp shows Vec2(4, 6), of an object still in use: in *)
(* the first collection of a process no root is lost.                      *)
(***************************************************************************)
entranceProgram ==
    <<"NEW_VEC2", "INC2_X", "INC2_Y", "INC2_Y",
      "NEW_VEC2", "INC2_X", "INC2_X", "INC2_X", "INC2_Y", "INC2_Y", "INC2_Y", "INC2_Y",
      "ADD2", "COLLECT", "SHOW2", "HALT">>

ExampleShows ==
    program = entranceProgram /\ opcode = "SHOW2" /\ hand # << >> =>
        hand[1] \in objects /\ vec[hand[1]] = <<4, 6>>

(***************************************************************************)
(* Every program comes to its end, or the process does: the VM answers     *)
(* each handshake of the thread it waits for.                              *)
(***************************************************************************)
RunEnds == <>(vmPc = "destroyed" \/ pc = "crashed")
=============================================================================
