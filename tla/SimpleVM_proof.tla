--------------------------- MODULE SimpleVM_proof --------------------------
(***************************************************************************)
(* Proofs about SimpleVM, for every program, heap and number of            *)
(* collections.                                                            *)
(***************************************************************************)
EXTENDS SimpleVM, SparkGC_proof

-----------------------------------------------------------------------------
(***************************************************************************)
(* The inductive invariant, with CollectInv.  What the machine is doing    *)
(* while the thread exists; that the program's opcodes determine how many  *)
(* operands there are; and that in a collection each root the machine has  *)
(* looked at is marked, or in the mark buffer and not the first there, or  *)
(* known to be lost.                                                       *)
(***************************************************************************)
ThreadInv ==
    /\ thread \in {"none", "created", "collecting"}
    /\ thread = "none" => pc \in {"resting", "crashed"}
    /\ thread = "created" => pc = "resting" /\ vmPc = "waiting" /\ wait
    /\ thread = "collecting" => vmPc = "waiting" /\ wait

MachineTyped ==
    /\ program \in Programs /\ ip \in 1..(Len(program) + 1)
    /\ vmPc \in {"constructor", "run", "waiting", "returned", "destroyed"}
    /\ wait \in BOOLEAN
    /\ DOMAIN vec = DOMAIN slots
    /\ hand \in Seq(DOMAIN slots) /\ Len(hand) <= arity(opcode)
    /\ vmPc # "run" => hand = << >>
    /\ expected \in Seq((Nat \X Nat) \cup {lost})
    /\ Len(expected) = Len(hand) + Len(stack[vm])
    /\ Len(expected) = height(program, ip - 1)
    /\ vmPc \in {"run", "waiting"} => registered = {vm}

RootsSafe ==
    pc \in collecting => \A i \in DOMAIN stack[vm] :
        (vm \in rooted \/ i <= marking[vm]) /\ expected[i] # lost =>
            \/ ~isClear(stack[vm][i])
            \/ \E j \in 2..Len(grayed[vm]) : grayed[vm][j] = stack[vm][i]

VMInv == ThreadInv /\ MachineTyped /\ (pc # "crashed" => ValuesKept /\ RootsSafe)

-----------------------------------------------------------------------------
LEMMA AnswerKeepsPc ==
    ASSUME NEW m, MutatorStep(m) \/ Answer(m)
    PROVE  UNCHANGED pc
  BY DEF Answer, MutatorStep, MarkGray, MarkGlobalRoot, H!RegisterMutator, H!UnregisterMutator,
     H!LoadState, H!SetAllocationColor, H!StoreState, H!MarkGlobalRoot, H!collectorVars,
     handshakeVars

LEMMA NextThreadInv == ThreadInv /\ [VMNext]_allVars => ThreadInv'
<1> SUFFICES ASSUME ThreadInv, [VMNext]_allVars PROVE ThreadInv'
  OBVIOUS
<1>1. CASE Construct \/ Destroy
  BY <1>1, AnswerKeepsPc DEF Construct, Destroy, ThreadInv
<1>2. CASE PopOperand \/ NewObject
  BY <1>2 DEF PopOperand, NewObject, Pop, Allocate, handshakeVars, ThreadInv
<1>3. CASE GcNewFails
  BY <1>3 DEF GcNewFails, allocating, executing, vmVars, ThreadInv
<1>4. CASE Show \/ CodeEnds \/ WaitOver
  BY <1>4 DEF Show, CodeEnds, WaitOver, executing, vars, handshakeVars, running, ThreadInv
<1>5. CASE DoGCWait
  BY <1>5 DEF DoGCWait, executing, running, vars, handshakeVars, ThreadInv
<1>6. CASE AnswerHandshake
  BY <1>6, AnswerKeepsPc DEF AnswerHandshake, ThreadInv
<1>7. CASE ThreadCollects
  BY <1>7 DEF ThreadCollects, ThreadInv
<1>8. CASE ThreadRuns
  BY <1>8 DEF ThreadRuns, vmVars, ThreadInv
<1>9. CASE ThreadEnds
  BY <1>9 DEF ThreadEnds, vars, handshakeVars, ThreadInv
<1>10. CASE UNCHANGED allVars
  BY <1>10 DEF allVars, vars, handshakeVars, vmVars, ThreadInv
<1> QED
  BY <1>1, <1>2, <1>3, <1>4, <1>5, <1>6, <1>7, <1>8, <1>9, <1>10 DEF VMNext, Run, Thread

(***************************************************************************)
(* While the collector is at work the machine is in doGCWait's loop, with  *)
(* the flag set, in every program: no root is pushed or popped during a    *)
(* collection (main.cpp:154-164).                                          *)
(***************************************************************************)
THEOREM WaitAlwaysCovers == VMSpec => []WaitCoversCollection
<1>1. VMInit => ThreadInv
  BY DEF VMInit, Init, H!Init, ThreadInv
<1>2. ThreadInv => WaitCoversCollection
  BY DEF ThreadInv, WaitCoversCollection
<1> QED
  BY <1>1, <1>2, NextThreadInv, PTL DEF VMSpec

-----------------------------------------------------------------------------
(***************************************************************************)
(* What is proved of the collector holds of the example: its steps are     *)
(* SparkGC's, but for the end of the process in gcNew.                     *)
(***************************************************************************)
LEMMA VMStepIsStep == [VMNext]_allVars => [Next]_vars \/ GcNewFails
<1> SUFFICES ASSUME [VMNext]_allVars, ~GcNewFails PROVE [Next]_vars
  OBVIOUS
<1> vm \in Mutators
  BY SimpleVMAssumption
<1>1. CASE Construct \/ Destroy
  BY <1>1 DEF Construct, Destroy, Next
<1>2. CASE PopOperand
  BY <1>2 DEF PopOperand, Next
<1>3. CASE NewObject
  BY <1>3 DEF NewObject, Next
<1>4. CASE Show \/ CodeEnds \/ DoGCWait \/ WaitOver \/ ThreadEnds \/ UNCHANGED allVars
  BY <1>4 DEF Show, CodeEnds, DoGCWait, WaitOver, ThreadEnds, allVars
<1>5. CASE AnswerHandshake
  BY <1>5 DEF AnswerHandshake, Answer, Next
<1>6. CASE ThreadCollects \/ ThreadRuns
  BY <1>6 DEF ThreadCollects, ThreadRuns, Next
<1> QED
  BY <1>1, <1>2, <1>3, <1>4, <1>5, <1>6 DEF VMNext, Run, Thread

LEMMA VMNextCollectInv ==
    ASSUME MaxRegistered <= 1, CollectInv, [VMNext]_allVars
    PROVE  CollectInv'
<1>1. CASE [Next]_vars
  BY <1>1, NextCollectInv
<1>2. CASE GcNewFails
  <2>1. UNCHANGED <<controlVars, heapVars, rootVars, traceVars, grayed>> /\ pc' = "crashed"
    BY <1>2 DEF GcNewFails
  <2>2. Typed'
    BY <2>1, Parts DEF Typed, GraphTyped, BuffersTyped, BlueIsUnallocated, controlVars,
       heapVars, rootVars, bufferVars, traceVars
  <2> QED
    BY <2>1, <2>2, PartsNext
<1> QED
  BY <1>1, <1>2, VMStepIsStep

LEMMA VMCollectInvariant ==
    ASSUME MaxRegistered <= 1
    PROVE  VMSpec => []CollectInv
<1>1. CollectInv /\ [VMNext]_allVars => CollectInv'
  BY VMNextCollectInv
<1>2. VMInit => CollectInv
  BY InitCollectInv DEF VMInit
<1> QED
  BY <1>1, <1>2, PTL DEF VMSpec

(***************************************************************************)
(* In SimpleVM too, the toggle leaves every survivor in the scanned part   *)
(* of the heap clear for the next COLLECT (SparkGC.cpp:137).               *)
(***************************************************************************)
THEOREM VMToggleClearsSurvivors ==
    ASSUME MaxRegistered <= 1
    PROVE  VMSpec => []SurvivorsAreClear
<1>1. CollectInv => SurvivorsAreClear
  BY DEF CollectInv, SurvivorsAreClear, SweptColors
<1> QED
  BY <1>1, VMCollectInvariant, PTL

(***************************************************************************)
(* In SimpleVM too, a collection marks only what the operands on the stack *)
(* reach, or what a read from beyond the mark buffer reaches, in every     *)
(* program and however often it collects (SparkGC::collectorTrace).        *)
(***************************************************************************)
THEOREM VMTraceMarksNoGarbage ==
    ASSUME MaxRegistered <= 1
    PROVE  VMSpec => []TracePrecise
<1>1. VMInit => MarkedReached
  BY DEF VMInit, Init, H!Init, MarkedReached, collecting, beforeTrace
<1>2. MarkedReached => TracePrecise
  BY DEF MarkedReached, TracePrecise, collecting
<1>3. CollectInv /\ MarkedReached /\ [VMNext]_allVars => MarkedReached'
  <2> SUFFICES ASSUME CollectInv, MarkedReached, [VMNext]_allVars PROVE MarkedReached'
    OBVIOUS
  <2>1. CASE [Next]_vars
    BY <2>1, NextMarkedReached
  <2>2. CASE GcNewFails
    BY <2>2 DEF GcNewFails, MarkedReached, collecting, beforeTrace
  <2> QED
    BY <2>1, <2>2, VMStepIsStep
<1> QED
  BY <1>1, <1>2, <1>3, VMCollectInvariant, PTL DEF VMSpec

-----------------------------------------------------------------------------
(***************************************************************************)
(* The operands of a program, counted.                                     *)
(***************************************************************************)
LEMMA CountNext ==
    ASSUME NEW p, NEW n \in Nat, NEW ops
    PROVE  /\ count(p, n, ops) \in Nat
           /\ count(p, n + 1, ops) = count(p, n, ops) + (IF p[n + 1] \in ops THEN 1 ELSE 0)
<1> DEFINE T == {i \in 1..n : p[i] \in ops}
           U == {i \in 1..(n + 1) : p[i] \in ops}
<1>1. IsFiniteSet(T)
  <2>1. IsFiniteSet(1..n)
    BY FS_Interval
  <2> QED
    BY <2>1, FS_Subset
<1>2. Cardinality(T) \in Nat
  BY <1>1, FS_CardinalityType
<1>3. CASE p[n + 1] \in ops
  <2>1. U = T \cup {n + 1} /\ n + 1 \notin T
    BY <1>3
  <2> HIDE DEF T, U
  <2>2. Cardinality(U) = Cardinality(T) + 1
    BY <1>1, <2>1, FS_AddElement
  <2> QED
    BY <1>2, <1>3, <2>2 DEF T, U, count
<1>4. CASE p[n + 1] \notin ops
  <2>1. U = T
    BY <1>4
  <2> QED
    BY <1>2, <1>4, <2>1 DEF count
<1> QED
  BY <1>3, <1>4

LEMMA HeightNext ==
    ASSUME NEW p, NEW n \in Nat
    PROVE  /\ height(p, n) \in Int
           /\ height(p, n + 1) = height(p, n) + (IF p[n + 1] \in {"NEW_VEC2"} THEN 1 ELSE 0)
                                              - (IF p[n + 1] \in {"ADD2", "SHOW2"} THEN 1 ELSE 0)
  BY CountNext DEF height

LEMMA Arity ==
    /\ \A op : arity(op) \in 0..2
    /\ arity("ADD2") = 2 /\ arity("SHOW2") = 1 /\ arity("INC2_X") = 1 /\ arity("INC2_Y") = 1
    /\ arity("NEW_VEC2") = 0 /\ arity("COLLECT") = 0 /\ arity("HALT") = 0 /\ arity("end") = 0
  BY DEF arity

LEMMA Machine == vm \in Mutators
  BY SimpleVMAssumption

-----------------------------------------------------------------------------
(***************************************************************************)
(* What the steps of the collector and the answers of the machine leave    *)
(* alone.                                                                  *)
(***************************************************************************)
LEMMA CollectorKeeps ==
    ASSUME Collector
    PROVE  UNCHANGED <<registered, rooted, slots, stack, marking, grayed>>
<1>1. ASSUME HandshakeStep
      PROVE  UNCHANGED <<registered, rooted, slots, stack, marking, grayed>>
  BY <1>1 DEF HandshakeStep, H!PostHandshake, H!CheckMutator, H!EndPass, H!PostState,
     H!ToggleClear, H!ToggleMark, H!mutatorVars, heapVars, rootVars, bufferVars
<1>2. ASSUME NEW m \in Mutators, TraceBuffer(m) \/ TraceBeyondBuffer(m)
      PROVE  UNCHANGED <<registered, rooted, slots, stack, marking, grayed>>
  BY <1>2 DEF TraceBuffer, TraceBeyondBuffer, handshakeVars, controlVars, rootVars, bufferVars
<1>3. ASSUME EmptyMarkBuffer \/ TraceDone \/ CollectorSweep \/ SweepThrows
      PROVE  UNCHANGED <<registered, rooted, slots, stack, marking, grayed>>
  BY <1>3 DEF EmptyMarkBuffer, TraceDone, CollectorSweep, SweepThrows, H!PostState,
     H!CollectorSweep, H!mutatorVars, handshakeVars, controlVars, heapVars, rootVars, bufferVars
<1> QED
  BY <1>1, <1>2, <1>3 DEF Collector

LEMMA AnswerKeeps ==
    ASSUME NEW m, Answer(m)
    PROVE  UNCHANGED <<pc, clearColor, registered, slots, objects, color, stack>>
<1>1. CASE H!HandshakeCollector(m) /\ MutatorStep(m)
  <2>1. UNCHANGED <<pc, clearColor, registered>>
    BY <1>1 DEF H!HandshakeCollector, H!LoadState, H!MarkGlobalRoot, H!SetAllocationColor,
       H!StoreState, H!collectorVars
  <2> QED
    BY <1>1, <2>1 DEF MutatorStep, heapVars, rootVars
<1>2. CASE MarkGray(m)
  BY <1>2 DEF MarkGray, handshakeVars, controlVars, heapVars
<1>3. CASE MarkGlobalRoot(m)
  BY <1>3 DEF MarkGlobalRoot, H!MarkGlobalRoot, H!collectorVars, heapVars
<1> QED
  BY <1>1, <1>2, <1>3 DEF Answer

-----------------------------------------------------------------------------
(***************************************************************************)
(* The machine's own state.                                                *)
(***************************************************************************)
Values == (Nat \X Nat) \cup {lost}

LEMMA MachineKept ==
    ASSUME MachineTyped, UNCHANGED <<program, ip, hand, expected, slots, stack>>, DOMAIN vec' = DOMAIN vec,
           wait' \in BOOLEAN,
           vmPc' \in {"constructor", "run", "waiting", "returned", "destroyed"},
           vmPc' # "run" => hand = << >>,
           vmPc' \in {"run", "waiting"} => registered' = {vm}
    PROVE  MachineTyped'
  BY DEF MachineTyped, opcode

\* The current opcode, when there is one.
LEMMA Opcode ==
    ASSUME MachineTyped, opcode # "end"
    PROVE  /\ ip \in Nat /\ ip <= Len(program) /\ opcode = program[ip] /\ ip - 1 \in Nat
           /\ Len(program) \in Nat /\ ip + 1 \in 1..(Len(program) + 1)
           /\ height(program, ip) = height(program, ip - 1)
                + (IF opcode \in {"NEW_VEC2"} THEN 1 ELSE 0)
                - (IF opcode \in {"ADD2", "SHOW2"} THEN 1 ELSE 0)
<1>1. program \in Seq(Opcodes)
  BY SimpleVMAssumption DEF MachineTyped
<1>2. /\ ip \in Nat /\ ip <= Len(program) /\ opcode = program[ip] /\ ip - 1 \in Nat
      /\ Len(program) \in Nat /\ ip + 1 \in 1..(Len(program) + 1) /\ (ip - 1) + 1 = ip
  BY <1>1 DEF MachineTyped, opcode
<1> QED
  BY <1>2, HeightNext

LEMMA NewObjectTyped ==
    ASSUME CollectInv, MachineTyped, NewObject
    PROVE  MachineTyped'
<1> DEFINE k == Len(hand)
           wanted == SubSeq(expected, 1, k)
           value == IF lost \in Range(wanted) THEN lost ELSE result(wanted)
           rest == SubSeq(expected, k + 1, Len(expected))
<1>0. vm \in Mutators
  BY Machine
<1>1. PICK o \in Places \ objects :
        /\ Allocate(vm, o)
        /\ DOMAIN vec' = DOMAIN vec \cup {o}
  BY DEF NewObject
<1>2. /\ opcode \in {"NEW_VEC2", "ADD2", "INC2_X", "INC2_Y"} /\ k = arity(opcode)
      /\ vmPc = "run" /\ opcode # "end"
      /\ expected' = <<value>> \o rest /\ hand' = << >> /\ ip' = ip + 1
      /\ UNCHANGED <<program, vmPc, wait>>
  BY DEF NewObject, allocating, executing
<1>3. /\ DOMAIN slots' = DOMAIN slots \cup {o}
      /\ stack' = [stack EXCEPT ![vm] = <<o>> \o @] /\ UNCHANGED registered
  BY <1>1 DEF Allocate, handshakeVars, controlVars
<1>4. /\ hand \in Seq(DOMAIN slots) /\ k \in Nat /\ stack \in [Mutators -> Seq(DOMAIN slots)]
      /\ expected \in Seq(Values) /\ Len(expected) \in Nat
      /\ Len(expected) = k + Len(stack[vm]) /\ Len(stack[vm]) \in Nat
      /\ Len(expected) = height(program, ip - 1)
      /\ DOMAIN vec = DOMAIN slots
  <2>1. stack \in [Mutators -> Seq(DOMAIN slots)]
    BY DEF CollectInv, BuffersTyped
  <2>2. Len(stack[vm]) \in Nat
    BY <1>0, <2>1
  <2>3. hand \in Seq(DOMAIN slots) /\ expected \in Seq(Values)
    BY DEF MachineTyped, Values
  <2>4. k \in Nat /\ Len(expected) \in Nat
    BY <2>3
  <2>5. /\ Len(expected) = k + Len(stack[vm]) /\ Len(expected) = height(program, ip - 1)
        /\ DOMAIN vec = DOMAIN slots
    BY DEF MachineTyped
  <2> QED
    BY <2>1, <2>2, <2>3, <2>4, <2>5
<1>5. /\ wanted \in Seq(Values) /\ Len(wanted) = k
      /\ rest \in Seq(Values) /\ Len(rest) = Len(stack[vm])
  BY <1>4
<1>6. value \in Values
  <2>1. CASE lost \in Range(wanted)
    BY <2>1 DEF Values
  <2>2. CASE lost \notin Range(wanted)
    <3>1. \A i \in 1..k : wanted[i] \in Nat \X Nat
      <4>1. DOMAIN wanted = 1..k /\ \A i \in 1..k : wanted[i] \in Values
        BY <1>4, <1>5
      <4> HIDE DEF wanted, k
      <4> QED
        BY <4>1, <2>2 DEF Range, Values
    <3>2. result(wanted) \in Nat \X Nat
      <4>1. CASE opcode = "NEW_VEC2"
        BY <4>1 DEF result
      <4>2. CASE opcode = "ADD2"
        <5>1. 1 \in 1..k /\ 2 \in 1..k
          BY <1>2, <4>2, Arity
        <5>2. /\ wanted[1][1] \in Nat /\ wanted[1][2] \in Nat
              /\ wanted[2][1] \in Nat /\ wanted[2][2] \in Nat
          BY <3>1, <5>1
        <5> HIDE DEF wanted
        <5> QED
          BY <4>2, <5>2 DEF result
      <4>3. CASE opcode \in {"INC2_X", "INC2_Y"}
        <5>1. 1 \in 1..k
          BY <1>2, <4>3, Arity
        <5>2. wanted[1][1] \in Nat /\ wanted[1][2] \in Nat
          BY <3>1, <5>1
        <5> HIDE DEF wanted
        <5> QED
          BY <4>3, <5>2 DEF result
      <4> QED
        BY <1>2, <4>1, <4>2, <4>3
    <3> QED
      BY <2>2, <3>2 DEF Values
  <2> QED
    BY <2>1, <2>2
<1> HIDE DEF value, rest
<1>7. expected' \in Seq(Values) /\ Len(expected') = 1 + Len(stack[vm])
  BY <1>2, <1>4, <1>5, <1>6
<1>8. Len(stack'[vm]) = 1 + Len(stack[vm])
  BY <1>0, <1>3, <1>4
<1>9. Len(expected') = height(program, ip)
  <2>1. Len(stack[vm]) = height(program, ip - 1) - k
    BY <1>4
  <2>2. height(program, ip) = height(program, ip - 1)
          + (IF opcode \in {"NEW_VEC2"} THEN 1 ELSE 0)
          - (IF opcode \in {"ADD2", "SHOW2"} THEN 1 ELSE 0)
    BY <1>2, Opcode
  <2> DEFINE h == height(program, ip - 1)
             next == height(program, ip)
  <2>3. h \in Nat
    BY <1>4
  <2> HIDE DEF h, next, k
  <2>4. CASE opcode = "NEW_VEC2"
    <3>1. k = 0 /\ next = h + 1 - 0
      BY <1>2, <2>2, <2>4, Arity DEF h, next
    <3> QED
      BY <1>7, <2>1, <2>3, <3>1 DEF h, next
  <2>5. CASE opcode = "ADD2"
    <3>1. k = 2 /\ next = h + 0 - 1
      BY <1>2, <2>2, <2>5, Arity DEF h, next
    <3> QED
      BY <1>7, <2>1, <2>3, <3>1 DEF h, next
  <2>6. CASE opcode \in {"INC2_X", "INC2_Y"}
    <3>1. k = 1 /\ next = h + 0 - 0
      BY <1>2, <2>2, <2>6, Arity DEF h, next
    <3> QED
      BY <1>7, <2>1, <2>3, <3>1 DEF h, next
  <2> QED
    BY <1>2, <2>4, <2>5, <2>6
<1>10. ip' - 1 = ip /\ ip' \in 1..(Len(program) + 1)
  BY <1>2, Opcode
<1>11. Len(hand') = 0 /\ hand' \in Seq(DOMAIN slots') /\ Len(hand') <= arity(opcode')
  BY <1>2, Arity
<1>12. vmPc \in {"run", "waiting"} => registered = {vm}
  BY DEF MachineTyped
<1> QED
  BY <1>2, <1>1, <1>3, <1>4, <1>7, <1>8, <1>9, <1>10, <1>11, <1>12 DEF MachineTyped, Values

LEMMA TakeOver ==
    ASSUME NEW S, NEW s \in Seq(S), s # << >>, NEW h \in Seq(S)
    PROVE  /\ Append(h, Head(s)) \in Seq(S) /\ Tail(s) \in Seq(S)
           /\ Len(Append(h, Head(s))) = Len(h) + 1 /\ Len(Tail(s)) = Len(s) - 1
           /\ Len(h) \in Nat /\ Len(s) \in Nat
           /\ Append(h, Head(s)) \o Tail(s) = h \o s
<1>1. /\ Append(h, Head(s)) \in Seq(S) /\ Tail(s) \in Seq(S)
      /\ Len(Append(h, Head(s))) = Len(h) + 1 /\ Len(Tail(s)) = Len(s) - 1
      /\ Len(h) \in Nat /\ Len(s) \in Nat
  OBVIOUS
<1>2. \A i \in 1..(Len(h) + Len(s)) : (Append(h, Head(s)) \o Tail(s))[i] = (h \o s)[i]
  BY <1>1
<1>3. /\ Append(h, Head(s)) \o Tail(s) \in Seq(S) /\ h \o s \in Seq(S)
      /\ Len(Append(h, Head(s)) \o Tail(s)) = Len(h) + Len(s) /\ Len(h \o s) = Len(h) + Len(s)
  BY <1>1
<1>4. Append(h, Head(s)) \o Tail(s) = h \o s
  BY <1>2, <1>3
<1> QED
  BY <1>1, <1>4

LEMMA PopOperandTyped ==
    ASSUME CollectInv, MachineTyped, PopOperand
    PROVE  MachineTyped' /\ held' = held
<1>0. vm \in Mutators
  BY Machine
<1>1. /\ stack[vm] # << >> /\ stack' = [stack EXCEPT ![vm] = Tail(@)]
      /\ UNCHANGED <<registered, slots>>
      /\ Len(hand) < arity(opcode) /\ hand' = Append(hand, Head(stack[vm])) /\ vmPc = "run"
      /\ UNCHANGED <<program, ip, vmPc, wait, vec, expected>>
  BY DEF PopOperand, Pop, executing, handshakeVars, controlVars, heapVars
<1>2. stack \in [Mutators -> Seq(DOMAIN slots)] /\ stack[vm] \in Seq(DOMAIN slots)
  BY <1>0 DEF CollectInv, BuffersTyped
<1>3. hand \in Seq(DOMAIN slots)
  BY DEF MachineTyped
<1>5. stack'[vm] = Tail(stack[vm])
  BY <1>0, <1>1, <1>2
<1>6. /\ hand' \in Seq(DOMAIN slots) /\ Len(hand') = Len(hand) + 1
      /\ Len(stack'[vm]) = Len(stack[vm]) - 1
      /\ Len(hand) \in Nat /\ Len(stack[vm]) \in Nat
      /\ hand' \o stack'[vm] = hand \o stack[vm]
  <2> DEFINE h == hand
             t == stack[vm]
  <2>1. h \in Seq(DOMAIN slots) /\ t \in Seq(DOMAIN slots) /\ t # << >>
    BY <1>1, <1>2, <1>3
  <2>2. hand' = Append(h, Head(t)) /\ stack'[vm] = Tail(t)
    BY <1>1, <1>5
  <2> HIDE DEF h, t
  <2>3. /\ hand' \in Seq(DOMAIN slots) /\ Len(hand') = Len(h) + 1
        /\ Len(stack'[vm]) = Len(t) - 1 /\ Len(h) \in Nat /\ Len(t) \in Nat
        /\ hand' \o stack'[vm] = h \o t
    BY <2>1, <2>2, TakeOver
  <2> QED
    BY <2>3 DEF h, t
<1>7. Len(hand') <= arity(opcode)
  BY <1>1, <1>6, Arity
<1>8. Len(hand') + Len(stack'[vm]) = Len(hand) + Len(stack[vm])
  <2> DEFINE a == Len(hand)
             b == Len(stack[vm])
  <2>1. a \in Nat /\ b \in Nat /\ Len(hand') = a + 1 /\ Len(stack'[vm]) = b - 1
    BY <1>6
  <2> HIDE DEF a, b
  <2>2. Len(hand') + Len(stack'[vm]) = a + b
    BY <2>1
  <2> QED
    BY <2>2 DEF a, b
<1>9. MachineTyped'
  BY <1>1, <1>6, <1>7, <1>8 DEF MachineTyped, opcode
<1> QED
  BY <1>6, <1>9 DEF held

LEMMA ShowTyped ==
    ASSUME CollectInv, MachineTyped, Show
    PROVE  MachineTyped'
<1>1. /\ opcode = "SHOW2" /\ Len(hand) = 1 /\ hand' = << >> /\ expected' = Tail(expected)
      /\ ip' = ip + 1 /\ vmPc = "run" /\ opcode # "end"
      /\ UNCHANGED <<registered, slots, stack, program, vmPc, wait, vec>>
  BY DEF Show, executing, vars, handshakeVars, controlVars, heapVars, rootVars
<1>2. stack[vm] \in Seq(DOMAIN slots)
  BY Machine DEF CollectInv, BuffersTyped
<1>3. Len(stack[vm]) \in Nat
  BY <1>2
<1>4. expected \in Seq(Values) /\ Len(expected) = 1 + Len(stack[vm])
  BY <1>1 DEF MachineTyped, Values
<1>5. Tail(expected) \in Seq(Values) /\ Len(Tail(expected)) = Len(stack[vm])
  <2>1. expected # << >>
    BY <1>3, <1>4
  <2> QED
    BY <1>3, <1>4, <2>1
<1>6. Len(Tail(expected)) = height(program, ip)
  <2>1. height(program, ip) = height(program, ip - 1) + 0 - 1
    BY <1>1, Opcode
  <2>2. height(program, ip - 1) = 1 + Len(stack[vm])
    BY <1>4 DEF MachineTyped
  <2> QED
    BY <1>3, <1>5, <2>1, <2>2
<1>7. ip' - 1 = ip /\ ip' \in 1..(Len(program) + 1)
  BY <1>1, Opcode
<1>8. Len(hand') = 0 /\ hand' \in Seq(DOMAIN slots') /\ Len(hand') <= arity(opcode')
  BY <1>1, Arity
<1> QED
  BY <1>1, <1>3, <1>5, <1>6, <1>7, <1>8 DEF MachineTyped, Values

LEMMA AnswerHandshakeTyped ==
    ASSUME CollectInv, MachineTyped, AnswerHandshake
    PROVE  /\ MachineTyped' /\ hand = << >>
           /\ \A i \in DOMAIN expected : expected'[i] # lost => expected'[i] = expected[i]
           /\ UNCHANGED <<pc, clearColor, registered, slots, objects, color, stack, hand, vec, vmPc>>
<1>1. /\ vmPc = "waiting" /\ Answer(vm)
      /\ UNCHANGED <<program, ip, vmPc, hand, wait, vec>>
      /\ expected' = [i \in DOMAIN expected |-> expected'[i]]
      /\ \A i \in DOMAIN expected : expected'[i] \in {lost, expected[i]}
  BY DEF AnswerHandshake
<1>2. UNCHANGED <<pc, clearColor, registered, slots, objects, color, stack>>
  BY <1>1, AnswerKeeps
<1>3. expected \in Seq(Values)
  BY DEF MachineTyped, Values
<1>4. expected' \in Seq(Values) /\ Len(expected') = Len(expected)
  <2>1. \A i \in DOMAIN expected : expected'[i] \in Values
    BY <1>1, <1>3 DEF Values
  <2> QED
    BY <1>1, <1>3, <2>1
<1>5. MachineTyped'
  BY <1>1, <1>2, <1>4 DEF MachineTyped, opcode, Values
<1>6. hand = << >>
  BY <1>1 DEF MachineTyped
<1> QED
  BY <1>1, <1>2, <1>5, <1>6

LEMMA NextMachineTyped ==
    ASSUME CollectInv, ThreadInv, MachineTyped, [VMNext]_allVars
    PROVE  MachineTyped'
<1> USE Machine
<1>1. CASE Construct \/ Destroy
  <2>1. /\ UNCHANGED <<program, ip, hand, expected, wait, vec>>
        /\ UNCHANGED <<slots, stack>>
        /\ vmPc # "run"
        /\ \/ vmPc' = "run" /\ registered' = {vm}
           \/ vmPc' = "destroyed"
    BY <1>1 DEF Construct, Destroy, MutatorStep, heapVars, rootVars
  <2>2. hand = << >> /\ wait \in BOOLEAN
    BY <2>1 DEF MachineTyped
  <2> QED
    BY <2>1, <2>2, MachineKept
<1>2. CASE PopOperand
  BY <1>2, PopOperandTyped
<1>3. CASE NewObject
  BY <1>3, NewObjectTyped
<1>4. CASE Show
  BY <1>4, ShowTyped
<1>5. CASE GcNewFails
  <2>1. UNCHANGED <<program, ip, hand, expected, wait, vec, slots, stack, vmPc, registered>>
    BY <1>5 DEF GcNewFails, vmVars, controlVars, heapVars, rootVars
  <2> QED
    BY <2>1, MachineKept DEF MachineTyped
<1>6. CASE CodeEnds \/ DoGCWait
  <2>1. /\ UNCHANGED <<program, ip, hand, expected, vec, slots, stack, registered>>
        /\ vmPc = "run" /\ opcode \in {"end", "COLLECT", "HALT"} /\ vmPc' \in {"returned", "waiting"}
        /\ wait' \in {wait, TRUE}
    BY <1>6 DEF CodeEnds, DoGCWait, executing, vars, handshakeVars, controlVars, heapVars, rootVars
  <2>2. hand \in Seq(DOMAIN slots) /\ Len(hand) <= 0
    BY <2>1, Arity DEF MachineTyped
  <2>3. hand = << >>
    BY <2>2
  <2>4. wait' \in BOOLEAN /\ registered' = {vm}
    BY <2>1 DEF MachineTyped
  <2> QED
    BY <2>1, <2>3, <2>4, MachineKept
<1>7. CASE AnswerHandshake
  BY <1>7, AnswerHandshakeTyped
<1>8. CASE WaitOver
  <2>1. /\ UNCHANGED <<program, hand, wait, expected, vec, slots, stack, registered>>
        /\ vmPc = "waiting" /\ vmPc' \in {"run", "returned"}
    BY <1>8 DEF WaitOver, vars, handshakeVars, controlVars, heapVars, rootVars
  <2>2. hand = << >> /\ registered = {vm} /\ wait \in BOOLEAN
    BY <2>1 DEF MachineTyped
  <2>3. CASE opcode = "COLLECT"
    <3>1. ip' = ip + 1
      BY <1>8, <2>3 DEF WaitOver
    <3>2. ip \in Nat /\ ip' \in 1..(Len(program) + 1) /\ ip' - 1 = ip
      BY <2>3, <3>1, Opcode
    <3>3. height(program, ip) = height(program, ip - 1) + 0 - 0 /\ ip - 1 \in Nat
      BY <2>3, Opcode
    <3>4. height(program, ip) = height(program, ip - 1)
      BY <3>3, HeightNext
    <3>5. Len(hand') <= arity(opcode')
      BY <2>1, <2>2, Arity
    <3> QED
      BY <2>1, <2>2, <3>2, <3>4, <3>5 DEF MachineTyped
  <2>4. CASE opcode # "COLLECT"
    <3>1. ip' = ip
      BY <1>8, <2>4 DEF WaitOver
    <3> QED
      BY <2>1, <2>2, <3>1, MachineKept
  <2> QED
    BY <2>3, <2>4
<1>9. CASE ThreadCollects \/ ThreadEnds
  <2>1. /\ UNCHANGED <<program, ip, hand, expected, vec, vmPc, slots, stack, registered>>
        /\ wait' \in {wait, FALSE}
    BY <1>9 DEF ThreadCollects, ThreadEnds, StageClear, H!StageClear, vars, handshakeVars,
       controlVars, heapVars, rootVars
  <2>2. wait' \in BOOLEAN
    BY <2>1 DEF MachineTyped
  <2> QED
    BY <2>1, <2>2, MachineKept DEF MachineTyped
<1>10. CASE ThreadRuns
  <2>1. UNCHANGED <<program, ip, hand, wait, expected, vec, vmPc, slots, stack, registered>>
    BY <1>10, CollectorKeeps DEF ThreadRuns, vmVars
  <2> QED
    BY <2>1, MachineKept DEF MachineTyped
<1>11. CASE UNCHANGED allVars
  <2>1. UNCHANGED <<program, ip, hand, wait, expected, vec, vmPc, slots, stack, registered>>
    BY <1>11 DEF allVars, vars, vmVars, handshakeVars, controlVars, heapVars, rootVars
  <2> QED
    BY <2>1, MachineKept DEF MachineTyped
<1> QED
  BY <1>1, <1>2, <1>3, <1>4, <1>5, <1>6, <1>7, <1>8, <1>9, <1>10, <1>11 DEF VMNext, Run, Thread

-----------------------------------------------------------------------------
(***************************************************************************)
(* The operands' values.  A collection marks an object or leaves its color *)
(* alone, until the sweep, and the sweep finds every root the machine has  *)
(* not lost marked.                                                        *)
(***************************************************************************)
LEMMA MarkedStays ==
    ASSUME Typed, Marks, H!SerialInv, Collector, pc' \in collecting
    PROVE  /\ pc \in collecting
           /\ UNCHANGED <<clearColor, objects>>
           /\ \A o \in Places : ~isClear(o) => ~isClear(o)'
<1>1. ASSUME NEW o, NEW others, CollectorMarkBlack(o, others), pc = "trace",
             UNCHANGED <<clearColor, objects>>
      PROVE  \A p \in Places : ~isClear(p) => ~isClear(p)'
  <2>1. clearColor # markColor /\ color \in [Places -> {"BLUE"} \cup H!MarkColors]
    BY <1>1 DEF Marks, Typed, GraphTyped
  <2>2. color' = color \/ color' = [color EXCEPT ![o] = markColor]
    BY <1>1 DEF CollectorMarkBlack
  <2> QED
    BY <1>1, <2>1, <2>2 DEF isClear
<1>2. CASE HandshakeStep
  <2>1. UNCHANGED <<color, objects>>
    BY <1>2 DEF HandshakeStep, heapVars
  <2>2. pc \in collecting /\ UNCHANGED clearColor
    BY <1>2 DEF HandshakeStep, H!posts, H!PostHandshake, H!CheckMutator, H!waits, H!EndPass,
       H!stageSteps, H!PostState, H!ToggleClear, H!ToggleMark, collecting, beforeTrace
  <2> QED
    BY <2>1, <2>2 DEF isClear
<1>3. ASSUME NEW m \in Mutators, TraceBuffer(m)
      PROVE  /\ pc \in collecting /\ UNCHANGED <<clearColor, objects>>
             /\ \A o \in Places : ~isClear(o) => ~isClear(o)'
  <2>1. /\ pc = "trace" /\ UNCHANGED <<clearColor, objects>>
        /\ CollectorMarkBlack(markBuffer[m][readIndex(m)], {})
    BY <1>3 DEF TraceBuffer, handshakeVars, controlVars
  <2> QED
    BY <1>1, <2>1 DEF collecting
<1>4. ASSUME NEW m \in Mutators, TraceBeyondBuffer(m)
      PROVE  /\ pc \in collecting /\ UNCHANGED <<clearColor, objects>>
             /\ \A o \in Places : ~isClear(o) => ~isClear(o)'
  <2>1. pc' # "crashed"
    BY DEF collecting, beforeTrace
  <2>2. PICK o \in DOMAIN slots : CollectorMarkBlack(o, {})
    BY <1>4, <2>1 DEF TraceBeyondBuffer
  <2>3. pc = "trace" /\ UNCHANGED <<clearColor, objects>>
    BY <1>4 DEF TraceBeyondBuffer, handshakeVars, controlVars
  <2> QED
    BY <1>1, <2>2, <2>3 DEF collecting
<1>5. CASE EmptyMarkBuffer
  <2>1. PICK o \in gray : CollectorMarkBlack(o, gray \ {o})
    BY <1>5 DEF EmptyMarkBuffer
  <2>2. pc = "trace" /\ UNCHANGED <<clearColor, objects>>
    BY <1>5 DEF EmptyMarkBuffer, handshakeVars, controlVars
  <2> QED
    BY <1>1, <2>1, <2>2 DEF collecting
<1>6. CASE TraceDone
  BY <1>6 DEF TraceDone, H!PostState, heapVars, isClear, collecting
<1>7. ~CollectorSweep /\ ~SweepThrows
  BY DEF CollectorSweep, H!CollectorSweep, SweepThrows, collecting, beforeTrace
<1> QED
  BY <1>2, <1>3, <1>4, <1>5, <1>6, <1>7 DEF Collector

LEMMA ObjectsStay ==
    ASSUME Collector, ~CollectorSweep
    PROVE  UNCHANGED objects
  BY DEF Collector, HandshakeStep, TraceBuffer, TraceBeyondBuffer, EmptyMarkBuffer, TraceDone,
     SweepThrows, heapVars

LEMMA SweepSparesRoots ==
    ASSUME CollectInv, ThreadInv, MachineTyped, RootsSafe, pc = "sweep",
           NEW i \in DOMAIN stack[vm], expected[i] # lost
    PROVE  stack[vm][i] \notin freed
<1>1. registered = {vm}
  BY DEF ThreadInv, MachineTyped
<1>2. H!SerialInv /\ GrayBetween /\ clearColor # markColor
  BY DEF CollectInv
<1>3. vm \in rooted
  BY <1>1, <1>2 DEF H!SerialInv, H!answering, H!waiting, H!afterTracing, H!rootsDone
<1>4. \/ ~isClear(stack[vm][i])
      \/ \E j \in 2..Len(grayed[vm]) : grayed[vm][j] = stack[vm][i]
  BY <1>3 DEF RootsSafe, collecting
<1>5. \A j \in 2..Len(grayed[vm]) : grayed[vm][j] \in traced
  BY <1>1, OthersTraced DEF OnlyFirstRootLost
<1>6. ~isClear(stack[vm][i])
  BY <1>2, <1>4, <1>5 DEF GrayBetween, collecting, isClear
<1> QED
  BY <1>6 DEF freed

LEMMA HeldIs ==
    ASSUME CollectInv, MachineTyped
    PROVE  /\ DOMAIN held = 1..Len(expected) /\ Len(expected) \in Nat
           /\ Len(hand) \in Nat /\ Len(stack[vm]) \in Nat
           /\ Len(expected) = Len(hand) + Len(stack[vm])
           /\ hand \in Seq(DOMAIN slots) /\ stack[vm] \in Seq(DOMAIN slots)
           /\ held \in Seq(DOMAIN slots)
           /\ \A i \in 1..Len(hand) : held[i] = hand[i]
           /\ \A i \in 1..Len(stack[vm]) : held[Len(hand) + i] = stack[vm][i]
           /\ hand = << >> => held = stack[vm]
<1>1. stack[vm] \in Seq(DOMAIN slots) /\ hand \in Seq(DOMAIN slots)
  BY Machine DEF CollectInv, BuffersTyped, MachineTyped
<1>2. Len(expected) = Len(hand) + Len(stack[vm])
  BY DEF MachineTyped
<1> QED
  BY <1>1, <1>2 DEF held

(***************************************************************************)
(* What a step that leaves hand and stack alone leaves of the values.      *)
(***************************************************************************)
LEMMA ValuesUnchanged ==
    ASSUME ValuesKept, pc # "crashed", held' = held, objects \subseteq objects', vec' = vec,
           \A i \in DOMAIN held : expected'[i] # lost => expected'[i] = expected[i]
    PROVE  ValuesKept'
  BY DEF ValuesKept

LEMMA AnswerHandshakeSafe ==
    ASSUME CollectInv, MachineTyped, RootsSafe, pc # "crashed", AnswerHandshake
    PROVE  RootsSafe'
<1> USE Machine
<1>1. SUFFICES ASSUME pc' \in collecting, NEW i \in DOMAIN stack'[vm],
                      vm \in rooted' \/ i <= marking'[vm], expected'[i] # lost
               PROVE  \/ ~isClear(stack[vm][i])'
                      \/ \E j \in 2..Len(grayed'[vm]) : grayed'[vm][j] = stack'[vm][i]
  BY DEF RootsSafe
<1>2. /\ hand = << >> /\ UNCHANGED <<pc, clearColor, color, stack, hand>>
      /\ \A k \in DOMAIN expected : expected'[k] # lost => expected'[k] = expected[k]
  BY AnswerHandshakeTyped
<1>3. /\ DOMAIN expected = DOMAIN stack[vm] /\ hand \o stack[vm] = stack[vm]
      /\ i \in 1..Len(stack[vm]) /\ DOMAIN stack[vm] = 1..Len(stack[vm])
  <2>1. DOMAIN held = DOMAIN expected /\ held = stack[vm]
    BY <1>2, HeldIs DEF MachineTyped
  <2>2. DOMAIN stack[vm] = 1..Len(stack[vm])
    BY HeldIs
  <2> QED
    BY <1>1, <1>2, <2>1, <2>2 DEF held
<1>4. expected[i] # lost
  BY <1>1, <1>2, <1>3
<1>5. ~isClear(stack[vm][i]) <=> ~isClear(stack[vm][i])'
  BY <1>2 DEF isClear
<1>6. /\ grayed \in [Mutators -> Seq(DOMAIN slots)] /\ marking \in [Mutators -> Nat]
      /\ (mPc[vm] # "root" => marking[vm] = 0)
  BY DEF CollectInv, BuffersTyped
<1>7. CASE H!HandshakeCollector(vm) /\ MutatorStep(vm)
  <2>1. UNCHANGED <<marking, grayed>>
    BY <1>7 DEF MutatorStep, rootVars, bufferVars
  <2>2. UNCHANGED rooted
    BY <1>7 DEF MutatorStep, H!RegisterMutator, H!UnregisterMutator, H!LoadState,
       H!SetAllocationColor, H!StoreState, H!mutatorVars
  <2> QED
    BY <1>1, <1>2, <1>4, <1>5, <2>1, <2>2 DEF RootsSafe
<1>8. CASE MarkGlobalRoot(vm)
  <2>1. UNCHANGED grayed /\ marking[vm] = Len(stack[vm])
    BY <1>8 DEF MarkGlobalRoot
  <2>2. i <= marking[vm]
    BY <1>3, <2>1
  <2> QED
    BY <1>1, <1>2, <1>4, <1>5, <2>1, <2>2 DEF RootsSafe
<1>9. CASE MarkGray(vm)
  <2> DEFINE n == marking[vm] + 1
             o == stack[vm][n]
  <2>1. /\ UNCHANGED rooted /\ marking' = [marking EXCEPT ![vm] = @ + 1]
        /\ IF isClear(o) THEN grayed' = [grayed EXCEPT ![vm] = Append(@, o)] ELSE UNCHANGED grayed
    BY <1>9 DEF MarkGray, handshakeVars, controlVars
  <2>2. marking'[vm] = n /\ marking[vm] \in Nat
    BY <1>6, <2>1
  <2>3. /\ grayed[vm] \in Seq(DOMAIN slots) /\ Len(grayed[vm]) \in Nat
        /\ o \in DOMAIN slots
    <3>1. n \in 1..Len(stack[vm]) /\ stack[vm] \in Seq(DOMAIN slots)
      BY <1>9, <1>6, HeldIs DEF MarkGray
    <3> QED
      BY <1>6, <3>1
  <2>4. CASE ~isClear(o)
    <3>1. UNCHANGED grayed
      BY <2>1, <2>4
    <3>2. CASE stack[vm][i] = o
      BY <1>2, <1>5, <2>4, <3>2
    <3>3. CASE stack[vm][i] # o
      <4>1. vm \in rooted \/ i <= marking[vm]
        BY <1>1, <1>3, <2>1, <2>2, <3>3
      <4> QED
        BY <1>1, <1>2, <1>4, <1>5, <3>1, <4>1 DEF RootsSafe
    <3> QED
      BY <3>2, <3>3
  <2>5. CASE isClear(o)
    <3>1. grayed'[vm] = Append(grayed[vm], o)
      BY <1>6, <2>1, <2>5
    <3> DEFINE g == grayed[vm]
               g1 == grayed'[vm]
    <3>2. /\ Len(g1) = Len(g) + 1 /\ g1[Len(g) + 1] = o /\ g1 # << >>
          /\ \A j \in 1..Len(g) : g1[j] = g[j]
      BY <2>3, <3>1
    <3>3. stack[vm][i] # g1[1]
      <4>1. expected' = [k \in DOMAIN expected |-> IF g1 # << >> /\ (hand \o stack[vm])[k] = g1[1]
                                                   THEN lost ELSE expected[k]]
        BY DEF AnswerHandshake
      <4> HIDE DEF g1
      <4>2. expected'[i] = IF g1 # << >> /\ stack[vm][i] = g1[1] THEN lost ELSE expected[i]
        BY <1>3, <4>1
      <4> QED
        BY <1>1, <3>2, <4>2
    <3> HIDE DEF g, g1, o
    <3>4. CASE stack[vm][i] = o
      <4>1. Len(g) + 1 # 1 /\ Len(g) \in Nat
        BY <2>3, <3>2, <3>3, <3>4 DEF g
      <4>2. Len(g) + 1 \in 2..Len(g1)
        BY <3>2, <4>1
      <4>3. \E j \in 2..Len(g1) : g1[j] = stack[vm][i]
        BY <3>2, <3>4, <4>2
      <4> QED
        BY <1>2, <4>3 DEF g1
    <3>5. CASE stack[vm][i] # o
      <4>1. vm \in rooted \/ i <= marking[vm]
        BY <1>1, <1>3, <2>1, <2>2, <3>5 DEF o
      <4>2. \/ ~isClear(stack[vm][i])
            \/ \E j \in 2..Len(g) : g[j] = stack[vm][i]
        BY <1>1, <1>2, <1>4, <4>1 DEF RootsSafe, g
      <4>3. ASSUME NEW j \in 2..Len(g), g[j] = stack[vm][i]
            PROVE  \E k \in 2..Len(g1) : g1[k] = stack[vm][i]
        <5>1. j \in 2..Len(g1) /\ j \in 1..Len(g)
          BY <2>3, <3>2 DEF g
        <5> QED
          BY <4>3, <5>1, <3>2
      <4> QED
        BY <1>2, <1>5, <4>2, <4>3 DEF g1
    <3> QED
      BY <3>4, <3>5
  <2> QED
    BY <2>4, <2>5
<1> QED
  BY <1>7, <1>8, <1>9 DEF AnswerHandshake, Answer

LEMMA NewObjectValues ==
    ASSUME CollectInv, MachineTyped, MachineTyped', ValuesKept, pc # "crashed", NewObject
    PROVE  ValuesKept'
<1> USE Machine
<1> DEFINE k == Len(hand)
           wanted == SubSeq(expected, 1, k)
           rest == SubSeq(expected, k + 1, Len(expected))
<1>1. PICK o \in Places \ objects :
        LET cleared == [p \in DOMAIN vec \cup {o} |-> IF p = o THEN <<0, 0>> ELSE vec[p]] IN
        /\ Allocate(vm, o)
        /\ vec' = [cleared EXCEPT ![o] = result([i \in DOMAIN hand |-> cleared[hand[i]]])]
  BY DEF NewObject
<1> DEFINE cleared == [p \in DOMAIN vec \cup {o} |-> IF p = o THEN <<0, 0>> ELSE vec[p]]
           read == [i \in DOMAIN hand |-> cleared[hand[i]]]
<1>2. /\ opcode \in {"NEW_VEC2", "ADD2", "INC2_X", "INC2_Y"} /\ k = arity(opcode)
      /\ expected' = <<IF lost \in Range(wanted) THEN lost ELSE result(wanted)>> \o rest
      /\ hand' = << >>
  BY DEF NewObject, allocating
<1>3. /\ objects' = objects \cup {o} /\ o \notin objects
      /\ stack' = [stack EXCEPT ![vm] = <<o>> \o @]
      /\ vec' = [cleared EXCEPT ![o] = result(read)]
  BY <1>1 DEF Allocate
<1>4. /\ DOMAIN held = 1..Len(expected) /\ Len(expected) \in Nat
      /\ k \in Nat /\ Len(stack[vm]) \in Nat /\ Len(expected) = k + Len(stack[vm])
      /\ hand \in Seq(DOMAIN slots) /\ stack[vm] \in Seq(DOMAIN slots)
      /\ \A i \in 1..k : held[i] = hand[i]
      /\ \A i \in 1..Len(stack[vm]) : held[k + i] = stack[vm][i]
  BY HeldIs
<1>5. expected \in Seq(Values) /\ DOMAIN vec = DOMAIN slots
  BY DEF MachineTyped, Values
<1>6. /\ DOMAIN wanted = 1..k /\ \A i \in 1..k : wanted[i] = expected[i]
      /\ Len(rest) = Len(stack[vm]) /\ rest \in Seq(Values)
      /\ \A i \in 1..Len(stack[vm]) : rest[i] = expected[k + i]
  BY <1>4, <1>5
<1> HIDE DEF wanted, rest
<1>7. /\ stack'[vm] = <<o>> \o stack[vm] /\ held' = <<o>> \o stack[vm]
  <2>1. stack'[vm] = <<o>> \o stack[vm]
    BY <1>3 DEF CollectInv, BuffersTyped
  <2>2. << >> \o (<<o>> \o stack[vm]) = <<o>> \o stack[vm]
    BY <1>4
  <2> QED
    BY <1>2, <2>1, <2>2 DEF held
<1>8. /\ DOMAIN held' = 1..(1 + Len(stack[vm])) /\ held'[1] = o
      /\ \A i \in 1..Len(stack[vm]) : held'[i + 1] = stack[vm][i]
  BY <1>4, <1>7
<1> DEFINE value == IF lost \in Range(wanted) THEN lost ELSE result(wanted)
<1>9. /\ expected'[1] = value
      /\ \A i \in 1..Len(stack[vm]) : expected'[i + 1] = expected[k + i]
  <2> HIDE DEF value
  <2> QED
    BY <1>2, <1>4, <1>6 DEF value
<1>10. \A p \in objects : p \in DOMAIN vec => vec'[p] = vec[p]
  BY <1>3
<1>11. \A i \in 1..Len(expected) : expected[i] # lost =>
           held[i] \in objects /\ vec[held[i]] = expected[i]
  BY <1>4 DEF ValuesKept
<1>12. ASSUME value # lost
       PROVE  vec'[o] = value
  <2>1. lost \notin Range(wanted) /\ value = result(wanted)
    BY <1>12
  <2>2. \A i \in 1..k : wanted[i] # lost
    BY <1>6, <2>1 DEF Range
  <2>3. \A i \in 1..k : read[i] = wanted[i] /\ i \in DOMAIN read
    <3> TAKE i \in 1..k
    <3>1. i \in 1..Len(expected) /\ i \in DOMAIN hand
      BY <1>4
    <3>2. hand[i] \in objects /\ vec[hand[i]] = wanted[i] /\ hand[i] \in DOMAIN vec
      BY <1>4, <1>5, <1>6, <1>11, <2>2, <3>1
    <3>3. cleared[hand[i]] = vec[hand[i]]
      BY <1>3, <3>2
    <3> QED
      BY <3>1, <3>2, <3>3
  <2>4. result(read) = result(wanted)
    <3> HIDE DEF read
    <3>1. CASE opcode = "NEW_VEC2"
      BY <3>1 DEF result
    <3>2. CASE opcode = "ADD2"
      <4>1. 1 \in 1..k /\ 2 \in 1..k
        BY <1>2, <3>2, Arity
      <4>2. read[1] = wanted[1] /\ read[2] = wanted[2]
        BY <2>3, <4>1
      <4> QED
        BY <3>2, <4>2 DEF result
    <3>3. CASE opcode \in {"INC2_X", "INC2_Y"}
      <4>1. 1 \in 1..k
        BY <1>2, <3>3, Arity
      <4>2. read[1] = wanted[1]
        BY <2>3, <4>1
      <4> QED
        BY <3>3, <4>2 DEF result
    <3> QED
      BY <1>2, <3>1, <3>2, <3>3
  <2>5. vec'[o] = result(read)
    <3> HIDE DEF read
    <3> QED
      BY <1>3
  <2> QED
    BY <2>1, <2>4, <2>5
<1> HIDE DEF value, cleared, read
<1>13. ASSUME NEW j \in DOMAIN held', expected'[j] # lost
       PROVE  held'[j] \in objects' /\ vec'[held'[j]] = expected'[j]
  <2>1. CASE j = 1
    BY <1>3, <1>8, <1>9, <1>12, <1>13, <2>1
  <2>2. CASE j # 1
    <3>1. j - 1 \in 1..Len(stack[vm]) /\ (j - 1) + 1 = j
      BY <1>4, <1>8, <2>2
    <3> DEFINE i == j - 1
    <3>2. /\ held'[j] = held[k + i] /\ expected'[j] = expected[k + i]
          /\ k + i \in 1..Len(expected) /\ held[k + i] = stack[vm][i]
      BY <1>4, <1>8, <1>9, <3>1
    <3>3. held[k + i] \in DOMAIN vec
      <4>1. stack[vm][i] \in DOMAIN slots
        BY <1>4, <3>1
      <4> QED
        BY <1>5, <3>2, <4>1
    <3>4. held[k + i] \in objects /\ vec[held[k + i]] = expected[k + i]
      BY <1>11, <1>13, <3>2
    <3> QED
      BY <1>3, <1>10, <3>2, <3>3, <3>4
  <2> QED
    BY <2>1, <2>2
<1> QED
  BY <1>13 DEF ValuesKept

LEMMA ShowValues ==
    ASSUME CollectInv, MachineTyped, ValuesKept, pc # "crashed", Show
    PROVE  ValuesKept'
<1>1. /\ Len(hand) = 1 /\ hand' = << >> /\ expected' = Tail(expected)
      /\ UNCHANGED <<objects, stack, vec>>
  BY DEF Show, vars, heapVars, rootVars
<1>2. /\ DOMAIN held = 1..Len(expected) /\ Len(expected) \in Nat /\ Len(stack[vm]) \in Nat
      /\ Len(expected) = 1 + Len(stack[vm]) /\ stack[vm] \in Seq(DOMAIN slots)
      /\ \A i \in 1..Len(stack[vm]) : held[1 + i] = stack[vm][i]
  BY <1>1, HeldIs
<1>3. expected \in Seq(Values)
  BY DEF MachineTyped, Values
<1>4. held' = stack[vm]
  BY <1>1, <1>2 DEF held
<1>5. \A i \in 1..Len(stack[vm]) : expected'[i] = expected[1 + i] /\ 1 + i \in 1..Len(expected)
  <2>1. expected # << >>
    BY <1>2, <1>3
  <2> QED
    BY <1>1, <1>2, <1>3, <2>1
<1>6. DOMAIN held' = 1..Len(stack[vm])
  BY <1>2, <1>4
<1>7. ASSUME NEW i \in DOMAIN held', expected'[i] # lost
      PROVE  held'[i] \in objects' /\ vec'[held'[i]] = expected'[i]
  <2>1. expected'[i] = expected[1 + i] /\ 1 + i \in DOMAIN held /\ held'[i] = held[1 + i]
    BY <1>2, <1>4, <1>5, <1>6
  <2>2. held[1 + i] \in objects /\ vec[held[1 + i]] = expected[1 + i]
    BY <1>7, <2>1 DEF ValuesKept
  <2> QED
    BY <1>1, <2>1, <2>2
<1> QED
  BY <1>7 DEF ValuesKept

LEMMA ThreadRunsValues ==
    ASSUME CollectInv, ThreadInv, MachineTyped, ValuesKept, RootsSafe, pc # "crashed", ThreadRuns
    PROVE  ValuesKept' /\ RootsSafe'
<1>1. /\ Collector /\ thread = "collecting" /\ vmPc = "waiting"
      /\ UNCHANGED <<hand, vec, expected>>
      /\ UNCHANGED <<rooted, stack, marking, grayed>>
  BY CollectorKeeps DEF ThreadRuns, vmVars, ThreadInv
<1>2. held' = held /\ hand = << >> /\ held = stack[vm]
  <2>1. hand = << >>
    BY <1>1 DEF MachineTyped
  <2> QED
    BY <1>1, <2>1, HeldIs DEF held
<1>3. ValuesKept'
  <2>1. CASE CollectorSweep
    <3>1. pc = "sweep" /\ objects' = objects \ freed
      BY <2>1 DEF CollectorSweep, H!CollectorSweep
    <3>2. \A i \in DOMAIN held : expected[i] # lost => held[i] \notin freed
      BY <1>2, <3>1, SweepSparesRoots
    <3> QED
      BY <1>1, <1>2, <3>1, <3>2 DEF ValuesKept
  <2>2. CASE ~CollectorSweep
    BY <1>1, <1>2, <2>2, ObjectsStay, ValuesUnchanged
  <2> QED
    BY <2>1, <2>2
<1>4. RootsSafe'
  <2>1. SUFFICES ASSUME pc' \in collecting PROVE RootsSafe'
    BY DEF RootsSafe
  <2>2. /\ pc \in collecting
        /\ \A o \in Places : ~isClear(o) => ~isClear(o)'
    BY <1>1, <2>1, Parts, MarkedStays
  <2>3. \A i \in DOMAIN stack[vm] : stack[vm][i] \in Places
    BY HeldIs DEF CollectInv, GraphTyped
  <2>4. \A i \in DOMAIN stack[vm] : ~isClear(stack[vm][i]) => ~isClear(stack[vm][i])'
    BY <1>1, <2>2, <2>3 DEF isClear
  <2> QED
    BY <1>1, <2>2, <2>4 DEF RootsSafe
<1> QED
  BY <1>3, <1>4

LEMMA ThreadCollectsSafe ==
    ASSUME CollectInv, MachineTyped, pc # "crashed", ThreadCollects
    PROVE  RootsSafe'
<1> USE Machine
<1>1. pc = "resting" /\ rooted' = {} /\ UNCHANGED <<stack, marking>>
  BY DEF ThreadCollects, StageClear, H!StageClear, rootVars, bufferVars
<1>2. mPc[vm] # "root"
  BY <1>1, RootsInLastWait DEF CollectInv
<1>3. marking[vm] = 0
  BY <1>2 DEF CollectInv, BuffersTyped
<1>4. \A i \in DOMAIN stack[vm] : ~(i <= 0)
  BY HeldIs
<1> QED
  BY <1>1, <1>3, <1>4 DEF RootsSafe

LEMMA NextValues ==
    ASSUME CollectInv, ThreadInv, MachineTyped, MachineTyped', ValuesKept, RootsSafe,
           pc # "crashed", pc' # "crashed", [VMNext]_allVars
    PROVE  ValuesKept' /\ RootsSafe'
<1>1. CASE NewObject
  <2>1. pc' = "resting"
    BY <1>1 DEF NewObject, Allocate, running, handshakeVars
  <2> QED
    BY <1>1, <2>1, NewObjectValues DEF RootsSafe, collecting, beforeTrace
<1>2. CASE Show
  <2>1. pc' = "resting"
    BY <1>2 DEF Show, executing, running, vars, handshakeVars
  <2> QED
    BY <1>2, <2>1, ShowValues DEF RootsSafe, collecting, beforeTrace
<1>3. CASE PopOperand
  <2>1. /\ pc' = "resting" /\ held' = held /\ UNCHANGED <<objects, vec, expected>>
    BY <1>3, PopOperandTyped DEF PopOperand, Pop, running, handshakeVars, heapVars
  <2> QED
    BY <2>1, ValuesUnchanged DEF RootsSafe, collecting, beforeTrace
<1>4. CASE Construct \/ Destroy
  <2>1. /\ pc' = pc /\ pc = "resting" /\ held' = held /\ UNCHANGED <<objects, vec, expected>>
    BY <1>4, AnswerKeepsPc DEF Construct, Destroy, MutatorStep, heapVars, rootVars, held,
       ThreadInv
  <2> QED
    BY <2>1, ValuesUnchanged DEF RootsSafe, collecting, beforeTrace
<1>5. CASE GcNewFails
  BY <1>5 DEF GcNewFails
<1>6. CASE CodeEnds \/ DoGCWait \/ WaitOver \/ ThreadEnds \/ UNCHANGED allVars
  <2>1. /\ UNCHANGED <<vars, hand, vec, expected>>
    BY <1>6 DEF CodeEnds, DoGCWait, WaitOver, ThreadEnds, allVars, vmVars
  <2>2. held' = held /\ UNCHANGED objects
    BY <2>1 DEF held, vars, heapVars, rootVars
  <2>3. RootsSafe'
    BY <2>1 DEF RootsSafe, isClear, vars, handshakeVars, controlVars, heapVars, rootVars,
       bufferVars
  <2> QED
    BY <2>1, <2>2, <2>3, ValuesUnchanged
<1>7. CASE AnswerHandshake
  <2>1. DOMAIN held = DOMAIN expected
    <3>1. expected \in Seq(Values)
      BY DEF MachineTyped, Values
    <3>2. DOMAIN held = 1..Len(expected)
      BY HeldIs
    <3> QED
      BY <3>1, <3>2
  <2>2. ValuesKept'
    BY <1>7, <2>1, AnswerHandshakeTyped, ValuesUnchanged DEF held
  <2> QED
    BY <1>7, <2>2, AnswerHandshakeSafe
<1>8. CASE ThreadCollects
  <2>1. held' = held /\ UNCHANGED <<objects, vec, expected>>
    BY <1>8 DEF ThreadCollects, StageClear, heapVars, rootVars, held
  <2> QED
    BY <1>8, <2>1, ValuesUnchanged, ThreadCollectsSafe
<1>9. CASE ThreadRuns
  BY <1>9, ThreadRunsValues
<1> QED
  BY <1>1, <1>2, <1>3, <1>4, <1>5, <1>6, <1>7, <1>8, <1>9 DEF VMNext, Run, Thread

LEMMA InitVMInv == VMInit => VMInv
<1> SUFFICES ASSUME VMInit PROVE VMInv
  OBVIOUS
<1>1. ThreadInv
  BY DEF VMInit, Init, H!Init, ThreadInv
<1>2. program \in Seq(Opcodes)
  BY SimpleVMAssumption DEF VMInit
<1>3. height(program, 0) = 0
  <2>1. \A ops : {i \in 1..0 : program[i] \in ops} = {}
    OBVIOUS
  <2> QED
    BY <2>1, FS_EmptySet DEF height, count
<1>4. /\ slots = << >> /\ vec = << >> /\ hand = << >> /\ expected = << >> /\ stack[vm] = << >>
      /\ ip = 1 /\ vmPc = "constructor" /\ wait = FALSE /\ program \in Programs
      /\ pc = "resting"
  BY Machine DEF VMInit, Init, H!Init
<1>5. MachineTyped
  <2>1. /\ hand \in Seq(DOMAIN slots) /\ expected \in Seq((Nat \X Nat) \cup {lost})
        /\ Len(hand) = 0 /\ Len(expected) = 0 /\ Len(stack[vm]) = 0
    BY <1>4
  <2>2. ip \in 1..(Len(program) + 1) /\ ip - 1 = 0
    BY <1>2, <1>4
  <2>3. Len(hand) <= arity(opcode)
    BY <2>1, Arity
  <2>4. Len(expected) = Len(hand) + Len(stack[vm]) /\ Len(expected) = height(program, ip - 1)
    BY <1>3, <2>1, <2>2
  <2>5. DOMAIN vec = DOMAIN slots
    BY <1>4
  <2> QED
    BY <1>4, <2>1, <2>2, <2>3, <2>4, <2>5 DEF MachineTyped
<1>6. ValuesKept
  BY <1>4 DEF ValuesKept, held
<1>7. RootsSafe
  BY <1>4 DEF RootsSafe
<1> QED
  BY <1>1, <1>5, <1>6, <1>7 DEF VMInv

LEMMA NextVMInv ==
    ASSUME CollectInv, VMInv, [VMNext]_allVars
    PROVE  VMInv'
<1>1. ThreadInv' /\ MachineTyped'
  BY NextThreadInv, NextMachineTyped DEF VMInv
<1>2. ASSUME pc = "crashed" PROVE pc' = "crashed"
  <2>1. CASE [Next]_vars
    BY <1>2, <2>1, CrashedStays DEF vars, handshakeVars
  <2>2. CASE GcNewFails
    BY <2>2 DEF GcNewFails
  <2> QED
    BY <2>1, <2>2, VMStepIsStep
<1>3. ASSUME pc' # "crashed" PROVE ValuesKept' /\ RootsSafe'
  BY <1>1, <1>2, <1>3, NextValues DEF VMInv
<1> QED
  BY <1>1, <1>3 DEF VMInv

LEMMA VMInvariant ==
    ASSUME MaxRegistered <= 1
    PROVE  VMSpec => []VMInv
<1>1. CollectInv /\ VMInv /\ [VMNext]_allVars => VMInv'
  BY NextVMInv
<1> QED
  BY <1>1, InitVMInv, VMCollectInvariant, PTL DEF VMSpec

(***************************************************************************)
(* Every operand of every program keeps its value through its pop, the     *)
(* allocation of the result and any number of collections, unless it was   *)
(* the first root of one (main.cpp:93-164, SparkGC.cpp:43-56).             *)
(***************************************************************************)
THEOREM OperandsKeepValues ==
    ASSUME MaxRegistered <= 1
    PROVE  VMSpec => []ValuesKept
<1>1. VMInv => ValuesKept
  BY DEF VMInv, ValuesKept
<1> QED
  BY <1>1, VMInvariant, PTL

(***************************************************************************)
(* A program that pops no empty stack as its opcodes are counted never     *)
(* does when it runs, collections and all; hand and stack have the values  *)
(* that are expected there (SimpleVM::run).                                *)
(***************************************************************************)
THEOREM VMTypeCorrect ==
    ASSUME MaxRegistered <= 1
    PROVE  VMSpec => []VMTypeOK
<1>1. CollectInv /\ VMInv => VMTypeOK
  <2> SUFFICES ASSUME CollectInv, VMInv PROVE VMTypeOK
    OBVIOUS
  <2>1. MachineTyped /\ ThreadInv
    BY DEF VMInv
  <2>2. Len(expected) = Len(held) /\ Len(expected) \in Nat
    BY <2>1, HeldIs
  <2>3. Len(held) >= arity(opcode)
    <3>1. CASE opcode = "end"
      BY <2>2, <3>1, Arity
    <3>2. CASE opcode # "end"
      <4>1. ip \in DOMAIN program /\ opcode = program[ip]
        <5>1. program \in Seq(Opcodes)
          BY <2>1, SimpleVMAssumption DEF MachineTyped
        <5>2. ip \in Nat /\ ip - 1 \in Nat /\ ip <= Len(program) /\ opcode = program[ip]
          BY <2>1, <3>2, Opcode
        <5> QED
          BY <5>1, <5>2
      <4>2. height(program, ip - 1) >= arity(program[ip])
        BY <2>1, <4>1, SimpleVMAssumption DEF MachineTyped
      <4> QED
        BY <2>1, <2>2, <4>1, <4>2 DEF MachineTyped
    <3> QED
      BY <3>1, <3>2
  <2> QED
    BY <2>1, <2>2, <2>3 DEF MachineTyped, ThreadInv, VMTypeOK
<1> QED
  BY <1>1, VMInvariant, VMCollectInvariant, PTL

-----------------------------------------------------------------------------
(***************************************************************************)
(* The first collection of a process.  Objects are created in the mark     *)
(* color (SparkGC.cpp:184), and no toggle has changed it (:151): nothing   *)
(* is clear, no root is put in a mark buffer, and none is lost.            *)
(***************************************************************************)
early == pc # "crashed" /\ (cycles = 0 \/ (cycles = 1 /\ pc \in collecting \cup {"toggle"}))

NothingClear ==
    pc # "crashed" =>
        /\ cycles = 0 => pc = "resting"
        /\ early => /\ \A o \in objects : ~isClear(o)
                    /\ \A m \in registered : mColor[m] = markColor

LEMMA InitNothingClear == Init => NothingClear
  BY DEF Init, H!Init, NothingClear

LEMMA MarkedNotClear ==
    ASSUME GraphTyped, clearColor # markColor, \A o \in objects : ~isClear(o),
           UNCHANGED <<clearColor, objects>>,
           color' = color \/ \E o : color' = [color EXCEPT ![o] = markColor]
    PROVE  \A o \in objects' : ~isClear(o)'
  BY DEF GraphTyped, isClear

LEMMA CollectorNothingClear ==
    ASSUME CollectInv, NothingClear, Collector, pc # "crashed", pc' # "crashed"
    PROVE  NothingClear'
<1>1. /\ H!SerialInv /\ cycles \in Nat /\ GraphTyped
      /\ (clearColor = markColor <=> pc = "toggleMark")
  BY DEF CollectInv, H!SerialInv, H!TypeOK, SparkGCAssumption
<1>2. pc # "resting"
  BY DEF Collector, HandshakeStep, H!posts, H!PostHandshake, H!CheckMutator, H!waits, H!EndPass,
     H!stageSteps, H!PostState, H!ToggleClear, H!ToggleMark, TraceBuffer, TraceBeyondBuffer,
     EmptyMarkBuffer, TraceDone, CollectorSweep, H!CollectorSweep, SweepThrows
<1>3. cycles # 0
  BY <1>2 DEF NothingClear
<1>4. UNCHANGED <<registered, mColor, cycles>>
  <2>1. CASE HandshakeStep
    BY <2>1 DEF HandshakeStep, H!PostHandshake, H!CheckMutator, H!EndPass, H!PostState,
       H!ToggleClear, H!ToggleMark, H!mutatorVars
  <2>2. ASSUME NEW m \in Mutators, TraceBuffer(m) \/ TraceBeyondBuffer(m)
        PROVE  UNCHANGED <<registered, mColor, cycles>>
    BY <2>2 DEF TraceBuffer, TraceBeyondBuffer, handshakeVars, controlVars
  <2>3. CASE EmptyMarkBuffer \/ TraceDone \/ CollectorSweep \/ SweepThrows
    BY <2>3 DEF EmptyMarkBuffer, TraceDone, CollectorSweep, SweepThrows, H!PostState,
       H!CollectorSweep, H!mutatorVars, handshakeVars, controlVars
  <2> QED
    BY <2>1, <2>2, <2>3 DEF Collector
<1>5. ASSUME early'
      PROVE  pc \in collecting /\ cycles = 1 /\ UNCHANGED <<clearColor, markColor>>
  <2>1. cycles = 1 /\ pc' \in collecting \cup {"toggle"}
    BY <1>3, <1>4, <1>5 DEF early
  <2>2. CASE HandshakeStep
    BY <2>1, <2>2 DEF HandshakeStep, H!posts, H!PostHandshake, H!CheckMutator, H!waits, H!EndPass,
       H!stageSteps, H!PostState, H!ToggleClear, H!ToggleMark, collecting, beforeTrace
  <2>3. ASSUME NEW m \in Mutators, TraceBuffer(m) \/ TraceBeyondBuffer(m)
        PROVE  pc \in collecting /\ UNCHANGED <<clearColor, markColor>>
    BY <2>3, <2>1 DEF TraceBuffer, TraceBeyondBuffer, handshakeVars, controlVars, collecting
  <2>4. CASE EmptyMarkBuffer \/ TraceDone \/ CollectorSweep \/ SweepThrows
    BY <2>4, <2>1 DEF EmptyMarkBuffer, TraceDone, CollectorSweep, SweepThrows, H!PostState,
       H!CollectorSweep, handshakeVars, controlVars, collecting
  <2> QED
    BY <2>1, <2>2, <2>3, <2>4 DEF Collector
<1>6. ASSUME early'
      PROVE  (\A o \in objects' : ~isClear(o)') /\ \A m \in registered' : mColor'[m] = markColor'
  <2>1. /\ \A o \in objects : ~isClear(o)
        /\ \A m \in registered : mColor[m] = markColor
    BY <1>5, <1>6 DEF NothingClear, early
  <2>2. UNCHANGED <<clearColor, markColor>> /\ clearColor # markColor
    BY <1>1, <1>5, <1>6 DEF collecting, beforeTrace
  <2>3. ASSUME UNCHANGED objects, color' = color \/ \E o : color' = [color EXCEPT ![o] = markColor]
        PROVE  \A o \in objects' : ~isClear(o)'
    BY <1>1, <2>1, <2>2, <2>3, MarkedNotClear
  <2>4. ASSUME NEW o, NEW others, CollectorMarkBlack(o, others), UNCHANGED objects
        PROVE  \A p \in objects' : ~isClear(p)'
    <3>1. color' = color \/ color' = [color EXCEPT ![o] = markColor]
      BY <2>4 DEF CollectorMarkBlack
    <3> QED
      BY <2>3, <2>4, <3>1
  <2>5. ASSUME HandshakeStep \/ TraceDone \/ SweepThrows
        PROVE  \A o \in objects' : ~isClear(o)'
    BY <2>5, <2>3 DEF HandshakeStep, TraceDone, SweepThrows, heapVars
  <2>6. ASSUME NEW m \in Mutators, TraceBuffer(m)
        PROVE  \A o \in objects' : ~isClear(o)'
    BY <2>6, <2>4 DEF TraceBuffer
  <2>7. ASSUME NEW m \in Mutators, TraceBeyondBuffer(m)
        PROVE  \A o \in objects' : ~isClear(o)'
    BY <2>7, <2>4 DEF TraceBeyondBuffer
  <2>8. ASSUME EmptyMarkBuffer
        PROVE  \A o \in objects' : ~isClear(o)'
    BY <2>8, <2>4 DEF EmptyMarkBuffer
  <2>9. ASSUME CollectorSweep
        PROVE  \A o \in objects' : ~isClear(o)'
    <3>1. /\ objects' = objects \ freed
          /\ color' = [o \in Places |-> IF o \in freed THEN "BLUE" ELSE color[o]]
      BY <2>9 DEF CollectorSweep
    <3>2. \A o \in objects' : color'[o] = color[o] /\ o \in objects
      BY <1>1, <3>1 DEF GraphTyped
    <3> QED
      BY <2>1, <2>2, <3>2 DEF isClear
  <2>10. \A o \in objects' : ~isClear(o)'
    BY <2>5, <2>6, <2>7, <2>8, <2>9 DEF Collector
  <2> QED
    BY <1>4, <2>1, <2>2, <2>10
<1> QED
  BY <1>3, <1>4, <1>6 DEF NothingClear

LEMMA NextNothingClear ==
    ASSUME CollectInv, NothingClear, [Next]_vars
    PROVE  NothingClear'
<1>1. SUFFICES ASSUME pc # "crashed", pc' # "crashed" PROVE NothingClear'
  <2>1. pc = "crashed" => pc' = "crashed"
    BY CrashedStays DEF vars, handshakeVars
  <2> QED
    BY <1>1, <2>1 DEF NothingClear
<1>2. /\ H!SerialInv /\ cycles \in Nat /\ GraphTyped /\ mColor \in [Mutators -> H!MarkColors]
      /\ (clearColor = markColor <=> pc = "toggleMark")
  BY <1>1 DEF CollectInv, H!SerialInv, H!TypeOK, SparkGCAssumption
<1>3. CASE Collector
  BY <1>1, <1>3, CollectorNothingClear
<1>4. ASSUME UNCHANGED <<pc, cycles, clearColor, markColor>>, UNCHANGED <<objects, color>>,
             early => \A m \in registered' : mColor'[m] = markColor
      PROVE  NothingClear'
  BY <1>4 DEF NothingClear, early, isClear
<1>5. ASSUME UNCHANGED <<handshakeVars, objects, color>>
      PROVE  NothingClear'
  BY <1>5 DEF NothingClear, early, isClear, handshakeVars, controlVars
<1>6. ASSUME NEW m \in Mutators, NEW o \in Places, Allocate(m, o)
      PROVE  NothingClear'
  <2>1. /\ m \in registered /\ pc = "resting" /\ UNCHANGED handshakeVars
        /\ objects' = objects \cup {o} /\ color' = [color EXCEPT ![o] = mColor[m]]
    BY <1>6 DEF Allocate, running
  <2>2. ASSUME early
        PROVE  \A p \in objects' : ~isClear(p)'
    <3>1. mColor[m] = markColor /\ clearColor # markColor /\ \A p \in objects : ~isClear(p)
      BY <1>1, <1>2, <2>1, <2>2 DEF NothingClear
    <3>2. color'[o] = markColor /\ \A p \in objects : p # o => color'[p] = color[p]
      BY <1>2, <2>1, <3>1 DEF GraphTyped
    <3> QED
      BY <2>1, <3>1, <3>2 DEF isClear, handshakeVars, controlVars
  <2> QED
    BY <2>1, <2>2 DEF NothingClear, early, handshakeVars, controlVars
<1>7. ASSUME NEW m \in Mutators,
             Pop(m) \/ \E o, p \in Places : Link(m, o, p) \/ Unlink(m, o, p)
      PROVE  NothingClear'
  BY <1>5, <1>7 DEF Pop, Link, Unlink, heapVars
<1>8. ASSUME NEW m \in Mutators, MutatorStep(m)
      PROVE  NothingClear'
  <2>1. UNCHANGED <<pc, cycles, clearColor, markColor, objects, color>>
    BY <1>8 DEF MutatorStep, H!RegisterMutator, H!UnregisterMutator, H!LoadState,
       H!SetAllocationColor, H!StoreState, H!collectorVars, heapVars
  <2>2. /\ \A n \in registered' : n \in registered \/ n = m
        /\ \/ mColor' = mColor /\ registered' \subseteq registered
           \/ mColor' = [mColor EXCEPT ![m] = markColor]
    BY <1>8 DEF MutatorStep, H!RegisterMutator, H!registrationColor, H!UnregisterMutator,
       H!LoadState, H!SetAllocationColor, H!StoreState, H!mutatorVars
  <2>3. ASSUME early
        PROVE  \A n \in registered' : mColor'[n] = markColor
    <3>1. \A n \in registered : mColor[n] = markColor
      BY <1>1, <2>3 DEF NothingClear
    <3>2. CASE mColor' = mColor /\ registered' \subseteq registered
      BY <3>1, <3>2
    <3>3. CASE mColor' = [mColor EXCEPT ![m] = markColor]
      <4>1. mColor'[m] = markColor /\ \A n \in Mutators : n # m => mColor'[n] = mColor[n]
        BY <1>2, <3>3
      <4>2. registered \subseteq Mutators
        BY <1>2 DEF H!SerialInv, H!TypeOK
      <4> QED
        BY <2>2, <3>1, <4>1, <4>2
    <3> QED
      BY <2>2, <3>2, <3>3
  <2> QED
    BY <1>4, <2>1, <2>3
<1>9. ASSUME NEW m \in Mutators, MarkGray(m) \/ MarkGlobalRoot(m)
      PROVE  NothingClear'
  <2>1. CASE MarkGray(m)
    BY <1>5, <2>1 DEF MarkGray, heapVars
  <2>2. CASE MarkGlobalRoot(m)
    <3>1. UNCHANGED <<pc, cycles, clearColor, markColor, objects, color, registered, mColor>>
      BY <2>2 DEF MarkGlobalRoot, H!MarkGlobalRoot, H!collectorVars, heapVars
    <3> QED
      BY <1>1, <1>4, <3>1 DEF NothingClear
  <2> QED
    BY <1>9, <2>1, <2>2
<1>10. CASE StageClear
  <2>1. /\ pc = "resting" /\ cycles' = cycles + 1
        /\ UNCHANGED <<clearColor, markColor, objects, color, registered, mColor>>
    BY <1>10 DEF StageClear, H!StageClear, heapVars
  <2>2. cycles' # 0 /\ (early' => early)
    BY <1>1, <1>2, <2>1 DEF early
  <2> QED
    BY <1>1, <2>1, <2>2 DEF NothingClear, isClear
<1>11. CASE UNCHANGED vars
  BY <1>5, <1>11 DEF vars, heapVars
<1> QED
  BY <1>3, <1>6, <1>7, <1>8, <1>9, <1>10, <1>11 DEF Next

VMStep == CollectInv /\ CollectInv' /\ VMInv /\ VMInv' /\ [VMNext]_allVars

LEMMA VMNothingClear ==
    ASSUME MaxRegistered <= 1
    PROVE  VMSpec => []NothingClear
<1>1. VMInit => NothingClear
  BY InitNothingClear DEF VMInit
<1>2. CollectInv /\ NothingClear /\ [VMNext]_allVars => NothingClear'
  BY NextNothingClear, VMStepIsStep DEF GcNewFails, NothingClear
<1> QED
  BY <1>1, <1>2, VMCollectInvariant, PTL DEF VMSpec

\* Until the second collection, no operand has been lost.
NoneLost ==
    pc # "crashed" /\ cycles <= 1 =>
        grayed[vm] = << >> /\ \A i \in DOMAIN expected : expected[i] # lost

LEMMA CyclesGrow ==
    ASSUME CollectInv, [VMNext]_allVars
    PROVE  /\ pc # "crashed" => cycles \in Nat
           /\ UNCHANGED cycles \/ (ThreadCollects /\ cycles' = cycles + 1)
<1>1. pc # "crashed" => cycles \in Nat
  BY DEF CollectInv, H!SerialInv, H!TypeOK, SparkGCAssumption
<1>2. CASE ThreadCollects
  BY <1>1, <1>2 DEF ThreadCollects, StageClear, H!StageClear
<1>3. CASE ThreadRuns
  <2>1. ASSUME HandshakeStep
        PROVE  UNCHANGED cycles
    BY <2>1 DEF HandshakeStep, H!PostHandshake, H!CheckMutator, H!EndPass, H!PostState,
       H!ToggleClear, H!ToggleMark
  <2>2. ASSUME NEW m \in Mutators, TraceBuffer(m) \/ TraceBeyondBuffer(m)
        PROVE  UNCHANGED cycles
    BY <2>2 DEF TraceBuffer, TraceBeyondBuffer, handshakeVars, controlVars
  <2>3. ASSUME EmptyMarkBuffer \/ TraceDone \/ CollectorSweep \/ SweepThrows
        PROVE  UNCHANGED cycles
    BY <2>3 DEF EmptyMarkBuffer, TraceDone, CollectorSweep, SweepThrows, H!PostState,
       H!CollectorSweep, handshakeVars, controlVars
  <2> QED
    BY <1>1, <1>3, <2>1, <2>2, <2>3 DEF ThreadRuns, Collector
<1>4. ASSUME MutatorStep(vm) \/ Answer(vm)
      PROVE  UNCHANGED cycles
  BY <1>4 DEF Answer, MutatorStep, MarkGray, MarkGlobalRoot, H!RegisterMutator,
     H!UnregisterMutator, H!LoadState, H!SetAllocationColor, H!StoreState, H!MarkGlobalRoot,
     H!collectorVars, handshakeVars, controlVars
<1>5. CASE Construct \/ Destroy \/ AnswerHandshake
  BY <1>1, <1>4, <1>5 DEF Construct, Destroy, AnswerHandshake
<1>6. CASE PopOperand \/ NewObject \/ GcNewFails
  BY <1>1, <1>6 DEF PopOperand, NewObject, GcNewFails, Pop, Allocate, handshakeVars, controlVars
<1>7. CASE Show \/ CodeEnds \/ DoGCWait \/ WaitOver \/ ThreadEnds \/ UNCHANGED allVars
  BY <1>1, <1>7 DEF Show, CodeEnds, DoGCWait, WaitOver, ThreadEnds, allVars, vars,
     handshakeVars, controlVars
<1> QED
  BY <1>2, <1>3, <1>5, <1>6, <1>7 DEF VMNext, Run, Thread

LEMMA NoRootGrayed ==
    ASSUME CollectInv, VMInv, NothingClear, NoneLost, pc # "crashed", cycles <= 1, AnswerHandshake
    PROVE  grayed'[vm] = << >> /\ expected' = expected
<1> USE Machine
<1>1. grayed[vm] = << >> /\ \A i \in DOMAIN expected : expected[i] # lost
  BY DEF NoneLost
<1>2. UNCHANGED grayed
  <2>1. CASE H!HandshakeCollector(vm) /\ MutatorStep(vm)
    BY <2>1 DEF MutatorStep
  <2>2. CASE MarkGlobalRoot(vm)
    BY <2>2 DEF MarkGlobalRoot
  <2>3. CASE MarkGray(vm)
    <3> DEFINE i == marking[vm] + 1
    <3>1. mPc[vm] = "root" /\ marking[vm] < Len(stack[vm])
      BY <2>3 DEF MarkGray
    <3>2. pc = "waitAsync" /\ cycles \in Nat
      BY <3>1, RootsInLastWait DEF CollectInv, H!SerialInv, H!TypeOK, SparkGCAssumption
    <3>3. early
      BY <3>2 DEF NothingClear, early, collecting, beforeTrace
    <3>4. MachineTyped /\ hand = << >>
      BY AnswerHandshakeTyped DEF VMInv
    <3>5. held = stack[vm] /\ DOMAIN held = 1..Len(stack[vm]) /\ Len(stack[vm]) \in Nat
          /\ expected \in Seq(Values) /\ Len(expected) = Len(stack[vm])
      BY <3>4, HeldIs DEF MachineTyped, Values
    <3>6. i \in DOMAIN held /\ i \in DOMAIN expected
      BY <3>1, <3>5 DEF CollectInv, BuffersTyped
    <3>7. stack[vm][i] \in objects
      BY <1>1, <3>5, <3>6 DEF VMInv, ValuesKept
    <3>8. ~isClear(stack[vm][i])
      BY <3>3, <3>7 DEF NothingClear, early
    <3> QED
      BY <2>3, <3>8 DEF MarkGray
  <2> QED
    BY <2>1, <2>2, <2>3 DEF AnswerHandshake, Answer
<1>3. expected \in Seq(Values)
  BY DEF VMInv, MachineTyped, Values
<1>4. expected' = [i \in DOMAIN expected |-> expected[i]]
  BY <1>1, <1>2 DEF AnswerHandshake
<1> QED
  BY <1>1, <1>2, <1>3, <1>4

\* The values after an allocation, one by one.
LEMMA ExpectedOfNew ==
    ASSUME CollectInv, MachineTyped, NewObject
    PROVE  /\ Len(hand) \in Nat /\ Len(stack[vm]) \in Nat /\ Len(hand) = arity(opcode)
           /\ Len(expected) = Len(hand) + Len(stack[vm])
           /\ Len(expected') = Len(stack[vm]) + 1 /\ DOMAIN expected' = 1..(Len(stack[vm]) + 1)
           /\ \A i \in 1..Len(stack[vm]) : expected'[i + 1] = expected[Len(hand) + i]
           /\ (\A i \in DOMAIN expected : expected[i] # lost)
                 => expected'[1] = result(SubSeq(expected, 1, Len(hand)))
<1> DEFINE k == Len(hand)
           wanted == SubSeq(expected, 1, k)
           rest == SubSeq(expected, k + 1, Len(expected))
           value == IF lost \in Range(wanted) THEN lost ELSE result(wanted)
<1>1. /\ k = arity(opcode) /\ expected' = <<value>> \o rest
  BY DEF NewObject, allocating
<1>2. /\ Len(expected) \in Nat /\ k \in Nat /\ Len(stack[vm]) \in Nat
      /\ Len(expected) = k + Len(stack[vm]) /\ expected \in Seq(Values)
  BY HeldIs DEF MachineTyped, Values
<1>3. /\ DOMAIN wanted = 1..k /\ \A i \in 1..k : wanted[i] = expected[i] /\ i \in DOMAIN expected
      /\ Len(rest) = Len(stack[vm]) /\ rest \in Seq(Values)
      /\ \A i \in 1..Len(stack[vm]) : rest[i] = expected[k + i]
  BY <1>2
<1>4. ASSUME \A i \in DOMAIN expected : expected[i] # lost
      PROVE  value = result(wanted)
  <2> HIDE DEF wanted
  <2> QED
    BY <1>3, <1>4 DEF Range
<1> HIDE DEF wanted, rest, value
<1>5. /\ Len(expected') = Len(stack[vm]) + 1 /\ DOMAIN expected' = 1..(Len(stack[vm]) + 1)
      /\ expected'[1] = value
      /\ \A i \in 1..Len(stack[vm]) : expected'[i + 1] = rest[i]
  BY <1>1, <1>2, <1>3
<1> QED
  BY <1>1, <1>2, <1>3, <1>4, <1>5 DEF wanted

LEMMA ResultNotLost ==
    ASSUME opcode \in {"NEW_VEC2", "ADD2", "INC2_X", "INC2_Y"}, NEW vs
    PROVE  result(vs) # lost
<1>1. \A x, y : <<x, y>> # lost
  BY DEF lost
<1> QED
  BY <1>1 DEF result

LEMMA NextNoneLost ==
    ASSUME VMStep, NothingClear, NoneLost
    PROVE  NoneLost'
<1> USE DEF VMStep
<1> USE Machine
<1>1. SUFFICES ASSUME pc # "crashed", cycles' <= 1
               PROVE  grayed'[vm] = << >> /\ \A i \in DOMAIN expected' : expected'[i] # lost
  <2>1. pc = "crashed" => pc' = "crashed"
    BY CrashedStays, VMStepIsStep DEF GcNewFails, vars, handshakeVars
  <2> QED
    BY <1>1, <2>1 DEF NoneLost
<1>2. cycles <= 1
  BY <1>1, CyclesGrow
<1>3. grayed[vm] = << >> /\ \A i \in DOMAIN expected : expected[i] # lost
  BY <1>1, <1>2 DEF NoneLost
<1>4. CASE AnswerHandshake
  BY <1>1, <1>2, <1>3, <1>4, NoRootGrayed
<1>5. CASE ThreadCollects
  <2>1. grayed' = [m \in Mutators |-> << >>] /\ UNCHANGED expected
    BY <1>5 DEF ThreadCollects, StageClear
  <2> QED
    BY <1>3, <2>1
<1>6. CASE ThreadRuns
  BY <1>3, <1>6, CollectorKeeps DEF ThreadRuns, vmVars
<1>7. CASE NewObject
  <2>1. opcode \in {"NEW_VEC2", "ADD2", "INC2_X", "INC2_Y"} /\ UNCHANGED grayed
    BY <1>7 DEF NewObject, allocating, Allocate
  <2>2. expected'[1] # lost
    BY <1>3, <1>7, <2>1, ExpectedOfNew, ResultNotLost DEF VMInv
  <2>3. ASSUME NEW i \in 1..Len(stack[vm])
        PROVE  expected'[i + 1] # lost
    <3>1. /\ Len(hand) \in Nat /\ Len(stack[vm]) \in Nat /\ expected \in Seq(Values)
          /\ Len(expected) = Len(hand) + Len(stack[vm])
          /\ expected'[i + 1] = expected[Len(hand) + i]
      BY <1>7, ExpectedOfNew DEF VMInv, MachineTyped, Values
    <3>2. Len(hand) + i \in DOMAIN expected
      BY <3>1
    <3> QED
      BY <1>3, <3>1, <3>2
  <2>4. DOMAIN expected' = 1..(Len(stack[vm]) + 1) /\ Len(stack[vm]) \in Nat
    BY <1>7, ExpectedOfNew DEF VMInv
  <2>5. ASSUME NEW j \in DOMAIN expected', j # 1
        PROVE  expected'[j] # lost
    <3>1. j - 1 \in 1..Len(stack[vm]) /\ (j - 1) + 1 = j
      BY <2>4, <2>5
    <3> QED
      BY <2>3, <3>1
  <2> QED
    BY <1>3, <2>1, <2>2, <2>5
<1>8. CASE Show
  <2>1. /\ expected' = Tail(expected) /\ UNCHANGED grayed /\ expected \in Seq(Values)
        /\ Len(expected) = 1 + Len(stack[vm]) /\ Len(stack[vm]) \in Nat
    BY <1>8, HeldIs DEF Show, vars, VMInv, MachineTyped, Values
  <2>2. \A i \in DOMAIN expected' : expected'[i] = expected[i + 1] /\ i + 1 \in DOMAIN expected
    <3>1. expected # << >>
      BY <2>1
    <3> QED
      BY <2>1, <3>1
  <2> QED
    BY <1>3, <2>1, <2>2
<1>9. CASE Construct \/ PopOperand \/ GcNewFails \/ CodeEnds \/ DoGCWait \/ WaitOver \/ Destroy
           \/ ThreadEnds \/ UNCHANGED allVars
  <2>1. UNCHANGED <<grayed, expected>>
    BY <1>9 DEF Construct, MutatorStep, PopOperand, Pop, GcNewFails, vmVars, CodeEnds, DoGCWait,
       WaitOver, Destroy, ThreadEnds, allVars, vars
  <2> QED
    BY <1>3, <2>1
<1> QED
  BY <1>4, <1>5, <1>6, <1>7, <1>8, <1>9 DEF VMNext, Run, Thread

LEMMA VMNoneLost ==
    ASSUME MaxRegistered <= 1
    PROVE  VMSpec => []NoneLost
<1>1. VMInit => NoneLost
  <2> SUFFICES ASSUME VMInit PROVE NoneLost
    OBVIOUS
  <2>1. grayed[vm] = << >> /\ expected = << >>
    BY Machine DEF VMInit, Init
  <2>2. DOMAIN expected = {}
    BY <2>1
  <2> QED
    BY <2>1, <2>2 DEF NoneLost
<1>2. CollectInv /\ CollectInv' /\ VMInv /\ VMInv' /\ NothingClear /\ NoneLost /\ [VMNext]_allVars
          => NoneLost'
  BY NextNoneLost DEF VMStep
<1> QED
  BY <1>1, <1>2, VMCollectInvariant, VMInvariant, VMNothingClear, PTL DEF VMSpec

(***************************************************************************)
(* In every program all operands, on the stack or popped, are objects in   *)
(* use with the values computed until the second collection starts: the    *)
(* first loses no root and frees none of them (SparkGC.cpp:180-185 and     *)
(* :196-207).                                                              *)
(***************************************************************************)
THEOREM FirstCollectionLosesNone ==
    ASSUME MaxRegistered <= 1
    PROVE  VMSpec => [](pc # "crashed" /\ cycles <= 1 =>
                          \A i \in DOMAIN held : held[i] \in objects /\ vec[held[i]] = expected[i])
<1>1. CollectInv /\ VMInv /\ NoneLost =>
          (pc # "crashed" /\ cycles <= 1 =>
              \A i \in DOMAIN held : held[i] \in objects /\ vec[held[i]] = expected[i])
  <2> SUFFICES ASSUME CollectInv, VMInv, NoneLost, pc # "crashed", cycles <= 1
               PROVE  \A i \in DOMAIN held : held[i] \in objects /\ vec[held[i]] = expected[i]
    OBVIOUS
  <2>1. DOMAIN held = DOMAIN expected
    <3>1. expected \in Seq(Values) /\ DOMAIN held = 1..Len(expected)
      BY HeldIs DEF VMInv, MachineTyped, Values
    <3> QED
      BY <3>1
  <2> QED
    BY <2>1 DEF NoneLost, VMInv, ValuesKept
<1> QED
  BY <1>1, VMCollectInvariant, VMInvariant, VMNoneLost, PTL

-----------------------------------------------------------------------------
(***************************************************************************)
(* The program of main.cpp, instruction by instruction.                    *)
(***************************************************************************)
ones == << <<0, 0>>, <<1, 0>>, <<1, 1>>, <<1, 2>> >>
threes == << <<0, 0>>, <<1, 0>>, <<2, 0>>, <<3, 0>>, <<3, 1>>, <<3, 2>>, <<3, 3>>, <<3, 4>> >>

\* What is on the stack or popped when the instruction at n starts, up to SHOW2.
ExampleStack(n, e) ==
    /\ n = 1 => Len(e) = 0
    /\ n \in 2..5 => Len(e) = 1 /\ e[1] = ones[n - 1]
    /\ n \in 6..13 => Len(e) = 2 /\ e[1] = threes[n - 5] /\ e[2] = <<1, 2>>
    /\ n \in {14, 15} => Len(e) = 1 /\ e[1] = <<4, 6>>

ExampleInv ==
    program = entranceProgram =>
        /\ ip <= 13 => cycles = 0 /\ vmPc \in {"constructor", "run"}
        /\ ip = 14 => /\ cycles <= 1 /\ vmPc \in {"run", "waiting"}
                      /\ vmPc = "run" \/ thread = "created" => cycles = 0
                      /\ thread = "none" => pc = "resting"
        /\ ip = 15 => cycles <= 1 /\ vmPc = "run" /\ pc = "resting"
        /\ ExampleStack(ip, expected)

LEMMA ExampleOpcodes ==
    ASSUME MachineTyped, program = entranceProgram
    PROVE  /\ ip \in 1..17
           /\ ip \in {1, 5} => opcode = "NEW_VEC2"
           /\ ip \in {2} \cup 6..8 => opcode = "INC2_X"
           /\ ip \in {3, 4} \cup 9..12 => opcode = "INC2_Y"
           /\ ip = 13 => opcode = "ADD2"
           /\ ip = 14 => opcode = "COLLECT"
           /\ ip = 15 => opcode = "SHOW2"
           /\ ip = 16 => opcode = "HALT"
           /\ ip = 17 => opcode = "end"
<1>1. Len(entranceProgram) = 16
  BY DEF entranceProgram
<1>2. Len(program) = 16 /\ ip \in 1..17
  BY <1>1 DEF MachineTyped
<1> QED
  BY <1>2 DEF opcode, entranceProgram

LEMMA ExampleNewObject ==
    ASSUME CollectInv, MachineTyped, MachineTyped', ExampleInv, NewObject, program = entranceProgram,
           \A i \in DOMAIN expected : expected[i] # lost
    PROVE  ip \in 1..13 /\ ExampleStack(ip', expected')
<1> DEFINE k == Len(hand)
           wanted == SubSeq(expected, 1, k)
<1>1. /\ opcode \in {"NEW_VEC2", "ADD2", "INC2_X", "INC2_Y"} /\ ip' = ip + 1
  BY DEF NewObject, allocating
<1>2. ip \in 1..13
  BY <1>1, ExampleOpcodes
<1>3. /\ k \in Nat /\ Len(stack[vm]) \in Nat /\ k = arity(opcode)
      /\ Len(expected) = k + Len(stack[vm]) /\ expected \in Seq(Values)
      /\ Len(expected') = Len(stack[vm]) + 1
      /\ \A i \in 1..Len(stack[vm]) : expected'[i + 1] = expected[k + i]
      /\ expected'[1] = result(wanted)
  BY ExpectedOfNew DEF MachineTyped, Values
<1>4. \A i \in 1..k : wanted[i] = expected[i]
  BY <1>3
<1> HIDE DEF wanted
<1>5. ExampleStack(ip, expected)
  BY DEF ExampleInv
<1>6. CASE opcode = "NEW_VEC2"
  <2>1. ip \in {1, 5} /\ k = 0 /\ expected'[1] = <<0, 0>>
    BY <1>2, <1>3, <1>6, ExampleOpcodes, Arity DEF result
  <2>2. Len(expected') = Len(expected) + 1 /\ (Len(expected) = 1 => expected'[2] = expected[1])
    BY <1>3, <2>1
  <2>3. CASE ip = 1
    <3>1. Len(expected) = 0
      BY <1>5, <2>3 DEF ExampleStack
    <3>2. ip' = 2 /\ Len(expected') = 1
      BY <1>1, <2>2, <2>3, <3>1
    <3> QED
      BY <1>2, <2>1, <3>2 DEF ExampleStack, ones
  <2>4. CASE ip = 5
    <3>1. Len(expected) = 1 /\ expected[1] = <<1, 2>>
      BY <1>5, <2>4 DEF ExampleStack, ones
    <3>2. ip' = 6 /\ Len(expected') = 2 /\ expected'[2] = <<1, 2>>
      BY <1>1, <2>2, <2>4, <3>1
    <3> QED
      BY <1>2, <2>1, <3>2 DEF ExampleStack, threes
  <2> QED
    BY <2>1, <2>3, <2>4
<1>7. CASE opcode = "INC2_X"
  <2>1. /\ ip \in {2} \cup 6..8 /\ k = 1
        /\ expected'[1] = <<wanted[1][1] + 1, wanted[1][2]>>
    BY <1>2, <1>3, <1>7, ExampleOpcodes, Arity DEF result
  <2>2. /\ Len(expected') = Len(expected) /\ (Len(expected) = 2 => expected'[2] = expected[2])
        /\ expected'[1] = <<expected[1][1] + 1, expected[1][2]>>
    BY <1>3, <1>4, <2>1
  <2> QED
    BY <1>1, <1>5, <2>1, <2>2 DEF ExampleStack, ones, threes
<1>8. CASE opcode = "INC2_Y"
  <2>1. /\ ip \in {3, 4} \cup 9..12 /\ k = 1
        /\ expected'[1] = <<wanted[1][1], wanted[1][2] + 1>>
    BY <1>2, <1>3, <1>8, ExampleOpcodes, Arity DEF result
  <2>2. /\ Len(expected') = Len(expected) /\ (Len(expected) = 2 => expected'[2] = expected[2])
        /\ expected'[1] = <<expected[1][1], expected[1][2] + 1>>
    BY <1>3, <1>4, <2>1
  <2> QED
    BY <1>1, <1>5, <2>1, <2>2 DEF ExampleStack, ones, threes
<1>9. CASE opcode = "ADD2"
  <2>1. /\ ip = 13 /\ k = 2
        /\ expected'[1] = <<wanted[1][1] + wanted[2][1], wanted[1][2] + wanted[2][2]>>
    BY <1>2, <1>3, <1>9, ExampleOpcodes, Arity DEF result
  <2>2. Len(expected) = 2 /\ expected[1] = <<3, 4>> /\ expected[2] = <<1, 2>>
    BY <1>5, <2>1 DEF ExampleStack, threes
  <2>3. wanted[1] = <<3, 4>> /\ wanted[2] = <<1, 2>>
    BY <1>4, <2>1, <2>2
  <2>4. Len(expected') = 1 /\ expected'[1] = <<4, 6>>
    <3>1. Len(stack[vm]) = 0
      <4> DEFINE n == Len(stack[vm])
                 e == Len(expected)
      <4>1. e = k + n /\ n \in Nat
        BY <1>3
      <4>2. k = 2 /\ e = 2
        BY <2>1, <2>2
      <4> HIDE DEF k, n, e
      <4>3. n = 0
        BY <4>1, <4>2
      <4> QED
        BY <4>3 DEF n
    <3> QED
      BY <1>3, <2>1, <2>3, <3>1
  <2> QED
    BY <1>1, <2>1, <2>4 DEF ExampleStack
<1> QED
  BY <1>1, <1>2, <1>6, <1>7, <1>8, <1>9

LEMMA NextExampleInv ==
    ASSUME VMStep, NothingClear, NoneLost, ExampleInv
    PROVE  ExampleInv'
<1> USE DEF VMStep
<1>1. SUFFICES ASSUME program = entranceProgram, program' = program
               PROVE  ExampleInv'
  <2>1. UNCHANGED program
    BY DEF VMNext, Run, Thread, Construct, PopOperand, NewObject, GcNewFails, Show, CodeEnds,
       DoGCWait, AnswerHandshake, WaitOver, Destroy, ThreadCollects, ThreadRuns, ThreadEnds,
       vmVars, allVars
  <2> QED
    BY <1>1, <2>1 DEF ExampleInv
<1>2. /\ MachineTyped /\ MachineTyped' /\ ThreadInv /\ ip \in 1..17
  BY <1>1, ExampleOpcodes DEF VMInv
<1>3. /\ ip <= 13 => cycles = 0 /\ vmPc \in {"constructor", "run"}
      /\ ip = 14 => /\ cycles <= 1 /\ vmPc \in {"run", "waiting"}
                    /\ vmPc = "run" \/ thread = "created" => cycles = 0
                    /\ thread = "none" => pc = "resting"
      /\ ip = 15 => cycles <= 1 /\ vmPc = "run" /\ pc = "resting"
      /\ ExampleStack(ip, expected)
  BY <1>1 DEF ExampleInv
<1>4. ASSUME UNCHANGED <<ip, vmPc, expected, thread, pc, cycles>>
      PROVE  ExampleInv'
  BY <1>1, <1>3, <1>4 DEF ExampleInv
<1>5. CASE Construct
  <2>1. vmPc = "constructor" /\ vmPc' = "run" /\ UNCHANGED <<ip, expected, thread, pc>>
    BY <1>5, AnswerKeepsPc DEF Construct
  <2>2. UNCHANGED cycles
    BY <1>5, CyclesGrow DEF Construct, ThreadCollects
  <2>3. ip <= 13 \/ ip >= 16
    BY <1>2, <1>3, <2>1
  <2> QED
    BY <1>2, <1>3, <2>1, <2>2, <2>3 DEF ExampleInv
<1>6. CASE PopOperand
  BY <1>4, <1>6 DEF PopOperand, Pop, handshakeVars, controlVars
<1>7. CASE NewObject
  <2>1. /\ opcode \in {"NEW_VEC2", "ADD2", "INC2_X", "INC2_Y"} /\ ip' = ip + 1
        /\ vmPc = "run" /\ UNCHANGED <<vmPc, thread, pc, cycles>> /\ pc = "resting"
    BY <1>7 DEF NewObject, allocating, executing, running, Allocate, handshakeVars, controlVars
  <2>2. ip \in 1..13
    BY <1>1, <1>2, <2>1, ExampleOpcodes
  <2>3. cycles = 0
    BY <1>3, <2>2
  <2>4. \A i \in DOMAIN expected : expected[i] # lost
    BY <2>1, <2>3 DEF NoneLost
  <2>5. ExampleStack(ip', expected')
    BY <1>1, <1>2, <1>7, <2>4, ExampleNewObject
  <2> QED
    BY <2>1, <2>2, <2>3, <2>5 DEF ExampleInv
<1>8. CASE GcNewFails
  <2>1. /\ opcode \in {"NEW_VEC2", "ADD2", "INC2_X", "INC2_Y"}
        /\ UNCHANGED <<ip, vmPc, expected, thread, cycles>>
    BY <1>8 DEF GcNewFails, allocating, controlVars, vmVars
  <2>2. ip \in 1..13
    BY <1>1, <1>2, <2>1, ExampleOpcodes
  <2> QED
    BY <1>3, <2>1, <2>2 DEF ExampleInv
<1>9. CASE Show
  <2>1. ip = 15 /\ ip' = 16
    BY <1>1, <1>2, <1>9, ExampleOpcodes DEF Show
  <2> QED
    BY <2>1 DEF ExampleInv, ExampleStack
<1>10. CASE CodeEnds
  <2>1. ip = 17 /\ ip' = 17
    BY <1>1, <1>2, <1>10, ExampleOpcodes DEF CodeEnds
  <2> QED
    BY <2>1 DEF ExampleInv, ExampleStack
<1>11. CASE DoGCWait
  <2>1. /\ ip \in {14, 16} /\ vmPc = "run" /\ vmPc' = "waiting" /\ thread' = "created"
        /\ UNCHANGED <<ip, expected, cycles>>
    BY <1>1, <1>2, <1>11, ExampleOpcodes DEF DoGCWait, executing, vars, handshakeVars, controlVars
  <2> QED
    BY <1>3, <2>1 DEF ExampleInv
<1>12. CASE AnswerHandshake
  <2>1. vmPc = "waiting" /\ Answer(vm) /\ UNCHANGED <<ip, vmPc, thread>>
    BY <1>12 DEF AnswerHandshake
  <2>2. pc # "crashed" /\ UNCHANGED pc
    BY <2>1, AnswerKeeps DEF Answer, MutatorStep, MarkGray, MarkGlobalRoot
  <2>3. UNCHANGED cycles
    BY <2>2, CyclesGrow DEF ThreadCollects, StageClear, H!StageClear
  <2>4. CASE cycles <= 1
    BY <1>4, <1>12, <2>1, <2>2, <2>3, <2>4, NoRootGrayed
  <2>5. CASE ~(cycles <= 1)
    <3>1. ip >= 16
      BY <1>2, <1>3, <2>1, <2>5
    <3> QED
      BY <1>2, <2>1, <3>1 DEF ExampleInv, ExampleStack
  <2> QED
    BY <2>4, <2>5
<1>13. CASE WaitOver
  <2>1. /\ vmPc = "waiting" /\ ~wait /\ UNCHANGED <<expected, thread, pc, cycles>>
        /\ vmPc' = IF opcode = "HALT" THEN "returned" ELSE "run"
        /\ ip' = IF opcode = "COLLECT" THEN ip + 1 ELSE ip
    BY <1>13 DEF WaitOver, vars, handshakeVars, controlVars
  <2>2. thread = "none"
    BY <1>2, <2>1 DEF ThreadInv
  <2>3. ip = 14 \/ ip \in {16, 17}
    BY <1>2, <1>3, <2>1
  <2>4. CASE ip = 14
    <3>1. ip' = 15 /\ vmPc' = "run"
      BY <1>1, <1>2, <2>1, <2>4, ExampleOpcodes
    <3> QED
      BY <1>3, <2>1, <2>2, <2>4, <3>1 DEF ExampleInv, ExampleStack
  <2>5. CASE ip \in {16, 17}
    <3>1. ip' = ip
      BY <1>1, <1>2, <2>1, <2>5, ExampleOpcodes
    <3> QED
      BY <2>5, <3>1 DEF ExampleInv, ExampleStack
  <2> QED
    BY <2>3, <2>4, <2>5
<1>14. CASE Destroy
  <2>1. ip \in {16, 17} /\ ip' = ip
    BY <1>2, <1>3, <1>14 DEF Destroy
  <2> QED
    BY <2>1 DEF ExampleInv, ExampleStack
<1>15. CASE ThreadCollects
  <2>1. /\ thread = "created" /\ thread' = "collecting" /\ vmPc = "waiting"
        /\ UNCHANGED <<ip, vmPc, expected>> /\ cycles' = cycles + 1
    BY <1>2, <1>15 DEF ThreadCollects, ThreadInv, StageClear, H!StageClear
  <2>2. ip = 14 \/ ip \in {16, 17}
    BY <1>2, <1>3, <2>1
  <2>3. ip = 14 => cycles = 0
    BY <1>3, <2>1
  <2> QED
    BY <1>3, <2>1, <2>2, <2>3 DEF ExampleInv
<1>16. CASE ThreadRuns
  <2>1. /\ thread = "collecting" /\ vmPc = "waiting"
        /\ UNCHANGED <<ip, vmPc, expected, thread>>
    BY <1>2, <1>16 DEF ThreadRuns, ThreadInv, vmVars
  <2>2. UNCHANGED cycles
    BY <2>1, CyclesGrow DEF ThreadCollects
  <2>3. ip = 14 \/ ip \in {16, 17}
    BY <1>2, <1>3, <2>1
  <2> QED
    BY <1>3, <2>1, <2>2, <2>3 DEF ExampleInv
<1>17. CASE ThreadEnds
  <2>1. /\ thread' = "none" /\ vmPc = "waiting" /\ pc' = "resting"
        /\ UNCHANGED <<ip, vmPc, expected, cycles>>
    BY <1>2, <1>17 DEF ThreadEnds, ThreadInv, vars, handshakeVars, controlVars
  <2>2. ip = 14 \/ ip \in {16, 17}
    BY <1>2, <1>3, <2>1
  <2> QED
    BY <1>3, <2>1, <2>2 DEF ExampleInv
<1>18. CASE UNCHANGED allVars
  BY <1>4, <1>18 DEF allVars, vars, vmVars, handshakeVars, controlVars
<1> QED
  BY <1>5, <1>6, <1>7, <1>8, <1>9, <1>10, <1>11, <1>12, <1>13, <1>14, <1>15, <1>16, <1>17, <1>18
     DEF VMNext, Run, Thread

(***************************************************************************)
(* The program of main.cpp shows Vec2(4, 6), of an object still in use,    *)
(* although a collection, which in general loses a root, comes between the *)
(* addition and SHOW2 (main.cpp:167-183).                                  *)
(***************************************************************************)
THEOREM MainShowsItsSum ==
    ASSUME MaxRegistered <= 1
    PROVE  VMSpec => []ExampleShows
<1>1. VMInit => ExampleInv
  <2> SUFFICES ASSUME VMInit PROVE ExampleInv
    OBVIOUS
  <2>1. /\ ip = 1 /\ vmPc = "constructor" /\ expected = << >> /\ cycles = 0
    BY DEF VMInit, Init, H!Init
  <2> QED
    BY <2>1 DEF ExampleInv, ExampleStack
<1>2. CollectInv /\ CollectInv' /\ VMInv /\ VMInv' /\ NothingClear /\ NoneLost /\ ExampleInv
          /\ [VMNext]_allVars => ExampleInv'
  BY NextExampleInv DEF VMStep
<1>3. CollectInv /\ VMInv /\ NoneLost /\ ExampleInv => ExampleShows
  <2> SUFFICES ASSUME CollectInv, VMInv, NoneLost, ExampleInv, program = entranceProgram,
                      opcode = "SHOW2", hand # << >>
               PROVE  hand[1] \in objects /\ vec[hand[1]] = <<4, 6>>
    BY DEF ExampleShows
  <2>1. ip = 15
    BY ExampleOpcodes DEF VMInv
  <2>2. cycles <= 1 /\ pc = "resting" /\ expected[1] = <<4, 6>>
    BY <2>1 DEF ExampleInv, ExampleStack
  <2>3. /\ DOMAIN held = 1..Len(expected) /\ hand \in Seq(DOMAIN slots)
        /\ Len(expected) = Len(hand) + Len(stack[vm]) /\ Len(stack[vm]) \in Nat
        /\ \A i \in 1..Len(hand) : held[i] = hand[i]
    BY HeldIs DEF VMInv
  <2>4. 1 \in 1..Len(hand) /\ 1 \in DOMAIN held
    BY <2>3
  <2>5. expected[1] # lost
    BY <2>2 DEF lost
  <2> QED
    BY <2>2, <2>3, <2>4, <2>5 DEF VMInv, ValuesKept
<1> QED
  BY <1>1, <1>2, <1>3, VMCollectInvariant, VMInvariant, VMNothingClear, VMNoneLost, PTL DEF VMSpec
=============================================================================
