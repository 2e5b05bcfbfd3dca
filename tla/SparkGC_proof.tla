--------------------------- MODULE SparkGC_proof ---------------------------
(***************************************************************************)
(* Proofs about SparkGC with at most one mutator registered at a time: for *)
(* every heap, every graph of objects and any number of collections.       *)
(***************************************************************************)
EXTENDS SparkGC, Iteration, FiniteSetTheorems, TLAPS

HP == INSTANCE Handshake_proof

-----------------------------------------------------------------------------
(***************************************************************************)
(* The inductive invariant for at most one registered mutator.  The        *)
(* entries of a mark buffer that are still to be read are objects in use,  *)
(* but for stray ones; the roots marked for this collection are its last   *)
(* entries, clear until they are traced; a clear child of an object this   *)
(* collection marked is gray.                                              *)
(***************************************************************************)
GraphTyped ==
    /\ objects \subseteq DOMAIN slots /\ DOMAIN slots \subseteq Places
    /\ slots \in [DOMAIN slots -> SUBSET DOMAIN slots]
    /\ color \in [Places -> {"BLUE"} \cup H!MarkColors]
    /\ gray \subseteq DOMAIN slots /\ traced \subseteq DOMAIN slots
    /\ stray \subseteq DOMAIN slots

BuffersTyped ==
    /\ stack \in [Mutators -> Seq(DOMAIN slots)]
    /\ markBuffer \in [Mutators -> Seq(DOMAIN slots)]
    /\ grayed \in [Mutators -> Seq(DOMAIN slots)]
    /\ marking \in [Mutators -> Nat]
    /\ lastRead \in [Mutators -> Nat] /\ lastWrite \in [Mutators -> Nat]
    /\ \A m \in Mutators :
         /\ Len(stack[m]) <= MaxStack /\ marking[m] <= Len(stack[m])
         /\ mPc[m] # "root" => marking[m] = 0
         /\ lastRead[m] <= lastWrite[m] /\ lastWrite[m] = Len(markBuffer[m])

beforeTrace == {"postSync1", "waitSync1", "postSync2", "waitSync2", "startTracing",
                "postAsync", "waitAsync"}
collecting  == beforeTrace \cup {"trace", "startSweep", "sweep"}

UnreadInUse ==
    \A m \in Mutators : \A i \in (lastRead[m] + 1)..Len(markBuffer[m]) :
        markBuffer[m][i] \in objects \cup stray

ReadInTrace ==
    /\ gray \subseteq objects \cup stray
    /\ pc # "trace" => gray = {}
    /\ \A m \in Mutators :
         pc \notin {"waitAsync", "trace"} \/ m \notin registered => lastRead[m] = lastWrite[m]

\* Where in the buffer the roots marked for this collection start.
base(m) == lastWrite[m] - Len(grayed[m])

RootsQueued ==
    pc \in collecting => \A m \in Mutators :
        /\ 0 <= base(m) /\ base(m) <= lastRead[m]
        /\ pc \in beforeTrace => lastRead[m] = base(m)
        /\ \A i \in 1..Len(grayed[m]) :
             /\ markBuffer[m][base(m) + i] = grayed[m][i]
             /\ isClear(grayed[m][i]) \/ grayed[m][i] \in traced
             /\ 2 <= i /\ base(m) + i <= lastRead[m] + 1 => grayed[m][i] \in traced

GrayBetween ==
    pc \in collecting => \A o \in traced : /\ color[o] = markColor
                                           /\ \A p \in slots[o] : isClear(p) => p \in gray

SweptColors ==
    /\ pc = "toggle" => \A o \in objects \cap scanned : color[o] = markColor
    /\ pc \in {"toggleMark", "rest"} => \A o \in objects \cap scanned : isClear(o)

\* What a mutator marked for this collection, and what the trace marks from
\* there: the roots and the objects do not change while it runs.
MarkedReached ==
    pc \in collecting =>
        /\ \A m \in Mutators : \A i \in DOMAIN grayed[m] : grayed[m][i] \in live
        /\ gray \cup traced \subseteq live \cup reach(stray)

CollectInv ==
    /\ GraphTyped /\ BuffersTyped /\ BlueIsUnallocated
    /\ pc # "crashed" =>
         /\ H!SerialInv
         /\ clearColor = markColor <=> pc = "toggleMark"
         /\ UnreadInUse /\ ReadInTrace /\ RootsQueued /\ GrayBetween /\ SweptColors

-----------------------------------------------------------------------------
(***************************************************************************)
(* The handshakes here are those of Handshake_proof: the two instances     *)
(* have the same definitions, compared one by one.                         *)
(***************************************************************************)
LEMMA SameCardinality ==
    \A S : /\ HP!IsFiniteSet(S) <=> IsFiniteSet(S)
           /\ HP!Cardinality(S) = H!Cardinality(S)
<1>1. \A S : (HP!IsFiniteSet(S) <=> IsFiniteSet(S)) /\ (HP!IsFiniteSet(S) <=> H!IsFiniteSet(S))
  BY DEF HP!IsFiniteSet, H!IsFiniteSet, IsFiniteSet
<1>2. \A S : HP!Cardinality(S) = H!Cardinality(S)
  BY <1>1 DEF HP!Cardinality, H!Cardinality
<1> QED
  BY <1>1, <1>2

LEMMA SameNext == [H!Next]_H!vars => [HP!Next]_HP!vars
<1>1. ASSUME NEW m \in Mutators, H!RegisterMutator(m) PROVE HP!RegisterMutator(m)
  BY <1>1, SameCardinality DEF H!RegisterMutator, HP!RegisterMutator, H!registrationColor,
     HP!registrationColor, H!collectorVars, HP!collectorVars
<1>2. ASSUME NEW m \in Mutators, H!UnregisterMutator(m) PROVE HP!UnregisterMutator(m)
  BY <1>2 DEF H!UnregisterMutator, HP!UnregisterMutator, H!collectorVars, HP!collectorVars,
     H!mutatorVars, HP!mutatorVars
<1>3. ASSUME NEW m \in Mutators, H!HandshakeCollector(m) PROVE HP!HandshakeCollector(m)
  BY <1>3 DEF H!HandshakeCollector, HP!HandshakeCollector, H!LoadState, HP!LoadState,
     H!MarkGlobalRoot, HP!MarkGlobalRoot, H!SetAllocationColor, HP!SetAllocationColor,
     H!StoreState, HP!StoreState, H!collectorVars, HP!collectorVars
<1>4. H!StageClear => HP!StageClear
  BY DEF H!StageClear, HP!StageClear
<1>5. H!Collector => HP!Collector
  <2>1. \A at, s, w : H!PostHandshake(at, s, w) => HP!PostHandshake(at, s, w)
    BY DEF H!PostHandshake, HP!PostHandshake, H!mutatorVars, HP!mutatorVars
  <2>2. H!posts = HP!posts /\ H!waits = HP!waits /\ H!stageSteps = HP!stageSteps
    BY DEF H!posts, HP!posts, H!waits, HP!waits, H!stageSteps, HP!stageSteps
  <2>3. H!CheckMutator => HP!CheckMutator
    <3>1. H!first(todo) = HP!first(todo)
      BY DEF H!first, HP!first
    <3>2. H!countReady(readyCount) = HP!countReady(readyCount)
      BY SameCardinality DEF H!countReady, HP!countReady
    <3> QED
      BY <2>2, <3>1, <3>2 DEF H!CheckMutator, HP!CheckMutator, H!mutatorVars, HP!mutatorVars
  <2>4. \A at, next : H!EndPass(at, next) => HP!EndPass(at, next)
    BY SameCardinality DEF H!EndPass, HP!EndPass, H!allReady, HP!allReady, H!mutatorVars,
       HP!mutatorVars
  <2>5. \A at, s, next : H!PostState(at, s, next) => HP!PostState(at, s, next)
    BY DEF H!PostState, HP!PostState, H!mutatorVars, HP!mutatorVars
  <2>6. H!CollectorSweep => HP!CollectorSweep
    BY DEF H!CollectorSweep, HP!CollectorSweep, H!mutatorVars, HP!mutatorVars
  <2>7. H!ToggleClear => HP!ToggleClear
    BY DEF H!ToggleClear, HP!ToggleClear, H!mutatorVars, HP!mutatorVars
  <2>8. H!ToggleMark => HP!ToggleMark
    BY DEF H!ToggleMark, HP!ToggleMark, H!opposite, HP!opposite, H!MarkColors, HP!MarkColors,
       H!mutatorVars, HP!mutatorVars
  <2> QED
    BY <2>1, <2>2, <2>3, <2>4, <2>5, <2>6, <2>7, <2>8 DEF H!Collector, HP!Collector
<1>6. UNCHANGED H!vars => UNCHANGED HP!vars
  BY DEF H!vars, HP!vars, H!collectorVars, HP!collectorVars, H!mutatorVars, HP!mutatorVars
<1> QED
  BY <1>1, <1>2, <1>3, <1>4, <1>5, <1>6 DEF H!Next, HP!Next

LEMMA SameInv == H!SerialInv <=> HP!SerialInv
  BY DEF H!SerialInv, HP!SerialInv, H!TypeOK, HP!TypeOK, H!Pcs, HP!Pcs, H!HandshakeStates,
     HP!HandshakeStates, H!Stages, HP!Stages, H!MarkColors, HP!MarkColors, H!waiting,
     HP!waiting, H!afterTracing, HP!afterTracing, H!successor, HP!successor, H!posted,
     HP!posted, H!answered, HP!answered, H!answering, HP!answering, H!rootsDone, HP!rootsDone

LEMMA SerialStep ==
    ASSUME MaxRegistered <= 1, H!SerialInv, [H!Next]_H!vars
    PROVE  H!SerialInv'
<1>1. HP!SerialInv /\ [HP!Next]_HP!vars
  BY SameInv, SameNext
<1>2. HP!SerialInv'
  BY <1>1, HP!NextSerialInv, SameCardinality, SparkGCAssumption
<1>3. HP!SerialInv' => H!SerialInv'
  BY DEF H!SerialInv, HP!SerialInv, H!TypeOK, HP!TypeOK, H!Pcs, HP!Pcs, H!HandshakeStates,
     HP!HandshakeStates, H!Stages, HP!Stages, H!MarkColors, HP!MarkColors, H!waiting,
     HP!waiting, H!afterTracing, HP!afterTracing, H!successor, HP!successor, H!posted,
     HP!posted, H!answered, HP!answered, H!answering, HP!answering, H!rootsDone, HP!rootsDone
<1> QED
  BY <1>2, <1>3
-----------------------------------------------------------------------------
(***************************************************************************)
(* What the handshakes contribute.                                         *)
(***************************************************************************)
LEMMA ControlTyped ==
    ASSUME H!SerialInv
    PROVE  /\ pc \in H!Pcs /\ pc # "crashed"
           /\ registered \subseteq Mutators
           /\ clearColor \in H!MarkColors /\ markColor \in H!MarkColors
           /\ mColor \in [Mutators -> H!MarkColors]
           /\ mPc \in [Mutators -> {"run", "root", "color", "store"}]
  BY DEF H!SerialInv, H!TypeOK, H!Pcs

LEMMA RootsInLastWait ==
    ASSUME H!SerialInv, NEW m \in Mutators, mPc[m] = "root"
    PROVE  m \in registered /\ pc = "waitAsync"
<1>1. m \in registered /\ H!answering(m)
  BY DEF H!SerialInv, H!answered
<1>2. mState[m] = "SYNC2" /\ pc \in H!waiting
  BY <1>1 DEF H!answering
<1>3. handshakeState = "ASYNC"
  BY <1>1, <1>2 DEF H!answering, H!successor
<1> QED
  BY <1>1, <1>2, <1>3 DEF H!SerialInv, H!posted, H!waiting

LEMMA HandshakePart ==
    ASSUME Next, pc' # "crashed"
    PROVE  [H!Next]_H!vars
<1>1. UNCHANGED handshakeVars => UNCHANGED H!vars
  BY DEF handshakeVars, controlVars, H!vars, H!collectorVars, H!mutatorVars
<1>2. ASSUME NEW m \in Mutators, MutatorStep(m) PROVE H!Next
  BY <1>2 DEF MutatorStep, H!Next, H!HandshakeCollector
<1>3. ASSUME NEW m \in Mutators, MarkGlobalRoot(m) PROVE H!Next
  BY <1>3 DEF MarkGlobalRoot, H!Next, H!HandshakeCollector
<1>4. ASSUME HandshakeStep PROVE H!Next
  BY <1>4 DEF HandshakeStep, H!Next, H!Collector
<1>5. StageClear => H!Next
  BY DEF StageClear, H!Next
<1>6. TraceDone => H!Next
  BY DEF TraceDone, H!Next, H!Collector, H!stageSteps
<1>7. CollectorSweep => H!Next
  BY DEF CollectorSweep, H!Next, H!Collector
<1>8. ASSUME NEW m \in Mutators,
             \/ \E o \in Places : Allocate(m, o)
             \/ Pop(m)
             \/ \E o, p \in Places : Link(m, o, p) \/ Unlink(m, o, p)
             \/ MarkGray(m) \/ TraceBuffer(m) \/ TraceBeyondBuffer(m)
      PROVE  UNCHANGED handshakeVars
  BY <1>8 DEF Allocate, Pop, Link, Unlink, MarkGray, TraceBuffer, TraceBeyondBuffer
<1>9. EmptyMarkBuffer => UNCHANGED handshakeVars
  BY DEF EmptyMarkBuffer
<1>10. ~SweepThrows
  BY DEF SweepThrows
<1> QED
  BY <1>1, <1>2, <1>3, <1>4, <1>5, <1>6, <1>7, <1>8, <1>9, <1>10 DEF Next, Collector

-----------------------------------------------------------------------------
(***************************************************************************)
(* The invariant in two parts, and the initial states.                     *)
(***************************************************************************)
Typed == GraphTyped /\ BuffersTyped /\ BlueIsUnallocated

Marks ==
    /\ clearColor = markColor <=> pc = "toggleMark"
    /\ UnreadInUse /\ ReadInTrace /\ RootsQueued /\ GrayBetween /\ SweptColors

LEMMA Parts == CollectInv <=> Typed /\ (pc # "crashed" => H!SerialInv /\ Marks)
  BY DEF CollectInv, Typed, Marks

LEMMA PartsNext == Typed' /\ (pc' # "crashed" => H!SerialInv' /\ Marks') => CollectInv'
  BY DEF CollectInv, Typed, Marks

LEMMA InitCollectInv == Init => CollectInv
<1> SUFFICES ASSUME Init PROVE CollectInv
  OBVIOUS
<1>1. H!SerialInv
  <2>1. HP!Init
    BY DEF Init, H!Init, HP!Init
  <2> QED
    BY <2>1, HP!InitSerialInv, SameInv, SameCardinality, SparkGCAssumption
<1>2. pc = "resting" /\ clearColor # markColor /\ mPc = [m \in Mutators |-> "run"]
  BY DEF Init, H!Init
<1>3. GraphTyped
  BY DEF Init, GraphTyped
<1>4. BuffersTyped
  BY <1>2, SparkGCAssumption DEF Init, BuffersTyped
<1>5. BlueIsUnallocated
  BY DEF Init, BlueIsUnallocated
<1>6. Marks
  BY <1>2 DEF Init, Marks, UnreadInUse, ReadInTrace, RootsQueued, GrayBetween, SweptColors,
     collecting, beforeTrace
<1> QED
  BY <1>1, <1>3, <1>4, <1>5, <1>6, Parts DEF Typed

-----------------------------------------------------------------------------
(***************************************************************************)
(* The mutator between collections: nothing is being marked.               *)
(***************************************************************************)
LEMMA AllocateStep ==
    ASSUME Typed, Marks, H!SerialInv, NEW m \in Mutators, NEW o \in Places, Allocate(m, o)
    PROVE  Typed' /\ Marks'
<1>1. /\ pc = "resting" /\ UNCHANGED handshakeVars /\ UNCHANGED <<bufferVars, traceVars, grayed>>
      /\ o \notin objects /\ objects' = objects \cup {o}
      /\ color' = [color EXCEPT ![o] = mColor[m]] /\ mColor[m] \in H!MarkColors
      /\ slots' = [p \in DOMAIN slots \cup {o} |-> IF p = o THEN {} ELSE slots[p]]
      /\ DOMAIN slots' = DOMAIN slots \cup {o}
      /\ stack' = [stack EXCEPT ![m] = <<o>> \o @] /\ Len(stack[m]) < MaxStack
  BY ControlTyped DEF Allocate, running
<1>2. GraphTyped'
  BY <1>1 DEF Typed, GraphTyped, traceVars
<1>3. BuffersTyped'
  <2>1. \A s \in Seq(DOMAIN slots) : s \in Seq(DOMAIN slots')
    BY <1>1
  <2>2. stack' \in [Mutators -> Seq(DOMAIN slots')]
    <3>1. <<o>> \o stack[m] \in Seq(DOMAIN slots')
      BY <1>1, <2>1 DEF Typed, BuffersTyped
    <3> QED
      BY <1>1, <2>1, <3>1 DEF Typed, BuffersTyped
  <2>3. Len(stack'[m]) = Len(stack[m]) + 1
    BY <1>1 DEF Typed, BuffersTyped
  <2>4. \A n \in Mutators : Len(stack'[n]) <= MaxStack /\ marking[n] <= Len(stack'[n])
    <3> TAKE n \in Mutators
    <3>1. CASE n = m
      BY <3>1, <1>1, <2>3, SparkGCAssumption DEF Typed, BuffersTyped
    <3>2. CASE n # m
      BY <3>2, <1>1 DEF Typed, BuffersTyped
    <3> QED
      BY <3>1, <3>2
  <2> QED
    BY <1>1, <2>1, <2>2, <2>4 DEF Typed, BuffersTyped, bufferVars, traceVars, handshakeVars, controlVars
<1>4. BlueIsUnallocated'
  BY <1>1 DEF Typed, BlueIsUnallocated, GraphTyped, H!MarkColors, traceVars
<1>5. Marks'
  BY <1>1 DEF Marks, UnreadInUse, ReadInTrace, RootsQueued, GrayBetween, SweptColors, collecting,
     beforeTrace, bufferVars, traceVars, handshakeVars, controlVars
<1> QED
  BY <1>2, <1>3, <1>4, <1>5 DEF Typed

LEMMA PopStep ==
    ASSUME Typed, Marks, H!SerialInv, NEW m \in Mutators, Pop(m)
    PROVE  Typed' /\ Marks'
<1>1. /\ pc = "resting" /\ UNCHANGED <<handshakeVars, heapVars, bufferVars, traceVars, grayed>>
      /\ stack[m] # << >> /\ stack' = [stack EXCEPT ![m] = Tail(@)] /\ mPc[m] = "run"
  BY DEF Pop, running
<1>2. BuffersTyped'
  <2>1. /\ stack[m] \in Seq(DOMAIN slots) /\ stack[m] # << >>
        /\ Len(stack[m]) <= MaxStack /\ marking[m] = 0
    BY <1>1 DEF Typed, BuffersTyped
  <2>3. /\ Tail(stack[m]) \in Seq(DOMAIN slots) /\ Len(Tail(stack[m])) = Len(stack[m]) - 1
        /\ Len(stack[m]) \in Nat /\ Len(Tail(stack[m])) \in Nat
    <3>1. ASSUME NEW S, NEW q \in Seq(S), q # << >>
          PROVE  Tail(q) \in Seq(S) /\ Len(Tail(q)) = Len(q) - 1 /\ Len(q) \in Nat
      BY <3>1
    <3>2. Len(Tail(stack[m])) \in Nat
      BY <2>1, <3>1
    <3> QED
      BY <2>1, <3>1, <3>2
  <2>2. \A n \in Mutators : Len(stack'[n]) <= MaxStack /\ marking[n] <= Len(stack'[n])
    <3> TAKE n \in Mutators
    <3>1. CASE n = m
      <4>1. stack'[n] = Tail(stack[m]) /\ marking[n] = 0
        BY <3>1, <1>1, <2>1 DEF Typed, BuffersTyped
      <4> QED
        BY <4>1, <2>1, <2>3, SparkGCAssumption
    <3>2. CASE n # m
      BY <3>2, <1>1 DEF Typed, BuffersTyped
    <3> QED
      BY <3>1, <3>2
  <2> QED
    BY <1>1, <2>3, <2>2 DEF Typed, BuffersTyped, bufferVars, traceVars, handshakeVars, controlVars,
       heapVars
<1>3. GraphTyped' /\ BlueIsUnallocated'
  BY <1>1 DEF Typed, GraphTyped, BlueIsUnallocated, heapVars, traceVars
<1>4. Marks'
  BY <1>1 DEF Marks, UnreadInUse, ReadInTrace, RootsQueued, GrayBetween, SweptColors, collecting,
     beforeTrace, base, isClear, bufferVars, traceVars, handshakeVars, controlVars, heapVars
<1> QED
  BY <1>2, <1>3, <1>4 DEF Typed

LEMMA LinkStep ==
    ASSUME Typed, Marks, H!SerialInv, NEW m \in Mutators, NEW o \in Places, NEW p \in Places,
           Link(m, o, p) \/ Unlink(m, o, p)
    PROVE  Typed' /\ Marks'
<1>1. /\ pc = "resting" /\ UNCHANGED <<handshakeVars, objects, color, rootVars, traceVars, grayed>>
      /\ \/ slots' = [slots EXCEPT ![o] = @ \cup {p}] /\ p \in objects
         \/ slots' = [slots EXCEPT ![o] = @ \ {p}]
      /\ DOMAIN slots' = DOMAIN slots
  BY DEF Link, Unlink, running
<1>2. GraphTyped'
  BY <1>1 DEF Typed, GraphTyped, traceVars
<1>3. BuffersTyped'
  BY <1>1 DEF Typed, BuffersTyped, rootVars, bufferVars, traceVars, handshakeVars, controlVars
<1>4. BlueIsUnallocated'
  BY <1>1 DEF Typed, BlueIsUnallocated, traceVars
<1>5. Marks'
  BY <1>1 DEF Marks, UnreadInUse, ReadInTrace, RootsQueued, GrayBetween, SweptColors, collecting,
     beforeTrace, base, isClear, rootVars, bufferVars, traceVars, handshakeVars, controlVars
<1> QED
  BY <1>2, <1>3, <1>4, <1>5 DEF Typed

-----------------------------------------------------------------------------
(***************************************************************************)
(* Steps that change where the collector and the mutator are, and nothing  *)
(* in the heap.                                                            *)
(***************************************************************************)
LEMMA MutatorStepStep ==
    ASSUME Typed, Marks, H!SerialInv, NEW m \in Mutators, MutatorStep(m)
    PROVE  Typed' /\ Marks'
<1>1. UNCHANGED <<pc, clearColor, markColor, heapVars, rootVars, traceVars, grayed>>
  BY DEF MutatorStep, H!RegisterMutator, H!UnregisterMutator, H!LoadState, H!SetAllocationColor,
     H!StoreState, H!collectorVars
<1>2. UNCHANGED registered \/ pc = "resting"
  BY DEF MutatorStep, H!RegisterMutator, H!UnregisterMutator, H!LoadState, H!SetAllocationColor,
     H!StoreState
<1>3. \A n \in Mutators : mPc'[n] # "root" => mPc[n] # "root" \/ marking[n] = 0
  <2>1. \/ UNCHANGED mPc
        \/ mPc[m] # "root" /\ \E at : mPc' = [mPc EXCEPT ![m] = at]
    BY DEF MutatorStep, H!RegisterMutator, H!UnregisterMutator, H!LoadState,
       H!SetAllocationColor, H!StoreState, H!mutatorVars
  <2> QED
    BY <2>1, ControlTyped
<1>4. GraphTyped' /\ BlueIsUnallocated'
  BY <1>1 DEF Typed, GraphTyped, BlueIsUnallocated, heapVars, traceVars
<1>5. BuffersTyped'
  BY <1>1, <1>3 DEF Typed, BuffersTyped, heapVars, rootVars, bufferVars, traceVars
<1>6. Marks'
  BY <1>1, <1>2 DEF Marks, UnreadInUse, ReadInTrace, RootsQueued, GrayBetween, SweptColors,
     collecting, beforeTrace, base, isClear, heapVars, rootVars, bufferVars, traceVars
<1> QED
  BY <1>4, <1>5, <1>6 DEF Typed

LEMMA MarkGlobalRootStep ==
    ASSUME Typed, Marks, H!SerialInv, NEW m \in Mutators, MarkGlobalRoot(m)
    PROVE  Typed' /\ Marks'
<1>1. /\ UNCHANGED <<pc, registered, clearColor, markColor, heapVars, stack, markBuffer,
                     lastWrite, traceVars, grayed>>
      /\ marking' = [marking EXCEPT ![m] = 0]
      /\ mPc' = [mPc EXCEPT ![m] = "color"]
  BY DEF MarkGlobalRoot, H!MarkGlobalRoot, H!collectorVars
<1>2. GraphTyped' /\ BlueIsUnallocated'
  BY <1>1 DEF Typed, GraphTyped, BlueIsUnallocated, heapVars, traceVars
<1>3. BuffersTyped'
  <2>1. \A n \in Mutators : marking'[n] <= Len(stack'[n]) /\ (mPc'[n] # "root" => marking'[n] = 0)
    BY <1>1, ControlTyped DEF Typed, BuffersTyped
  <2> QED
    BY <1>1, <2>1 DEF Typed, BuffersTyped, heapVars, traceVars
<1>4. Marks'
  BY <1>1 DEF Marks, UnreadInUse, ReadInTrace, RootsQueued, GrayBetween, SweptColors,
     collecting, beforeTrace, base, isClear, heapVars, traceVars
<1> QED
  BY <1>2, <1>3, <1>4 DEF Typed

LEMMA StageClearStep ==
    ASSUME Typed, Marks, H!SerialInv, StageClear
    PROVE  Typed' /\ Marks'
<1>1. /\ pc = "resting" /\ pc' = "postSync1"
      /\ UNCHANGED <<registered, clearColor, markColor, mPc, heapVars, rootVars, lastRead, stray>>
      /\ gray' = {} /\ traced' = {} /\ grayed' = [m \in Mutators |-> << >>]
  BY DEF StageClear, H!StageClear
<1>2. GraphTyped' /\ BlueIsUnallocated'
  BY <1>1 DEF Typed, GraphTyped, BlueIsUnallocated, heapVars
<1>3. BuffersTyped'
  BY <1>1 DEF Typed, BuffersTyped, heapVars, rootVars, bufferVars
<1>4. RootsQueued'
  <2> SUFFICES ASSUME NEW m \in Mutators
               PROVE  /\ grayed'[m] = << >> /\ base(m)' = lastRead'[m]
                      /\ lastRead'[m] \in Nat
    BY DEF RootsQueued
  <2> QED
    BY <1>1 DEF Typed, BuffersTyped, Marks, ReadInTrace, base, rootVars, bufferVars
<1>5. Marks'
  BY <1>1, <1>4 DEF Marks, UnreadInUse, ReadInTrace, GrayBetween, SweptColors,
     heapVars, rootVars, bufferVars
<1> QED
  BY <1>2, <1>3, <1>5 DEF Typed

\* The places of the collector's other steps.
successors ==
    {<<"postSync1", "waitSync1">>, <<"waitSync1", "postSync2">>, <<"postSync2", "waitSync2">>,
     <<"waitSync2", "startTracing">>, <<"startTracing", "postAsync">>,
     <<"postAsync", "waitAsync">>, <<"waitAsync", "trace">>, <<"startSweep", "sweep">>,
     <<"toggle", "toggleMark">>, <<"toggleMark", "rest">>, <<"rest", "resting">>}

LEMMA HandshakeStepStep ==
    ASSUME Typed, Marks, H!SerialInv, HandshakeStep
    PROVE  Typed' /\ Marks'
<1>1. /\ UNCHANGED <<registered, mPc, heapVars, rootVars, traceVars, grayed>>
      /\ (UNCHANGED pc /\ pc \in H!waiting) \/ <<pc, pc'>> \in successors
      /\ CASE pc = "toggle" -> clearColor' = markColor /\ UNCHANGED markColor
           [] pc = "toggleMark" -> markColor' = H!opposite(markColor) /\ UNCHANGED clearColor
           [] OTHER -> UNCHANGED <<clearColor, markColor>>
  BY DEF HandshakeStep, H!posts, H!PostHandshake, H!CheckMutator, H!waits, H!EndPass,
     H!stageSteps, H!PostState, H!ToggleClear, H!ToggleMark, H!mutatorVars, H!waiting,
     successors
<1>2. GraphTyped' /\ BlueIsUnallocated'
  BY <1>1 DEF Typed, GraphTyped, BlueIsUnallocated, heapVars, traceVars
<1>3. BuffersTyped'
  BY <1>1 DEF Typed, BuffersTyped, heapVars, rootVars, bufferVars, traceVars
<1>4. clearColor' = markColor' <=> pc' = "toggleMark"
  <2>1. H!opposite(markColor) # markColor
    <3>1. \E d \in H!MarkColors : d # markColor
      BY DEF H!MarkColors
    <3> QED
      BY <3>1 DEF H!opposite
  <2> QED
    BY <1>1, <2>1 DEF Marks, successors, H!waiting
<1>5. UnreadInUse' /\ ReadInTrace'
  BY <1>1 DEF Marks, UnreadInUse, ReadInTrace, heapVars, rootVars, bufferVars, traceVars,
     successors
<1>6. RootsQueued' /\ GrayBetween'
  BY <1>1 DEF Marks, RootsQueued, GrayBetween, collecting, beforeTrace, base, isClear,
     heapVars, rootVars, bufferVars, traceVars, successors
<1>7. SweptColors'
  BY <1>1 DEF Marks, SweptColors, isClear, heapVars, successors
<1> QED
  BY <1>2, <1>3, <1>4, <1>5, <1>6, <1>7 DEF Typed, Marks

LEMMA TraceDoneStep ==
    ASSUME Typed, Marks, H!SerialInv, TraceDone
    PROVE  Typed' /\ Marks'
<1>1. /\ pc = "trace" /\ pc' = "startSweep" /\ gray = {}
      /\ \A m \in registered : ~unread(m)
      /\ UNCHANGED <<registered, clearColor, markColor, mPc, heapVars, rootVars, traceVars, grayed>>
  BY DEF TraceDone, H!PostState, H!mutatorVars
<1>2. GraphTyped' /\ BlueIsUnallocated'
  BY <1>1 DEF Typed, GraphTyped, BlueIsUnallocated, heapVars, traceVars
<1>3. BuffersTyped'
  BY <1>1 DEF Typed, BuffersTyped, heapVars, rootVars, bufferVars, traceVars
<1>4. \A m \in Mutators : lastRead[m] = lastWrite[m]
  BY <1>1 DEF Typed, BuffersTyped, Marks, ReadInTrace, unread
<1>5. Marks'
  BY <1>1, <1>4 DEF Marks, UnreadInUse, ReadInTrace, RootsQueued, GrayBetween, SweptColors,
     collecting, beforeTrace, base, isClear, heapVars, rootVars, bufferVars, traceVars
<1> QED
  BY <1>2, <1>3, <1>5 DEF Typed

-----------------------------------------------------------------------------
(***************************************************************************)
(* Root marking: a root that is clear is an object, and becomes the last   *)
(* entry of the buffer and of the roots of this collection.                *)
(***************************************************************************)
LEMMA ClearInUse ==
    ASSUME Typed, H!SerialInv, NEW o \in DOMAIN slots, isClear(o)
    PROVE  o \in objects \cup stray
  BY ControlTyped DEF Typed, GraphTyped, BlueIsUnallocated, isClear, H!MarkColors

LEMMA PlaceInBuffer ==
    ASSUME NEW start \in Nat, NEW length \in Nat, NEW end \in Nat, start = end - length
    PROVE  \A i \in 1..length : start + i \in 1..end
  OBVIOUS

LEMMA NextPlace ==
    ASSUME NEW length \in Nat, NEW end \in Nat
    PROVE  (end - length) + (length + 1) = end + 1
  OBVIOUS

LEMMA MarkGrayStep ==
    ASSUME Typed, Marks, H!SerialInv, NEW m \in Mutators, MarkGray(m)
    PROVE  Typed' /\ Marks'
<1> DEFINE o == stack[m][marking[m] + 1]
           k == Len(markBuffer[m])
<1>1. /\ UNCHANGED <<handshakeVars, heapVars, stack, traceVars>>
      /\ UNCHANGED <<pc, registered, clearColor, markColor, mPc>>
      /\ mPc[m] = "root" /\ marking[m] < Len(stack[m])
      /\ marking' = [marking EXCEPT ![m] = @ + 1]
  BY DEF MarkGray, handshakeVars, controlVars
<1>2. m \in registered /\ pc = "waitAsync"
  BY <1>1, RootsInLastWait
<1>3. /\ o \in DOMAIN slots /\ markBuffer[m] \in Seq(DOMAIN slots) /\ k \in Nat
      /\ grayed[m] \in Seq(DOMAIN slots) /\ Len(grayed[m]) \in Nat
      /\ marking[m] \in Nat /\ lastWrite[m] = k /\ lastRead[m] \in Nat
  BY <1>1 DEF Typed, BuffersTyped
<1>4. GraphTyped' /\ BlueIsUnallocated'
  BY <1>1 DEF Typed, GraphTyped, BlueIsUnallocated, heapVars, traceVars
<1>5. \A n \in Mutators : /\ marking'[n] \in Nat /\ marking'[n] <= Len(stack'[n])
                          /\ mPc'[n] # "root" => marking'[n] = 0
  BY <1>1, <1>3 DEF Typed, BuffersTyped
<1>6. CASE ~isClear(o)
  <2>1. UNCHANGED <<markBuffer, lastWrite, grayed>>
    BY <1>6 DEF MarkGray
  <2>2. BuffersTyped'
    BY <1>1, <1>5, <2>1 DEF Typed, BuffersTyped, heapVars, traceVars
  <2>3. Marks'
    BY <1>1, <2>1 DEF Marks, UnreadInUse, ReadInTrace, RootsQueued, GrayBetween, SweptColors,
       collecting, beforeTrace, base, isClear, heapVars, traceVars
  <2> QED
    BY <1>4, <2>2, <2>3 DEF Typed
<1>7. CASE isClear(o)
  <2>1. /\ markBuffer' = [markBuffer EXCEPT ![m] = Append(@, o)]
        /\ lastWrite' = [lastWrite EXCEPT ![m] = k + 1]
        /\ grayed' = [grayed EXCEPT ![m] = Append(@, o)]
    BY <1>7, <1>3 DEF MarkGray, Typed, BuffersTyped
  <2>2. /\ \A n \in Mutators \ {m} : /\ markBuffer'[n] = markBuffer[n]
                                     /\ lastWrite'[n] = lastWrite[n]
                                     /\ grayed'[n] = grayed[n]
        /\ markBuffer'[m] = Append(markBuffer[m], o) /\ lastWrite'[m] = k + 1
        /\ grayed'[m] = Append(grayed[m], o)
    BY <2>1 DEF Typed, BuffersTyped
  <2>3. /\ markBuffer'[m] \in Seq(DOMAIN slots) /\ Len(markBuffer'[m]) = k + 1
        /\ \A i \in 1..k : markBuffer'[m][i] = markBuffer[m][i]
        /\ markBuffer'[m][k + 1] = o
    BY <1>3, <2>2
  <2>4. /\ grayed'[m] \in Seq(DOMAIN slots) /\ Len(grayed'[m]) = Len(grayed[m]) + 1
        /\ \A i \in 1..Len(grayed[m]) : grayed'[m][i] = grayed[m][i]
        /\ grayed'[m][Len(grayed[m]) + 1] = o
    BY <1>3, <2>2
  <2>5. BuffersTyped'
    <3>1. /\ markBuffer' \in [Mutators -> Seq(DOMAIN slots)]
          /\ grayed' \in [Mutators -> Seq(DOMAIN slots)]
          /\ lastWrite' \in [Mutators -> Nat]
      BY <2>1, <2>3, <2>4, <2>2, <1>3 DEF Typed, BuffersTyped
    <3>2. ASSUME NEW n \in Mutators
          PROVE  lastRead[n] <= lastWrite'[n] /\ lastWrite'[n] = Len(markBuffer'[n])
      <4>1. lastRead[n] <= lastWrite[n] /\ lastWrite[n] = Len(markBuffer[n])
        BY DEF Typed, BuffersTyped
      <4>2. CASE n = m
        BY <4>1, <4>2, <2>2, <2>3, <1>3
      <4>3. CASE n # m
        BY <4>1, <4>3, <2>2
      <4> QED
        BY <4>2, <4>3
    <3> QED
      BY <1>1, <1>5, <3>1, <3>2 DEF Typed, BuffersTyped, heapVars, traceVars
  <2>6. o \in objects \cup stray
    BY <1>3, <1>7, ClearInUse
  <2>7. UnreadInUse'
    <3> SUFFICES ASSUME NEW n \in Mutators, NEW i \in (lastRead[n] + 1)..Len(markBuffer'[n])
                 PROVE  markBuffer'[n][i] \in objects \cup stray
      BY <1>1 DEF UnreadInUse, heapVars, traceVars
    <3>1. CASE n # m
      BY <3>1, <2>2 DEF Marks, UnreadInUse
    <3>2. CASE n = m /\ i = k + 1
      BY <3>2, <2>3, <2>6
    <3>3. CASE n = m /\ i # k + 1
      <4>1. i \in (lastRead[m] + 1)..k /\ i \in 1..k
        BY <3>3, <2>3, <1>3
      <4> QED
        BY <4>1, <3>3, <2>3 DEF Marks, UnreadInUse
    <3> QED
      BY <3>1, <3>2, <3>3
  <2>8. ReadInTrace'
    BY <1>1, <1>2, <2>2 DEF Marks, ReadInTrace, heapVars, traceVars
  <2>9. RootsQueued'
    <3>0. /\ k \in Nat /\ Len(grayed[m]) \in Nat /\ base(m) \in Nat
          /\ base(m) = k - Len(grayed[m]) /\ base(m)' = base(m)
      <4>1. base(m) = lastRead[m] /\ lastRead[m] \in Nat
        BY <1>2, <1>3 DEF Marks, RootsQueued, collecting, beforeTrace
      <4>2. base(m) = k - Len(grayed[m]) /\ base(m)' = (k + 1) - (Len(grayed[m]) + 1)
        BY <2>2, <2>4, <1>3 DEF base
      <4>3. (k + 1) - (Len(grayed[m]) + 1) = k - Len(grayed[m])
        BY <1>3
      <4> QED
        BY <1>3, <4>1, <4>2, <4>3
    <3>1. ASSUME NEW n \in Mutators
          PROVE  base(n)' = base(n) /\ base(n) = lastRead[n]
      <4>1. base(n) = lastRead[n]
        BY <1>2 DEF Marks, RootsQueued, collecting, beforeTrace
      <4>2. n # m => base(n)' = base(n)
        BY <2>2 DEF base
      <4> QED
        BY <4>1, <4>2, <3>0
    <3> SUFFICES ASSUME NEW n \in Mutators
                 PROVE  /\ 0 <= base(n)' /\ base(n)' <= lastRead'[n]
                        /\ lastRead'[n] = base(n)'
                        /\ \A i \in 1..Len(grayed'[n]) :
                             /\ markBuffer'[n][base(n)' + i] = grayed'[n][i]
                             /\ color'[grayed'[n][i]] = clearColor' \/ grayed'[n][i] \in traced'
                             /\ 2 <= i /\ base(n)' + i <= lastRead'[n] + 1
                                  => grayed'[n][i] \in traced'
      BY DEF RootsQueued, isClear
    <3>2. lastRead'[n] = lastRead[n] /\ lastRead[n] \in Nat
      BY <1>1 DEF traceVars, Typed, BuffersTyped
    <3>3. ASSUME NEW i \in 1..Len(grayed'[n])
          PROVE  /\ markBuffer'[n][base(n) + i] = grayed'[n][i]
                 /\ isClear(grayed'[n][i]) \/ grayed'[n][i] \in traced
      <4>1. CASE n # m
        BY <4>1, <3>3, <2>2, <1>2 DEF Marks, RootsQueued, collecting, beforeTrace
      <4>2. CASE n = m /\ i # Len(grayed[m]) + 1
        <5>1. i \in 1..Len(grayed[m])
          BY <4>2, <2>4, <1>3
        <5>2. base(m) + i \in 1..k
          BY <5>1, <3>0, PlaceInBuffer
        <5> QED
          BY <5>1, <5>2, <4>2, <2>3, <2>4, <1>2 DEF Marks, RootsQueued, collecting, beforeTrace
      <4>3. CASE n = m /\ i = Len(grayed[m]) + 1
        <5>0. (k - Len(grayed[m])) + (Len(grayed[m]) + 1) = k + 1
          BY <1>3, NextPlace, Zenon
        <5>1. base(m) + (Len(grayed[m]) + 1) = k + 1
          BY <5>0, <3>0
        <5>2. markBuffer'[m][base(m) + i] = o /\ grayed'[m][i] = o
          BY <5>1, <4>3, <2>3, <2>4
        <5> QED
          BY <5>2, <4>3, <1>7
      <4> QED
        BY <4>1, <4>2, <4>3
    <3>4. ASSUME NEW i \in 1..Len(grayed'[n]) PROVE ~(2 <= i /\ base(n) + i <= lastRead[n] + 1)
      BY <3>1, <3>2
    <3> QED
      BY <3>1, <3>2, <3>3, <3>4, <1>1 DEF isClear, heapVars, traceVars
  <2>10. GrayBetween' /\ SweptColors'
    BY <1>1 DEF Marks, GrayBetween, SweptColors, isClear, collecting, beforeTrace, heapVars,
       traceVars
  <2> QED
    BY <1>1, <1>4, <2>5, <2>7, <2>8, <2>9, <2>10 DEF Typed, Marks
<1> QED
  BY <1>6, <1>7

-----------------------------------------------------------------------------
(***************************************************************************)
(* The trace.  Marking an object keeps every clear child of what is marked *)
(* in gray: the object's own clear children are added.                     *)
(***************************************************************************)
LEMMA MarkBlackStep ==
    ASSUME Typed, Marks, H!SerialInv, pc = "trace", NEW o \in DOMAIN slots, NEW others,
           others \subseteq gray, gray \subseteq others \cup {o}, CollectorMarkBlack(o, others),
           UNCHANGED <<pc, clearColor, markColor, objects, slots>>,
           stray \subseteq stray', stray' \subseteq DOMAIN slots, o \in objects \cup stray'
    PROVE  /\ GraphTyped' /\ BlueIsUnallocated' /\ GrayBetween'
           /\ gray' \subseteq objects \cup stray' /\ traced \subseteq traced'
           /\ \A p \in DOMAIN slots : isClear(p) => isClear(p)' \/ p \in traced'
           /\ isClear(o) => o \in traced'
<1>1. /\ o \in Places /\ clearColor # markColor
      /\ clearColor \in H!MarkColors /\ markColor \in H!MarkColors
      /\ slots[o] \subseteq DOMAIN slots
  BY ControlTyped DEF Typed, GraphTyped, Marks
<1>2. CASE color[o] = markColor
  <2>1. gray' = others /\ UNCHANGED <<color, traced>>
    BY <1>2 DEF CollectorMarkBlack
  <2>2. GraphTyped' /\ BlueIsUnallocated'
    BY <2>1 DEF Typed, GraphTyped, BlueIsUnallocated
  <2>3. ~isClear(o)
    BY <1>1, <1>2 DEF isClear
  <2>4. GrayBetween'
    BY <2>1, <2>3 DEF Marks, GrayBetween, isClear, collecting, beforeTrace
  <2>5. gray' \subseteq objects \cup stray'
    BY <2>1 DEF Marks, ReadInTrace
  <2> QED
    BY <2>1, <2>2, <2>3, <2>4, <2>5 DEF isClear
<1>3. CASE color[o] # markColor
  <2>1. /\ gray' = others \cup grayChildren(o) /\ traced' = traced \cup {o}
        /\ color' = [color EXCEPT ![o] = markColor]
    BY <1>3 DEF CollectorMarkBlack
  <2>2. color' \in [Places -> {"BLUE"} \cup H!MarkColors] /\ color'[o] = markColor
        /\ \A p \in Places : p # o => color'[p] = color[p]
    BY <1>1, <2>1 DEF Typed, GraphTyped
  <2>3. GraphTyped'
    BY <1>1, <2>1, <2>2 DEF Typed, GraphTyped, grayChildren
  <2>4. BlueIsUnallocated'
    BY <1>1, <2>2 DEF Typed, BlueIsUnallocated, H!MarkColors
  <2>5. \A p \in DOMAIN slots : /\ isClear(p)' => isClear(p) /\ p # o
                                /\ isClear(p) /\ p # o => isClear(p)'
    BY <1>1, <2>2 DEF isClear, Typed, GraphTyped
  <2>6. \A p \in grayChildren(o) : p \in objects \cup stray
    BY <1>1, ClearInUse DEF grayChildren
  <2>7. GrayBetween'
    <3> SUFFICES ASSUME NEW t \in traced', NEW p \in slots[t], pc \in collecting
                 PROVE  color'[t] = markColor /\ (isClear(p)' => p \in gray')
      <4>1. ASSUME NEW t \in traced', slots[t] = {} PROVE color'[t] = markColor
        BY <4>1, <1>1, <2>1, <2>2 DEF Typed, GraphTyped, Marks, GrayBetween, collecting
      <4> QED
        BY <4>1 DEF GrayBetween, collecting, beforeTrace
    <3>1. t \in DOMAIN slots /\ p \in DOMAIN slots
      BY <2>1 DEF Typed, GraphTyped
    <3>2. CASE t = o
      BY <3>1, <3>2, <2>1, <2>2, <2>5 DEF grayChildren
    <3>3. CASE t # o
      <4>1. t \in traced /\ color[t] = markColor /\ (isClear(p) => p \in gray)
        BY <3>3, <2>1 DEF Marks, GrayBetween
      <4>2. color'[t] = markColor
        BY <3>1, <3>3, <4>1, <2>2 DEF Typed, GraphTyped
      <4>3. isClear(p)' => p \in gray'
        BY <3>1, <4>1, <2>1, <2>5
      <4> QED
        BY <4>2, <4>3
    <3> QED
      BY <3>2, <3>3
  <2>8. gray' \subseteq objects \cup stray'
    BY <2>1, <2>6 DEF Marks, ReadInTrace
  <2> QED
    BY <2>1, <2>3, <2>4, <2>5, <2>7, <2>8
<1> QED
  BY <1>2, <1>3

LEMMA TraceBufferStep ==
    ASSUME Typed, Marks, H!SerialInv, NEW m \in Mutators,
           \/ TraceBuffer(m)
           \/ TraceBeyondBuffer(m) /\ pc' # "crashed"
    PROVE  Typed' /\ Marks'
<1>1. /\ pc = "trace" /\ gray = {} /\ m \in registered /\ unread(m)
      /\ lastRead' = [lastRead EXCEPT ![m] = @ + 1]
      /\ UNCHANGED <<handshakeVars, objects, slots, rootVars, grayed>>
      /\ UNCHANGED <<pc, registered, clearColor, markColor, mPc>>
  BY DEF TraceBuffer, TraceBeyondBuffer, handshakeVars, controlVars
<1>2. /\ lastRead[m] \in Nat /\ lastWrite[m] \in Nat /\ lastWrite[m] = Len(markBuffer[m])
      /\ markBuffer[m] \in Seq(DOMAIN slots) /\ lastRead[m] < lastWrite[m]
      /\ lastRead'[m] = lastRead[m] + 1
      /\ \A n \in Mutators \ {m} : lastRead'[n] = lastRead[n]
  BY <1>1 DEF Typed, BuffersTyped, unread
<1>2a. \A n \in Mutators : /\ lastRead[n] \in Nat /\ lastRead'[n] \in Nat
                           /\ lastRead[n] <= lastRead'[n] /\ lastRead'[n] <= lastWrite[n]
  <2> TAKE n \in Mutators
  <2>1. lastRead[n] \in Nat /\ lastWrite[n] \in Nat /\ lastRead[n] <= lastWrite[n]
    BY DEF Typed, BuffersTyped
  <2>2. CASE n = m
    BY <2>1, <2>2, <1>2
  <2>3. CASE n # m
    BY <2>1, <2>3, <1>2
  <2> QED
    BY <2>2, <2>3
<1>3. PICK o \in DOMAIN slots :
        /\ CollectorMarkBlack(o, {})
        /\ stray \subseteq stray' /\ stray' \subseteq DOMAIN slots /\ o \in objects \cup stray'
        /\ readIndex(m) <= Len(markBuffer[m]) => o = markBuffer[m][readIndex(m)]
  <2>1. CASE TraceBuffer(m)
    <3>1. readIndex(m) \in (lastRead[m] + 1)..Len(markBuffer[m])
      BY <2>1, <1>2 DEF TraceBuffer, readIndex
    <3>2. markBuffer[m][readIndex(m)] \in DOMAIN slots
      BY <3>1, <1>2
    <3>3. markBuffer[m][readIndex(m)] \in objects \cup stray
      BY <3>1 DEF Marks, UnreadInUse
    <3> QED
      BY <2>1, <3>2, <3>3 DEF TraceBuffer, Typed, GraphTyped
  <2>2. CASE TraceBeyondBuffer(m) /\ pc' # "crashed"
    <3>1. readIndex(m) > Len(markBuffer[m]) /\ readIndex(m) \in Nat /\ Len(markBuffer[m]) \in Nat
      BY <2>2, <1>2 DEF TraceBeyondBuffer, readIndex
    <3>2. PICK o \in DOMAIN slots : CollectorMarkBlack(o, {}) /\ stray' = stray \cup {o}
      BY <2>2 DEF TraceBeyondBuffer
    <3> QED
      BY <3>1, <3>2 DEF Typed, GraphTyped
  <2> QED
    BY <2>1, <2>2
<1>4. /\ GraphTyped' /\ BlueIsUnallocated' /\ GrayBetween'
      /\ gray' \subseteq objects \cup stray' /\ traced \subseteq traced'
      /\ \A p \in DOMAIN slots : isClear(p) => isClear(p)' \/ p \in traced'
      /\ isClear(o) => o \in traced'
  BY <1>1, <1>3, MarkBlackStep
<1>5. BuffersTyped'
  <2>1. lastRead' \in [Mutators -> Nat]
    BY <1>1, <1>2 DEF Typed, BuffersTyped
  <2> QED
    BY <1>1, <1>2a, <2>1 DEF Typed, BuffersTyped, rootVars, bufferVars
<1>6. UnreadInUse'
  <2> SUFFICES ASSUME NEW n \in Mutators, NEW i \in (lastRead'[n] + 1)..Len(markBuffer[n])
               PROVE  markBuffer[n][i] \in objects \cup stray'
    BY <1>1 DEF UnreadInUse, rootVars, bufferVars
  <2>1. i \in (lastRead[n] + 1)..Len(markBuffer[n])
    <3>1. Len(markBuffer[n]) \in Nat
      BY DEF Typed, BuffersTyped
    <3> QED
      BY <3>1, <1>2a
  <2> QED
    BY <2>1, <1>3 DEF Marks, UnreadInUse
<1>7. ReadInTrace'
  BY <1>1, <1>2, <1>4 DEF Marks, ReadInTrace, rootVars, bufferVars
<1>8. RootsQueued'
  <2>1. \A n \in Mutators : base(n)' = base(n)
    BY <1>1 DEF base, rootVars, bufferVars
  <2> SUFFICES ASSUME NEW n \in Mutators
               PROVE  /\ 0 <= base(n) /\ base(n) <= lastRead'[n]
                      /\ \A i \in 1..Len(grayed[n]) :
                           /\ markBuffer[n][base(n) + i] = grayed[n][i]
                           /\ color'[grayed[n][i]] = clearColor \/ grayed[n][i] \in traced'
                           /\ 2 <= i /\ base(n) + i <= lastRead'[n] + 1
                                => grayed[n][i] \in traced'
    BY <2>1, <1>1 DEF RootsQueued, isClear, beforeTrace, rootVars, bufferVars
  <2>2. /\ 0 <= base(n) /\ base(n) <= lastRead[n]
        /\ \A i \in 1..Len(grayed[n]) :
             /\ markBuffer[n][base(n) + i] = grayed[n][i]
             /\ isClear(grayed[n][i]) \/ grayed[n][i] \in traced
             /\ 2 <= i /\ base(n) + i <= lastRead[n] + 1 => grayed[n][i] \in traced
    BY <1>1 DEF Marks, RootsQueued, collecting
  <2>3. \A i \in 1..Len(grayed[n]) : grayed[n][i] \in DOMAIN slots
    BY DEF Typed, BuffersTyped
  <2>4. /\ lastRead[n] \in Nat /\ lastWrite[n] \in Nat /\ Len(grayed[n]) \in Nat
        /\ base(n) = lastWrite[n] - Len(grayed[n]) /\ base(n) \in Int
    BY DEF Typed, BuffersTyped, base
  <2>5. base(n) <= lastRead'[n]
    BY <1>2a, <2>2, <2>4
  <2>6. ASSUME NEW i \in 1..Len(grayed[n]), 2 <= i, base(n) + i <= lastRead'[n] + 1
        PROVE  grayed[n][i] \in traced'
    <3>1. CASE base(n) + i <= lastRead[n] + 1
      BY <2>2, <2>6, <3>1, <1>4
    <3>2. CASE ~(base(n) + i <= lastRead[n] + 1)
      <4>1. n = m /\ base(n) + i = lastRead[n] + 2
        BY <1>2, <2>4, <2>6, <3>2
      <4>2. base(n) + i <= lastWrite[n]
        BY <2>4, <2>6
      <4>3. base(n) + i = readIndex(m) /\ readIndex(m) <= Len(markBuffer[m])
        BY <4>1, <4>2, <1>2 DEF readIndex
      <4>4. o = grayed[n][i]
        BY <4>1, <4>3, <2>2, <1>3
      <4> QED
        BY <4>4, <2>2, <2>6, <1>4
    <3> QED
      BY <3>1, <3>2
  <2> QED
    BY <2>2, <2>3, <2>5, <2>6, <1>1, <1>4 DEF isClear
<1>9. Marks'
  BY <1>1, <1>4, <1>6, <1>7, <1>8 DEF Marks, SweptColors
<1> QED
  BY <1>4, <1>5, <1>9 DEF Typed

LEMMA EmptyMarkBufferStep ==
    ASSUME Typed, Marks, H!SerialInv, EmptyMarkBuffer
    PROVE  Typed' /\ Marks'
<1>1. /\ pc = "trace"
      /\ UNCHANGED <<handshakeVars, objects, slots, rootVars, lastRead, stray, grayed>>
      /\ UNCHANGED <<pc, registered, clearColor, markColor, mPc>>
  BY DEF EmptyMarkBuffer, handshakeVars, controlVars
<1>2. PICK o \in gray : CollectorMarkBlack(o, gray \ {o})
  BY DEF EmptyMarkBuffer
<1>3. o \in DOMAIN slots /\ o \in objects \cup stray /\ stray' \subseteq DOMAIN slots
  BY <1>1 DEF Typed, GraphTyped, Marks, ReadInTrace
<1>4. /\ GraphTyped' /\ BlueIsUnallocated' /\ GrayBetween'
      /\ gray' \subseteq objects \cup stray' /\ traced \subseteq traced'
      /\ \A p \in DOMAIN slots : isClear(p) => isClear(p)' \/ p \in traced'
  BY <1>1, <1>2, <1>3, MarkBlackStep
<1>5. BuffersTyped'
  BY <1>1 DEF Typed, BuffersTyped, rootVars, bufferVars
<1>6. UnreadInUse' /\ ReadInTrace'
  BY <1>1, <1>4 DEF Marks, UnreadInUse, ReadInTrace, rootVars, bufferVars
<1>7. RootsQueued'
  <2>1. \A n \in Mutators : \A i \in 1..Len(grayed[n]) : grayed[n][i] \in DOMAIN slots
    BY DEF Typed, BuffersTyped
  <2> QED
    BY <2>1, <1>1, <1>4 DEF Marks, RootsQueued, isClear, base, collecting, beforeTrace, rootVars,
       bufferVars
<1>8. Marks'
  BY <1>1, <1>4, <1>6, <1>7 DEF Marks, SweptColors
<1> QED
  BY <1>4, <1>5, <1>8 DEF Typed

-----------------------------------------------------------------------------
(***************************************************************************)
(* The sweep leaves no clear object in what it scans.                      *)
(***************************************************************************)
LEMMA CollectorSweepStep ==
    ASSUME Typed, Marks, H!SerialInv, CollectorSweep
    PROVE  Typed' /\ Marks'
<1>1. /\ pc = "sweep" /\ pc' = "toggle"
      /\ UNCHANGED <<registered, clearColor, markColor, mPc, slots, rootVars, traceVars, grayed>>
      /\ color' = [o \in Places |-> IF o \in freed THEN "BLUE" ELSE color[o]]
      /\ objects' = objects \ freed
  BY DEF CollectorSweep, H!CollectorSweep, H!mutatorVars
<1>2. /\ clearColor # markColor /\ clearColor \in H!MarkColors /\ markColor \in H!MarkColors
      /\ objects \subseteq Places
  BY <1>1, ControlTyped DEF Marks, Typed, GraphTyped
<1>3. GraphTyped'
  BY <1>1 DEF Typed, GraphTyped, traceVars
<1>4. BuffersTyped'
  BY <1>1 DEF Typed, BuffersTyped, rootVars, bufferVars, traceVars
<1>5. BlueIsUnallocated'
  BY <1>1 DEF Typed, BlueIsUnallocated, traceVars
<1>6. \A m \in Mutators : lastRead[m] = Len(markBuffer[m]) /\ lastRead[m] \in Nat
  BY <1>1 DEF Marks, ReadInTrace, Typed, BuffersTyped
<1>7. UnreadInUse'
  BY <1>1, <1>6 DEF UnreadInUse, rootVars, bufferVars, traceVars
<1>8. ReadInTrace'
  BY <1>1 DEF Marks, ReadInTrace, rootVars, bufferVars, traceVars
<1>9. \A o \in objects' \cap scanned : color'[o] = markColor
  BY <1>1, <1>2 DEF freed, isClear, Typed, GraphTyped, BlueIsUnallocated, H!MarkColors
<1>10. Marks'
  BY <1>1, <1>2, <1>7, <1>8, <1>9 DEF Marks, RootsQueued, GrayBetween, SweptColors, collecting,
     beforeTrace, scanned, slice, eachMove, totalMove
<1> QED
  BY <1>3, <1>4, <1>5, <1>10 DEF Typed

LEMMA CrashStep ==
    ASSUME Typed, Marks, H!SerialInv, Next, pc' = "crashed"
    PROVE  Typed'
<1>1. \/ \E m \in Mutators : TraceBeyondBuffer(m)
      \/ SweepThrows
  <2>1. pc # "crashed"
    BY ControlTyped
  <2>2. ASSUME NEW m \in Mutators,
               \/ \E o \in Places : Allocate(m, o)
               \/ Pop(m)
               \/ \E o, p \in Places : Link(m, o, p) \/ Unlink(m, o, p)
               \/ MarkGray(m) \/ MarkGlobalRoot(m) \/ TraceBuffer(m)
        PROVE  UNCHANGED pc
    BY <2>2 DEF Allocate, Pop, Link, Unlink, MarkGray, MarkGlobalRoot, TraceBuffer,
       H!MarkGlobalRoot, H!collectorVars, handshakeVars
  <2>3. ASSUME NEW m \in Mutators, MutatorStep(m)
        PROVE  UNCHANGED pc
    BY <2>3 DEF MutatorStep, H!RegisterMutator, H!UnregisterMutator, H!LoadState,
       H!SetAllocationColor, H!StoreState, H!collectorVars
  <2>4. ~HandshakeStep
    BY <2>1 DEF HandshakeStep, H!PostHandshake, H!CheckMutator, H!EndPass, H!PostState,
       H!ToggleClear, H!ToggleMark, H!posts, H!waits, H!stageSteps
  <2>5. ~(StageClear \/ EmptyMarkBuffer \/ TraceDone \/ CollectorSweep)
    BY <2>1 DEF StageClear, H!StageClear, EmptyMarkBuffer, handshakeVars, TraceDone,
       H!PostState, CollectorSweep, H!CollectorSweep
  <2> QED
    BY <2>1, <2>2, <2>3, <2>4, <2>5 DEF Next, Collector
<1>2. CASE SweepThrows
  BY <1>2 DEF SweepThrows, Typed, GraphTyped, BuffersTyped, BlueIsUnallocated, controlVars,
     heapVars, rootVars, bufferVars, traceVars
<1>3. ASSUME NEW m \in Mutators, TraceBeyondBuffer(m)
      PROVE  Typed'
  <2>1. /\ UNCHANGED <<mPc, objects, color, slots, gray, traced, stray, grayed, rootVars>>
        /\ lastRead' = [lastRead EXCEPT ![m] = @ + 1] /\ unread(m)
    BY <1>3, ControlTyped DEF TraceBeyondBuffer, controlVars, handshakeVars
  <2>2. \A n \in Mutators : lastRead'[n] \in Nat /\ lastRead'[n] <= lastWrite[n]
    BY <2>1 DEF Typed, BuffersTyped, unread
  <2> QED
    BY <2>1, <2>2 DEF Typed, GraphTyped, BuffersTyped, BlueIsUnallocated, rootVars, bufferVars
<1> QED
  BY <1>1, <1>2, <1>3

-----------------------------------------------------------------------------
(***************************************************************************)
(* The invariant.                                                          *)
(***************************************************************************)
LEMMA CrashedStays ==
    ASSUME Next, pc = "crashed"
    PROVE  FALSE
  BY DEF Next, Collector, Allocate, Pop, Link, Unlink, running, MutatorStep, MarkGray,
     MarkGlobalRoot, StageClear, H!StageClear, HandshakeStep, H!PostHandshake, H!posts,
     H!CheckMutator, H!waits, H!EndPass, H!PostState, H!stageSteps, H!ToggleClear,
     H!ToggleMark, TraceBuffer, TraceBeyondBuffer, EmptyMarkBuffer, TraceDone,
     CollectorSweep, H!CollectorSweep, SweepThrows

LEMMA NextCollectInv ==
    ASSUME MaxRegistered <= 1, CollectInv, [Next]_vars
    PROVE  CollectInv'
<1>1. CASE UNCHANGED vars
  <2>1. UNCHANGED H!vars
    BY <1>1 DEF vars, handshakeVars, controlVars, H!vars, H!collectorVars, H!mutatorVars
  <2>2. pc # "crashed" => H!SerialInv'
    BY <2>1, SerialStep, Parts
  <2>3. Typed'
    BY <1>1, Parts DEF Typed, GraphTyped, BuffersTyped, BlueIsUnallocated, vars, handshakeVars,
       controlVars, heapVars, rootVars, bufferVars, traceVars
  <2>4. pc # "crashed" => Marks'
    BY <1>1, Parts DEF Marks, UnreadInUse, ReadInTrace, RootsQueued, GrayBetween, SweptColors,
       collecting, beforeTrace, base, isClear, vars, handshakeVars, controlVars, heapVars,
       rootVars, bufferVars, traceVars
  <2>5. UNCHANGED pc
    BY <1>1 DEF vars, handshakeVars
  <2> QED
    BY <2>2, <2>3, <2>4, <2>5, PartsNext
<1>2. CASE pc = "crashed" /\ Next
  BY <1>2, CrashedStays
<1>3. CASE pc # "crashed" /\ Next /\ pc' = "crashed"
  BY <1>3, CrashStep, Parts, PartsNext
<1>4. CASE pc # "crashed" /\ Next /\ pc' # "crashed"
  <2>1. Typed /\ Marks /\ H!SerialInv
    BY <1>4, Parts
  <2>2. H!SerialInv'
    BY <1>4, <2>1, HandshakePart, SerialStep
  <2>3. ASSUME NEW m \in Mutators, \E o \in Places : Allocate(m, o)
        PROVE  Typed' /\ Marks'
    BY <2>1, <2>3, AllocateStep
  <2>4. ASSUME NEW m \in Mutators, Pop(m)
        PROVE  Typed' /\ Marks'
    BY <2>1, <2>4, PopStep
  <2>5. ASSUME NEW m \in Mutators, \E o, p \in Places : Link(m, o, p) \/ Unlink(m, o, p)
        PROVE  Typed' /\ Marks'
    BY <2>1, <2>5, LinkStep
  <2>6. ASSUME NEW m \in Mutators, MutatorStep(m)
        PROVE  Typed' /\ Marks'
    BY <2>1, <2>6, MutatorStepStep
  <2>7. ASSUME NEW m \in Mutators, MarkGray(m)
        PROVE  Typed' /\ Marks'
    BY <2>1, <2>7, MarkGrayStep
  <2>8. ASSUME NEW m \in Mutators, MarkGlobalRoot(m)
        PROVE  Typed' /\ Marks'
    BY <2>1, <2>8, MarkGlobalRootStep
  <2>9. StageClear => Typed' /\ Marks'
    BY <2>1, StageClearStep
  <2>10. HandshakeStep => Typed' /\ Marks'
    BY <2>1, HandshakeStepStep
  <2>11. ASSUME NEW m \in Mutators, TraceBuffer(m) \/ TraceBeyondBuffer(m)
         PROVE  Typed' /\ Marks'
    BY <2>1, <2>11, <1>4, TraceBufferStep
  <2>12. EmptyMarkBuffer => Typed' /\ Marks'
    BY <2>1, EmptyMarkBufferStep
  <2>13. TraceDone => Typed' /\ Marks'
    BY <2>1, TraceDoneStep
  <2>14. CollectorSweep => Typed' /\ Marks'
    BY <2>1, CollectorSweepStep
  <2>15. ~SweepThrows
    BY <1>4 DEF SweepThrows
  <2> QED
    BY <1>4, <2>2, <2>3, <2>4, <2>5, <2>6, <2>7, <2>8, <2>9, <2>10, <2>11, <2>12, <2>13, <2>14,
       <2>15, PartsNext DEF Next, Collector
<1> QED
  BY <1>1, <1>2, <1>3, <1>4

LEMMA CollectInvariant ==
    ASSUME MaxRegistered <= 1
    PROVE  Spec => []CollectInv
<1>1. CollectInv /\ [Next]_vars => CollectInv'
  BY NextCollectInv
<1> QED
  BY InitCollectInv, <1>1, PTL DEF Spec

-----------------------------------------------------------------------------
(***************************************************************************)
(* The graph, the colors, the stacks and the mark buffers keep their       *)
(* types: every entry of a buffer is a place that held an object, and      *)
(* lastRead never passes lastWrite (SparkMutator.h:12-22).                 *)
(***************************************************************************)
THEOREM TypeCorrect ==
    ASSUME MaxRegistered <= 1
    PROVE  Spec => []TypeOK
<1>1. CollectInv => TypeOK
  <2> SUFFICES ASSUME CollectInv PROVE TypeOK
    OBVIOUS
  <2>1. GraphTyped /\ BuffersTyped /\ (pc = "crashed" \/ H!TypeOK)
    BY DEF CollectInv, H!SerialInv
  <2>2. \A S : \A s \in Seq(S) : Range(s) \subseteq S
    BY DEF Range
  <2>3. ASSUME NEW m \in Mutators
        PROVE  /\ Len(stack[m]) <= MaxStack /\ marking[m] \in 0..Len(stack[m])
               /\ Range(stack[m]) \cup Range(markBuffer[m]) \subseteq DOMAIN slots
               /\ lastRead[m] <= lastWrite[m] /\ lastWrite[m] = Len(markBuffer[m])
    <3>1. stack[m] \in Seq(DOMAIN slots) /\ markBuffer[m] \in Seq(DOMAIN slots)
      BY <2>1 DEF BuffersTyped
    <3>2. Len(stack[m]) \in Nat /\ marking[m] \in Nat /\ marking[m] <= Len(stack[m])
      BY <2>1, <3>1 DEF BuffersTyped
    <3> QED
      BY <2>1, <2>2, <3>1, <3>2 DEF BuffersTyped
  <2> QED
    BY <2>1, <2>3 DEF TypeOK, GraphTyped
<1> QED
  BY <1>1, CollectInvariant, PTL

(***************************************************************************)
(* An object is never blue, and free memory is blue unless a stray read    *)
(* had it marked (SparkGC_Shared.h:53).                                    *)
(***************************************************************************)
THEOREM FreeMemoryIsBlue ==
    ASSUME MaxRegistered <= 1
    PROVE  Spec => []BlueIsUnallocated
<1>1. CollectInv => BlueIsUnallocated
  BY DEF CollectInv
<1> QED
  BY <1>1, CollectInvariant, PTL

(***************************************************************************)
(* When the trace is over, no child of an object it marked is clear, in    *)
(* every graph (SparkGC::collectorMarkBlack and emptyMarkBuffer).          *)
(***************************************************************************)
THEOREM TraceCloses ==
    ASSUME MaxRegistered <= 1
    PROVE  Spec => []TracedClosed
<1>1. CollectInv => TracedClosed
  BY DEF CollectInv, TracedClosed, ReadInTrace, GrayBetween, collecting
<1> QED
  BY <1>1, CollectInvariant, PTL

LEMMA OthersTraced == CollectInv => OnlyFirstRootLost
<1> SUFFICES ASSUME CollectInv, pc \in {"startSweep", "sweep"},
                    NEW m \in registered, NEW i \in 2..Len(grayed[m])
             PROVE  grayed[m][i] \in traced
  BY DEF OnlyFirstRootLost
<1>1. m \in Mutators
  BY ControlTyped DEF CollectInv
<1>2. /\ lastRead[m] = lastWrite[m] /\ lastWrite[m] \in Nat /\ Len(grayed[m]) \in Nat
      /\ base(m) = lastWrite[m] - Len(grayed[m])
  BY <1>1 DEF CollectInv, ReadInTrace, BuffersTyped, base
<1>3. i \in 1..Len(grayed[m]) /\ 2 <= i /\ base(m) + i <= lastRead[m] + 1
  BY <1>2
<1> QED
  BY <1>1, <1>3 DEF CollectInv, RootsQueued, collecting

(***************************************************************************)
(* The trace marks every root a mutator put in its buffer for this         *)
(* collection, but for the first (SparkGC::collectorTrace), however many   *)
(* collections have used the buffer before.                                *)
(***************************************************************************)
THEOREM TraceLosesOneRoot ==
    ASSUME MaxRegistered <= 1
    PROVE  Spec => []OnlyFirstRootLost
  BY OthersTraced, CollectInvariant, PTL

(***************************************************************************)
(* After the toggle every object in the scanned part of the heap is clear  *)
(* for the next collection (SparkGC.cpp:137).                              *)
(***************************************************************************)
THEOREM ToggleClearsSurvivors ==
    ASSUME MaxRegistered <= 1
    PROVE  Spec => []SurvivorsAreClear
<1>1. CollectInv => SurvivorsAreClear
  BY DEF CollectInv, SurvivorsAreClear, SweptColors
<1> QED
  BY <1>1, CollectInvariant, PTL

(***************************************************************************)
(* No step frees an object that this collection marked or that has its     *)
(* mark color (SparkGC::collectorSweep).                                   *)
(***************************************************************************)
THEOREM SweepSparesMarked ==
    ASSUME MaxRegistered <= 1
    PROVE  Spec => MarkedSurvives
<1> DEFINE Spared == \A o \in objects \ objects' : o \notin traced /\ color[o] # markColor
<1>1. CollectInv /\ [Next]_vars => [Spared]_vars
  <2> SUFFICES ASSUME CollectInv, Next PROVE Spared
    OBVIOUS
  <2>1. CASE CollectorSweep
    <3>1. /\ pc = "sweep" /\ clearColor # markColor
          /\ \A o \in objects \ objects' : isClear(o)
      BY <2>1 DEF CollectorSweep, H!CollectorSweep, CollectInv, freed
    <3> QED
      BY <3>1 DEF CollectInv, GrayBetween, collecting, isClear
  <2>2. \/ CollectorSweep
        \/ objects \subseteq objects'
    BY DEF Next, Collector, Allocate, Pop, Link, Unlink, MutatorStep, MarkGray, MarkGlobalRoot,
       StageClear, HandshakeStep, TraceBuffer, TraceBeyondBuffer, EmptyMarkBuffer, TraceDone,
       SweepThrows, heapVars
  <2> QED
    BY <2>1, <2>2
<1> QED
  BY <1>1, CollectInvariant, PTL DEF Spec, MarkedSurvives

-----------------------------------------------------------------------------
(***************************************************************************)
(* What can be reached: the set of places that the recursive definition of *)
(* within arrives at is the least one that contains the roots and is       *)
(* closed under the pointers.                                              *)
(***************************************************************************)
\* One pointer more.
further(S) == S \cup UNION {slots[o] : o \in S}

(***************************************************************************)
(* There are finitely many places.                                         *)
(***************************************************************************)
LEMMA PlacesFinite == IsFiniteSet(Places) /\ Cardinality(Places) \in Nat
<1>1. IsFiniteSet(0..(heapSize - 1))
  BY FS_Interval, SparkGCAssumption
<1> QED
  BY <1>1, FS_Subset, FS_CardinalityType, SparkGCAssumption

(***************************************************************************)
(* Every step of within follows the pointers of the one before.            *)
(***************************************************************************)
LEMMA WithinSteps ==
    ASSUME GraphTyped, NEW roots \in SUBSET DOMAIN slots
    PROVE  /\ within(roots) \in [0..Cardinality(Places) -> SUBSET DOMAIN slots]
           /\ within(roots)[0] = roots
           /\ \A n \in 1..Cardinality(Places) : within(roots)[n] = further(within(roots)[n - 1])
<1> DEFINE K == Cardinality(Places)
           X == SUBSET DOMAIN slots
           Def(near) == near = [n \in 0..K |-> IF n = 0 THEN roots ELSE near[n - 1] \cup UNION {slots[o] : o \in near[n - 1]}]
<1>0. K \in Nat
  BY PlacesFinite
<1>1. \A S \in X : further(S) \in X
  BY DEF GraphTyped, further
<1>2. PICK g \in [0..K -> X] : g[0] = roots /\ \A n \in 1..K : g[n] = [S \in X |-> further(S)][g[n - 1]]
  <2> DEFINE F == [n \in 1..K |-> [S \in X |-> further(S)]]
  <2>1. F \in [1..K -> [X -> X]]
    BY <1>1
  <2>2. recursionExists(K, [n \in 0..K |-> X], roots, F)
    <3>1. roots \in X
      OBVIOUS
    <3> HIDE DEF F, X, K
    <3> QED
      BY <2>1, <1>0, <3>1, Recursion
  <2>3. PICK g : isRecursive(g, K, [n \in 0..K |-> X], roots, F)
    BY <2>2 DEF recursionExists
  <2>4. g \in [0..K -> X]
    <3> HIDE DEF F, X, K
    <3> QED
      BY <2>3 DEF isRecursive
  <2> QED
    BY <2>3, <2>4 DEF isRecursive
<1>3. Def(g)
  <2>1. ASSUME NEW n \in 0..K, n # 0
        PROVE  g[n] = g[n - 1] \cup UNION {slots[o] : o \in g[n - 1]}
    <3>1. n \in 1..K /\ n - 1 \in 0..K
      BY <1>0, <2>1
    <3>2. g[n - 1] \in X
      BY <1>2, <3>1
    <3>3. g[n] = further(g[n - 1])
      BY <1>2, <3>1, <3>2
    <3> QED
      BY <3>3 DEF further
  <2> QED
    BY <1>0, <1>2, <2>1
<1>4. within(roots) = CHOOSE near : Def(near)
  BY DEF within
<1>5. Def(within(roots))
  <2> HIDE DEF Def
  <2> QED BY <1>3, <1>4
<1> DEFINE w == within(roots)
<1> HIDE DEF w
<1>6. Def(w)
  BY <1>5 DEF w
<1>7. w[0] = roots
  BY <1>0, <1>6
<1>8. ASSUME NEW n \in 1..K
      PROVE  w[n] = further(w[n - 1])
  <2>1. n \in 0..K /\ n # 0
    BY <1>0
  <2> QED
    BY <1>6, <2>1 DEF further
<1>9. \A n \in Nat : n \in {k \in Nat : k <= K => w[k] \in X}
  <2> DEFINE T == {k \in Nat : k <= K => w[k] \in X}
  <2>1. 0 \in T
    BY <1>7
  <2>2. ASSUME NEW k \in Nat, k \in T
        PROVE  k + 1 \in T
    <3>1. SUFFICES ASSUME k + 1 <= K PROVE w[k + 1] \in X
      OBVIOUS
    <3>2. k + 1 \in 1..K /\ (k + 1) - 1 = k /\ w[k] \in X
      BY <1>0, <2>2, <3>1
    <3>3. w[k + 1] = further(w[k])
      BY <1>8, <3>2
    <3> QED
      BY <1>1, <3>2, <3>3
  <2> HIDE DEF T
  <2> QED
    BY <2>1, <2>2, Induction DEF T
<1>10. w \in [0..K -> X]
  BY <1>0, <1>6, <1>9
<1> QED
  BY <1>7, <1>8, <1>10 DEF w

(***************************************************************************)
(* What is reached contains where it starts,                               *)
(***************************************************************************)
LEMMA ReachContains ==
    ASSUME GraphTyped, NEW roots \in SUBSET DOMAIN slots
    PROVE  reach(roots) \in SUBSET DOMAIN slots /\ roots \subseteq reach(roots)
<1> DEFINE K == Cardinality(Places)
           w == within(roots)
           T == {k \in Nat : k <= K => roots \subseteq w[k]}
<1> HIDE DEF w
<1>1. /\ w \in [0..K -> SUBSET DOMAIN slots] /\ w[0] = roots /\ K \in Nat
      /\ \A n \in 1..K : w[n] = further(w[n - 1])
  BY WithinSteps, PlacesFinite DEF w
<1>2. 0 \in T
  BY <1>1
<1>3. ASSUME NEW k \in Nat, k \in T
      PROVE  k + 1 \in T
  <2>1. SUFFICES ASSUME k + 1 <= K PROVE roots \subseteq w[k + 1]
    OBVIOUS
  <2>2. k + 1 \in 1..K /\ (k + 1) - 1 = k /\ roots \subseteq w[k]
    BY <1>1, <1>3, <2>1
  <2> QED
    BY <1>1, <2>2 DEF further
<1>4. K \in T
  <2> HIDE DEF T
  <2> QED BY <1>1, <1>2, <1>3, Induction
<1> QED
  BY <1>1, <1>4 DEF reach, w

(***************************************************************************)
(* it is in every set that contains this and is closed under the pointers, *)
(***************************************************************************)
LEMMA ReachLeast ==
    ASSUME GraphTyped, NEW roots \in SUBSET DOMAIN slots,
           NEW S \in SUBSET DOMAIN slots, roots \subseteq S, \A o \in S : slots[o] \subseteq S
    PROVE  reach(roots) \subseteq S
<1> DEFINE K == Cardinality(Places)
           w == within(roots)
           T == {k \in Nat : k <= K => w[k] \subseteq S}
<1> HIDE DEF w
<1>1. /\ w \in [0..K -> SUBSET DOMAIN slots] /\ w[0] = roots /\ K \in Nat
      /\ \A n \in 1..K : w[n] = further(w[n - 1])
  BY WithinSteps, PlacesFinite DEF w
<1>2. 0 \in T
  BY <1>1
<1>3. ASSUME NEW k \in Nat, k \in T
      PROVE  k + 1 \in T
  <2>1. SUFFICES ASSUME k + 1 <= K PROVE w[k + 1] \subseteq S
    OBVIOUS
  <2>2. k + 1 \in 1..K /\ (k + 1) - 1 = k /\ w[k] \subseteq S
    BY <1>1, <1>3, <2>1
  <2>3. w[k + 1] = further(w[k])
    BY <1>1, <2>2
  <2> QED
    BY <2>2, <2>3 DEF further
<1>4. K \in T
  <2> HIDE DEF T
  <2> QED BY <1>1, <1>2, <1>3, Induction
<1> QED
  BY <1>1, <1>4 DEF reach, w

(***************************************************************************)
(* and it is such a set itself: after as many steps as there are places    *)
(* nothing new is found.                                                   *)
(***************************************************************************)
LEMMA ReachClosed ==
    ASSUME GraphTyped, NEW roots \in SUBSET DOMAIN slots
    PROVE  \A o \in reach(roots) : slots[o] \subseteq reach(roots)
<1> DEFINE K == Cardinality(Places)
           w == within(roots)
           closed(S) == further(S) = S
           T == {k \in Nat : k <= K => closed(w[k]) \/ Cardinality(w[k]) >= k}
<1> HIDE DEF w
<1>1. /\ w \in [0..K -> SUBSET DOMAIN slots] /\ w[0] = roots /\ K \in Nat
      /\ \A n \in 1..K : w[n] = further(w[n - 1])
  BY WithinSteps, PlacesFinite DEF w
<1>2. ASSUME NEW k \in 0..K
      PROVE  /\ w[k] \subseteq Places /\ IsFiniteSet(w[k]) /\ Cardinality(w[k]) \in Nat
             /\ Cardinality(w[k]) <= K /\ (Cardinality(w[k]) = K => w[k] = Places)
  <2>1. w[k] \in SUBSET Places
    BY <1>1 DEF GraphTyped
  <2> QED
    BY <2>1, PlacesFinite, FS_Subset, FS_CardinalityType
<1>3. 0 \in T
  BY <1>1, <1>2
<1>4. ASSUME NEW k \in Nat, k \in T
      PROVE  k + 1 \in T
  <2>1. SUFFICES ASSUME k + 1 <= K PROVE closed(w[k + 1]) \/ Cardinality(w[k + 1]) >= k + 1
    OBVIOUS
  <2>2. k + 1 \in 1..K /\ (k + 1) - 1 = k /\ k \in 0..K /\ k + 1 \in 0..K
    BY <1>1, <2>1
  <2>3. w[k + 1] = further(w[k]) /\ (closed(w[k]) \/ Cardinality(w[k]) >= k)
    BY <1>1, <1>4, <2>1, <2>2
  <2>4. CASE closed(w[k])
    BY <2>3, <2>4
  <2>5. CASE ~closed(w[k])
    <3>1. w[k] \in SUBSET w[k + 1] /\ w[k] # w[k + 1]
      BY <2>3, <2>5 DEF further
    <3>2. /\ IsFiniteSet(w[k + 1]) /\ Cardinality(w[k]) \in Nat /\ Cardinality(w[k + 1]) \in Nat
      BY <1>2, <2>2
    <3>3. Cardinality(w[k]) <= Cardinality(w[k + 1]) /\ Cardinality(w[k]) # Cardinality(w[k + 1])
      BY <3>1, <3>2, FS_Subset
    <3> QED
      BY <2>3, <2>5, <3>2, <3>3
  <2> QED
    BY <2>4, <2>5
<1>5. K \in T
  <2> HIDE DEF T
  <2> QED BY <1>1, <1>3, <1>4, Induction
<1>6. CASE closed(w[K])
  BY <1>6 DEF reach, w, further
<1>7. CASE ~closed(w[K])
  <2>1. w[K] = Places
    BY <1>1, <1>2, <1>5, <1>7
  <2>2. w[K] = DOMAIN slots
    BY <1>1, <2>1 DEF GraphTyped
  <2> QED
    BY <2>2 DEF reach, w, GraphTyped
<1> QED
  BY <1>6, <1>7

LEMMA ReachUnchanged ==
    ASSUME UNCHANGED slots, NEW roots
    PROVE  reach(roots)' = reach(roots)
  BY DEF reach, within

LEMMA LiveUnchanged ==
    UNCHANGED <<slots, stack, registered>> => live' = live
  BY DEF live, reachable, reach, within

LEMMA StrayUnchanged ==
    UNCHANGED <<slots, stray>> => reach(stray)' = reach(stray)
  BY DEF reach, within

LEMMA LiveClosed ==
    ASSUME Typed, H!SerialInv
    PROVE  /\ live \subseteq DOMAIN slots
           /\ \A m \in registered : Range(stack[m]) \subseteq live
           /\ \A o \in live : slots[o] \subseteq live
<1>1. ASSUME NEW m \in registered
      PROVE  /\ reachable(m) \subseteq DOMAIN slots /\ Range(stack[m]) \subseteq reachable(m)
             /\ \A o \in reachable(m) : slots[o] \subseteq reachable(m)
  <2>1. Range(stack[m]) \in SUBSET DOMAIN slots
    <3>1. stack[m] \in Seq(DOMAIN slots)
      BY ControlTyped DEF Typed, BuffersTyped
    <3> QED
      BY <3>1 DEF Range
  <2>2. GraphTyped
    BY DEF Typed
  <2> QED
    BY <2>1, <2>2, ReachContains, ReachClosed DEF reachable
<1> QED
  BY <1>1 DEF live

LEMMA StrayClosed ==
    ASSUME GraphTyped
    PROVE  /\ reach(stray) \subseteq DOMAIN slots /\ stray \subseteq reach(stray)
           /\ \A o \in reach(stray) : slots[o] \subseteq reach(stray)
<1>1. stray \in SUBSET DOMAIN slots
  BY DEF GraphTyped
<1> QED
  BY <1>1, ReachContains, ReachClosed

(***************************************************************************)
(* While a collection runs, roots and pointers do not change.  So what the *)
(* mutators marked is live, and the trace does not leave what is live.     *)
(***************************************************************************)
Marked == live \cup reach(stray)

LEMMA MarkBlackReached ==
    ASSUME Typed, H!SerialInv, NEW o \in Marked, NEW others \in SUBSET Marked,
           traced \subseteq Marked, CollectorMarkBlack(o, others)
    PROVE  gray' \cup traced' \subseteq Marked
<1>1. slots[o] \subseteq Marked
  BY LiveClosed, StrayClosed DEF Marked, Typed
<1>2. grayChildren(o) \subseteq slots[o]
  BY DEF grayChildren
<1> QED
  BY <1>1, <1>2 DEF CollectorMarkBlack

LEMMA MarkedReachedKept ==
    ASSUME MarkedReached, UNCHANGED <<slots, stack, registered, stray>>,
           gray' \subseteq gray, traced' \subseteq traced, UNCHANGED grayed,
           pc' \in collecting => pc \in collecting
    PROVE  MarkedReached'
<1>1. live' = live /\ reach(stray)' = reach(stray)
  BY LiveUnchanged, StrayUnchanged
<1> QED
  BY <1>1 DEF MarkedReached, collecting, beforeTrace

LEMMA MarkGrayReached ==
    ASSUME Typed, Marks, H!SerialInv, MarkedReached, NEW m \in Mutators, MarkGray(m)
    PROVE  MarkedReached'
<1> DEFINE o == stack[m][marking[m] + 1]
<1>1. /\ UNCHANGED <<pc, registered, slots, stack, stray, gray, traced>>
      /\ mPc[m] = "root" /\ marking[m] < Len(stack[m])
      /\ UNCHANGED grayed \/ grayed' = [grayed EXCEPT ![m] = Append(@, o)]
  BY DEF MarkGray, handshakeVars, controlVars, heapVars, traceVars
<1>2. live' = live /\ reach(stray)' = reach(stray)
  BY <1>1, LiveUnchanged, StrayUnchanged
<1>3. m \in registered
  BY <1>1, RootsInLastWait
<1>4. o \in live
  <2>1. stack[m] \in Seq(DOMAIN slots) /\ marking[m] \in Nat
    BY DEF Typed, BuffersTyped
  <2>2. o \in Range(stack[m])
    BY <2>1, <1>1 DEF Range
  <2> QED
    BY <1>3, <2>2, LiveClosed
<1>5. ASSUME pc \in collecting, NEW n \in Mutators, NEW i \in DOMAIN grayed'[n]
      PROVE  grayed'[n][i] \in live
  <2>1. \A j \in DOMAIN grayed[n] : grayed[n][j] \in live
    BY <1>5 DEF MarkedReached
  <2>2. grayed \in [Mutators -> Seq(DOMAIN slots)]
    BY DEF Typed, BuffersTyped
  <2>3. CASE grayed'[n] = grayed[n]
    BY <2>1, <2>3
  <2>4. CASE grayed'[n] = Append(grayed[n], o)
    BY <2>1, <2>2, <2>4, <1>4
  <2> QED
    BY <1>1, <2>2, <2>3, <2>4
<1> QED
  BY <1>1, <1>2, <1>5 DEF MarkedReached, collecting, beforeTrace

LEMMA RootRead ==
    ASSUME NEW read \in Nat, NEW write \in Nat, NEW length \in Nat, NEW start \in Int,
           start = write - length, start <= read, read + 2 <= write
    PROVE  /\ read + 2 - start \in 1..length
           /\ start + (read + 2 - start) = read + 2
  OBVIOUS

LEMMA TraceBufferReached ==
    ASSUME Typed, Marks, H!SerialInv, MarkedReached, NEW m \in Mutators, TraceBuffer(m)
    PROVE  MarkedReached'
<1> DEFINE o == markBuffer[m][readIndex(m)]
<1>1. /\ pc = "trace" /\ m \in registered /\ unread(m) /\ readIndex(m) <= Len(markBuffer[m])
      /\ CollectorMarkBlack(o, {})
      /\ UNCHANGED <<pc, registered, slots, stack, stray, grayed>>
  BY DEF TraceBuffer, handshakeVars, controlVars, rootVars
<1>2. live' = live /\ reach(stray)' = reach(stray)
  BY <1>1, LiveUnchanged, StrayUnchanged
<1>3. o \in live
  <2> DEFINE i == lastRead[m] + 2 - base(m)
  <2>1. /\ lastRead[m] \in Nat /\ Len(grayed[m]) \in Nat /\ lastWrite[m] \in Nat
        /\ lastWrite[m] = Len(markBuffer[m]) /\ grayed[m] \in Seq(DOMAIN slots)
    BY DEF Typed, BuffersTyped
  <2>2. /\ 0 <= base(m) /\ base(m) <= lastRead[m] /\ base(m) = lastWrite[m] - Len(grayed[m])
        /\ \A j \in 1..Len(grayed[m]) : markBuffer[m][base(m) + j] = grayed[m][j]
    BY <1>1 DEF Marks, RootsQueued, collecting, base
  <2>3. base(m) \in Int
    BY <2>1, <2>2
  <2>4. readIndex(m) = lastRead[m] + 2
    BY <2>1 DEF readIndex
  <2>5. i \in 1..Len(grayed[m]) /\ base(m) + i = readIndex(m)
    <3> HIDE DEF i
    <3>1. lastRead[m] + 2 <= lastWrite[m]
      BY <1>1, <2>1, <2>4
    <3> QED
      BY <2>1, <2>2, <2>3, <2>4, <3>1, RootRead DEF i
  <2>6. grayed[m][i] \in live
    BY <1>1, <2>1, <2>5 DEF MarkedReached, collecting
  <2> QED
    BY <2>2, <2>5, <2>6
<1>4. gray' \cup traced' \subseteq Marked
  <2>1. o \in Marked /\ {} \in SUBSET Marked /\ traced \subseteq Marked
    BY <1>1, <1>3 DEF Marked, MarkedReached, collecting
  <2> QED
    BY <1>1, <2>1, MarkBlackReached
<1> QED
  BY <1>1, <1>2, <1>4 DEF Marked, MarkedReached, collecting, beforeTrace

LEMMA TraceBeyondBufferReached ==
    ASSUME Typed, Marks, H!SerialInv, MarkedReached, NEW m \in Mutators, TraceBeyondBuffer(m),
           pc' # "crashed"
    PROVE  MarkedReached'
<1>1. PICK o \in DOMAIN slots : CollectorMarkBlack(o, {}) /\ stray' = stray \cup {o}
  BY DEF TraceBeyondBuffer
<1>2. /\ pc = "trace" /\ UNCHANGED <<pc, registered, slots, stack, grayed>>
  BY DEF TraceBeyondBuffer, handshakeVars, controlVars, rootVars
<1>3. live' = live /\ reach(stray)' = reach(stray \cup {o})
  <2>1. reach(stray)' = reach(stray')
    BY <1>2 DEF reach, within
  <2> QED
    BY <1>1, <1>2, <2>1, LiveUnchanged
<1> DEFINE S == reach(stray \cup {o})
<1>4. /\ S \subseteq DOMAIN slots /\ stray \cup {o} \subseteq S /\ \A p \in S : slots[p] \subseteq S
  <2>1. stray \cup {o} \in SUBSET DOMAIN slots /\ GraphTyped
    BY DEF Typed, GraphTyped
  <2> QED
    BY <2>1, ReachContains, ReachClosed
<1>5. reach(stray) \subseteq S
  <2> HIDE DEF S
  <2>1. stray \in SUBSET DOMAIN slots /\ GraphTyped
    BY DEF Typed, GraphTyped
  <2> QED
    BY <1>4, <2>1, ReachLeast
<1>6. gray' \cup traced' \subseteq live \cup S
  <2>1. traced \subseteq live \cup S
    BY <1>2, <1>5 DEF MarkedReached, collecting
  <2>2. grayChildren(o) \subseteq S
    BY <1>4 DEF grayChildren
  <2> QED
    BY <1>1, <1>4, <2>1, <2>2 DEF CollectorMarkBlack
<1> QED
  BY <1>2, <1>3, <1>6 DEF MarkedReached, collecting, beforeTrace

LEMMA EmptyMarkBufferReached ==
    ASSUME Typed, Marks, H!SerialInv, MarkedReached, EmptyMarkBuffer
    PROVE  MarkedReached'
<1>1. PICK o \in gray : CollectorMarkBlack(o, gray \ {o})
  BY DEF EmptyMarkBuffer
<1>2. pc = "trace" /\ UNCHANGED <<pc, registered, slots, stack, stray, grayed>>
  BY DEF EmptyMarkBuffer, handshakeVars, controlVars, rootVars
<1>3. live' = live /\ reach(stray)' = reach(stray)
  BY <1>2, LiveUnchanged, StrayUnchanged
<1>4. gray' \cup traced' \subseteq Marked
  <2>1. o \in Marked /\ gray \ {o} \in SUBSET Marked /\ traced \subseteq Marked
    BY <1>2 DEF Marked, MarkedReached, collecting
  <2> QED
    BY <1>1, <2>1, MarkBlackReached
<1> QED
  BY <1>2, <1>3, <1>4 DEF Marked, MarkedReached, collecting, beforeTrace

LEMMA NextMarkedReached ==
    ASSUME CollectInv, MarkedReached, [Next]_vars
    PROVE  MarkedReached'
<1>1. CASE UNCHANGED vars
  <2>1. UNCHANGED <<pc, slots, stack, registered, stray, gray, traced, grayed>>
    BY <1>1 DEF vars, handshakeVars, controlVars, heapVars, rootVars, traceVars
  <2> QED
    BY <2>1, MarkedReachedKept
<1>2. CASE pc' \notin collecting
  BY <1>2 DEF MarkedReached, collecting, beforeTrace
<1>3. CASE Next /\ pc' \in collecting
  <2>1. pc' # "crashed"
    BY <1>3 DEF collecting, beforeTrace
  <2>2. ASSUME NEW m \in Mutators, \/ \E o \in Places : Allocate(m, o)
                                   \/ Pop(m)
                                   \/ \E o, p \in Places : Link(m, o, p) \/ Unlink(m, o, p)
        PROVE  FALSE
    BY <1>3, <2>2 DEF Allocate, Pop, Link, Unlink, running, handshakeVars, collecting,
       beforeTrace
  <2>3. ASSUME NEW m \in Mutators, MutatorStep(m)
        PROVE  MarkedReached'
    <3>1. UNCHANGED <<pc, heapVars, rootVars, traceVars, grayed>>
      BY <2>3 DEF MutatorStep, H!RegisterMutator, H!UnregisterMutator, H!LoadState,
         H!SetAllocationColor, H!StoreState, H!collectorVars
    <3>2. UNCHANGED registered
      BY <1>3, <2>3, <3>1 DEF MutatorStep, H!RegisterMutator, H!UnregisterMutator, H!LoadState,
         H!SetAllocationColor, H!StoreState, collecting, beforeTrace
    <3> QED
      BY <1>3, <3>1, <3>2, MarkedReachedKept DEF heapVars, rootVars, traceVars
  <2>4. ASSUME NEW m \in Mutators, MarkGlobalRoot(m)
        PROVE  MarkedReached'
    <3>1. UNCHANGED <<pc, registered, heapVars, stack, traceVars, grayed>>
      BY <2>4 DEF MarkGlobalRoot, H!MarkGlobalRoot, H!collectorVars
    <3> QED
      BY <1>3, <3>1, MarkedReachedKept DEF heapVars, traceVars
  <2>5. pc # "crashed"
    BY <1>3, CrashedStays
  <2>6. Typed /\ Marks /\ H!SerialInv
    BY <2>5, Parts
  <2>7. ASSUME StageClear
        PROVE  MarkedReached'
    <3>1. gray' = {} /\ traced' = {} /\ grayed' = [m \in Mutators |-> << >>]
      BY <2>7 DEF StageClear
    <3> QED
      BY <3>1 DEF MarkedReached
  <2>8. ASSUME HandshakeStep \/ TraceDone
        PROVE  MarkedReached'
    <3>1. UNCHANGED <<registered, heapVars, rootVars, traceVars, grayed>>
      BY <2>8 DEF HandshakeStep, TraceDone, H!PostHandshake, H!CheckMutator, H!EndPass,
         H!PostState, H!ToggleClear, H!ToggleMark
    <3>2. pc \in collecting
      BY <1>3, <2>8 DEF HandshakeStep, TraceDone, H!posts, H!PostHandshake, H!CheckMutator,
         H!waits, H!EndPass, H!stageSteps, H!PostState, H!ToggleClear, H!ToggleMark,
         collecting, beforeTrace
    <3> QED
      BY <3>1, <3>2, MarkedReachedKept DEF heapVars, rootVars, traceVars
  <2>9. ~(CollectorSweep \/ SweepThrows)
    BY <1>3 DEF CollectorSweep, H!CollectorSweep, SweepThrows, collecting, beforeTrace
  <2>10. \A m \in Mutators : MarkGray(m) => MarkedReached'
    BY <2>6, MarkGrayReached
  <2>11. \A m \in Mutators : TraceBuffer(m) => MarkedReached'
    BY <2>6, TraceBufferReached
  <2>12. \A m \in Mutators : TraceBeyondBuffer(m) => MarkedReached'
    BY <2>1, <2>6, TraceBeyondBufferReached
  <2>13. EmptyMarkBuffer => MarkedReached'
    BY <2>6, EmptyMarkBufferReached
  <2> QED
    BY <1>3, <2>2, <2>3, <2>4, <2>7, <2>8, <2>9, <2>10, <2>11, <2>12, <2>13 DEF Next, Collector
<1> QED
  BY <1>1, <1>2, <1>3

(***************************************************************************)
(* The collector marks only what a root of this cycle reaches, or what was *)
(* read from beyond a mark buffer reaches, in every graph and however many *)
(* collections have left entries in the buffers (SparkGC::collectorTrace,  *)
(* which goes on from lastRead in a buffer that is never emptied).         *)
(***************************************************************************)
THEOREM TraceMarksNoGarbage ==
    ASSUME MaxRegistered <= 1
    PROVE  Spec => []TracePrecise
<1>1. Init => MarkedReached
  BY DEF Init, H!Init, MarkedReached, collecting, beforeTrace
<1>2. MarkedReached => TracePrecise
  BY DEF MarkedReached, TracePrecise, collecting
<1>3. CollectInv /\ MarkedReached /\ [Next]_vars => MarkedReached'
  BY NextMarkedReached
<1> QED
  BY <1>1, <1>2, <1>3, CollectInvariant, PTL DEF Spec
=============================================================================
