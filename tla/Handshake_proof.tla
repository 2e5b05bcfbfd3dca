-------------------------- MODULE Handshake_proof --------------------------
(***************************************************************************)
(* Proofs about Handshake, for every set of mutators and any number of     *)
(* cycles: its types with any number of mutators registered, the rest with *)
(* at most one registered at a time.                                       *)
(***************************************************************************)
EXTENDS Handshake, FiniteSetTheorems, TLAPS

-----------------------------------------------------------------------------
LEMMA CardinalityRegistered ==
    ASSUME TypeOK, \A m, n \in registered : m = n
    PROVE  /\ registered = {} => Cardinality(registered) = 0
           /\ \A m \in registered : registered = {m} /\ Cardinality(registered) = 1
<1>1. registered = {} => Cardinality(registered) = 0
  BY FS_EmptySet
<1>2. ASSUME NEW m \in registered
      PROVE  registered = {m} /\ Cardinality(registered) = 1
  <2>1. registered = {m}
    OBVIOUS
  <2> QED
    BY <2>1, FS_Singleton
<1> QED
  BY <1>1, <1>2

LEMMA OppositeColor ==
    ASSUME NEW c
    PROVE  opposite(c) \in MarkColors
<1>1. \E d \in MarkColors : d # c
  BY DEF MarkColors
<1> QED
  BY <1>1 DEF opposite

-----------------------------------------------------------------------------
(***************************************************************************)
(* Types with any number of mutators.  Registration keeps todo within      *)
(* registered because todo is empty whenever no wait is on, and a pass     *)
(* counts no further than one past the registered mutators, however often  *)
(* waitHandshake goes on counting where the last pass stopped.             *)
(***************************************************************************)
TypeInv ==
    /\ TypeOK
    /\ Cardinality(registered) <= MaxRegistered
    /\ pc \notin waiting => todo = {}

LEMMA InitTypeInv == Init => TypeInv
<1> SUFFICES ASSUME Init PROVE TypeInv
  OBVIOUS
<1>1. TypeOK
  BY HandshakeAssumption DEF Init, TypeOK, Pcs, HandshakeStates, Stages, MarkColors
<1>2. Cardinality(registered) <= MaxRegistered
  BY FS_EmptySet, HandshakeAssumption DEF Init
<1> QED
  BY <1>1, <1>2 DEF Init, TypeInv

LEMMA RegisteredIsFinite ==
    ASSUME TypeOK
    PROVE  IsFiniteSet(registered) /\ Cardinality(registered) \in Nat
BY HandshakeAssumption, FS_Subset, FS_CardinalityType DEF TypeOK

LEMMA RegistrationTypeInv ==
    ASSUME TypeInv, NEW m \in Mutators, RegisterMutator(m) \/ UnregisterMutator(m)
    PROVE  TypeInv'
<1>1. pc = "resting" /\ todo = {} /\ UNCHANGED <<pc, todo>>
  BY DEF RegisterMutator, UnregisterMutator, collectorVars, TypeInv, waiting
<1>2. TypeOK'
  BY <1>1
     DEF RegisterMutator, UnregisterMutator, collectorVars, mutatorVars, TypeInv, TypeOK,
         registrationColor
<1>3. Cardinality(registered') <= MaxRegistered
  <2>1. CASE RegisterMutator(m)
    <3>1. Cardinality(registered \cup {m}) = Cardinality(registered) + 1
      BY <2>1, RegisteredIsFinite, FS_AddElement DEF RegisterMutator, TypeInv
    <3> QED
      BY <2>1, <3>1, RegisteredIsFinite, HandshakeAssumption DEF RegisterMutator, TypeInv
  <2>2. CASE UnregisterMutator(m)
    <3>1. Cardinality(registered \ {m}) = Cardinality(registered) - 1
      BY <2>2, RegisteredIsFinite, FS_RemoveElement DEF UnregisterMutator, TypeInv
    <3> QED
      BY <2>2, <3>1, RegisteredIsFinite, HandshakeAssumption DEF UnregisterMutator, TypeInv
  <2> QED
    BY <2>1, <2>2
<1> QED
  BY <1>1, <1>2, <1>3 DEF TypeInv

LEMMA CheckMutatorTypeInv ==
    ASSUME TypeInv, CheckMutator
    PROVE  TypeInv'
<1>1. /\ pc \in waiting
      /\ UNCHANGED <<pc, registered>>
  BY DEF CheckMutator, waits, waiting
<1>2. countReady(readyCount) \in 0..(MaxRegistered + 1)
  BY RegisteredIsFinite, HandshakeAssumption DEF countReady, TypeInv, TypeOK
<1>3. TypeOK'
  BY <1>2 DEF CheckMutator, TypeInv, TypeOK, mutatorVars
<1> QED
  BY <1>1, <1>3 DEF TypeInv

LEMMA CollectorTypeInv ==
    ASSUME TypeInv, StageClear \/ Collector
    PROVE  TypeInv'
<1>1. CASE StageClear
  BY <1>1, HandshakeAssumption DEF StageClear, TypeInv, TypeOK, Pcs, Stages, waiting
<1>2. ASSUME NEW p \in posts, PostHandshake(p[1], p[2], p[3]) PROVE TypeInv'
  <2>1. p[3] \in waiting /\ p[3] \in Pcs /\ p[2] \in HandshakeStates
    BY DEF posts, waiting, Pcs, HandshakeStates
  <2> QED
    BY <1>2, <2>1, HandshakeAssumption DEF PostHandshake, mutatorVars, TypeInv, TypeOK
<1>3. ASSUME NEW w \in waits, EndPass(w[1], w[2]) PROVE TypeInv'
  <2>1. w[1] \in waiting /\ w[2] \in Pcs
    BY DEF waits, waiting, Pcs
  <2> QED
    BY <1>3, <2>1 DEF EndPass, mutatorVars, TypeInv, TypeOK
<1>4. ASSUME NEW s \in stageSteps, PostState(s[1], s[2], s[3]) PROVE TypeInv'
  <2>1. s[1] \notin waiting /\ s[2] \in Stages /\ s[3] \in Pcs
    BY DEF stageSteps, waiting, Stages, Pcs
  <2> QED
    BY <1>4, <2>1 DEF PostState, mutatorVars, TypeInv, TypeOK
<1>5. CASE CollectorSweep \/ ToggleClear \/ ToggleMark
  BY <1>5, OppositeColor
     DEF CollectorSweep, ToggleClear, ToggleMark, mutatorVars, TypeInv, TypeOK, Pcs, waiting
<1> QED
  BY <1>1, <1>2, <1>3, <1>4, <1>5, CheckMutatorTypeInv DEF Collector

LEMMA HandshakeCollectorTypeInv ==
    ASSUME TypeInv, NEW m \in Mutators, HandshakeCollector(m)
    PROVE  TypeInv'
<1>1. UNCHANGED <<collectorVars, registered>>
  BY DEF HandshakeCollector, LoadState, MarkGlobalRoot, SetAllocationColor, StoreState
<1>2. TypeOK'
  BY <1>1
     DEF HandshakeCollector, LoadState, MarkGlobalRoot, SetAllocationColor, StoreState,
         collectorVars, TypeInv, TypeOK
<1> QED
  BY <1>1, <1>2 DEF collectorVars, TypeInv

LEMMA NextTypeInv == TypeInv /\ [Next]_vars => TypeInv'
<1> SUFFICES ASSUME TypeInv, [Next]_vars PROVE TypeInv'
  OBVIOUS
<1>1. CASE UNCHANGED vars
  BY <1>1 DEF vars, collectorVars, mutatorVars, TypeInv, TypeOK
<1>2. CASE Next
  BY <1>2, RegistrationTypeInv, CollectorTypeInv, HandshakeCollectorTypeInv DEF Next
<1> QED
  BY <1>1, <1>2

(***************************************************************************)
(* With any number of mutators the variables keep their types; in          *)
(* particular waitHandshake checks registered mutators only, and its count *)
(* stays within one of the most that may be registered.                    *)
(***************************************************************************)
THEOREM TypeCorrect == Spec => []TypeOK
<1>1. TypeInv => TypeOK
  BY DEF TypeInv
<1> QED
  BY <1>1, InitTypeInv, NextTypeInv, PTL DEF Spec

-----------------------------------------------------------------------------
LEMMA InitSerialInv == Init => SerialInv
<1> SUFFICES ASSUME Init PROVE SerialInv
  OBVIOUS
<1>1. TypeOK
  BY HandshakeAssumption DEF Init, TypeOK, Pcs, HandshakeStates, Stages, MarkColors
<1>2. handshakeState = posted(pc)
  BY DEF Init, posted
<1> QED
  BY <1>1, <1>2 DEF Init, SerialInv, waiting, afterTracing

-----------------------------------------------------------------------------
(***************************************************************************)
(* Registration happens between collections.                               *)
(***************************************************************************)
LEMMA RegisterSerialInv ==
    ASSUME MaxRegistered <= 1, SerialInv, NEW m \in Mutators, RegisterMutator(m)
    PROVE  SerialInv'
<1>1. /\ pc = "resting" /\ m \notin registered
      /\ Cardinality(registered) < MaxRegistered
      /\ registered' = registered \cup {m}
      /\ mColor' = [mColor EXCEPT ![m] = markColor]
      /\ UNCHANGED <<pc, handshakeState, gcStage, clearColor, markColor, todo,
                     readyCount, cycles, mState, mPc, mSeen, rooted>>
  BY DEF RegisterMutator, collectorVars, registrationColor
<1>2. registered = {}
  <2>1. IsFiniteSet(registered) /\ Cardinality(registered) \in Nat
    BY HandshakeAssumption, FS_Subset, FS_CardinalityType DEF SerialInv, TypeOK
  <2> QED
  BY <2>1, <1>1, CardinalityRegistered, HandshakeAssumption DEF SerialInv
<1>3. TypeOK'
  BY <1>1 DEF SerialInv, TypeOK
<1>4. posted("resting") = "ASYNC"
  BY DEF posted
<1> QED
  BY <1>1, <1>2, <1>3, <1>4
     DEF SerialInv, answered, answering, rootsDone, waiting, afterTracing

LEMMA UnregisterSerialInv ==
    ASSUME SerialInv, NEW m \in Mutators, UnregisterMutator(m)
    PROVE  SerialInv'
<1>1. /\ pc = "resting" /\ m \in registered
      /\ registered' = registered \ {m}
      /\ UNCHANGED <<pc, handshakeState, gcStage, clearColor, markColor, todo,
                     readyCount, cycles, mState, mColor, mPc, mSeen, rooted>>
  BY DEF UnregisterMutator, collectorVars, mutatorVars
<1>2. posted("resting") = "ASYNC"
  BY DEF posted
<1>3. answered(m) /\ mState[m] = "ASYNC"
  BY <1>1, <1>2 DEF SerialInv, answering, answered, waiting
<1> QED
  BY <1>1, <1>3
     DEF SerialInv, TypeOK, answered, answering, rootsDone, waiting, afterTracing

-----------------------------------------------------------------------------
(***************************************************************************)
(* The collector's steps.                                                  *)
(***************************************************************************)
LEMMA StageClearSerialInv ==
    ASSUME SerialInv, StageClear
    PROVE  SerialInv'
<1>1. /\ pc = "resting" /\ pc' = "postSync1" /\ gcStage' = "CLEAR_OR_MARKING"
      /\ cycles < MaxCycles /\ cycles' = cycles + 1 /\ rooted' = {}
      /\ UNCHANGED <<handshakeState, clearColor, markColor, todo, readyCount,
                     registered, mState, mColor, mPc, mSeen>>
  BY DEF StageClear
<1>2. TypeOK'
  BY <1>1, HandshakeAssumption DEF SerialInv, TypeOK, Pcs, Stages
<1> QED
  BY <1>1, <1>2
     DEF SerialInv, posted, answered, answering, rootsDone, waiting, afterTracing

LEMMA PostHandshakeSerialInv ==
    ASSUME SerialInv, NEW p \in posts, PostHandshake(p[1], p[2], p[3])
    PROVE  SerialInv'
<1>1. /\ pc = p[1] /\ pc' = p[3] /\ handshakeState' = p[2]
      /\ todo' = registered /\ readyCount' = 0
      /\ UNCHANGED <<gcStage, clearColor, markColor, cycles, registered,
                     mState, mColor, mPc, mSeen, rooted>>
  BY DEF PostHandshake, mutatorVars
<1>2. /\ p[1] \notin waiting /\ p[3] \in waiting
      /\ p[2] = posted(p[3]) /\ p[2] = successor(posted(p[1]))
      /\ p[2] \in HandshakeStates /\ p[3] \in Pcs /\ posted(p[1]) # p[2]
  BY DEF posts, waiting, posted, successor, HandshakeStates, Pcs
<1>3. TypeOK'
  BY <1>1, <1>2, HandshakeAssumption DEF SerialInv, TypeOK
<1>4. ASSUME NEW m \in registered PROVE answering(m)' /\ ~answered(m)'
  <2>1. answered(m) /\ handshakeState = posted(p[1])
    BY <1>1, <1>2 DEF SerialInv, answering
  <2> QED
    BY <1>1, <1>2, <2>1 DEF answered, answering
<1> QED
  BY <1>1, <1>2, <1>3, <1>4 DEF SerialInv

LEMMA CheckMutatorSerialInv ==
    ASSUME SerialInv, CheckMutator
    PROVE  SerialInv'
<1>1. /\ pc \in waiting /\ todo # {} /\ todo' = todo \ {first(todo)}
      /\ readyCount' = IF mState[first(todo)] = handshakeState
                       THEN countReady(readyCount) ELSE readyCount
      /\ UNCHANGED <<pc, handshakeState, gcStage, clearColor, markColor, cycles,
                     registered, mState, mColor, mPc, mSeen, rooted>>
  BY DEF CheckMutator, waits, waiting, mutatorVars
<1>2. PICK m \in registered : registered = {m} /\ todo = {m} /\ Cardinality(registered) = 1
  <2>1. PICK m \in todo : TRUE
    BY <1>1
  <2>2. m \in registered /\ todo \subseteq registered
    BY DEF SerialInv, TypeOK
  <2>3. registered = {m} /\ Cardinality(registered) = 1
    BY <2>2, CardinalityRegistered DEF SerialInv
  <2> QED
    BY <2>1, <2>2, <2>3
<1>3. first(todo) = m
  <2>1. m \in Nat
    BY <1>2, HandshakeAssumption DEF SerialInv, TypeOK
  <2>2. \E k \in todo : \A n \in todo : k <= n
    BY <1>2, <2>1
  <2> QED
    BY <1>2, <2>2 DEF first
<1>4. readyCount = 0 /\ todo' = {}
  BY <1>1, <1>2, <1>3, HandshakeAssumption DEF SerialInv, TypeOK
<1>5. readyCount' = IF mState[m] = handshakeState THEN 1 ELSE 0
  BY <1>1, <1>2, <1>3, <1>4 DEF countReady
<1>6. mState[m] = handshakeState => answered(m)
  <2>1. mState[m] \in HandshakeStates
    BY <1>2 DEF SerialInv, TypeOK
  <2>2. successor(mState[m]) # mState[m]
    BY <2>1 DEF successor, HandshakeStates
  <2> QED
    BY <2>2 DEF SerialInv, answering
<1>7. TypeOK'
  <2>1. 1 \in 0..(MaxRegistered + 1) /\ 0 \in 0..(MaxRegistered + 1)
    BY HandshakeAssumption
  <2> QED
    BY <1>1, <1>4, <1>5, <2>1 DEF SerialInv, TypeOK
<1> QED
  BY <1>1, <1>2, <1>4, <1>5, <1>6, <1>7
     DEF SerialInv, answered, answering, rootsDone

LEMMA EndPassSerialInv ==
    ASSUME SerialInv, NEW w \in waits, EndPass(w[1], w[2])
    PROVE  SerialInv'
<1>1. /\ pc = w[1] /\ todo = {} /\ pc \in waiting
      /\ IF readyCount = Cardinality(registered)
         THEN pc' = w[2] /\ UNCHANGED todo ELSE todo' = registered /\ UNCHANGED pc
      /\ UNCHANGED <<handshakeState, gcStage, clearColor, markColor, readyCount, cycles,
                     registered, mState, mColor, mPc, mSeen, rooted>>
  BY DEF EndPass, allReady, mutatorVars, waits, waiting
<1>2. CASE readyCount = Cardinality(registered)
  <2>1. \A m \in registered : answered(m)
    BY <1>1, <1>2, CardinalityRegistered DEF SerialInv
  <2>2. /\ w[2] \in Pcs /\ posted(w[2]) = posted(w[1]) /\ w[2] \notin waiting
        /\ w[2] \in {"waitAsync", "trace"} \cup afterTracing => w[1] = "waitAsync"
    BY DEF waits, Pcs, posted, waiting, afterTracing
  <2>3. TypeOK'
    BY <1>1, <1>2, <2>2 DEF SerialInv, TypeOK
  <2> QED
    BY <1>1, <1>2, <2>1, <2>2, <2>3 DEF SerialInv, answered, answering, rootsDone
<1>3. CASE readyCount # Cardinality(registered)
  <2>1. readyCount = 0 \/ registered = {}
    <3>1. ASSUME NEW m \in registered PROVE readyCount = 0
      BY <1>1, <1>3, CardinalityRegistered, HandshakeAssumption DEF SerialInv, TypeOK
    <3> QED
      BY <3>1
  <2>2. TypeOK'
    BY <1>1, <1>3 DEF SerialInv, TypeOK
  <2> QED
    BY <1>1, <1>3, <2>1, <2>2 DEF SerialInv, answered, answering, rootsDone
<1> QED
  BY <1>2, <1>3

LEMMA PostStateSerialInv ==
    ASSUME SerialInv, NEW s \in stageSteps, PostState(s[1], s[2], s[3])
    PROVE  SerialInv'
<1>1. /\ pc = s[1] /\ pc' = s[3] /\ gcStage' = s[2]
      /\ UNCHANGED <<handshakeState, clearColor, markColor, todo, readyCount, cycles,
                     registered, mState, mColor, mPc, mSeen, rooted>>
  BY DEF PostState, mutatorVars
<1>2. /\ s[1] \notin waiting /\ s[3] \notin waiting /\ posted(s[3]) = posted(s[1])
      /\ s[2] \in Stages /\ s[3] \in Pcs
      /\ s[3] \in {"waitAsync", "trace"} \cup afterTracing =>
            s[1] \in {"waitAsync", "trace"} \cup afterTracing
  BY DEF stageSteps, waiting, posted, Stages, Pcs, afterTracing
<1>3. TypeOK'
  BY <1>1, <1>2 DEF SerialInv, TypeOK
<1> QED
  BY <1>1, <1>2, <1>3 DEF SerialInv, answered, answering, rootsDone

LEMMA SweepAndToggleSerialInv ==
    ASSUME SerialInv, CollectorSweep \/ ToggleClear \/ ToggleMark
    PROVE  SerialInv'
<1>1. /\ pc \in {"sweep", "toggle", "toggleMark"} /\ pc' \in {"toggle", "toggleMark", "rest"}
      /\ clearColor' \in MarkColors /\ markColor' \in MarkColors
      /\ pc' = "toggle" => pc = "sweep" /\ markColor' = markColor
      /\ UNCHANGED <<handshakeState, gcStage, todo, readyCount, cycles,
                     registered, mState, mColor, mPc, mSeen, rooted>>
  BY OppositeColor
     DEF CollectorSweep, ToggleClear, ToggleMark, mutatorVars, SerialInv, TypeOK
<1>2. TypeOK'
  BY <1>1 DEF SerialInv, TypeOK, Pcs
<1> QED
  BY <1>1, <1>2
     DEF SerialInv, posted, answered, answering, rootsDone, waiting, afterTracing

-----------------------------------------------------------------------------
(***************************************************************************)
(* The mutator's steps: it only ever leaves "run" while the collector      *)
(* waits for it, and the states it moves between are one post apart.       *)
(***************************************************************************)
LEMMA AnsweringMutator ==
    ASSUME SerialInv, NEW m \in Mutators,
           mPc[m] # "run" \/ (m \in registered /\ mState[m] # handshakeState)
    PROVE  /\ registered = {m} /\ answering(m) /\ ~answered(m)
           /\ mState[m] # handshakeState
           /\ pc \in waiting => readyCount = 0
<1>1. m \in registered
  BY DEF SerialInv
<1>2. registered = {m}
  BY <1>1, CardinalityRegistered DEF SerialInv
<1>3. answering(m) /\ ~answered(m)
  BY <1>1 DEF SerialInv, answered
<1>4. mState[m] # handshakeState
  BY <1>3 DEF answering, successor, SerialInv, TypeOK, HandshakeStates
<1>5. pc \in waiting => readyCount = 0
  BY <1>1, <1>3, HandshakeAssumption DEF SerialInv, TypeOK
<1> QED
  BY <1>2, <1>3, <1>4, <1>5

LEMMA HandshakeCollectorSerialInv ==
    ASSUME SerialInv, NEW m \in Mutators, HandshakeCollector(m)
    PROVE  SerialInv'
<1>1. /\ UNCHANGED <<pc, handshakeState, gcStage, clearColor, markColor, todo,
                     readyCount, cycles, registered>>
  BY DEF HandshakeCollector, LoadState, MarkGlobalRoot, SetAllocationColor, StoreState,
     collectorVars
<1>2. /\ registered = {m} /\ answering(m) /\ ~answered(m)
      /\ pc \in waiting /\ readyCount = 0
  BY AnsweringMutator
     DEF HandshakeCollector, LoadState, MarkGlobalRoot, SetAllocationColor, StoreState,
         answering
<1>3. SUFFICES /\ TypeOK'
               /\ answered(m)' \/ answering(m)'
               /\ answered(m)' /\ pc = "waitAsync" => rootsDone(m)'
               /\ \A n \in Mutators \ {m} : mState'[n] = mState[n] /\ mPc'[n] = mPc[n]
  BY <1>1, <1>2 DEF SerialInv, waiting, afterTracing
<1>4. CASE LoadState(m)
  <2>1. /\ mSeen' = [mSeen EXCEPT ![m] = handshakeState]
        /\ mPc' = [mPc EXCEPT ![m] = IF mState[m] = "SYNC2" THEN "root" ELSE "store"]
        /\ UNCHANGED <<mState, mColor, rooted>>
    BY <1>4 DEF LoadState
  <2> QED
    BY <1>1, <1>2, <2>1 DEF SerialInv, TypeOK, answered, answering
<1>5. CASE MarkGlobalRoot(m)
  <2>1. /\ mPc[m] = "root" /\ rooted' = rooted \cup {m}
        /\ mPc' = [mPc EXCEPT ![m] = "color"]
        /\ UNCHANGED <<mState, mColor, mSeen>>
    BY <1>5 DEF MarkGlobalRoot
  <2> QED
    BY <1>1, <1>2, <2>1 DEF SerialInv, TypeOK, answered, answering
<1>6. CASE SetAllocationColor(m)
  <2>1. /\ mPc[m] = "color" /\ mColor' = [mColor EXCEPT ![m] = markColor]
        /\ mPc' = [mPc EXCEPT ![m] = "store"]
        /\ UNCHANGED <<mState, mSeen, rooted>>
    BY <1>6 DEF SetAllocationColor
  <2> QED
    BY <1>1, <1>2, <2>1 DEF SerialInv, TypeOK, answered, answering
<1>7. CASE StoreState(m)
  <2>1. /\ mPc[m] = "store" /\ mState' = [mState EXCEPT ![m] = mSeen[m]]
        /\ mPc' = [mPc EXCEPT ![m] = "run"]
        /\ UNCHANGED <<mColor, mSeen, rooted>>
    BY <1>7 DEF StoreState
  <2>2. TypeOK'
    BY <1>1, <2>1 DEF SerialInv, TypeOK
  <2>3. answered(m)' /\ mSeen[m] = handshakeState
    BY <1>1, <1>2, <2>1 DEF SerialInv, TypeOK, answered, answering
  <2>4. pc = "waitAsync" => mState[m] = "SYNC2"
    BY <1>2 DEF SerialInv, answering, posted, successor, TypeOK, HandshakeStates
  <2>5. pc = "waitAsync" => rootsDone(m)'
    BY <1>1, <1>2, <2>1, <2>4 DEF answering, rootsDone
  <2>6. \A n \in Mutators \ {m} : mState'[n] = mState[n] /\ mPc'[n] = mPc[n]
    BY <2>1 DEF SerialInv, TypeOK
  <2> QED
    BY <2>2, <2>3, <2>5, <2>6
<1> QED
  BY <1>4, <1>5, <1>6, <1>7 DEF HandshakeCollector

-----------------------------------------------------------------------------
LEMMA NextSerialInv ==
    ASSUME MaxRegistered <= 1, SerialInv, [Next]_vars
    PROVE  SerialInv'
<1>1. ASSUME NEW m \in Mutators, RegisterMutator(m) PROVE SerialInv'
  BY <1>1, RegisterSerialInv
<1>2. ASSUME NEW m \in Mutators, UnregisterMutator(m) PROVE SerialInv'
  BY <1>2, UnregisterSerialInv
<1>3. ASSUME NEW m \in Mutators, HandshakeCollector(m) PROVE SerialInv'
  BY <1>3, HandshakeCollectorSerialInv
<1>4. CASE StageClear
  BY <1>4, StageClearSerialInv
<1>5. CASE Collector
  BY <1>5, PostHandshakeSerialInv, CheckMutatorSerialInv, EndPassSerialInv,
     PostStateSerialInv, SweepAndToggleSerialInv DEF Collector
<1>6. CASE UNCHANGED vars
  BY <1>6 DEF vars, collectorVars, mutatorVars, SerialInv, TypeOK, answered, answering,
     rootsDone
<1> QED
  BY <1>1, <1>2, <1>3, <1>4, <1>5, <1>6 DEF Next

LEMMA SerialInvariant ==
    ASSUME MaxRegistered <= 1
    PROVE  Spec => []SerialInv
<1>1. SerialInv /\ [Next]_vars => SerialInv'
  BY NextSerialInv
<1> QED
  BY InitSerialInv, <1>1, PTL DEF Spec

(***************************************************************************)
(* With one mutator at a time, waitHandshake (lines 160-170) returns only  *)
(* when that mutator has moved to the posted state, and no step of its     *)
(* handshake is pending.                                                   *)
(***************************************************************************)
THEOREM SerialHandshakeAgreed ==
    ASSUME MaxRegistered <= 1
    PROVE  Spec => []HandshakeAgreed
<1>1. SerialInv => HandshakeAgreed
  <2>1. ASSUME SerialInv, pc \notin waiting, NEW m \in registered
        PROVE  mState[m] = agreedOn(pc) /\ mPc[m] = "run"
    <3>1. answered(m) /\ handshakeState = posted(pc)
      BY <2>1 DEF SerialInv, answering
    <3>2. posted(pc) = agreedOn(pc)
      BY <2>1 DEF posted, agreedOn, waiting
    <3> QED
      BY <3>1, <3>2 DEF answered
  <2> QED
    BY <2>1 DEF HandshakeAgreed
<1> QED
  BY <1>1, SerialInvariant, PTL

(***************************************************************************)
(* With one mutator at a time, its roots are marked before collectorTrace  *)
(* runs and it allocates in markColor until the colors are toggled.        *)
(***************************************************************************)
THEOREM SerialRootsBeforeTrace ==
    ASSUME MaxRegistered <= 1
    PROVE  Spec => []RootsAndColorBeforeTrace
<1>1. SerialInv => RootsAndColorBeforeTrace
  BY DEF SerialInv, RootsAndColorBeforeTrace, answering, rootsDone, waiting, afterTracing
<1> QED
  BY <1>1, SerialInvariant, PTL

(***************************************************************************)
(* With one mutator at a time, no mutator skips sync2 or its root marking: *)
(* each step of handshakeCollector moves it to the next state.             *)
(***************************************************************************)
THEOREM SerialStatesInOrder ==
    ASSUME MaxRegistered <= 1
    PROVE  Spec => StatesInOrder
<1> DEFINE InOrder == \A m \in Mutators :
                        mState'[m] # mState[m] => mState'[m] = successor(mState[m])
<1>1. SerialInv /\ [Next]_vars => [InOrder]_vars
  <2> SUFFICES ASSUME SerialInv, Next PROVE InOrder
    OBVIOUS
  <2>1. ASSUME NEW m \in Mutators, StoreState(m) PROVE InOrder
    <3>1. answering(m) /\ mSeen[m] = handshakeState
      BY <2>1, AnsweringMutator DEF StoreState, answering
    <3> QED
      BY <2>1, <3>1 DEF StoreState, answering, SerialInv, TypeOK
  <2>2. ASSUME UNCHANGED mState PROVE InOrder
    BY <2>2
  <2>3. \/ UNCHANGED mState
        \/ \E m \in Mutators : StoreState(m)
    BY DEF Next, RegisterMutator, UnregisterMutator, HandshakeCollector, LoadState,
       MarkGlobalRoot, SetAllocationColor, StageClear, Collector, PostHandshake,
       CheckMutator, EndPass, PostState, CollectorSweep, ToggleClear, ToggleMark,
       mutatorVars
  <2> QED
    BY <2>1, <2>2, <2>3
<1> QED
  BY <1>1, SerialInvariant, PTL DEF Spec, StatesInOrder
=============================================================================
