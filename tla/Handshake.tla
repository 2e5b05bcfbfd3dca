----------------------------- MODULE Handshake -----------------------------
(***************************************************************************)
(* SparkGC's collection cycle and its handshakes with the mutators, thread *)
(* by thread: SparkGC::collect with its stages, waitHandshake, the color   *)
(* toggle (SparkGC.cpp), and SparkMutator::handshakeCollector              *)
(* (SparkMutator.cpp).  Each load or store of a variable another thread    *)
(* uses is a step: the code has no lock and no atomic.  What tracing and   *)
(* sweeping do to objects is in SparkGC.tla.                               *)
(*                                                                         *)
(* Mutators are numbers that stand for their addresses: waitHandshake      *)
(* visits the std::set in ascending order.  They register and unregister   *)
(* while no collection runs (the set itself is not protected), and collect *)
(* is called by one thread at a time.                                      *)
(***************************************************************************)
EXTENDS Integers, FiniteSets

CONSTANTS Mutators,       \* all mutators that may ever register
          MaxRegistered,  \* how many are registered at the same time
          MaxCycles       \* bound: collections in a behaviour

ASSUME HandshakeAssumption ==
    /\ Mutators \subseteq Nat /\ IsFiniteSet(Mutators)
    /\ MaxRegistered \in Nat /\ MaxCycles \in Nat

HandshakeStates == {"SYNC1", "SYNC2", "ASYNC"}
Stages == {"CLEAR_OR_MARKING", "TRACING", "REF_PROCESSING", "SWEEPING", "RESTING"}
MarkColors == {"WHITE", "BLACK"}   \* the two colors that are ever toggled

VARIABLES
    pc,              \* where collect() is, "resting" outside it
    handshakeState, gcStage, clearColor, markColor,   \* SparkGC
    todo,            \* waitHandshake: mutators left in the for loop
    readyCount,      \* waitHandshake's readyCount, see CountReady
    registered,      \* SparkGC::mutators
    mState, mColor,  \* handshakeState and allocationColor of each mutator
    mPc,             \* where each mutator is in handshakeCollector, or "run"
    mSeen,           \* the collector's state it has loaded there
    rooted,          \* mutators that marked their roots in this cycle
    cycles           \* collections so far

collectorVars == <<pc, handshakeState, gcStage, clearColor, markColor, todo, readyCount, cycles>>
mutatorVars   == <<mState, mColor, mPc, mSeen, rooted>>
vars == <<collectorVars, registered, mutatorVars>>

Init ==
    /\ pc = "resting"
    /\ handshakeState = "ASYNC" /\ gcStage = "RESTING"
    /\ clearColor = "WHITE" /\ markColor = "BLACK"
    /\ todo = {} /\ readyCount = 0
    /\ registered = {}
    /\ mState = [m \in Mutators |-> "ASYNC"]
    /\ mColor = [m \in Mutators |-> "WHITE"]
    /\ mPc    = [m \in Mutators |-> "run"]
    /\ mSeen  = [m \in Mutators |-> "ASYNC"]
    /\ rooted = {}
    /\ cycles = 0

-----------------------------------------------------------------------------
\* Mutant of registrationColor: the color of free memory.
unsetColor == "BLUE"

\* Mutant of registrationColor: as SparkGC_Shared.h:113 says, the color to be
\* swept.
documentedColor == clearColor

registrationColor == markColor

RegisterMutator(m) ==
    /\ pc = "resting"
    /\ m \notin registered
    /\ Cardinality(registered) < MaxRegistered
    /\ registered' = registered \cup {m}
    /\ mColor' = [mColor EXCEPT ![m] = registrationColor]
    /\ UNCHANGED <<collectorVars, mState, mPc, mSeen, rooted>>

UnregisterMutator(m) ==
    /\ pc = "resting"
    /\ m \in registered
    /\ mPc[m] = "run"
    /\ registered' = registered \ {m}
    /\ UNCHANGED <<collectorVars, mutatorVars>>

-----------------------------------------------------------------------------
\* stageClear: the stage is posted (weakRefs and markBuffer are emptied).
StageClear ==
    /\ pc = "resting"
    /\ cycles < MaxCycles
    /\ pc' = "postSync1"
    /\ gcStage' = "CLEAR_OR_MARKING"
    /\ cycles' = cycles + 1
    /\ rooted' = {}
    /\ UNCHANGED <<handshakeState, clearColor, markColor, todo, readyCount,
                   registered, mState, mColor, mPc, mSeen>>

\* Mutant of posts: sync2 before sync1.
postsSwapped == {<<"postSync1", "SYNC2", "waitSync1">>,
                 <<"postSync2", "SYNC1", "waitSync2">>,
                 <<"postAsync", "ASYNC", "waitAsync">>}

\* The three posts of a cycle: where they are, the state, the wait after it.
posts == {<<"postSync1", "SYNC1", "waitSync1">>,
          <<"postSync2", "SYNC2", "waitSync2">>,
          <<"postAsync", "ASYNC", "waitAsync">>}

PostHandshake(at, state, wait) ==
    /\ pc = at
    /\ pc' = wait
    /\ handshakeState' = state
    /\ todo' = registered
    /\ readyCount' = 0
    /\ UNCHANGED <<gcStage, clearColor, markColor, cycles, registered, mutatorVars>>

\* waitHandshake ends a pass with the comparison and starts another pass
\* with readyCount as it is.
waits == {<<"waitSync1", "postSync2">>,
          <<"waitSync2", "startTracing">>,
          <<"waitAsync", "trace">>}

first(ms) == CHOOSE m \in ms : \A n \in ms : m <= n

\* readyCount only ever matters as equal to the number of mutators or not:
\* one more than that stands for every larger value.
countReady(n) == IF n > Cardinality(registered) THEN n ELSE n + 1

CheckMutator ==
    /\ \E w \in waits : pc = w[1]
    /\ todo # {}
    /\ todo' = todo \ {first(todo)}
    /\ readyCount' = IF mState[first(todo)] = handshakeState
                     THEN countReady(readyCount) ELSE readyCount
    /\ UNCHANGED <<pc, handshakeState, gcStage, clearColor, markColor, cycles,
                   registered, mutatorVars>>

\* Mutant of allReady: "no more than" for "equal".
notTooMany(n) == n <= Cardinality(registered)

allReady(n) == n = Cardinality(registered)

EndPass(at, next) ==
    /\ pc = at
    /\ todo = {}
    /\ IF allReady(readyCount) THEN pc' = next /\ UNCHANGED todo
                               ELSE todo' = registered /\ UNCHANGED pc
    /\ UNCHANGED <<handshakeState, gcStage, clearColor, markColor, readyCount, cycles,
                   registered, mutatorVars>>

\* The stores to gcStage: postState in stageMark, stageTrace (after the
\* trace), stageSweep and stageDone.
stageSteps == {<<"startTracing", "TRACING", "postAsync">>,
               <<"trace", "REF_PROCESSING", "startSweep">>,
               <<"startSweep", "SWEEPING", "sweep">>,
               <<"rest", "RESTING", "resting">>}

PostState(at, stage, next) ==
    /\ pc = at
    /\ pc' = next
    /\ gcStage' = stage
    /\ UNCHANGED <<handshakeState, clearColor, markColor, todo, readyCount, cycles,
                   registered, mutatorVars>>

CollectorSweep ==
    /\ pc = "sweep"
    /\ pc' = "toggle"
    /\ UNCHANGED <<handshakeState, gcStage, clearColor, markColor, todo, readyCount,
                   cycles, registered, mutatorVars>>

\* std::swap(clearColor, markColor): two stores.  The saved clear color is
\* the one of MarkColors that markColor is not.
opposite(c) == CHOOSE d \in MarkColors : d # c

ToggleClear ==
    /\ pc = "toggle"
    /\ pc' = "toggleMark"
    /\ clearColor' = markColor
    /\ UNCHANGED <<handshakeState, gcStage, markColor, todo, readyCount, cycles,
                   registered, mutatorVars>>

ToggleMark ==
    /\ pc = "toggleMark"
    /\ pc' = "rest"
    /\ markColor' = opposite(markColor)
    /\ UNCHANGED <<handshakeState, gcStage, clearColor, todo, readyCount, cycles,
                   registered, mutatorVars>>

Collector ==
    \/ \E p \in posts : PostHandshake(p[1], p[2], p[3])
    \/ CheckMutator
    \/ \E w \in waits : EndPass(w[1], w[2])
    \/ \E s \in stageSteps : PostState(s[1], s[2], s[3])
    \/ CollectorSweep
    \/ ToggleClear
    \/ ToggleMark

-----------------------------------------------------------------------------
\* Mutant of LoadState: only the first handshake is answered.
LoadStateOnce(m) ==
    /\ m \in registered
    /\ mPc[m] = "run"
    /\ mState[m] = "ASYNC" /\ handshakeState = "SYNC1"
    /\ mSeen' = [mSeen EXCEPT ![m] = handshakeState]
    /\ mPc' = [mPc EXCEPT ![m] = "store"]
    /\ UNCHANGED <<collectorVars, registered, mState, mColor, rooted>>

\* handshakeCollector: load the collector's state; nothing to do if equal.
LoadState(m) ==
    /\ m \in registered
    /\ mPc[m] = "run"
    /\ mState[m] # handshakeState
    /\ mSeen' = [mSeen EXCEPT ![m] = handshakeState]
    /\ mPc' = [mPc EXCEPT ![m] = IF mState[m] = "SYNC2" THEN "root" ELSE "store"]
    /\ UNCHANGED <<collectorVars, registered, mState, mColor, rooted>>

MarkGlobalRoot(m) ==
    /\ mPc[m] = "root"
    /\ rooted' = rooted \cup {m}
    /\ mPc' = [mPc EXCEPT ![m] = "color"]
    /\ UNCHANGED <<collectorVars, registered, mState, mColor, mSeen>>

\* Mutant of SetAllocationColor: the color that is swept.
SetClearColor(m) ==
    /\ mPc[m] = "color"
    /\ mColor' = [mColor EXCEPT ![m] = clearColor]
    /\ mPc' = [mPc EXCEPT ![m] = "store"]
    /\ UNCHANGED <<collectorVars, registered, mState, mSeen, rooted>>

SetAllocationColor(m) ==
    /\ mPc[m] = "color"
    /\ mColor' = [mColor EXCEPT ![m] = markColor]
    /\ mPc' = [mPc EXCEPT ![m] = "store"]
    /\ UNCHANGED <<collectorVars, registered, mState, mSeen, rooted>>

StoreState(m) ==
    /\ mPc[m] = "store"
    /\ mState' = [mState EXCEPT ![m] = mSeen[m]]
    /\ mPc' = [mPc EXCEPT ![m] = "run"]
    /\ UNCHANGED <<collectorVars, registered, mColor, mSeen, rooted>>

HandshakeCollector(m) ==
    \/ LoadState(m)
    \/ MarkGlobalRoot(m)
    \/ SetAllocationColor(m)
    \/ StoreState(m)

Next ==
    \/ \E m \in Mutators :
        \/ RegisterMutator(m)
        \/ UnregisterMutator(m)
        \/ HandshakeCollector(m)
    \/ StageClear
    \/ Collector

Spec == Init /\ [][Next]_vars

(***************************************************************************)
(* A running collector thread keeps running, and a registered mutator      *)
(* keeps calling handshakeCollector while a collection is on, as the loop  *)
(* of SimpleVM::doGCWait does.  Nobody has to start a collection.          *)
(***************************************************************************)
FairSpec == Spec /\ WF_vars(Collector)
                 /\ \A m \in Mutators : WF_vars(HandshakeCollector(m))

-----------------------------------------------------------------------------
(***************************************************************************)
(* Type invariant.                                                         *)
(***************************************************************************)
Pcs == {"resting", "postSync1", "waitSync1", "postSync2", "waitSync2", "startTracing",
        "postAsync", "waitAsync", "trace", "startSweep", "sweep", "toggle", "toggleMark",
        "rest"}

TypeOK ==
    /\ pc \in Pcs
    /\ handshakeState \in HandshakeStates /\ gcStage \in Stages
    /\ clearColor \in MarkColors /\ markColor \in MarkColors
    /\ registered \subseteq Mutators /\ todo \subseteq registered
    /\ readyCount \in 0..(MaxRegistered + 1)
    /\ mState \in [Mutators -> HandshakeStates]
    /\ mColor \in [Mutators -> MarkColors]
    /\ mPc \in [Mutators -> {"run", "root", "color", "store"}]
    /\ mSeen \in [Mutators -> HandshakeStates]
    /\ rooted \subseteq Mutators
    /\ cycles \in 0..MaxCycles

(***************************************************************************)
(* When waitHandshake returns, every registered mutator has answered that  *)
(* post and none is halfway through answering another (SparkGC_Shared.h:92 *)
(* and :98, "after all mutators have moved into sync1", "once all threads  *)
(* are in sync2").                                                         *)
(***************************************************************************)
agreedOn(p) ==
    IF p = "postSync2" THEN "SYNC1"
    ELSE IF p \in {"startTracing", "postAsync"} THEN "SYNC2"
    ELSE "ASYNC"

waiting == {"waitSync1", "waitSync2", "waitAsync"}

HandshakeAgreed ==
    pc \notin waiting =>
        \A m \in registered : mState[m] = agreedOn(pc) /\ mPc[m] = "run"

(***************************************************************************)
(* Every mutator has marked its roots before tracing starts, and allocates *)
(* in the color that survives this cycle's sweep from then until the       *)
(* colors are toggled (SparkGC_Shared.h:102 and :107).                     *)
(***************************************************************************)
afterTracing == {"startSweep", "sweep", "toggle"}

RootsAndColorBeforeTrace ==
    pc \in {"trace"} \cup afterTracing =>
        \A m \in registered : m \in rooted /\ mColor[m] = markColor

(***************************************************************************)
(* A mutator moves through the states in order, one post behind at most:   *)
(* it never goes from one state to the one after the next, nor back, which *)
(* would skip the root marking or the sync2 "tripwire".                    *)
(***************************************************************************)
successor(s) == IF s = "ASYNC" THEN "SYNC1" ELSE IF s = "SYNC1" THEN "SYNC2" ELSE "ASYNC"

StatesInOrder ==
    [][\A m \in Mutators : mState'[m] # mState[m] => mState'[m] = successor(mState[m])]_vars

(***************************************************************************)
(* A collection that was started ends.                                     *)
(***************************************************************************)
CollectionEnds == pc # "resting" ~> pc = "resting"

(***************************************************************************)
(* The inductive invariant for at most one registered mutator, the case in *)
(* which counting without resetting is right: readyCount becomes 1 only    *)
(* when the mutator has answered, and the pass then ends the wait.         *)
(***************************************************************************)
posted(p) ==
    IF p \in {"waitSync1", "postSync2"} THEN "SYNC1"
    ELSE IF p \in {"waitSync2", "startTracing", "postAsync"} THEN "SYNC2"
    ELSE "ASYNC"

answered(m) == mState[m] = handshakeState /\ mPc[m] = "run"

answering(m) ==
    /\ pc \in waiting
    /\ successor(mState[m]) = handshakeState
    /\ mPc[m] # "run" => mSeen[m] = handshakeState
    /\ mPc[m] \in {"root", "color"} => mState[m] = "SYNC2"
    /\ mState[m] = "SYNC2" /\ mPc[m] \in {"color", "store"} => m \in rooted
    /\ mState[m] = "SYNC2" /\ mPc[m] = "store" => mColor[m] = markColor

rootsDone(m) == m \in rooted /\ mColor[m] = markColor

SerialInv ==
    /\ TypeOK
    /\ \A m, n \in registered : m = n
    /\ handshakeState = posted(pc)
    /\ \A m \in Mutators \ registered : mState[m] = "ASYNC" /\ mPc[m] = "run"
    /\ \A m \in registered : answered(m) \/ answering(m)
    /\ pc \in waiting => /\ readyCount <= 1
                         /\ readyCount = 1 => /\ todo = {}
                                              /\ \A m \in registered : answered(m)
    /\ pc \notin waiting => todo = {}
    /\ pc \in {"waitAsync", "trace"} \cup afterTracing =>
           \A m \in registered : answered(m) => rootsDone(m)

-----------------------------------------------------------------------------
(***************************************************************************)
(* What SparkGC_Shared.h says and a run refutes.                           *)
(***************************************************************************)

(***************************************************************************)
(* "After all mutators have moved into sync1, the collector sets its       *)
(* status to GC_SYNC2" (:92): not before.                                  *)
(***************************************************************************)
Sync2AfterAllInSync1 ==
    pc = "postSync2" => \A m \in registered : mState[m] = "SYNC1"
=============================================================================
