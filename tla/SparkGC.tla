------------------------------ MODULE SparkGC ------------------------------
(***************************************************************************)
(* SparkGC's collector and a mutator on a graph of objects: allocation in  *)
(* the mutator's color, root marking into the mutator's mark buffer, the   *)
(* trace, the sweep and what the color toggle makes of the survivors       *)
(* (SparkGC.cpp, SparkMutator.cpp, CollectedObject.cpp), on top of the     *)
(* handshakes of Handshake.tla.                                            *)
(*                                                                         *)
(* The library is used as SimpleVM uses it: a mutator asks for a           *)
(* collection and only answers handshakes until collect() has returned,    *)
(* and nobody collects while an unregistered mutator still has roots.  The *)
(* heap is an Allocator (Allocator.tla) of places for objects: any free    *)
(* place may be handed out.                                                *)
(***************************************************************************)
EXTENDS Integers, Sequences, FiniteSets, Functions

CONSTANTS Mutators, MaxRegistered, MaxCycles,    \* see Handshake
          Places,      \* heap offsets of the places for objects
          heapSize, ALIGN, SWEEP_THREADS,   \* SPARK_GC_ALIGN, SPARK_GC_SWEEP_THREADS
          MaxStack,    \* bound: roots of a mutator
          MaxPointers  \* bound: pointers stored in objects

ASSUME SparkGCAssumption ==
    /\ Mutators \subseteq Nat /\ IsFiniteSet(Mutators)
    /\ MaxRegistered \in Nat /\ MaxCycles \in Nat
    /\ ALIGN \in Nat \ {0} /\ SWEEP_THREADS \in Nat \ {0} /\ heapSize \in Nat
    /\ Places \subseteq 0..(heapSize - 1) /\ \A o \in Places : o % ALIGN = 0
    /\ MaxStack \in Nat /\ MaxPointers \in Nat

VARIABLES
    pc, handshakeState, gcStage, clearColor, markColor, todo, readyCount, registered,
    mState, mColor, mPc, mSeen, rooted, cycles,   \* see Handshake
    objects,    \* places that hold an object
    color,      \* heapColors
    slots,      \* the pointers in each object ever constructed: a freed one keeps them
    stack,      \* the roots of each mutator, the most recent first
    marking,    \* how many of its roots a mutator in markGlobalRoot has looked at
    markBuffer, lastRead, lastWrite,   \* of each mutator
    gray,       \* SparkGC::markBuffer; its order and duplicates change nothing
    traced,     \* ghost: places marked black by this collection
    grayed,     \* ghost: what each mutator put in its buffer for this collection
    stray       \* ghost: places read from beyond the end of a mark buffer

H == INSTANCE Handshake

heapVars  == <<objects, color, slots>>
bufferVars == <<marking, markBuffer, lastWrite>>
rootVars  == <<stack, bufferVars>>
traceVars == <<lastRead, gray, traced, stray>>
controlVars   == <<handshakeState, gcStage, clearColor, markColor, todo, readyCount, registered,
                   mState, mColor, mPc, mSeen, rooted, cycles>>
handshakeVars == <<pc, controlVars>>
vars == <<handshakeVars, heapVars, rootVars, traceVars, grayed>>

Init ==
    /\ H!Init
    /\ objects = {}
    /\ color = [o \in Places |-> "BLUE"]
    /\ slots = << >>
    /\ stack = [m \in Mutators |-> << >>]
    /\ marking = [m \in Mutators |-> 0]
    /\ markBuffer = [m \in Mutators |-> << >>]
    /\ lastRead = [m \in Mutators |-> 0] /\ lastWrite = [m \in Mutators |-> 0]
    /\ gray = {} /\ traced = {} /\ stray = {}
    /\ grayed = [m \in Mutators |-> << >>]

-----------------------------------------------------------------------------
(***************************************************************************)
(* The mutator, between collections.                                       *)
(***************************************************************************)
pointers(s) == {e \in Places \X Places : e[1] \in DOMAIN s /\ e[2] \in s[e[1]]}

\* The places that are n pointers in the objects away from a set of places or
\* nearer, for each n, and those that can be reached at all.
within(roots) ==
    LET near[n \in 0..Cardinality(Places)] ==
            IF n = 0 THEN roots
            ELSE LET nearer == near[n - 1] IN nearer \cup UNION {slots[o] : o \in nearer}
    IN  near

reach(roots) == within(roots)[Cardinality(Places)]

reachable(m) == reach(Range(stack[m]))
live == UNION {reachable(m) : m \in registered}

running(m) == m \in registered /\ pc = "resting" /\ mPc[m] = "run"

\* SparkMutator::allocate, the constructor and the push of the new object.
\* (When nothing is free, setColor(nullptr) throws and nothing has changed.)
Allocate(m, o) ==
    /\ running(m)
    /\ o \notin objects
    /\ Len(stack[m]) < MaxStack
    /\ objects' = objects \cup {o}
    /\ color' = [color EXCEPT ![o] = mColor[m]]
    /\ slots' = [p \in DOMAIN slots \cup {o} |-> IF p = o THEN {} ELSE slots[p]]
    /\ stack' = [stack EXCEPT ![m] = <<o>> \o @]
    /\ UNCHANGED <<handshakeVars, bufferVars, traceVars, grayed>>

Pop(m) ==
    /\ running(m)
    /\ stack[m] # << >>
    /\ stack' = [stack EXCEPT ![m] = Tail(@)]
    /\ UNCHANGED <<handshakeVars, heapVars, bufferVars, traceVars, grayed>>

\* A pointer is stored or overwritten: the write barrier shades only while a
\* handshake or a trace is on.
Link(m, o, p) ==
    /\ running(m)
    /\ {o, p} \subseteq reachable(m) \cap objects
    /\ p \notin slots[o] /\ Cardinality(pointers(slots)) < MaxPointers
    /\ slots' = [slots EXCEPT ![o] = @ \cup {p}]
    /\ UNCHANGED <<handshakeVars, objects, color, rootVars, traceVars, grayed>>

Unlink(m, o, p) ==
    /\ running(m)
    /\ o \in reachable(m) \cap objects
    /\ p \in slots[o]
    /\ slots' = [slots EXCEPT ![o] = @ \ {p}]
    /\ UNCHANGED <<handshakeVars, objects, color, rootVars, traceVars, grayed>>

-----------------------------------------------------------------------------
(***************************************************************************)
(* Handshakes, and the root marking in the last one.                       *)
(***************************************************************************)
rootsOfOthers == UNION {Range(stack[m]) : m \in Mutators \ registered}

\* Mutant of StageClear: the mutators' buffers are read again from the start.
StageClearRewind ==
    /\ rootsOfOthers = {}
    /\ H!StageClear
    /\ gray' = {}
    /\ traced' = {} /\ grayed' = [m \in Mutators |-> << >>]
    /\ lastRead' = [m \in Mutators |-> 0]
    /\ UNCHANGED <<heapVars, rootVars, stray>>

StageClear ==
    /\ rootsOfOthers = {}
    /\ H!StageClear
    /\ gray' = {}
    /\ traced' = {} /\ grayed' = [m \in Mutators |-> << >>]
    /\ UNCHANGED <<heapVars, rootVars, lastRead, stray>>

isClear(o) == color[o] = clearColor

\* SimpleVM's markGlobalRoot: markGray each root in turn.
MarkGray(m) ==
    LET o == stack[m][marking[m] + 1]
        buffer == markBuffer[m] IN
    /\ pc # "crashed"
    /\ mPc[m] = "root" /\ marking[m] < Len(stack[m])
    /\ marking' = [marking EXCEPT ![m] = @ + 1]
    /\ IF isClear(o)
       THEN /\ IF lastWrite[m] >= Len(buffer)
               THEN /\ markBuffer' = [markBuffer EXCEPT ![m] = Append(buffer, o)]
                    /\ lastWrite' = [lastWrite EXCEPT ![m] = Len(buffer) + 1]
               ELSE /\ markBuffer' = [markBuffer EXCEPT ![m][lastWrite[m] + 1] = o]
                    /\ lastWrite' = [lastWrite EXCEPT ![m] = @ + 1]
            /\ grayed' = [grayed EXCEPT ![m] = Append(@, o)]
       ELSE UNCHANGED <<markBuffer, lastWrite, grayed>>
    /\ UNCHANGED <<handshakeVars, heapVars, stack, traceVars>>

MarkGlobalRoot(m) ==
    /\ pc # "crashed"
    /\ H!MarkGlobalRoot(m)
    /\ marking[m] = Len(stack[m])
    /\ marking' = [marking EXCEPT ![m] = 0]
    /\ UNCHANGED <<heapVars, stack, markBuffer, lastWrite, traceVars, grayed>>

HandshakeStep ==
    /\ \/ \E p \in H!posts : H!PostHandshake(p[1], p[2], p[3])
       \/ H!CheckMutator
       \/ \E w \in H!waits : H!EndPass(w[1], w[2])
       \/ \E s \in H!stageSteps : s[1] # "trace" /\ H!PostState(s[1], s[2], s[3])
       \/ H!ToggleClear
       \/ H!ToggleMark
    /\ UNCHANGED <<heapVars, rootVars, traceVars, grayed>>

MutatorStep(m) ==
    /\ pc # "crashed"
    /\ \/ H!RegisterMutator(m)
       \/ H!UnregisterMutator(m)
       \/ H!LoadState(m)
       \/ H!SetAllocationColor(m)
       \/ H!StoreState(m)
    /\ UNCHANGED <<heapVars, rootVars, traceVars, grayed>>

-----------------------------------------------------------------------------
(***************************************************************************)
(* The trace.                                                              *)
(***************************************************************************)

\* Mutant of grayChildren: forgets that the toggle changes the clear color.
grayWhiteChildren(o) == {p \in slots[o] : color[p] = "WHITE"}

\* Places whose marking the object at o asks for (markChildren through
\* ColorMarker::mark, collectorMarkGray).
grayChildren(o) == {p \in slots[o] : isClear(p)}

\* Mutant of CollectorMarkBlack: the object is not colored.
MarkWithoutColor(o, others) ==
    IF color[o] # markColor
    THEN /\ gray' = others \cup grayChildren(o)
         /\ traced' = traced \cup {o}
         /\ UNCHANGED color
    ELSE gray' = others /\ UNCHANGED <<color, traced>>

CollectorMarkBlack(o, others) ==
    IF color[o] # markColor
    THEN /\ gray' = others \cup grayChildren(o)
         /\ color' = [color EXCEPT ![o] = markColor]
         /\ traced' = traced \cup {o}
    ELSE gray' = others /\ UNCHANGED <<color, traced>>

\* Mutant of unread: one entry too many.
unreadOrLast(m) == lastRead[m] <= lastWrite[m]

unread(m) == lastRead[m] < lastWrite[m]

\* Mutant of readIndex: incremented twice.
readIndexTwice(m) == lastRead[m] + 2 + 1

\* The index is incremented before it is used; +1 for TLA+'s sequences.
readIndex(m) == lastRead[m] + 1 + 1

TraceBuffer(m) ==
    /\ pc = "trace" /\ gray = {}
    /\ m \in registered /\ unread(m)
    /\ lastRead' = [lastRead EXCEPT ![m] = @ + 1]
    /\ readIndex(m) <= Len(markBuffer[m])
    /\ CollectorMarkBlack(markBuffer[m][readIndex(m)], {})
    /\ UNCHANGED <<handshakeVars, objects, slots, rootVars, stray, grayed>>

\* Beyond the buffer's end is whatever malloc left there: the address of an
\* object, perhaps one freed since, or a value that offsetOf or the bitmap
\* rejects with an exception, which ends the process.
TraceBeyondBuffer(m) ==
    /\ pc = "trace" /\ gray = {}
    /\ m \in registered /\ unread(m)
    /\ lastRead' = [lastRead EXCEPT ![m] = @ + 1]
    /\ readIndex(m) > Len(markBuffer[m])
    /\ \/ \E o \in DOMAIN slots :
            /\ CollectorMarkBlack(o, {})
            /\ stray' = stray \cup {o}
            /\ UNCHANGED handshakeVars
       \/ /\ pc' = "crashed"
          /\ UNCHANGED <<controlVars, color, gray, traced, stray>>
    /\ UNCHANGED <<objects, slots, rootVars, grayed>>

EmptyMarkBuffer ==
    /\ pc = "trace"
    /\ \E o \in gray : CollectorMarkBlack(o, gray \ {o})
    /\ UNCHANGED <<handshakeVars, objects, slots, rootVars, lastRead, stray, grayed>>

TraceDone ==
    /\ gray = {}
    /\ \A m \in registered : ~unread(m)
    /\ H!PostState("trace", "REF_PROCESSING", "startSweep")
    /\ UNCHANGED <<heapVars, rootVars, traceVars, grayed>>

-----------------------------------------------------------------------------
(***************************************************************************)
(* The sweep: SWEEP_THREADS slices, scanned one after the other on the     *)
(* collector's own thread.  totalMove counts the aligned places of the     *)
(* heap, and eachMove, a slice's share of them, is added to addresses.     *)
(***************************************************************************)
totalMove == heapSize \div ALIGN
eachMove  == totalMove \div SWEEP_THREADS

slice(i) == {o \in Places : /\ i * eachMove <= o /\ o < (i + 1) * eachMove
                            /\ (o - i * eachMove) % ALIGN = 0}

scanned == UNION {slice(i) : i \in 0..(SWEEP_THREADS - 1)}

\* Mutants of freed: white for clear; the first thread's result is forgotten.
freedWhite == {o \in scanned : color[o] = "WHITE"}
freedLater == {o \in UNION {slice(i) : i \in 1..(SWEEP_THREADS - 1)} : isClear(o)}

freed == {o \in scanned : isClear(o)}

\* Mutant of CollectorSweep: the freed memory keeps its color.
SweepWithoutBlue ==
    /\ H!CollectorSweep
    /\ objects' = objects \ freed
    /\ UNCHANGED <<color, slots, rootVars, traceVars, grayed>>

CollectorSweep ==
    /\ H!CollectorSweep
    /\ color' = [o \in Places |-> IF o \in freed THEN "BLUE" ELSE color[o]]
    /\ objects' = objects \ freed
    /\ UNCHANGED <<slots, rootVars, traceVars, grayed>>

\* memoryFreed may find no block for a freed object (CollectedHeap.tla): its
\* exception ends the process.
SweepThrows ==
    /\ pc = "sweep"
    /\ freed # {}
    /\ pc' = "crashed"
    /\ UNCHANGED <<controlVars, heapVars, rootVars, traceVars, grayed>>

Collector ==
    \/ HandshakeStep
    \/ \E m \in Mutators : TraceBuffer(m) \/ TraceBeyondBuffer(m)
    \/ EmptyMarkBuffer
    \/ TraceDone
    \/ CollectorSweep
    \/ SweepThrows

Answer(m) == (H!HandshakeCollector(m) /\ MutatorStep(m)) \/ MarkGray(m) \/ MarkGlobalRoot(m)

Next ==
    \/ \E m \in Mutators :
        \/ \E o \in Places : Allocate(m, o)
        \/ Pop(m)
        \/ \E o, p \in Places : Link(m, o, p) \/ Unlink(m, o, p)
        \/ MutatorStep(m)
        \/ MarkGray(m)
        \/ MarkGlobalRoot(m)
    \/ StageClear
    \/ Collector

Spec == Init /\ [][Next]_vars

\* As in Handshake: a running collector runs on, and the mutator answers.
FairSpec == Spec /\ WF_vars(Collector) /\ \A m \in Mutators : WF_vars(Answer(m))

-----------------------------------------------------------------------------
(***************************************************************************)
(* Type invariant.                                                         *)
(***************************************************************************)
TypeOK ==
    /\ pc = "crashed" \/ H!TypeOK
    /\ objects \subseteq DOMAIN slots /\ DOMAIN slots \subseteq Places
    /\ \A o \in DOMAIN slots : slots[o] \subseteq DOMAIN slots
    /\ color \in [Places -> {"BLUE"} \cup H!MarkColors]
    /\ \A m \in Mutators :
         /\ Len(stack[m]) <= MaxStack /\ marking[m] \in 0..Len(stack[m])
         /\ Range(stack[m]) \cup Range(markBuffer[m]) \subseteq DOMAIN slots
         /\ lastRead[m] <= lastWrite[m] /\ lastWrite[m] = Len(markBuffer[m])
    /\ gray \subseteq DOMAIN slots /\ traced \subseteq DOMAIN slots
    /\ stray \subseteq DOMAIN slots

(***************************************************************************)
(* Blue is "memory that is unallocated" (SparkGC_Shared.h:53): an object   *)
(* is never blue, or it would be neither marked nor swept, and free memory *)
(* is blue unless a read beyond a mark buffer had it marked.               *)
(***************************************************************************)
BlueIsUnallocated ==
    \A o \in Places : /\ o \in objects => color[o] # "BLUE"
                      /\ o \notin objects \cup stray => color[o] = "BLUE"

(***************************************************************************)
(* When the trace is over, what this collection marked points to nothing   *)
(* that is still clear: no child of a marked object is swept, whatever the *)
(* shape of the graph and whatever a stray read had marked.                *)
(***************************************************************************)
TracedClosed ==
    pc \in {"startSweep", "sweep"} => \A o \in traced : \A p \in slots[o] : ~isClear(p)

(***************************************************************************)
(* The trace loses the first root a mutator put in its buffer (lastRead is *)
(* incremented before it is used, SparkGC.cpp:50) and no other.            *)
(***************************************************************************)
OnlyFirstRootLost ==
    pc \in {"startSweep", "sweep"} =>
        \A m \in registered : \A i \in 2..Len(grayed[m]) : grayed[m][i] \in traced

(***************************************************************************)
(* The collector marks only what a root reaches, in this cycle and not in  *)
(* an earlier one, except through a stray read: garbage is not kept alive  *)
(* by what is left in a mark buffer that never shrinks.                    *)
(***************************************************************************)
TracePrecise ==
    pc \in {"trace", "startSweep", "sweep"} => traced \subseteq live \cup reach(stray)

(***************************************************************************)
(* An object this collection marked, or created in its mark color, is not  *)
(* freed by it.                                                            *)
(***************************************************************************)
MarkedSurvives ==
    [][\A o \in objects \ objects' : o \notin traced /\ color[o] # markColor]_vars

(***************************************************************************)
(* The toggle makes every survivor in the scanned part of the heap clear   *)
(* for the next collection, without touching it ("the color of all black   *)
(* (marked) objects must be reset", SparkGC.cpp:137): were one left in the *)
(* mark color, the next collection would not trace it.                     *)
(***************************************************************************)
SurvivorsAreClear ==
    pc = "rest" => \A o \in objects \cap scanned : isClear(o)

(***************************************************************************)
(* A collection that was started ends, unless the process does: the trace  *)
(* of a finite graph, cycles included, terminates.                         *)
(***************************************************************************)
CollectionEnds == (pc # "resting") ~> (pc \in {"resting", "crashed"})

-----------------------------------------------------------------------------
(***************************************************************************)
(* What a comment says and a run refutes.                                  *)
(***************************************************************************)

(***************************************************************************)
(* "Memory left white after the collector has completed tracing is         *)
(* garbage" (SparkGC_Shared.h:59), white being the clear color: nothing    *)
(* that is still clear can be reached from a root.                         *)
(***************************************************************************)
ClearIsGarbage ==
    pc \in {"startSweep", "sweep"} => \A o \in live \cap objects : ~isClear(o)
=============================================================================
