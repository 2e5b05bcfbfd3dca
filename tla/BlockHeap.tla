----------------------------- MODULE BlockHeap -----------------------------
(***************************************************************************)
(* CollectedHeap with its two lists of blocks as sets: which block an      *)
(* allocation takes and what memoryFreed does to the blocks do not depend  *)
(* on the order of the lists, except for one thing, whether searchBlock    *)
(* finds the block of a swept object.  Here the search either finds the    *)
(* block that contains the address or fails; CollectedHeap.tla keeps the   *)
(* lists in order and computes which.                                      *)
(*                                                                         *)
(* memoryFreed is one step per swept object, because a failing search      *)
(* stops it halfway.  The heap is used by one thread at a time: in the     *)
(* code nothing else protects the lists.                                   *)
(***************************************************************************)
EXTENDS HeapBlock

CONSTANT RawSizes    \* the sizes mutators ask for (sizeof of their objects)

ASSUME RawSizesAssumption == RawSizes \subseteq Nat \ {0}

VARIABLES
    heapUnUsedStart, heapUnusedSize,
    partiallyFreeBlocks, fullBlocks,
    objects,          \* ghost: objects allocated and not yet swept
    pc,               \* "idle", "freeing" (inside memoryFreed) or "failed"
    free,             \* memoryFreed's argument: swept objects still to handle
    all, newPartially \* memoryFreed's locals

lists   == <<partiallyFreeBlocks, fullBlocks>>
unused  == <<heapUnUsedStart, heapUnusedSize>>
locals  == <<free, all, newPartially>>
vars    == <<unused, lists, objects, pc, locals>>

-----------------------------------------------------------------------------
\* Mutant of newBlockFromUnused: takes the bytes unchecked.
takeUnchecked(size) ==
    /\ heapUnusedSize' = heapUnusedSize - size
    /\ heapUnUsedStart' = heapUnUsedStart + size

\* newBlockFromUnused takes size bytes from the never used end of the heap.
newBlockFromUnused(size) ==
    /\ heapUnusedSize >= size
    /\ heapUnusedSize' = heapUnusedSize - size
    /\ heapUnUsedStart' = heapUnUsedStart + size

\* Constructor and createBlockTree: one partially free block to begin with.
Init ==
    /\ heapUnUsedStart = BLOCK
    /\ heapUnusedSize = heapSize - BLOCK
    /\ partiallyFreeBlocks = {newHeapBlock(0, BLOCK)}
    /\ fullBlocks = {}
    /\ objects = {}
    /\ pc = "idle"
    /\ free = {} /\ all = {} /\ newPartially = {}

\* Sorting the blocks that can afford the size and taking the first.
bestFits(size) == {b \in partiallyFreeBlocks : canAfford(b, size)}
selected(size) == {b \in bestFits(size) : \A c \in bestFits(size) : ~lessThan(c, b)}

AllocateFromBlock(raw) ==
    LET size == align(raw) IN
    /\ pc = "idle"
    /\ ~isLargeObject(size)
    /\ \E b \in selected(size) :
         LET after == afterAllocate(b, size)
             isFull == getRemaining(after) < ALIGN IN
         /\ objects' = objects \cup {newObject(current(b), raw)}
         /\ partiallyFreeBlocks' =
                (partiallyFreeBlocks \ {b}) \cup (IF isFull THEN {} ELSE {after})
         /\ fullBlocks' = fullBlocks \cup (IF isFull THEN {after} ELSE {})
    /\ UNCHANGED <<unused, pc, locals>>

\* The new block stays partially free even when the object fills it.
AllocateFromNewBlock(raw) ==
    LET size == align(raw)
        b    == newHeapBlock(heapUnUsedStart, BLOCK) IN
    /\ pc = "idle"
    /\ ~isLargeObject(size)
    /\ bestFits(size) = {}
    /\ newBlockFromUnused(BLOCK)
    /\ objects' = objects \cup {newObject(b.start, raw)}
    /\ partiallyFreeBlocks' = partiallyFreeBlocks \cup {afterAllocate(b, size)}
    /\ UNCHANGED <<fullBlocks, pc, locals>>

\* allocateLarge never looks at the partially free blocks.
blockSizeFor(size) == IF isSuperObject(size) THEN size ELSE BLOCK

AllocateLarge(raw) ==
    LET size  == align(raw)
        after == afterAllocate(newHeapBlock(heapUnUsedStart, blockSizeFor(size)), size)
        split == getRemaining(after) >= ALIGN IN
    /\ pc = "idle"
    /\ isLargeObject(size)
    /\ newBlockFromUnused(blockSizeFor(size))
    /\ objects' = objects \cup {newObject(after.start, raw)}
    /\ fullBlocks' = fullBlocks \cup {IF split THEN shrunk(after) ELSE after}
    /\ partiallyFreeBlocks' =
           partiallyFreeBlocks \cup (IF split THEN {cutOff(after)} ELSE {})
    /\ UNCHANGED <<pc, locals>>

\* allocate returns nullptr and changes nothing.
AllocateFails(raw) ==
    LET size == align(raw) IN
    /\ pc = "idle"
    /\ \/ isLargeObject(size) /\ heapUnusedSize < blockSizeFor(size)
       \/ ~isLargeObject(size) /\ bestFits(size) = {} /\ heapUnusedSize < BLOCK
    /\ UNCHANGED vars

-----------------------------------------------------------------------------
\* memoryFreed: F is any set of objects (the collector's sweep result).
MemoryFreed(F) ==
    /\ pc = "idle"
    /\ pc' = "freeing"
    /\ free' = F
    /\ all' = fullBlocks \cup partiallyFreeBlocks
    /\ newPartially' = {}
    /\ UNCHANGED <<unused, lists, objects>>

\* The sweep result is in address order.
nextFree == {o \in free : \A p \in free : o.addr <= p.addr}

ResetBlock(b, o) ==
    /\ onlyObject(b, o)
    /\ newPartially' = newPartially \cup {afterReset(b)}
    /\ all' = all \ {b}

SplitBlock(b, o) ==
    /\ ~onlyObject(b, o)
    /\ newPartially' = newPartially \cup {objectBlock(o)}
    /\ all' = (all \ {b}) \cup sideBlocks(b, o)

FreeObject(o) ==
    /\ pc = "freeing"
    /\ o \in nextFree
    /\ \E b \in all : inBlock(b, o.addr) /\ (ResetBlock(b, o) \/ SplitBlock(b, o))
    /\ free' = free \ {o}
    /\ objects' = objects \ {o}
    /\ UNCHANGED <<unused, lists, pc>>

\* searchBlock misses: the exception ends the program, so what memoryFreed
\* leaves behind is never looked at again.
SearchFails ==
    /\ pc = "freeing"
    /\ free # {}
    /\ pc' = "failed"
    /\ UNCHANGED <<unused, lists, objects, locals>>

\* Every block that was not just freed counts as full from now on.
FinishFree ==
    /\ pc = "freeing"
    /\ free = {}
    /\ pc' = "idle"
    /\ fullBlocks' = all
    /\ partiallyFreeBlocks' = newPartially
    /\ all' = {} /\ newPartially' = {}
    /\ UNCHANGED <<unused, objects, free>>

Allocate ==
    \E raw \in RawSizes :
        \/ AllocateFromBlock(raw)
        \/ AllocateFromNewBlock(raw)
        \/ AllocateLarge(raw)
        \/ AllocateFails(raw)

Sweep ==
    \/ \E F \in SUBSET objects : MemoryFreed(F)
    \/ \E o \in free : FreeObject(o)
    \/ SearchFails
    \/ FinishFree

Next == Allocate \/ Sweep

Spec == Init /\ [][Next]_vars

-----------------------------------------------------------------------------
\* The blocks that make up the heap, and those among them whose free part
\* allocate may use now or as soon as memoryFreed is done.
blocks == IF pc = "idle" THEN fullBlocks \cup partiallyFreeBlocks
                         ELSE all \cup newPartially
open   == IF pc = "idle" THEN partiallyFreeBlocks ELSE newPartially

BlockType  == [start : Nat, size : Nat \ {0}, used : Nat]
ObjectType == [addr : Nat, size : RawSizes]

(***************************************************************************)
(* Type invariant: the two lists, the locals of memoryFreed and the unused *)
(* range have the types of the code and the unused range ends the heap.    *)
(***************************************************************************)
TypeOK ==
    /\ heapUnUsedStart \in 0..heapSize
    /\ heapUnusedSize = heapSize - heapUnUsedStart
    /\ partiallyFreeBlocks \subseteq BlockType
    /\ fullBlocks \subseteq BlockType
    /\ objects \subseteq ObjectType
    /\ pc \in {"idle", "freeing", "failed"}
    /\ free \subseteq objects
    /\ all \subseteq BlockType
    /\ newPartially \subseteq BlockType

(***************************************************************************)
(* The blocks tile the used part of the heap: whatever sequence of         *)
(* allocate, shrinkToFit, reset and splitting in memoryFreed took place,   *)
(* every byte below heapUnUsedStart is in exactly one block.  A byte in    *)
(* none would be lost for ever, a byte in two would be handed out twice.   *)
(***************************************************************************)
Tiles(B, lo, hi) ==
    /\ B \subseteq BlockType
    /\ \A b \in B : lo <= b.start /\ getEnd(b) <= hi /\ b.used <= b.size
    /\ \A b, c \in B : b # c => getEnd(b) <= c.start \/ getEnd(c) <= b.start
    /\ \A a \in lo..(hi - 1) : \E b \in B : inBlock(b, a)

BlocksTile == Tiles(blocks, 0, heapUnUsedStart)

(***************************************************************************)
(* Objects in use never overlap, although memoryFreed cuts free blocks by  *)
(* raw object size (line 198) where allocate reserves the aligned size.    *)
(***************************************************************************)
apart(o, p) == extentEnd(o) <= p.addr \/ extentEnd(p) <= o.addr

ObjectsDisjoint == \A o, p \in objects : o # p => apart(o, p)

(***************************************************************************)
(* The bytes allocate may hand out next hold no object in use.  This also  *)
(* excludes what ObjectsDisjoint cannot see, an object of the same size    *)
(* handed out twice at the same address.                                   *)
(***************************************************************************)
clean(b, O) == \A o \in O : extentEnd(o) <= current(b) \/ getEnd(b) <= o.addr

FreeSpaceClean == \A b \in open : clean(b, objects)

(***************************************************************************)
(* Every swept object still to handle is in a block of all, whole: sorting *)
(* permitting, the search of memoryFreed line 205 has something to find,   *)
(* also after the block of an earlier object of the same sweep was split   *)
(* or moved to newPartially.                                               *)
(***************************************************************************)
housed(o, b) == b.start <= o.addr /\ extentEnd(o) <= getEnd(b)

SweptObjectHasBlock == pc = "freeing" => \A o \in free : \E b \in all : housed(o, b)

(***************************************************************************)
(* The inductive invariant.  What it adds: each object is whole in one     *)
(* block; a block with a used part (one an allocation went into, full or   *)
(* not) holds no object behind it, which is what makes the reset test of   *)
(* line 212 right; blocks put on newPartially are empty; the two halves of *)
(* the block set do not share a block.                                     *)
(***************************************************************************)
ObjectsHoused == \A o \in objects : \E b \in blocks : housed(o, b)

UsedBlocksClean == \A b \in blocks : b.used > 0 => clean(b, objects)

Separate ==
    IF pc = "idle" THEN fullBlocks \cap partiallyFreeBlocks = {} /\ free = {}
                   ELSE /\ all \cap newPartially = {}
                        /\ \A b \in newPartially : b.used = 0

IndInv ==
    /\ TypeOK
    /\ BlocksTile
    /\ Separate
    /\ ObjectsDisjoint
    /\ ObjectsHoused
    /\ FreeSpaceClean
    /\ UsedBlocksClean

(***************************************************************************)
(* CollectedHeap is an Allocator: the abstract promise, checked and proved *)
(* as a refinement.                                                        *)
(***************************************************************************)
A == INSTANCE Allocator WITH condemned <- free

AllocatorSpec == A!AllocatorSpec
=============================================================================
