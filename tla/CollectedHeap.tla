--------------------------- MODULE CollectedHeap ---------------------------
(***************************************************************************)
(* CollectedHeap with its lists in order (CollectedHeap.cpp): what         *)
(* allocate and memoryFreed do to the two std::lists, the std::merge of    *)
(* line 190, whose inputs nothing keeps sorted by address, and the binary  *)
(* search of line 205 on the outcome.  BlockHeap.tla is the same component *)
(* without the order; every behaviour here is one of its behaviours.       *)
(***************************************************************************)
EXTENDS HeapBlock, Lists

CONSTANTS RawSizes,
          MaxSweeps     \* bound: calls of memoryFreed in a behaviour

ASSUME RawSizesAssumption == RawSizes \subseteq Nat \ {0}

VARIABLES
    heapUnUsedStart, heapUnusedSize,
    partiallyFreeBlocks, fullBlocks,   \* sequences of blocks
    objects,          \* ghost: objects allocated and not yet swept
    pc,               \* "idle", "freeing", "thrown" or "crashed"
    free,             \* swept objects memoryFreed has still to handle
    all, newPartially,\* memoryFreed's locals
    sweeps            \* calls of memoryFreed so far, for the bound only

lists  == <<partiallyFreeBlocks, fullBlocks>>
unused == <<heapUnUsedStart, heapUnusedSize>>
locals == <<free, all, newPartially>>
vars   == <<unused, lists, objects, pc, locals, sweeps>>

-----------------------------------------------------------------------------
comparatorAddress(b, c) == b.start < c.start

byAddress(S)   == {p \in S \X S : comparatorAddress(p[1], p[2])}
byRemaining(S) == {p \in S \X S : lessThan(p[1], p[2])}

\* Mutant of sort: keeps the order of insertion.
unsorted(bs) == bs

sort(bs) == sorted(bs, byRemaining(ToSet(bs)))

mergeByAddress(s, t) == merge(s, t, byAddress(ToSet(s) \cup ToSet(t)))

\* Mutant of lastIndex: off by one.
lastButOne(bs) == Len(bs) - 2

lastIndex(bs) == Len(bs) - 1

(***************************************************************************)
(* searchBlock with its 0-based, unsigned low and high: the index (from 1) *)
(* of a block that contains addr, 0 when low passes high, or -1 when high  *)
(* wraps below 0 (or the vector is empty).  The next element read is then  *)
(* the word before the vector's storage, which is no block.                *)
(***************************************************************************)
searchBlock(bs, addr) ==
    LET find[range \in (0..Len(bs)) \X (-1..(Len(bs) - 1))] ==
            LET low  == range[1]
                high == range[2]
                mid  == (low + high) \div 2
                b    == bs[mid + 1] IN
            IF high = -1 THEN -1
            ELSE IF low > high THEN 0
            ELSE IF inBlock(b, addr) THEN mid + 1
            ELSE IF b.start > addr THEN find[<<low, mid - 1>>] ELSE find[<<mid + 1, high>>]
    IN find[<<0, lastIndex(bs)>>]

\* Mutant of newBlockFromUnused: takes the bytes unchecked.
takeUnchecked(size) ==
    /\ heapUnusedSize' = heapUnusedSize - size
    /\ heapUnUsedStart' = heapUnUsedStart + size

newBlockFromUnused(size) ==
    /\ heapUnusedSize >= size
    /\ heapUnusedSize' = heapUnusedSize - size
    /\ heapUnUsedStart' = heapUnUsedStart + size

Init ==
    /\ heapUnUsedStart = BLOCK
    /\ heapUnusedSize = heapSize - BLOCK
    /\ partiallyFreeBlocks = <<newHeapBlock(0, BLOCK)>>
    /\ fullBlocks = <<>>
    /\ objects = {}
    /\ pc = "idle"
    /\ free = {} /\ all = <<>> /\ newPartially = <<>>
    /\ sweeps = 0

-----------------------------------------------------------------------------
bestFits(size) ==
    sort(those(partiallyFreeBlocks, {b \in ToSet(partiallyFreeBlocks) : canAfford(b, size)}))

\* The selected block changes in place; it moves to fullBlocks when full.
AllocateFromBlock(raw) ==
    LET size == align(raw) IN
    /\ pc = "idle"
    /\ ~isLargeObject(size)
    /\ bestFits(size) # <<>>
    /\ LET b == Head(bestFits(size))
           after == afterAllocate(b, size) IN
       /\ objects' = objects \cup {newObject(current(b), raw)}
       /\ IF getRemaining(after) < ALIGN
          THEN /\ partiallyFreeBlocks' = those(partiallyFreeBlocks, ToSet(partiallyFreeBlocks) \ {b})
               /\ fullBlocks' = Append(fullBlocks, after)
          ELSE /\ partiallyFreeBlocks' =
                      [i \in DOMAIN partiallyFreeBlocks |->
                          IF partiallyFreeBlocks[i] = b THEN after ELSE partiallyFreeBlocks[i]]
               /\ UNCHANGED fullBlocks
    /\ UNCHANGED <<unused, pc, locals, sweeps>>

AllocateFromNewBlock(raw) ==
    LET size == align(raw)
        b    == newHeapBlock(heapUnUsedStart, BLOCK) IN
    /\ pc = "idle"
    /\ ~isLargeObject(size)
    /\ bestFits(size) = <<>>
    /\ newBlockFromUnused(BLOCK)
    /\ objects' = objects \cup {newObject(b.start, raw)}
    /\ partiallyFreeBlocks' = Append(partiallyFreeBlocks, afterAllocate(b, size))
    /\ UNCHANGED <<fullBlocks, pc, locals, sweeps>>

blockSizeFor(size) == IF isSuperObject(size) THEN size ELSE BLOCK

AllocateLarge(raw) ==
    LET size  == align(raw)
        after == afterAllocate(newHeapBlock(heapUnUsedStart, blockSizeFor(size)), size)
        split == getRemaining(after) >= ALIGN IN
    /\ pc = "idle"
    /\ isLargeObject(size)
    /\ newBlockFromUnused(blockSizeFor(size))
    /\ objects' = objects \cup {newObject(after.start, raw)}
    /\ fullBlocks' = Append(fullBlocks, IF split THEN shrunk(after) ELSE after)
    /\ partiallyFreeBlocks' =
           sort(partiallyFreeBlocks \o (IF split THEN <<cutOff(after)>> ELSE <<>>))
    /\ UNCHANGED <<pc, locals, sweeps>>

\* allocate returns nullptr.
refused(raw) ==
    LET size == align(raw) IN
    \/ isLargeObject(size) /\ heapUnusedSize < blockSizeFor(size)
    \/ ~isLargeObject(size) /\ bestFits(size) = <<>> /\ heapUnusedSize < BLOCK

AllocateFails(raw) ==
    /\ pc = "idle"
    /\ refused(raw)
    /\ UNCHANGED vars

-----------------------------------------------------------------------------
MemoryFreed(F) ==
    /\ pc = "idle"
    /\ sweeps < MaxSweeps /\ sweeps' = sweeps + 1
    /\ pc' = "freeing"
    /\ free' = F
    /\ all' = mergeByAddress(fullBlocks, partiallyFreeBlocks)
    /\ newPartially' = <<>>
    /\ UNCHANGED <<unused, lists, objects>>

nextFree == {o \in free : \A p \in free : o.addr <= p.addr}

found(o) == searchBlock(all, o.addr)

\* Mutant of without: std::remove without the erase.
notErased(b) == all

\* all.erase(std::remove(...)), and std::sort once pieces were pushed back.
without(b) == those(all, ToSet(all) \ {b})

pieces(b, o) == those(<<leftBlock(b, o), rightBlock(b, o)>>, sideBlocks(b, o))

ResetBlock(b, o) ==
    /\ onlyObject(b, o)
    /\ newPartially' = Append(newPartially, afterReset(b))
    /\ all' = without(b)

SplitBlock(b, o) ==
    /\ ~onlyObject(b, o)
    /\ newPartially' = Append(newPartially, objectBlock(o))
    /\ LET left == without(b) \o pieces(b, o)
       IN  all' = sorted(left, byAddress(ToSet(left)))

FreeObject(o) ==
    /\ pc = "freeing"
    /\ o \in nextFree
    /\ found(o) > 0
    /\ ResetBlock(all[found(o)], o) \/ SplitBlock(all[found(o)], o)
    /\ free' = free \ {o}
    /\ objects' = objects \ {o}
    /\ UNCHANGED <<unused, lists, pc, sweeps>>

SearchThrows(o) ==
    /\ pc = "freeing"
    /\ o \in nextFree
    /\ found(o) = 0
    /\ pc' = "thrown"
    /\ UNCHANGED <<unused, lists, objects, locals, sweeps>>

SearchCrashes(o) ==
    /\ pc = "freeing"
    /\ o \in nextFree
    /\ found(o) = -1
    /\ pc' = "crashed"
    /\ UNCHANGED <<unused, lists, objects, locals, sweeps>>

FinishFree ==
    /\ pc = "freeing"
    /\ free = {}
    /\ pc' = "idle"
    /\ fullBlocks' = all
    /\ partiallyFreeBlocks' = sort(newPartially)
    /\ all' = <<>> /\ newPartially' = <<>>
    /\ UNCHANGED <<unused, objects, free, sweeps>>

Next ==
    \/ \E raw \in RawSizes :
        \/ AllocateFromBlock(raw)
        \/ AllocateFromNewBlock(raw)
        \/ AllocateLarge(raw)
        \/ AllocateFails(raw)
    \/ \E F \in SUBSET objects : MemoryFreed(F)
    \/ \E o \in free : FreeObject(o) \/ SearchThrows(o) \/ SearchCrashes(o)
    \/ FinishFree

Spec == Init /\ [][Next]_vars

-----------------------------------------------------------------------------
(***************************************************************************)
(* Type invariant.                                                         *)
(***************************************************************************)
BlockType == [start : 0..heapSize, size : 1..heapSize, used : 0..heapSize]

TypeOK ==
    /\ heapUnUsedStart \in 0..heapSize /\ heapUnusedSize \in 0..heapSize
    /\ \A bs \in {partiallyFreeBlocks, fullBlocks, all, newPartially} :
           ToSet(bs) \subseteq BlockType
    /\ objects \subseteq [addr : 0..heapSize, size : RawSizes]
    /\ free \subseteq objects
    /\ pc \in {"idle", "freeing", "thrown", "crashed"}

(***************************************************************************)
(* The binary search of line 205 is right whenever its input is sorted by  *)
(* address: it returns the block that contains the object.  In particular  *)
(* a sweep that has split one block, after which line 232 has sorted all,  *)
(* cannot fail any more.                                                   *)
(***************************************************************************)
sortedByAddress(bs) == \A i \in 1..(Len(bs) - 1) : comparatorAddress(bs[i], bs[i + 1])

SortedSearchFinds ==
    pc = "freeing" /\ sortedByAddress(all) =>
        \A o \in free : found(o) > 0 /\ inBlock(all[found(o)], o.addr)

(***************************************************************************)
(* A block is in one list, once: what allocate moves between the lists,    *)
(* and what memoryFreed takes out of all, is neither duplicated nor kept.  *)
(***************************************************************************)
NoBlockTwice ==
    IsInjective(IF pc = "idle" THEN fullBlocks \o partiallyFreeBlocks
                               ELSE all \o newPartially)

(***************************************************************************)
(* CollectedHeap implements BlockHeap: the lists as sets, both ways a      *)
(* search can go wrong as its failure.                                     *)
(***************************************************************************)
B == INSTANCE BlockHeap WITH
        partiallyFreeBlocks <- ToSet(partiallyFreeBlocks),
        fullBlocks <- ToSet(fullBlocks),
        all <- ToSet(all),
        newPartially <- ToSet(newPartially),
        pc <- IF pc \in {"thrown", "crashed"} THEN "failed" ELSE pc

BlockHeapSpec == B!Spec

-----------------------------------------------------------------------------
(***************************************************************************)
(* What the code takes for granted and a run refutes.                      *)
(***************************************************************************)

(***************************************************************************)
(* memoryFreed treats a swept object without a block as impossible (the    *)
(* throw of CollectedHeap.cpp:206-208).                                    *)
(***************************************************************************)
SweptBlockIsFound == pc \notin {"thrown", "crashed"}
=============================================================================
