----------------------------- MODULE HeapBlock -----------------------------
(***************************************************************************)
(* The arithmetic of HeapBlock and of CollectedHeap's size classes         *)
(* (CollectedHeap.h, CollectedHeap.cpp).  Addresses are offsets from       *)
(* heapStart, so 0 is the first byte of the heap.  A block is a record:    *)
(* start is blockStart, size is blockSize and used is current - blockStart.*)
(* allocateCounter is only ever printed by dumpHeap and is left out.       *)
(***************************************************************************)
EXTENDS Integers

CONSTANTS ALIGN,      \* SPARK_GC_ALIGN        (32 in the code)
          MEDIUM,     \* SPARK_GC_HEAP_MEDIUM  (64)
          BLOCK,      \* SPARK_GC_HEAP_BLOCK   (128)
          heapSize    \* bytes given to newGC; createBlockTree throws below BLOCK

\* What the constants of SparkGC_Shared.h satisfy, and the only thing the
\* proofs use of them.
ASSUME SizesAssumption ==
    /\ ALIGN \in Nat \ {0}
    /\ MEDIUM \in Nat
    /\ BLOCK \in Nat \ {0}
    /\ MEDIUM <= BLOCK
    /\ heapSize \in Nat
    /\ BLOCK <= heapSize

\* CollectedHeap::align rounds up to a multiple of ALIGN.
align(size) == LET padded == size + ALIGN - 1 IN padded - (padded % ALIGN)

isLargeObject(size) == size > MEDIUM
isSuperObject(size) == size > BLOCK

newHeapBlock(start, size) == [start |-> start, size |-> size, used |-> 0]

getEnd(b)       == b.start + b.size
current(b)      == b.start + b.used
getRemaining(b) == b.size - b.used
canAfford(b, size) == getRemaining(b) >= size
inBlock(b, addr)   == b.start <= addr /\ addr < getEnd(b)

\* HeapBlock::allocate returns current(b) and moves it up by size.
afterAllocate(b, size) == [b EXCEPT !.used = @ + size]

\* Mutants of shrinkToFit: the block is not cut; the tail starts too early.
notShrunk(b)   == b
cutOffFront(b) == newHeapBlock(b.start, getRemaining(b))

\* HeapBlock::shrinkToFit cuts the block at current and returns the tail.
shrunk(b)   == [b EXCEPT !.size = b.used]
cutOff(b)   == newHeapBlock(current(b), getRemaining(b))

afterReset(b) == [b EXCEPT !.used = 0]

\* HeapBlock::operator<
lessThan(b, c) ==
    \/ getRemaining(b) < getRemaining(c)
    \/ getRemaining(b) = getRemaining(c) /\ b.start < c.start

(***************************************************************************)
(* An object as the heap sees it: its address and the raw size its         *)
(* getOnStackSize returns.  allocate reserves the aligned size.            *)
(***************************************************************************)
newObject(addr, raw) == [addr |-> addr, size |-> raw]
extentEnd(o) == o.addr + align(o.size)

\* Mutant of onlyObject: "at most" for "equals".
atMostObject(b, o) == getRemaining(b) + o.size <= b.size

\* memoryFreed resets a block whose whole used part is the freed object.
onlyObject(b, o) == getRemaining(b) + o.size = b.size

\* Otherwise the block is replaced by the object's range (raw size) and by
\* what is left of it on both sides.
objectBlock(o) == newHeapBlock(o.addr, o.size)
leftBlock(b, o)   == newHeapBlock(b.start, o.addr - b.start)
rightBlock(b, o)  == newHeapBlock(o.addr + o.size, getEnd(b) - (o.addr + o.size))

\* Mutant of sideBlocks: the rest behind the object is forgotten.
leftOnly(b, o) == {c \in {leftBlock(b, o)} : c.size > 0}

sideBlocks(b, o) == {c \in {leftBlock(b, o), rightBlock(b, o)} : c.size > 0}
=============================================================================
