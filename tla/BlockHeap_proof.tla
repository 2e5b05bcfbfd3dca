-------------------------- MODULE BlockHeap_proof --------------------------
(***************************************************************************)
(* Proofs about BlockHeap, for every ALIGN, MEDIUM, BLOCK, heapSize and    *)
(* set of object sizes that satisfy the assumptions.                       *)
(***************************************************************************)
EXTENDS BlockHeap, TLAPS

-----------------------------------------------------------------------------
(***************************************************************************)
(* align never returns less than it is given, nor a whole granule more.    *)
(***************************************************************************)
LEMMA AlignBounds ==
    ASSUME NEW size \in Nat
    PROVE  /\ align(size) \in Nat
           /\ size <= align(size)
           /\ align(size) < size + ALIGN
<1> DEFINE padded == size + ALIGN - 1
<1>1. ALIGN \in Nat \ {0} /\ padded \in Nat
  BY SizesAssumption
<1>2. padded % ALIGN \in 0..(ALIGN - 1)
  BY <1>1, SMT
<1>3. padded % ALIGN <= padded
  BY <1>1, SMT
<1> QED
  BY <1>1, <1>2, <1>3 DEF align

(***************************************************************************)
(* Replacing a block by blocks that cut the same range: what a reset, an   *)
(* allocation inside a block and the split of memoryFreed do.              *)
(***************************************************************************)
LEMMA TilesReplace ==
    ASSUME NEW B, NEW lo \in Nat, NEW hi \in Nat, Tiles(B, lo, hi),
           NEW b \in B, NEW P, Tiles(P, b.start, getEnd(b))
    PROVE  Tiles((B \ {b}) \cup P, lo, hi)
<1> DEFINE C == (B \ {b}) \cup P
<1>1. C \subseteq BlockType
  BY DEF Tiles
<1>2. ASSUME NEW c \in C
      PROVE  lo <= c.start /\ getEnd(c) <= hi /\ c.used <= c.size
  BY DEF Tiles, BlockType, getEnd
<1>3. ASSUME NEW c \in C, NEW d \in C, c # d
      PROVE  getEnd(c) <= d.start \/ getEnd(d) <= c.start
  BY <1>3 DEF Tiles, BlockType, getEnd
<1>4. ASSUME NEW a \in lo..(hi - 1)
      PROVE  \E c \in C : inBlock(c, a)
  <2>1. PICK c \in B : inBlock(c, a)
    BY DEF Tiles
  <2>2. CASE c # b
    BY <2>1, <2>2
  <2>3. CASE c = b
    <3>1. a \in b.start..(getEnd(b) - 1)
      BY <2>1, <2>3 DEF Tiles, BlockType, getEnd, inBlock
    <3> QED
      BY <3>1 DEF Tiles
  <2> QED
    BY <2>2, <2>3
<1> QED
  BY <1>1, <1>2, <1>3, <1>4 DEF Tiles

(***************************************************************************)
(* Adding blocks that cut the range behind: what newBlockFromUnused and    *)
(* allocateLarge do.                                                       *)
(***************************************************************************)
LEMMA TilesAppend ==
    ASSUME NEW B, NEW N, NEW lo \in Nat, NEW mid \in Nat, NEW hi \in Nat,
           lo <= mid, mid <= hi, Tiles(B, lo, mid), Tiles(N, mid, hi)
    PROVE  Tiles(B \cup N, lo, hi)
<1>1. ASSUME NEW c \in B \cup N
      PROVE  lo <= c.start /\ getEnd(c) <= hi /\ c.used <= c.size
  BY DEF Tiles, BlockType, getEnd
<1>2. ASSUME NEW c \in B \cup N, NEW d \in B \cup N, c # d
      PROVE  getEnd(c) <= d.start \/ getEnd(d) <= c.start
  BY <1>2 DEF Tiles, BlockType, getEnd
<1>3. ASSUME NEW a \in lo..(hi - 1)
      PROVE  \E c \in B \cup N : inBlock(c, a)
  <2>1. CASE a < mid
    BY <2>1 DEF Tiles
  <2>2. CASE a >= mid
    BY <2>2 DEF Tiles
  <2> QED
    BY <2>1, <2>2
<1> QED
  BY <1>1, <1>2, <1>3 DEF Tiles

(***************************************************************************)
(* One block, in whatever state of use, cuts its own range.                *)
(***************************************************************************)
LEMMA TilesOne ==
    ASSUME NEW b \in BlockType, b.used <= b.size
    PROVE  Tiles({b}, b.start, getEnd(b))
BY DEF Tiles, BlockType, getEnd, inBlock

(***************************************************************************)
(* Extents, as the provers need them: an object occupies at least its raw  *)
(* size, which is at least one byte.                                       *)
(***************************************************************************)
LEMMA ObjectExtent ==
    ASSUME NEW o \in ObjectType
    PROVE  /\ o.addr \in Nat /\ o.size \in RawSizes /\ o.size \in Nat \ {0}
           /\ align(o.size) \in Nat /\ extentEnd(o) \in Nat
           /\ extentEnd(o) = o.addr + align(o.size)
           /\ o.addr + o.size <= extentEnd(o)
           /\ o.addr < extentEnd(o)
<1>1. o.addr \in Nat /\ o.size \in RawSizes /\ o.size \in Nat \ {0}
  BY RawSizesAssumption DEF ObjectType
<1>2. align(o.size) \in Nat /\ o.size <= align(o.size)
  BY <1>1, AlignBounds
<1> QED
  BY <1>1, <1>2 DEF extentEnd

-----------------------------------------------------------------------------
(***************************************************************************)
(* What an allocation of raw bytes at the current address of b means for   *)
(* the objects O in use, when b's free part holds none of them: the new    *)
(* object is apart from all of them, b stays clean behind it, and so does  *)
(* every clean block that is apart from b.                                 *)
(***************************************************************************)
Placed(O, b, o, a) ==
    /\ o \in ObjectType
    /\ o \notin O
    /\ \A p \in O : apart(o, p) /\ apart(p, o)
    /\ a \in BlockType /\ a.start = b.start /\ a.size = b.size
    /\ a.used <= a.size /\ a.used > 0
    /\ housed(o, a)
    /\ extentEnd(o) = current(a)
    /\ clean(a, O \cup {o})
    /\ \A c \in BlockType :
          clean(c, O) /\ c.used <= c.size
          /\ (getEnd(c) <= b.start \/ getEnd(b) <= c.start)
          => clean(c, O \cup {o})

LEMMA PlaceObject ==
    ASSUME NEW O, O \subseteq ObjectType,
           NEW raw \in RawSizes,
           NEW b \in BlockType, b.used <= b.size, canAfford(b, align(raw)),
           clean(b, O),
           NEW o, o = newObject(current(b), raw),
           NEW a, a = afterAllocate(b, align(raw))
    PROVE  Placed(O, b, o, a)
<1>1. raw \in Nat \ {0} /\ align(raw) \in Nat /\ raw <= align(raw)
  BY RawSizesAssumption, AlignBounds
<1>2. b.start \in Nat /\ b.size \in Nat \ {0} /\ b.used \in Nat
  BY DEF BlockType
<1>3. b.used + align(raw) <= b.size
  BY <1>1, <1>2 DEF canAfford, getRemaining
<1>4. /\ o.addr = b.start + b.used /\ o.size = raw
      /\ extentEnd(o) = b.start + b.used + align(raw)
      /\ o \in ObjectType
  BY <1>1, <1>2 DEF newObject, current, extentEnd, ObjectType
<1>5. /\ a = [start |-> b.start, size |-> b.size, used |-> b.used + align(raw)]
      /\ a \in BlockType
  BY <1>1, <1>2 DEF afterAllocate, BlockType
<1>6. ASSUME NEW p \in O
      PROVE  /\ apart(o, p) /\ apart(p, o)
             /\ o # p
             /\ extentEnd(p) <= current(a) \/ getEnd(a) <= p.addr
  <2>1. p \in ObjectType
    OBVIOUS
  <2>2. extentEnd(p) \in Nat /\ p.addr \in Nat /\ p.addr < extentEnd(p)
    BY <2>1, ObjectExtent
  <2>3. extentEnd(p) <= b.start + b.used \/ b.start + b.size <= p.addr
    BY DEF clean, current, getEnd
  <2>4. apart(o, p) /\ apart(p, o)
    BY <1>1, <1>2, <1>3, <1>4, <2>2, <2>3 DEF apart
  <2>5. current(a) = b.start + (b.used + align(raw)) /\ getEnd(a) = b.start + b.size
    BY <1>5 DEF current, getEnd
  <2>6. extentEnd(p) <= current(a) \/ getEnd(a) <= p.addr
    BY <1>1, <1>2, <2>2, <2>3, <2>5
  <2>7. o # p
    <3>1. SUFFICES ASSUME o = p PROVE FALSE
      OBVIOUS
    <3>2. extentEnd(o) = extentEnd(p) /\ o.addr = p.addr
      BY <3>1
    <3> QED
      BY <1>1, <1>2, <1>3, <1>4, <2>2, <2>3, <3>2
  <2> QED
    BY <2>4, <2>6, <2>7
<1>7. extentEnd(o) = current(a) /\ housed(o, a)
  BY <1>1, <1>2, <1>3, <1>4, <1>5 DEF current, housed, getEnd
<1>8. clean(a, O \cup {o})
  <2>1. current(a) \in Nat
    BY <1>1, <1>2, <1>5 DEF current
  <2> QED
    BY <1>6, <1>7, <2>1 DEF clean
<1>9. ASSUME NEW c \in BlockType, clean(c, O), c.used <= c.size,
             getEnd(c) <= b.start \/ getEnd(b) <= c.start
      PROVE  clean(c, O \cup {o})
  <2>1. extentEnd(o) <= current(c) \/ getEnd(c) <= o.addr
    BY <1>1, <1>2, <1>3, <1>4, <1>9 DEF BlockType, current, getEnd
  <2> QED
    BY <1>9, <2>1 DEF clean
<1>10. a.start = b.start /\ a.size = b.size /\ a.used <= a.size /\ a.used > 0
  BY <1>1, <1>2, <1>3, <1>5
<1>11. o \notin O /\ \A p \in O : apart(o, p) /\ apart(p, o)
  BY <1>6
<1> QED
  BY <1>4, <1>5, <1>7, <1>8, <1>9, <1>10, <1>11 DEF Placed

(***************************************************************************)
(* A piece of a block of a tiling is none of the other blocks.             *)
(***************************************************************************)
LEMMA PieceIsNew ==
    ASSUME NEW B, NEW lo, NEW hi, Tiles(B, lo, hi),
           NEW b \in B, NEW P, Tiles(P, b.start, getEnd(b)), NEW c \in P
    PROVE  c \notin B \ {b}
<1>1. SUFFICES ASSUME c \in B, c # b PROVE FALSE
  OBVIOUS
<1>2. /\ c \in BlockType /\ b \in BlockType
      /\ b.start <= c.start /\ getEnd(c) <= getEnd(b)
  BY DEF Tiles
<1>3. getEnd(c) <= b.start \/ getEnd(b) <= c.start
  BY <1>1 DEF Tiles
<1> QED
  BY <1>2, <1>3 DEF BlockType, getEnd

(***************************************************************************)
(* A block cut from the unused range is behind everything.                 *)
(***************************************************************************)
LEMMA FreshBlock ==
    ASSUME IndInv, pc = "idle", NEW s \in Nat \ {0}, heapUnusedSize >= s,
           NEW b, b = newHeapBlock(heapUnUsedStart, s)
    PROVE  /\ b \in BlockType /\ b.used = 0 /\ b.size = s
           /\ b.start = heapUnUsedStart
           /\ current(b) = heapUnUsedStart
           /\ getEnd(b) = heapUnUsedStart + s
           /\ heapUnUsedStart + s \in 0..heapSize
           /\ clean(b, objects)
           /\ \A c \in blocks : c \in BlockType /\ getEnd(c) <= b.start
<1>1. /\ heapUnUsedStart \in Nat /\ heapUnUsedStart + s <= heapSize
      /\ objects \subseteq ObjectType
  BY SizesAssumption DEF IndInv, TypeOK
<1>2. /\ b \in BlockType /\ b.used = 0 /\ b.size = s
      /\ b.start = heapUnUsedStart /\ current(b) = heapUnUsedStart
      /\ getEnd(b) = heapUnUsedStart + s
  BY <1>1 DEF newHeapBlock, BlockType, current, getEnd
<1>3. \A c \in blocks : c \in BlockType /\ getEnd(c) <= b.start
  BY <1>2 DEF IndInv, BlocksTile, Tiles
<1>4. ASSUME NEW o \in objects
      PROVE  extentEnd(o) <= current(b)
  <2>1. PICK c \in blocks : housed(o, c)
    BY DEF IndInv, ObjectsHoused
  <2>2. c \in BlockType /\ getEnd(c) <= b.start
    BY <1>3
  <2>3. extentEnd(o) \in Nat
    BY <1>1, ObjectExtent
  <2> QED
    BY <1>1, <1>2, <2>1, <2>2, <2>3 DEF housed, BlockType, getEnd
<1> QED
  BY <1>1, <1>2, <1>3, <1>4 DEF clean

-----------------------------------------------------------------------------
LEMMA InitIndInv == Init => IndInv
<1> SUFFICES ASSUME Init PROVE IndInv
  OBVIOUS
<1> DEFINE b == newHeapBlock(0, BLOCK)
<1>1. b \in BlockType /\ b.start = 0 /\ b.used = 0 /\ b.used <= b.size /\ getEnd(b) = BLOCK
  BY SizesAssumption DEF newHeapBlock, BlockType, getEnd
<1>2. Tiles({b}, 0, BLOCK)
  BY <1>1, TilesOne
<1>3. blocks = {b} /\ objects = {}
  BY DEF Init, blocks
<1>4. TypeOK
  BY <1>1, SizesAssumption DEF Init, TypeOK
<1>5. BlocksTile
  BY <1>2, <1>3 DEF Init, BlocksTile
<1> QED
  BY <1>3, <1>4, <1>5 DEF Init, IndInv, Separate, ObjectsDisjoint, ObjectsHoused,
     FreeSpaceClean, UsedBlocksClean, clean

(***************************************************************************)
(* A medium or small object in a partially free block.                     *)
(***************************************************************************)
LEMMA AllocateFromBlockIndInv ==
    ASSUME IndInv, NEW raw \in RawSizes, AllocateFromBlock(raw)
    PROVE  IndInv'
<1> DEFINE size == align(raw)
<1>1. /\ pc = "idle" /\ pc' = pc
      /\ UNCHANGED <<heapUnUsedStart, heapUnusedSize, free, all, newPartially>>
  BY DEF AllocateFromBlock, unused, locals
<1>2. PICK b \in selected(size) :
        /\ objects' = objects \cup {newObject(current(b), raw)}
        /\ partiallyFreeBlocks' =
              (partiallyFreeBlocks \ {b})
              \cup (IF getRemaining(afterAllocate(b, size)) < ALIGN
                    THEN {} ELSE {afterAllocate(b, size)})
        /\ fullBlocks' =
              fullBlocks
              \cup (IF getRemaining(afterAllocate(b, size)) < ALIGN
                    THEN {afterAllocate(b, size)} ELSE {})
  BY DEF AllocateFromBlock
<1>3. b \in partiallyFreeBlocks /\ canAfford(b, size)
  BY DEF selected, bestFits
<1> DEFINE o == newObject(current(b), raw)
           a == afterAllocate(b, size)
<1>4. /\ TypeOK /\ Tiles(blocks, 0, heapUnUsedStart)
      /\ fullBlocks \cap partiallyFreeBlocks = {} /\ free = {}
      /\ blocks = fullBlocks \cup partiallyFreeBlocks
      /\ open = partiallyFreeBlocks
      /\ heapUnUsedStart \in Nat
  BY <1>1 DEF IndInv, BlocksTile, Separate, blocks, open, TypeOK
<1>5. /\ b \in blocks /\ b \in BlockType /\ b.used <= b.size
      /\ objects \subseteq ObjectType
      /\ clean(b, objects)
  BY <1>3, <1>4 DEF IndInv, FreeSpaceClean, TypeOK, Tiles
<1>o. o = newObject(current(b), raw) /\ a = afterAllocate(b, align(raw))
  OBVIOUS
<1> HIDE DEF o, a
<1>6. Placed(objects, b, o, a)
  BY <1>3, <1>5, <1>o, PlaceObject
<1>7. /\ objects' = objects \cup {o}
      /\ blocks' = (blocks \ {b}) \cup {a}
      /\ open' \subseteq (open \ {b}) \cup {a}
      /\ fullBlocks' \subseteq fullBlocks \cup {a}
      /\ partiallyFreeBlocks' \subseteq (partiallyFreeBlocks \ {b}) \cup {a}
      /\ a \notin fullBlocks' \/ a \notin partiallyFreeBlocks' \/ a \in blocks \ {b}
  BY <1>1, <1>2, <1>3, <1>4, <1>o DEF blocks, open
<1>8. Tiles({a}, b.start, getEnd(b))
  BY <1>6, TilesOne DEF getEnd, Placed
<1>9. Tiles(blocks', 0, heapUnUsedStart') /\ a \notin blocks \ {b}
  BY <1>1, <1>4, <1>5, <1>7, <1>8, TilesReplace, PieceIsNew
<1>10. TypeOK'
  BY <1>1, <1>4, <1>6, <1>7 DEF TypeOK, Placed
<1>11. Separate'
  BY <1>1, <1>4, <1>7, <1>9 DEF Separate
<1>12. ObjectsDisjoint'
  BY <1>6, <1>7 DEF IndInv, ObjectsDisjoint, Placed
<1>13. ObjectsHoused'
  <2>1. ASSUME NEW p \in objects PROVE \E c \in blocks' : housed(p, c)
    <3>1. PICK c \in blocks : housed(p, c)
      BY DEF IndInv, ObjectsHoused
    <3>2. c = b => housed(p, a)
      BY <1>6, <3>1 DEF housed, getEnd, Placed
    <3> QED
      BY <1>7, <3>1, <3>2
  <2> QED
    BY <1>6, <1>7, <2>1 DEF ObjectsHoused, Placed
<1>14. ASSUME NEW c \in blocks \ {b}, clean(c, objects)
       PROVE  clean(c, objects')
  <2>1. /\ c \in BlockType /\ c.used <= c.size
        /\ getEnd(c) <= b.start \/ getEnd(b) <= c.start
    BY <1>4, <1>5 DEF Tiles
  <2> QED
    BY <1>6, <1>7, <1>14, <2>1 DEF Placed
<1>15. FreeSpaceClean'
  BY <1>4, <1>6, <1>7, <1>14 DEF IndInv, FreeSpaceClean, Placed
<1>16. UsedBlocksClean'
  BY <1>6, <1>7, <1>14 DEF IndInv, UsedBlocksClean, Placed
<1> QED
  BY <1>9, <1>10, <1>11, <1>12, <1>13, <1>15, <1>16 DEF IndInv, BlocksTile

(***************************************************************************)
(* What is common to the allocations that take a block b from the unused   *)
(* range: N, the pieces b is entered in the lists as, extends the tiling,  *)
(* and the object o, placed in b, keeps everything about objects.          *)
(***************************************************************************)
LEMMA AppendPlaced ==
    ASSUME IndInv, pc = "idle", UNCHANGED <<pc, free, all, newPartially>>,
           NEW s \in Nat \ {0}, newBlockFromUnused(s),
           NEW b, b = newHeapBlock(heapUnUsedStart, s),
           NEW o, NEW a, Placed(objects, b, o, a),
           NEW N, Tiles(N, b.start, getEnd(b)),
           \A c \in N : clean(c, objects \cup {o}),
           \E c \in N : housed(o, c),
           objects' = objects \cup {o},
           blocks' = blocks \cup N,
           open' \subseteq open \cup N
    PROVE  /\ BlocksTile' /\ ObjectsDisjoint' /\ ObjectsHoused'
           /\ FreeSpaceClean' /\ UsedBlocksClean'
           /\ heapUnUsedStart' \in 0..heapSize
           /\ heapUnusedSize' = heapSize - heapUnUsedStart'
           /\ \A c \in N : c \notin blocks
           /\ o \in ObjectType
<1>1. /\ b \in BlockType /\ b.start = heapUnUsedStart
      /\ getEnd(b) = heapUnUsedStart'
      /\ heapUnUsedStart' = heapUnUsedStart + s
      /\ heapUnUsedStart' \in 0..heapSize
      /\ \A c \in blocks : c \in BlockType /\ getEnd(c) <= b.start
  BY FreshBlock DEF newBlockFromUnused
<1>2. /\ heapUnUsedStart \in Nat /\ Tiles(blocks, 0, heapUnUsedStart)
      /\ heapUnusedSize' = heapSize - heapUnUsedStart'
  BY <1>1, SizesAssumption DEF IndInv, TypeOK, BlocksTile, newBlockFromUnused
<1>3. BlocksTile'
  BY <1>1, <1>2, TilesAppend DEF BlocksTile
<1>4. ObjectsDisjoint'
  BY DEF Placed, IndInv, ObjectsDisjoint
<1>5. ObjectsHoused'
  BY DEF IndInv, ObjectsHoused
<1>6. ASSUME NEW c \in blocks, clean(c, objects) PROVE clean(c, objects')
  <2>1. c \in BlockType /\ c.used <= c.size /\ getEnd(c) <= b.start
    BY <1>1, <1>2 DEF Tiles
  <2> QED
    BY <1>6, <2>1 DEF Placed
<1>7. open \subseteq blocks
  BY DEF open, blocks
<1>8. FreeSpaceClean'
  BY <1>6, <1>7 DEF IndInv, FreeSpaceClean
<1>9. UsedBlocksClean'
  BY <1>6 DEF IndInv, UsedBlocksClean
<1>10. ASSUME NEW c \in N PROVE c \notin blocks
  <2>1. c \in BlockType /\ b.start <= c.start
    BY DEF Tiles
  <2> QED
    BY <1>1, <2>1 DEF BlockType, getEnd
<1> QED
  BY <1>1, <1>2, <1>3, <1>4, <1>5, <1>8, <1>9, <1>10 DEF Placed

(***************************************************************************)
(* A medium or small object in a new block.                                *)
(***************************************************************************)
LEMMA AllocateFromNewBlockIndInv ==
    ASSUME IndInv, NEW raw \in RawSizes, AllocateFromNewBlock(raw)
    PROVE  IndInv'
<1>1. PICK b : b = newHeapBlock(heapUnUsedStart, BLOCK)
  OBVIOUS
<1>2. PICK a : a = afterAllocate(b, align(raw))
  OBVIOUS
<1>3. PICK o : o = newObject(current(b), raw)
  OBVIOUS
<1>4. /\ pc = "idle" /\ ~isLargeObject(align(raw))
      /\ UNCHANGED <<pc, free, all, newPartially>>
      /\ newBlockFromUnused(BLOCK) /\ BLOCK \in Nat \ {0} /\ MEDIUM <= BLOCK
      /\ MEDIUM \in Nat
  BY SizesAssumption DEF AllocateFromNewBlock, locals
<1>5. /\ b \in BlockType /\ b.used = 0 /\ b.size = BLOCK
      /\ current(b) = b.start /\ clean(b, objects)
  BY <1>1, <1>4, FreshBlock DEF newBlockFromUnused
<1>6. raw \in Nat /\ align(raw) \in Nat /\ align(raw) <= BLOCK
  BY <1>4, AlignBounds, RawSizesAssumption DEF isLargeObject
<1>7. canAfford(b, align(raw)) /\ b.used <= b.size
  BY <1>4, <1>5, <1>6 DEF canAfford, getRemaining
<1>8. TypeOK /\ objects \subseteq ObjectType
  BY DEF IndInv, TypeOK
<1>9. Placed(objects, b, o, a)
  BY <1>2, <1>3, <1>5, <1>7, <1>8, PlaceObject
<1>10. Tiles({a}, b.start, getEnd(b))
  BY <1>9, TilesOne DEF Placed, getEnd
<1>11. /\ objects' = objects \cup {o}
       /\ partiallyFreeBlocks' = partiallyFreeBlocks \cup {a}
       /\ fullBlocks' = fullBlocks
       /\ blocks' = blocks \cup {a} /\ open' \subseteq open \cup {a}
  BY <1>1, <1>2, <1>3, <1>4, <1>5 DEF AllocateFromNewBlock, blocks, open
<1>12. /\ BlocksTile' /\ ObjectsDisjoint' /\ ObjectsHoused'
       /\ FreeSpaceClean' /\ UsedBlocksClean'
       /\ heapUnUsedStart' \in 0..heapSize
       /\ heapUnusedSize' = heapSize - heapUnUsedStart'
       /\ a \notin blocks
       /\ o \in ObjectType
  <2>1. clean(a, objects \cup {o}) /\ housed(o, a)
    BY <1>9 DEF Placed
  <2> QED
    BY <1>1, <1>4, <1>9, <1>10, <1>11, <2>1, AppendPlaced
<1>13. TypeOK'
  BY <1>4, <1>8, <1>9, <1>11, <1>12 DEF TypeOK, Placed
<1>14. Separate'
  BY <1>4, <1>11, <1>12 DEF IndInv, Separate, blocks
<1> QED
  BY <1>12, <1>13, <1>14 DEF IndInv

(***************************************************************************)
(* A large or super object: its block is cut at the object's end when a    *)
(* granule or more is left over.                                           *)
(***************************************************************************)
LEMMA ShrinkTiles ==
    ASSUME NEW a \in BlockType, a.used <= a.size, a.used > 0, a.used # a.size
    PROVE  Tiles({shrunk(a), cutOff(a)}, a.start, getEnd(a))
<1>1. /\ shrunk(a) = [start |-> a.start, size |-> a.used, used |-> a.used]
      /\ cutOff(a) = [start |-> a.start + a.used, size |-> a.size - a.used, used |-> 0]
  BY DEF shrunk, cutOff, newHeapBlock, current, getRemaining, BlockType
<1>2. {shrunk(a), cutOff(a)} \subseteq BlockType
  BY <1>1 DEF BlockType
<1> QED
  BY <1>1, <1>2 DEF Tiles, BlockType, getEnd, inBlock

LEMMA AllocateLargeIndInv ==
    ASSUME IndInv, NEW raw \in RawSizes, AllocateLarge(raw)
    PROVE  IndInv'
<1>1. PICK s : s = blockSizeFor(align(raw))
  OBVIOUS
<1>2. PICK b : b = newHeapBlock(heapUnUsedStart, s)
  OBVIOUS
<1>3. PICK a : a = afterAllocate(b, align(raw))
  OBVIOUS
<1>4. PICK o : o = newObject(current(b), raw)
  OBVIOUS
<1>5. /\ pc = "idle" /\ UNCHANGED <<pc, free, all, newPartially>>
      /\ newBlockFromUnused(s) /\ isLargeObject(align(raw))
      /\ BLOCK \in Nat \ {0} /\ MEDIUM \in Nat
      /\ ALIGN \in Nat \ {0}
  BY <1>1, SizesAssumption DEF AllocateLarge, locals
<1>6. raw \in Nat /\ align(raw) \in Nat /\ s \in Nat \ {0} /\ align(raw) <= s
  BY <1>1, <1>5, AlignBounds, RawSizesAssumption
     DEF blockSizeFor, isSuperObject, isLargeObject
<1>7. /\ b \in BlockType /\ b.used = 0 /\ b.size = s
      /\ current(b) = b.start /\ clean(b, objects)
  BY <1>2, <1>5, <1>6, FreshBlock DEF newBlockFromUnused
<1>8. canAfford(b, align(raw)) /\ b.used <= b.size
  BY <1>6, <1>7 DEF canAfford, getRemaining
<1>9. TypeOK /\ objects \subseteq ObjectType
  BY DEF IndInv, TypeOK
<1>10. Placed(objects, b, o, a)
  BY <1>3, <1>4, <1>7, <1>8, <1>9, PlaceObject
<1>11. /\ a \in BlockType /\ a.start = b.start /\ getEnd(a) = getEnd(b)
       /\ a.used <= a.size /\ a.used > 0
       /\ clean(a, objects \cup {o}) /\ housed(o, a) /\ extentEnd(o) = current(a)
  BY <1>10 DEF Placed, getEnd
<1>12. a.start = heapUnUsedStart
  BY <1>2, <1>11 DEF newHeapBlock
<1>13. current(b) = a.start
  BY <1>7, <1>11
<1>14. CASE getRemaining(a) >= ALIGN
  <2>1. PICK f, r : f = shrunk(a) /\ r = cutOff(a)
    OBVIOUS
  <2>2. a.used # a.size
    BY <1>5, <1>11, <1>14 DEF getRemaining, BlockType
  <2>3. Tiles({f, r}, b.start, getEnd(b))
    BY <1>11, <2>1, <2>2, ShrinkTiles
  <2>4. /\ f.start = a.start /\ f.size = a.used /\ f.used = a.used
        /\ getEnd(f) = current(a) /\ current(f) = current(a)
        /\ r.start = current(a) /\ r.used = 0
        /\ current(r) = current(a) /\ getEnd(r) = getEnd(a)
        /\ current(a) \in Nat
    BY <1>11, <2>1
       DEF shrunk, cutOff, newHeapBlock, current, getEnd, getRemaining, BlockType
  <2>5. housed(o, f)
    BY <1>11, <2>4 DEF housed
  <2>6. clean(r, objects \cup {o})
    BY <1>11, <2>4 DEF clean
  <2>7. clean(f, objects \cup {o})
    <3>1. ASSUME NEW p \in objects \cup {o}
          PROVE  extentEnd(p) <= current(f) \/ getEnd(f) <= p.addr
      <4>1. p \in ObjectType
        BY <1>9, <1>10 DEF Placed
      <4>2. p.addr \in Nat
        BY <4>1, ObjectExtent
      <4>3. extentEnd(p) <= current(a) \/ getEnd(a) <= p.addr
        BY <1>11 DEF clean
      <4>4. current(a) <= getEnd(a) /\ current(a) \in Nat /\ getEnd(a) \in Nat
        BY <1>11 DEF current, getEnd, BlockType
      <4> QED
        BY <2>4, <4>2, <4>3, <4>4
    <3> QED
      BY <3>1 DEF clean
  <2>8. /\ objects' = objects \cup {o}
        /\ partiallyFreeBlocks' = partiallyFreeBlocks \cup {r}
        /\ fullBlocks' = fullBlocks \cup {f}
        /\ blocks' = blocks \cup {f, r} /\ open' \subseteq open \cup {f, r}
    BY <1>1, <1>2, <1>3, <1>4, <1>5, <1>13, <1>14, <2>1
       DEF AllocateLarge, blocks, open
  <2>9. /\ BlocksTile' /\ ObjectsDisjoint' /\ ObjectsHoused'
        /\ FreeSpaceClean' /\ UsedBlocksClean'
        /\ heapUnUsedStart' \in 0..heapSize
        /\ heapUnusedSize' = heapSize - heapUnUsedStart'
        /\ f \notin blocks /\ r \notin blocks
        /\ o \in ObjectType
    BY <1>2, <1>5, <1>6, <1>10, <2>3, <2>5, <2>6, <2>7, <2>8, AppendPlaced
  <2>10. f \in BlockType /\ r \in BlockType /\ f # r
    BY <1>11, <2>3, <2>4 DEF Tiles
  <2>11. TypeOK'
    BY <1>5, <1>9, <2>8, <2>9, <2>10 DEF TypeOK
  <2>12. Separate'
    BY <1>5, <2>8, <2>9, <2>10 DEF IndInv, Separate, blocks
  <2> QED
    BY <2>9, <2>11, <2>12 DEF IndInv
<1>15. CASE ~(getRemaining(a) >= ALIGN)
  <2>1. Tiles({a}, b.start, getEnd(b))
    BY <1>11, TilesOne
  <2>2. /\ objects' = objects \cup {o}
        /\ partiallyFreeBlocks' = partiallyFreeBlocks
        /\ fullBlocks' = fullBlocks \cup {a}
        /\ blocks' = blocks \cup {a} /\ open' \subseteq open \cup {a}
    BY <1>1, <1>2, <1>3, <1>4, <1>5, <1>13, <1>15
       DEF AllocateLarge, blocks, open
  <2>3. /\ BlocksTile' /\ ObjectsDisjoint' /\ ObjectsHoused'
        /\ FreeSpaceClean' /\ UsedBlocksClean'
        /\ heapUnUsedStart' \in 0..heapSize
        /\ heapUnusedSize' = heapSize - heapUnUsedStart'
        /\ a \notin blocks
        /\ o \in ObjectType
    BY <1>2, <1>5, <1>6, <1>10, <1>11, <2>1, <2>2, AppendPlaced
  <2>4. TypeOK'
    BY <1>5, <1>9, <1>11, <2>2, <2>3 DEF TypeOK
  <2>5. Separate'
    BY <1>5, <2>2, <2>3 DEF IndInv, Separate, blocks
  <2> QED
    BY <2>3, <2>4, <2>5 DEF IndInv
<1> QED
  BY <1>14, <1>15

-----------------------------------------------------------------------------
(***************************************************************************)
(* The steps of memoryFreed that touch no block.                           *)
(***************************************************************************)
LEMMA MemoryFreedIndInv ==
    ASSUME IndInv, NEW F \in SUBSET objects, MemoryFreed(F)
    PROVE  IndInv'
<1>1. /\ pc = "idle" /\ pc' = "freeing" /\ free' = F
      /\ all' = fullBlocks \cup partiallyFreeBlocks /\ newPartially' = {}
      /\ UNCHANGED <<heapUnUsedStart, heapUnusedSize, partiallyFreeBlocks,
                     fullBlocks, objects>>
  BY DEF MemoryFreed, unused, lists
<1>2. blocks' = blocks /\ open' = {}
  BY <1>1 DEF blocks, open
<1>3. TypeOK'
  BY <1>1 DEF IndInv, TypeOK
<1> QED
  BY <1>1, <1>2, <1>3 DEF IndInv, BlocksTile, Separate, ObjectsDisjoint,
     ObjectsHoused, FreeSpaceClean, UsedBlocksClean

LEMMA FinishFreeIndInv ==
    ASSUME IndInv, FinishFree
    PROVE  IndInv'
<1>1. /\ pc = "freeing" /\ pc' = "idle" /\ free = {} /\ free' = {}
      /\ fullBlocks' = all /\ partiallyFreeBlocks' = newPartially
      /\ all' = {} /\ newPartially' = {}
      /\ UNCHANGED <<heapUnUsedStart, heapUnusedSize, objects>>
  BY DEF FinishFree, unused
<1>2. blocks' = blocks /\ open' = open
  BY <1>1 DEF blocks, open
<1>3. TypeOK'
  BY <1>1 DEF IndInv, TypeOK
<1> QED
  BY <1>1, <1>2, <1>3 DEF IndInv, BlocksTile, Separate, ObjectsDisjoint,
     ObjectsHoused, FreeSpaceClean, UsedBlocksClean

LEMMA SearchFailsIndInv ==
    ASSUME IndInv, SearchFails
    PROVE  IndInv'
<1>1. /\ pc = "freeing" /\ pc' = "failed"
      /\ UNCHANGED <<heapUnUsedStart, heapUnusedSize, partiallyFreeBlocks,
                     fullBlocks, objects, free, all, newPartially>>
  BY DEF SearchFails, unused, lists, locals
<1>2. blocks' = blocks /\ open' = open
  BY <1>1 DEF blocks, open
<1>3. TypeOK'
  BY <1>1 DEF IndInv, TypeOK
<1> QED
  BY <1>1, <1>2, <1>3 DEF IndInv, BlocksTile, Separate, ObjectsDisjoint,
     ObjectsHoused, FreeSpaceClean, UsedBlocksClean

(***************************************************************************)
(* A swept object lies in a block of all, whole, and only the search's     *)
(* inBlock test is needed to identify that block.                          *)
(***************************************************************************)
LEMMA SweptHoused ==
    ASSUME IndInv, pc # "idle", NEW o \in objects
    PROVE  /\ \E b \in all : housed(o, b)
           /\ \A b \in all : inBlock(b, o.addr) => housed(o, b)
<1>1. blocks = all \cup newPartially /\ open = newPartially
  BY DEF blocks, open
<1>2. /\ o \in ObjectType /\ blocks \subseteq BlockType
      /\ \A b, c \in blocks : b # c => getEnd(b) <= c.start \/ getEnd(c) <= b.start
      /\ \A b \in newPartially : b.used = 0 /\ clean(b, objects)
  BY <1>1 DEF IndInv, TypeOK, BlocksTile, Tiles, Separate, FreeSpaceClean
<1>3. o.addr \in Nat /\ extentEnd(o) \in Nat /\ o.addr < extentEnd(o)
  BY <1>2, ObjectExtent
<1>4. PICK c \in blocks : housed(o, c)
  BY DEF IndInv, ObjectsHoused
<1>5. c \notin newPartially
  <2>1. SUFFICES ASSUME c \in newPartially PROVE FALSE
    OBVIOUS
  <2>2. extentEnd(o) <= current(c) \/ getEnd(c) <= o.addr
    BY <1>2, <2>1 DEF clean
  <2>3. c \in BlockType /\ c.used = 0
    BY <1>2, <2>1
  <2> QED
    BY <1>3, <1>4, <2>2, <2>3 DEF BlockType, current, getEnd, housed
<1>6. ASSUME NEW b \in all, inBlock(b, o.addr) PROVE b = c
  <2>1. b \in BlockType /\ c \in BlockType
    BY <1>1, <1>2
  <2>2. inBlock(c, o.addr)
    BY <1>3, <1>4, <2>1 DEF housed, inBlock, BlockType, getEnd
  <2> QED
    BY <1>1, <1>2, <1>3, <1>6, <2>1, <2>2 DEF inBlock, BlockType, getEnd
<1> QED
  BY <1>1, <1>4, <1>5, <1>6

(***************************************************************************)
(* A block with a used part that passes the test of line 212 holds the     *)
(* freed object alone, at its start: resetting it frees nothing else.      *)
(***************************************************************************)
LEMMA ResetClean ==
    ASSUME NEW O, O \subseteq ObjectType, \A p, q \in O : p # q => apart(p, q),
           NEW b \in BlockType, b.used <= b.size, b.used > 0 => clean(b, O),
           NEW o \in O, housed(o, b), onlyObject(b, o)
    PROVE  clean(afterReset(b), O \ {o})
<1> DEFINE x == afterReset(b)
<1>1. /\ o.addr \in Nat /\ o.size \in Nat \ {0} /\ extentEnd(o) \in Nat
      /\ o.addr + o.size <= extentEnd(o)
  BY ObjectExtent
<1>2. b.used = o.size /\ clean(b, O)
  BY <1>1 DEF onlyObject, getRemaining, BlockType
<1>3. x = [start |-> b.start, size |-> b.size, used |-> 0]
  BY DEF afterReset, BlockType
<1>4. /\ current(x) = b.start /\ getEnd(x) = b.start + b.size
      /\ current(b) = b.start + b.used /\ getEnd(b) = b.start + b.size
  BY <1>3 DEF current, getEnd, BlockType
<1>5. o.addr = b.start /\ extentEnd(o) = b.start + b.used
  <2>1. extentEnd(o) <= b.start + b.used \/ b.start + b.size <= o.addr
    BY <1>2, <1>4 DEF clean
  <2>2. b.start <= o.addr /\ extentEnd(o) <= b.start + b.size
    BY <1>4 DEF housed
  <2> QED
    BY <1>1, <1>2, <2>1, <2>2 DEF BlockType
<1>6. ASSUME NEW p \in O \ {o}
      PROVE  extentEnd(p) <= current(x) \/ getEnd(x) <= p.addr
  <2>1. p.addr \in Nat /\ extentEnd(p) \in Nat /\ p.addr < extentEnd(p)
    <3>1. p \in ObjectType
      OBVIOUS
    <3> QED
      BY <3>1, ObjectExtent
  <2>2. extentEnd(p) <= b.start + b.used \/ b.start + b.size <= p.addr
    BY <1>2, <1>4 DEF clean
  <2>3. extentEnd(o) <= p.addr \/ extentEnd(p) <= o.addr
    BY DEF apart
  <2> QED
    BY <1>1, <1>4, <1>5, <2>1, <2>2, <2>3 DEF BlockType
<1> HIDE DEF x
<1>7. clean(x, O \ {o})
  BY <1>6 DEF clean
<1> QED
  BY <1>7 DEF x

(***************************************************************************)
(* The pieces memoryFreed splits a block into: they tile it, the freed     *)
(* range holds no other object and each other object of the block is whole *)
(* in one of the side pieces, although the cut is at the raw size.         *)
(***************************************************************************)
LEMMA SplitPieces ==
    ASSUME NEW O, O \subseteq ObjectType, \A p, q \in O : p # q => apart(p, q),
           NEW b \in BlockType, NEW o \in O, housed(o, b)
    PROVE  /\ Tiles({objectBlock(o)} \cup sideBlocks(b, o), b.start, getEnd(b))
           /\ objectBlock(o) \in BlockType /\ sideBlocks(b, o) \subseteq BlockType
           /\ objectBlock(o) \notin sideBlocks(b, o)
           /\ objectBlock(o).used = 0 /\ \A c \in sideBlocks(b, o) : c.used = 0
           /\ clean(objectBlock(o), O \ {o})
           /\ \A p \in O \ {o} : housed(p, b) => \E c \in sideBlocks(b, o) : housed(p, c)
<1>1. PICK x, l, r : x = objectBlock(o) /\ l = leftBlock(b, o) /\ r = rightBlock(b, o)
  OBVIOUS
<1>2. /\ o.addr \in Nat /\ o.size \in Nat \ {0} /\ extentEnd(o) \in Nat
      /\ o.addr + o.size <= extentEnd(o)
      /\ b.start \in Nat /\ b.size \in Nat \ {0}
      /\ b.start <= o.addr /\ extentEnd(o) <= b.start + b.size
  BY ObjectExtent DEF BlockType, housed, getEnd
<1>3. /\ x = [start |-> o.addr, size |-> o.size, used |-> 0]
      /\ l = [start |-> b.start, size |-> o.addr - b.start, used |-> 0]
      /\ r = [start |-> o.addr + o.size, size |-> b.start + b.size - (o.addr + o.size),
              used |-> 0]
  <2>1. x = [start |-> o.addr, size |-> o.size, used |-> 0]
    BY <1>1 DEF objectBlock, newHeapBlock
  <2>2. l = [start |-> b.start, size |-> o.addr - b.start, used |-> 0]
    BY <1>1 DEF leftBlock, newHeapBlock
  <2>3. r = [start |-> o.addr + o.size,
             size |-> b.start + b.size - (o.addr + o.size), used |-> 0]
    BY <1>1, <1>2 DEF rightBlock, newHeapBlock, getEnd
  <2> QED
    BY <2>1, <2>2, <2>3
<1>4. sideBlocks(b, o) = {c \in {l, r} : c.size > 0}
  BY <1>1 DEF sideBlocks
<1>5. x \in BlockType /\ sideBlocks(b, o) \subseteq BlockType
  BY <1>2, <1>3, <1>4 DEF BlockType
<1>6. /\ x.used = 0 /\ x \notin sideBlocks(b, o)
      /\ \A c \in sideBlocks(b, o) : c.used = 0
  BY <1>2, <1>3, <1>4
<1>7. Tiles({x} \cup sideBlocks(b, o), b.start, getEnd(b))
  <2> DEFINE P == {x} \cup sideBlocks(b, o)
  <2>1. P \subseteq BlockType
    BY <1>5
  <2>2. \A c \in P : b.start <= c.start /\ getEnd(c) <= getEnd(b) /\ c.used <= c.size
    BY <1>2, <1>3, <1>4 DEF getEnd
  <2>3. \A c, d \in P : c # d => getEnd(c) <= d.start \/ getEnd(d) <= c.start
    BY <1>2, <1>3, <1>4 DEF getEnd
  <2>4. ASSUME NEW a \in b.start..(getEnd(b) - 1)
        PROVE  \E c \in P : inBlock(c, a)
    <3>1. a \in Nat /\ b.start <= a /\ a < b.start + b.size
      BY <1>2 DEF getEnd
    <3>2. CASE a < o.addr
      BY <1>2, <1>3, <1>4, <3>1, <3>2 DEF inBlock, getEnd
    <3>3. CASE o.addr <= a /\ a < o.addr + o.size
      BY <1>2, <1>3, <3>1, <3>3 DEF inBlock, getEnd
    <3>4. CASE o.addr + o.size <= a
      BY <1>2, <1>3, <1>4, <3>1, <3>4 DEF inBlock, getEnd
    <3> QED
      BY <1>2, <3>1, <3>2, <3>3, <3>4
  <2> QED
    BY <2>1, <2>2, <2>3, <2>4 DEF Tiles
<1>8. ASSUME NEW p \in O \ {o}
      PROVE  /\ extentEnd(p) <= current(x) \/ getEnd(x) <= p.addr
             /\ housed(p, b) => \E c \in sideBlocks(b, o) : housed(p, c)
  <2>1. p.addr \in Nat /\ extentEnd(p) \in Nat /\ p.addr < extentEnd(p)
    <3>1. p \in ObjectType
      OBVIOUS
    <3> QED
      BY <3>1, ObjectExtent
  <2>2. extentEnd(o) <= p.addr \/ extentEnd(p) <= o.addr
    BY DEF apart
  <2> QED
    BY <1>2, <1>3, <1>4, <2>1, <2>2 DEF current, getEnd, housed
<1>9. clean(x, O \ {o})
  BY <1>8 DEF clean
<1> QED
  BY <1>1, <1>5, <1>6, <1>7, <1>8, <1>9

(***************************************************************************)
(* One swept object: block b leaves all, the empty block x that now covers *)
(* the freed range joins newPartially, and the pieces S stay in all.       *)
(***************************************************************************)
LEMMA ReplaceFreed ==
    ASSUME IndInv, pc = "freeing", NEW o \in free,
           NEW b \in all, housed(o, b),
           NEW x, NEW S, Tiles({x} \cup S, b.start, getEnd(b)),
           x.used = 0, x \notin S, \A c \in S : c.used = 0,
           clean(x, objects \ {o}),
           \A p \in objects \ {o} :
              housed(p, b) => \E c \in {x} \cup S : housed(p, c),
           UNCHANGED <<heapUnUsedStart, heapUnusedSize, partiallyFreeBlocks,
                       fullBlocks, pc>>,
           all' = (all \ {b}) \cup S,
           newPartially' = newPartially \cup {x},
           free' = free \ {o},
           objects' = objects \ {o}
    PROVE  IndInv'
<1>1. /\ blocks = all \cup newPartially /\ open = newPartially
      /\ all \cap newPartially = {}
      /\ \A c \in newPartially : c.used = 0
      /\ Tiles(blocks, 0, heapUnUsedStart) /\ heapUnUsedStart \in Nat
  BY DEF IndInv, TypeOK, BlocksTile, Separate, blocks, open
<1>2. /\ blocks' = (blocks \ {b}) \cup ({x} \cup S)
      /\ open' = open \cup {x}
  BY <1>1 DEF blocks, open
<1>3. Tiles(blocks', 0, heapUnUsedStart')
  BY <1>1, <1>2, TilesReplace
<1>4. ASSUME NEW c \in {x} \cup S
      PROVE  c \in BlockType /\ c \notin blocks \ {b}
  <2>1. b \in blocks
    BY <1>1
  <2>2. c \notin blocks \ {b}
    BY <1>1, <2>1, PieceIsNew
  <2> QED
    BY <2>2 DEF Tiles
<1>5. TypeOK'
  BY <1>4 DEF IndInv, TypeOK
<1>6. Separate'
  BY <1>1, <1>4 DEF Separate
<1>7. ObjectsDisjoint'
  BY DEF IndInv, ObjectsDisjoint
<1>8. ObjectsHoused'
  <2>1. ASSUME NEW p \in objects \ {o} PROVE \E c \in blocks' : housed(p, c)
    <3>1. PICK c \in blocks : housed(p, c)
      BY DEF IndInv, ObjectsHoused
    <3> QED
      BY <1>2, <3>1
  <2> QED
    BY <2>1 DEF ObjectsHoused
<1>9. \A c : clean(c, objects) => clean(c, objects \ {o})
  BY DEF clean
<1>10. FreeSpaceClean'
  BY <1>2, <1>9 DEF IndInv, FreeSpaceClean
<1>11. UsedBlocksClean'
  <2>1. ASSUME NEW c \in blocks', c.used > 0 PROVE clean(c, objects')
    <3>1. c \notin {x} \cup S
      BY <2>1
    <3> QED
      BY <1>2, <1>9, <2>1, <3>1 DEF IndInv, UsedBlocksClean
  <2> QED
    BY <2>1 DEF UsedBlocksClean
<1> QED
  BY <1>3, <1>5, <1>6, <1>7, <1>8, <1>10, <1>11 DEF IndInv, BlocksTile

LEMMA FreeObjectIndInv ==
    ASSUME IndInv, NEW o \in free, FreeObject(o)
    PROVE  IndInv'
<1>1. /\ pc = "freeing" /\ free' = free \ {o} /\ objects' = objects \ {o}
      /\ UNCHANGED <<heapUnUsedStart, heapUnusedSize, partiallyFreeBlocks,
                     fullBlocks, pc>>
  BY DEF FreeObject, unused, lists
<1>2. PICK b \in all : inBlock(b, o.addr) /\ (ResetBlock(b, o) \/ SplitBlock(b, o))
  BY DEF FreeObject
<1>3. /\ o \in objects /\ objects \subseteq ObjectType
      /\ \A p, q \in objects : p # q => apart(p, q)
      /\ b \in blocks
      /\ b \in BlockType /\ b.used <= b.size /\ (b.used > 0 => clean(b, objects))
  BY <1>1 DEF IndInv, TypeOK, ObjectsDisjoint, BlocksTile, Tiles, UsedBlocksClean, blocks
<1>4. housed(o, b)
  BY <1>1, <1>2, <1>3, SweptHoused
<1>5. CASE ResetBlock(b, o)
  <2>1. PICK x, S : x = afterReset(b) /\ S = {}
    OBVIOUS
  <2>2. x \in BlockType /\ x.start = b.start /\ getEnd(x) = getEnd(b) /\ x.used = 0
    BY <1>3, <2>1 DEF afterReset, BlockType, getEnd
  <2>3. {x} \cup S = {x}
    BY <2>1
  <2>4. Tiles({x} \cup S, b.start, getEnd(b))
    BY <2>2, <2>3, TilesOne DEF BlockType
  <2>5. /\ all' = (all \ {b}) \cup S /\ newPartially' = newPartially \cup {x}
        /\ x \notin S /\ \A c \in S : c.used = 0
    BY <1>5, <2>1 DEF ResetBlock
  <2>6. clean(x, objects \ {o})
    BY <1>3, <1>4, <1>5, <2>1, ResetClean DEF ResetBlock
  <2>7. \A p \in objects \ {o} :
          housed(p, b) => \E c \in {x} \cup S : housed(p, c)
    BY <2>2, <2>3 DEF housed
  <2> QED
    BY <1>1, <1>4, <2>2, <2>4, <2>5, <2>6, <2>7, ReplaceFreed
<1>6. CASE SplitBlock(b, o)
  <2>1. PICK x, S : x = objectBlock(o) /\ S = sideBlocks(b, o)
    OBVIOUS
  <2>2. /\ Tiles({x} \cup S, b.start, getEnd(b))
        /\ x.used = 0 /\ x \notin S /\ \A c \in S : c.used = 0
        /\ clean(x, objects \ {o})
        /\ \A p \in objects \ {o} : housed(p, b) => \E c \in S : housed(p, c)
    BY <1>3, <1>4, <2>1, SplitPieces
  <2>3. all' = (all \ {b}) \cup S /\ newPartially' = newPartially \cup {x}
    BY <1>6, <2>1 DEF SplitBlock
  <2>4. \A p \in objects \ {o} :
          housed(p, b) => \E c \in {x} \cup S : housed(p, c)
    BY <2>2
  <2> QED
    BY <1>1, <1>4, <2>2, <2>3, <2>4, ReplaceFreed
<1> QED
  BY <1>2, <1>5, <1>6

-----------------------------------------------------------------------------
(***************************************************************************)
(* IndInv is an invariant: Init, one lemma per action, stuttering.         *)
(***************************************************************************)
LEMMA NextIndInv == IndInv /\ [Next]_vars => IndInv'
<1> SUFFICES ASSUME IndInv, [Next]_vars PROVE IndInv'
  OBVIOUS
<1>1. ASSUME NEW raw \in RawSizes, AllocateFromBlock(raw) PROVE IndInv'
  BY <1>1, AllocateFromBlockIndInv
<1>2. ASSUME NEW raw \in RawSizes, AllocateFromNewBlock(raw) PROVE IndInv'
  BY <1>2, AllocateFromNewBlockIndInv
<1>3. ASSUME NEW raw \in RawSizes, AllocateLarge(raw) PROVE IndInv'
  BY <1>3, AllocateLargeIndInv
<1>4. ASSUME NEW F \in SUBSET objects, MemoryFreed(F) PROVE IndInv'
  BY <1>4, MemoryFreedIndInv
<1>5. ASSUME NEW o \in free, FreeObject(o) PROVE IndInv'
  BY <1>5, FreeObjectIndInv
<1>6. CASE SearchFails
  BY <1>6, SearchFailsIndInv
<1>7. CASE FinishFree
  BY <1>7, FinishFreeIndInv
<1>8. CASE UNCHANGED vars
  BY <1>8 DEF vars, unused, lists, locals, IndInv, TypeOK, BlocksTile, blocks, open,
     Separate, ObjectsDisjoint, ObjectsHoused, FreeSpaceClean, UsedBlocksClean
<1>9. ASSUME NEW raw \in RawSizes, AllocateFails(raw) PROVE IndInv'
  BY <1>8, <1>9 DEF AllocateFails
<1> QED
  BY <1>1, <1>2, <1>3, <1>4, <1>5, <1>6, <1>7, <1>8, <1>9
     DEF Next, Allocate, Sweep

LEMMA IndInvInvariant == Spec => []IndInv
BY InitIndInv, NextIndInv, PTL DEF Spec

(***************************************************************************)
(* The variables keep their types, and the unused range is what is left of *)
(* the heap behind heapUnUsedStart (newBlockFromUnused, lines 171-179).    *)
(***************************************************************************)
THEOREM TypeCorrect == Spec => []TypeOK
<1>1. IndInv => TypeOK
  BY DEF IndInv
<1> QED
  BY <1>1, IndInvInvariant, PTL

(***************************************************************************)
(* No byte below heapUnUsedStart is ever lost or in two blocks, through    *)
(* any sequence of allocations and sweeps of any heap.                     *)
(***************************************************************************)
THEOREM BlocksAlwaysTile == Spec => []BlocksTile
<1>1. IndInv => BlocksTile
  BY DEF IndInv
<1> QED
  BY <1>1, IndInvInvariant, PTL

(***************************************************************************)
(* No two objects in use overlap, through any sequence of allocations and  *)
(* sweeps of any heap (CollectedHeap::allocate and memoryFreed).           *)
(***************************************************************************)
THEOREM ObjectsNeverOverlap == Spec => []ObjectsDisjoint
<1>1. IndInv => ObjectsDisjoint
  BY DEF IndInv
<1> QED
  BY <1>1, IndInvInvariant, PTL

(***************************************************************************)
(* The part of a block that allocate hands out next (current upwards,      *)
(* HeapBlock::allocate) never holds an object in use, nor a byte of one,   *)
(* whatever swept objects have split the block before.                     *)
(***************************************************************************)
THEOREM FreeSpaceAlwaysClean == Spec => []FreeSpaceClean
<1>1. IndInv => FreeSpaceClean
  BY DEF IndInv
<1> QED
  BY <1>1, IndInvInvariant, PTL

(***************************************************************************)
(* searchBlock in memoryFreed (line 205) always has a block to find for    *)
(* every object of the sweep still to handle.                              *)
(***************************************************************************)
THEOREM SweepAlwaysHasBlock == Spec => []SweptObjectHasBlock
<1>1. IndInv => SweptObjectHasBlock
  <2>1. ASSUME IndInv, pc = "freeing", NEW o \in free
        PROVE  \E b \in all : housed(o, b)
    <3>1. o \in objects
      BY <2>1 DEF IndInv, TypeOK
    <3> QED
      BY <2>1, <3>1, SweptHoused
  <2> QED
    BY <2>1 DEF SweptObjectHasBlock
<1> QED
  BY <1>1, IndInvInvariant, PTL

-----------------------------------------------------------------------------
(***************************************************************************)
(* An allocation is either a Hand of the Allocator or, if the object were  *)
(* in use already, no step of it: the invariant after the step says that   *)
(* the object is in the heap and apart from all others.                    *)
(***************************************************************************)
LEMMA AllocationImplementsHand ==
    ASSUME IndInv, IndInv', pc = "idle", free' = free,
           NEW o, objects' = objects \cup {o}
    PROVE  [A!AllocatorNext]_(A!allocatorVars)
<1>1. free = {}
  BY DEF IndInv, Separate
<1>2. CASE o \in objects
  BY <1>2 DEF A!allocatorVars
<1>3. CASE o \notin objects
  <2>1. o \in objects' /\ o \in objects' \ objects /\ o \in ObjectType
    BY <1>3 DEF IndInv, TypeOK
  <2>2. o.addr \in Nat /\ o.size \in RawSizes
    BY <2>1, ObjectExtent
  <2>3. extentEnd(o) <= heapSize
    <3>1. PICK c \in blocks' : housed(o, c)
      BY <2>1 DEF IndInv, ObjectsHoused
    <3>2. getEnd(c) <= heapUnUsedStart' /\ heapUnUsedStart' \in 0..heapSize /\ c \in BlockType
      BY DEF IndInv, BlocksTile, Tiles, TypeOK
    <3> QED
      BY <2>1, <3>1, <3>2, ObjectExtent, SizesAssumption DEF housed, BlockType, getEnd
  <2>4. \A p \in objects : apart(o, p)
    BY <1>3 DEF IndInv, ObjectsDisjoint
  <2>5. \A p : A!extentEnd(p) = extentEnd(p) /\ A!apart(o, p) = apart(o, p)
    BY DEF A!extentEnd, extentEnd, A!align, align, A!apart, apart
  <2>6. A!Hand
    BY <1>1, <2>1, <2>2, <2>3, <2>4, <2>5 DEF A!Hand
  <2> QED
    BY <2>6 DEF A!AllocatorNext
<1> QED
  BY <1>2, <1>3

LEMMA NextImplementsAllocator ==
    ASSUME IndInv, IndInv', [Next]_vars
    PROVE  [A!AllocatorNext]_(A!allocatorVars)
<1>1. ASSUME NEW raw \in RawSizes,
             AllocateFromBlock(raw) \/ AllocateFromNewBlock(raw) \/ AllocateLarge(raw)
      PROVE  [A!AllocatorNext]_(A!allocatorVars)
  <2>1. pc = "idle" /\ free' = free /\ \E o : objects' = objects \cup {o}
    BY <1>1 DEF AllocateFromBlock, AllocateFromNewBlock, AllocateLarge, locals
  <2> QED
    BY <2>1, AllocationImplementsHand
<1>2. ASSUME NEW F \in SUBSET objects, MemoryFreed(F)
      PROVE  [A!AllocatorNext]_(A!allocatorVars)
  BY <1>2 DEF MemoryFreed, IndInv, Separate, A!AllocatorNext, A!Condemn
<1>3. ASSUME NEW o \in free, FreeObject(o)
      PROVE  [A!AllocatorNext]_(A!allocatorVars)
  BY <1>3 DEF FreeObject, A!AllocatorNext, A!Release
<1>4. ASSUME SearchFails \/ FinishFree \/ UNCHANGED vars
                \/ \E raw \in RawSizes : AllocateFails(raw)
      PROVE  UNCHANGED <<objects, free>>
  BY <1>4 DEF SearchFails, FinishFree, AllocateFails, vars, locals
<1> QED
  BY <1>1, <1>2, <1>3, <1>4 DEF Next, Allocate, Sweep, A!allocatorVars

(***************************************************************************)
(* CollectedHeap keeps the promise of Allocator: the range it returns is   *)
(* in the heap and overlaps no object in use, and only memoryFreed ends an *)
(* object's use.                                                           *)
(***************************************************************************)
THEOREM HeapImplementsAllocator == Spec => AllocatorSpec
<1>1. Init => A!AllocatorInit
  BY DEF Init, A!AllocatorInit
<1>2. IndInv /\ IndInv' /\ [Next]_vars => [A!AllocatorNext]_(A!allocatorVars)
  BY NextImplementsAllocator
<1> QED
  BY <1>1, <1>2, IndInvInvariant, PTL DEF Spec, AllocatorSpec, A!AllocatorSpec
=============================================================================
