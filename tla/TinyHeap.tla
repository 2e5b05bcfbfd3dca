------------------------------ MODULE TinyHeap ------------------------------
(***************************************************************************)
(* tiny-vm's heap (memory.hpp): chunks cut off the unused end of one piece *)
(* of memory, a list of freed spaces searched by one of three policies,    *)
(* and compress, which merges neighbours when a request finds no room.     *)
(*                                                                         *)
(* Addresses are offsets from hs, so hl is heapSize.  A space, in use or   *)
(* on the free list, is named by its raw address, where its size header    *)
(* lies; malloc returns and free takes the address behind the header.      *)
(* get_size has the headers of the spaces only: other memory is a user's   *)
(* data or what was left there, and no code may take it for a header.      *)
(***************************************************************************)
EXTENDS Integers, Lists

CONSTANTS HEADER,     \* sizeof(size_t)
          heapSize,   \* bytes given to the constructor
          Sizes       \* the sizes users ask for

Policies == {"first_fit", "best_fit", "worst_fit"}

ASSUME TinyHeapAssumption ==
    /\ HEADER \in Nat \ {0} /\ heapSize \in Nat
    /\ Sizes \subseteq 1..heapSize    \* so size + HEADER does not wrap

VARIABLES
    policy, no_truncate,   \* the constructor's arguments
    heap,      \* [hp, free_list, get_size]
    asked,     \* ghost: the size that was asked for, of each space in use
    refused    \* ghost: the size that the last call was refused, or 0

vars == <<policy, no_truncate, heap, asked, refused>>

nullptr == -1

Init ==
    /\ policy \in Policies
    /\ no_truncate \in BOOLEAN
    /\ heap = [hp |-> 0, free_list |-> << >>, get_size |-> << >>]
    /\ asked = << >>
    /\ refused = 0

-----------------------------------------------------------------------------
(***************************************************************************)
(* Headers.  They are functions from raw addresses to sizes.               *)
(***************************************************************************)
with(sizes, p, size) == [q \in DOMAIN sizes \cup {p} |-> IF q = p THEN size ELSE sizes[q]]
without(sizes, p)    == [q \in DOMAIN sizes \ {p} |-> sizes[q]]

spaceEnd(sizes, p) == p + sizes[p] + HEADER

-----------------------------------------------------------------------------
(***************************************************************************)
(* compress: the list is sorted, each space is merged into the one before  *)
(* it (ptr) when it follows immediately, and the last one, when it ends at *)
(* hp, becomes part of the unused end again.                               *)
(***************************************************************************)
\* Mutant of merged: whatever comes next is merged.
mergedBlindly(acc, p) ==
    IF acc.ptr # nullptr
    THEN [acc EXCEPT !.sizes = without(with(@, acc.ptr, p - acc.ptr + @[p]), p)]
    ELSE [acc EXCEPT !.ptr = p]

merged(acc, p) ==
    IF acc.ptr # nullptr /\ spaceEnd(acc.sizes, acc.ptr) = p
    THEN [acc EXCEPT !.sizes = without(with(@, acc.ptr, @[acc.ptr] + @[p] + HEADER), p)]
    ELSE [acc EXCEPT !.list = IF acc.ptr = nullptr THEN @ ELSE Append(@, acc.ptr), !.ptr = p]

\* Mutant of inOrder: the list as free left it.
asFreed(h) == h.free_list

lower(S) == {pair \in S \X S : pair[1] < pair[2]}

inOrder(h) == sorted(h.free_list, lower(ToSet(h.free_list)))

\* The loop over the sorted list: the new list, ptr and the headers it leaves.
compressed(h) ==
    LET l == inOrder(h)
        after[n \in 0..Len(l)] ==
            IF n = 0 THEN [list |-> << >>, ptr |-> nullptr, sizes |-> h.get_size]
            ELSE merged(after[n - 1], l[n])
    IN  after[Len(l)]

compress(h) ==
    LET acc == compressed(h) IN
    IF acc.ptr = nullptr THEN h
    ELSE IF spaceEnd(acc.sizes, acc.ptr) = h.hp
         THEN [hp |-> acc.ptr, free_list |-> acc.list, get_size |-> without(acc.sizes, acc.ptr)]
         ELSE [hp |-> h.hp, free_list |-> Append(acc.list, acc.ptr), get_size |-> acc.sizes]

-----------------------------------------------------------------------------
(***************************************************************************)
(* allocate: the position in the free list that a policy picks (0: none).  *)
(***************************************************************************)
sizeAt(h, i) == h.get_size[h.free_list[i]]
positions(h) == DOMAIN h.free_list

\* The first of the positions whose size is smallest (largest) of all.
firstSmallest(h, among) ==
    CHOOSE i \in among : \A j \in among : \/ sizeAt(h, i) < sizeAt(h, j)
                                          \/ sizeAt(h, i) = sizeAt(h, j) /\ i <= j
firstLargest(h, among) ==
    CHOOSE i \in among : \A j \in among : \/ sizeAt(h, i) > sizeAt(h, j)
                                          \/ sizeAt(h, i) = sizeAt(h, j) /\ i <= j

first_fit(h, size) ==
    LET fit == {i \in positions(h) : sizeAt(h, i) >= size} IN
    IF fit = {} THEN 0 ELSE CHOOSE i \in fit : \A j \in fit : i <= j

\* best starts at the head of the list, fit or not, and only a smaller space
\* replaces it.
best_fit(h, size) ==
    LET better == {i \in positions(h) : sizeAt(h, i) >= size /\ sizeAt(h, i) < sizeAt(h, 1)} IN
    IF better = {} THEN 1 ELSE firstSmallest(h, better)

worst_fit(h) == firstLargest(h, positions(h))

picked(h, size) ==
    IF h.free_list = << >> THEN 0
    ELSE CASE policy = "first_fit" -> first_fit(h, size)
           [] policy = "best_fit"  -> best_fit(h, size)
           [] policy = "worst_fit" -> worst_fit(h)

\* Mutant of truncated: the rest is taken for free space from its header on.
truncatedLong(h, raw, size) ==
    LET ptr == raw + HEADER + size IN
    [h EXCEPT !.get_size = with(with(@, ptr, @[raw] - size), raw, size),
              !.free_list = Append(@, ptr)]

\* What remains of the space at raw behind size bytes becomes a free space.
truncated(h, raw, size) ==
    LET ptr == raw + HEADER + size IN
    [hp |-> h.hp,
     free_list |-> Append(h.free_list, ptr),
     get_size |-> with(with(h.get_size, ptr, h.get_size[raw] - size - HEADER), raw, size)]

\* Mutant of withoutAt: the space stays on the list.
listedStill(h, i) == h

withoutAt(h, i) == [h EXCEPT !.free_list = RemoveAt(@, i)]

\* allocate's result and the heap it leaves; ptr is the raw address.
fromFreeList(h, i, size) ==
    LET raw   == h.free_list[i]
        taken == withoutAt(h, i) IN
    [ptr |-> raw,
     heap |-> IF ~no_truncate /\ h.get_size[raw] - size > HEADER
              THEN truncated(taken, raw, size) ELSE taken]

fromRest(h, size) ==
    [ptr |-> h.hp,
     heap |-> [hp |-> h.hp + size + HEADER,
               free_list |-> h.free_list,
               get_size |-> with(h.get_size, h.hp, size)]]

allocate(h, size) ==
    LET i == picked(h, size) IN
    IF i # 0 /\ sizeAt(h, i) >= size THEN fromFreeList(h, i, size)
    ELSE IF heapSize - h.hp >= size + HEADER THEN fromRest(h, size)
    ELSE [ptr |-> nullptr, heap |-> h]

-----------------------------------------------------------------------------
(***************************************************************************)
(* malloc, one action per return, and free.                                *)
(***************************************************************************)
returns(result, size) ==
    /\ result.ptr # nullptr
    /\ heap' = result.heap
    /\ asked' = with(asked, result.ptr, size)
    /\ refused' = 0
    /\ UNCHANGED <<policy, no_truncate>>

MallocAtOnce(size) == returns(allocate(heap, size), size)

MallocCompressed(size) ==
    /\ allocate(heap, size).ptr = nullptr
    /\ returns(allocate(compress(heap), size), size)

\* vm_throw does not leave malloc: it returns nullptr.
MallocFails(size) ==
    /\ allocate(heap, size).ptr = nullptr
    /\ allocate(compress(heap), size).ptr = nullptr
    /\ heap' = compress(heap)
    /\ refused' = size
    /\ UNCHANGED <<policy, no_truncate, asked>>

\* Users free what malloc gave them, once.
Free(raw) ==
    /\ raw \in DOMAIN asked
    /\ heap' = [heap EXCEPT !.free_list = Append(@, raw)]
    /\ asked' = without(asked, raw)
    /\ refused' = 0
    /\ UNCHANGED <<policy, no_truncate>>

Next ==
    \/ \E size \in Sizes : MallocAtOnce(size) \/ MallocCompressed(size) \/ MallocFails(size)
    \/ \E raw \in DOMAIN asked : Free(raw)

Spec == Init /\ [][Next]_vars

-----------------------------------------------------------------------------
freeSpaces == ToSet(heap.free_list)
end(p)     == spaceEnd(heap.get_size, p)

(***************************************************************************)
(* Type invariant: the headers that count are those of the spaces in use   *)
(* and of the free ones, no space is on the list twice or both.            *)
(***************************************************************************)
TypeOK ==
    /\ policy \in Policies /\ no_truncate \in BOOLEAN
    /\ heap.hp \in 0..heapSize
    /\ IsInjective(heap.free_list) /\ freeSpaces \cap DOMAIN asked = {}
    /\ DOMAIN heap.get_size = freeSpaces \cup DOMAIN asked
    /\ \A p \in DOMAIN heap.get_size : p \in 0..(heapSize - 1) /\ heap.get_size[p] \in 1..heapSize
    /\ refused \in Sizes \cup {0}

(***************************************************************************)
(* The spaces tile the memory below hp: malloc, truncation, free and       *)
(* compress neither lose bytes nor give any to two spaces.                 *)
(***************************************************************************)
SpacesTile ==
    LET Spaces == DOMAIN heap.get_size IN
    /\ \A p \in Spaces : end(p) = heap.hp \/ end(p) \in Spaces
    /\ \A p, q \in Spaces : p = q \/ end(p) <= q \/ end(q) <= p
    /\ Spaces = {} <=> heap.hp = 0
    /\ Spaces # {} => 0 \in Spaces

(***************************************************************************)
(* What a user holds has room for what was asked; with truncation the      *)
(* surplus is never more than a header.                                    *)
(***************************************************************************)
ChunkHoldsRequest ==
    \A p \in DOMAIN asked :
        /\ heap.get_size[p] >= asked[p]
        /\ ~no_truncate => heap.get_size[p] - asked[p] <= HEADER

(***************************************************************************)
(* Somewhere between the spaces in use there are size + HEADER bytes.      *)
(***************************************************************************)
roomFor(size) ==
    \E a \in 0..(heapSize - size - HEADER) :
        \A p \in DOMAIN asked : end(p) <= a \/ a + size + HEADER <= p

(***************************************************************************)
(* "There have no usable spaces,throw bad alloc exception"                 *)
(* (memory.hpp:144): first_fit and worst_fit refuse a request only when no *)
(* gap between the spaces in use could hold it, so compress merges all     *)
(* that can be merged.  best_fit, whose scan cannot leave a head of the    *)
(* list that is too small, may refuse with room left, but only when the    *)
(* unused end and the lowest free space are both too small.                *)
(***************************************************************************)
BadAllocOnlyWhenFull ==
    refused # 0 =>
        IF policy # "best_fit" THEN ~roomFor(refused)
        ELSE /\ heapSize - heap.hp < refused + HEADER
             /\ freeSpaces # {} => heap.get_size[Min(freeSpaces)] < refused

(***************************************************************************)
(* No call changes the space of a chunk another call has handed out: its   *)
(* header, and with it what free will give back, stays as it is.           *)
(***************************************************************************)
ChunksKeepTheirSpace ==
    [][\A p \in DOMAIN asked \cap DOMAIN asked' :
           asked'[p] = asked[p] /\ heap'.get_size[p] = heap.get_size[p]]_vars
=============================================================================
