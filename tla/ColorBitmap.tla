---------------------------- MODULE ColorBitmap ----------------------------
(***************************************************************************)
(* ColorBitmap (ColorBitmap.h) as several threads use it: one 64 bit word  *)
(* per block, two bits per four bytes.  setColor writes its two bits one   *)
(* after the other, each by loading the word of the std::bitset, changing  *)
(* one bit and storing the word; getColor tests the two bits one after the *)
(* other.  Nothing else orders the threads: SparkGC's setColor, markGray   *)
(* and the collector call these with no lock.                              *)
(***************************************************************************)
EXTENDS Integers

CONSTANTS
    BLOCK,      \* SPARK_GC_HEAP_BLOCK
    Threads,
    Offsets,    \* offsets of objects
    Writes      \* for each thread, the objects whose color it sets

ASSUME BitmapAssumption ==
    /\ BLOCK \in Nat \ {0} /\ BLOCK % 4 = 0
    /\ Offsets \subseteq Nat /\ \A o \in Offsets : (o % BLOCK) % 4 = 0
    /\ Writes \in [Threads -> SUBSET Offsets]

\* GCColor.  No call of setColor is given gray: allocate sets the allocation
\* color, the trace the mark color (one of white and black), the sweep blue.
BLUE  == 0
WHITE == 1
BLACK == 3
Colors == {BLUE, WHITE, BLACK}

VARIABLES
    bitmaps,   \* for each block, the set of bit positions that are 1
    op,        \* what each thread is doing, see below
    last,      \* ghost: the color of the last completed setColor
    raced      \* ghost: the blocks in which two calls of setColor overlapped

vars == <<bitmaps, op, last, raced>>

\* Mutants: blocks twice as long as their bitmaps; no offset within the block.
blockIndexWide(o)    == o \div (2 * BLOCK)
bitmapOffsetHeap(o)  == (o \div 4) * 2

\* getBitmap and the bit offset within it.
blockIndex(o)   == o \div BLOCK
bitmapOffset(o) == ((o % BLOCK) \div 4) * 2

\* Bit i of a color, as bitset<2>(color) has it, and what it counts for.
bitValue(i)    == IF i = 0 THEN 1 ELSE 2
colorBit(c, i) == (c \div bitValue(i)) % 2 = 1

\* Mutant of withBit: the rest of the word is cleared.
onlyBit(word, p, v) == IF v THEN {p} ELSE {}

withBit(word, p, v) == IF v THEN word \cup {p} ELSE word \ {p}

colorIn(word, o) ==
    (IF bitmapOffset(o) \in word THEN 1 ELSE 0) + (IF bitmapOffset(o) + 1 \in word THEN 2 ELSE 0)

Words == {blockIndex(o) : o \in Offsets}

\* A thread is idle, in the loop of setColor (next bit, and the word once
\* loaded) or of getColor (next bit, the color so far, and ghost seen: the
\* colors the object had or was being given since the call began).
Idle == [kind |-> "idle"]
Setting(o, c, i)  == [kind |-> "set", offset |-> o, color |-> c, bit |-> i]
Storing(s, word)  == [kind |-> "store", offset |-> s.offset, color |-> s.color,
                      bit |-> s.bit, word |-> word]
Getting(o, i, c, seen) == [kind |-> "get", offset |-> o, bit |-> i, color |-> c, seen |-> seen]
Got(g, c) == [kind |-> "got", offset |-> g.offset, color |-> c, seen |-> g.seen]

isSetting(t)    == op[t].kind \in {"set", "store"}
isWriting(t, o) == isSetting(t) /\ op[t].offset = o

beingSet(o) == {op[t].color : t \in {u \in Threads : isWriting(u, o)}}

Init ==
    /\ bitmaps = [w \in Words |-> {}]
    /\ op = [t \in Threads |-> Idle]
    /\ last = [o \in Offsets |-> BLUE]
    /\ raced = {}

-----------------------------------------------------------------------------
free(t) == op[t].kind \in {"idle", "got"}

overlaps(t, o) ==
    \E u \in Threads \ {t} : isSetting(u) /\ blockIndex(op[u].offset) = blockIndex(o)

SetColor(t, o, c) ==
    /\ free(t)
    /\ o \in Writes[t]
    /\ op' = [u \in Threads |->
            IF u = t THEN Setting(o, c, 0)
            ELSE IF op[u].kind = "get" /\ op[u].offset = o
                 THEN [op[u] EXCEPT !.seen = @ \cup {c}] ELSE op[u]]
    /\ raced' = IF overlaps(t, o) THEN raced \cup {blockIndex(o)} ELSE raced
    /\ UNCHANGED <<bitmaps, last>>

LoadWord(t) ==
    /\ op[t].kind = "set"
    /\ op' = [op EXCEPT ![t] = Storing(@, bitmaps[blockIndex(op[t].offset)])]
    /\ UNCHANGED <<bitmaps, last, raced>>

StoreWord(t) ==
    LET s == op[t] IN
    /\ s.kind = "store"
    /\ bitmaps' = [bitmaps EXCEPT ![blockIndex(s.offset)] =
            withBit(s.word, bitmapOffset(s.offset) + s.bit, colorBit(s.color, s.bit))]
    /\ IF s.bit = 0
       THEN op' = [op EXCEPT ![t] = Setting(s.offset, s.color, 1)] /\ UNCHANGED last
       ELSE op' = [op EXCEPT ![t] = Idle] /\ last' = [last EXCEPT ![s.offset] = s.color]
    /\ UNCHANGED raced

GetColor(t, o) ==
    /\ free(t)
    /\ op' = [op EXCEPT ![t] = Getting(o, 0, 0, {last[o]} \cup beingSet(o))]
    /\ UNCHANGED <<bitmaps, last, raced>>

TestBit(t) ==
    LET g == op[t]
        isSet == (bitmapOffset(g.offset) + g.bit) \in bitmaps[blockIndex(g.offset)]
        c == g.color + (IF isSet THEN bitValue(g.bit) ELSE 0) IN
    /\ g.kind = "get"
    /\ op' = [op EXCEPT ![t] = IF g.bit = 0 THEN Getting(g.offset, 1, c, g.seen) ELSE Got(g, c)]
    /\ UNCHANGED <<bitmaps, last, raced>>

Next ==
    \E t \in Threads :
        \/ \E o \in Offsets, c \in Colors : SetColor(t, o, c)
        \/ LoadWord(t)
        \/ StoreWord(t)
        \/ \E o \in Offsets : GetColor(t, o)
        \/ TestBit(t)

Spec == Init /\ [][Next]_vars

-----------------------------------------------------------------------------
(***************************************************************************)
(* Type invariant: in particular every color read back is one of the enum. *)
(***************************************************************************)
TypeOK ==
    /\ bitmaps \in [Words -> SUBSET (0..(BLOCK \div 2 - 1))]
    /\ \A t \in Threads :
         /\ op[t].kind \in {"idle", "set", "store", "get", "got"}
         /\ op[t].kind # "idle" => op[t].offset \in Offsets /\ op[t].color \in 0..3
         /\ op[t].kind = "store" => op[t].word \subseteq 0..(BLOCK \div 2 - 1)
    /\ last \in [Offsets -> Colors]
    /\ raced \subseteq Words

colorsKept(o) ==
    (\A t \in Threads : ~isWriting(t, o)) => colorIn(bitmaps[blockIndex(o)], o) = last[o]

unraced(o) == blockIndex(o) \notin raced

(***************************************************************************)
(* Only overlapping calls lose an update: until two threads are in         *)
(* setColor for objects of one block at the same time, every object of the *)
(* block that nobody is coloring has the color of its last completed       *)
(* setColor, whatever its neighbours' colors went through.                 *)
(***************************************************************************)
OnlyOverlapsLose == \A o \in Offsets : unraced(o) => colorsKept(o)

(***************************************************************************)
(* getColor tests two bits while setColor writes two: a color the object   *)
(* neither had nor was being given is read only if it met blue and black,  *)
(* that is, while the object is being allocated or swept.  An object that  *)
(* stays in use is read white or black, the old color or the new one.      *)
(***************************************************************************)
TornOnlyBlueAndBlack ==
    \A t \in Threads :
        /\ op[t].kind = "got" /\ unraced(op[t].offset)
        /\ op[t].color \notin op[t].seen
        => {BLUE, BLACK} \subseteq op[t].seen

-----------------------------------------------------------------------------
(***************************************************************************)
(* What HeapManagement.md:18 says of the mapping, "that accessing of the   *)
(* color can occur without synchronization", and a run refutes: no update  *)
(* is lost.                                                                *)
(***************************************************************************)
NoLostUpdate == \A o \in Offsets : colorsKept(o)
=============================================================================
