------------------------- MODULE ColorBitmap_proof -------------------------
(***************************************************************************)
(* Proofs about ColorBitmap, for every block size, set of objects and set  *)
(* of threads: which interleavings of setColor and getColor leave the      *)
(* colors right, and which colors a read may return.                       *)
(***************************************************************************)
EXTENDS ColorBitmap, TLAPS

-----------------------------------------------------------------------------
(***************************************************************************)
(* The inductive invariant.  In a block that is not raced one thread at a  *)
(* time is in setColor; hence a word that was loaded is still the one in   *)
(* the bitmap; each bit of an object is that of its last color or, once it *)
(* is written, of the color being set; and a reader has seen every color   *)
(* whose bits it may have met.                                             *)
(***************************************************************************)
Positions == 0..(BLOCK \div 2 - 1)

Operations ==
    [kind : {"idle"}]
    \cup [kind : {"set"}, offset : Offsets, color : Colors, bit : {0, 1}]
    \cup [kind : {"store"}, offset : Offsets, color : Colors, bit : {0, 1}, word : SUBSET Positions]
    \cup [kind : {"get"}, offset : Offsets, bit : {0, 1}, color : 0..3, seen : SUBSET Colors]
    \cup [kind : {"got"}, offset : Offsets, color : 0..3, seen : SUBSET Colors]

TypeInv ==
    /\ bitmaps \in [Words -> SUBSET Positions]
    /\ op \in [Threads -> Operations]
    /\ last \in [Offsets -> Colors]
    /\ raced \subseteq Words
    /\ \A t \in Threads : op[t].kind = "get" =>
           op[t].color \in (IF op[t].bit = 0 THEN {0} ELSE {0, 1})

OneWriterPerWord ==
    \A t, u \in Threads : t # u /\ isSetting(t) /\ isSetting(u) /\ unraced(op[t].offset)
        => blockIndex(op[t].offset) # blockIndex(op[u].offset)

LoadedIsCurrent ==
    \A t \in Threads : op[t].kind = "store" /\ unraced(op[t].offset)
        => op[t].word = bitmaps[blockIndex(op[t].offset)]

bitAt(o, i) == bitmapOffset(o) + i \in bitmaps[blockIndex(o)]

\* The thread t has written bit i of the object at o, and is not done with o.
hasWritten(t, o, i) == isWriting(t, o) /\ i < op[t].bit

ownedBit(o, i) ==
    /\ (\A t \in Threads : ~hasWritten(t, o, i)) => bitAt(o, i) = colorBit(last[o], i)
    /\ \A t \in Threads : hasWritten(t, o, i) => bitAt(o, i) = colorBit(op[t].color, i)

BitsOwned == \A o \in Offsets, i \in {0, 1} : unraced(o) => ownedBit(o, i)

mayMeet(o) == {last[o]} \cup beingSet(o)

low(c)  == colorBit(c, 0)
high(c) == colorBit(c, 1)

hasSeen(t) ==
    LET g == op[t] IN
    /\ \A o \in Offsets : g.kind = "get" /\ g.offset = o => mayMeet(o) \subseteq g.seen
    /\ g.kind = "get" /\ g.bit = 1 /\ unraced(g.offset) => \E c \in g.seen : low(g.color) = low(c)
    /\ g.kind = "got" /\ unraced(g.offset) => /\ \E c \in g.seen : low(g.color) = low(c)
                                             /\ \E c \in g.seen : high(g.color) = high(c)

ReaderHasSeen == \A t \in Threads : hasSeen(t)

BitmapInv == TypeInv /\ OneWriterPerWord /\ LoadedIsCurrent /\ BitsOwned /\ ReaderHasSeen

-----------------------------------------------------------------------------
(***************************************************************************)
(* Arithmetic: the two bits of an object lie in its word, and those of two *)
(* objects of one block do not meet.                                       *)
(***************************************************************************)
LEMMA InBlock ==
    ASSUME NEW o \in Offsets
    PROVE  /\ blockIndex(o) \in Nat /\ o % BLOCK \in 0..(BLOCK - 1)
           /\ o = BLOCK * blockIndex(o) + (o % BLOCK)
BY BitmapAssumption DEF blockIndex

LEMMA FourApart ==
    ASSUME NEW B \in Nat, B % 4 = 0, NEW x \in 0..(B - 1), x % 4 = 0
    PROVE  /\ x = 4 * (x \div 4)
           /\ (x \div 4) * 2 \in Nat
           /\ (x \div 4) * 2 + 1 <= B \div 2 - 1
OBVIOUS

LEMMA InWord ==
    ASSUME NEW o \in Offsets
    PROVE  /\ bitmapOffset(o) \in Nat
           /\ bitmapOffset(o) \in Positions /\ bitmapOffset(o) + 1 \in Positions
           /\ bitmapOffset(o) = 2 * ((o % BLOCK) \div 4)
<1>1. (o % BLOCK) % 4 = 0 /\ BLOCK \in Nat /\ BLOCK % 4 = 0
  BY BitmapAssumption
<1>2. o % BLOCK \in 0..(BLOCK - 1)
  BY InBlock
<1>3. (o % BLOCK) \div 4 \in Nat
  BY <1>1, <1>2
<1>4. ((o % BLOCK) \div 4) * 2 + 1 <= BLOCK \div 2 - 1
  BY <1>1, <1>2, FourApart
<1>5. BLOCK \div 2 \in Nat
  BY <1>1
<1> QED
  BY <1>3, <1>4, <1>5 DEF bitmapOffset, Positions

LEMMA BitsApart ==
    ASSUME NEW o \in Offsets, NEW p \in Offsets, o # p, blockIndex(o) = blockIndex(p),
           NEW i \in {0, 1}, NEW j \in {0, 1}
    PROVE  bitmapOffset(o) + i # bitmapOffset(p) + j
<1>1. o % BLOCK # p % BLOCK
  BY InBlock
<1>2. /\ o % BLOCK = 4 * ((o % BLOCK) \div 4) /\ p % BLOCK = 4 * ((p % BLOCK) \div 4)
      /\ (o % BLOCK) \div 4 \in Nat /\ (p % BLOCK) \div 4 \in Nat
  <2>1. /\ o % BLOCK \in 0..(BLOCK - 1) /\ (o % BLOCK) % 4 = 0
        /\ p % BLOCK \in 0..(BLOCK - 1) /\ (p % BLOCK) % 4 = 0
    BY InBlock, BitmapAssumption
  <2>2. BLOCK \in Nat
    BY BitmapAssumption
  <2> QED
    BY <2>1, <2>2
<1>3. (o % BLOCK) \div 4 # (p % BLOCK) \div 4
  BY <1>1, <1>2
<1> QED
  BY <1>2, <1>3, InWord

-----------------------------------------------------------------------------
(***************************************************************************)
(* Types.                                                                  *)
(***************************************************************************)
LEMMA KindFields ==
    ASSUME TypeInv, NEW t \in Threads
    PROVE  /\ op[t].kind \in {"idle", "set", "store", "get", "got"}
           /\ op[t].kind \in {"set", "store"} =>
                /\ op[t].offset \in Offsets /\ op[t].color \in Colors /\ op[t].bit \in {0, 1}
           /\ op[t].kind = "store" => op[t].word \in SUBSET Positions
           /\ op[t].kind = "get" =>
                /\ op[t].offset \in Offsets /\ op[t].bit \in {0, 1} /\ op[t].seen \subseteq Colors
                /\ op[t].color \in (IF op[t].bit = 0 THEN {0} ELSE {0, 1})
           /\ op[t].kind = "got" =>
                /\ op[t].offset \in Offsets /\ op[t].color \in 0..3
                /\ op[t].seen \subseteq Colors
<1>1. op[t] \in Operations
  BY DEF TypeInv
<1> QED
  BY <1>1 DEF TypeInv, Operations

LEMMA OffsetsHaveWords ==
    ASSUME NEW o \in Offsets
    PROVE  blockIndex(o) \in Words
BY DEF Words

LEMMA InitialTypes == Init => TypeInv
<1>1. SUFFICES ASSUME Init PROVE TypeInv
  OBVIOUS
<1>2. bitmaps \in [Words -> SUBSET Positions]
  BY <1>1 DEF Init
<1>3. op \in [Threads -> Operations] /\ \A t \in Threads : op[t].kind = "idle"
  BY <1>1 DEF Init, Idle, Operations
<1>4. last \in [Offsets -> Colors] /\ raced \subseteq Words
  BY <1>1 DEF Init, Colors
<1> QED
  BY <1>2, <1>3, <1>4 DEF TypeInv

LEMMA TypesKept ==
    ASSUME TypeInv, [Next]_vars
    PROVE  TypeInv'
<1>1. ASSUME NEW t \in Threads, NEW o \in Offsets, NEW c \in Colors, SetColor(t, o, c)
      PROVE  TypeInv'
  <2>1. bitmaps' = bitmaps /\ last' = last /\ raced' \subseteq Words
    BY <1>1, OffsetsHaveWords DEF SetColor, TypeInv
  <2>2. ASSUME NEW u \in Threads
        PROVE  /\ op'[u] \in Operations
               /\ op'[u].kind = "get" =>
                    op'[u].color \in (IF op'[u].bit = 0 THEN {0} ELSE {0, 1})
    <3>1. CASE u = t
      <4>1. op'[u] = Setting(o, c, 0)
        BY <1>1, <3>1 DEF SetColor
      <4> QED
        BY <4>1 DEF Setting, Operations
    <3>2. CASE u # t /\ op[u].kind = "get" /\ op[u].offset = o
      <4>1. op'[u] = [op[u] EXCEPT !.seen = @ \cup {c}]
        BY <1>1, <3>2 DEF SetColor
      <4>2. op[u] \in [kind : {"get"}, offset : Offsets, bit : {0, 1}, color : 0..3,
                       seen : SUBSET Colors]
        BY <3>2 DEF TypeInv, Operations
      <4>3. op[u].seen \cup {c} \in SUBSET Colors
        BY <4>2
      <4>4. op'[u] \in [kind : {"get"}, offset : Offsets, bit : {0, 1}, color : 0..3,
                        seen : SUBSET Colors]
        BY <4>1, <4>2, <4>3
      <4> QED
        BY <4>1, <4>2, <4>4, <3>2 DEF TypeInv, Operations
    <3>3. CASE u # t /\ ~(op[u].kind = "get" /\ op[u].offset = o)
      BY <1>1, <3>3 DEF SetColor, TypeInv
    <3> QED
      BY <3>1, <3>2, <3>3
  <2>3. op' = [u \in Threads |-> op'[u]]
    BY <1>1 DEF SetColor
  <2> QED
    BY <2>1, <2>2, <2>3 DEF TypeInv
<1>2. ASSUME NEW t \in Threads, LoadWord(t)
      PROVE  TypeInv'
  <2>1. /\ op[t].offset \in Offsets /\ op[t].color \in Colors /\ op[t].bit \in {0, 1}
        /\ bitmaps[blockIndex(op[t].offset)] \in SUBSET Positions
    BY <1>2, KindFields, OffsetsHaveWords DEF LoadWord, TypeInv
  <2>2. Storing(op[t], bitmaps[blockIndex(op[t].offset)]) \in Operations
    BY <2>1 DEF Storing, Operations
  <2>3. Storing(op[t], bitmaps[blockIndex(op[t].offset)]).kind = "store"
    BY DEF Storing
  <2> QED
    BY <1>2, <2>2, <2>3 DEF LoadWord, TypeInv
<1>3. ASSUME NEW t \in Threads, StoreWord(t)
      PROVE  TypeInv'
  <2> DEFINE s == op[t]
             v == colorBit(s.color, s.bit)
             w == withBit(s.word, bitmapOffset(s.offset) + s.bit, v)
  <2>1. /\ s.offset \in Offsets /\ s.color \in Colors /\ s.bit \in {0, 1}
        /\ s.word \in SUBSET Positions
    BY <1>3, KindFields DEF StoreWord
  <2>2. w \in SUBSET Positions
    BY <2>1, InWord DEF withBit
  <2>3. bitmaps' = [bitmaps EXCEPT ![blockIndex(s.offset)] = w]
    BY <1>3 DEF StoreWord
  <2> HIDE DEF w
  <2>4. bitmaps' \in [Words -> SUBSET Positions]
    BY <2>2, <2>3 DEF TypeInv
  <2>5. Setting(s.offset, s.color, 1) \in Operations /\ Idle \in Operations
    BY <2>1 DEF Setting, Idle, Operations
  <2>6. Setting(s.offset, s.color, 1).kind = "set" /\ Idle.kind = "idle"
    BY DEF Setting, Idle
  <2>7. CASE s.bit = 0
    BY <1>3, <2>7, <2>4, <2>5, <2>6 DEF StoreWord, TypeInv
  <2>8. CASE s.bit # 0
    BY <1>3, <2>8, <2>1, <2>4, <2>5, <2>6 DEF StoreWord, TypeInv
  <2> QED
    BY <2>7, <2>8
<1>4. ASSUME NEW t \in Threads, NEW o \in Offsets, GetColor(t, o)
      PROVE  TypeInv'
  <2>1. beingSet(o) \subseteq Colors
    BY KindFields DEF beingSet, isWriting, isSetting
  <2>2. {last[o]} \cup beingSet(o) \in SUBSET Colors
    BY <2>1 DEF TypeInv
  <2>3. Getting(o, 0, 0, {last[o]} \cup beingSet(o)) \in Operations
    BY <2>2 DEF Getting, Operations
  <2>4. /\ Getting(o, 0, 0, {last[o]} \cup beingSet(o)).color = 0
        /\ Getting(o, 0, 0, {last[o]} \cup beingSet(o)).bit = 0
    BY DEF Getting
  <2> QED
    BY <1>4, <2>3, <2>4 DEF GetColor, TypeInv
<1>5. ASSUME NEW t \in Threads, TestBit(t)
      PROVE  TypeInv'
  <2> DEFINE g == op[t]
             isSet == (bitmapOffset(g.offset) + g.bit) \in bitmaps[blockIndex(g.offset)]
             c == g.color + (IF isSet THEN bitValue(g.bit) ELSE 0)
  <2>1. /\ g.offset \in Offsets /\ g.bit \in {0, 1} /\ g.seen \in SUBSET Colors
        /\ g.color \in (IF g.bit = 0 THEN {0} ELSE {0, 1})
    BY <1>5, KindFields DEF TestBit
  <2>2. c \in 0..3 /\ (g.bit = 0 => c \in {0, 1})
    BY <2>1 DEF bitValue
  <2>3. op' = [op EXCEPT ![t] = IF g.bit = 0 THEN Getting(g.offset, 1, c, g.seen) ELSE Got(g, c)]
        /\ bitmaps' = bitmaps /\ last' = last /\ raced' = raced
    BY <1>5 DEF TestBit
  <2> HIDE DEF c
  <2>4. CASE g.bit = 0
    <3>1. Getting(g.offset, 1, c, g.seen) \in Operations
      BY <2>1, <2>2 DEF Getting, Operations
    <3>2. /\ Getting(g.offset, 1, c, g.seen).color = c
          /\ Getting(g.offset, 1, c, g.seen).bit = 1
      BY DEF Getting
    <3> QED
      BY <2>2, <2>3, <2>4, <3>1, <3>2 DEF TypeInv
  <2>5. CASE g.bit # 0
    <3>1. Got(g, c) \in Operations /\ Got(g, c).kind = "got"
      BY <2>1, <2>2 DEF Got, Operations
    <3> QED
      BY <2>3, <2>5, <3>1 DEF TypeInv
  <2> QED
    BY <2>4, <2>5
<1>6. CASE UNCHANGED vars
  BY <1>6 DEF vars, TypeInv
<1> QED
  BY <1>1, <1>2, <1>3, <1>4, <1>5, <1>6 DEF Next

(***************************************************************************)
(* The bitmaps keep their types and every color read is one of the four,   *)
(* whatever the threads do at once.                                        *)
(***************************************************************************)
THEOREM TypeCorrect == Spec => []TypeOK
<1>1. TypeInv => TypeOK
  <2> SUFFICES ASSUME TypeInv PROVE TypeOK
    OBVIOUS
  <2>1. ASSUME NEW t \in Threads
        PROVE  /\ op[t].kind \in {"idle", "set", "store", "get", "got"}
               /\ op[t].kind # "idle" => op[t].offset \in Offsets /\ op[t].color \in 0..3
               /\ op[t].kind = "store" => op[t].word \subseteq 0..(BLOCK \div 2 - 1)
    <3>1. op[t].kind = "get" => op[t].color \in 0..3
      BY KindFields
    <3>2. op[t].kind \in {"set", "store"} => op[t].color \in 0..3
      BY KindFields DEF Colors, BLUE, WHITE, BLACK
    <3> QED
      BY <3>1, <3>2, KindFields DEF Positions
  <2> QED
    BY <2>1 DEF TypeOK, TypeInv, Positions
<1> QED
  BY <1>1, InitialTypes, TypesKept, PTL DEF Spec

-----------------------------------------------------------------------------
(***************************************************************************)
(* What the actions do to bits and to what the threads are doing.          *)
(***************************************************************************)
LEMMA SetColorOps ==
    ASSUME TypeInv, NEW t \in Threads, NEW o \in Offsets, NEW c \in Colors, SetColor(t, o, c),
           NEW u \in Threads
    PROVE  /\ u = t => op'[u] = Setting(o, c, 0)
           /\ u # t /\ op[u].kind # "get" => op'[u] = op[u]
           /\ u # t /\ op[u].kind = "get" =>
                /\ op'[u].kind = "get" /\ op'[u].offset = op[u].offset
                /\ op'[u].bit = op[u].bit /\ op'[u].color = op[u].color
                /\ op'[u].seen = IF op[u].offset = o THEN op[u].seen \cup {c} ELSE op[u].seen
<1>1. op'[u] = IF u = t THEN Setting(o, c, 0)
               ELSE IF op[u].kind = "get" /\ op[u].offset = o
                    THEN [op[u] EXCEPT !.seen = @ \cup {c}] ELSE op[u]
  BY DEF SetColor
<1>2. CASE u # t /\ op[u].kind = "get" /\ op[u].offset = o
  <2>1. op[u] \in [kind : {"get"}, offset : Offsets, bit : {0, 1}, color : 0..3,
                   seen : SUBSET Colors]
    BY <1>2 DEF TypeInv, Operations
  <2> QED
    BY <1>1, <1>2, <2>1
<1>3. CASE ~(u # t /\ op[u].kind = "get" /\ op[u].offset = o)
  BY <1>1, <1>3
<1> QED
  BY <1>2, <1>3

LEMMA StoreBits ==
    ASSUME TypeInv, LoadedIsCurrent, NEW t \in Threads, StoreWord(t),
           NEW o \in Offsets, unraced(o), NEW i \in {0, 1}
    PROVE  bitAt(o, i)' = IF o = op[t].offset /\ i = op[t].bit
                         THEN colorBit(op[t].color, i) ELSE bitAt(o, i)
<1> DEFINE s == op[t]
           p == bitmapOffset(s.offset) + s.bit
           v == colorBit(s.color, s.bit)
           w == blockIndex(s.offset)
<1>1. /\ s.kind = "store" /\ s.offset \in Offsets /\ s.bit \in {0, 1} /\ w \in Words
  BY KindFields, OffsetsHaveWords DEF StoreWord
<1>2. bitmaps' = [bitmaps EXCEPT ![w] = withBit(s.word, p, v)]
  BY <1>1 DEF StoreWord
<1>3. bitmaps \in [Words -> SUBSET Positions] /\ blockIndex(o) \in Words
  BY OffsetsHaveWords DEF TypeInv
<1>4. CASE blockIndex(o) # w
  BY <1>2, <1>3, <1>4 DEF bitAt
<1>5. CASE blockIndex(o) = w
  <2>1. s.word = bitmaps[w]
    BY <1>1, <1>5 DEF LoadedIsCurrent, unraced
  <2>2. bitAt(o, i)' = (bitmapOffset(o) + i \in withBit(bitmaps[w], p, v))
    BY <1>1, <1>2, <1>3, <1>5, <2>1 DEF bitAt
  <2>3. CASE o = s.offset /\ i = s.bit
    <3>1. bitmapOffset(o) + i = p
      BY <2>3
    <3>2. (p \in withBit(bitmaps[w], p, v)) = v
      BY DEF withBit, colorBit
    <3> QED
      BY <2>2, <2>3, <3>1, <3>2
  <2>4. CASE ~(o = s.offset /\ i = s.bit)
    <3>1. bitmapOffset(o) + i # p
      <4>1. CASE o # s.offset
        BY <1>1, <1>5, <4>1, BitsApart
      <4>2. CASE o = s.offset
        BY <1>1, <2>4, <4>2, InWord
      <4> QED
        BY <4>1, <4>2
    <3>2. (bitmapOffset(o) + i \in withBit(bitmaps[w], p, v)) = (bitmapOffset(o) + i \in bitmaps[w])
      BY <3>1 DEF withBit
    <3> QED
      BY <2>2, <2>4, <3>2, <1>5 DEF bitAt
  <2> QED
    BY <2>3, <2>4
<1> QED
  BY <1>4, <1>5

LEMMA StoreOps ==
    ASSUME TypeInv, NEW t \in Threads, StoreWord(t), NEW u \in Threads
    PROVE  /\ u # t => op'[u] = op[u]
           /\ op[t].kind = "store" /\ raced' = raced
           /\ op[t].bit = 0 => /\ last' = last
                               /\ op'[t] = Setting(op[t].offset, op[t].color, 1)
           /\ op[t].bit = 1 => /\ last' = [last EXCEPT ![op[t].offset] = op[t].color]
                               /\ op'[t] = Idle
BY DEF StoreWord, TypeInv

-----------------------------------------------------------------------------
(***************************************************************************)
(* The inductive invariant.  A block that is raced stays so.               *)
(***************************************************************************)
LEMMA RacedStays ==
    ASSUME [Next]_vars, NEW o, unraced(o)'
    PROVE  unraced(o)
BY DEF Next, SetColor, LoadWord, StoreWord, GetColor, TestBit, vars, unraced

\* Steps by which no thread begins a setColor.
LEMMA SameWriters ==
    ASSUME OneWriterPerWord, raced' = raced,
           \A t \in Threads : isSetting(t)' => isSetting(t) /\ op'[t].offset = op[t].offset
    PROVE  OneWriterPerWord'
BY DEF OneWriterPerWord, unraced

LEMMA WritersKept ==
    ASSUME TypeInv, OneWriterPerWord, [Next]_vars
    PROVE  OneWriterPerWord'
<1>1. ASSUME NEW t \in Threads, NEW o \in Offsets, NEW c \in Colors, SetColor(t, o, c)
      PROVE  OneWriterPerWord'
  <2>1. op'[t].offset = o
    <3>1. op'[t] = Setting(o, c, 0)
      BY <1>1 DEF SetColor
    <3> QED
      BY <3>1 DEF Setting
  <2>2. ASSUME NEW u \in Threads, u # t, isSetting(u)'
        PROVE  isSetting(u) /\ op'[u].offset = op[u].offset
    <3>1. op'[u].kind # "get" /\ op'[u].kind \in {"set", "store"}
      BY <2>2 DEF isSetting
    <3>2. u # t
      BY <2>2
    <3>3. op'[u] = op[u]
      BY <1>1, <3>1, <3>2, SetColorOps
    <3> QED
      BY <3>1, <3>3 DEF isSetting
  <2>3. raced \subseteq raced' /\ (overlaps(t, o) => blockIndex(o) \in raced')
    BY <1>1 DEF SetColor
  <2>4. ASSUME NEW u \in Threads, NEW w \in Threads, u # w, isSetting(u)', isSetting(w)',
               unraced(op[u].offset)'
        PROVE  blockIndex(op'[u].offset) # blockIndex(op'[w].offset)
    <3>1. blockIndex(op'[u].offset) \notin raced'
      BY <2>4 DEF unraced
    <3>2. CASE u # t /\ w # t
      BY <2>2, <2>3, <2>4, <3>1, <3>2 DEF OneWriterPerWord, unraced
    <3>3. CASE u = t
      BY <2>1, <2>2, <2>3, <2>4, <3>1, <3>3 DEF overlaps
    <3>4. CASE w = t
      BY <2>1, <2>2, <2>3, <2>4, <3>1, <3>4 DEF overlaps
    <3> QED
      BY <3>2, <3>3, <3>4
  <2> QED
    BY <2>4 DEF OneWriterPerWord
<1>2. ASSUME NEW t \in Threads, LoadWord(t)
      PROVE  OneWriterPerWord'
  BY <1>2, SameWriters DEF LoadWord, Storing, isSetting, TypeInv
<1>3. ASSUME NEW t \in Threads, StoreWord(t)
      PROVE  OneWriterPerWord'
  BY <1>3, SameWriters DEF StoreWord, Setting, Idle, isSetting, TypeInv
<1>4. ASSUME NEW t \in Threads, NEW o \in Offsets, GetColor(t, o)
      PROVE  OneWriterPerWord'
  BY <1>4, SameWriters DEF GetColor, Getting, isSetting, TypeInv
<1>5. ASSUME NEW t \in Threads, TestBit(t)
      PROVE  OneWriterPerWord'
  BY <1>5, SameWriters DEF TestBit, Getting, Got, isSetting, TypeInv
<1>6. CASE UNCHANGED vars
  BY <1>6, SameWriters DEF vars, isSetting
<1> QED
  BY <1>1, <1>2, <1>3, <1>4, <1>5, <1>6 DEF Next

LEMMA LoadedKept ==
    ASSUME TypeInv, LoadedIsCurrent, OneWriterPerWord, [Next]_vars
    PROVE  LoadedIsCurrent'
<1>1. ASSUME NEW t \in Threads, NEW o \in Offsets, NEW c \in Colors, SetColor(t, o, c)
      PROVE  LoadedIsCurrent'
  <2>1. ASSUME NEW u \in Threads, op'[u].kind = "store"
        PROVE  op'[u] = op[u]
    <3>1. op'[t] = Setting(o, c, 0)
      BY <1>1 DEF SetColor
    <3>2. op'[t].kind = "set"
      BY <3>1 DEF Setting
    <3>3. u # t
      BY <2>1, <3>2
    <3> QED
      BY <1>1, <2>1, <3>3, SetColorOps
  <2>2. bitmaps' = bitmaps /\ raced \subseteq raced'
    BY <1>1 DEF SetColor
  <2> QED
    BY <2>1, <2>2 DEF LoadedIsCurrent, unraced
<1>2. ASSUME NEW t \in Threads, LoadWord(t)
      PROVE  LoadedIsCurrent'
  BY <1>2 DEF LoadWord, LoadedIsCurrent, unraced, Storing, TypeInv
<1>3. ASSUME NEW t \in Threads, StoreWord(t)
      PROVE  LoadedIsCurrent'
  <2>1. ASSUME NEW u \in Threads, op'[u].kind = "store", unraced(op[u].offset)'
        PROVE  op'[u].word = bitmaps'[blockIndex(op'[u].offset)]
    <3>1. u # t /\ op'[u] = op[u] /\ op[u].kind = "store"
      <4>1. op'[t] = Setting(op[t].offset, op[t].color, 1) \/ op'[t] = Idle
        BY <1>3, StoreOps, KindFields
      <4>2. op'[t].kind # "store"
        BY <4>1 DEF Setting, Idle
      <4> QED
        BY <1>3, <2>1, <4>2, StoreOps
    <3>2. unraced(op[u].offset)
      BY <1>3, <2>1, <3>1, StoreOps DEF unraced
    <3>3. blockIndex(op[u].offset) # blockIndex(op[t].offset)
      BY <1>3, <3>1, <3>2 DEF OneWriterPerWord, isSetting, StoreWord
    <3>4. bitmaps'[blockIndex(op[u].offset)] = bitmaps[blockIndex(op[u].offset)]
      BY <1>3, <3>1, <3>3, KindFields, OffsetsHaveWords DEF StoreWord, TypeInv
    <3> QED
      BY <3>1, <3>2, <3>4 DEF LoadedIsCurrent
  <2> QED
    BY <2>1 DEF LoadedIsCurrent
<1>4. ASSUME NEW t \in Threads, NEW o \in Offsets, GetColor(t, o)
      PROVE  LoadedIsCurrent'
  BY <1>4 DEF GetColor, LoadedIsCurrent, unraced, Getting, TypeInv
<1>5. ASSUME NEW t \in Threads, TestBit(t)
      PROVE  LoadedIsCurrent'
  BY <1>5 DEF TestBit, LoadedIsCurrent, unraced, Getting, Got, TypeInv
<1>6. CASE UNCHANGED vars
  BY <1>6 DEF vars, LoadedIsCurrent, unraced
<1> QED
  BY <1>1, <1>2, <1>3, <1>4, <1>5, <1>6 DEF Next

\* Steps that neither write a bit nor end a setColor.
LEMMA SameOwners ==
    ASSUME BitsOwned, bitmaps' = bitmaps, last' = last, raced \subseteq raced',
           \A u \in Threads, o \in Offsets, i \in {0, 1} :
               /\ hasWritten(u, o, i)' <=> hasWritten(u, o, i)
               /\ hasWritten(u, o, i) => op'[u].color = op[u].color
    PROVE  BitsOwned'
<1>1. ASSUME NEW o \in Offsets, NEW i \in {0, 1}, unraced(o)'
      PROVE  /\ (\A t \in Threads : ~hasWritten(t, o, i)') => bitAt(o, i)' = colorBit(last'[o], i)
             /\ \A t \in Threads : hasWritten(t, o, i)' => bitAt(o, i)' = colorBit(op'[t].color, i)
  <2>1. bitAt(o, i)' = bitAt(o, i) /\ last'[o] = last[o]
    BY DEF bitAt
  <2>2. /\ (\A t \in Threads : ~hasWritten(t, o, i)) => bitAt(o, i) = colorBit(last[o], i)
        /\ \A t \in Threads : hasWritten(t, o, i) => bitAt(o, i) = colorBit(op[t].color, i)
    BY <1>1 DEF BitsOwned, ownedBit, unraced
  <2> QED
    BY <2>1, <2>2
<1> QED
  BY <1>1 DEF BitsOwned, ownedBit

LEMMA OnlyWriter ==
    ASSUME OneWriterPerWord, NEW t \in Threads, isSetting(t), unraced(op[t].offset),
           NEW u \in Threads, u # t, NEW i \in {0, 1}
    PROVE  ~isWriting(u, op[t].offset) /\ ~hasWritten(u, op[t].offset, i)
BY DEF OneWriterPerWord, isSetting, isWriting, hasWritten

LEMMA StoreOwners ==
    ASSUME TypeInv, LoadedIsCurrent, OneWriterPerWord, BitsOwned,
           NEW t \in Threads, StoreWord(t), NEW o \in Offsets, unraced(o), NEW i \in {0, 1}
    PROVE  /\ (\A u \in Threads : ~hasWritten(u, o, i)') => bitAt(o, i)' = colorBit(last'[o], i)
           /\ \A u \in Threads : hasWritten(u, o, i)' => bitAt(o, i)' = colorBit(op'[u].color, i)
<1> DEFINE s == op[t]
<1>1. /\ s.kind = "store" /\ s.offset \in Offsets /\ s.bit \in {0, 1} /\ s.color \in Colors
      /\ isSetting(t) /\ last \in [Offsets -> Colors]
  BY KindFields, StoreOps DEF isSetting, TypeInv
<1>2. \A u \in Threads : u # t => (hasWritten(u, o, i)' <=> hasWritten(u, o, i)) /\ op'[u] = op[u]
  BY StoreOps DEF hasWritten, isWriting, isSetting
<1>3. hasWritten(t, o, i) <=> o = s.offset /\ i = 0 /\ s.bit = 1
  BY <1>1 DEF hasWritten, isWriting, isSetting
<1>4. hasWritten(t, o, i)' <=> o = s.offset /\ i = 0 /\ s.bit = 0
  <2>1. CASE s.bit = 0
    <3>1. op'[t] = Setting(s.offset, s.color, 1)
      BY <2>1, StoreOps
    <3> QED
      BY <2>1, <3>1 DEF hasWritten, isWriting, isSetting, Setting
  <2>2. CASE s.bit = 1
    <3>1. op'[t] = Idle
      BY <2>2, StoreOps
    <3> QED
      BY <2>2, <3>1 DEF hasWritten, isWriting, isSetting, Idle
  <2> QED
    BY <1>1, <2>1, <2>2
<1>5. /\ (\A u \in Threads : ~hasWritten(u, o, i)) => bitAt(o, i) = colorBit(last[o], i)
      /\ \A u \in Threads : hasWritten(u, o, i) => bitAt(o, i) = colorBit(op[u].color, i)
  BY DEF BitsOwned, ownedBit
<1>6. CASE o # s.offset
  <2>1. last'[o] = last[o]
    BY <1>1, <1>6, StoreOps
  <2>2. bitAt(o, i)' = bitAt(o, i)
    BY <1>6, StoreBits
  <2>3. ~hasWritten(t, o, i) /\ ~hasWritten(t, o, i)'
    BY <1>3, <1>4, <1>6
  <2> QED
    BY <1>2, <1>5, <2>1, <2>2, <2>3
<1>7. CASE o = s.offset
  <2>1. \A u \in Threads : u # t => ~hasWritten(u, o, i) /\ ~hasWritten(u, o, i)'
    BY <1>1, <1>2, <1>7, OnlyWriter
  <2>2. CASE s.bit = 0
    <3>1. op'[t].color = s.color
      <4>1. op'[t] = Setting(s.offset, s.color, 1)
        BY <2>2, StoreOps
      <4> QED
        BY <4>1 DEF Setting
    <3>2. last' = last
      BY <2>2, StoreOps
    <3>3. CASE i = 0
      <4>1. bitAt(o, i)' = colorBit(s.color, i)
        BY <1>7, <2>2, <3>3, StoreBits
      <4> QED
        BY <1>4, <1>7, <2>1, <2>2, <3>1, <3>3, <4>1
    <3>4. CASE i = 1
      <4>1. bitAt(o, i)' = bitAt(o, i)
        BY <2>2, <3>4, StoreBits
      <4>2. \A u \in Threads : ~hasWritten(u, o, i) /\ ~hasWritten(u, o, i)'
        BY <1>3, <1>4, <2>1, <3>4
      <4> QED
        BY <1>5, <3>2, <4>1, <4>2
    <3> QED
      BY <3>3, <3>4
  <2>3. CASE s.bit = 1
    <3>1. last'[o] = s.color
      BY <1>1, <1>7, <2>3, StoreOps
    <3>2. \A u \in Threads : ~hasWritten(u, o, i)'
      BY <1>4, <2>1, <2>3
    <3>3. bitAt(o, i)' = colorBit(s.color, i)
      <4>1. CASE i = 1
        BY <1>7, <2>3, <4>1, StoreBits
      <4>2. CASE i = 0
        <5>1. bitAt(o, i)' = bitAt(o, i)
          BY <2>3, <4>2, StoreBits
        <5>2. hasWritten(t, o, i)
          BY <1>3, <1>7, <2>3, <4>2
        <5> QED
          BY <1>5, <5>1, <5>2
      <4> QED
        BY <4>1, <4>2
    <3> QED
      BY <3>1, <3>2, <3>3
  <2> QED
    BY <1>1, <2>2, <2>3
<1> QED
  BY <1>6, <1>7

LEMMA BitsOwnedKept ==
    ASSUME TypeInv, LoadedIsCurrent, BitsOwned, OneWriterPerWord, [Next]_vars
    PROVE  BitsOwned'
<1>1. ASSUME NEW t \in Threads, NEW o \in Offsets, NEW c \in Colors, SetColor(t, o, c)
      PROVE  BitsOwned'
  <2>1. bitmaps' = bitmaps /\ last' = last /\ raced \subseteq raced'
    BY <1>1 DEF SetColor
  <2>2. ASSUME NEW u \in Threads, NEW p \in Offsets, NEW i \in {0, 1}
        PROVE  /\ hasWritten(u, p, i)' <=> hasWritten(u, p, i)
               /\ hasWritten(u, p, i) => op'[u].color = op[u].color
    <3>1. CASE u = t
      <4>1. op[t].kind \notin {"set", "store"}
        BY <1>1 DEF SetColor, free
      <4>2. op'[t] = Setting(o, c, 0)
        BY <1>1 DEF SetColor
      <4> QED
        BY <3>1, <4>1, <4>2 DEF hasWritten, isWriting, isSetting, Setting
    <3>2. CASE u # t
      <4>1. \/ op'[u] = op[u]
            \/ op'[u].kind = "get" /\ op[u].kind = "get"
        <5>1. CASE op[u].kind # "get"
          BY <1>1, <3>2, <5>1, SetColorOps
        <5>2. CASE op[u].kind = "get"
          BY <1>1, <3>2, <5>2, SetColorOps
        <5> QED
          BY <5>1, <5>2
      <4> QED
        BY <4>1 DEF hasWritten, isWriting, isSetting
    <3> QED
      BY <3>1, <3>2
  <2> QED
    BY <2>1, <2>2, SameOwners
<1>2. ASSUME NEW t \in Threads, LoadWord(t)
      PROVE  BitsOwned'
  <2>1. bitmaps' = bitmaps /\ last' = last /\ raced \subseteq raced'
    BY <1>2 DEF LoadWord
  <2>2. ASSUME NEW u \in Threads, NEW p \in Offsets, NEW i \in {0, 1}
        PROVE  /\ hasWritten(u, p, i)' <=> hasWritten(u, p, i)
               /\ hasWritten(u, p, i) => op'[u].color = op[u].color
    BY <1>2 DEF LoadWord, Storing, hasWritten, isWriting, isSetting, TypeInv
  <2> QED
    BY <2>1, <2>2, SameOwners
<1>3. ASSUME NEW t \in Threads, StoreWord(t)
      PROVE  BitsOwned'
  <2>1. raced' = raced
    BY <1>3 DEF StoreWord
  <2> QED
    BY <1>3, <2>1, StoreOwners DEF BitsOwned, ownedBit, unraced
<1>4. ASSUME NEW t \in Threads, NEW o \in Offsets, GetColor(t, o)
      PROVE  BitsOwned'
  <2>1. bitmaps' = bitmaps /\ last' = last /\ raced \subseteq raced'
    BY <1>4 DEF GetColor
  <2>2. ASSUME NEW u \in Threads, NEW p \in Offsets, NEW i \in {0, 1}
        PROVE  /\ hasWritten(u, p, i)' <=> hasWritten(u, p, i)
               /\ hasWritten(u, p, i) => op'[u].color = op[u].color
    BY <1>4 DEF GetColor, Getting, free, hasWritten, isWriting, isSetting, TypeInv
  <2> QED
    BY <2>1, <2>2, SameOwners
<1>5. ASSUME NEW t \in Threads, TestBit(t)
      PROVE  BitsOwned'
  <2>1. bitmaps' = bitmaps /\ last' = last /\ raced \subseteq raced'
    BY <1>5 DEF TestBit
  <2>2. ASSUME NEW u \in Threads, NEW p \in Offsets, NEW i \in {0, 1}
        PROVE  /\ hasWritten(u, p, i)' <=> hasWritten(u, p, i)
               /\ hasWritten(u, p, i) => op'[u].color = op[u].color
    <3>1. /\ op[t].kind = "get" /\ op'[t].kind \in {"get", "got"}
          /\ u # t => op'[u] = op[u]
      BY <1>5 DEF TestBit, Getting, Got, TypeInv
    <3> QED
      BY <3>1 DEF hasWritten, isWriting, isSetting
  <2> QED
    BY <2>1, <2>2, SameOwners
<1>6. CASE UNCHANGED vars
  BY <1>6 DEF vars, BitsOwned, ownedBit, unraced, bitAt, hasWritten, isWriting, isSetting
<1> QED
  BY <1>1, <1>2, <1>3, <1>4, <1>5, <1>6 DEF Next

\* What a reader may have met: a bit of an object is that of a color seen.
LEMMA BitSeen ==
    ASSUME TypeInv, BitsOwned, ReaderHasSeen, NEW t \in Threads, op[t].kind = "get",
           unraced(op[t].offset), NEW i \in {0, 1}
    PROVE  \E c \in op[t].seen : bitAt(op[t].offset, i) = colorBit(c, i)
<1> DEFINE o == op[t].offset
<1>1. o \in Offsets /\ mayMeet(o) \subseteq op[t].seen
  BY KindFields DEF ReaderHasSeen, hasSeen
<1>2. CASE \E u \in Threads : hasWritten(u, o, i)
  <2>1. PICK u \in Threads : hasWritten(u, o, i)
    BY <1>2
  <2>2. op[u].color \in beingSet(o)
    BY <2>1 DEF hasWritten, beingSet
  <2>3. bitAt(o, i) = colorBit(op[u].color, i)
    BY <1>1, <2>1 DEF BitsOwned, ownedBit
  <2> QED
    BY <1>1, <2>2, <2>3 DEF mayMeet
<1>3. CASE ~\E u \in Threads : hasWritten(u, o, i)
  BY <1>1, <1>3 DEF BitsOwned, ownedBit, mayMeet
<1> QED
  BY <1>2, <1>3

\* A step that adds no color to what may be met at any object leaves the
\* readers it does not touch as they are.
LEMMA SameReader ==
    ASSUME TypeInv, ReaderHasSeen, NEW u \in Threads, op'[u] = op[u], raced \subseteq raced',
           \A p \in Offsets : mayMeet(p)' \subseteq mayMeet(p)
    PROVE  hasSeen(u)'
<1>1. hasSeen(u)
  BY DEF ReaderHasSeen
<1>2. ASSUME NEW p \in Offsets, op[u].kind = "get", op[u].offset = p
      PROVE  mayMeet(p)' \subseteq op[u].seen
  BY <1>1, <1>2 DEF hasSeen
<1>3. op[u].kind = "get" /\ op[u].bit = 1 /\ unraced(op[u].offset) => \E c \in op[u].seen : low(op[u].color) = low(c)
  BY <1>1 DEF hasSeen
<1>4. op[u].kind = "got" /\ unraced(op[u].offset) =>
          /\ \E c \in op[u].seen : low(op[u].color) = low(c)
          /\ \E c \in op[u].seen : high(op[u].color) = high(c)
  BY <1>1 DEF hasSeen
<1> QED
  BY <1>2, <1>3, <1>4 DEF hasSeen, unraced

LEMMA WriterSeesNothing ==
    ASSUME NEW u \in Threads, op'[u].kind \notin {"get", "got"}
    PROVE  hasSeen(u)'
BY DEF hasSeen

\* Steps by which no thread begins a setColor.
LEMMA MeetsNoMore ==
    ASSUME \A u \in Threads, p \in Offsets :
               isWriting(u, p)' => isWriting(u, p) /\ op'[u].color = op[u].color,
           \A p \in Offsets : last'[p] \in mayMeet(p)
    PROVE  \A p \in Offsets : mayMeet(p)' \subseteq mayMeet(p)
BY DEF mayMeet, beingSet

LEMMA SetColorReaders ==
    ASSUME TypeInv, ReaderHasSeen, NEW t \in Threads, NEW o \in Offsets, NEW c \in Colors,
           SetColor(t, o, c), NEW u \in Threads
    PROVE  hasSeen(u)'
<1>1. op'[t].kind = "set" /\ op'[t].color = c /\ op'[t].offset = o /\ last' = last
      /\ raced \subseteq raced'
  BY DEF SetColor, Setting
<1>2. \A w \in Threads :
        /\ w # t /\ op[w].kind # "get" => op'[w] = op[w]
        /\ w # t /\ op[w].kind = "get" =>
             /\ op'[w].kind = "get" /\ op'[w].offset = op[w].offset
             /\ op'[w].bit = op[w].bit /\ op'[w].color = op[w].color
             /\ op'[w].seen = IF op[w].offset = o THEN op[w].seen \cup {c} ELSE op[w].seen
  BY SetColorOps
<1>3. \A p \in Offsets : mayMeet(p)' \subseteq mayMeet(p) \cup (IF p = o THEN {c} ELSE {})
  <2>1. ASSUME NEW p \in Offsets, NEW w \in Threads, isWriting(w, p)'
        PROVE  op'[w].color \in beingSet(p) \cup (IF p = o THEN {c} ELSE {})
    <3>1. CASE w = t
      BY <1>1, <2>1, <3>1 DEF isWriting, isSetting
    <3>2. CASE w # t /\ op[w].kind # "get"
      BY <1>2, <2>1, <3>2 DEF isWriting, isSetting, beingSet
    <3>3. CASE w # t /\ op[w].kind = "get"
      <4>1. op'[w].kind = "get"
        BY <1>2, <3>3
      <4> QED
        BY <2>1, <4>1 DEF isWriting, isSetting
    <3> QED
      BY <3>1, <3>2, <3>3
  <2> QED
    BY <1>1, <2>1 DEF beingSet, mayMeet
<1>4. CASE u = t
  BY <1>1, <1>4, WriterSeesNothing
<1>5. CASE u # t /\ op[u].kind # "get"
  <2>1. op'[u] = op[u]
    BY <1>2, <1>5
  <2> QED
    BY <1>1, <1>5, <2>1 DEF ReaderHasSeen, hasSeen, unraced
<1>6. CASE u # t /\ op[u].kind = "get"
  <2>1. /\ op'[u].kind = "get" /\ op'[u].offset = op[u].offset
        /\ op'[u].bit = op[u].bit /\ op'[u].color = op[u].color
        /\ op'[u].seen = IF op[u].offset = o THEN op[u].seen \cup {c} ELSE op[u].seen
    BY <1>2, <1>6
  <2>2. hasSeen(u)
    BY DEF ReaderHasSeen
  <2>3. ASSUME NEW p \in Offsets, op[u].offset = p
        PROVE  mayMeet(p)' \subseteq op'[u].seen
    BY <1>3, <1>6, <2>1, <2>2, <2>3 DEF hasSeen
  <2>4. op[u].bit = 1 /\ unraced(op[u].offset)' => \E d \in op'[u].seen : low(op[u].color) = low(d)
    BY <1>1, <1>6, <2>1, <2>2 DEF hasSeen, unraced
  <2> QED
    BY <2>1, <2>3, <2>4 DEF hasSeen
<1> QED
  BY <1>4, <1>5, <1>6

LEMMA StoreReaders ==
    ASSUME TypeInv, ReaderHasSeen, NEW t \in Threads, StoreWord(t), NEW u \in Threads
    PROVE  hasSeen(u)'
<1> DEFINE s == op[t]
<1>1. /\ s.kind = "store" /\ s.offset \in Offsets /\ s.bit \in {0, 1} /\ s.color \in Colors
      /\ last \in [Offsets -> Colors] /\ raced' = raced
  BY KindFields, StoreOps DEF TypeInv
<1>2. /\ op'[t] = Setting(s.offset, s.color, 1) \/ op'[t] = Idle
      /\ \A w \in Threads : w # t => op'[w] = op[w]
  BY <1>1, StoreOps
<1>3. \A w \in Threads, p \in Offsets :
          isWriting(w, p)' => isWriting(w, p) /\ op'[w].color = op[w].color
  <2>1. ASSUME NEW w \in Threads, NEW p \in Offsets, isWriting(w, p)'
        PROVE  isWriting(w, p) /\ op'[w].color = op[w].color
    <3>1. CASE w = t
      BY <1>1, <1>2, <2>1, <3>1 DEF Setting, Idle, isWriting, isSetting
    <3>2. CASE w # t
      BY <1>2, <2>1, <3>2 DEF isWriting, isSetting
    <3> QED
      BY <3>1, <3>2
  <2> QED
    BY <2>1
<1>4. \A p \in Offsets : last'[p] \in mayMeet(p)
  <2>1. s.color \in beingSet(s.offset)
    BY <1>1 DEF beingSet, isWriting, isSetting
  <2>2. last' = last \/ last' = [last EXCEPT ![s.offset] = s.color]
    BY <1>1, StoreOps
  <2> QED
    BY <1>1, <2>1, <2>2 DEF mayMeet
<1>5. \A p \in Offsets : mayMeet(p)' \subseteq mayMeet(p)
  BY <1>3, <1>4, MeetsNoMore
<1>6. CASE u = t
  <2>1. op'[t].kind \notin {"get", "got"}
    BY <1>2 DEF Setting, Idle
  <2> QED
    BY <1>6, <2>1, WriterSeesNothing
<1>7. CASE u # t
  BY <1>1, <1>2, <1>5, <1>7, SameReader
<1> QED
  BY <1>6, <1>7

LEMMA TestBitValue ==
    ASSUME NEW b \in BOOLEAN, NEW k \in {0, 1}, NEW i \in {0, 1}, i = 0 => k = 0
    PROVE  LET c == k + (IF b THEN bitValue(i) ELSE 0) IN
           /\ i = 0 => low(c) = b
           /\ i = 1 => low(c) = low(k) /\ high(c) = b
BY DEF low, high, colorBit, bitValue

LEMMA TestReaders ==
    ASSUME TypeInv, BitsOwned, ReaderHasSeen, NEW t \in Threads, TestBit(t)
    PROVE  hasSeen(t)'
<1> DEFINE g == op[t]
           isSet == bitAt(g.offset, g.bit)
           c == g.color + (IF isSet THEN bitValue(g.bit) ELSE 0)
<1>1. /\ g.kind = "get" /\ g.offset \in Offsets /\ g.bit \in {0, 1} /\ last' = last
      /\ raced' = raced
      /\ g.color \in {0, 1} /\ (g.bit = 0 => g.color = 0)
      /\ op' = [op EXCEPT ![t] = IF g.bit = 0 THEN Getting(g.offset, 1, c, g.seen) ELSE Got(g, c)]
  BY KindFields DEF TestBit, bitAt
<1>2. op'[t] = (IF g.bit = 0 THEN Getting(g.offset, 1, c, g.seen) ELSE Got(g, c))
  BY <1>1 DEF TypeInv
<1>3. unraced(g.offset) => \E d \in g.seen : isSet = colorBit(d, g.bit)
  BY <1>1, BitSeen
<1>4. mayMeet(g.offset) \subseteq g.seen /\ (g.bit = 1 /\ unraced(g.offset) => \E e \in g.seen : low(g.color) = low(e))
  BY <1>1 DEF ReaderHasSeen, hasSeen
<1>5. /\ g.bit = 0 => low(c) = isSet
      /\ g.bit = 1 => low(c) = low(g.color) /\ high(c) = isSet
  <2>1. isSet \in BOOLEAN
    BY DEF bitAt
  <2> QED
    BY <1>1, <2>1, TestBitValue
<1> HIDE DEF c
<1>6. CASE g.bit = 0
  <2>1. op'[t] = Getting(g.offset, 1, c, g.seen)
    BY <1>2, <1>6
  <2>2. /\ op'[t].kind = "get" /\ op'[t].offset = g.offset /\ op'[t].bit = 1
        /\ op'[t].seen = g.seen /\ op'[t].color = c
    BY <2>1 DEF Getting
  <2>3. unraced(g.offset) => \E d \in g.seen : low(c) = low(d)
    BY <1>3, <1>5, <1>6 DEF low
  <2>4. ASSUME NEW p \in Offsets, g.offset = p
        PROVE  mayMeet(p)' \subseteq g.seen
    <3>1. mayMeet(p)' \subseteq mayMeet(p)
      <4>1. \A w \in Threads : isWriting(w, p)' => isWriting(w, p) /\ op'[w].color = op[w].color
        BY <1>1, <2>2 DEF isWriting, isSetting, TypeInv
      <4> QED
        BY <1>1, <4>1 DEF mayMeet, beingSet
    <3> QED
      BY <1>4, <2>4, <3>1
  <2>5. \A p \in Offsets : op'[t].offset = p => mayMeet(p)' \subseteq op'[t].seen
    BY <2>2, <2>4
  <2>6. unraced(op[t].offset)' => \E d \in op'[t].seen : low(op'[t].color) = low(d)
    BY <1>1, <2>2, <2>3 DEF unraced
  <2> QED
    BY <2>2, <2>5, <2>6 DEF hasSeen
<1>7. CASE g.bit = 1
  <2>1. op'[t] = Got(g, c)
    BY <1>2, <1>7
  <2>2. /\ op'[t].kind = "got" /\ op'[t].offset = g.offset
        /\ op'[t].seen = g.seen /\ op'[t].color = c
    BY <2>1 DEF Got
  <2>3. unraced(g.offset) => /\ \E d \in g.seen : low(c) = low(d)
                             /\ \E d \in g.seen : high(c) = high(d)
    BY <1>3, <1>4, <1>5, <1>7 DEF high
  <2>4. unraced(op[t].offset)' => unraced(g.offset)
    BY <1>1, <2>2 DEF unraced
  <2> QED
    BY <2>2, <2>3, <2>4 DEF hasSeen
<1> QED
  BY <1>1, <1>6, <1>7

LEMMA ReadersKept ==
    ASSUME TypeInv, BitsOwned, ReaderHasSeen, [Next]_vars
    PROVE  ReaderHasSeen'
<1>1. ASSUME NEW t \in Threads, NEW o \in Offsets, NEW c \in Colors, SetColor(t, o, c)
      PROVE  ReaderHasSeen'
  BY <1>1, SetColorReaders DEF ReaderHasSeen
<1>2. ASSUME NEW t \in Threads, LoadWord(t)
      PROVE  ReaderHasSeen'
  <2>1. /\ op' = [op EXCEPT ![t] = Storing(op[t], bitmaps[blockIndex(op[t].offset)])]
        /\ op[t].kind = "set" /\ last' = last /\ raced' = raced
    BY <1>2 DEF LoadWord
  <2>2. /\ op'[t].kind = "store" /\ op'[t].offset = op[t].offset /\ op'[t].color = op[t].color
        /\ \A u \in Threads : u # t => op'[u] = op[u]
    BY <2>1 DEF Storing, TypeInv
  <2>3. \A u \in Threads, p \in Offsets :
            isWriting(u, p)' => isWriting(u, p) /\ op'[u].color = op[u].color
    BY <2>1, <2>2 DEF isWriting, isSetting
  <2>4. \A p \in Offsets : mayMeet(p)' \subseteq mayMeet(p)
    BY <2>1, <2>3, MeetsNoMore DEF mayMeet
  <2>5. ASSUME NEW u \in Threads
        PROVE  hasSeen(u)'
    <3>1. CASE u = t
      BY <2>2, <3>1, WriterSeesNothing
    <3>2. CASE u # t
      BY <2>1, <2>2, <2>4, <3>2, SameReader
    <3> QED
      BY <3>1, <3>2
  <2> QED
    BY <2>5 DEF ReaderHasSeen
<1>3. ASSUME NEW t \in Threads, StoreWord(t)
      PROVE  ReaderHasSeen'
  BY <1>3, StoreReaders DEF ReaderHasSeen
<1>4. ASSUME NEW t \in Threads, NEW o \in Offsets, GetColor(t, o)
      PROVE  ReaderHasSeen'
  <2>1. /\ op' = [op EXCEPT ![t] = Getting(o, 0, 0, mayMeet(o))] /\ last' = last /\ raced' = raced
    BY <1>4 DEF GetColor, mayMeet
  <2>2. /\ op'[t] = Getting(o, 0, 0, mayMeet(o))
        /\ \A u \in Threads : u # t => op'[u] = op[u]
    BY <2>1 DEF TypeInv
  <2>3. /\ op'[t].kind = "get" /\ op'[t].offset = o /\ op'[t].bit = 0
        /\ op'[t].seen = mayMeet(o)
    BY <2>2 DEF Getting
  <2>4. \A u \in Threads, p \in Offsets :
            isWriting(u, p)' => isWriting(u, p) /\ op'[u].color = op[u].color
    BY <2>2, <2>3 DEF isWriting, isSetting
  <2>5. \A p \in Offsets : mayMeet(p)' \subseteq mayMeet(p)
    BY <2>1, <2>4, MeetsNoMore DEF mayMeet
  <2>6. ASSUME NEW u \in Threads
        PROVE  hasSeen(u)'
    <3>1. CASE u = t
      BY <2>3, <2>5, <3>1 DEF hasSeen
    <3>2. CASE u # t
      BY <2>1, <2>2, <2>5, <3>2, SameReader
    <3> QED
      BY <3>1, <3>2
  <2> QED
    BY <2>6 DEF ReaderHasSeen
<1>5. ASSUME NEW t \in Threads, TestBit(t)
      PROVE  ReaderHasSeen'
  <2>1. /\ op[t].kind = "get" /\ op'[t].kind \in {"get", "got"} /\ last' = last /\ raced' = raced
        /\ \A u \in Threads : u # t => op'[u] = op[u]
    BY <1>5 DEF TestBit, Getting, Got, TypeInv
  <2>2. \A u \in Threads, p \in Offsets :
            isWriting(u, p)' => isWriting(u, p) /\ op'[u].color = op[u].color
    BY <2>1 DEF isWriting, isSetting
  <2>3. \A p \in Offsets : mayMeet(p)' \subseteq mayMeet(p)
    BY <2>1, <2>2, MeetsNoMore DEF mayMeet
  <2>4. ASSUME NEW u \in Threads
        PROVE  hasSeen(u)'
    <3>1. CASE u = t
      BY <1>5, <3>1, TestReaders
    <3>2. CASE u # t
      BY <2>1, <2>3, <3>2, SameReader
    <3> QED
      BY <3>1, <3>2
  <2> QED
    BY <2>4 DEF ReaderHasSeen
<1>6. CASE UNCHANGED vars
  BY <1>6 DEF vars, ReaderHasSeen, hasSeen, unraced, mayMeet, beingSet, isWriting, isSetting
<1> QED
  BY <1>1, <1>2, <1>3, <1>4, <1>5, <1>6 DEF Next

-----------------------------------------------------------------------------
LEMMA InitialInv == Init => BitmapInv
<1>1. SUFFICES ASSUME Init PROVE BitmapInv
  OBVIOUS
<1>2. \A t \in Threads : op[t].kind = "idle"
  BY <1>1 DEF Init, Idle
<1>3. BitsOwned
  <2>1. \A t \in Threads, o \in Offsets, i \in {0, 1} : ~hasWritten(t, o, i)
    BY <1>2 DEF hasWritten, isWriting, isSetting
  <2>2. \A o \in Offsets, i \in {0, 1} : ~bitAt(o, i) /\ last[o] = BLUE
    BY <1>1, OffsetsHaveWords DEF Init, bitAt
  <2>3. \A i \in {0, 1} : ~colorBit(BLUE, i)
    BY DEF colorBit, bitValue, BLUE
  <2>4. \A o \in Offsets, i \in {0, 1} : bitAt(o, i) = colorBit(last[o], i)
    BY <2>2, <2>3 DEF bitAt, colorBit
  <2> QED
    BY <2>1, <2>4 DEF BitsOwned, ownedBit
<1>4. OneWriterPerWord
  BY <1>2 DEF OneWriterPerWord, isSetting
<1> QED
  BY <1>1, <1>2, <1>3, <1>4, InitialTypes
     DEF BitmapInv, LoadedIsCurrent, ReaderHasSeen, hasSeen

LEMMA InvKept == BitmapInv /\ [Next]_vars => BitmapInv'
BY TypesKept, WritersKept, LoadedKept, BitsOwnedKept, ReadersKept DEF BitmapInv

LEMMA InvariantHolds == Spec => []BitmapInv
BY InitialInv, InvKept, PTL DEF Spec

LEMMA BitsOfColor ==
    ASSUME NEW c \in 0..3
    PROVE  (low(c) <=> c \in {1, 3}) /\ (high(c) <=> c \in {2, 3})
BY DEF low, high, colorBit, bitValue

(***************************************************************************)
(* A setColor is lost only when two threads color objects of one block at  *)
(* the same time: until they do, every object of the block that nobody is  *)
(* coloring has the color it was last given, in every interleaving of the  *)
(* bits.                                                                   *)
(***************************************************************************)
THEOREM NoUpdateIsLost == Spec => []OnlyOverlapsLose
<1>1. BitmapInv => OnlyOverlapsLose
  <2> SUFFICES ASSUME BitmapInv, NEW o \in Offsets, unraced(o),
                      \A t \in Threads : ~isWriting(t, o)
               PROVE  colorIn(bitmaps[blockIndex(o)], o) = last[o]
    BY DEF OnlyOverlapsLose, colorsKept
  <2>1. \A t \in Threads, i \in {0, 1} : ~hasWritten(t, o, i)
    BY DEF hasWritten
  <2>2. bitAt(o, 0) = low(last[o]) /\ bitAt(o, 1) = high(last[o])
    BY <2>1 DEF BitmapInv, BitsOwned, ownedBit, low, high
  <2>3. last[o] \in 0..3
    BY DEF BitmapInv, TypeInv, Colors, BLUE, WHITE, BLACK
  <2>4. bitmapOffset(o) + 0 = bitmapOffset(o)
    BY InWord
  <2>5. (bitAt(o, 0) <=> last[o] \in {1, 3}) /\ (bitAt(o, 1) <=> last[o] \in {2, 3})
    BY <2>2, <2>3, BitsOfColor
  <2> QED
    BY <2>3, <2>4, <2>5 DEF colorIn, bitAt
<1> QED
  BY <1>1, InvariantHolds, PTL

(***************************************************************************)
(* Until two calls of setColor overlap in its block, an object is read in  *)
(* a color it had or was being given during getColor, unless it met blue   *)
(* and black, whose both bits differ: then, and only then, white or gray   *)
(* may be read of an object that was neither.                              *)
(***************************************************************************)
THEOREM ReadsAreRegular == Spec => []TornOnlyBlueAndBlack
<1>1. BitmapInv => TornOnlyBlueAndBlack
  <2> SUFFICES ASSUME BitmapInv, NEW t \in Threads, op[t].kind = "got",
                      unraced(op[t].offset), op[t].color \notin op[t].seen
               PROVE  {BLUE, BLACK} \subseteq op[t].seen
    BY DEF TornOnlyBlueAndBlack
  <2>1. op[t].seen \subseteq Colors /\ op[t].color \in 0..3
    BY KindFields DEF BitmapInv
  <2>2. PICK c \in op[t].seen : low(op[t].color) = low(c)
    BY DEF BitmapInv, ReaderHasSeen, hasSeen
  <2>3. PICK d \in op[t].seen : high(op[t].color) = high(d)
    BY DEF BitmapInv, ReaderHasSeen, hasSeen
  <2>4. c \in {0, 1, 3} /\ d \in {0, 1, 3} /\ op[t].color # c /\ op[t].color # d
    BY <2>1 DEF Colors, BLUE, WHITE, BLACK
  <2>5. \A x, y, z \in 0..3 :
            low(x) = low(y) /\ high(x) = high(z) /\ x # y /\ x # z
              => low(y) # low(z) /\ high(y) # high(z)
    BY DEF low, high, colorBit, bitValue
  <2>6. c \in 0..3 /\ d \in 0..3
    BY <2>4
  <2>7. low(c) # low(d) /\ high(c) # high(d)
    BY <2>1, <2>2, <2>3, <2>4, <2>5, <2>6
  <2>8. (c = 0 /\ d = 3) \/ (c = 3 /\ d = 0)
    BY <2>4, <2>7 DEF low, high, colorBit, bitValue
  <2> QED
    BY <2>8 DEF BLUE, BLACK
<1> QED
  BY <1>1, InvariantHolds, PTL
=============================================================================
