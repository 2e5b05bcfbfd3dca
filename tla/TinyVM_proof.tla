---------------------------- MODULE TinyVM_proof ----------------------------
(***************************************************************************)
(* Proofs about tiny-vm: first its heap, TinyHeap, for every header and    *)
(* heap size and every set of sizes (its spaces tile the memory, chunks    *)
(* keep what was asked for, and compress leaves no room unmerged); then    *)
(* the interpreter, TinyVM, for every width of a word, stack and set of    *)
(* codes (whole elements on the stack, the assembly is the code, and the   *)
(* interpreter is the machine that the documents describe).                *)
(***************************************************************************)
EXTENDS TinyHeap, TinyVM, Iteration, SequenceTheorems, TLAPS

-----------------------------------------------------------------------------
(***************************************************************************)
(* The tiling, of the spaces with the headers sizes below hp.              *)
(***************************************************************************)
tiled(sizes, hp) ==
    /\ hp \in Nat
    /\ sizes = [p \in DOMAIN sizes |-> sizes[p]]
    /\ \A p \in DOMAIN sizes :
          /\ p \in Nat /\ sizes[p] \in Nat \ {0}
          /\ spaceEnd(sizes, p) <= hp
          /\ spaceEnd(sizes, p) = hp \/ spaceEnd(sizes, p) \in DOMAIN sizes
    /\ \A p, q \in DOMAIN sizes : p = q \/ spaceEnd(sizes, p) <= q \/ spaceEnd(sizes, q) <= p
    /\ hp = 0 \/ 0 \in DOMAIN sizes

\* compress: the space below hp becomes part of the unused end.
LEMMA TopFreed ==
    ASSUME NEW sizes, NEW hp, tiled(sizes, hp), NEW p \in DOMAIN sizes, spaceEnd(sizes, p) = hp
    PROVE  tiled(without(sizes, p), p)
<1> DEFINE u == without(sizes, p)
<1>1. /\ DOMAIN u = DOMAIN sizes \ {p} /\ \A q \in DOMAIN u : u[q] = sizes[q]
      /\ u = [q \in DOMAIN u |-> u[q]]
  BY DEF without
<1> HIDE DEF u
<1>2. /\ HEADER \in Nat \ {0} /\ hp \in Nat /\ p \in Nat /\ sizes[p] \in Nat \ {0}
      /\ hp = p + sizes[p] + HEADER
  BY TinyHeapAssumption DEF tiled, spaceEnd
<1>3. ASSUME NEW q \in DOMAIN u
      PROVE  /\ q \in Nat /\ sizes[q] \in Nat \ {0} /\ u[q] = sizes[q]
             /\ q + sizes[q] + HEADER <= p
             /\ q + sizes[q] + HEADER = p \/ q + sizes[q] + HEADER \in DOMAIN u
  <2>1. /\ q \in DOMAIN sizes /\ q # p /\ q \in Nat /\ sizes[q] \in Nat \ {0} /\ u[q] = sizes[q]
        /\ q + sizes[q] + HEADER <= hp
        /\ q + sizes[q] + HEADER = hp \/ q + sizes[q] + HEADER \in DOMAIN sizes
        /\ hp <= q \/ q + sizes[q] + HEADER <= p
    BY <1>1 DEF tiled, spaceEnd
  <2>2. q + sizes[q] + HEADER <= p
    BY <1>2, <2>1
  <2> QED
    BY <1>1, <1>2, <2>1, <2>2
<1>4. ASSUME NEW q \in DOMAIN u, NEW r \in DOMAIN u
      PROVE  q = r \/ q + u[q] + HEADER <= r \/ r + u[r] + HEADER <= q
  BY <1>1 DEF tiled, spaceEnd
<1>5. p = 0 \/ 0 \in DOMAIN u
  BY <1>1, <1>2 DEF tiled
<1> QED
  BY <1>1, <1>2, <1>3, <1>4, <1>5 DEF tiled, spaceEnd, u

\* compress: the space q that follows p becomes part of it.
LEMMA NeighboursMerged ==
    ASSUME NEW sizes, NEW hp, tiled(sizes, hp), NEW p \in DOMAIN sizes, NEW q \in DOMAIN sizes,
           spaceEnd(sizes, p) = q, NEW u,
           u = without(with(sizes, p, sizes[p] + sizes[q] + HEADER), q)
    PROVE  /\ tiled(u, hp) /\ DOMAIN u = DOMAIN sizes \ {q} /\ p # q
           /\ \A r \in DOMAIN u : r # p => u[r] = sizes[r]
           /\ u[p] = sizes[p] + sizes[q] + HEADER
<1>1. /\ HEADER \in Nat \ {0} /\ hp \in Nat /\ p \in Nat /\ q \in Nat
      /\ sizes[p] \in Nat \ {0} /\ sizes[q] \in Nat \ {0}
      /\ q = p + sizes[p] + HEADER
      /\ q + sizes[q] + HEADER <= hp
      /\ q + sizes[q] + HEADER = hp \/ q + sizes[q] + HEADER \in DOMAIN sizes
  BY TinyHeapAssumption DEF tiled, spaceEnd
<1>2. p < q
  BY <1>1
<1>3. /\ DOMAIN u = DOMAIN sizes \ {q} /\ u[p] = sizes[p] + sizes[q] + HEADER
      /\ \A r \in DOMAIN u : r # p => u[r] = sizes[r]
  <2> DEFINE w == with(sizes, p, sizes[p] + sizes[q] + HEADER)
  <2>1. /\ DOMAIN w = DOMAIN sizes /\ w[p] = sizes[p] + sizes[q] + HEADER
        /\ \A r \in DOMAIN sizes : r # p => w[r] = sizes[r]
    BY DEF with
  <2>2. DOMAIN without(w, q) = DOMAIN w \ {q} /\ \A r \in DOMAIN w : r # q => without(w, q)[r] = w[r]
    BY DEF without
  <2>3. u = without(w, q)
    OBVIOUS
  <2> HIDE DEF w
  <2> QED
    BY <1>1, <1>2, <2>1, <2>2, <2>3
<1>4. u[p] \in Nat \ {0} /\ p + u[p] + HEADER = q + sizes[q] + HEADER
  BY <1>1, <1>3
<1>5. p + u[p] + HEADER = hp \/ p + u[p] + HEADER \in DOMAIN u
  BY <1>1, <1>3, <1>4
<1>6. ASSUME NEW r \in DOMAIN u, r # p
      PROVE  /\ r \in Nat /\ u[r] \in Nat \ {0} /\ r + u[r] + HEADER <= hp
             /\ r + u[r] + HEADER = hp \/ r + u[r] + HEADER \in DOMAIN u
             /\ r + u[r] + HEADER <= p \/ p + u[p] + HEADER <= r
  <2>1. /\ r \in DOMAIN sizes /\ r # q /\ r \in Nat /\ sizes[r] \in Nat \ {0} /\ u[r] = sizes[r]
        /\ r + sizes[r] + HEADER <= hp
        /\ r + sizes[r] + HEADER = hp \/ r + sizes[r] + HEADER \in DOMAIN sizes
        /\ r + sizes[r] + HEADER <= p \/ q <= r
        /\ r + sizes[r] + HEADER <= q \/ q + sizes[q] + HEADER <= r
    BY <1>3, <1>6 DEF tiled, spaceEnd
  <2>2. r + u[r] + HEADER # q
    BY <1>1, <1>2, <2>1
  <2>3. r + u[r] + HEADER <= p \/ p + u[p] + HEADER <= r
    BY <1>1, <1>4, <2>1
  <2> QED
    BY <1>3, <2>1, <2>2, <2>3
<1>7. ASSUME NEW r \in DOMAIN u, NEW s \in DOMAIN u
      PROVE  r = s \/ r + u[r] + HEADER <= s \/ s + u[s] + HEADER <= r
  <2>1. CASE r # p /\ s # p
    BY <1>3, <2>1 DEF tiled, spaceEnd
  <2>2. CASE r = p \/ s = p
    BY <1>6, <2>2
  <2> QED
    BY <2>1, <2>2
<1>8. (hp = 0 \/ 0 \in DOMAIN u) /\ u = [r \in DOMAIN u |-> u[r]]
  BY <1>1, <1>2, <1>3 DEF tiled, without
<1>9. ASSUME NEW r \in DOMAIN u
      PROVE  /\ r \in Nat /\ u[r] \in Nat \ {0} /\ spaceEnd(u, r) <= hp
             /\ spaceEnd(u, r) = hp \/ spaceEnd(u, r) \in DOMAIN u
  BY <1>1, <1>4, <1>5, <1>6 DEF spaceEnd
<1> QED
  BY <1>1, <1>2, <1>3, <1>7, <1>8, <1>9 DEF tiled, spaceEnd

split(u, sizes, p, q, size) ==
    /\ DOMAIN u = DOMAIN sizes \cup {q} /\ q \notin DOMAIN sizes /\ q \in Nat /\ u[p] = size
    /\ \A r \in DOMAIN sizes : r # p => u[r] = sizes[r]

\* truncated: what a space has behind size bytes becomes a space, too.
LEMMA SpaceSplit ==
    ASSUME NEW sizes, NEW hp, tiled(sizes, hp), NEW p \in DOMAIN sizes, NEW size \in Nat \ {0},
           sizes[p] - size > HEADER, NEW q, q = p + HEADER + size, NEW u,
           u = with(with(sizes, q, sizes[p] - size - HEADER), p, size)
    PROVE  tiled(u, hp) /\ split(u, sizes, p, q, size)
<1>1. /\ HEADER \in Nat \ {0} /\ hp \in Nat /\ p \in Nat /\ q \in Nat
      /\ sizes[p] \in Nat \ {0}
      /\ p + sizes[p] + HEADER <= hp
      /\ p + sizes[p] + HEADER = hp \/ p + sizes[p] + HEADER \in DOMAIN sizes
  BY TinyHeapAssumption DEF tiled, spaceEnd
<1>2. p < q /\ q < p + sizes[p] + HEADER
  BY <1>1
<1>3. q \notin DOMAIN sizes
  <2>1. SUFFICES ASSUME q \in DOMAIN sizes PROVE FALSE
    OBVIOUS
  <2>2. sizes[q] \in Nat /\ (p + sizes[p] + HEADER <= q \/ q + sizes[q] + HEADER <= p)
    BY <1>2, <2>1 DEF tiled, spaceEnd
  <2> QED
    BY <1>1, <1>2, <2>2
<1>4. /\ DOMAIN u = DOMAIN sizes \cup {q} /\ u[p] = size /\ u[q] = sizes[p] - size - HEADER
      /\ \A r \in DOMAIN sizes : r # p => u[r] = sizes[r]
  <2> DEFINE w == with(sizes, q, sizes[p] - size - HEADER)
  <2>1. /\ DOMAIN w = DOMAIN sizes \cup {q} /\ w[q] = sizes[p] - size - HEADER
        /\ \A r \in DOMAIN sizes : r # q => w[r] = sizes[r]
    BY DEF with
  <2>2. /\ DOMAIN with(w, p, size) = DOMAIN w \cup {p} /\ with(w, p, size)[p] = size
        /\ \A r \in DOMAIN w : r # p => with(w, p, size)[r] = w[r]
    BY DEF with
  <2>3. u = with(w, p, size)
    OBVIOUS
  <2> HIDE DEF w
  <2> QED
    BY <1>1, <1>2, <1>3, <2>1, <2>2, <2>3
<1>5. /\ u[q] \in Nat \ {0} /\ p + u[p] + HEADER = q
      /\ q + u[q] + HEADER = p + sizes[p] + HEADER /\ q <= hp
  BY <1>1, <1>4
<1>6. ASSUME NEW r \in DOMAIN sizes, r # p
      PROVE  /\ r \in Nat /\ u[r] \in Nat \ {0} /\ r + u[r] + HEADER <= hp
             /\ r + u[r] + HEADER = hp \/ r + u[r] + HEADER \in DOMAIN u
             /\ r + u[r] + HEADER <= p \/ q + u[q] + HEADER <= r
  BY <1>4, <1>5, <1>6 DEF tiled, spaceEnd
<1>7. ASSUME NEW r \in DOMAIN u
      PROVE  /\ r \in Nat /\ u[r] \in Nat \ {0} /\ spaceEnd(u, r) <= hp
             /\ spaceEnd(u, r) = hp \/ spaceEnd(u, r) \in DOMAIN u
  <2>1. CASE r = p
    BY <1>1, <1>4, <1>5, <2>1 DEF spaceEnd
  <2>2. CASE r = q
    BY <1>1, <1>4, <1>5, <2>2 DEF spaceEnd
  <2>3. CASE r # p /\ r # q
    BY <1>4, <1>6, <2>3 DEF spaceEnd
  <2> QED
    BY <2>1, <2>2, <2>3
<1>8. ASSUME NEW r \in DOMAIN sizes, r # p, NEW s \in {p, q}
      PROVE  r + u[r] + HEADER <= s \/ s + u[s] + HEADER <= r
  BY <1>1, <1>2, <1>4, <1>5, <1>6, <1>8
<1>9. ASSUME NEW r \in DOMAIN u, NEW s \in DOMAIN u
      PROVE  r = s \/ r + u[r] + HEADER <= s \/ s + u[s] + HEADER <= r
  <2>1. CASE r \in {p, q} /\ s \in {p, q}
    BY <1>1, <1>5, <2>1
  <2>2. CASE r \notin {p, q} /\ s \in {p, q}
    BY <1>4, <1>8, <2>2
  <2>3. CASE r \in {p, q} /\ s \notin {p, q}
    BY <1>4, <1>8, <2>3
  <2>4. CASE r \notin {p, q} /\ s \notin {p, q}
    BY <1>4, <2>4 DEF tiled, spaceEnd
  <2> QED
    BY <2>1, <2>2, <2>3, <2>4
<1>10. (hp = 0 \/ 0 \in DOMAIN u) /\ u = [r \in DOMAIN u |-> u[r]]
  BY <1>4 DEF tiled, with
<1> QED
  BY <1>1, <1>3, <1>4, <1>7, <1>9, <1>10 DEF tiled, spaceEnd, split

cut(u, sizes, hp, size) ==
    /\ DOMAIN u = DOMAIN sizes \cup {hp} /\ hp \notin DOMAIN sizes /\ hp \in Nat /\ u[hp] = size
    /\ \A p \in DOMAIN sizes : u[p] = sizes[p]

\* fromRest: the unused end gives a space.
LEMMA TopCut ==
    ASSUME NEW sizes, NEW hp, tiled(sizes, hp), NEW size \in Nat \ {0}, NEW u,
           u = with(sizes, hp, size)
    PROVE  tiled(u, hp + size + HEADER) /\ cut(u, sizes, hp, size)
<1>1. HEADER \in Nat \ {0} /\ hp \in Nat
  BY TinyHeapAssumption DEF tiled
<1>2. ASSUME NEW p \in DOMAIN sizes
      PROVE  /\ p \in Nat /\ sizes[p] \in Nat \ {0} /\ p + sizes[p] + HEADER <= hp /\ p < hp
             /\ p + sizes[p] + HEADER = hp \/ p + sizes[p] + HEADER \in DOMAIN sizes
  <2>1. /\ p \in Nat /\ sizes[p] \in Nat \ {0} /\ p + sizes[p] + HEADER <= hp
        /\ p + sizes[p] + HEADER = hp \/ p + sizes[p] + HEADER \in DOMAIN sizes
    BY DEF tiled, spaceEnd
  <2> QED
    BY <1>1, <2>1
<1>3. hp \notin DOMAIN sizes
  BY <1>1, <1>2
<1>4. /\ DOMAIN u = DOMAIN sizes \cup {hp} /\ u[hp] = size
      /\ \A p \in DOMAIN sizes : u[p] = sizes[p]
  BY <1>3 DEF with
<1>5. ASSUME NEW r \in DOMAIN u
      PROVE  /\ r \in Nat /\ u[r] \in Nat \ {0} /\ spaceEnd(u, r) <= hp + size + HEADER
             /\ spaceEnd(u, r) = hp + size + HEADER \/ spaceEnd(u, r) \in DOMAIN u
  <2>1. CASE r = hp
    BY <1>1, <1>4, <2>1 DEF spaceEnd
  <2>2. CASE r \in DOMAIN sizes
    BY <1>1, <1>2, <1>4, <2>2 DEF spaceEnd
  <2> QED
    BY <1>4, <2>1, <2>2
<1>6. ASSUME NEW r \in DOMAIN u, NEW s \in DOMAIN u
      PROVE  r = s \/ r + u[r] + HEADER <= s \/ s + u[s] + HEADER <= r
  <2>1. CASE r \in DOMAIN sizes /\ s \in DOMAIN sizes
    BY <1>4, <2>1 DEF tiled, spaceEnd
  <2>2. CASE r = hp \/ s = hp
    BY <1>1, <1>2, <1>4, <2>2
  <2> QED
    BY <1>4, <2>1, <2>2
<1>7. 0 \in DOMAIN u /\ u = [r \in DOMAIN u |-> u[r]]
  BY <1>4 DEF tiled, with
<1> QED
  BY <1>1, <1>3, <1>4, <1>5, <1>6, <1>7 DEF tiled, spaceEnd, cut

-----------------------------------------------------------------------------
(***************************************************************************)
(* A heap of which the spaces used are in use.                             *)
(***************************************************************************)
sound(h, used) ==
    /\ h = [hp |-> h.hp, free_list |-> h.free_list, get_size |-> h.get_size]
    /\ h.free_list \in Seq(Nat) /\ IsInjective(h.free_list)
    /\ ToSet(h.free_list) \cap used = {}
    /\ DOMAIN h.get_size = ToSet(h.free_list) \cup used
    /\ tiled(h.get_size, h.hp)

\* The spaces of a list are in order, and none of them follows on another.
apart(list, sizes) ==
    \A i, j \in 1..Len(list) : i < j => spaceEnd(sizes, list[i]) < list[j]

\* What compress makes of a heap.
compacted(h) ==
    /\ apart(h.free_list, h.get_size)
    /\ \A p \in ToSet(h.free_list) : spaceEnd(h.get_size, p) < h.hp

LEMMA Spaces ==
    ASSUME NEW sizes, NEW hp, tiled(sizes, hp), NEW p \in DOMAIN sizes
    PROVE  /\ p \in Nat /\ sizes[p] \in Nat \ {0} /\ hp \in Nat
           /\ p < spaceEnd(sizes, p) /\ spaceEnd(sizes, p) \in Nat /\ spaceEnd(sizes, p) <= hp
<1>1. p \in Nat /\ sizes[p] \in Nat \ {0} /\ HEADER \in Nat \ {0}
  BY TinyHeapAssumption DEF tiled
<1>2. hp \in Nat /\ spaceEnd(sizes, p) <= hp
  BY DEF tiled
<1> QED
  BY <1>1, <1>2 DEF spaceEnd

LEMMA ApartOnce ==
    ASSUME NEW sizes, NEW hp, tiled(sizes, hp), NEW list \in Seq(Nat),
           ToSet(list) \subseteq DOMAIN sizes, apart(list, sizes)
    PROVE  IsInjective(list)
<1>1. DOMAIN list = 1..Len(list) /\ Len(list) \in Nat
  OBVIOUS
<1>2. ASSUME NEW i \in 1..Len(list), NEW j \in 1..Len(list), i < j
      PROVE  list[i] # list[j]
  <2>1. list[i] \in DOMAIN sizes /\ list[i] \in Nat
    BY <1>1 DEF ToSet
  <2>2. list[i] < spaceEnd(sizes, list[i])
    BY <2>1, TinyHeapAssumption DEF tiled, spaceEnd
  <2>3. spaceEnd(sizes, list[i]) < list[j] /\ list[j] \in Nat /\ spaceEnd(sizes, list[i]) \in Int
    BY <1>1, <1>2, <2>1, TinyHeapAssumption DEF apart, tiled, spaceEnd
  <2> QED
    BY <2>1, <2>2, <2>3
<1>3. ASSUME NEW i \in DOMAIN list, NEW j \in DOMAIN list, list[i] = list[j]
      PROVE  i = j
  BY <1>1, <1>2, <1>3
<1> QED
  BY <1>3 DEF IsInjective

\* The loop of compress with the spaces rest ahead of it.
walked(acc, h, used, rest) ==
    /\ acc = [list |-> acc.list, ptr |-> acc.ptr, sizes |-> acc.sizes]
    /\ acc.list \in Seq(Nat) /\ acc.ptr \in Nat
    /\ DOMAIN acc.sizes = used \cup ToSet(acc.list) \cup {acc.ptr} \cup rest
    /\ used \cap (ToSet(acc.list) \cup {acc.ptr} \cup rest) = {}
    /\ tiled(acc.sizes, h.hp)
    /\ \A p \in used : acc.sizes[p] = h.get_size[p]
    /\ apart(acc.list, acc.sizes)
    /\ \A p \in ToSet(acc.list) : spaceEnd(acc.sizes, p) < acc.ptr
    /\ \A p \in rest : acc.ptr < p

LEMMA FirstSpace ==
    ASSUME NEW h, NEW used, sound(h, used), NEW p \in ToSet(h.free_list),
           \A q \in ToSet(h.free_list) : q = p \/ p < q,
           NEW acc, acc = [list |-> << >>, ptr |-> nullptr, sizes |-> h.get_size]
    PROVE  walked(merged(acc, p), h, used, ToSet(h.free_list) \ {p})
<1> DEFINE new == merged(acc, p)
<1>1. new = [list |-> << >>, ptr |-> p, sizes |-> h.get_size]
  BY DEF merged
<1> HIDE DEF new
<1>2. new.list = << >> /\ new.ptr = p /\ new.sizes = h.get_size
  BY <1>1
<1>3. ToSet(<< >>) = {} /\ << >> \in Seq(Nat) /\ Len(<< >>) = 0
  BY DEF ToSet
<1>4. p \in Nat
  BY DEF sound, tiled
<1>5. apart(new.list, new.sizes)
  BY <1>2, <1>3 DEF apart
<1>6. \A q \in ToSet(h.free_list) \ {p} : new.ptr < q
  BY <1>2
<1>7. walked(new, h, used, ToSet(h.free_list) \ {p})
  BY <1>1, <1>2, <1>3, <1>4, <1>5, <1>6 DEF sound, walked
<1> QED
  BY <1>7 DEF new

LEMMA NextSpace ==
    ASSUME NEW h, NEW used, NEW rest, NEW acc, walked(acc, h, used, rest),
           NEW p \in rest, \A q \in rest : q = p \/ p < q
    PROVE  walked(merged(acc, p), h, used, rest \ {p})
<1> DEFINE new == merged(acc, p)
           list == acc.list
           ptr == acc.ptr
           sizes == acc.sizes
<1>1. /\ acc = [list |-> list, ptr |-> ptr, sizes |-> sizes]
      /\ list \in Seq(Nat) /\ ptr \in Nat /\ ptr # nullptr
      /\ DOMAIN sizes = used \cup ToSet(list) \cup {ptr} \cup rest
      /\ used \cap (ToSet(list) \cup {ptr} \cup rest) = {}
      /\ tiled(sizes, h.hp)
      /\ \A q \in used : sizes[q] = h.get_size[q]
      /\ apart(list, sizes)
      /\ \A q \in ToSet(list) : spaceEnd(sizes, q) < ptr
      /\ \A q \in rest : ptr < q
  BY DEF walked, nullptr
<1> HIDE DEF list, ptr, sizes
<1>2. ASSUME NEW q \in DOMAIN sizes
      PROVE  q \in Nat /\ sizes[q] \in Nat \ {0} /\ q < spaceEnd(sizes, q) /\ spaceEnd(sizes, q) \in Nat
  BY <1>1, Spaces
<1>3. \A q \in ToSet(list) : q < ptr
  BY <1>1, <1>2
<1>4. ptr < p /\ p \in DOMAIN sizes /\ ptr \in DOMAIN sizes /\ p \in Nat
  BY <1>1, <1>2
<1>5. CASE spaceEnd(sizes, ptr) = p
  <2> DEFINE u == without(with(sizes, ptr, sizes[ptr] + sizes[p] + HEADER), p)
  <2>1. new = [list |-> list, ptr |-> ptr, sizes |-> u]
    BY <1>1, <1>5 DEF merged, list, ptr, sizes
  <2> HIDE DEF new
  <2>2. /\ tiled(u, h.hp) /\ DOMAIN u = DOMAIN sizes \ {p}
        /\ \A r \in DOMAIN u : r # ptr => u[r] = sizes[r]
    <3>1. u = without(with(sizes, ptr, sizes[ptr] + sizes[p] + HEADER), p)
      OBVIOUS
    <3> DEFINE hp == h.hp
    <3> HIDE DEF u
    <3>2. tiled(sizes, hp)
      BY <1>1
    <3> HIDE DEF hp
    <3>3. tiled(u, hp)
      BY <1>4, <1>5, <3>1, <3>2, NeighboursMerged
    <3>4. DOMAIN u = DOMAIN sizes \ {p} /\ \A r \in DOMAIN u : r # ptr => u[r] = sizes[r]
      BY <1>4, <1>5, <3>1, <3>2, NeighboursMerged
    <3> QED
      BY <3>3, <3>4 DEF hp
  <2> HIDE DEF u
  <2>3. new.list = list /\ new.ptr = ptr /\ new.sizes = u
    BY <2>1
  <2>4. p \notin ToSet(list) /\ p \notin used /\ ptr \notin ToSet(list) /\ ptr \notin used
    BY <1>1, <1>2, <1>3, <1>4
  <2>5. \A q \in ToSet(list) : spaceEnd(u, q) = spaceEnd(sizes, q)
    BY <1>1, <2>2, <2>4 DEF spaceEnd
  <2>6. apart(list, u)
    <3>1. \A i \in 1..Len(list) : list[i] \in ToSet(list)
      BY <1>1 DEF ToSet
    <3> QED
      BY <1>1, <2>5, <3>1 DEF apart
  <2>7. \A q \in used : u[q] = h.get_size[q]
    BY <1>1, <2>2, <2>4
  <2>8. DOMAIN u = used \cup ToSet(list) \cup {ptr} \cup (rest \ {p})
    BY <1>1, <1>4, <2>2, <2>4
  <2>9. walked(new, h, used, rest \ {p})
    BY <1>1, <2>1, <2>2, <2>3, <2>5, <2>6, <2>7, <2>8 DEF walked
  <2> QED
    BY <2>9 DEF new
<1>6. CASE spaceEnd(sizes, ptr) # p
  <2>1. new = [list |-> Append(list, ptr), ptr |-> p, sizes |-> sizes]
    BY <1>1, <1>6 DEF merged, list, ptr, sizes
  <2> HIDE DEF new
  <2>2. new.list = Append(list, ptr) /\ new.ptr = p /\ new.sizes = sizes
    BY <2>1
  <2>3. Append(list, ptr) \in Seq(Nat) /\ ToSet(Append(list, ptr)) = ToSet(list) \cup {ptr}
    BY <1>1, AppendElements
  <2>4. spaceEnd(sizes, ptr) < p
    <3>1. spaceEnd(sizes, ptr) <= p \/ spaceEnd(sizes, p) <= ptr
      BY <1>1, <1>4 DEF tiled
    <3>2. p < spaceEnd(sizes, p) /\ spaceEnd(sizes, p) \in Nat /\ spaceEnd(sizes, ptr) \in Nat
      BY <1>2, <1>4
    <3> QED
      BY <1>1, <1>4, <1>6, <3>1, <3>2
  <2>5. \A q \in ToSet(list) : spaceEnd(sizes, q) < p
    BY <1>1, <1>2, <1>4
  <2>6. apart(Append(list, ptr), sizes)
    <3>1. /\ \A i \in 1..Len(list) : list[i] \in ToSet(list) /\ Append(list, ptr)[i] = list[i]
          /\ Append(list, ptr)[Len(list) + 1] = ptr /\ Len(Append(list, ptr)) = Len(list) + 1
          /\ Len(list) \in Nat
      BY <1>1 DEF ToSet
    <3>2. ASSUME NEW i \in 1..(Len(list) + 1), NEW j \in 1..(Len(list) + 1), i < j
          PROVE  spaceEnd(sizes, Append(list, ptr)[i]) < Append(list, ptr)[j]
      <4>1. i \in 1..Len(list)
        BY <3>1, <3>2
      <4>2. CASE j = Len(list) + 1
        BY <1>1, <3>1, <4>1, <4>2
      <4>3. CASE j \in 1..Len(list)
        <5>1. spaceEnd(sizes, list[i]) < list[j]
          BY <1>1, <3>2, <4>1, <4>3 DEF apart
        <5> QED
          BY <3>1, <4>1, <4>3, <5>1
      <4> QED
        BY <3>1, <4>2, <4>3
    <3> QED
      BY <3>1, <3>2 DEF apart
  <2>7. \A q \in rest \ {p} : p < q
    OBVIOUS
  <2>8. \A q \in ToSet(list) \cup {ptr} : spaceEnd(sizes, q) < p
    BY <2>4, <2>5
  <2>9. walked(new, h, used, rest \ {p})
    BY <1>1, <1>4, <2>1, <2>2, <2>3, <2>6, <2>7, <2>8 DEF walked
  <2> QED
    BY <2>9 DEF new
<1> QED
  BY <1>5, <1>6

\* The list that compress walks along: the free spaces from low to high.
LEMMA SortedList ==
    ASSUME NEW h, NEW used, sound(h, used), NEW l, l = inOrder(h)
    PROVE  /\ l \in Seq(Nat) /\ Len(l) = Len(h.free_list) /\ Len(l) \in Nat
           /\ ToSet(l) = ToSet(h.free_list)
           /\ \A i, j \in 1..Len(l) : i < j => l[i] < l[j]
<1> DEFINE s == h.free_list
           E == ToSet(s)
           before == lower(E)
<1>1. s \in Seq(Nat) /\ IsInjective(s)
  BY DEF sound
<1>2. E \subseteq Nat /\ s \in Seq(E)
  BY <1>1 DEF ToSet
<1>3. weakOrder(before, E)
  BY <1>2 DEF weakOrder, lower
<1>4. \A a, b \in E : a # b /\ <<b, a>> \notin before => a < b
  BY <1>2 DEF lower
<1>5. l = sorted(s, before)
  BY DEF inOrder
<1> HIDE DEF E, before, s
<1>6. /\ l \in Seq(E) /\ ordered(l, before) /\ ToSet(l) = ToSet(s) /\ IsInjective(l)
      /\ Len(l) = Len(s)
  BY <1>1, <1>2, <1>3, <1>5, SortedElements
<1>7. l \in Seq(Nat) /\ Len(l) \in Nat /\ DOMAIN l = 1..Len(l)
  <2>1. Len(l) \in Nat /\ DOMAIN l = 1..Len(l) /\ l = [i \in 1..Len(l) |-> l[i]]
        /\ \A i \in 1..Len(l) : l[i] \in E
    BY <1>6
  <2>2. \A i \in 1..Len(l) : l[i] \in Nat
    BY <1>2, <2>1
  <2>3. l \in [1..Len(l) -> Nat]
    BY <2>1, <2>2, Zenon
  <2> QED
    BY <2>1, <2>3
<1>8. ASSUME NEW i \in 1..Len(l), NEW j \in 1..Len(l), i < j
      PROVE  l[i] < l[j]
  <2>1. <<l[j], l[i]>> \notin before
    BY <1>6, <1>8 DEF ordered
  <2>2. l[i] \in E /\ l[j] \in E
    BY <1>6
  <2>3. i = j \/ l[i] # l[j]
    BY <1>6, <1>7 DEF IsInjective
  <2> QED
    BY <1>4, <1>8, <2>1, <2>2, <2>3
<1> QED
  BY <1>6, <1>7, <1>8 DEF s

\* What the loop has visited, as a set that RecursionWithin can be given.
Visits == [list : Seq(Nat), ptr : Nat \cup {nullptr}, sizes : UNION {[D -> Nat] : D \in SUBSET Nat}]

LEMMA WalkedIsVisit ==
    ASSUME NEW acc, NEW h, NEW used, NEW rest, walked(acc, h, used, rest)
    PROVE  acc \in Visits
<1> DEFINE D == DOMAIN acc.sizes
           sizes == acc.sizes
<1>1. sizes = [p \in D |-> sizes[p]] /\ \A p \in D : p \in Nat /\ sizes[p] \in Nat
  BY DEF walked, tiled
<1>2. sizes \in [D -> Nat] /\ D \in SUBSET Nat
  <2> HIDE DEF sizes, D
  <2> QED
    BY <1>1
<1>3. acc = [list |-> acc.list, ptr |-> acc.ptr, sizes |-> sizes]
      /\ acc.list \in Seq(Nat) /\ acc.ptr \in Nat
  BY DEF walked
<1> HIDE DEF D, sizes
<1> QED
  BY <1>2, <1>3 DEF Visits

LEMMA Walk ==
    ASSUME NEW h, NEW used, sound(h, used)
    PROVE  /\ h.free_list # << >> => walked(compressed(h), h, used, {})
           /\ h.free_list = << >> => compressed(h).ptr = nullptr
<1> DEFINE l == inOrder(h)
           K == Len(l)
           rest(n) == {l[i] : i \in (n + 1)..K}
           start == [list |-> << >>, ptr |-> nullptr, sizes |-> h.get_size]
           I == [n \in 0..K |-> IF n = 0 THEN {start}
                                ELSE {x \in Visits : walked(x, h, used, rest(n))}]
           F == [n \in 1..K |-> [x \in I[n - 1] |-> merged(x, l[n])]]
           Def(f) == f = [n \in 0..K |-> IF n = 0 THEN start ELSE merged(f[n - 1], l[n])]
           f == CHOOSE f : Def(f)
<1>1. compressed(h) = f[K]
  BY DEF compressed
<1>2. /\ l \in Seq(Nat) /\ K = Len(h.free_list) /\ K \in Nat
      /\ ToSet(l) = ToSet(h.free_list)
      /\ \A i, j \in 1..K : i < j => l[i] < l[j]
  BY SortedList
<1>3. DOMAIN l = 1..K
  BY <1>2
<1> HIDE DEF l, f, K
<1>4. ASSUME NEW n \in 1..K
      PROVE  /\ l[n] \in rest(n - 1) /\ rest(n) = rest(n - 1) \ {l[n]}
             /\ \A q \in rest(n - 1) : q = l[n] \/ l[n] < q
  <2>1. n \in Nat /\ n <= K /\ (n - 1) + 1 = n
    BY <1>2
  <2>2. rest(n - 1) = {l[i] : i \in n..K}
    BY <2>1
  <2>3. \A i \in (n + 1)..K : l[n] < l[i] /\ l[n] # l[i]
    <3>1. \A i \in (n + 1)..K : l[n] < l[i]
      BY <1>2, <2>1
    <3>2. \A i \in 1..K : l[i] \in Nat
      BY <1>2, <1>3
    <3> QED
      BY <3>1, <3>2, <2>1
  <2>4. n..K = {n} \cup (n + 1)..K
    BY <1>2, <2>1
  <2> QED
    BY <2>2, <2>3, <2>4
<1>5. rest(0) = ToSet(h.free_list)
  <2>1. rest(0) = {l[i] : i \in 1..K}
    OBVIOUS
  <2> HIDE DEF rest
  <2> QED
    BY <1>2, <1>3, <2>1 DEF ToSet
<1>6. start \in I[0]
  BY <1>2
<1>7. ASSUME NEW n \in 1..K, NEW x \in I[n - 1]
      PROVE  F[n][x] = merged(x, l[n]) /\ F[n][x] \in I[n]
  <2> DEFINE p == l[n]
  <2>1. F[n][x] = merged(x, p)
    <3> HIDE DEF I
    <3> QED
      OBVIOUS
  <2>2. walked(merged(x, p), h, used, rest(n))
    <3>1. CASE n = 1
      <4>1. x = start /\ n - 1 = 0
        BY <1>2, <3>1
      <4>2. p \in rest(0) /\ rest(n) = rest(0) \ {p} /\ \A q \in rest(0) : q = p \/ p < q
        BY <1>4, <4>1
      <4> HIDE DEF p, start, rest
      <4> QED
        BY <1>5, <4>1, <4>2, FirstSpace DEF start
    <3>2. CASE n # 1
      <4>1. n - 1 \in 0..K /\ n - 1 # 0
        BY <1>2, <3>2
      <4>2. walked(x, h, used, rest(n - 1))
        BY <4>1
      <4>3. p \in rest(n - 1) /\ rest(n) = rest(n - 1) \ {p} /\ \A q \in rest(n - 1) : q = p \/ p < q
        BY <1>4
      <4> DEFINE r == rest(n - 1)
      <4> HIDE DEF p, r, rest
      <4>4. walked(x, h, used, r) /\ p \in r /\ \A q \in r : q = p \/ p < q
        BY <4>2, <4>3 DEF r
      <4>5. walked(merged(x, p), h, used, r \ {p})
        BY <4>4, NextSpace
      <4> QED
        BY <4>3, <4>5 DEF r
    <3> QED
      BY <3>1, <3>2
  <2>3. n \in 0..K /\ n # 0
    BY <1>2
  <2> DEFINE y == merged(x, p)
  <2> HIDE DEF p, y, rest
  <2>4. y \in Visits
    BY <2>2, WalkedIsVisit DEF y
  <2>5. y \in I[n]
    BY <2>2, <2>3, <2>4 DEF y
  <2> QED
    BY <2>1, <2>5 DEF y, p
<1>8. PICK g : isRecursive(g, K, I, start, F)
  <2>1. stepsWithin(K, I, F)
    <3> HIDE DEF I, F
    <3> QED
      BY <1>7 DEF stepsWithin
  <2> HIDE DEF I, F, start
  <2> QED
    BY <1>2, <1>6, <2>1, RecursionWithin DEF recursionExists
<1>9. /\ DOMAIN g = 0..K /\ g = [n \in 0..K |-> g[n]] /\ g[0] = start
      /\ \A n \in 1..K : g[n] = F[n][g[n - 1]]
      /\ \A n \in 0..K : g[n] \in I[n]
  BY <1>8 DEF isRecursive
<1>10. Def(g)
  <2> HIDE DEF I, F
  <2>1. ASSUME NEW n \in 0..K, n # 0
        PROVE  g[n] = merged(g[n - 1], l[n])
    <3>1. n \in 1..K /\ n - 1 \in 0..K
      BY <1>2, <2>1
    <3> QED
      BY <1>7, <1>9, <3>1
  <2> HIDE DEF start
  <2> QED
    BY <1>2, <1>9, <2>1
<1>11. Def(f)
  <2> HIDE DEF Def
  <2> QED
    BY <1>10 DEF f
<1>12. f[0] = start
  <2> HIDE DEF start, I, F
  <2> QED
    BY <1>2, <1>11
<1>13. \A n \in 1..K : f[n] = merged(f[n - 1], l[n])
  <2> SUFFICES ASSUME NEW n \in 1..K PROVE f[n] = merged(f[n - 1], l[n])
    OBVIOUS
  <2>1. n \in 0..K /\ n # 0
    BY <1>2
  <2> HIDE DEF start, I, F
  <2> QED
    BY <1>11, <2>1
<1> DEFINE T == {n \in Nat : n <= K => f[n] \in I[n]}
<1>14. 0 \in T
  BY <1>6, <1>12
<1>15. ASSUME NEW n \in Nat, n \in T
       PROVE  n + 1 \in T
  <2> HIDE DEF I, F
  <2>1. SUFFICES ASSUME n + 1 <= K PROVE f[n + 1] \in I[n + 1]
    OBVIOUS
  <2>2. n + 1 \in 1..K /\ (n + 1) - 1 = n /\ f[n] \in I[n]
    BY <1>2, <1>15, <2>1
  <2>3. F[n + 1][f[n]] = merged(f[n], l[n + 1]) /\ F[n + 1][f[n]] \in I[n + 1]
    BY <1>7, <2>2
  <2> QED
    BY <1>13, <2>2, <2>3
<1>16. f[K] \in I[K]
  <2>1. K \in T
    <3> HIDE DEF T
    <3> QED
      BY <1>2, <1>14, <1>15, Induction
  <2> HIDE DEF I, F
  <2> QED
    BY <1>2, <2>1
<1>17. CASE h.free_list # << >>
  <2>1. K # 0 /\ K \in 0..K
    BY <1>2, <1>17 DEF sound
  <2>2. rest(K) = {}
    BY <1>2
  <2>3. walked(f[K], h, used, {})
    BY <1>16, <2>1, <2>2
  <2> QED
    BY <1>1, <1>17, <2>3
<1>18. CASE h.free_list = << >>
  <2>1. K = 0
    BY <1>2, <1>18
  <2> QED
    BY <1>1, <1>12, <1>18, <2>1
<1> QED
  BY <1>17, <1>18

\* compress keeps the heap sound and the chunks in use as they are, and
\* leaves no two free spaces side by side and none at hp.
LEMMA Compress ==
    ASSUME NEW h, NEW used, sound(h, used), NEW c, c = compress(h)
    PROVE  /\ sound(c, used) /\ compacted(c) /\ c.hp <= h.hp
           /\ \A p \in used : c.get_size[p] = h.get_size[p]
<1>1. h.hp \in Nat
  BY DEF sound, tiled
<1>2. CASE h.free_list = << >>
  <2>1. c = h
    BY <1>2, Walk DEF compress
  <2>2. ToSet(<< >>) = {} /\ Len(<< >>) = 0
    BY DEF ToSet
  <2> QED
    BY <1>1, <1>2, <2>1, <2>2 DEF compacted, apart
<1>3. CASE h.free_list # << >>
  <2> DEFINE acc == compressed(h)
             list == acc.list
             ptr == acc.ptr
             sizes == acc.sizes
             hp == h.hp
  <2>1. walked(acc, h, used, {})
    BY <1>3, Walk
  <2>2. c = IF spaceEnd(sizes, ptr) = hp
            THEN [hp |-> ptr, free_list |-> list, get_size |-> without(sizes, ptr)]
            ELSE [hp |-> hp, free_list |-> Append(list, ptr), get_size |-> sizes]
    BY <2>1 DEF compress, walked, nullptr
  <2>3. /\ list \in Seq(Nat) /\ ptr \in Nat
        /\ DOMAIN sizes = used \cup ToSet(list) \cup {ptr}
        /\ used \cap (ToSet(list) \cup {ptr}) = {}
        /\ tiled(sizes, hp)
        /\ \A p \in used : sizes[p] = h.get_size[p]
        /\ apart(list, sizes)
        /\ \A p \in ToSet(list) : spaceEnd(sizes, p) < ptr
    BY <2>1 DEF walked
  <2> HIDE DEF acc, list, ptr, sizes, hp
  <2>4. \A p \in ToSet(list) \cup {ptr} :
           p \in Nat /\ p < spaceEnd(sizes, p) /\ spaceEnd(sizes, p) \in Nat /\ spaceEnd(sizes, p) <= hp
    BY <2>3, Spaces
  <2>5. ptr \notin ToSet(list)
    BY <2>3, <2>4
  <2>6. hp \in Nat
    BY <1>1 DEF hp
  <2>7. CASE spaceEnd(sizes, ptr) = hp
    <3> DEFINE u == without(sizes, ptr)
    <3>1. c = [hp |-> ptr, free_list |-> list, get_size |-> u]
      BY <2>2, <2>7
    <3>2. tiled(u, ptr)
      BY <2>3, <2>7, TopFreed
    <3>3. DOMAIN u = DOMAIN sizes \ {ptr} /\ \A p \in DOMAIN u : u[p] = sizes[p]
      BY DEF without
    <3> HIDE DEF u
    <3>4. c.hp = ptr /\ c.free_list = list /\ c.get_size = u
      BY <3>1
    <3>5. DOMAIN u = ToSet(list) \cup used
      BY <2>3, <2>5, <3>3
    <3>6. \A p \in ToSet(list) : spaceEnd(u, p) = spaceEnd(sizes, p)
      BY <3>3, <3>5 DEF spaceEnd
    <3>7. apart(list, u)
      <4>1. \A i \in 1..Len(list) : list[i] \in ToSet(list)
        BY <2>3 DEF ToSet
      <4> QED
        BY <2>3, <3>6, <4>1 DEF apart
    <3>8. IsInjective(list)
      BY <2>3, <3>2, <3>5, <3>7, ApartOnce
    <3>9. sound(c, used)
      BY <2>3, <3>1, <3>2, <3>4, <3>5, <3>8 DEF sound
    <3>10. compacted(c)
      BY <2>3, <3>4, <3>6, <3>7 DEF compacted
    <3>11. c.hp <= h.hp
      BY <2>4, <2>6, <2>7, <3>4 DEF hp
    <3> QED
      BY <2>3, <3>3, <3>4, <3>5, <3>9, <3>10, <3>11
  <2>8. CASE spaceEnd(sizes, ptr) # hp
    <3> DEFINE new == Append(list, ptr)
    <3>1. c = [hp |-> hp, free_list |-> new, get_size |-> sizes]
      BY <2>2, <2>8
    <3>2. new \in Seq(Nat) /\ ToSet(new) = ToSet(list) \cup {ptr}
      BY <2>3, AppendElements
    <3>3. apart(new, sizes)
      <4>1. /\ \A i \in 1..Len(list) : list[i] \in ToSet(list) /\ new[i] = list[i]
            /\ new[Len(list) + 1] = ptr /\ Len(new) = Len(list) + 1 /\ Len(list) \in Nat
        BY <2>3 DEF ToSet
      <4> HIDE DEF new
      <4>2. ASSUME NEW i \in 1..(Len(list) + 1), NEW j \in 1..(Len(list) + 1), i < j
            PROVE  spaceEnd(sizes, new[i]) < new[j]
        <5>1. i \in 1..Len(list)
          BY <4>1, <4>2
        <5>2. CASE j = Len(list) + 1
          BY <2>3, <4>1, <5>1, <5>2
        <5>3. CASE j \in 1..Len(list)
          <6>1. spaceEnd(sizes, list[i]) < list[j]
            BY <2>3, <4>2, <5>1, <5>3 DEF apart
          <6> QED
            BY <4>1, <5>1, <5>3, <6>1
        <5> QED
          BY <4>1, <5>2, <5>3
      <4> QED
        BY <4>1, <4>2 DEF apart
    <3> HIDE DEF new
    <3>4. c.hp = hp /\ c.free_list = new /\ c.get_size = sizes
      BY <3>1
    <3>5. \A p \in ToSet(new) : spaceEnd(sizes, p) < hp
      BY <2>3, <2>4, <2>6, <2>8, <3>2
    <3>6. IsInjective(new)
      BY <2>3, <3>2, <3>3, ApartOnce
    <3>7. DOMAIN sizes = ToSet(new) \cup used /\ ToSet(new) \cap used = {}
      BY <2>3, <3>2
    <3>8. sound(c, used)
      BY <2>3, <3>1, <3>2, <3>4, <3>6, <3>7 DEF sound
    <3>9. compacted(c)
      BY <3>3, <3>4, <3>5 DEF compacted
    <3> QED
      BY <2>3, <2>6, <3>4, <3>8, <3>9 DEF hp
  <2> QED
    BY <2>7, <2>8
<1> QED
  BY <1>2, <1>3

-----------------------------------------------------------------------------
(***************************************************************************)
(* allocate, the position that a policy picks.                             *)
(***************************************************************************)
LEMMA SizesOfFree ==
    ASSUME NEW h, NEW used, sound(h, used), NEW i \in 1..Len(h.free_list)
    PROVE  /\ h.free_list[i] \in ToSet(h.free_list) /\ h.free_list[i] \in DOMAIN h.get_size
           /\ sizeAt(h, i) \in Nat \ {0} /\ sizeAt(h, i) <= h.hp /\ h.hp \in Nat
<1> DEFINE p == h.free_list[i]
           sizes == h.get_size
           hp == h.hp
<1>1. p \in ToSet(h.free_list) /\ p \in DOMAIN sizes
  BY DEF sound, ToSet
<1>2. tiled(sizes, hp)
  BY DEF sound
<1> HIDE DEF p, sizes, hp
<1>3. sizes[p] \in Nat \ {0} /\ p \in Nat /\ hp \in Nat /\ spaceEnd(sizes, p) <= hp
  BY <1>1, <1>2, Spaces
<1>4. sizes[p] <= hp
  BY <1>3, TinyHeapAssumption DEF spaceEnd
<1> QED
  BY <1>1, <1>3, <1>4 DEF sizeAt, p, sizes, hp

\* The first of the positions with the smallest value.
LEMMA FirstLeast ==
    ASSUME NEW S \in SUBSET Nat, S # {}, NEW f \in [S -> Nat]
    PROVE  \E i \in S : \A j \in S : f[i] < f[j] \/ (f[i] = f[j] /\ i <= j)
<1> DEFINE values == {f[i] : i \in S}
<1>1. PICK x \in values : \A y \in values : x <= y
  <2>1. values \in SUBSET Nat /\ values # {}
    OBVIOUS
  <2> HIDE DEF values
  <2> QED
    BY <2>1, LeastNumber
<1> DEFINE T == {i \in S : f[i] = x}
<1>2. PICK i \in T : \A j \in T : i <= j
  <2>1. T \in SUBSET Nat /\ T # {}
    OBVIOUS
  <2> HIDE DEF T
  <2> QED
    BY <2>1, LeastNumber
<1>3. ASSUME NEW j \in S
      PROVE  f[i] < f[j] \/ (f[i] = f[j] /\ i <= j)
  <2>1. f[i] = x /\ f[j] \in values /\ f[i] \in Nat /\ f[j] \in Nat
    BY <1>2
  <2>2. f[i] <= f[j]
    BY <1>1, <2>1
  <2>3. CASE f[i] = f[j]
    <3>1. j \in T
      BY <2>1, <2>3
    <3> QED
      BY <1>2, <2>3, <3>1
  <2> QED
    BY <2>1, <2>2, <2>3
<1> QED
  BY <1>2, <1>3

LEMMA FirstSmallestIs ==
    ASSUME NEW h, NEW used, sound(h, used), NEW among, among \subseteq 1..Len(h.free_list),
           among # {}, NEW i, i = firstSmallest(h, among)
    PROVE  i \in among /\ \A j \in among : sizeAt(h, i) <= sizeAt(h, j)
<1> DEFINE f == [j \in among |-> sizeAt(h, j)]
<1>1. \A j \in among : sizeAt(h, j) \in Nat
  BY SizesOfFree
<1>2. among \in SUBSET Nat /\ f \in [among -> Nat] /\ \A j \in among : f[j] = sizeAt(h, j)
  BY <1>1
<1> HIDE DEF f
<1>3. \E k \in among : \A j \in among : f[k] < f[j] \/ (f[k] = f[j] /\ k <= j)
  BY <1>2, FirstLeast
<1>4. \E k \in among : \A j \in among : \/ sizeAt(h, k) < sizeAt(h, j)
                                        \/ sizeAt(h, k) = sizeAt(h, j) /\ k <= j
  BY <1>2, <1>3
<1>5. i \in among /\ \A j \in among : \/ sizeAt(h, i) < sizeAt(h, j)
                                      \/ sizeAt(h, i) = sizeAt(h, j) /\ i <= j
  BY <1>4 DEF firstSmallest
<1> QED
  BY <1>1, <1>5

LEMMA FirstLargestIs ==
    ASSUME NEW h, NEW used, sound(h, used), NEW among, among \subseteq 1..Len(h.free_list),
           among # {}, NEW i, i = firstLargest(h, among)
    PROVE  i \in among /\ \A j \in among : sizeAt(h, j) <= sizeAt(h, i)
<1> DEFINE f == [j \in among |-> h.hp - sizeAt(h, j)]
<1>1. \A j \in among : sizeAt(h, j) \in Nat /\ h.hp \in Nat /\ h.hp - sizeAt(h, j) \in Nat
  BY SizesOfFree
<1>2. among \in SUBSET Nat /\ f \in [among -> Nat] /\ \A j \in among : f[j] = h.hp - sizeAt(h, j)
  BY <1>1
<1> HIDE DEF f
<1>3. \E k \in among : \A j \in among : f[k] < f[j] \/ (f[k] = f[j] /\ k <= j)
  BY <1>2, FirstLeast
<1>4. \E k \in among : \A j \in among : \/ sizeAt(h, k) > sizeAt(h, j)
                                        \/ sizeAt(h, k) = sizeAt(h, j) /\ k <= j
  <2>1. PICK k \in among : \A j \in among : f[k] < f[j] \/ (f[k] = f[j] /\ k <= j)
    BY <1>3
  <2>2. ASSUME NEW j \in among
        PROVE  sizeAt(h, k) > sizeAt(h, j) \/ (sizeAt(h, k) = sizeAt(h, j) /\ k <= j)
    <3>1. /\ f[k] = h.hp - sizeAt(h, k) /\ f[j] = h.hp - sizeAt(h, j)
          /\ sizeAt(h, k) \in Nat /\ sizeAt(h, j) \in Nat /\ h.hp \in Nat
      BY <1>1, <1>2
    <3> QED
      BY <2>1, <3>1
  <2> QED
    BY <2>2
<1>5. i \in among /\ \A j \in among : \/ sizeAt(h, i) > sizeAt(h, j)
                                      \/ sizeAt(h, i) = sizeAt(h, j) /\ i <= j
  BY <1>4 DEF firstLargest
<1> QED
  BY <1>1, <1>5

\* Why a policy finds no free space: all are too small, or, for best_fit,
\* the head of the list is.
tooSmall(h, size) ==
    IF policy # "best_fit" THEN \A p \in ToSet(h.free_list) : h.get_size[p] < size
    ELSE h.free_list # << >> => sizeAt(h, 1) < size

LEMMA Picked ==
    ASSUME NEW h, NEW used, sound(h, used), policy \in Policies, NEW size \in Nat,
           NEW i, i = picked(h, size)
    PROVE  /\ i \in 0..Len(h.free_list)
           /\ i = 0 \/ sizeAt(h, i) < size => tooSmall(h, size)
<1> DEFINE N == Len(h.free_list)
<1>1. /\ N \in Nat /\ positions(h) = 1..N
      /\ \A j \in 1..N : sizeAt(h, j) \in Nat
      /\ \A p \in ToSet(h.free_list) : \E j \in 1..N : p = h.free_list[j] /\ h.get_size[p] = sizeAt(h, j)
  <2>1. h.free_list \in Seq(Nat) /\ DOMAIN h.free_list = 1..N /\ N \in Nat
    BY DEF sound
  <2>2. \A j \in 1..N : sizeAt(h, j) \in Nat
    BY SizesOfFree
  <2>3. ASSUME NEW p \in ToSet(h.free_list)
        PROVE  \E j \in 1..N : p = h.free_list[j] /\ h.get_size[p] = sizeAt(h, j)
    BY <2>1 DEF ToSet, sizeAt
  <2> QED
    BY <2>1, <2>2, <2>3 DEF positions
<1>2. (\A j \in 1..N : sizeAt(h, j) < size) => \A p \in ToSet(h.free_list) : h.get_size[p] < size
  BY <1>1
<1>3. CASE h.free_list = << >>
  <2>1. i = 0
    BY <1>3 DEF picked
  <2>2. \A p \in ToSet(h.free_list) : h.get_size[p] < size
    BY <1>3 DEF ToSet
  <2> QED
    BY <1>1, <1>3, <2>1, <2>2 DEF tooSmall
<1>4. CASE h.free_list # << >>
  <2>1. N # 0
    BY <1>4 DEF sound
  <2> HIDE DEF N
  <2>2. CASE policy = "first_fit"
    <3> DEFINE fit == {j \in 1..N : sizeAt(h, j) >= size}
    <3>1. i = IF fit = {} THEN 0 ELSE CHOOSE k \in fit : \A j \in fit : k <= j
      BY <1>1, <1>4, <2>2 DEF picked, first_fit
    <3>2. CASE fit = {}
      <4>1. \A j \in 1..N : sizeAt(h, j) < size
        BY <1>1, <3>2
      <4> QED
        BY <1>1, <1>2, <2>2, <3>1, <3>2, <4>1 DEF tooSmall, N
    <3>3. CASE fit # {}
      <4>1. fit \in SUBSET Nat
        OBVIOUS
      <4> HIDE DEF fit
      <4>2. \E k \in fit : \A j \in fit : k <= j
        BY <3>3, <4>1, LeastNumber
      <4>3. i \in fit
        BY <3>1, <3>3, <4>2
      <4> QED
        BY <1>1, <4>3 DEF fit, N
    <3> QED
      BY <3>2, <3>3
  <2>3. CASE policy = "best_fit"
    <3> DEFINE better == {j \in 1..N : sizeAt(h, j) >= size /\ sizeAt(h, j) < sizeAt(h, 1)}
    <3>1. i = IF better = {} THEN 1 ELSE firstSmallest(h, better)
      BY <1>1, <1>4, <2>3 DEF picked, best_fit
    <3>2. CASE better = {}
      BY <1>1, <2>1, <2>3, <3>1, <3>2 DEF tooSmall, N
    <3>3. CASE better # {}
      <4>1. i \in better
        <5>1. better \subseteq 1..Len(h.free_list)
          BY DEF N
        <5> HIDE DEF better
        <5> QED
          BY <3>1, <3>3, <5>1, FirstSmallestIs
      <4> QED
        BY <1>1, <4>1 DEF N
    <3> QED
      BY <3>2, <3>3
  <2>4. CASE policy = "worst_fit"
    <3>1. i = firstLargest(h, 1..N)
      BY <1>1, <1>4, <2>4 DEF picked, worst_fit
    <3>2. i \in 1..N /\ \A j \in 1..N : sizeAt(h, j) <= sizeAt(h, i)
      <4>1. 1..N \subseteq 1..Len(h.free_list) /\ 1..N # {}
        BY <1>1, <2>1 DEF N
      <4> QED
        BY <3>1, <4>1, FirstLargestIs
    <3>3. ASSUME i = 0 \/ sizeAt(h, i) < size
          PROVE  tooSmall(h, size)
      <4>1. \A j \in 1..N : sizeAt(h, j) < size
        BY <1>1, <3>2, <3>3
      <4> QED
        BY <1>2, <2>4, <4>1 DEF tooSmall
    <3> QED
      BY <1>1, <3>2, <3>3 DEF N
  <2> QED
    BY <2>2, <2>3, <2>4 DEF Policies
<1> QED
  BY <1>3, <1>4

-----------------------------------------------------------------------------
(***************************************************************************)
(* allocate.                                                               *)
(***************************************************************************)
\* result is a chunk for size bytes, and all that was in use stays as it is.
granted(h, used, size, result) ==
    /\ result.ptr \in Nat /\ result.ptr \notin used
    /\ sound(result.heap, used \cup {result.ptr}) /\ result.heap.hp <= heapSize
    /\ \A p \in used : result.heap.get_size[p] = h.get_size[p]
    /\ result.heap.get_size[result.ptr] >= size
    /\ ~no_truncate => result.heap.get_size[result.ptr] - size <= HEADER

LEMMA TakenFromFree ==
    ASSUME NEW h, NEW used, sound(h, used), h.hp <= heapSize, no_truncate \in BOOLEAN,
           NEW size \in Nat \ {0}, NEW i \in 1..Len(h.free_list), sizeAt(h, i) >= size
    PROVE  granted(h, used, size, fromFreeList(h, i, size))
<1> DEFINE raw == h.free_list[i]
           list == RemoveAt(h.free_list, i)
           taken == withoutAt(h, i)
           sizes == h.get_size
           hp == h.hp
           result == fromFreeList(h, i, size)
<1>1. /\ raw \in ToSet(h.free_list) /\ raw \in DOMAIN sizes /\ raw \in Nat
      /\ sizes[raw] \in Nat \ {0} /\ sizes[raw] >= size /\ HEADER \in Nat \ {0} /\ hp \in Nat
  <2>1. raw \in ToSet(h.free_list) /\ raw \in DOMAIN sizes
    BY SizesOfFree
  <2>2. tiled(sizes, hp)
    BY DEF sound
  <2> HIDE DEF raw, sizes, hp
  <2>3. raw \in Nat /\ sizes[raw] \in Nat \ {0} /\ hp \in Nat
    BY <2>1, <2>2, Spaces
  <2> QED
    BY <2>1, <2>3, TinyHeapAssumption DEF sizeAt, raw, sizes
<1>2. /\ list \in Seq(Nat) /\ ToSet(list) = ToSet(h.free_list) \ {raw} /\ IsInjective(list)
  BY RemovedElements DEF sound
<1>3. taken = [hp |-> hp, free_list |-> list, get_size |-> sizes]
  <2> DEFINE was == h.free_list
  <2>1. h = [hp |-> hp, free_list |-> was, get_size |-> sizes]
    BY DEF sound
  <2>2. taken = [h EXCEPT !.free_list = list]
    BY DEF withoutAt
  <2> HIDE DEF hp, was, sizes, list, taken
  <2> QED
    BY <2>1, <2>2
<1>4. /\ ToSet(h.free_list) \cap used = {} /\ DOMAIN sizes = ToSet(h.free_list) \cup used
      /\ tiled(sizes, hp)
  BY DEF sound
<1>5. result.ptr = raw
      /\ result.heap = IF ~no_truncate /\ sizes[raw] - size > HEADER
                       THEN truncated(taken, raw, size) ELSE taken
  BY DEF fromFreeList
<1> DEFINE g == result.heap
<1> HIDE DEF raw, list, taken, sizes, hp, result, g
<1>6. taken.hp = hp /\ taken.free_list = list /\ taken.get_size = sizes
  BY <1>3
<1>7. CASE ~no_truncate /\ sizes[raw] - size > HEADER
  <2> DEFINE ptr == raw + HEADER + size
             u == with(with(sizes, ptr, sizes[raw] - size - HEADER), raw, size)
             new == Append(list, ptr)
  <2>1. g = [hp |-> hp, free_list |-> new, get_size |-> u]
    BY <1>5, <1>6, <1>7 DEF truncated, g
  <2>2. ptr = raw + HEADER + size
        /\ u = with(with(sizes, ptr, sizes[raw] - size - HEADER), raw, size)
    OBVIOUS
  <2> HIDE DEF ptr, u
  <2>3. /\ tiled(u, hp) /\ DOMAIN u = DOMAIN sizes \cup {ptr} /\ ptr \notin DOMAIN sizes
        /\ ptr \in Nat /\ u[raw] = size
        /\ \A r \in DOMAIN sizes : r # raw => u[r] = sizes[r]
    <3>1. tiled(sizes, hp) /\ raw \in DOMAIN sizes /\ sizes[raw] - size > HEADER
      BY <1>1, <1>4, <1>7
    <3>2. tiled(u, hp) /\ split(u, sizes, raw, ptr, size)
      BY <2>2, <3>1, SpaceSplit
    <3> QED
      BY <3>2 DEF split
  <2>4. /\ new \in Seq(Nat) /\ ToSet(new) = ToSet(list) \cup {ptr} /\ IsInjective(new)
    BY <1>2, <1>4, <2>3, AppendElements
  <2> HIDE DEF new
  <2>5. g.hp = hp /\ g.free_list = new /\ g.get_size = u
    BY <2>1
  <2>6. ToSet(new) \cap (used \cup {raw}) = {} /\ DOMAIN u = ToSet(new) \cup (used \cup {raw})
    BY <1>1, <1>2, <1>4, <2>3, <2>4
  <2>7. sound(g, used \cup {raw})
    BY <2>1, <2>3, <2>4, <2>5, <2>6 DEF sound
  <2>8. \A p \in used : u[p] = sizes[p]
    BY <1>1, <1>4, <2>3
  <2>9. u[raw] >= size /\ u[raw] - size <= HEADER
    BY <1>1, <2>3
  <2> QED
    BY <1>1, <1>4, <1>5, <2>5, <2>7, <2>8, <2>9 DEF granted, g, sizes, hp, result
<1>8. CASE ~(~no_truncate /\ sizes[raw] - size > HEADER)
  <2>1. g = taken
    BY <1>5, <1>8 DEF g
  <2>2. ToSet(list) \cap (used \cup {raw}) = {} /\ DOMAIN sizes = ToSet(list) \cup (used \cup {raw})
    BY <1>1, <1>2, <1>4
  <2>3. sound(g, used \cup {raw})
    BY <1>2, <1>3, <1>4, <1>6, <2>1, <2>2 DEF sound
  <2>4. ~no_truncate => sizes[raw] - size <= HEADER
    BY <1>1, <1>8
  <2> QED
    BY <1>1, <1>4, <1>5, <1>6, <2>1, <2>3, <2>4 DEF granted, g, sizes, hp, result
<1> QED
  BY <1>7, <1>8

LEMMA CutFromRest ==
    ASSUME NEW h, NEW used, sound(h, used), no_truncate \in BOOLEAN,
           NEW size \in Nat \ {0}, heapSize - h.hp >= size + HEADER
    PROVE  granted(h, used, size, fromRest(h, size))
<1> DEFINE sizes == h.get_size
           hp == h.hp
           list == h.free_list
           u == with(sizes, hp, size)
           result == fromRest(h, size)
           g == result.heap
<1>1. result.ptr = hp /\ g = [hp |-> hp + size + HEADER, free_list |-> list, get_size |-> u]
  BY DEF fromRest
<1>2. /\ list \in Seq(Nat) /\ IsInjective(list) /\ ToSet(list) \cap used = {}
      /\ DOMAIN sizes = ToSet(list) \cup used /\ tiled(sizes, hp)
  BY DEF sound
<1>3. u = with(sizes, hp, size)
  OBVIOUS
<1> HIDE DEF u, sizes, hp, list, result, g
<1>4. /\ tiled(u, hp + size + HEADER) /\ DOMAIN u = DOMAIN sizes \cup {hp}
      /\ hp \notin DOMAIN sizes /\ hp \in Nat /\ u[hp] = size
      /\ \A p \in DOMAIN sizes : u[p] = sizes[p]
  <2>1. tiled(u, hp + size + HEADER) /\ cut(u, sizes, hp, size)
    BY <1>2, <1>3, TopCut
  <2> QED
    BY <2>1 DEF cut
<1>5. g.hp = hp + size + HEADER /\ g.free_list = list /\ g.get_size = u
  BY <1>1
<1>6. sound(g, used \cup {hp})
  <2>1. ToSet(list) \cap (used \cup {hp}) = {} /\ DOMAIN u = ToSet(list) \cup (used \cup {hp})
    BY <1>2, <1>4
  <2> QED
    BY <1>1, <1>2, <1>4, <1>5, <2>1 DEF sound
<1>7. g.hp <= heapSize /\ HEADER \in Nat \ {0}
  BY <1>4, <1>5, TinyHeapAssumption DEF hp
<1>8. u[hp] >= size /\ u[hp] - size <= HEADER
  BY <1>4, <1>7
<1>9. \A p \in used : u[p] = sizes[p]
  BY <1>2, <1>4
<1> QED
  BY <1>1, <1>2, <1>4, <1>5, <1>6, <1>7, <1>8, <1>9 DEF granted, g, sizes, hp, result

LEMMA Allocate ==
    ASSUME NEW h, NEW used, sound(h, used), h.hp <= heapSize, policy \in Policies,
           no_truncate \in BOOLEAN, NEW size \in Sizes, NEW result, result = allocate(h, size)
    PROVE  /\ result.ptr # nullptr => granted(h, used, size, result)
           /\ result.ptr = nullptr =>
                /\ heapSize - h.hp < size + HEADER
                /\ tooSmall(h, size)
<1> DEFINE i == picked(h, size)
<1>1. size \in Nat \ {0} /\ heapSize \in Nat /\ h.hp \in Nat /\ HEADER \in Nat
  BY TinyHeapAssumption DEF sound, tiled
<1>2. i \in 0..Len(h.free_list) /\ (i = 0 \/ sizeAt(h, i) < size => tooSmall(h, size))
  BY <1>1, Picked
<1>3. result = IF i # 0 /\ sizeAt(h, i) >= size THEN fromFreeList(h, i, size)
               ELSE IF heapSize - h.hp >= size + HEADER THEN fromRest(h, size)
               ELSE [ptr |-> nullptr, heap |-> h]
  BY DEF allocate
<1> HIDE DEF i
<1>4. Len(h.free_list) \in Nat
  BY DEF sound
<1>5. i # 0 => sizeAt(h, i) \in Nat
  <2>1. i # 0 => i \in 1..Len(h.free_list)
    BY <1>2, <1>4
  <2> QED
    BY <2>1, SizesOfFree
<1>6. CASE i # 0 /\ sizeAt(h, i) >= size
  <2>1. i \in 1..Len(h.free_list)
    BY <1>2, <1>4, <1>6
  <2>2. granted(h, used, size, fromFreeList(h, i, size))
    BY <1>1, <1>6, <2>1, TakenFromFree
  <2>3. granted(h, used, size, result)
    BY <1>3, <1>6, <2>2
  <2> QED
    BY <2>3 DEF granted, nullptr
<1>7. CASE ~(i # 0 /\ sizeAt(h, i) >= size) /\ heapSize - h.hp >= size + HEADER
  <2>1. granted(h, used, size, fromRest(h, size))
    BY <1>1, <1>7, CutFromRest
  <2>2. granted(h, used, size, result)
    BY <1>3, <1>7, <2>1
  <2> QED
    BY <2>2 DEF granted, nullptr
<1>8. CASE ~(i # 0 /\ sizeAt(h, i) >= size) /\ ~(heapSize - h.hp >= size + HEADER)
  <2>1. result.ptr = nullptr
    BY <1>3, <1>8
  <2>2. heapSize - h.hp < size + HEADER
    BY <1>1, <1>8
  <2>3. tooSmall(h, size)
    BY <1>1, <1>2, <1>5, <1>8
  <2> QED
    BY <2>1, <2>2, <2>3
<1> QED
  BY <1>6, <1>7, <1>8

-----------------------------------------------------------------------------
(***************************************************************************)
(* After a compress that did not help there is no room.                    *)
(***************************************************************************)
LEMMA SpaceAround ==
    ASSUME NEW sizes, NEW hp, tiled(sizes, hp), NEW a \in Nat, a < hp
    PROVE  \E p \in DOMAIN sizes : p <= a /\ a < spaceEnd(sizes, p)
<1> DEFINE below == {p \in DOMAIN sizes : p <= a}
           gaps == {a - p : p \in below}
<1>1. hp \in Nat /\ 0 \in below
  BY DEF tiled
<1>2. \A p \in DOMAIN sizes : p \in Nat /\ p < spaceEnd(sizes, p) /\ spaceEnd(sizes, p) \in Nat
  BY Spaces
<1>3. PICK x \in gaps : \A y \in gaps : x <= y
  <2>1. gaps \in SUBSET Nat /\ gaps # {}
    BY <1>1, <1>2
  <2> HIDE DEF gaps
  <2> QED
    BY <2>1, LeastNumber
<1>4. PICK p \in below : x = a - p
  OBVIOUS
<1>5. \A q \in below : q <= p
  <2> SUFFICES ASSUME NEW q \in below PROVE q <= p
    OBVIOUS
  <2>1. a - q \in gaps /\ q \in Nat /\ p \in Nat
    BY <1>2
  <2>2. a - p <= a - q
    BY <1>3, <1>4, <2>1
  <2> QED
    BY <2>1, <2>2
<1>6. a < spaceEnd(sizes, p)
  <2>1. spaceEnd(sizes, p) = hp \/ spaceEnd(sizes, p) \in DOMAIN sizes
    BY DEF tiled
  <2>2. ASSUME spaceEnd(sizes, p) <= a
        PROVE  FALSE
    <3>1. spaceEnd(sizes, p) \in below
      BY <1>1, <1>2, <2>1, <2>2
    <3>2. p \in Nat /\ p < spaceEnd(sizes, p) /\ spaceEnd(sizes, p) \in Nat
      BY <1>2
    <3> QED
      BY <1>5, <3>1, <3>2
  <2>3. spaceEnd(sizes, p) \in Nat
    BY <1>2
  <2> QED
    BY <2>2, <2>3
<1> QED
  BY <1>6

LEMMA NoRoom ==
    ASSUME NEW c, NEW used, sound(c, used), compacted(c), NEW size \in Sizes,
           heapSize - c.hp < size + HEADER, \A p \in ToSet(c.free_list) : c.get_size[p] < size,
           NEW a \in 0..(heapSize - size - HEADER),
           \A p \in used : spaceEnd(c.get_size, p) <= a \/ a + size + HEADER <= p
    PROVE  FALSE
<1> DEFINE sizes == c.get_size
           hp == c.hp
           list == c.free_list
<1>1. /\ tiled(sizes, hp) /\ DOMAIN sizes = ToSet(list) \cup used /\ list \in Seq(Nat)
      /\ apart(list, sizes) /\ \A p \in ToSet(list) : spaceEnd(sizes, p) < hp
      /\ heapSize - hp < size + HEADER /\ \A p \in ToSet(list) : sizes[p] < size
      /\ \A p \in used : spaceEnd(sizes, p) <= a \/ a + size + HEADER <= p
  BY DEF sound, compacted
<1> HIDE DEF sizes, hp, list
<1>2. /\ size \in Nat /\ HEADER \in Nat /\ heapSize \in Nat /\ hp \in Nat /\ a \in Nat /\ a < hp
  BY <1>1, TinyHeapAssumption DEF tiled
<1>3. PICK p \in DOMAIN sizes : p <= a /\ a < spaceEnd(sizes, p)
  BY <1>1, <1>2, SpaceAround
<1>4. \A q \in DOMAIN sizes : q \in Nat /\ q < spaceEnd(sizes, q) /\ spaceEnd(sizes, q) \in Nat
  BY <1>1, Spaces
<1>5. p \in ToSet(list)
  <2>1. ASSUME p \in used
        PROVE  FALSE
    <3>1. spaceEnd(sizes, p) <= a \/ a + size + HEADER <= p
      BY <1>1, <2>1
    <3>2. p \in Nat /\ spaceEnd(sizes, p) \in Nat /\ size > 0
      BY <1>4, TinyHeapAssumption
    <3> QED
      BY <1>2, <1>3, <3>1, <3>2
  <2> QED
    BY <1>1, <2>1
<1> DEFINE q == spaceEnd(sizes, p)
<1>6. q < a + size + HEADER
  <2>1. q = p + sizes[p] + HEADER /\ sizes[p] < size /\ sizes[p] \in Nat /\ p \in Nat
    BY <1>1, <1>5, Spaces DEF spaceEnd
  <2> QED
    BY <1>2, <1>3, <2>1
<1>7. q \in DOMAIN sizes
  <2>1. q < hp
    BY <1>1, <1>5
  <2>2. q = hp \/ q \in DOMAIN sizes
    BY <1>1 DEF tiled
  <2> QED
    BY <1>2, <2>1, <2>2
<1>8. CASE q \in used
  <2>1. spaceEnd(sizes, q) <= a \/ a + size + HEADER <= q
    BY <1>1, <1>8
  <2>2. q \in Nat /\ q < spaceEnd(sizes, q) /\ spaceEnd(sizes, q) \in Nat /\ a < q
    BY <1>3, <1>4, <1>7
  <2> QED
    BY <1>2, <1>6, <2>1, <2>2
<1>9. CASE q \in ToSet(list)
  <2>1. PICK i \in 1..Len(list), j \in 1..Len(list) : list[i] = p /\ list[j] = q
    BY <1>1, <1>5, <1>9 DEF ToSet
  <2>2. Len(list) \in Nat /\ p \in Nat /\ q \in Nat /\ p < q /\ q < spaceEnd(sizes, q)
        /\ spaceEnd(sizes, q) \in Nat
    BY <1>1, <1>4, <1>7
  <2>3. ~(i < j)
    <3>1. i < j => q < q
      BY <1>1, <2>1 DEF apart
    <3> QED
      BY <2>2, <3>1
  <2>4. ~(j < i)
    <3>1. j < i => spaceEnd(sizes, q) < p
      BY <1>1, <2>1 DEF apart
    <3> QED
      BY <2>2, <3>1
  <2>5. i # j
    BY <2>1, <2>2
  <2> QED
    BY <2>2, <2>3, <2>4, <2>5
<1> QED
  BY <1>1, <1>7, <1>8, <1>9

\* The head of a compacted list is the lowest free space.
LEMMA HeadIsLowest ==
    ASSUME NEW c, NEW used, sound(c, used), compacted(c), NEW p \in ToSet(c.free_list),
           p = Min(ToSet(c.free_list))
    PROVE  c.free_list # << >> /\ c.get_size[p] = sizeAt(c, 1)
<1> DEFINE list == c.free_list
           sizes == c.get_size
<1>1. /\ list \in Seq(Nat) /\ tiled(sizes, c.hp) /\ apart(list, sizes)
      /\ ToSet(list) \subseteq DOMAIN sizes
  BY DEF sound, compacted
<1>2. \A q \in DOMAIN sizes : q \in Nat /\ q < spaceEnd(sizes, q) /\ spaceEnd(sizes, q) \in Nat
  BY <1>1, Spaces
<1> HIDE DEF sizes
<1>3. /\ list # << >> /\ Len(list) \in Nat \ {0} /\ DOMAIN list = 1..Len(list)
      /\ \A i \in 1..Len(list) : list[i] \in ToSet(list)
  BY <1>1 DEF ToSet
<1> HIDE DEF list
<1>4. \A q \in ToSet(list) : list[1] <= q
  <2> SUFFICES ASSUME NEW i \in 1..Len(list) PROVE list[1] <= list[i]
    BY <1>3 DEF ToSet
  <2>1. CASE i = 1
    BY <1>1, <1>2, <1>3, <2>1
  <2>2. CASE i # 1
    <3>1. 1 \in 1..Len(list) /\ 1 < i
      BY <1>3, <2>2
    <3>2. spaceEnd(sizes, list[1]) < list[i]
      BY <1>1, <3>1 DEF apart
    <3>3. list[1] \in DOMAIN sizes /\ list[i] \in DOMAIN sizes
      BY <1>1, <1>3, <3>1
    <3> QED
      BY <1>2, <3>2, <3>3
  <2> QED
    BY <2>1, <2>2
<1>5. list[1] \in ToSet(list)
  BY <1>3
<1>6. p \in ToSet(list) /\ \A q \in ToSet(list) : p <= q
  BY <1>4, <1>5 DEF Min, list
<1>7. p = list[1]
  BY <1>1, <1>2, <1>4, <1>5, <1>6
<1> QED
  BY <1>3, <1>7 DEF sizeAt, list, sizes

-----------------------------------------------------------------------------
(***************************************************************************)
(* The inductive invariant.                                                *)
(***************************************************************************)
HeapInv ==
    /\ policy \in Policies /\ no_truncate \in BOOLEAN
    /\ heap.hp <= heapSize /\ sound(heap, DOMAIN asked)
    /\ \A p \in DOMAIN asked : asked[p] \in Sizes
    /\ ChunkHoldsRequest
    /\ refused \in Sizes \cup {0}
    /\ BadAllocOnlyWhenFull

ChunksKept ==
    \A p \in DOMAIN asked \cap DOMAIN asked' :
        asked'[p] = asked[p] /\ heap'.get_size[p] = heap.get_size[p]

LEMMA InitHeap == Init => HeapInv
<1> SUFFICES ASSUME Init PROVE HeapInv
  OBVIOUS
<1>1. /\ policy \in Policies /\ no_truncate \in BOOLEAN /\ refused = 0
      /\ heap = [hp |-> 0, free_list |-> << >>, get_size |-> << >>] /\ asked = << >>
  BY DEF Init
<1>2. heap.hp = 0 /\ heap.free_list = << >> /\ heap.get_size = << >>
  BY <1>1
<1>3. DOMAIN << >> = {} /\ ToSet(<< >>) = {} /\ IsInjective(<< >>) /\ << >> \in Seq(Nat)
  BY DEF ToSet, IsInjective
<1>4. tiled(<< >>, 0)
  <2>1. << >> = [p \in {} |-> << >>[p]]
    OBVIOUS
  <2> QED
    BY <1>3, <2>1 DEF tiled
<1>5. sound(heap, DOMAIN asked)
  BY <1>1, <1>2, <1>3, <1>4 DEF sound
<1>6. heap.hp <= heapSize
  BY <1>2, TinyHeapAssumption
<1> QED
  BY <1>1, <1>2, <1>3, <1>5, <1>6 DEF HeapInv, ChunkHoldsRequest, BadAllocOnlyWhenFull

\* malloc returns what allocate has found in h: the heap, compressed or not.
LEMMA Returns ==
    ASSUME HeapInv, NEW size \in Sizes, NEW h, sound(h, DOMAIN asked), h.hp <= heapSize,
           \A p \in DOMAIN asked : h.get_size[p] = heap.get_size[p],
           returns(allocate(h, size), size)
    PROVE  HeapInv' /\ ChunksKept
<1> DEFINE result == allocate(h, size)
           used == DOMAIN asked
           raw == result.ptr
<1>1. /\ raw # nullptr /\ heap' = result.heap /\ asked' = with(asked, raw, size) /\ refused' = 0
      /\ policy' = policy /\ no_truncate' = no_truncate
  BY DEF returns
<1>2. policy \in Policies /\ no_truncate \in BOOLEAN
  BY DEF HeapInv
<1>3. granted(h, used, size, result)
  BY <1>1, <1>2, Allocate
<1>4. /\ raw \notin used /\ sound(heap', used \cup {raw}) /\ heap'.hp <= heapSize
      /\ \A p \in used : heap'.get_size[p] = heap.get_size[p]
      /\ heap'.get_size[raw] >= size
      /\ ~no_truncate => heap'.get_size[raw] - size <= HEADER
  BY <1>1, <1>3 DEF granted
<1> HIDE DEF result, raw
<1>5. /\ DOMAIN asked' = used \cup {raw} /\ asked'[raw] = size
      /\ \A p \in used : asked'[p] = asked[p]
  BY <1>1, <1>4 DEF with
<1>6. ChunksKept
  BY <1>4, <1>5 DEF ChunksKept
<1>7. ChunkHoldsRequest'
  <2>1. ASSUME NEW p \in DOMAIN asked'
        PROVE  /\ heap'.get_size[p] >= asked'[p]
               /\ ~no_truncate' => heap'.get_size[p] - asked'[p] <= HEADER
    <3>1. CASE p = raw
      BY <1>1, <1>4, <1>5, <3>1
    <3>2. CASE p \in used
      BY <1>1, <1>4, <1>5, <3>2 DEF HeapInv, ChunkHoldsRequest
    <3> QED
      BY <1>5, <3>1, <3>2
  <2> QED
    BY <2>1 DEF ChunkHoldsRequest
<1>8. \A p \in DOMAIN asked' : asked'[p] \in Sizes
  BY <1>5 DEF HeapInv
<1>9. BadAllocOnlyWhenFull'
  BY <1>1 DEF BadAllocOnlyWhenFull
<1> QED
  BY <1>1, <1>2, <1>4, <1>5, <1>6, <1>7, <1>8, <1>9 DEF HeapInv

LEMMA Fails ==
    ASSUME HeapInv, NEW size \in Sizes, MallocFails(size)
    PROVE  HeapInv' /\ ChunksKept
<1> DEFINE c == compress(heap)
           used == DOMAIN asked
<1>1. /\ heap' = c /\ refused' = size /\ policy' = policy /\ no_truncate' = no_truncate
      /\ asked' = asked /\ allocate(c, size).ptr = nullptr
  BY DEF MallocFails
<1>2. policy \in Policies /\ no_truncate \in BOOLEAN /\ sound(heap, used) /\ heap.hp <= heapSize
      /\ heapSize \in Nat /\ heap.hp \in Nat
  BY TinyHeapAssumption DEF HeapInv, sound, tiled
<1>3. /\ sound(c, used) /\ compacted(c) /\ c.hp <= heap.hp
      /\ \A p \in used : c.get_size[p] = heap.get_size[p]
  BY <1>2, Compress
<1> HIDE DEF c
<1>4. c.hp <= heapSize
  <2>1. c.hp \in Nat
    BY <1>3 DEF sound, tiled
  <2> QED
    BY <1>2, <1>3, <2>1
<1>5. heapSize - c.hp < size + HEADER /\ tooSmall(c, size)
  BY <1>1, <1>2, <1>3, <1>4, Allocate
<1>6. ChunksKept
  BY <1>1, <1>3 DEF ChunksKept
<1>7. ChunkHoldsRequest'
  BY <1>1, <1>3 DEF HeapInv, ChunkHoldsRequest
<1>8. BadAllocOnlyWhenFull'
  <2>1. CASE policy # "best_fit"
    <3>1. \A p \in ToSet(c.free_list) : c.get_size[p] < size
      BY <1>5, <2>1 DEF tooSmall
    <3>2. ~ \E a \in 0..(heapSize - size - HEADER) :
               \A p \in used : spaceEnd(c.get_size, p) <= a \/ a + size + HEADER <= p
      BY <1>3, <1>5, <3>1, NoRoom
    <3>3. ~roomFor(size)'
      BY <1>1, <3>2 DEF roomFor, end
    <3> QED
      BY <1>1, <2>1, <3>3 DEF BadAllocOnlyWhenFull
  <2>2. CASE policy = "best_fit"
    <3>1. ASSUME ToSet(c.free_list) # {}
          PROVE  c.get_size[Min(ToSet(c.free_list))] < size
      <4> DEFINE S == ToSet(c.free_list)
                 p == Min(S)
      <4>1. S \in SUBSET Nat /\ S # {}
        BY <1>3, <3>1 DEF sound, tiled
      <4>2. p \in S
        <5> HIDE DEF S
        <5>1. \E x \in S : \A y \in S : x <= y
          BY <4>1, LeastNumber
        <5> QED
          BY <5>1 DEF Min
      <4>3. p = Min(ToSet(c.free_list))
        OBVIOUS
      <4> HIDE DEF p
      <4>4. c.free_list # << >> /\ c.get_size[p] = sizeAt(c, 1)
        BY <1>3, <4>2, <4>3, HeadIsLowest
      <4>5. sizeAt(c, 1) < size
        BY <1>5, <2>2, <4>4 DEF tooSmall
      <4> QED
        BY <4>3, <4>4, <4>5
    <3> QED
      BY <1>1, <1>5, <2>2, <3>1 DEF BadAllocOnlyWhenFull, freeSpaces
  <2> QED
    BY <2>1, <2>2
<1> QED
  BY <1>1, <1>2, <1>3, <1>4, <1>6, <1>7, <1>8 DEF HeapInv

LEMMA Freed ==
    ASSUME HeapInv, NEW raw \in DOMAIN asked, Free(raw)
    PROVE  HeapInv' /\ ChunksKept
<1> DEFINE used == DOMAIN asked
           list == heap.free_list
           sizes == heap.get_size
           hp == heap.hp
           new == Append(list, raw)
<1>1. /\ heap' = [heap EXCEPT !.free_list = new] /\ asked' = without(asked, raw) /\ refused' = 0
      /\ policy' = policy /\ no_truncate' = no_truncate
  BY DEF Free
<1>2. /\ heap = [hp |-> hp, free_list |-> list, get_size |-> sizes]
      /\ list \in Seq(Nat) /\ IsInjective(list) /\ ToSet(list) \cap used = {}
      /\ DOMAIN sizes = ToSet(list) \cup used /\ tiled(sizes, hp)
  BY DEF HeapInv, sound
<1>3. raw \in Nat
  BY <1>2 DEF tiled
<1>4. new \in Seq(Nat) /\ ToSet(new) = ToSet(list) \cup {raw} /\ IsInjective(new)
  BY <1>2, <1>3, AppendElements
<1> HIDE DEF list, sizes, hp, new
<1>5. heap' = [hp |-> hp, free_list |-> new, get_size |-> sizes]
  BY <1>1, <1>2
<1>6. heap'.hp = hp /\ heap'.free_list = new /\ heap'.get_size = sizes
  BY <1>5
<1>7. DOMAIN asked' = used \ {raw} /\ \A p \in DOMAIN asked' : p \in used /\ asked'[p] = asked[p]
  BY <1>1 DEF without
<1>8. sound(heap', DOMAIN asked')
  <2>1. ToSet(new) \cap (used \ {raw}) = {} /\ DOMAIN sizes = ToSet(new) \cup (used \ {raw})
    BY <1>2, <1>4
  <2> QED
    BY <1>2, <1>4, <1>5, <1>6, <1>7, <2>1 DEF sound
<1>9. ChunksKept
  BY <1>6, <1>7 DEF ChunksKept, sizes
<1>10. ChunkHoldsRequest'
  BY <1>1, <1>6, <1>7 DEF HeapInv, ChunkHoldsRequest, sizes
<1>11. BadAllocOnlyWhenFull'
  BY <1>1 DEF BadAllocOnlyWhenFull
<1>12. heap'.hp <= heapSize
  BY <1>6 DEF HeapInv, hp
<1>13. \A p \in DOMAIN asked' : asked'[p] \in Sizes
  BY <1>7 DEF HeapInv
<1> QED
  BY <1>1, <1>8, <1>9, <1>10, <1>11, <1>12, <1>13 DEF HeapInv

LEMMA StepKeepsHeap == HeapInv /\ [Next]_vars => HeapInv' /\ (ChunksKept \/ UNCHANGED vars)
<1> SUFFICES ASSUME HeapInv, [Next]_vars
             PROVE  HeapInv' /\ (ChunksKept \/ UNCHANGED vars)
  OBVIOUS
<1>1. sound(heap, DOMAIN asked) /\ heap.hp <= heapSize /\ heapSize \in Nat /\ heap.hp \in Nat
  BY TinyHeapAssumption DEF HeapInv, sound, tiled
<1>2. ASSUME NEW size \in Sizes, MallocAtOnce(size)
      PROVE  HeapInv' /\ ChunksKept
  BY <1>1, <1>2, Returns DEF MallocAtOnce
<1>3. ASSUME NEW size \in Sizes, MallocCompressed(size)
      PROVE  HeapInv' /\ ChunksKept
  <2> DEFINE c == compress(heap)
  <2>1. returns(allocate(c, size), size)
    BY <1>3 DEF MallocCompressed
  <2>2. /\ sound(c, DOMAIN asked) /\ c.hp <= heap.hp
        /\ \A p \in DOMAIN asked : c.get_size[p] = heap.get_size[p]
    <3> DEFINE used == DOMAIN asked
    <3>1. c = compress(heap) /\ sound(heap, used)
      BY <1>1
    <3> HIDE DEF c, used
    <3>2. /\ sound(c, used) /\ c.hp <= heap.hp
          /\ \A p \in used : c.get_size[p] = heap.get_size[p]
      BY <3>1, Compress
    <3> QED
      BY <3>2 DEF used
  <2> HIDE DEF c
  <2>3. c.hp <= heapSize
    <3>1. c.hp \in Nat
      BY <2>2 DEF sound, tiled
    <3> QED
      BY <1>1, <2>2, <3>1
  <2> QED
    BY <2>1, <2>2, <2>3, Returns
<1>4. CASE UNCHANGED vars
  <2>1. /\ heap' = heap /\ asked' = asked /\ refused' = refused /\ policy' = policy
        /\ no_truncate' = no_truncate
    BY <1>4 DEF vars
  <2>2. ChunkHoldsRequest' /\ BadAllocOnlyWhenFull'
    BY <2>1 DEF HeapInv, ChunkHoldsRequest, BadAllocOnlyWhenFull, roomFor, freeSpaces, end
  <2> QED
    BY <1>4, <2>1, <2>2 DEF HeapInv
<1> QED
  BY <1>2, <1>3, <1>4, Fails, Freed DEF Next

LEMMA HeapInvariant == Spec => []HeapInv
BY InitHeap, StepKeepsHeap, PTL DEF Spec

LEMMA InvTiles == HeapInv => SpacesTile
<1> SUFFICES ASSUME HeapInv PROVE SpacesTile
  OBVIOUS
<1> DEFINE sizes == heap.get_size
           hp == heap.hp
<1>1. tiled(sizes, hp)
  BY DEF HeapInv, sound
<1>2. \A p \in DOMAIN sizes : spaceEnd(sizes, p) \in Nat /\ spaceEnd(sizes, p) <= hp /\ p \in Nat
                              /\ p < spaceEnd(sizes, p)
  BY <1>1, Spaces
<1>3. DOMAIN sizes = {} <=> hp = 0
  BY <1>1, <1>2 DEF tiled
<1>4. DOMAIN sizes # {} => 0 \in DOMAIN sizes
  BY <1>1, <1>3 DEF tiled
<1> QED
  BY <1>1, <1>3, <1>4 DEF SpacesTile, end, tiled

LEMMA InvTypes == HeapInv => TypeOK
<1> SUFFICES ASSUME HeapInv PROVE TypeOK
  OBVIOUS
<1> DEFINE sizes == heap.get_size
           hp == heap.hp
<1>1. /\ tiled(sizes, hp) /\ hp <= heapSize /\ heapSize \in Nat /\ HEADER \in Nat \ {0}
  BY TinyHeapAssumption DEF HeapInv, sound
<1>2. hp \in 0..heapSize
  BY <1>1 DEF tiled
<1>3. ASSUME NEW p \in DOMAIN sizes
      PROVE  p \in 0..(heapSize - 1) /\ sizes[p] \in 1..heapSize
  <2>1. p \in Nat /\ sizes[p] \in Nat \ {0} /\ hp \in Nat /\ spaceEnd(sizes, p) <= hp
    BY <1>1, Spaces
  <2> HIDE DEF sizes, hp
  <2> QED
    BY <1>1, <2>1 DEF spaceEnd
<1> QED
  BY <1>2, <1>3 DEF HeapInv, sound, TypeOK, freeSpaces

-----------------------------------------------------------------------------
(***************************************************************************)
(* The heap is what its type says: a space has one header below heapSize,  *)
(* is listed once when it is free and not at all when a user holds it,     *)
(* under every policy, with and without truncation.                        *)
(***************************************************************************)
THEOREM TinyHeapTyped == Spec => []TypeOK
BY HeapInvariant, InvTypes, PTL

(***************************************************************************)
(* malloc, truncation, free and compress lose no byte below hp and give    *)
(* none to two spaces.                                                     *)
(***************************************************************************)
THEOREM SpacesAlwaysTile == Spec => []SpacesTile
BY HeapInvariant, InvTiles, PTL

(***************************************************************************)
(* What malloc returns has room for what was asked, as long as the user    *)
(* holds it, and with truncation no more than a header to spare.           *)
(***************************************************************************)
THEOREM ChunksAreLargeEnough == Spec => []ChunkHoldsRequest
<1>1. HeapInv => ChunkHoldsRequest
  BY DEF HeapInv
<1> QED
  BY <1>1, HeapInvariant, PTL

(***************************************************************************)
(* "Bad alloc" is said only when no gap between the chunks in use could    *)
(* hold the request, or by best_fit because the head of its list cannot:   *)
(* compress, run on any list and any tiling, merges all there is to merge. *)
(***************************************************************************)
THEOREM RefusedOnlyWhenFull == Spec => []BadAllocOnlyWhenFull
<1>1. HeapInv => BadAllocOnlyWhenFull
  BY DEF HeapInv
<1> QED
  BY <1>1, HeapInvariant, PTL

(***************************************************************************)
(* No call changes the header of a chunk that another call has handed out. *)
(***************************************************************************)
THEOREM HandedOutStays == Spec => ChunksKeepTheirSpace
<1>1. HeapInv /\ [Next]_vars => [ChunksKept]_vars
  BY StepKeepsHeap
<1>2. Spec => [][ChunksKept]_vars
  BY <1>1, HeapInvariant, PTL DEF Spec
<1> QED
  BY <1>2 DEF ChunksKeepTheirSpace, ChunksKept

-----------------------------------------------------------------------------
Word == 0..(W - 1)

(***************************************************************************)
(* The instruction set.                                                    *)
(***************************************************************************)
LEMMA Opcodes ==
    /\ DOMAIN tisc = 1..14
    /\ \A op \in 1..14 : tisc[op] = instruction(tisc[op].name, tisc[op].width, tisc[op].args)
    /\ tisc[1] = instruction("int", 1, 1)
    /\ tisc[2] = instruction("jmp", 2, 2) /\ tisc[3] = instruction("jmp_if", 2, 2)
    /\ tisc[4] = instruction("pop", 0, 0)
    /\ tisc[5] = instruction("push", 1, 1) /\ tisc[6] = instruction("push", 2, 2)
    /\ tisc[7] = instruction("add", 1, 0) /\ tisc[8] = instruction("add", 2, 0)
    /\ tisc[9] = instruction("sub", 1, 0) /\ tisc[10] = instruction("sub", 2, 0)
    /\ tisc[11] = instruction("mul", 1, 0) /\ tisc[12] = instruction("mul", 2, 0)
    /\ tisc[13] = instruction("div", 1, 0) /\ tisc[14] = instruction("div", 2, 0)
BY DEF tisc, instruction

LEMMA InstructionSet ==
    ASSUME NEW inst \in ToSet(tisc)
    PROVE  /\ inst.args \in 0..2
           /\ inst.name = "push" => inst.width \in {1, 2} /\ inst.args = inst.width
           /\ inst.name \in arithmetic => inst.width \in {1, 2}
           /\ inst.name \in {"jmp", "jmp_if"} => inst.args = 2
           /\ inst.name = "int" => inst.args = 1
<1>1. PICK op \in 1..14 : inst = tisc[op]
  BY Opcodes DEF ToSet
<1>2. \/ op = 1 \/ op = 2 \/ op = 3 \/ op = 4 \/ op = 5 \/ op = 6 \/ op = 7
      \/ op = 8 \/ op = 9 \/ op = 10 \/ op = 11 \/ op = 12 \/ op = 13 \/ op = 14
  OBVIOUS
<1> QED
  BY <1>1, <1>2, Opcodes DEF instruction, arithmetic

LEMMA OpcodesDiffer ==
    ASSUME NEW p \in 1..14, NEW q \in 1..14, tisc[p] = tisc[q]
    PROVE  p = q
<1>1. \A op \in 1..14 :
         \/ op = 1 \/ op = 2 \/ op = 3 \/ op = 4 \/ op = 5 \/ op = 6 \/ op = 7
         \/ op = 8 \/ op = 9 \/ op = 10 \/ op = 11 \/ op = 12 \/ op = 13 \/ op = 14
  OBVIOUS
<1> QED
  BY <1>1, Opcodes DEF instruction

-----------------------------------------------------------------------------
(***************************************************************************)
(* Numbers and their words.                                                *)
(***************************************************************************)
LEMMA Words ==
    ASSUME NEW a \in Word, NEW b \in Word
    PROVE  /\ a + W * b \in 0..(W * W - 1)
           /\ (a + W * b) % W = a /\ (a + W * b) \div W = b
<1>1. W \in Nat /\ W > 0 /\ W * W \in Nat
  BY WordAssumption
<1>2. a \in Nat /\ b \in Nat /\ a < W /\ b <= W - 1
  BY <1>1 DEF Word
<1>3. W * b <= W * W - W /\ W * b \in Nat
  <2>1. W * b <= W * (W - 1)
    BY <1>1, <1>2
  <2>2. W * (W - 1) = W * W - W
    BY <1>1
  <2> QED
    BY <1>1, <1>2, <2>1, <2>2
<1>4. a + W * b \in 0..(W * W - 1)
  BY <1>1, <1>2, <1>3
<1>5. (a + W * b) % W = a /\ (a + W * b) \div W = b
  BY <1>1, <1>2
<1> QED
  BY <1>4, <1>5

LEMMA Split ==
    ASSUME NEW v \in 0..(W * W - 1)
    PROVE  v % W \in Word /\ v \div W \in Word
<1>1. W \in Nat /\ W > 0
  BY WordAssumption
<1>2. v % W \in Word
  BY <1>1 DEF Word
<1>3. v \div W \in Word
  BY <1>1 DEF Word
<1> QED
  BY <1>2, <1>3

LEMMA WordsOfNumber ==
    ASSUME NEW n \in {1, 2}, NEW v \in 0..(modulus(n) - 1)
    PROVE  asWords(v, n) \in [1..n -> Word] /\ Len(asWords(v, n)) = n
<1>1. CASE n = 1
  <2>1. asWords(v, n) = <<v>> /\ v \in Word
    BY <1>1 DEF asWords, modulus, Word
  <2> QED
    BY <1>1, <2>1
<1>2. CASE n = 2
  <2>1. asWords(v, n) = <<v % W, v \div W>> /\ v % W \in Word /\ v \div W \in Word
    BY <1>2, Split DEF asWords, modulus
  <2> DEFINE a == v % W
             b == v \div W
  <2> HIDE DEF a, b
  <2>2. <<a, b>> \in [1..2 -> Word] /\ Len(<<a, b>>) = 2
    BY <2>1 DEF a, b
  <2> QED
    BY <1>2, <2>1, <2>2 DEF a, b
<1> QED
  BY <1>1, <1>2

LEMMA NumberOfWords ==
    ASSUME NEW n \in {1, 2}, NEW w \in Seq(Word), Len(w) = n
    PROVE  value(w) \in 0..(modulus(n) - 1) /\ asWords(value(w), n) = w
<1>1. CASE n = 1
  <2>1. w = <<w[1]>> /\ w[1] \in Word
    BY <1>1
  <2>2. value(w) = w[1]
    BY <1>1 DEF value
  <2> QED
    BY <1>1, <2>1, <2>2 DEF modulus, asWords, Word
<1>2. CASE n = 2
  <2>1. w = <<w[1], w[2]>> /\ w[1] \in Word /\ w[2] \in Word
    BY <1>2
  <2>2. value(w) = w[1] + W * w[2] /\ modulus(n) = W * W
    BY <1>2 DEF value, modulus
  <2>3. /\ w[1] + W * w[2] \in 0..(W * W - 1)
        /\ (w[1] + W * w[2]) % W = w[1] /\ (w[1] + W * w[2]) \div W = w[2]
    BY <2>1, Words
  <2>4. asWords(value(w), n) = <<value(w) % W, value(w) \div W>>
    BY <1>2 DEF asWords
  <2> QED
    BY <2>1, <2>2, <2>3, <2>4
<1> QED
  BY <1>1, <1>2

(***************************************************************************)
(* Whatever an instruction computes fits into the words of its width.      *)
(***************************************************************************)
LEMMA Computed ==
    ASSUME NEW n \in {1, 2}, NEW name \in arithmetic,
           NEW x \in 0..(modulus(n) - 1), NEW y \in 0..(modulus(n) - 1), ~traps(name, x, y, n)
    PROVE  calculate(name, x, y, n) \in 0..(modulus(n) - 1)
<1>1. modulus(n) \in Nat /\ modulus(n) > 0
  BY WordAssumption DEF modulus
<1> DEFINE m == modulus(n)
           i == signed(x, n)
           j == signed(y, n)
<1>2. i \in Int /\ j \in Int
  BY <1>1 DEF signed
<1>3. name = "div" => j # 0
  BY <1>1 DEF traps, signed
<1>4. name = "div" => quotient(i, j) \in Int
  <2> HIDE DEF i, j
  <2>1. SUFFICES ASSUME name = "div" PROVE quotient(i, j) \in Int
    OBVIOUS
  <2>2. magnitude(i) \in Nat /\ magnitude(j) \in Nat /\ magnitude(j) > 0
    BY <1>2, <1>3, <2>1 DEF magnitude
  <2>3. magnitude(i) \div magnitude(j) \in Int
    BY <2>2
  <2> QED
    BY <2>3 DEF quotient
<1> DEFINE r == CASE name = "add" -> i + j
                  [] name = "sub" -> i - j
                  [] name = "mul" -> i * j
                  [] name = "div" -> quotient(i, j)
<1>5. calculate(name, x, y, n) = r % m
  BY DEF calculate
<1> HIDE DEF i, j
<1>6. r \in Int
  BY <1>2, <1>4 DEF arithmetic
<1> HIDE DEF r, m
<1>7. r % m \in 0..(m - 1)
  BY <1>1, <1>6 DEF m
<1> QED
  BY <1>5, <1>7 DEF m

-----------------------------------------------------------------------------
(***************************************************************************)
(* The chain of elements.  A memory, and a later one, are compared from an *)
(* address on.                                                             *)
(***************************************************************************)
Memories == [0..stackWords -> Word]

after(mem, s) == s + mem[s] + 1

agree(mem, new, s) == \A i \in s..stackWords : new[i] = mem[i]

LEMMA ChainEmpty ==
    ASSUME NEW mem
    PROVE  chained(mem, stackWords)
<1> DEFINE headers == {stackWords}
<1>1. headers \in SUBSET (stackWords..stackWords)
  BY CodesAssumption
<1> QED
  BY <1>1 DEF chained

LEMMA ChainTop ==
    ASSUME NEW mem \in Memories, NEW s \in 0..stackWords, chained(mem, s), s # stackWords
    PROVE  /\ mem[s] \in {1, 2} /\ after(mem, s) \in (s + 2)..stackWords
           /\ chained(mem, after(mem, s))
<1>1. PICK headers \in SUBSET (s..stackWords) :
         /\ {s, stackWords} \subseteq headers
         /\ \A i \in headers \ {stackWords} : mem[i] \in {1, 2} /\ i + mem[i] + 1 \in headers
  BY DEF chained
<1>2. mem[s] \in {1, 2} /\ after(mem, s) \in headers
  BY <1>1 DEF after
<1>3. after(mem, s) \in (s + 2)..stackWords
  BY <1>1, <1>2, CodesAssumption DEF after
<1>4. chained(mem, after(mem, s))
  <2> DEFINE rest == headers \cap (after(mem, s)..stackWords)
             e == after(mem, s)
  <2>1. rest \in SUBSET (e..stackWords) /\ e \in rest /\ stackWords \in rest
    BY <1>1, <1>2, <1>3, CodesAssumption
  <2>2. ASSUME NEW i \in rest \ {stackWords}
        PROVE  mem[i] \in {1, 2} /\ i + mem[i] + 1 \in rest
    <3> HIDE DEF e
    <3>1. i \in headers \ {stackWords} /\ i \in Int /\ e \in Int /\ i >= e
      BY <1>3 DEF e
    <3>2. mem[i] \in {1, 2} /\ i + mem[i] + 1 \in headers
      BY <1>1, <3>1
    <3>3. i + mem[i] + 1 \in e..stackWords
      BY <1>1, <3>1, <3>2, CodesAssumption
    <3> QED
      BY <3>2, <3>3 DEF e
  <2> HIDE DEF rest, e
  <2>3. chained(mem, e)
    BY <2>1, <2>2 DEF chained
  <2> QED
    BY <2>3 DEF e
<1> QED
  BY <1>2, <1>3, <1>4

LEMMA ChainPush ==
    ASSUME NEW mem \in Memories, NEW s \in 0..stackWords, chained(mem, s),
           NEW new \in Memories, agree(mem, new, s),
           NEW n \in {1, 2}, NEW t \in 0..stackWords, t + n + 1 = s, new[t] = n
    PROVE  chained(new, t)
<1>1. PICK headers \in SUBSET (s..stackWords) :
         /\ {s, stackWords} \subseteq headers
         /\ \A i \in headers \ {stackWords} : mem[i] \in {1, 2} /\ i + mem[i] + 1 \in headers
  BY DEF chained
<1> DEFINE more == headers \cup {t}
<1>2. more \in SUBSET (t..stackWords) /\ {t, stackWords} \subseteq more
  BY <1>1, CodesAssumption
<1>3. ASSUME NEW i \in more \ {stackWords}
      PROVE  new[i] \in {1, 2} /\ i + new[i] + 1 \in more
  <2>1. CASE i = t
    BY <1>1, <2>1
  <2>2. CASE i \in headers
    <3>1. new[i] = mem[i]
      BY <1>1, <2>2 DEF agree
    <3> QED
      BY <1>1, <1>3, <2>2, <3>1
  <2> QED
    BY <2>1, <2>2
<1> HIDE DEF more
<1> QED
  BY <1>2, <1>3 DEF chained

-----------------------------------------------------------------------------
(***************************************************************************)
(* What the stack holds from an address on: the element there, and what    *)
(* the stack holds from its end on.                                        *)
(***************************************************************************)
elementAt(mem, s) == [j \in 1..mem[s] |-> mem[s + j]]

Contents == Seq(Seq(Word))

contentsFrom(mem, s, f) ==
    IF after(mem, s) <= stackWords THEN <<elementAt(mem, s)>> \o f[after(mem, s)] ELSE << >>

LEMMA ElementTyped ==
    ASSUME NEW mem \in Memories, NEW s \in 0..stackWords, after(mem, s) <= stackWords
    PROVE  /\ after(mem, s) \in (s + 1)..stackWords
           /\ elementAt(mem, s) \in Seq(Word) /\ Len(elementAt(mem, s)) = mem[s]
           /\ <<elementAt(mem, s)>> \in Contents
<1>1. mem[s] \in Word /\ mem[s] \in Nat /\ stackWords \in Nat
  BY CodesAssumption, WordAssumption DEF Memories, Word
<1>2. after(mem, s) \in (s + 1)..stackWords
  BY <1>1 DEF after
<1>3. ASSUME NEW j \in 1..mem[s]
      PROVE  mem[s + j] \in Word
  <2>1. s + j \in 0..stackWords
    BY <1>1, <1>2 DEF after
  <2> QED
    BY <2>1 DEF Memories
<1>4. elementAt(mem, s) \in [1..mem[s] -> Word]
  BY <1>3 DEF elementAt
<1>5. elementAt(mem, s) \in Seq(Word) /\ Len(elementAt(mem, s)) = mem[s]
  BY <1>1, <1>4
<1> DEFINE e == elementAt(mem, s)
<1> HIDE DEF e
<1>6. e \in Seq(Word)
  BY <1>5 DEF e
<1>7. <<e>> \in Contents
  BY <1>6 DEF Contents
<1> QED
  BY <1>2, <1>5, <1>7 DEF e

LEMMA ContentsExist ==
    ASSUME NEW mem \in Memories
    PROVE  \E f \in [0..stackWords -> Contents] :
              \A s \in 0..stackWords : f[s] = contentsFrom(mem, s, f)
<1> DEFINE K == stackWords
           step(m, h) == IF after(mem, K - m) <= K
                         THEN <<elementAt(mem, K - m)>> \o h[K - after(mem, K - m)] ELSE << >>
           F == [m \in 0..K |-> [h \in [0..(m - 1) -> Contents] |-> step(m, h)]]
<1>1. K \in Nat
  BY CodesAssumption
<1>2. ASSUME NEW m \in 0..K, NEW h \in [0..(m - 1) -> Contents]
      PROVE  F[m][h] = step(m, h) /\ step(m, h) \in Contents
  <2>1. F[m][h] = step(m, h)
    OBVIOUS
  <2>2. ASSUME after(mem, K - m) <= K
        PROVE  step(m, h) \in Contents
    <3>1. K - m \in 0..K
      BY <1>1
    <3>2. /\ after(mem, K - m) \in ((K - m) + 1)..K
          /\ <<elementAt(mem, K - m)>> \in Contents
      BY <2>2, <3>1, ElementTyped
    <3>3. K - after(mem, K - m) \in 0..(m - 1)
      BY <1>1, <3>2
    <3> DEFINE x == <<elementAt(mem, K - m)>>
               y == h[K - after(mem, K - m)]
    <3>4. x \in Contents /\ y \in Contents
      BY <3>2, <3>3
    <3> HIDE DEF x, y
    <3>5. x \o y \in Contents
      BY <3>4 DEF Contents
    <3> QED
      BY <2>2, <3>5 DEF x, y
  <2>3. << >> \in Contents
    BY DEF Contents
  <2> QED
    BY <2>1, <2>2, <2>3
<1>3. tablesWithin(K, Contents, F)
  <2> HIDE DEF F, K, step
  <2> QED
    BY <1>2 DEF tablesWithin
<1>4. PICK g : isTabulated(g, K, Contents, F)
  <2> HIDE DEF F, K
  <2> QED
    BY <1>1, <1>3, Tabulation DEF tableExists
<1>5. /\ g \in [0..K -> Contents]
      /\ \A m \in 0..K : g[m] = F[m][valuesBefore(g, m)]
  BY <1>4 DEF isTabulated
<1> DEFINE f == [s \in 0..K |-> g[K - s]]
<1>6. f \in [0..K -> Contents]
  BY <1>1, <1>5
<1>7. ASSUME NEW s \in 0..K
      PROVE  f[s] = contentsFrom(mem, s, f)
  <2> DEFINE m == K - s
             h == valuesBefore(g, m)
  <2>1. m \in 0..K /\ K - m = s
    BY <1>1
  <2>2. h \in [0..(m - 1) -> Contents]
    BY <1>1, <1>5, <2>1 DEF valuesBefore
  <2>3. f[s] = step(m, h)
    <3>1. f[s] = g[m]
      OBVIOUS
    <3>2. g[m] = F[m][h]
      BY <1>5, <2>1
    <3> HIDE DEF f, m, h, step, F
    <3> QED
      BY <1>2, <2>1, <2>2, <3>1, <3>2
  <2>4. CASE after(mem, s) <= K
    <3>1. after(mem, s) \in (s + 1)..K
      BY <2>4, ElementTyped
    <3>2. K - after(mem, s) \in 0..(m - 1) /\ after(mem, s) \in 0..K
      BY <1>1, <3>1
    <3>3. h[K - after(mem, s)] = g[K - after(mem, s)] /\ f[after(mem, s)] = g[K - after(mem, s)]
      BY <3>2 DEF valuesBefore
    <3>4. step(m, h) = <<elementAt(mem, s)>> \o h[K - after(mem, s)]
      BY <2>1, <2>4
    <3> HIDE DEF f, step, m, h
    <3> QED
      BY <2>3, <2>4, <3>3, <3>4 DEF contentsFrom
  <2>5. CASE ~(after(mem, s) <= K)
    <3>1. step(m, h) = << >>
      BY <2>1, <2>5
    <3> HIDE DEF f, step, m, h
    <3> QED
      BY <2>3, <2>5, <3>1 DEF contentsFrom
  <2> QED
    BY <2>4, <2>5
<1> HIDE DEF f
<1> QED
  BY <1>6, <1>7

LEMMA ContentsIs ==
    ASSUME NEW mem \in Memories
    PROVE  \E f \in [0..stackWords -> Contents] :
              /\ \A s \in 0..stackWords : f[s] = contentsFrom(mem, s, f)
              /\ \A s : contents(mem, s) = f[s]
<1> DEFINE Def(f) == f = [i \in 0..stackWords |->
                             LET n == i + mem[i] + 1 IN
                             IF n <= stackWords
                             THEN <<[j \in 1..mem[i] |-> mem[i + j]]>> \o f[n] ELSE << >>]
           f == CHOOSE f : Def(f)
<1>1. \A s : contents(mem, s) = f[s]
  BY DEF contents
<1>2. PICK g \in [0..stackWords -> Contents] :
         \A s \in 0..stackWords : g[s] = contentsFrom(mem, s, g)
  BY ContentsExist
<1>3. Def(g)
  <2>1. \A s \in 0..stackWords : g[s] = LET n == s + mem[s] + 1 IN
                             IF n <= stackWords
                             THEN <<[j \in 1..mem[s] |-> mem[s + j]]>> \o g[n] ELSE << >>
    BY <1>2 DEF contentsFrom, after, elementAt
  <2> QED
    BY <1>2, <2>1
<1>4. Def(f)
  <2> HIDE DEF Def
  <2> QED
    BY <1>3
<1> HIDE DEF f
<1>5. DOMAIN f = 0..stackWords /\ \A s \in 0..stackWords : f[s] = contentsFrom(mem, s, f)
  BY <1>4 DEF contentsFrom, after, elementAt
<1> HIDE DEF Def
<1> DEFINE S == {m \in Nat : m <= stackWords => \A s \in (stackWords - m)..stackWords : f[s] \in Contents}
<1>6. ASSUME NEW s \in 0..stackWords,
             \A t \in (s + 1)..stackWords : f[t] \in Contents
      PROVE  f[s] \in Contents
  <2>1. CASE after(mem, s) <= stackWords
    <3>1. after(mem, s) \in (s + 1)..stackWords /\ <<elementAt(mem, s)>> \in Contents
      BY <2>1, ElementTyped
    <3> DEFINE x == <<elementAt(mem, s)>>
               y == f[after(mem, s)]
    <3>2. x \in Contents /\ y \in Contents
      BY <1>6, <3>1
    <3>3. f[s] = x \o y
      BY <1>5, <2>1 DEF contentsFrom
    <3> HIDE DEF x, y
    <3> QED
      BY <3>2, <3>3 DEF Contents
  <2>2. CASE ~(after(mem, s) <= stackWords)
    <3>1. << >> \in Contents
      BY DEF Contents
    <3> QED
      BY <1>5, <2>2, <3>1 DEF contentsFrom
  <2> QED
    BY <2>1, <2>2
<1>7. 0 \in S
  <2>1. \A t : ~(t \in (stackWords + 1)..stackWords)
    BY CodesAssumption
  <2>2. f[stackWords] \in Contents
    BY <1>6, <2>1, CodesAssumption
  <2> QED
    BY <2>2, CodesAssumption
<1>8. ASSUME NEW m \in Nat, m \in S
      PROVE  m + 1 \in S
  <2>1. SUFFICES ASSUME m + 1 <= stackWords,
                        NEW s \in (stackWords - (m + 1))..stackWords
                 PROVE  f[s] \in Contents
    OBVIOUS
  <2>2. \A t \in (stackWords - m)..stackWords : f[t] \in Contents
    BY <1>8, <2>1, CodesAssumption
  <2>3. s \in 0..stackWords /\ \A t \in (s + 1)..stackWords : t \in (stackWords - m)..stackWords
    BY <2>1, CodesAssumption
  <2> QED
    BY <1>6, <2>2, <2>3
<1>9. stackWords \in S
  <2> HIDE DEF S
  <2> QED
    BY <1>7, <1>8, Induction, CodesAssumption
<1>10. f \in [0..stackWords -> Contents]
  <2>1. \A s \in 0..stackWords : f[s] \in Contents
    BY <1>9, CodesAssumption
  <2>2. f = [s \in 0..stackWords |-> f[s]]
    BY <1>4 DEF Def
  <2> QED
    BY <2>1, <2>2
<1> QED
  BY <1>1, <1>5, <1>10

LEMMA ContentsTop ==
    ASSUME NEW mem \in Memories, NEW s \in 0..stackWords
    PROVE  /\ contents(mem, s) \in Contents
           /\ after(mem, s) <= stackWords =>
                 contents(mem, s) = <<elementAt(mem, s)>> \o contents(mem, after(mem, s))
           /\ ~(after(mem, s) <= stackWords) => contents(mem, s) = << >>
BY ContentsIs DEF contentsFrom

LEMMA ContentsEmpty ==
    ASSUME NEW mem \in Memories
    PROVE  contents(mem, stackWords) = << >>
<1>1. stackWords \in Nat /\ mem[stackWords] \in Nat
  BY CodesAssumption, WordAssumption DEF Memories, Word
<1>2. ~(after(mem, stackWords) <= stackWords)
  BY <1>1 DEF after
<1>3. stackWords \in 0..stackWords
  BY <1>1
<1>4. ~(after(mem, stackWords) <= stackWords) => contents(mem, stackWords) = << >>
  BY <1>3, ContentsTop
<1> QED
  BY <1>2, <1>4

LEMMA ContentsAgree ==
    ASSUME NEW mem \in Memories, NEW new \in Memories, NEW s \in 0..stackWords,
           agree(mem, new, s)
    PROVE  contents(new, s) = contents(mem, s)
<1> DEFINE same(t) == contents(new, t) = contents(mem, t)
           S == {m \in Nat : \A t \in s..stackWords : stackWords - m <= t => same(t)}
<1>1. stackWords \in Nat
  BY CodesAssumption
<1>2. ASSUME NEW t \in s..stackWords, \A u \in s..stackWords : u > t => same(u)
      PROVE  same(t)
  <2>1. t \in 0..stackWords /\ new[t] = mem[t] /\ mem[t] \in Nat
    BY <1>1, WordAssumption DEF agree, Memories, Word
  <2>2. after(new, t) = after(mem, t)
    BY <2>1 DEF after
  <2>3. CASE after(mem, t) <= stackWords
    <3>1. after(mem, t) \in (t + 1)..stackWords
      BY <2>1, <2>3, ElementTyped
    <3>2. same(after(mem, t))
      BY <1>2, <2>1, <3>1
    <3>3. elementAt(new, t) = elementAt(mem, t)
      <4>1. \A j \in 1..mem[t] : t + j \in s..stackWords
        BY <1>1, <2>1, <3>1 DEF after
      <4> QED
        BY <2>1, <4>1 DEF elementAt, agree
    <3>4. contents(mem, t) = <<elementAt(mem, t)>> \o contents(mem, after(mem, t))
      BY <2>1, <2>3, ContentsTop
    <3>5. contents(new, t) = <<elementAt(new, t)>> \o contents(new, after(mem, t))
      <4>1. contents(new, t) = <<elementAt(new, t)>> \o contents(new, after(new, t))
        BY <2>1, <2>2, <2>3, ContentsTop
      <4> QED
        BY <2>2, <4>1
    <3> QED
      BY <3>2, <3>3, <3>4, <3>5
  <2>4. CASE ~(after(mem, t) <= stackWords)
    BY <2>1, <2>2, <2>4, ContentsTop
  <2> QED
    BY <2>3, <2>4
<1> HIDE DEF same
<1>3. 0 \in S
  <2>1. ASSUME NEW t \in s..stackWords, stackWords - 0 <= t PROVE same(t)
    BY <1>1, <1>2, <2>1
  <2> QED
    BY <2>1
<1>4. ASSUME NEW m \in Nat, m \in S
      PROVE  m + 1 \in S
  <2>1. SUFFICES ASSUME NEW t \in s..stackWords, stackWords - (m + 1) <= t PROVE same(t)
    OBVIOUS
  <2>2. \A u \in s..stackWords : u > t => stackWords - m <= u
    BY <1>1, <2>1
  <2> QED
    BY <1>2, <1>4, <2>2
<1>5. stackWords \in S
  <2> HIDE DEF S
  <2> QED
    BY <1>1, <1>3, <1>4, Induction
<1>6. same(s)
  BY <1>1, <1>5
<1> QED
  BY <1>6 DEF same

(***************************************************************************)
(* The words that operands take up.                                        *)
(***************************************************************************)
LEMMA UsedSteps ==
    ASSUME NEW q \in Contents
    PROVE  \E f \in [0..Len(q) -> Nat] :
              /\ Machine!used(q) = f[Len(q)] /\ f[0] = 0
              /\ \A i \in 1..Len(q) : f[i] = f[i - 1] + Len(q[i]) + 1
<1> DEFINE K == Len(q)
           Def(f) == f = [i \in 0..K |-> IF i = 0 THEN 0 ELSE f[i - 1] + Len(q[i]) + 1]
           F == [i \in 1..K |-> [x \in Nat |-> x + Len(q[i]) + 1]]
<1>1. K \in Nat /\ \A i \in 1..K : Len(q[i]) \in Nat
  BY DEF Contents
<1>2. F \in [1..K -> [Nat -> Nat]]
  BY <1>1
<1>3. PICK g \in [0..K -> Nat] : g[0] = 0 /\ \A i \in 1..K : g[i] = F[i][g[i - 1]]
  <2> HIDE DEF K, F
  <2>1. recursionExists(K, [n \in 0..K |-> Nat], 0, F)
    BY <1>1, <1>2, Recursion
  <2> QED
    BY <2>1 DEF recursionExists, isRecursive
<1>4. \A i \in 1..K : g[i] = g[i - 1] + Len(q[i]) + 1
  <2> SUFFICES ASSUME NEW i \in 1..K PROVE g[i] = g[i - 1] + Len(q[i]) + 1
    OBVIOUS
  <2>1. g[i - 1] \in Nat
    BY <1>1, <1>3
  <2> QED
    BY <1>3, <2>1
<1>5. Def(g)
  <2>1. \A i \in 0..K : i # 0 => i \in 1..K
    BY <1>1
  <2> HIDE DEF K
  <2> QED
    BY <1>3, <1>4, <2>1
<1> DEFINE f == CHOOSE f : Def(f)
<1>6. Machine!used(q) = f[K]
  BY DEF Machine!used
<1>7. Def(f)
  <2> HIDE DEF Def
  <2> QED
    BY <1>5
<1> HIDE DEF f
<1> DEFINE S == {n \in Nat : n <= K => f[n] = g[n]}
<1>8. \A i \in 0..K : f[i] = IF i = 0 THEN 0 ELSE f[i - 1] + Len(q[i]) + 1
  BY <1>7
<1>9. 0 \in S
  BY <1>1, <1>3, <1>8
<1>10. ASSUME NEW n \in Nat, n \in S
       PROVE  n + 1 \in S
  <2>1. SUFFICES ASSUME n + 1 <= K PROVE f[n + 1] = g[n + 1]
    OBVIOUS
  <2>2. n + 1 \in 1..K /\ n + 1 \in 0..K /\ (n + 1) - 1 = n /\ f[n] = g[n]
    BY <1>10, <2>1
  <2> QED
    BY <1>4, <1>8, <2>2
<1>11. K \in S
  <2> HIDE DEF S, K
  <2> QED
    BY <1>1, <1>9, <1>10, Induction
<1>12. Machine!used(q) = g[K]
  BY <1>1, <1>6, <1>11
<1> QED
  BY <1>3, <1>4, <1>12

LEMMA UsedOnTop ==
    ASSUME NEW q \in Contents, NEW x \in Seq(Word)
    PROVE  Machine!used(<<x>> \o q) = Len(x) + 1 + Machine!used(q)
<1> DEFINE r == <<x>> \o q
           K == Len(q)
<1>1. /\ r \in Contents /\ Len(r) = K + 1 /\ r[1] = x /\ K \in Nat
      /\ \A i \in 1..K : r[i + 1] = q[i]
  BY DEF Contents
<1> HIDE DEF r
<1>2. PICK f \in [0..Len(q) -> Nat] :
              /\ Machine!used(q) = f[Len(q)] /\ f[0] = 0
              /\ \A i \in 1..Len(q) : f[i] = f[i - 1] + Len(q[i]) + 1
  BY UsedSteps
<1>3. PICK g \in [0..Len(r) -> Nat] :
              /\ Machine!used(r) = g[Len(r)] /\ g[0] = 0
              /\ \A i \in 1..Len(r) : g[i] = g[i - 1] + Len(r[i]) + 1
  BY <1>1, UsedSteps
<1>4. Len(x) \in Nat
  OBVIOUS
<1> DEFINE S == {n \in Nat : n <= K => g[n + 1] = Len(x) + 1 + f[n]}
<1>5. 0 \in S
  <2>1. 1 \in 1..Len(r) /\ 1 - 1 = 0
    BY <1>1
  <2>2. g[1] = g[0] + Len(r[1]) + 1
    BY <1>3, <2>1
  <2> QED
    BY <1>1, <1>2, <1>3, <1>4, <2>2
<1>6. ASSUME NEW n \in Nat, n \in S
      PROVE  n + 1 \in S
  <2>1. SUFFICES ASSUME n + 1 <= K PROVE g[(n + 1) + 1] = Len(x) + 1 + f[n + 1]
    OBVIOUS
  <2>2. /\ n + 1 \in 1..K /\ (n + 1) - 1 = n /\ n \in 0..K
        /\ (n + 1) + 1 \in 1..Len(r) /\ ((n + 1) + 1) - 1 = n + 1
    BY <1>1, <2>1
  <2>3. g[(n + 1) + 1] = g[n + 1] + Len(q[n + 1]) + 1
    BY <1>1, <1>3, <2>2
  <2>4. f[n + 1] = f[n] + Len(q[n + 1]) + 1
    BY <1>2, <2>2
  <2>5. g[n + 1] = Len(x) + 1 + f[n]
    BY <1>6, <2>1
  <2>6. f[n] \in Nat
    BY <1>2, <2>2
  <2>7. q[n + 1] \in Seq(Word)
    <3>1. q \in Seq(Seq(Word))
      BY DEF Contents
    <3> QED
      BY <2>2, <3>1
  <2>8. Len(q[n + 1]) \in Nat
    BY <2>7
  <2> QED
    BY <1>4, <2>3, <2>4, <2>5, <2>6, <2>8
<1>7. K \in S
  <2> HIDE DEF S, K
  <2> QED
    BY <1>1, <1>5, <1>6, Induction
<1>8. Machine!used(r) = Len(x) + 1 + Machine!used(q)
  BY <1>1, <1>2, <1>3, <1>7
<1> QED
  BY <1>8 DEF r

(***************************************************************************)
(* The elements of a chain take up what lies between the stack pointer and *)
(* the limit.                                                              *)
(***************************************************************************)
LEMMA UsedByChain ==
    ASSUME NEW mem \in Memories, NEW s \in 0..stackWords, chained(mem, s)
    PROVE  Machine!used(contents(mem, s)) = stackWords - s
<1> DEFINE right(t) == Machine!used(contents(mem, t)) = stackWords - t
           S == {m \in Nat : \A t \in 0..stackWords :
                                stackWords - m <= t /\ chained(mem, t) => right(t)}
<1>1. stackWords \in Nat
  BY CodesAssumption
<1>2. ASSUME NEW t \in 0..stackWords, chained(mem, t),
             \A u \in 0..stackWords : u > t /\ chained(mem, u) => right(u)
      PROVE  right(t)
  <2>1. CASE t = stackWords
    <3>1. << >> \in Contents /\ Len(<< >>) = 0
      BY DEF Contents
    <3>2. Machine!used(<< >>) = 0
      BY <3>1, UsedSteps
    <3>3. contents(mem, t) = << >>
      BY <2>1, ContentsEmpty
    <3> QED
      BY <1>1, <2>1, <3>2, <3>3
  <2>2. CASE t # stackWords
    <3> DEFINE u == after(mem, t)
    <3>1. mem[t] \in {1, 2} /\ u \in (t + 2)..stackWords /\ chained(mem, u)
      BY <1>2, <2>2, ChainTop
    <3>2. right(u)
      BY <1>1, <1>2, <3>1
    <3>3. u <= stackWords /\ u \in 0..stackWords
      BY <1>1, <3>1
    <3>4. contents(mem, t) = <<elementAt(mem, t)>> \o contents(mem, u)
      BY <3>3, ContentsTop
    <3>5. elementAt(mem, t) \in Seq(Word) /\ Len(elementAt(mem, t)) = mem[t]
      BY <3>3, ElementTyped
    <3>6. contents(mem, u) \in Contents
      BY <3>3, ContentsTop
    <3>7. Machine!used(contents(mem, t)) = mem[t] + 1 + (stackWords - u)
      BY <3>2, <3>4, <3>5, <3>6, UsedOnTop
    <3>8. u = t + mem[t] + 1
      BY DEF after
    <3> QED
      BY <1>1, <3>1, <3>7, <3>8
  <2> QED
    BY <2>1, <2>2
<1> HIDE DEF right
<1>3. 0 \in S
  <2>1. ASSUME NEW t \in 0..stackWords, stackWords - 0 <= t, chained(mem, t) PROVE right(t)
    BY <1>1, <1>2, <2>1
  <2> QED
    BY <2>1
<1>4. ASSUME NEW m \in Nat, m \in S
      PROVE  m + 1 \in S
  <2>1. SUFFICES ASSUME NEW t \in 0..stackWords, stackWords - (m + 1) <= t, chained(mem, t)
                 PROVE  right(t)
    OBVIOUS
  <2>2. \A u \in 0..stackWords : u > t => stackWords - m <= u
    BY <1>1, <2>1
  <2> QED
    BY <1>2, <1>4, <2>1, <2>2
<1>5. stackWords \in S
  <2> HIDE DEF S
  <2> QED
    BY <1>1, <1>3, <1>4, Induction
<1>6. right(s)
  BY <1>1, <1>5
<1> QED
  BY <1>6 DEF right

-----------------------------------------------------------------------------
(***************************************************************************)
(* Writing to memory.                                                      *)
(***************************************************************************)
LEMMA HeaderWritten ==
    ASSUME NEW mem \in Memories, NEW s \in 0..stackWords, NEW n \in {1, 2}
    PROVE  /\ withHeader(mem, s, n) \in Memories /\ withHeader(mem, s, n)[s] = n
           /\ \A i \in 0..stackWords : i # s => withHeader(mem, s, n)[i] = mem[i]
<1>1. n \in Word
  BY WordAssumption DEF Word
<1> QED
  BY <1>1 DEF withHeader, Memories

LEMMA Loaded ==
    ASSUME NEW mem \in Memories, NEW n \in {1, 2}, NEW at \in 0..stackWords,
           at + n - 1 <= stackWords
    PROVE  load(mem, at, n) \in 0..(modulus(n) - 1)
<1> DEFINE w == [i \in 1..n |-> mem[at + i - 1]]
<1>1. \A i \in 1..n : at + i - 1 \in 0..stackWords
  BY CodesAssumption
<1>2. w \in [1..n -> Word]
  BY <1>1 DEF Memories
<1>3. w \in Seq(Word) /\ Len(w) = n
  BY <1>2
<1> HIDE DEF w
<1>4. value(w) \in 0..(modulus(n) - 1)
  BY <1>3, NumberOfWords
<1> QED
  BY <1>4 DEF w, load

LEMMA Stored ==
    ASSUME NEW mem \in Memories, NEW n \in {1, 2}, NEW at \in 0..stackWords,
           at + n - 1 <= stackWords, NEW v \in 0..(modulus(n) - 1)
    PROVE  /\ store(mem, at, n, v) \in Memories
           /\ \A i \in 1..n : store(mem, at, n, v)[at + i - 1] = asWords(v, n)[i]
           /\ \A i \in 0..stackWords : i < at \/ i >= at + n => store(mem, at, n, v)[i] = mem[i]
<1> DEFINE w == asWords(v, n)
<1>1. w \in [1..n -> Word]
  BY WordsOfNumber
<1> HIDE DEF w
<1>2. store(mem, at, n, v) =
         [i \in 0..stackWords |-> IF i \in at..(at + n - 1) THEN w[i - at + 1] ELSE mem[i]]
  BY DEF store, Memories, w
<1>3. \A i \in 0..stackWords : i \in at..(at + n - 1) => i - at + 1 \in 1..n
  BY CodesAssumption
<1>4. store(mem, at, n, v) \in Memories
  BY <1>1, <1>2, <1>3 DEF Memories
<1>5. ASSUME NEW i \in 1..n
      PROVE  store(mem, at, n, v)[at + i - 1] = w[i]
  <2>1. at + i - 1 \in 0..stackWords /\ at + i - 1 \in at..(at + n - 1) /\ (at + i - 1) - at + 1 = i
    BY CodesAssumption
  <2> QED
    BY <1>2, <2>1
<1>6. \A i \in 0..stackWords : i < at \/ i >= at + n => store(mem, at, n, v)[i] = mem[i]
  BY <1>2
<1> QED
  BY <1>4, <1>5, <1>6 DEF w

put(m, from, to, i) == [m EXCEPT ![to + i - 1] = m[from + i - 1]]

LEMMA CopySteps ==
    ASSUME NEW mem, NEW from, NEW to
    PROVE  /\ copied(mem, from, to, 1) = put(mem, from, to, 1)
           /\ copied(mem, from, to, 2) = put(put(mem, from, to, 1), from, to, 2)
<1> DEFINE Def(n, f) == f = [i \in 0..n |-> IF i = 0 THEN mem
                     ELSE [f[i - 1] EXCEPT ![to + i - 1] = f[i - 1][from + i - 1]]]
<1>1. \A n : copied(mem, from, to, n) = (CHOOSE f : Def(n, f))[n]
  BY DEF copied
<1>2. \E f : Def(1, f)
  <2> DEFINE g == [i \in 0..1 |-> IF i = 0 THEN mem ELSE put(mem, from, to, 1)]
  <2>1. Def(1, g)
    <3>1. \A i \in 0..1 : i # 0 => i = 1 /\ i - 1 = 0
      OBVIOUS
    <3>2. g[0] = mem
      OBVIOUS
    <3> QED
      BY <3>1, <3>2 DEF put
  <2> QED
    BY <2>1
<1>3. \E f : Def(2, f)
  <2> DEFINE g == [i \in 0..2 |-> IF i = 0 THEN mem
                                  ELSE IF i = 1 THEN put(mem, from, to, 1)
                                  ELSE put(put(mem, from, to, 1), from, to, 2)]
  <2>1. Def(2, g)
    <3>1. \A i \in 0..2 : i # 0 => i = 1 \/ i = 2
      OBVIOUS
    <3>2. /\ g[0] = mem /\ g[1] = put(mem, from, to, 1)
          /\ g[2] = put(put(mem, from, to, 1), from, to, 2)
      OBVIOUS
    <3>3. \A i \in 0..2 : g[i] = IF i = 0 THEN mem
                     ELSE [g[i - 1] EXCEPT ![to + i - 1] = g[i - 1][from + i - 1]]
      <4> HIDE DEF g
      <4>1. g[1] = put(g[1 - 1], from, to, 1) /\ g[2] = put(g[2 - 1], from, to, 2)
        BY <3>2
      <4>2. \A i \in 0..2 : i # 0 => g[i] = put(g[i - 1], from, to, i)
        BY <3>1, <4>1
      <4>3. \A i \in 0..2 : i # 0 =>
               g[i] = [g[i - 1] EXCEPT ![to + i - 1] = g[i - 1][from + i - 1]]
        BY <4>2 DEF put
      <4> QED
        BY <3>2, <4>3
    <3>4. DOMAIN g = 0..2 /\ g = [i \in 0..2 |-> g[i]]
      OBVIOUS
    <3> HIDE DEF g
    <3> QED
      BY <3>3, <3>4
  <2> QED
    BY <2>1
<1>4. copied(mem, from, to, 1) = put(mem, from, to, 1)
  <2> DEFINE f == CHOOSE f : Def(1, f)
  <2>1. Def(1, f)
    <3> HIDE DEF Def
    <3> QED
      BY <1>2
  <2> HIDE DEF f
  <2>2. f[0] = mem /\ f[1] = put(f[0], from, to, 1)
    BY <2>1 DEF put
  <2> QED
    BY <1>1, <2>2 DEF f
<1>5. copied(mem, from, to, 2) = put(put(mem, from, to, 1), from, to, 2)
  <2> DEFINE f == CHOOSE f : Def(2, f)
  <2>1. Def(2, f)
    <3> HIDE DEF Def
    <3> QED
      BY <1>3
  <2> HIDE DEF f
  <2>2. \A i \in 0..2 : f[i] = IF i = 0 THEN mem ELSE put(f[i - 1], from, to, i)
    BY <2>1 DEF put
  <2> HIDE DEF Def
  <2>3. f[0] = mem /\ f[1] = put(f[1 - 1], from, to, 1) /\ f[2] = put(f[2 - 1], from, to, 2)
    BY <2>2
  <2>4. f[1] = put(mem, from, to, 1) /\ f[2] = put(f[1], from, to, 2)
    BY <2>3
  <2> QED
    BY <1>1, <2>4 DEF f
<1> QED
  BY <1>4, <1>5

(***************************************************************************)
(* Word by word upwards, a copy is exact when the source ends before the   *)
(* destination begins.                                                     *)
(***************************************************************************)
hasCopy(new, mem, from, to, n) ==
    /\ \A i \in 0..stackWords : i < to \/ i >= to + n => new[i] = mem[i]
    /\ from + n <= to => \A i \in 1..n : new[to + i - 1] = mem[from + i - 1]

LEMMA Copied ==
    ASSUME NEW mem \in Memories, NEW n \in {1, 2},
           NEW from \in 0..stackWords, from + n - 1 <= stackWords,
           NEW to \in 0..stackWords, to + n - 1 <= stackWords
    PROVE  /\ copied(mem, from, to, n) \in Memories
           /\ hasCopy(copied(mem, from, to, n), mem, from, to, n)
<1>1. stackWords \in Nat
  BY CodesAssumption
<1>2. ASSUME NEW m \in Memories, NEW i \in 1..n
      PROVE  /\ put(m, from, to, i) \in Memories
             /\ put(m, from, to, i)[to + i - 1] = m[from + i - 1]
             /\ \A j \in 0..stackWords : j # to + i - 1 => put(m, from, to, i)[j] = m[j]
  <2>1. to + i - 1 \in 0..stackWords /\ from + i - 1 \in 0..stackWords
    BY <1>1
  <2> DEFINE x == to + i - 1
             y == from + i - 1
  <2> HIDE DEF x, y
  <2>2. x \in 0..stackWords /\ y \in 0..stackWords
    BY <2>1 DEF x, y
  <2>3. put(m, from, to, i) = [m EXCEPT ![x] = m[y]]
    BY DEF put, x, y
  <2>4. m[y] \in Word
    BY <2>2 DEF Memories
  <2>5. /\ put(m, from, to, i) \in Memories /\ put(m, from, to, i)[x] = m[y]
        /\ \A j \in 0..stackWords : j # x => put(m, from, to, i)[j] = m[j]
    BY <2>2, <2>3, <2>4 DEF Memories
  <2> QED
    BY <2>5 DEF x, y
<1>3. CASE n = 1
  <2>1. copied(mem, from, to, n) = put(mem, from, to, 1)
    BY <1>3, CopySteps
  <2> QED
    BY <1>1, <1>2, <1>3, <2>1 DEF hasCopy
<1>4. CASE n = 2
  <2> DEFINE one == put(mem, from, to, 1)
             two == put(one, from, to, 2)
  <2>1. copied(mem, from, to, n) = two
    BY <1>4, CopySteps
  <2>2. /\ one \in Memories /\ one[to] = mem[from]
        /\ \A j \in 0..stackWords : j # to => one[j] = mem[j]
    BY <1>1, <1>2, <1>4
  <2> HIDE DEF one
  <2>3. /\ two \in Memories /\ two[to + 1] = one[from + 1]
        /\ \A j \in 0..stackWords : j # to + 1 => two[j] = one[j]
    BY <1>1, <1>2, <1>4, <2>2
  <2> HIDE DEF two
  <2>4. \A i \in 0..stackWords : i < to \/ i >= to + n => two[i] = mem[i]
    BY <1>1, <1>4, <2>2, <2>3
  <2>5. from + n <= to => two[to] = mem[from] /\ two[to + 1] = mem[from + 1]
    <3>1. from + 1 \in 0..stackWords /\ to # to + 1
      BY <1>1, <1>4
    <3> QED
      BY <1>1, <1>4, <2>2, <2>3, <3>1
  <2>6. \A i \in 1..n : i = 1 \/ i = 2
    BY <1>4
  <2>7. /\ to + 1 - 1 = to /\ from + 1 - 1 = from
        /\ to + 2 - 1 = to + 1 /\ from + 2 - 1 = from + 1
    BY <1>1
  <2>8. from + n <= to => \A i \in 1..n : two[to + i - 1] = mem[from + i - 1]
    BY <2>5, <2>6, <2>7
  <2> QED
    BY <2>1, <2>3, <2>4, <2>8 DEF hasCopy
<1> QED
  BY <1>3, <1>4
(***************************************************************************)
(* What an arithmetic instruction leaves in memory: the value stored in    *)
(* the top element, then pushed from there when both elements are popped.  *)
(***************************************************************************)
spot(mem, s, n) == after(mem, after(mem, s)) - n - 1

resulting(mem, s, n, v) ==
    copied(withHeader(store(mem, s + 1, n, v), spot(mem, s, n), n), s + 1, spot(mem, s, n) + 1, n)

LEMMA TwoElements ==
    ASSUME NEW mem \in Memories, NEW s \in 0..stackWords, chained(mem, s),
           s # stackWords, after(mem, s) # stackWords, NEW n \in {1, 2}
    PROVE  /\ mem[s] \in {1, 2} /\ after(mem, s) = s + mem[s] + 1
           /\ after(mem, s) \in 0..stackWords /\ mem[after(mem, s)] \in {1, 2}
           /\ after(mem, after(mem, s)) = after(mem, s) + mem[after(mem, s)] + 1
           /\ after(mem, after(mem, s)) \in 0..stackWords
           /\ chained(mem, after(mem, after(mem, s)))
           /\ spot(mem, s, n) \in (s + 1)..stackWords
           /\ spot(mem, s, n) + n + 1 = after(mem, after(mem, s))
<1> DEFINE p == after(mem, s)
           free == after(mem, p)
<1>1. stackWords \in Nat
  BY CodesAssumption
<1>2. mem[s] \in {1, 2} /\ p \in (s + 2)..stackWords /\ chained(mem, p)
  BY ChainTop
<1>3. p = s + mem[s] + 1
  BY DEF after
<1> HIDE DEF p
<1>4. p \in 0..stackWords /\ p # stackWords
  BY <1>1, <1>2 DEF p
<1>5. mem[p] \in {1, 2} /\ free \in (p + 2)..stackWords /\ chained(mem, free)
  BY <1>2, <1>4, ChainTop
<1>6. free = p + mem[p] + 1
  BY DEF after
<1> HIDE DEF free
<1>7. spot(mem, s, n) = free - n - 1
  BY DEF spot, p, free
<1>8. spot(mem, s, n) \in (s + 1)..stackWords /\ spot(mem, s, n) + n + 1 = free
  BY <1>1, <1>2, <1>5, <1>7
<1>9. free \in 0..stackWords
  BY <1>1, <1>2, <1>5
<1> QED
  BY <1>2, <1>3, <1>4, <1>5, <1>6, <1>8, <1>9 DEF p, free

LEMMA ResultWritten ==
    ASSUME NEW mem \in Memories, NEW s \in 0..stackWords, chained(mem, s),
           s # stackWords, after(mem, s) # stackWords,
           NEW n \in {1, 2}, NEW v \in 0..(modulus(n) - 1)
    PROVE  /\ resulting(mem, s, n, v) \in Memories
           /\ resulting(mem, s, n, v)[spot(mem, s, n)] = n
           /\ agree(mem, resulting(mem, s, n, v), after(mem, after(mem, s)))
           /\ mem[s] = n /\ mem[after(mem, s)] = n =>
                 \A i \in 1..n : resulting(mem, s, n, v)[spot(mem, s, n) + i] = asWords(v, n)[i]
<1> DEFINE free == after(mem, after(mem, s))
           t == spot(mem, s, n)
           one == store(mem, s + 1, n, v)
           two == withHeader(one, t, n)
           three == copied(two, s + 1, t + 1, n)
<1>1. stackWords \in Nat
  BY CodesAssumption
<1>2. /\ free \in 0..stackWords /\ t \in (s + 1)..stackWords /\ t + n + 1 = free
      /\ mem[s] \in {1, 2} /\ mem[after(mem, s)] \in {1, 2}
      /\ free = s + mem[s] + 1 + mem[after(mem, s)] + 1
  <2>1. /\ free \in 0..stackWords /\ t \in (s + 1)..stackWords /\ t + n + 1 = free
        /\ mem[s] \in {1, 2} /\ mem[after(mem, s)] \in {1, 2}
        /\ after(mem, s) = s + mem[s] + 1
        /\ free = after(mem, s) + mem[after(mem, s)] + 1
    BY TwoElements
  <2> HIDE DEF free, t
  <2> QED
    BY <2>1
<1>3. resulting(mem, s, n, v) = three
  BY DEF resulting
<1> HIDE DEF free, t
<1>4. /\ s + 1 \in 0..stackWords /\ (s + 1) + n - 1 <= stackWords /\ (s + 1) + n < free
      /\ t \in 0..stackWords /\ t + 1 \in 0..stackWords /\ (t + 1) + n - 1 <= stackWords
      /\ (t + 1) + n = free
  BY <1>1, <1>2
<1>5. /\ one \in Memories /\ \A i \in 1..n : one[(s + 1) + i - 1] = asWords(v, n)[i]
      /\ \A i \in 0..stackWords : i < s + 1 \/ i >= (s + 1) + n => one[i] = mem[i]
  BY <1>4, Stored
<1> HIDE DEF one
<1>6. /\ two \in Memories /\ two[t] = n
      /\ \A i \in 0..stackWords : i # t => two[i] = one[i]
  <2>1. one \in Memories /\ t \in 0..stackWords
    BY <1>4, <1>5
  <2> QED
    BY <2>1, HeaderWritten
<1> HIDE DEF two
<1>7. /\ three \in Memories
      /\ \A i \in 0..stackWords : i < t + 1 \/ i >= (t + 1) + n => three[i] = two[i]
      /\ (s + 1) + n <= t + 1 =>
            \A i \in 1..n : three[(t + 1) + i - 1] = two[(s + 1) + i - 1]
  <2> DEFINE from == s + 1
             to == t + 1
  <2> HIDE DEF from, to
  <2>1. /\ two \in Memories /\ from \in 0..stackWords /\ from + n - 1 <= stackWords
        /\ to \in 0..stackWords /\ to + n - 1 <= stackWords
    BY <1>4, <1>6 DEF from, to
  <2>2. three = copied(two, from, to, n)
    BY DEF from, to
  <2> HIDE DEF three
  <2>3. three \in Memories /\ hasCopy(three, two, from, to, n)
    BY <2>1, <2>2, Copied
  <2> QED
    BY <2>3 DEF hasCopy, from, to
<1> HIDE DEF three
<1>8. three[t] = n
  BY <1>4, <1>6, <1>7
<1>9. agree(mem, three, free)
  <2>1. ASSUME NEW i \in free..stackWords
        PROVE  three[i] = mem[i]
    <3>1. i \in 0..stackWords /\ i >= (t + 1) + n /\ i # t /\ i >= (s + 1) + n
      BY <1>1, <1>2, <1>4
    <3> QED
      BY <1>5, <1>6, <1>7, <3>1
  <2> QED
    BY <2>1 DEF agree
<1>10. ASSUME mem[s] = n, mem[after(mem, s)] = n, NEW i \in 1..n
       PROVE  three[t + i] = asWords(v, n)[i]
  <2>1. t = s + n + 1
    BY <1>2, <1>10
  <2>2. (s + 1) + n <= t + 1 /\ (t + 1) + i - 1 = t + i
    BY <1>4, <2>1
  <2>3. three[t + i] = two[(s + 1) + i - 1]
    BY <1>7, <2>2
  <2>4. (s + 1) + i - 1 # t /\ (s + 1) + i - 1 \in 0..stackWords
    BY <1>1, <1>4, <2>1
  <2> QED
    BY <1>5, <1>6, <2>3, <2>4
<1>11. /\ three \in Memories /\ three[t] = n /\ agree(mem, three, free)
       /\ mem[s] = n /\ mem[after(mem, s)] = n =>
             \A i \in 1..n : three[t + i] = asWords(v, n)[i]
  BY <1>7, <1>8, <1>9, <1>10
<1> QED
  BY <1>3, <1>11 DEF t, free

-----------------------------------------------------------------------------
(***************************************************************************)
(* Types.                                                                  *)
(***************************************************************************)
LEMMA OperandRead ==
    ASSUME code \in Codes, position \in Nat, NEW n \in 0..2
    PROVE  operandWords(n) \in Seq(Word) /\ Len(operandWords(n)) = n
<1> DEFINE w == [i \in 1..n |-> IF position + 1 + i <= Len(code) THEN code[position + 1 + i]
                                ELSE W - 1]
<1>1. W - 1 \in Word
  BY WordAssumption DEF Word
<1>2. code \in Seq(Word)
  BY CodesAssumption DEF Word
<1>3. w \in [1..n -> Word]
  BY <1>1, <1>2
<1>4. w \in Seq(Word) /\ Len(w) = n
  <2> HIDE DEF w
  <2> QED
    BY <1>3
<1>5. operandWords(n) = Reverse(w)
  BY DEF operandWords
<1> HIDE DEF w
<1>6. Reverse(w) = [i \in 1..n |-> w[(n - i) + 1]]
  BY <1>4 DEF Reverse
<1>7. \A i \in 1..n : w[(n - i) + 1] \in Word
  BY <1>4
<1>8. Reverse(w) \in [1..n -> Word]
  BY <1>6, <1>7
<1> QED
  BY <1>5, <1>8

LEMMA InstructionNow ==
    ASSUME VMTypeOK, m_pc < Len(assembly)
    PROVE  /\ m_pc + 1 \in DOMAIN assembly
           /\ assembly[m_pc + 1].inst \in ToSet(tisc)
           /\ data \in Seq(Word) /\ Len(data) = assembly[m_pc + 1].inst.args
<1>1. m_pc + 1 \in DOMAIN assembly /\ assembly \in Seq(Assembled)
  BY DEF VMTypeOK
<1>2. assembly[m_pc + 1] \in Assembled
  BY <1>1
<1> QED
  BY <1>1, <1>2 DEF VMTypeOK, Assembled, data, Word

LEMMA Executing ==
    ASSUME VMTypeOK, NEW name, executing(name)
    PROVE  /\ m_pc + 1 \in Nat /\ data \in Seq(Word)
           /\ name = "push" => width \in {1, 2} /\ Len(data) = width
           /\ name \in arithmetic => width \in {1, 2}
           /\ name \in {"jmp", "jmp_if"} => Len(data) = 2 /\ data[1] \in Nat
           /\ name = "int" => Len(data) = 1
<1>1. m_pc \in Nat /\ m_pc < Len(assembly) /\ assembly[m_pc + 1].inst.name = name
  BY DEF executing, VMTypeOK
<1>2. /\ assembly[m_pc + 1].inst \in ToSet(tisc)
      /\ data \in Seq(Word) /\ Len(data) = assembly[m_pc + 1].inst.args
  BY <1>1, InstructionNow
<1> DEFINE inst == assembly[m_pc + 1].inst
<1> HIDE DEF inst
<1>3. inst \in ToSet(tisc) /\ inst.name = name /\ Len(data) = inst.args /\ width = inst.width
  BY <1>1, <1>2 DEF inst, width
<1>4. /\ inst.name = "push" => inst.width \in {1, 2} /\ inst.args = inst.width
      /\ inst.name \in arithmetic => inst.width \in {1, 2}
      /\ inst.name \in {"jmp", "jmp_if"} => inst.args = 2
      /\ inst.name = "int" => inst.args = 1
  BY <1>3, InstructionSet
<1>5. Len(data) = 2 => data[1] \in Nat
  <2>1. ASSUME Len(data) = 2 PROVE data[1] \in Word
    <3>1. 1 \in 1..Len(data)
      BY <2>1
    <3> QED
      BY <1>2, <3>1
  <2> QED
    BY <2>1, WordAssumption DEF Word
<1> QED
  BY <1>1, <1>2, <1>3, <1>4, <1>5

(***************************************************************************)
(* The parts of the type invariant: what is only ever read or assembled,   *)
(* and the stack.                                                          *)
(***************************************************************************)
CodeTyped ==
    /\ source \in {"stream", "file"} /\ code \in Codes
    /\ position \in Nat
    /\ assembly \in Seq(Assembled)
    /\ \A i \in DOMAIN assembly : Len(assembly[i].arg) = assembly[i].inst.args

StackTyped == memory \in Memories /\ sp \in 0..stackWords /\ chained(memory, sp)

StateTyped == /\ phase \in {"assembling", "running", "halted", "crashed"}
              /\ status \in {"ready", "warning", "error"}

LEMMA TypedParts == VMTypeOK <=> CodeTyped /\ StackTyped /\ m_pc \in Nat /\ StateTyped
BY DEF VMTypeOK, CodeTyped, StackTyped, StateTyped, Memories, Word

LEMMA InitTyped == VMInit => VMTypeOK
<1> SUFFICES ASSUME VMInit PROVE VMTypeOK
  OBVIOUS
<1>1. CodeTyped /\ m_pc \in Nat /\ StateTyped
  BY DEF VMInit, CodeTyped, StateTyped
<1>2. PICK behind \in Behind :
         memory = [i \in 0..stackWords |-> IF i < stackWords THEN 0 ELSE behind]
  BY DEF VMInit
<1>3. behind \in Word /\ 0 \in Word
  BY CodesAssumption, WordAssumption DEF Word
<1>4. memory \in Memories
  BY <1>2, <1>3 DEF Memories
<1>5. sp \in 0..stackWords /\ chained(memory, sp)
  BY ChainEmpty, CodesAssumption DEF VMInit
<1> QED
  BY <1>1, <1>4, <1>5, TypedParts DEF StackTyped

LEMMA AssembleTyped == VMTypeOK /\ Assemble => VMTypeOK'
<1> SUFFICES ASSUME VMTypeOK, Assemble PROVE VMTypeOK'
  OBVIOUS
<1>1. CodeTyped /\ StackTyped /\ m_pc \in Nat /\ StateTyped
  BY TypedParts
<1>2. (CodeTyped /\ StackTyped /\ m_pc \in Nat /\ StateTyped)' => VMTypeOK'
  BY TypedParts, PTL
<1>3. UNCHANGED <<given, stackVars>>
  BY DEF Assemble, AssembleNoFile, AssembleNop, AssembleInstruction, AssembleUnknown,
         AssembleBeyondEnd, AssembleEnd
<1>4. StackTyped'
  BY <1>1, <1>3 DEF StackTyped, stackVars
<1>5. position \in Nat
  BY <1>1 DEF CodeTyped
<1>6. CASE AssembleNoFile
  <2>1. CodeTyped'
    BY <1>1, <1>3, <1>6 DEF AssembleNoFile, CodeTyped, given
  <2>2. StateTyped' /\ m_pc' \in Nat
    BY <1>1, <1>6 DEF AssembleNoFile, StateTyped, raised
  <2> QED
    BY <1>2, <1>4, <2>1, <2>2
<1>7. CASE AssembleNop
  <2>1. CodeTyped'
    BY <1>1, <1>3, <1>5, <1>7 DEF AssembleNop, CodeTyped, given
  <2>2. StateTyped' /\ m_pc' \in Nat
    BY <1>1, <1>7 DEF AssembleNop, StateTyped
  <2> QED
    BY <1>2, <1>4, <2>1, <2>2
<1>8. CASE AssembleInstruction
  <2> DEFINE inst == tisc[opcode]
             one == [inst |-> inst, arg |-> operandWords(inst.args)]
  <2>1. inst \in ToSet(tisc)
    BY <1>8 DEF AssembleInstruction, ToSet
  <2>2. assembly' = Append(assembly, one) /\ position' = position + 1 + inst.args
    BY <1>8 DEF AssembleInstruction
  <2> HIDE DEF inst
  <2>3. inst.args \in 0..2
    BY <2>1, InstructionSet
  <2>4. operandWords(inst.args) \in Seq(Word) /\ Len(operandWords(inst.args)) = inst.args
    BY <1>1, <1>5, <2>3, OperandRead DEF CodeTyped
  <2>5. one \in Assembled /\ Len(one.arg) = one.inst.args
    BY <2>1, <2>4 DEF Assembled, Word
  <2> HIDE DEF one
  <2>6. assembly \in Seq(Assembled)
    BY <1>1 DEF CodeTyped
  <2>7. assembly' \in Seq(Assembled)
    BY <2>2, <2>5, <2>6
  <2>8. ASSUME NEW i \in DOMAIN assembly'
        PROVE  Len(assembly'[i].arg) = assembly'[i].inst.args
    <3>1. i \in DOMAIN assembly \/ assembly'[i] = one
      BY <2>2, <2>6
    <3>2. i \in DOMAIN assembly => assembly'[i] = assembly[i]
      BY <2>2, <2>6
    <3> QED
      BY <1>1, <2>5, <3>1, <3>2 DEF CodeTyped
  <2>9. position' \in Nat
    BY <1>5, <2>2, <2>3
  <2>10. CodeTyped'
    BY <1>1, <1>3, <2>7, <2>8, <2>9 DEF CodeTyped, given
  <2>11. StateTyped' /\ m_pc' \in Nat
    BY <1>1, <1>8 DEF AssembleInstruction, StateTyped
  <2> QED
    BY <1>2, <1>4, <2>10, <2>11
<1>9. CASE AssembleUnknown
  <2>1. CodeTyped'
    BY <1>1, <1>3, <1>5, <1>9 DEF AssembleUnknown, CodeTyped, given
  <2>2. StateTyped' /\ m_pc' \in Nat
    BY <1>1, <1>9 DEF AssembleUnknown, StateTyped, raised
  <2> QED
    BY <1>2, <1>4, <2>1, <2>2
<1>10. CASE AssembleBeyondEnd
  <2>1. CodeTyped'
    BY <1>1, <1>3, <1>10 DEF AssembleBeyondEnd, CodeTyped, given
  <2>2. StateTyped' /\ m_pc' \in Nat
    BY <1>1, <1>10 DEF AssembleBeyondEnd, StateTyped
  <2> QED
    BY <1>2, <1>4, <2>1, <2>2
<1>11. CASE AssembleEnd
  <2>1. CodeTyped'
    BY <1>1, <1>3, <1>5, <1>11 DEF AssembleEnd, CodeTyped, given
  <2>2. StateTyped' /\ m_pc' \in Nat
    BY <1>1, <1>11 DEF AssembleEnd, StateTyped
  <2> QED
    BY <1>2, <1>4, <2>1, <2>2
<1> QED
  BY <1>6, <1>7, <1>8, <1>9, <1>10, <1>11 DEF Assemble

(***************************************************************************)
(* What an arithmetic instruction does, with the operators of these proofs.*)
(***************************************************************************)
outcome(name) == computed(name, after(memory, sp) + 1, sp + 1)

LEMMA TwoOnStack ==
    ASSUME VMTypeOK
    PROVE  /\ popped(sp) = after(memory, sp) /\ top(sp) = sp + 1
           /\ top(popped(sp)) = after(memory, sp) + 1
           /\ popped(popped(sp)) = after(memory, after(memory, sp))
           /\ twoElements <=> sp # stackWords /\ after(memory, sp) # stackWords
BY DEF popped, top, after, twoElements, empty

LEMMA OperandsLoaded ==
    ASSUME VMTypeOK, twoElements, width \in {1, 2}
    PROVE  /\ load(memory, after(memory, sp) + 1, width) \in 0..(modulus(width) - 1)
           /\ load(memory, sp + 1, width) \in 0..(modulus(width) - 1)
<1> DEFINE n == width
           p == after(memory, sp)
<1> HIDE DEF n
<1>1. stackWords \in Nat /\ n \in {1, 2}
  BY CodesAssumption DEF n
<1>2. memory \in Memories /\ sp \in 0..stackWords /\ chained(memory, sp)
  BY TypedParts DEF StackTyped
<1>3. sp # stackWords /\ p # stackWords
  BY TwoOnStack
<1>4. /\ memory[sp] \in {1, 2} /\ p = sp + memory[sp] + 1 /\ p \in 0..stackWords
      /\ spot(memory, sp, n) \in (sp + 1)..stackWords
      /\ memory[p] \in {1, 2}
      /\ spot(memory, sp, n) + n + 1 = p + memory[p] + 1
      /\ p + memory[p] + 1 \in 0..stackWords
  <2>1. /\ memory[sp] \in {1, 2} /\ p = sp + memory[sp] + 1 /\ p \in 0..stackWords
        /\ spot(memory, sp, n) \in (sp + 1)..stackWords
        /\ memory[p] \in {1, 2} /\ after(memory, p) = p + memory[p] + 1
        /\ after(memory, p) \in 0..stackWords
        /\ spot(memory, sp, n) + n + 1 = after(memory, p)
    BY <1>1, <1>2, <1>3, TwoElements
  <2> QED
    BY <2>1
<1> HIDE DEF p
<1>5. /\ p + 1 \in 0..stackWords /\ (p + 1) + n - 1 <= stackWords
      /\ sp + 1 \in 0..stackWords /\ (sp + 1) + n - 1 <= stackWords
  BY <1>1, <1>2, <1>4
<1>6. load(memory, p + 1, n) \in 0..(modulus(n) - 1)
  BY <1>1, <1>2, <1>5, Loaded
<1>7. load(memory, sp + 1, n) \in 0..(modulus(n) - 1)
  BY <1>1, <1>2, <1>5, Loaded
<1> QED
  BY <1>6, <1>7 DEF n, p

LEMMA ArithmeticDoes ==
    ASSUME VMTypeOK, NEW name \in arithmetic, Arithmetic(name)
    PROVE  /\ width \in {1, 2} /\ sp # stackWords /\ after(memory, sp) # stackWords
           /\ outcome(name) \in 0..(modulus(width) - 1)
           /\ sp' = spot(memory, sp, width)
           /\ memory' = resulting(memory, sp, width, outcome(name))
           /\ continues /\ UNCHANGED status /\ executing(name)
<1>1. /\ executing(name) /\ twoElements /\ continues /\ UNCHANGED status
      /\ ~traps(name, load(memory, top(popped(sp)), width), load(memory, top(sp), width), width)
      /\ sp' = popped(popped(sp)) - width - 1
      /\ memory' = copied(withHeader(store(memory, top(sp), width,
                                           computed(name, top(popped(sp)), top(sp))),
                                     sp', width), top(sp), top(sp'), width)
  BY DEF Arithmetic
<1>2. width \in {1, 2}
  BY <1>1, Executing
<1>3. sp # stackWords /\ after(memory, sp) # stackWords
  BY <1>1, TwoOnStack
<1>4. outcome(name) \in 0..(modulus(width) - 1)
  <2> DEFINE n == width
             x == load(memory, after(memory, sp) + 1, n)
             y == load(memory, sp + 1, n)
  <2>1. outcome(name) = calculate(name, x, y, n)
    BY DEF outcome, computed
  <2>2. ~traps(name, x, y, n)
    BY <1>1, TwoOnStack
  <2>3. x \in 0..(modulus(n) - 1) /\ y \in 0..(modulus(n) - 1)
    BY <1>1, <1>2, OperandsLoaded
  <2>4. n \in {1, 2}
    BY <1>2
  <2> HIDE DEF x, y, n
  <2>5. calculate(name, x, y, n) \in 0..(modulus(n) - 1)
    BY <2>2, <2>3, <2>4, Computed
  <2> QED
    BY <2>1, <2>5 DEF n
<1>5. sp' = spot(memory, sp, width)
  BY <1>1, TwoOnStack DEF spot
<1>6. top(sp') = sp' + 1
  BY DEF top
<1>7. memory' = resulting(memory, sp, width, outcome(name))
  BY <1>1, <1>5, <1>6, TwoOnStack DEF resulting, outcome
<1> QED
  BY <1>1, <1>2, <1>3, <1>4, <1>5, <1>7

LEMMA ArithmeticStack ==
    ASSUME VMTypeOK, NEW name \in arithmetic, Arithmetic(name)
    PROVE  StackTyped'
<1> DEFINE n == width
           v == outcome(name)
           free == after(memory, after(memory, sp))
           new == resulting(memory, sp, n, v)
           t == spot(memory, sp, n)
<1>1. memory \in Memories /\ sp \in 0..stackWords /\ chained(memory, sp)
  BY TypedParts DEF StackTyped
<1>2. /\ n \in {1, 2} /\ v \in 0..(modulus(n) - 1) /\ memory' = new /\ sp' = t
      /\ sp # stackWords /\ after(memory, sp) # stackWords
  BY ArithmeticDoes
<1> HIDE DEF n, v
<1>3. new \in Memories /\ new[t] = n /\ agree(memory, new, free)
  BY <1>1, <1>2, ResultWritten
<1>4. /\ t \in (sp + 1)..stackWords /\ t + n + 1 = free /\ free \in 0..stackWords
      /\ chained(memory, free)
  BY <1>1, <1>2, TwoElements
<1> HIDE DEF t, new, free
<1>5. t \in 0..stackWords
  BY <1>1, <1>4
<1>6. chained(new, t)
  BY <1>1, <1>2, <1>3, <1>4, <1>5, ChainPush
<1> QED
  BY <1>2, <1>3, <1>5, <1>6 DEF StackTyped

(***************************************************************************)
(* What push does.                                                         *)
(***************************************************************************)
LEMMA PushDoes ==
    ASSUME VMTypeOK, Push
    PROVE  /\ width \in {1, 2} /\ data \in Seq(Word) /\ Len(data) = width
           /\ sp' \in 0..stackWords /\ sp' + width + 1 = sp
           /\ memory' \in Memories /\ memory'[sp'] = width
           /\ agree(memory, memory', sp)
           /\ \A i \in 1..width : memory'[sp' + i] = data[i]
<1> DEFINE n == width
           t == sp'
           v == value(data)
           one == withHeader(memory, t, n)
<1>1. stackWords \in Nat /\ memory \in Memories /\ sp \in 0..stackWords
  BY TypedParts, CodesAssumption DEF StackTyped
<1>2. /\ executing("push") /\ fits(n) /\ t = sp - n - 1
      /\ memory' = store(one, top(t), n, v)
  BY DEF Push
<1>3. n \in {1, 2} /\ data \in Seq(Word) /\ Len(data) = n
  BY <1>2, Executing
<1> HIDE DEF n, t
<1>4. v \in 0..(modulus(n) - 1) /\ asWords(v, n) = data
  BY <1>3, NumberOfWords
<1> HIDE DEF v
<1>5. /\ t \in 0..stackWords /\ t + n + 1 = sp
      /\ t + 1 \in 0..stackWords /\ (t + 1) + n - 1 <= stackWords
  BY <1>1, <1>2, <1>3 DEF fits
<1>6. /\ one \in Memories /\ one[t] = n
      /\ \A i \in 0..stackWords : i # t => one[i] = memory[i]
  BY <1>1, <1>3, <1>5, HeaderWritten
<1> HIDE DEF one
<1> DEFINE at == t + 1
<1>7. at \in 0..stackWords /\ at + n - 1 <= stackWords
  BY <1>5
<1>8. memory' = store(one, at, n, v)
  BY <1>2 DEF top
<1> HIDE DEF at
<1>9. /\ memory' \in Memories
      /\ \A i \in 1..n : memory'[at + i - 1] = asWords(v, n)[i]
      /\ \A i \in 0..stackWords : i < at \/ i >= at + n => memory'[i] = one[i]
  BY <1>3, <1>4, <1>6, <1>7, <1>8, Stored
<1>10. memory'[t] = n
  BY <1>5, <1>6, <1>9 DEF at
<1>11. \A i \in 1..n : memory'[t + i] = data[i]
  <2>1. \A i \in 1..n : at + i - 1 = t + i
    BY <1>3, <1>5 DEF at
  <2> QED
    BY <1>4, <1>9, <2>1
<1>12. agree(memory, memory', sp)
  <2>1. \A i \in sp..stackWords : i \in 0..stackWords /\ i >= at + n /\ i # t
    BY <1>1, <1>3, <1>5 DEF at
  <2> QED
    BY <1>6, <1>9, <2>1 DEF agree
<1> QED
  BY <1>3, <1>5, <1>9, <1>10, <1>11, <1>12 DEF n, t

LEMMA PushStack ==
    ASSUME VMTypeOK, Push
    PROVE  StackTyped'
<1> DEFINE n == width
           new == memory'
           t == sp'
<1>1. memory \in Memories /\ sp \in 0..stackWords /\ chained(memory, sp)
  BY TypedParts DEF StackTyped
<1>2. /\ n \in {1, 2} /\ t \in 0..stackWords /\ t + n + 1 = sp /\ new \in Memories
      /\ new[t] = n /\ agree(memory, new, sp)
  BY PushDoes
<1> HIDE DEF n, t, new
<1>3. chained(new, t)
  BY <1>1, <1>2, ChainPush
<1> QED
  BY <1>2, <1>3 DEF StackTyped, t, new

LEMMA PopStack ==
    ASSUME VMTypeOK, Pop
    PROVE  StackTyped'
<1>1. stackWords \in Nat /\ memory \in Memories /\ sp \in 0..stackWords /\ chained(memory, sp)
  BY TypedParts, CodesAssumption DEF StackTyped
<1>2. memory' = memory
  BY DEF Pop
<1>3. CASE empty(sp)
  BY <1>1, <1>2, <1>3 DEF Pop, StackTyped
<1>4. CASE ~empty(sp)
  <2>1. sp' = after(memory, sp) /\ sp # stackWords
    BY <1>4 DEF Pop, popped, after, empty
  <2>2. after(memory, sp) \in (sp + 2)..stackWords /\ chained(memory, after(memory, sp))
    BY <1>1, <2>1, ChainTop
  <2>3. sp' \in 0..stackWords
    BY <1>1, <2>1, <2>2
  <2> QED
    BY <1>1, <1>2, <2>1, <2>2, <2>3 DEF StackTyped
<1> QED
  BY <1>3, <1>4

LEMMA InterpretTyped == VMTypeOK /\ (Interpret \/ InterpretAgain) => VMTypeOK'
<1> SUFFICES ASSUME VMTypeOK, Interpret \/ InterpretAgain PROVE VMTypeOK'
  OBVIOUS
<1>1. CodeTyped /\ StackTyped /\ m_pc \in Nat /\ StateTyped
  BY TypedParts
<1>2. (CodeTyped /\ StackTyped /\ m_pc \in Nat /\ StateTyped)' => VMTypeOK'
  BY TypedParts, PTL
<1>3. UNCHANGED <<given, position, assembly>>
  BY DEF Interpret, InterpretAgain, Interrupt, Jump, JumpIf, Pop, Push, PushOverflow,
         DivisionTrap, NoOperand, Finish, Arithmetic, continues, aborts
<1>4. CodeTyped'
  BY <1>1, <1>3 DEF CodeTyped, given
<1>5. StateTyped'
  BY <1>1 DEF Interpret, InterpretAgain, Interrupt, Jump, JumpIf, Pop, Push, PushOverflow,
         DivisionTrap, NoOperand, Finish, Arithmetic, continues, aborts, StateTyped, raised
<1>6. m_pc' \in Nat
  <2>1. CASE Jump
    <3>1. m_pc' = data[1] /\ executing("jmp")
      BY <2>1 DEF Jump
    <3> QED
      BY <3>1, Executing
  <2>2. CASE JumpIf
    <3>1. (m_pc' = data[1] \/ m_pc' = m_pc + 1) /\ executing("jmp_if")
      BY <2>2 DEF JumpIf
    <3> QED
      BY <1>1, <3>1, Executing
  <2>3. CASE ~Jump /\ ~JumpIf
    <3>1. m_pc' = m_pc + 1 \/ m_pc' = m_pc \/ m_pc' = 0
      BY <2>3 DEF Interpret, InterpretAgain, Interrupt, Pop, Push, PushOverflow,
             DivisionTrap, NoOperand, Finish, Arithmetic, continues, aborts
    <3> QED
      BY <1>1, <3>1
  <2> QED
    BY <2>1, <2>2, <2>3
<1>7. StackTyped'
  <2>1. CASE Pop
    BY <2>1, PopStack
  <2>2. CASE Push
    BY <2>2, PushStack
  <2>3. ASSUME NEW name \in arithmetic, Arithmetic(name)
        PROVE  StackTyped'
    BY <2>3, ArithmeticStack
  <2>4. CASE UNCHANGED stackVars
    BY <1>1, <2>4 DEF StackTyped, stackVars
  <2>5. \/ Pop \/ Push \/ UNCHANGED stackVars \/ \E name \in arithmetic : Arithmetic(name)
    BY DEF Interpret, InterpretAgain, Interrupt, Jump, JumpIf, PushOverflow,
           DivisionTrap, NoOperand, Finish, stackVars
  <2> QED
    BY <2>1, <2>2, <2>3, <2>4, <2>5
<1> QED
  BY <1>2, <1>4, <1>5, <1>6, <1>7

(***************************************************************************)
(* The instruction counter is at the start until interpret is called.      *)
(***************************************************************************)
VMInv == VMTypeOK /\ (assembling => m_pc = 0)

LEMMA VMInvariant == VMSpec => []VMInv
<1>1. VMInit => VMInv
  BY InitTyped DEF VMInv, VMInit
<1>2. VMInv /\ [VMNext]_vmVars => VMInv'
  <2> SUFFICES ASSUME VMInv, [VMNext]_vmVars PROVE VMInv'
    OBVIOUS
  <2>1. CASE Assemble
    <3>1. VMTypeOK'
      BY <2>1, AssembleTyped DEF VMInv
    <3>2. assembling' => m_pc' = 0
      BY <2>1 DEF VMInv, Assemble, AssembleNoFile, AssembleNop, AssembleInstruction,
             AssembleUnknown, AssembleBeyondEnd, AssembleEnd, assembling
    <3> QED
      BY <3>1, <3>2 DEF VMInv
  <2>2. CASE Interpret \/ InterpretAgain
    <3>1. VMTypeOK'
      BY <2>2, InterpretTyped DEF VMInv
    <3>2. phase' # "assembling"
      BY <2>2 DEF Interpret, InterpretAgain, Interrupt, Jump, JumpIf, Pop, Push,
             PushOverflow, DivisionTrap, NoOperand, Finish, Arithmetic, continues, aborts,
             executing
    <3> QED
      BY <3>1, <3>2 DEF VMInv, assembling
  <2>3. CASE UNCHANGED vmVars
    <3>1. UNCHANGED <<source, code, position, assembly, m_pc, memory, sp, phase, status>>
      BY <2>3 DEF vmVars, given, stackVars
    <3>2. VMTypeOK'
      BY <3>1 DEF VMInv, VMTypeOK
    <3> QED
      BY <3>1, <3>2 DEF VMInv, assembling
  <2> QED
    BY <2>1, <2>2, <2>3 DEF VMNext
<1> QED
  BY <1>1, <1>2, PTL DEF VMSpec

(***************************************************************************)
(* For every stack and every code, whole elements lie between the stack    *)
(* pointer and the limit, so that every pop finds a header.                *)
(***************************************************************************)
THEOREM ElementsAreWhole == VMSpec => []VMTypeOK
<1>1. VMInv => VMTypeOK
  BY DEF VMInv
<1> QED
  BY <1>1, VMInvariant, PTL

-----------------------------------------------------------------------------
(***************************************************************************)
(* Cells: those of a joined sequence, and those an assembly stands for.    *)
(***************************************************************************)
LEMMA ThoseJoined ==
    ASSUME NEW E, NEW s \in Seq(E), NEW t \in Seq(E), NEW S
    PROVE  those(s \o t, S) = those(s, S) \o those(t, S)
<1> DEFINE r == s \o t
           A == Len(s)
           B == Len(t)
<1>1. /\ r \in Seq(E) /\ Len(r) = A + B /\ A \in Nat /\ B \in Nat
      /\ \A i \in 1..A : r[i] = s[i]
      /\ \A i \in 1..B : r[A + i] = t[i] /\ t[i] \in E
  OBVIOUS
<1> HIDE DEF r
<1>2. PICK f : /\ those(s, S) = f[Len(s)] /\ f[0] = << >>
               /\ \A n \in 1..Len(s) :
                    f[n] = IF s[n] \in S THEN Append(f[n - 1], s[n]) ELSE f[n - 1]
  BY ThoseSteps
<1>3. PICK g : /\ those(t, S) = g[Len(t)] /\ g[0] = << >>
               /\ \A n \in 1..Len(t) :
                    g[n] = IF t[n] \in S THEN Append(g[n - 1], t[n]) ELSE g[n - 1]
  BY ThoseSteps
<1>4. PICK h : /\ those(r, S) = h[Len(r)] /\ h[0] = << >>
               /\ \A n \in 1..Len(r) :
                    h[n] = IF r[n] \in S THEN Append(h[n - 1], r[n]) ELSE h[n - 1]
  <2>1. r \in Seq(E)
    BY <1>1
  <2> QED
    BY <2>1, ThoseSteps
<1> HIDE DEF A, B
<1> DEFINE P == {n \in Nat : n <= A => h[n] = f[n]}
           joined(n) == g[n] \in Seq(E) /\ h[A + n] = f[A] \o g[n]
           Q == {n \in Nat : n <= B => joined(n)}
<1>5. 0 \in P
  BY <1>2, <1>4
<1>6. ASSUME NEW n \in Nat, n \in P
      PROVE  n + 1 \in P
  <2>1. SUFFICES ASSUME n + 1 <= A PROVE h[n + 1] = f[n + 1]
    OBVIOUS
  <2>2. /\ n + 1 \in 1..A /\ n + 1 \in 1..Len(r) /\ (n + 1) - 1 = n
        /\ h[n] = f[n] /\ r[n + 1] = s[n + 1]
    BY <1>1, <1>6, <2>1
  <2>3. h[n + 1] = IF r[n + 1] \in S THEN Append(h[n], r[n + 1]) ELSE h[n]
    BY <1>4, <2>2
  <2>4. f[n + 1] = IF s[n + 1] \in S THEN Append(f[n], s[n + 1]) ELSE f[n]
    BY <1>2, <2>2 DEF A
  <2> QED
    BY <2>2, <2>3, <2>4
<1>7. A \in P
  <2> HIDE DEF P
  <2> QED
    BY <1>1, <1>5, <1>6, Induction
<1>8. f[A] \in Seq(E) /\ h[A] = f[A]
  <2>1. f[A] \in Seq(E)
    BY <1>2, ThoseElements DEF A
  <2> QED
    BY <1>1, <1>7, <2>1
<1>9. joined(0)
  <2>1. f[A] \o << >> = f[A] /\ << >> \in Seq(E)
    BY <1>8
  <2>2. g[0] = << >> /\ A + 0 = A
    BY <1>1, <1>3
  <2> QED
    BY <1>8, <2>1, <2>2
<1>10. ASSUME NEW n \in Nat, joined(n), n + 1 <= B
       PROVE  joined(n + 1)
  <2>1. /\ n + 1 \in 1..B /\ A + (n + 1) \in 1..Len(r)
        /\ (n + 1) - 1 = n /\ (A + (n + 1)) - 1 = A + n
    <3>1. A \in Nat /\ B \in Nat /\ Len(r) = A + B
      BY <1>1
    <3> QED
      BY <1>10, <3>1
  <2>2. r[A + (n + 1)] = t[n + 1] /\ t[n + 1] \in E
    BY <1>1, <2>1
  <2>3. h[A + (n + 1)] = IF t[n + 1] \in S THEN Append(h[A + n], t[n + 1]) ELSE h[A + n]
    <3> DEFINE k == A + (n + 1)
    <3>1. k \in 1..Len(r)
      BY <2>1
    <3> HIDE DEF k
    <3>2. h[k] = IF r[k] \in S THEN Append(h[k - 1], r[k]) ELSE h[k - 1]
      BY <1>4, <3>1
    <3> QED
      BY <2>1, <2>2, <3>2 DEF k
  <2>4. g[n + 1] = IF t[n + 1] \in S THEN Append(g[n], t[n + 1]) ELSE g[n]
    BY <1>3, <2>1 DEF B
  <2> DEFINE a == f[A]
             b == g[n]
             e == t[n + 1]
  <2>5. a \in Seq(E) /\ b \in Seq(E) /\ e \in E /\ h[A + n] = a \o b
    BY <1>8, <1>10, <2>2
  <2>6. h[A + (n + 1)] = IF e \in S THEN Append(h[A + n], e) ELSE h[A + n]
    BY <2>3
  <2>7. g[n + 1] = IF e \in S THEN Append(b, e) ELSE b
    BY <2>4
  <2> HIDE DEF a, b, e
  <2>8. Append(b, e) \in Seq(E)
    BY <2>5
  <2>9. Append(a \o b, e) = a \o Append(b, e)
    <3>1. a \o b \in Seq(E) /\ <<e>> \in Seq(E)
      BY <2>5
    <3>2. Append(a \o b, e) = (a \o b) \o <<e>> /\ Append(b, e) = b \o <<e>>
      BY <2>5, <3>1, AppendIsConcat
    <3>3. (a \o b) \o <<e>> = a \o (b \o <<e>>)
      BY <2>5, <3>1, ConcatAssociative
    <3> QED
      BY <3>2, <3>3
  <2>10. g[n + 1] \in Seq(E) /\ h[A + (n + 1)] = a \o g[n + 1]
    BY <2>5, <2>6, <2>7, <2>8, <2>9
  <2> QED
    BY <2>10 DEF a
<1> HIDE DEF joined
<1>11. B \in Nat
  BY <1>1
<1>12. 0 \in Q /\ \A n \in Nat : n \in Q => n + 1 \in Q
  BY <1>9, <1>10, <1>11
<1>13. B \in Q
  <2> HIDE DEF Q
  <2> QED
    BY <1>11, <1>12, Induction
<1>14. h[A + B] = f[A] \o g[B]
  <2>1. joined(B)
    BY <1>11, <1>13
  <2> QED
    BY <2>1 DEF joined
<1>15. those(r, S) = f[A] \o g[B]
  BY <1>1, <1>4, <1>14
<1> QED
  BY <1>2, <1>3, <1>15 DEF r, A, B

LEMMA ReverseTwice ==
    ASSUME NEW S, NEW w \in Seq(S)
    PROVE  Reverse(Reverse(w)) = w
<1> DEFINE n == Len(w)
           v == [i \in 1..n |-> w[(n - i) + 1]]
<1>1. n \in Nat /\ w = [i \in 1..n |-> w[i]] /\ \A i \in 1..n : w[i] \in S
  OBVIOUS
<1>2. \A i \in 1..n : (n - i) + 1 \in 1..n /\ (n - ((n - i) + 1)) + 1 = i
  BY <1>1
<1>3. v \in [1..n -> S]
  <2> HIDE DEF n
  <2> QED
    BY <1>1, <1>2
<1>4. Len(v) = n /\ \A i \in 1..n : v[(n - i) + 1] = w[i]
  <2>1. \A i \in 1..n : v[(n - i) + 1] = w[(n - ((n - i) + 1)) + 1]
    BY <1>2
  <2>2. \A i \in 1..n : v[(n - i) + 1] = w[i]
    <3> HIDE DEF v, n
    <3> QED
      BY <1>2, <2>1
  <2>3. Len(v) = n
    <3> HIDE DEF v, n
    <3> QED
      BY <1>1, <1>3
  <2> QED
    BY <2>2, <2>3
<1>5. Reverse(w) = v
  BY DEF Reverse
<1> HIDE DEF v, n
<1>6. Reverse(v) = [i \in 1..n |-> v[(n - i) + 1]]
  BY <1>4 DEF Reverse
<1>7. Reverse(v) = w
  BY <1>1, <1>4, <1>6
<1> QED
  BY <1>5, <1>7

LEMMA Encoding ==
    ASSUME NEW op \in 1..14, NEW w \in Seq(Word)
    PROVE  encoded([inst |-> tisc[op], arg |-> Reverse(w)]) = <<op>> \o w
<1> DEFINE one == [inst |-> tisc[op], arg |-> Reverse(w)]
           p == CHOOSE p \in DOMAIN tisc : tisc[p] = tisc[op]
<1>1. p \in 1..14 /\ tisc[p] = tisc[op]
  BY Opcodes
<1> HIDE DEF p
<1>2. p = op
  BY <1>1, OpcodesDiffer
<1>3. encoded(one) = <<p>> \o Reverse(Reverse(w))
  BY DEF encoded, p
<1>4. Reverse(Reverse(w)) = w
  BY ReverseTwice
<1> QED
  BY <1>2, <1>3, <1>4

Cells == Seq(Nat)

LEMMA EncodedTyped ==
    ASSUME NEW one \in Assembled
    PROVE  encoded(one) \in Cells
<1>1. one.inst \in ToSet(tisc) /\ one.arg \in Seq(Word)
  BY DEF Assembled, Word
<1> DEFINE p == CHOOSE p \in DOMAIN tisc : tisc[p] = one.inst
           v == Reverse(one.arg)
           n == Len(one.arg)
<1>2. p \in Nat
  <2>1. \E q \in DOMAIN tisc : tisc[q] = one.inst
    BY <1>1 DEF ToSet
  <2>2. p \in DOMAIN tisc
    BY <2>1
  <2> HIDE DEF p
  <2> QED
    BY <2>2, Opcodes
<1>3. v \in Cells
  <2>1. n \in Nat /\ \A i \in 1..n : one.arg[i] \in Nat
    BY <1>1, WordAssumption DEF Word
  <2>2. v = [i \in 1..n |-> one.arg[(n - i) + 1]]
    BY DEF Reverse
  <2> HIDE DEF n, v
  <2>3. \A i \in 1..n : (n - i) + 1 \in 1..n
    BY <2>1
  <2>4. v \in [1..n -> Nat]
    BY <2>1, <2>2, <2>3
  <2> QED
    BY <2>1, <2>4 DEF Cells
<1>4. encoded(one) = <<p>> \o v
  BY DEF encoded
<1> HIDE DEF p, v
<1> QED
  BY <1>2, <1>3, <1>4 DEF Cells

LEMMA CellsSteps ==
    ASSUME NEW asm \in Seq(Assembled)
    PROVE  \E f \in [0..Len(asm) -> Cells] :
              /\ cellsOf(asm) = f[Len(asm)] /\ f[0] = << >>
              /\ \A n \in 1..Len(asm) : f[n] = f[n - 1] \o encoded(asm[n])
<1> DEFINE K == Len(asm)
           Def(f) == f = [n \in 0..K |-> IF n = 0 THEN << >> ELSE f[n - 1] \o encoded(asm[n])]
           F == [n \in 1..K |-> [x \in Cells |-> x \o encoded(asm[n])]]
<1>1. K \in Nat /\ \A n \in 1..K : encoded(asm[n]) \in Cells
  BY EncodedTyped
<1>2. F \in [1..K -> [Cells -> Cells]]
  <2>1. \A x \in Cells, y \in Cells : x \o y \in Cells
    BY DEF Cells
  <2> QED
    BY <1>1, <2>1
<1>3. PICK g \in [0..K -> Cells] : g[0] = << >> /\ \A n \in 1..K : g[n] = F[n][g[n - 1]]
  <2>1. << >> \in Cells
    BY DEF Cells
  <2> HIDE DEF K, F
  <2>2. recursionExists(K, [n \in 0..K |-> Cells], << >>, F)
    BY <1>1, <1>2, <2>1, Recursion
  <2> QED
    BY <2>2 DEF recursionExists, isRecursive
<1>4. \A n \in 1..K : g[n] = g[n - 1] \o encoded(asm[n])
  <2> SUFFICES ASSUME NEW n \in 1..K PROVE g[n] = g[n - 1] \o encoded(asm[n])
    OBVIOUS
  <2>1. g[n - 1] \in Cells
    BY <1>1, <1>3
  <2> QED
    BY <1>3, <2>1
<1>5. Def(g)
  <2>1. \A n \in 0..K : n # 0 => n \in 1..K
    BY <1>1
  <2> HIDE DEF K
  <2> QED
    BY <1>3, <1>4, <2>1
<1> DEFINE f == CHOOSE f : Def(f)
<1>6. cellsOf(asm) = f[K]
  BY DEF cellsOf
<1>7. Def(f)
  <2> HIDE DEF Def
  <2> QED
    BY <1>5
<1> HIDE DEF f
<1> DEFINE S == {n \in Nat : n <= K => f[n] = g[n]}
<1>8. \A n \in 0..K : f[n] = IF n = 0 THEN << >> ELSE f[n - 1] \o encoded(asm[n])
  BY <1>7
<1>9. 0 \in S
  BY <1>1, <1>3, <1>8
<1>10. ASSUME NEW n \in Nat, n \in S
       PROVE  n + 1 \in S
  <2>1. SUFFICES ASSUME n + 1 <= K PROVE f[n + 1] = g[n + 1]
    OBVIOUS
  <2>2. n + 1 \in 1..K /\ n + 1 \in 0..K /\ (n + 1) - 1 = n /\ f[n] = g[n]
    BY <1>10, <2>1
  <2>3. f[n + 1] = f[n] \o encoded(asm[n + 1])
    <3> DEFINE k == n + 1
    <3>1. k \in 0..K /\ k # 0 /\ k - 1 = n
      BY <1>10, <2>2
    <3> HIDE DEF k
    <3>2. f[k] = f[k - 1] \o encoded(asm[k])
      BY <1>8, <3>1
    <3>3. f[k] = f[n] \o encoded(asm[k])
      BY <3>1, <3>2
    <3> QED
      BY <3>3 DEF k
  <2>4. g[n + 1] = g[n] \o encoded(asm[n + 1])
    BY <1>4, <2>2
  <2> QED
    BY <2>2, <2>3, <2>4
<1>11. K \in S
  <2> HIDE DEF S, K
  <2> QED
    BY <1>1, <1>9, <1>10, Induction
<1>12. cellsOf(asm) = g[K]
  BY <1>1, <1>6, <1>11
<1> QED
  BY <1>3, <1>4, <1>12

LEMMA CellsOfNothing == cellsOf(<< >>) = << >>
<1>1. << >> \in Seq(Assembled) /\ Len(<< >>) = 0
  OBVIOUS
<1> QED
  BY <1>1, CellsSteps

LEMMA CellsTyped ==
    ASSUME NEW asm \in Seq(Assembled)
    PROVE  cellsOf(asm) \in Cells
<1>1. Len(asm) \in 0..Len(asm)
  OBVIOUS
<1>2. PICK f \in [0..Len(asm) -> Cells] :
              /\ cellsOf(asm) = f[Len(asm)] /\ f[0] = << >>
              /\ \A n \in 1..Len(asm) : f[n] = f[n - 1] \o encoded(asm[n])
  BY CellsSteps
<1> QED
  BY <1>1, <1>2

LEMMA CellsAppended ==
    ASSUME NEW asm \in Seq(Assembled), NEW one \in Assembled
    PROVE  cellsOf(Append(asm, one)) = cellsOf(asm) \o encoded(one)
<1> DEFINE more == Append(asm, one)
           K == Len(asm)
<1>1. /\ more \in Seq(Assembled) /\ Len(more) = K + 1 /\ K \in Nat /\ more[K + 1] = one
      /\ \A n \in 1..K : more[n] = asm[n]
  OBVIOUS
<1> HIDE DEF more
<1>2. PICK f \in [0..Len(asm) -> Cells] :
              /\ cellsOf(asm) = f[Len(asm)] /\ f[0] = << >>
              /\ \A n \in 1..Len(asm) : f[n] = f[n - 1] \o encoded(asm[n])
  BY CellsSteps
<1>3. PICK g \in [0..Len(more) -> Cells] :
              /\ cellsOf(more) = g[Len(more)] /\ g[0] = << >>
              /\ \A n \in 1..Len(more) : g[n] = g[n - 1] \o encoded(more[n])
  BY <1>1, CellsSteps
<1> DEFINE S == {n \in Nat : n <= K => g[n] = f[n]}
<1>4. 0 \in S
  BY <1>2, <1>3
<1>5. ASSUME NEW n \in Nat, n \in S
      PROVE  n + 1 \in S
  <2>1. SUFFICES ASSUME n + 1 <= K PROVE g[n + 1] = f[n + 1]
    OBVIOUS
  <2>2. /\ n + 1 \in 1..K /\ n + 1 \in 1..Len(more) /\ (n + 1) - 1 = n
        /\ g[n] = f[n] /\ more[n + 1] = asm[n + 1]
    BY <1>1, <1>5, <2>1
  <2>3. g[n + 1] = g[n] \o encoded(more[n + 1])
    BY <1>3, <2>2
  <2>4. f[n + 1] = f[n] \o encoded(asm[n + 1])
    BY <1>2, <2>2
  <2> QED
    BY <2>2, <2>3, <2>4
<1>6. K \in S
  <2> HIDE DEF S, K
  <2> QED
    BY <1>1, <1>4, <1>5, Induction
<1>7. K + 1 \in 1..Len(more) /\ (K + 1) - 1 = K
  BY <1>1
<1>8. g[K + 1] = g[K] \o encoded(more[K + 1])
  BY <1>3, <1>7
<1>9. cellsOf(more) = g[K + 1] /\ more[K + 1] = one /\ g[K] = f[K]
  BY <1>1, <1>3, <1>6
<1>10. cellsOf(more) = f[K] \o encoded(one)
  BY <1>8, <1>9
<1> QED
  BY <1>2, <1>10 DEF more

(***************************************************************************)
(* Reading on: the cells up to a position, and then n more.                *)
(***************************************************************************)
LEMMA ReadOn ==
    ASSUME NEW c \in Cells, NEW p \in Nat, NEW w \in Cells, p + Len(w) <= Len(c),
           \A i \in 1..Len(w) : w[i] = c[p + i]
    PROVE  /\ SubSeq(c, 1, p) \in Cells
           /\ SubSeq(c, 1, p + Len(w)) = SubSeq(c, 1, p) \o w
<1> DEFINE n == Len(w)
           a == SubSeq(c, 1, p)
           b == SubSeq(c, 1, p + n)
<1>1. n \in Nat /\ Len(c) \in Nat /\ p + n <= Len(c) /\ p <= Len(c)
  BY DEF Cells
<1>2. c \in Seq(Nat) /\ w \in Seq(Nat)
  BY DEF Cells
<1>3. a \in Seq(Nat) /\ Len(a) = p /\ \A i \in 1..p : a[i] = c[i]
  <2> HIDE DEF n
  <2> QED
    BY <1>1, <1>2
<1>4. /\ b \in Seq(Nat) /\ Len(b) = p + n /\ \A i \in 1..(p + n) : b[i] = c[i]
  <2> HIDE DEF n
  <2> QED
    BY <1>1, <1>2
<1>5. \A i \in 1..n : w[i] = c[p + i]
  OBVIOUS
<1>6. w \in Seq(Nat) /\ Len(w) = n
  BY <1>2
<1> HIDE DEF a, b, n
<1>7. /\ a \o w \in Seq(Nat) /\ Len(a \o w) = Len(a) + Len(w)
      /\ \A i \in 1..Len(a) : (a \o w)[i] = a[i]
      /\ \A i \in 1..Len(w) : (a \o w)[Len(a) + i] = w[i]
  <2>1. a \in Seq(Nat) /\ w \in Seq(Nat)
    BY <1>3, <1>6
  <2>2. a \o w \in Seq(Nat) /\ Len(a \o w) = Len(a) + Len(w)
    BY <2>1
  <2>3. \A i \in 1..Len(a) : (a \o w)[i] = a[i]
    BY <2>1
  <2>4. \A i \in 1..Len(w) : (a \o w)[Len(a) + i] = w[i]
    BY <2>1
  <2> QED
    BY <2>2, <2>3, <2>4
<1>8. ASSUME NEW i \in 1..(p + n)
      PROVE  (a \o w)[i] = b[i]
  <2>1. CASE i <= p
    <3>1. i \in 1..p
      BY <1>1, <2>1
    <3> QED
      BY <1>3, <1>4, <1>7, <3>1
  <2>2. CASE ~(i <= p)
    <3> DEFINE k == i - p
    <3>1. k \in 1..n /\ i = p + k
      BY <1>1, <2>2
    <3> HIDE DEF k
    <3>2. (a \o w)[i] = w[k]
      BY <1>3, <1>6, <1>7, <3>1
    <3>3. w[k] = c[i]
      BY <1>5, <3>1
    <3> QED
      BY <1>4, <3>2, <3>3
  <2> QED
    BY <2>1, <2>2
<1>9. b = a \o w
  <2> DEFINE d == a \o w
  <2>1. /\ d \in Seq(Nat) /\ Len(d) = Len(b) /\ b \in Seq(Nat)
        /\ \A i \in 1..Len(b) : d[i] = b[i]
    BY <1>3, <1>4, <1>6, <1>7, <1>8
  <2> HIDE DEF d
  <2>2. d = b
    BY <2>1
  <2> QED
    BY <2>2 DEF d
<1> QED
  BY <1>3, <1>9 DEF a, b, n, Cells

LEMMA NonzeroJoined ==
    ASSUME NEW s \in Cells, NEW t \in Cells
    PROVE  nonzero(s \o t) = nonzero(s) \o nonzero(t)
BY ThoseJoined DEF Cells, nonzero

LEMMA NonzeroNop == <<0>> \in Cells /\ nonzero(<<0>>) = << >>
<1>1. <<0>> \in Seq(Nat) /\ Len(<<0>>) = 1
  OBVIOUS
<1> DEFINE s == <<0>>
           S == Nat \ {0}
<1>2. s \in Seq(Nat) /\ Len(s) = 1 /\ s[1] = 0 /\ 0 \notin S
  BY <1>1
<1> HIDE DEF s, S
<1>3. PICK f : /\ those(s, S) = f[Len(s)] /\ f[0] = << >>
               /\ \A n \in 1..Len(s) :
                    f[n] = IF s[n] \in S THEN Append(f[n - 1], s[n]) ELSE f[n - 1]
  BY <1>2, ThoseSteps
<1>4. f[1] = IF s[1] \in S THEN Append(f[1 - 1], s[1]) ELSE f[1 - 1]
  BY <1>2, <1>3
<1>5. those(s, S) = << >>
  BY <1>2, <1>3, <1>4
<1> QED
  BY <1>1, <1>5 DEF s, S, nonzero, Cells

(***************************************************************************)
(* Reading one more instruction keeps the assembly and the cells together. *)
(***************************************************************************)
decoded(asm, c, p) == Len(cellsOf(asm)) <= p /\ nonzero(cellsOf(asm)) = nonzero(SubSeq(c, 1, p))

LEMMA CodeIsCells == VMTypeOK => code \in Cells /\ Len(code) \in Nat
<1> SUFFICES ASSUME VMTypeOK PROVE code \in Cells /\ Len(code) \in Nat
  OBVIOUS
<1>1. code \in Seq(Word)
  BY CodesAssumption DEF VMTypeOK, Word
<1>2. \A i \in 1..Len(code) : code[i] \in Nat
  BY <1>1, WordAssumption DEF Word
<1> QED
  BY <1>1, <1>2 DEF Cells

LEMMA ContinuedIsCells ==
    ASSUME VMTypeOK
    PROVE  /\ continued \in Cells /\ Len(continued) = Len(code) + 2
           /\ \A i \in 1..Len(code) : continued[i] = code[i]
           /\ \A i \in 1..Len(continued) : i > Len(code) => continued[i] = W - 1
           /\ \A i \in 1..Len(continued) : continued[i] \in Word
<1> DEFINE ones == <<W - 1, W - 1>>
<1>1. code \in Seq(Word)
  BY CodesAssumption DEF VMTypeOK, Word
<1>2. W - 1 \in Word /\ W - 1 \in Nat /\ Word \subseteq Nat
  BY WordAssumption DEF Word
<1>3. ones \in Seq(Word) /\ Len(ones) = 2 /\ \A i \in 1..2 : ones[i] = W - 1
  BY <1>2
<1> HIDE DEF ones
<1>4. continued = code \o ones
  BY DEF continued, ones
<1>5. /\ Len(continued) = Len(code) + 2 /\ Len(code) \in Nat
      /\ \A i \in 1..(Len(code) + 2) :
             continued[i] = IF i <= Len(code) THEN code[i] ELSE ones[i - Len(code)]
  <2>1. Len(code \o ones) = Len(code) + Len(ones)
    BY <1>1, <1>3, ConcatProperties
  <2>2. \A i \in 1..Len(code) + Len(ones) :
            (code \o ones)[i] = IF i <= Len(code) THEN code[i] ELSE ones[i - Len(code)]
    BY <1>1, <1>3, ConcatProperties
  <2>3. Len(code) \in Nat
    BY CodeIsCells
  <2> QED
    BY <1>3, <1>4, <2>1, <2>2, <2>3
<1>6. \A i \in 1..Len(code) : continued[i] = code[i] /\ code[i] \in Word
  BY <1>1, <1>5
<1>7. \A i \in 1..Len(continued) : i > Len(code) => continued[i] = W - 1
  <2>1. ASSUME NEW i \in 1..Len(continued), i > Len(code)
        PROVE  continued[i] = W - 1
    <3>1. i - Len(code) \in 1..2
      BY <1>5, <2>1
    <3> QED
      BY <1>3, <1>5, <2>1, <3>1
  <2> QED
    BY <2>1
<1>8. \A i \in 1..Len(continued) : continued[i] \in Word
  <2>1. ASSUME NEW i \in 1..Len(continued)
        PROVE  continued[i] \in Word
    <3>1. CASE i <= Len(code)
      <4>1. i \in 1..Len(code)
        BY <1>5, <3>1
      <4> QED
        BY <1>6, <4>1
    <3>2. CASE i > Len(code)
      BY <1>2, <1>7, <3>2
    <3> QED
      BY <1>5, <3>1, <3>2
  <2> QED
    BY <2>1
<1>9. continued \in Seq(Nat)
  <2>1. code \in Seq(Nat)
    BY CodeIsCells DEF Cells
  <2>2. ones \in Seq(Nat)
    BY <1>2 DEF ones
  <2> QED
    BY <1>4, <2>1, <2>2, ConcatProperties
<1> QED
  BY <1>2, <1>5, <1>6, <1>7, <1>8, <1>9 DEF Cells

LEMMA NopDecoded ==
    ASSUME VMTypeOK, AssembleNop, decoded(assembly, continued, position)
    PROVE  decoded(assembly, continued, position + 1)
<1> DEFINE w == <<0>>
           a == SubSeq(continued, 1, position)
<1>1. /\ continued \in Cells /\ Len(continued) = Len(code) + 2 /\ Len(code) \in Nat
      /\ position \in Nat /\ assembly \in Seq(Assembled)
  BY CodeIsCells, ContinuedIsCells DEF VMTypeOK
<1>2. position + 1 <= Len(code) /\ continued[position + 1] = 0
  <2>1. position < Len(code) /\ code[position + 1] = 0
    BY <1>1 DEF AssembleNop, opcode, EOF
  <2> QED
    BY <1>1, <2>1, ContinuedIsCells
<1>3. Len(w) = 1 /\ w[1] = 0 /\ w \in Cells /\ nonzero(w) = << >>
  BY NonzeroNop
<1> HIDE DEF w
<1>4. \A i \in 1..Len(w) : w[i] = continued[position + i]
  BY <1>2, <1>3
<1>5. a \in Cells /\ SubSeq(continued, 1, position + 1) = a \o w
  <2>1. position + Len(w) <= Len(continued)
    BY <1>1, <1>2, <1>3
  <2>2. a \in Cells /\ SubSeq(continued, 1, position + Len(w)) = a \o w
    BY <1>1, <1>3, <1>4, <2>1, ReadOn
  <2> QED
    BY <1>3, <2>2
<1>6. nonzero(a \o w) = nonzero(a) \o nonzero(w)
  BY <1>3, <1>5, NonzeroJoined
<1>7. nonzero(a) \in Seq(Nat)
  BY <1>5, ThoseElements DEF nonzero, Cells
<1>8. nonzero(a) \o << >> = nonzero(a)
  BY <1>7
<1>9. Len(cellsOf(assembly)) \in Nat
  BY <1>1, CellsTyped DEF Cells
<1>10. Len(cellsOf(assembly)) <= position + 1
  BY <1>1, <1>9 DEF decoded
<1>11. nonzero(cellsOf(assembly)) = nonzero(SubSeq(continued, 1, position + 1))
  BY <1>3, <1>5, <1>6, <1>8 DEF decoded
<1> QED
  BY <1>10, <1>11 DEF decoded

LEMMA InstructionDecoded ==
    ASSUME VMTypeOK, AssembleInstruction, VMTypeOK', decoded(assembly, continued, position)
    PROVE  decoded(assembly', continued, position')
<1> DEFINE inst == tisc[opcode]
           n == inst.args
           one == [inst |-> inst, arg |-> operandWords(n)]
           words == [i \in 1..n |-> IF position + 1 + i <= Len(code)
                                    THEN code[position + 1 + i] ELSE W - 1]
           w == <<opcode>> \o words
           a == SubSeq(continued, 1, position)
<1>1. /\ continued \in Cells /\ Len(continued) = Len(code) + 2
      /\ Len(code) \in Nat /\ position \in Nat
      /\ assembly \in Seq(Assembled) /\ code \in Codes
  BY CodeIsCells, ContinuedIsCells DEF VMTypeOK
<1>2. /\ opcode \in 1..14 /\ assembly' = Append(assembly, one)
      /\ position' = position + 1 + n
  BY Opcodes DEF AssembleInstruction
<1>3. n \in 0..2 /\ inst \in ToSet(tisc)
  <2>1. inst \in ToSet(tisc)
    BY <1>2, Opcodes DEF ToSet
  <2> HIDE DEF inst
  <2> QED
    BY <2>1, InstructionSet
<1> HIDE DEF n
<1>4. position + 1 <= Len(code) /\ position + 1 + n <= Len(continued)
  <2>1. position < Len(code)
    BY <1>2 DEF opcode, EOF
  <2> QED
    BY <1>1, <1>3, <2>1
<1>5. opcode = continued[position + 1]
  BY <1>1, <1>4, ContinuedIsCells DEF opcode
<1>6. \A i \in 1..n : position + 1 + i \in 1..Len(continued)
  BY <1>1, <1>3, <1>4
<1>7. words = [i \in 1..n |-> continued[position + 1 + i]]
  <2>1. ASSUME NEW i \in 1..n
        PROVE  continued[position + 1 + i] = IF position + 1 + i <= Len(code)
                                             THEN code[position + 1 + i] ELSE W - 1
    <3> DEFINE k == position + 1 + i
    <3>1. k \in 1..Len(continued)
      BY <1>6, <2>1
    <3> HIDE DEF k
    <3>2. continued[k] = IF k <= Len(code) THEN code[k] ELSE W - 1
      <4>1. CASE k <= Len(code)
        <5>1. k \in 1..Len(code)
          BY <1>1, <3>1, <4>1
        <5> QED
          BY <4>1, <5>1, ContinuedIsCells
      <4>2. CASE ~(k <= Len(code))
        <5>1. k > Len(code)
          BY <1>1, <3>1, <4>2
        <5> QED
          BY <3>1, <4>2, <5>1, ContinuedIsCells
      <4> QED
        BY <4>1, <4>2
    <3> QED
      BY <3>2 DEF k
  <2> QED
    BY <2>1
<1>8. operandWords(n) = Reverse(words)
  BY DEF operandWords
<1>9. \A i \in 1..Len(continued) : continued[i] \in Word
  BY ContinuedIsCells
<1> HIDE DEF words
<1>10. words \in Seq(Word) /\ Len(words) = n /\ \A i \in 1..n : words[i] = continued[position + 1 + i]
  <2>1. words \in [1..n -> Word]
    BY <1>6, <1>7, <1>9
  <2> QED
    BY <1>3, <1>7, <2>1
<1>11. words \in Cells
  <2>1. \A i \in 1..n : words[i] \in Nat
    BY <1>10, WordAssumption DEF Word
  <2> QED
    BY <1>10, <2>1 DEF Cells
<1>12. encoded(one) = w
  BY <1>2, <1>8, <1>10, Encoding
<1>13. one \in Assembled
  <2>1. operandWords(n) \in Seq(Word)
    BY <1>1, <1>3, OperandRead
  <2> QED
    BY <1>3, <2>1 DEF Assembled, Word
<1> HIDE DEF one, inst
<1>14. /\ w \in Cells /\ Len(w) = 1 + n
       /\ \A i \in 1..Len(w) : w[i] = continued[position + i]
  <2>1. w \in Seq(Nat) /\ Len(w) = 1 + n
    BY <1>2, <1>3, <1>10, <1>11 DEF Cells
  <2>2. w[1] = opcode /\ \A i \in 1..n : w[1 + i] = words[i]
    BY <1>2, <1>3, <1>10, <1>11 DEF Cells
  <2> HIDE DEF w
  <2>3. ASSUME NEW i \in 1..Len(w)
        PROVE  w[i] = continued[position + i]
    <3>1. CASE i = 1
      BY <1>5, <2>2, <3>1
    <3>2. CASE i # 1
      <4> DEFINE j == i - 1
      <4>1. j \in 1..n /\ i = 1 + j
        BY <1>3, <2>1, <3>2
      <4> HIDE DEF j
      <4>2. w[i] = words[j] /\ words[j] = continued[position + 1 + j]
        BY <1>10, <2>2, <4>1
      <4>3. position + 1 + j = position + i
        BY <1>1, <4>1
      <4> QED
        BY <4>2, <4>3
    <3> QED
      BY <3>1, <3>2
  <2> QED
    BY <2>1, <2>3 DEF Cells
<1> HIDE DEF w
<1>15. a \in Cells /\ SubSeq(continued, 1, position') = a \o w
  <2>1. position + Len(w) <= Len(continued) /\ position' = position + Len(w)
    BY <1>1, <1>2, <1>3, <1>4, <1>14
  <2>2. a \in Cells /\ SubSeq(continued, 1, position + Len(w)) = a \o w
    BY <1>1, <1>14, <2>1, ReadOn
  <2> QED
    BY <2>1, <2>2
<1>16. cellsOf(assembly') = cellsOf(assembly) \o w
  BY <1>1, <1>2, <1>12, <1>13, CellsAppended
<1>17. cellsOf(assembly) \in Cells
  BY <1>1, CellsTyped
<1> DEFINE old == cellsOf(assembly)
<1> HIDE DEF old, a
<1>18. nonzero(old \o w) = nonzero(old) \o nonzero(w) /\ nonzero(a \o w) = nonzero(a) \o nonzero(w)
  BY <1>14, <1>15, <1>17, NonzeroJoined DEF old
<1>19. nonzero(old) = nonzero(a) /\ Len(old) <= position
  BY DEF decoded, old, a
<1>20. Len(old \o w) <= position'
  <2>1. old \in Seq(Nat) /\ w \in Seq(Nat)
    BY <1>14, <1>17 DEF Cells, old
  <2>2. Len(old \o w) = Len(old) + Len(w) /\ Len(old) \in Nat
    BY <2>1
  <2> QED
    BY <1>1, <1>2, <1>3, <1>14, <1>19, <2>2
<1> QED
  BY <1>15, <1>16, <1>18, <1>19, <1>20 DEF decoded, old

LEMMA InitDecodes == VMInit => AssemblyDecodesCode
<1> SUFFICES ASSUME VMInit PROVE AssemblyDecodesCode
  OBVIOUS
<1>1. position = 0 /\ assembly = << >> /\ VMTypeOK
  BY InitTyped DEF VMInit
<1>2. cellsOf(assembly) = << >> /\ Len(<< >>) = 0
  BY <1>1, CellsOfNothing
<1>3. SubSeq(continued, 1, 0) = << >>
  <2>1. continued \in Seq(Nat)
    BY <1>1, ContinuedIsCells DEF Cells
  <2> QED
    BY <2>1
<1>4. Len(cellsOf(assembly)) <= position
  BY <1>1, <1>2
<1>5. cellsOf(assembly) = SubSeq(continued, 1, position)
  BY <1>1, <1>2, <1>3
<1> QED
  BY <1>4, <1>5 DEF AssemblyDecodesCode

LEMMA StepDecodes == VMInv /\ VMInv' /\ AssemblyDecodesCode /\ [VMNext]_vmVars => AssemblyDecodesCode'
<1> SUFFICES ASSUME VMInv, VMInv', AssemblyDecodesCode, [VMNext]_vmVars, assembling'
             PROVE  decoded(assembly', continued', position')
  BY DEF AssemblyDecodesCode, decoded
<1>1. VMTypeOK /\ VMTypeOK'
  BY DEF VMInv
<1>2. assembling => decoded(assembly, continued, position)
  BY DEF AssemblyDecodesCode, decoded
<1>3. code' = code => continued' = continued
  BY DEF continued
<1>4. CASE AssembleNop
  <2>1. /\ code' = code /\ assembly' = assembly /\ position' = position + 1
        /\ assembling
    BY <1>4 DEF AssembleNop, given
  <2>2. decoded(assembly, continued, position + 1)
    BY <1>1, <1>2, <1>4, <2>1, NopDecoded
  <2> QED
    BY <1>3, <2>1, <2>2
<1>5. CASE AssembleInstruction
  <2>1. code' = code /\ assembling
    BY <1>5 DEF AssembleInstruction, given
  <2>2. decoded(assembly', continued, position')
    BY <1>1, <1>2, <1>5, <2>1, InstructionDecoded
  <2> QED
    BY <1>3, <2>1, <2>2
<1>6. CASE AssembleNoFile \/ AssembleUnknown \/ AssembleBeyondEnd \/ AssembleEnd
  BY <1>6 DEF AssembleNoFile, AssembleUnknown, AssembleBeyondEnd, AssembleEnd, assembling
<1>7. CASE Interpret \/ InterpretAgain
  BY <1>7 DEF Interpret, InterpretAgain, Interrupt, Jump, JumpIf, Pop, Push,
         PushOverflow, DivisionTrap, NoOperand, Finish, Arithmetic, continues, aborts,
         executing, assembling
<1>8. CASE UNCHANGED vmVars
  <2>1. code' = code /\ assembly' = assembly /\ position' = position /\ assembling
    BY <1>8 DEF vmVars, given, assembling
  <2> QED
    BY <1>2, <1>3, <2>1
<1> QED
  BY <1>4, <1>5, <1>6, <1>7, <1>8 DEF VMNext, Assemble

(***************************************************************************)
(* Whatever the code, what has been assembled, put back into cells, are    *)
(* the cells that have been read, but for the nops between instructions.   *)
(***************************************************************************)
THEOREM AssemblyIsTheCode == VMSpec => []AssemblyDecodesCode
BY InitDecodes, StepDecodes, VMInvariant, PTL DEF VMSpec

-----------------------------------------------------------------------------
(***************************************************************************)
(* The machine of the documents.  Its numbers are those of the program.    *)
(***************************************************************************)
LEMMA MachineNumbers ==
    ASSUME NEW name, NEW x, NEW y, NEW n
    PROVE  /\ Machine!arithmetic = arithmetic
           /\ Machine!value(x) = value(x) /\ Machine!asWords(x, n) = asWords(x, n)
           /\ Machine!traps(name, x, y, n) <=> traps(name, x, y, n)
           /\ Machine!calculate(name, x, y, n) = calculate(name, x, y, n)
<1>1. Machine!arithmetic = arithmetic
  BY DEF Machine!arithmetic, arithmetic
<1>2. Machine!value(x) = value(x) /\ Machine!asWords(x, n) = asWords(x, n)
  BY DEF Machine!value, value, Machine!asWords, asWords
<1>3. \A v : Machine!signed(v, n) = signed(v, n)
  BY DEF Machine!signed, signed, Machine!modulus, modulus
<1>4. Machine!modulus(n) = modulus(n)
  BY DEF Machine!modulus, modulus
<1>5. Machine!traps(name, x, y, n) <=> traps(name, x, y, n)
  BY <1>3, <1>4 DEF Machine!traps, traps
<1>6. \A i, j : Machine!quotient(i, j) = quotient(i, j)
  BY DEF Machine!quotient, quotient, Machine!magnitude, magnitude
<1>7. Machine!calculate(name, x, y, n) = calculate(name, x, y, n)
  BY Zenon DEF Machine!calculate, calculate, Machine!quotient, quotient, Machine!magnitude,
       magnitude, Machine!signed, signed, Machine!modulus, modulus
<1> QED
  BY <1>1, <1>2, <1>5, <1>7

(***************************************************************************)
(* What is on the stack: nothing, or an element and what is below it.      *)
(***************************************************************************)
LEMMA OnStack ==
    ASSUME NEW mem \in Memories, NEW s \in 0..stackWords, chained(mem, s)
    PROVE  /\ contents(mem, s) \in Contents
           /\ s = stackWords => contents(mem, s) = << >>
           /\ s # stackWords =>
                 /\ after(mem, s) \in 0..stackWords /\ chained(mem, after(mem, s))
                 /\ elementAt(mem, s) \in Seq(Word) /\ Len(elementAt(mem, s)) = mem[s]
                 /\ contents(mem, after(mem, s)) \in Contents
                 /\ contents(mem, s) = <<elementAt(mem, s)>> \o contents(mem, after(mem, s))
<1>1. contents(mem, s) \in Contents
  BY ContentsTop
<1>2. s = stackWords => contents(mem, s) = << >>
  BY ContentsEmpty
<1>3. ASSUME s # stackWords
      PROVE  /\ after(mem, s) \in 0..stackWords /\ chained(mem, after(mem, s))
             /\ elementAt(mem, s) \in Seq(Word) /\ Len(elementAt(mem, s)) = mem[s]
             /\ contents(mem, after(mem, s)) \in Contents
             /\ contents(mem, s) = <<elementAt(mem, s)>> \o contents(mem, after(mem, s))
  <2> DEFINE p == after(mem, s)
  <2>1. p \in (s + 2)..stackWords /\ chained(mem, p)
    BY <1>3, ChainTop
  <2>2. p \in 0..stackWords /\ p <= stackWords
    <3> HIDE DEF p
    <3> QED
      BY <2>1, CodesAssumption
  <2>3. elementAt(mem, s) \in Seq(Word) /\ Len(elementAt(mem, s)) = mem[s]
    BY <2>2, ElementTyped
  <2>4. contents(mem, s) = <<elementAt(mem, s)>> \o contents(mem, p)
    BY <2>2, ContentsTop
  <2> HIDE DEF p
  <2>5. contents(mem, p) \in Contents
    BY <2>2, ContentsTop
  <2> QED
    BY <2>1, <2>2, <2>3, <2>4, <2>5 DEF p
<1> QED
  BY <1>1, <1>2, <1>3

LEMMA TopOperand ==
    ASSUME NEW q \in Contents, NEW x \in Seq(Word)
    PROVE  /\ <<x>> \o q \in Contents /\ <<x>> \o q # << >>
           /\ Len(<<x>> \o q) = Len(q) + 1 /\ Len(q) \in Nat
           /\ (<<x>> \o q)[1] = x /\ Tail(<<x>> \o q) = q
<1>1. q \in Seq(Seq(Word)) /\ <<x>> \in Seq(Seq(Word))
  BY DEF Contents
<1>2. /\ <<x>> \o q \in Seq(Seq(Word)) /\ Len(<<x>> \o q) = Len(q) + 1 /\ Len(q) \in Nat
      /\ (<<x>> \o q)[1] = x
  BY <1>1
<1>3. Tail(<<x>> \o q) = q
  <2> DEFINE r == <<x>> \o q
  <2>1. r \in Seq(Seq(Word)) /\ r # << >> /\ Len(r) = Len(q) + 1
    BY <1>2
  <2>2. \A i \in 1..Len(q) : r[i + 1] = q[i]
    BY <1>1
  <2> HIDE DEF r
  <2>3. /\ Tail(r) \in Seq(Seq(Word)) /\ Len(Tail(r)) = Len(r) - 1
        /\ \A i \in 1..Len(Tail(r)) : Tail(r)[i] = r[i + 1]
    BY <2>1, HeadTailProperties
  <2>4. Len(Tail(r)) = Len(q) /\ \A i \in 1..Len(Tail(r)) : Tail(r)[i] = q[i]
    BY <1>2, <2>1, <2>2, <2>3
  <2>5. Tail(r) = q
    BY <1>1, <2>3, <2>4, SeqEqual
  <2> QED
    BY <2>5 DEF r
<1>4. <<x>> \o q # << >>
  BY <1>2
<1> QED
  BY <1>2, <1>3, <1>4 DEF Contents

LEMMA ElementsNow ==
    ASSUME VMTypeOK
    PROVE  /\ elements \in Contents /\ Len(elements) \in Nat
           /\ empty(sp) <=> elements = << >>
           /\ empty(sp) => Len(elements) = 0
           /\ ~empty(sp) =>
                 /\ Len(elements) >= 1 /\ popped(sp) = after(memory, sp)
                 /\ elements[1] = elementAt(memory, sp) /\ Len(elements[1]) = memory[sp]
                 /\ Tail(elements) = contents(memory, after(memory, sp))
           /\ twoElements <=> Len(elements) >= 2
           /\ twoElements =>
                 /\ elements[2] = elementAt(memory, after(memory, sp))
                 /\ Len(elements[2]) = memory[after(memory, sp)]
                 /\ Tail(Tail(elements)) = contents(memory, after(memory, after(memory, sp)))
<1> DEFINE p == after(memory, sp)
           e == elementAt(memory, sp)
           d == elementAt(memory, p)
           rest == contents(memory, p)
           below == contents(memory, after(memory, p))
<1>1. memory \in Memories /\ sp \in 0..stackWords /\ chained(memory, sp)
  BY TypedParts DEF StackTyped
<1>2. elements \in Contents /\ Len(elements) \in Nat
  <2>1. elements \in Contents
    BY <1>1, OnStack DEF elements
  <2> HIDE DEF elements
  <2>2. elements \in Seq(Seq(Word))
    BY <2>1 DEF Contents
  <2> QED
    BY <2>1, <2>2
<1>3. CASE sp = stackWords
  <2>1. elements = << >> /\ empty(sp) /\ ~twoElements
    BY <1>1, <1>3, OnStack DEF elements, empty, twoElements
  <2> QED
    BY <1>2, <2>1
<1>4. CASE sp # stackWords
  <2>1. /\ p \in 0..stackWords /\ chained(memory, p)
        /\ e \in Seq(Word) /\ Len(e) = memory[sp]
        /\ rest \in Contents /\ elements = <<e>> \o rest
    BY <1>1, <1>4, OnStack DEF elements
  <2>2. ~empty(sp) /\ popped(sp) = p /\ (twoElements <=> p # stackWords)
    BY <1>4, TwoOnStack DEF empty
  <2>3. CASE p = stackWords
    <3>1. rest = << >>
      <4> HIDE DEF p
      <4> QED
        BY <1>1, <2>1, <2>3, OnStack
    <3> HIDE DEF e, rest, p
    <3>2. /\ elements # << >> /\ Len(elements) = Len(rest) + 1
          /\ elements[1] = e /\ Tail(elements) = rest
      BY <2>1, TopOperand
    <3>3. Len(elements) = 1 /\ ~twoElements
      BY <2>2, <2>3, <3>1, <3>2
    <3> QED
      BY <1>2, <2>1, <2>2, <3>2, <3>3 DEF e, rest, p
  <2>4. CASE p # stackWords
    <3>1. /\ d \in Seq(Word) /\ Len(d) = memory[p]
          /\ below \in Contents /\ rest = <<d>> \o below
      <4> HIDE DEF p
      <4> QED
        BY <1>1, <2>1, <2>4, OnStack
    <3> HIDE DEF e, rest, d, below, p
    <3>2. /\ elements # << >> /\ Len(elements) = Len(rest) + 1
          /\ elements[1] = e /\ Tail(elements) = rest
      BY <2>1, TopOperand
    <3>3. /\ Len(rest) = Len(below) + 1 /\ Len(below) \in Nat
          /\ rest[1] = d /\ Tail(rest) = below
      BY <3>1, TopOperand
    <3>4. Len(elements) >= 2 /\ twoElements
      BY <2>2, <2>4, <3>2, <3>3
    <3>5. elements[2] = d
      <4>1. elements = <<e>> \o rest /\ rest \in Seq(Seq(Word)) /\ 1 \in 1..Len(rest)
        BY <2>1, <3>3 DEF Contents
      <4>2. (<<e>> \o rest)[1 + 1] = rest[1]
        BY <2>1, <4>1
      <4> QED
        BY <3>3, <4>1, <4>2
    <3>6. /\ elements # << >> /\ ~empty(sp) /\ Len(elements) >= 1 /\ popped(sp) = p
          /\ elements[1] = e /\ Len(elements[1]) = memory[sp] /\ Tail(elements) = rest
      BY <1>2, <2>1, <2>2, <3>2, <3>4
    <3>7. /\ elements[2] = d /\ Len(elements[2]) = memory[p] /\ Tail(Tail(elements)) = below
      BY <3>1, <3>2, <3>3, <3>5
    <3> HIDE DEF elements
    <3> QED
      BY <1>2, <3>4, <3>6, <3>7 DEF e, rest, d, below, p
  <2> QED
    BY <2>3, <2>4
<1> QED
  BY <1>3, <1>4

(***************************************************************************)
(* Running, the machine's program is the assembly.                         *)
(***************************************************************************)
listing == IF assembling THEN << >> ELSE assembly

LEMMA RunningAs ==
    ASSUME phase = "running"
    PROVE  /\ listing = assembly
           /\ \A name : Machine!current(name) <=> executing(name)
           /\ Machine!width = width /\ Machine!arg = data
BY DEF assembling, listing, Machine!current, executing, Machine!width, width, Machine!arg, data

LEMMA GoesOn ==
    ASSUME phase = "running", continues
    PROVE  Machine!goesOn /\ listing' = listing
BY DEF continues, Machine!goesOn, listing, assembling

LEMMA Aborting ==
    ASSUME phase = "running", aborts, UNCHANGED stackVars
    PROVE  Machine!crashes
BY DEF aborts, Machine!crashes, assembling, stackVars, elements

LEMMA StraightSteps ==
    ASSUME VMTypeOK, Interrupt \/ Jump \/ JumpIf \/ Pop
    PROVE  Machine!Execute
<1>1. CASE Interrupt
  <2>1. executing("int") /\ phase = "running" /\ continues /\ UNCHANGED stackVars
    BY <1>1 DEF Interrupt, executing
  <2>2. Machine!current("int") /\ Machine!goesOn
    BY <2>1, RunningAs, GoesOn
  <2>3. UNCHANGED elements
    BY <2>1 DEF elements, stackVars
  <2> QED
    BY <2>2, <2>3 DEF Machine!Execute
<1>2. CASE Jump
  <2>1. /\ executing("jmp") /\ phase = "running" /\ m_pc' = data[1]
        /\ UNCHANGED <<assembly, phase>> /\ UNCHANGED stackVars
    BY <1>2 DEF Jump, executing
  <2>2. Machine!current("jmp") /\ Machine!jumps
    BY <2>1, RunningAs DEF Machine!jumps, assembling
  <2>3. UNCHANGED elements
    BY <2>1 DEF elements, stackVars
  <2> QED
    BY <2>2, <2>3 DEF Machine!Execute
<1>3. CASE JumpIf
  <2>1. /\ executing("jmp_if") /\ phase = "running" /\ ~empty(sp)
        /\ m_pc' = IF topIsZero THEN data[1] ELSE m_pc + 1
        /\ UNCHANGED <<assembly, phase>> /\ UNCHANGED stackVars
    BY <1>3 DEF JumpIf, executing
  <2>2. Machine!current("jmp_if") /\ elements # << >>
    BY <2>1, RunningAs, ElementsNow
  <2>3. UNCHANGED elements
    BY <2>1 DEF elements, stackVars
  <2>4. Machine!isZero(elements[1]) <=> topIsZero
    <3>1. elements[1] = elementAt(memory, sp) /\ Len(elements[1]) = memory[sp]
      BY <2>1, ElementsNow
    <3> DEFINE n == memory[sp]
    <3>2. n \in Nat /\ sp \in Nat
      <4>1. memory \in Memories /\ sp \in 0..stackWords
        BY TypedParts DEF StackTyped
      <4> QED
        BY <4>1, WordAssumption, CodesAssumption DEF Memories, Word
    <3>3. Machine!isZero(elements[1]) <=> \A i \in 1..n : memory[sp + i] = 0
      BY <3>1 DEF Machine!isZero, elementAt
    <3>4. topIsZero <=> \A i \in 0..(n - 1) : memory[sp + 1 + i] = 0
      BY DEF topIsZero, top
    <3> HIDE DEF n
    <3>5. /\ \A i \in 1..n : i - 1 \in 0..(n - 1) /\ sp + 1 + (i - 1) = sp + i
          /\ \A i \in 0..(n - 1) : i + 1 \in 1..n /\ sp + 1 + i = sp + (i + 1)
      BY <3>2
    <3>6. (\A i \in 1..n : memory[sp + i] = 0) <=> \A i \in 0..(n - 1) : memory[sp + 1 + i] = 0
      <4>1. ASSUME \A i \in 1..n : memory[sp + i] = 0, NEW i \in 0..(n - 1)
            PROVE  memory[sp + 1 + i] = 0
        BY <3>5, <4>1
      <4>2. ASSUME \A i \in 0..(n - 1) : memory[sp + 1 + i] = 0, NEW i \in 1..n
            PROVE  memory[sp + i] = 0
        BY <3>5, <4>2
      <4> QED
        BY <4>1, <4>2
    <3> QED
      BY <3>3, <3>4, <3>6
  <2>5. IF Machine!isZero(elements[1]) THEN Machine!jumps ELSE Machine!goesOn
    BY <2>1, <2>4, RunningAs DEF Machine!jumps, Machine!goesOn, assembling
  <2> QED
    BY <2>2, <2>3, <2>5 DEF Machine!Execute
<1>4. CASE Pop
  <2>1. /\ executing("pop") /\ phase = "running" /\ continues /\ memory' = memory
        /\ IF empty(sp) THEN UNCHANGED sp ELSE sp' = popped(sp)
    BY <1>4 DEF Pop, executing
  <2>2. Machine!current("pop") /\ Machine!goesOn
    BY <2>1, RunningAs, GoesOn
  <2>3. elements' = IF elements = << >> THEN << >> ELSE Tail(elements)
    <3>1. CASE empty(sp)
      BY <2>1, <3>1, ElementsNow DEF elements
    <3>2. CASE ~empty(sp)
      <4>1. elements' = contents(memory, after(memory, sp))
        BY <2>1, <3>2, ElementsNow DEF elements
      <4> QED
        BY <3>2, <4>1, ElementsNow
    <3> QED
      BY <3>1, <3>2
  <2> QED
    BY <2>2, <2>3 DEF Machine!Execute
<1> QED
  BY <1>1, <1>2, <1>3, <1>4

(***************************************************************************)
(* push: there is room for an operand where the memory below the stack     *)
(* pointer has it.                                                         *)
(***************************************************************************)
LEMMA RoomIsMemory ==
    ASSUME VMTypeOK, NEW n \in Int
    PROVE  Machine!room(n) <=> fits(n)
<1>1. memory \in Memories /\ sp \in 0..stackWords /\ chained(memory, sp)
  BY TypedParts DEF StackTyped
<1>2. Machine!used(elements) = stackWords - sp
  BY <1>1, UsedByChain DEF elements
<1> DEFINE u == Machine!used(elements)
<1>3. Machine!room(n) <=> stackWords - u >= n + 1
  BY DEF Machine!room
<1> HIDE DEF u
<1>4. u = stackWords - sp
  BY <1>2 DEF u
<1>5. stackWords - u = sp
  BY <1>1, <1>4, CodesAssumption
<1> QED
  BY <1>3, <1>5 DEF fits

LEMMA PushStep ==
    ASSUME VMTypeOK, Push
    PROVE  Machine!Execute
<1> DEFINE n == width
           new == memory'
           t == sp'
<1>1. executing("push") /\ phase = "running" /\ continues /\ fits(n)
  BY DEF Push, executing
<1>2. Machine!current("push") /\ Machine!goesOn /\ Machine!width = n /\ Machine!arg = data
  BY <1>1, RunningAs, GoesOn
<1>3. memory \in Memories /\ sp \in 0..stackWords /\ chained(memory, sp)
  BY TypedParts DEF StackTyped
<1>4. /\ n \in {1, 2} /\ data \in Seq(Word) /\ Len(data) = n
      /\ t \in 0..stackWords /\ t + n + 1 = sp
      /\ new \in Memories /\ new[t] = n /\ agree(memory, new, sp)
      /\ \A i \in 1..n : new[t + i] = data[i]
  BY PushDoes
<1> HIDE DEF n, new, t
<1>5. Machine!room(Machine!width)
  BY <1>1, <1>2, <1>4, RoomIsMemory
<1>6. after(new, t) = sp
  BY <1>4 DEF after
<1>7. contents(new, t) = <<elementAt(new, t)>> \o contents(new, sp)
  <2>1. after(new, t) <= stackWords
    BY <1>3, <1>6
  <2>2. contents(new, t) = <<elementAt(new, t)>> \o contents(new, after(new, t))
    BY <1>4, <2>1, ContentsTop
  <2> QED
    BY <1>6, <2>2
<1>8. contents(new, sp) = contents(memory, sp)
  BY <1>3, <1>4, ContentsAgree
<1>9. elementAt(new, t) = data
  <2>1. elementAt(new, t) = [j \in 1..n |-> data[j]]
    BY <1>4 DEF elementAt
  <2>2. data = [j \in 1..n |-> data[j]]
    BY <1>4
  <2> QED
    BY <2>1, <2>2
<1>10. elements' = <<data>> \o elements
  BY <1>7, <1>8, <1>9 DEF elements, new, t
<1> QED
  BY <1>2, <1>5, <1>10 DEF Machine!Execute

(***************************************************************************)
(* Arithmetic: of two elements of the operation's width the result, and    *)
(* whatever the widths, what is below stays as it was.                     *)
(***************************************************************************)
LEMMA ElementLoaded ==
    ASSUME NEW mem, NEW s \in Nat, NEW n \in {1, 2}, mem[s] = n
    PROVE  load(mem, s + 1, n) = value(elementAt(mem, s))
<1>1. \A i \in 1..n : (s + 1) + i - 1 = s + i
  OBVIOUS
<1>2. [i \in 1..n |-> mem[(s + 1) + i - 1]] = [i \in 1..n |-> mem[s + i]]
  BY <1>1
<1> QED
  BY <1>2 DEF load, elementAt

LEMMA OperandsAre ==
    ASSUME VMTypeOK, twoElements, width \in {1, 2},
           Len(elements[1]) = width, Len(elements[2]) = width
    PROVE  /\ load(memory, sp + 1, width) = value(elements[1])
           /\ load(memory, after(memory, sp) + 1, width) = value(elements[2])
           /\ memory[sp] = width /\ memory[after(memory, sp)] = width
<1>1. memory \in Memories /\ sp \in 0..stackWords /\ chained(memory, sp)
  BY TypedParts DEF StackTyped
<1>2. ~empty(sp) /\ sp # stackWords /\ after(memory, sp) # stackWords
  BY TwoOnStack DEF twoElements, empty
<1>3. /\ elements[1] = elementAt(memory, sp) /\ memory[sp] = width
      /\ elements[2] = elementAt(memory, after(memory, sp))
      /\ memory[after(memory, sp)] = width
  BY <1>2, ElementsNow
<1>4. sp \in Nat /\ after(memory, sp) \in Nat
  <2>1. after(memory, sp) \in 0..stackWords
    BY <1>1, <1>2, OnStack
  <2> QED
    BY <1>1, <2>1
<1> QED
  BY <1>3, <1>4, ElementLoaded

LEMMA CalculateStep ==
    ASSUME VMTypeOK, NEW name \in arithmetic, Arithmetic(name)
    PROVE  Machine!Calculate(name)
<1> DEFINE n == width
           v == outcome(name)
           free == after(memory, after(memory, sp))
           t == spot(memory, sp, n)
           new == resulting(memory, sp, n, v)
           z == elementAt(new, t)
           y == elements[1]
           x == elements[2]
<1>1. memory \in Memories /\ sp \in 0..stackWords /\ chained(memory, sp)
  BY TypedParts DEF StackTyped
<1>2. /\ n \in {1, 2} /\ v \in 0..(modulus(n) - 1) /\ memory' = new /\ sp' = t
      /\ sp # stackWords /\ after(memory, sp) # stackWords
      /\ executing(name) /\ continues
  BY ArithmeticDoes
<1>3. phase = "running" /\ twoElements
  BY <1>2, TwoOnStack DEF executing
<1>4. Machine!current(name) /\ Machine!goesOn /\ Machine!width = n
  BY <1>2, <1>3, RunningAs, GoesOn
<1>5. Len(elements) >= 2 /\ Tail(Tail(elements)) = contents(memory, free)
  BY <1>3, ElementsNow
<1>6. /\ new \in Memories /\ new[t] = n /\ agree(memory, new, free)
      /\ memory[sp] = n /\ memory[after(memory, sp)] = n =>
            \A i \in 1..n : new[t + i] = asWords(v, n)[i]
  <2> HIDE DEF n, v
  <2> QED
    BY <1>1, <1>2, ResultWritten
<1>7. /\ t \in (sp + 1)..stackWords /\ t + n + 1 = free /\ free \in 0..stackWords
      /\ chained(memory, free)
  <2> HIDE DEF n, v
  <2> QED
    BY <1>1, <1>2, TwoElements
<1> HIDE DEF t, new, free, n, v
<1>8. t \in 0..stackWords /\ after(new, t) = free /\ after(new, t) <= stackWords
  BY <1>1, <1>6, <1>7 DEF after
<1>9. z \in [1..n -> Word] /\ z \in Seq(Word)
  <2>1. z \in Seq(Word) /\ Len(z) = n
    BY <1>6, <1>8, ElementTyped
  <2> HIDE DEF z
  <2> QED
    BY <2>1
<1>10. contents(new, t) = <<z>> \o contents(new, after(new, t))
  BY <1>6, <1>8, ContentsTop
<1>11. contents(new, free) = contents(memory, free) /\ contents(memory, free) \in Contents
  BY <1>1, <1>6, <1>7, ContentsAgree, ContentsTop
<1>12. elements' = <<z>> \o Tail(Tail(elements))
  BY <1>2, <1>5, <1>8, <1>10, <1>11 DEF elements
<1>13. elements'[1] = z
  <2> DEFINE q == contents(memory, free)
  <2>1. elements' = <<z>> \o q
    BY <1>5, <1>12
  <2>2. q \in Contents
    BY <1>11
  <2> HIDE DEF q, z, elements
  <2> QED
    BY <1>9, <2>1, <2>2, TopOperand
<1>14. ASSUME Len(x) = n, Len(y) = n
       PROVE  /\ ~Machine!traps(name, Machine!value(x), Machine!value(y), n)
              /\ z = Machine!asWords(Machine!calculate(name, Machine!value(x), Machine!value(y), n), n)
  <2>1. /\ load(memory, sp + 1, n) = value(y)
        /\ load(memory, after(memory, sp) + 1, n) = value(x)
        /\ memory[sp] = n /\ memory[after(memory, sp)] = n
    BY <1>2, <1>3, <1>14, OperandsAre DEF n
  <2>2. v = calculate(name, value(x), value(y), n)
    BY <2>1 DEF v, outcome, computed, n
  <2>3. ~traps(name, value(x), value(y), n)
    <3>1. ~traps(name, load(memory, after(memory, sp) + 1, n), load(memory, sp + 1, n), n)
      BY TwoOnStack DEF Arithmetic, n
    <3> QED
      BY <2>1, <3>1
  <2>4. z = asWords(v, n)
    <3> DEFINE a == asWords(v, n)
    <3>1. a \in [1..n -> Word]
      BY <1>2, WordsOfNumber
    <3>2. \A i \in 1..n : z[i] = a[i]
      BY <1>6, <2>1 DEF elementAt
    <3> HIDE DEF a, z
    <3>3. z = a
      <4>1. z \in [1..n -> Word]
        BY <1>9
      <4>2. z = [i \in 1..n |-> z[i]] /\ a = [i \in 1..n |-> a[i]]
        BY <3>1, <4>1
      <4> QED
        BY <3>2, <4>2, Zenon
    <3> QED
      BY <3>3 DEF a
  <2> HIDE DEF x, y, z
  <2>5. /\ Machine!value(x) = value(x) /\ Machine!value(y) = value(y)
        /\ \A a, b : /\ Machine!traps(name, a, b, n) <=> traps(name, a, b, n)
                     /\ Machine!calculate(name, a, b, n) = calculate(name, a, b, n)
        /\ Machine!asWords(v, n) = asWords(v, n)
    BY MachineNumbers
  <2> QED
    BY <2>2, <2>3, <2>4, <2>5
<1>15. z \in [1..n -> 0..(W - 1)]
  BY <1>9 DEF Word
<1> HIDE DEF x, y, z
<1>16. /\ Machine!current(name) /\ Len(elements) >= 2 /\ Machine!goesOn
       /\ elements'[1] \in [1..n -> 0..(W - 1)]
       /\ elements' = <<elements'[1]>> \o Tail(Tail(elements))
       /\ Len(elements[2]) = n /\ Len(elements[1]) = n =>
             /\ ~Machine!traps(name, Machine!value(elements[2]), Machine!value(elements[1]), n)
             /\ elements'[1] = Machine!asWords(Machine!calculate(name,
                     Machine!value(elements[2]), Machine!value(elements[1]), n), n)
  BY <1>4, <1>5, <1>12, <1>13, <1>14, <1>15 DEF x, y
<1> HIDE DEF elements
<1> QED
  BY <1>4, <1>16 DEF Machine!Calculate

LEMMA CrashStep ==
    ASSUME VMTypeOK, PushOverflow \/ DivisionTrap \/ NoOperand
    PROVE  Machine!Crash
<1>1. phase = "running" /\ Machine!crashes /\ Machine!width = width
  <2>1. phase = "running" /\ aborts /\ UNCHANGED stackVars
    BY DEF PushOverflow, DivisionTrap, NoOperand, executing
  <2> QED
    BY <2>1, Aborting, RunningAs
<1>2. \A name : Machine!current(name) <=> executing(name)
  BY <1>1, RunningAs
<1>3. CASE PushOverflow
  <2>1. executing("push") /\ ~fits(width)
    BY <1>3 DEF PushOverflow
  <2>2. width \in {1, 2}
    BY <2>1, Executing
  <2>3. ~Machine!room(width)
    BY <2>1, <2>2, RoomIsMemory
  <2> QED
    BY <1>1, <1>2, <2>1, <2>3 DEF Machine!Crash
<1>4. CASE DivisionTrap
  <2> DEFINE n == width
  <2>1. /\ executing("div") /\ twoElements
        /\ traps("div", load(memory, after(memory, sp) + 1, n), load(memory, sp + 1, n), n)
    BY <1>4, TwoOnStack DEF DivisionTrap
  <2>2. n \in {1, 2}
    BY <2>1, Executing DEF arithmetic
  <2>3. Len(elements) >= 2
    BY <2>1, ElementsNow
  <2>4. \/ Len(elements[1]) # n \/ Len(elements[2]) # n
        \/ Machine!traps("div", Machine!value(elements[2]), Machine!value(elements[1]), n)
    <3>1. SUFFICES ASSUME Len(elements[1]) = n, Len(elements[2]) = n
                   PROVE  Machine!traps("div", Machine!value(elements[2]),
                                        Machine!value(elements[1]), n)
      OBVIOUS
    <3> DEFINE x == elements[2]
               y == elements[1]
    <3>2. /\ load(memory, sp + 1, n) = value(y)
          /\ load(memory, after(memory, sp) + 1, n) = value(x)
      BY <2>1, <2>2, <3>1, OperandsAre
    <3>3. traps("div", value(x), value(y), n)
      BY <2>1, <3>2
    <3> HIDE DEF x, y, n
    <3>4. /\ Machine!value(x) = value(x) /\ Machine!value(y) = value(y)
          /\ \A a, b : Machine!traps("div", a, b, n) <=> traps("div", a, b, n)
      BY MachineNumbers
    <3> QED
      BY <3>3, <3>4 DEF x, y, n
  <2> HIDE DEF elements
  <2> QED
    BY <1>1, <1>2, <2>1, <2>3, <2>4 DEF Machine!Crash
<1>5. CASE NoOperand
  <2>1. Machine!arithmetic = arithmetic /\ Len(elements) \in Nat
    BY MachineNumbers, ElementsNow
  <2>2. \E name \in arithmetic \cup {"int", "jmp_if"} :
           executing(name) /\ Len(elements) < Machine!need(name)
    <3>1. CASE executing("int") /\ empty(sp)
      <4>1. Machine!need("int") = 1 /\ Len(elements) = 0
        BY <2>1, <3>1, ElementsNow DEF Machine!need, arithmetic
      <4> QED
        BY <3>1, <4>1
    <3>2. CASE executing("jmp_if") /\ empty(sp)
      <4>1. Machine!need("jmp_if") = 1 /\ Len(elements) = 0
        BY <2>1, <3>2, ElementsNow DEF Machine!need, arithmetic
      <4> QED
        BY <3>2, <4>1
    <3>3. ASSUME NEW name \in arithmetic, executing(name), ~twoElements
          PROVE  \E other \in arithmetic \cup {"int", "jmp_if"} :
                    executing(other) /\ Len(elements) < Machine!need(other)
      <4>1. Machine!need(name) = 2 /\ ~(Len(elements) >= 2)
        BY <2>1, <3>3, ElementsNow DEF Machine!need
      <4> QED
        BY <2>1, <3>3, <4>1
    <3> QED
      BY <1>5, <3>1, <3>2, <3>3 DEF NoOperand
  <2> HIDE DEF elements
  <2> QED
    BY <1>1, <1>2, <2>1, <2>2 DEF Machine!Crash
<1> QED
  BY <1>3, <1>4, <1>5

(***************************************************************************)
(* Every step of the interpreter is one of the machine, or none.           *)
(***************************************************************************)
LEMMA AssembleStep ==
    ASSUME VMInv, Assemble
    PROVE  Machine!Load \/ UNCHANGED <<listing, m_pc, phase, elements>>
<1>1. assembling /\ phase = "assembling" /\ m_pc = 0 /\ UNCHANGED stackVars
  BY DEF Assemble, AssembleNoFile, AssembleNop, AssembleInstruction, AssembleUnknown,
         AssembleBeyondEnd, AssembleEnd, VMInv, assembling
<1>2. UNCHANGED elements
  BY <1>1 DEF elements, stackVars
<1> HIDE DEF elements
<1>3. CASE AssembleNop \/ AssembleInstruction
  BY <1>1, <1>2, <1>3 DEF AssembleNop, AssembleInstruction, listing, assembling
<1>4. CASE AssembleNoFile \/ AssembleUnknown \/ AssembleBeyondEnd \/ AssembleEnd
  BY <1>1, <1>2, <1>4 DEF AssembleNoFile, AssembleUnknown, AssembleBeyondEnd, AssembleEnd,
         Machine!Load
<1> QED
  BY <1>3, <1>4 DEF Assemble

LEMMA FinishStep ==
    ASSUME Finish
    PROVE  Machine!Finish
BY DEF Finish, Machine!Finish, assembling, elements, stackVars

LEMMA AgainStep ==
    ASSUME InterpretAgain
    PROVE  Machine!Again
BY DEF InterpretAgain, Machine!Again, assembling, elements, stackVars

LEMMA StepOfMachine == VMInv /\ [VMNext]_vmVars => [Machine!MachineNext]_(Machine!machineVars)
<1> SUFFICES ASSUME VMInv, [VMNext]_vmVars PROVE [Machine!MachineNext]_(Machine!machineVars)
  OBVIOUS
<1>1. VMTypeOK
  BY DEF VMInv
<1>2. CASE Assemble
  <2>1. Machine!Load \/ UNCHANGED <<listing, m_pc, phase, elements>>
    BY <1>2, AssembleStep
  <2> QED
    BY <2>1 DEF Machine!MachineNext, Machine!machineVars, listing
<1>3. CASE Interrupt \/ Jump \/ JumpIf \/ Pop
  BY <1>1, <1>3, StraightSteps DEF Machine!MachineNext
<1>4. CASE Push
  BY <1>1, <1>4, PushStep DEF Machine!MachineNext
<1>5. CASE PushOverflow \/ DivisionTrap \/ NoOperand
  BY <1>1, <1>5, CrashStep DEF Machine!MachineNext
<1>6. ASSUME NEW name \in arithmetic, Arithmetic(name)
      PROVE  Machine!MachineNext
  <2>1. Machine!Calculate(name) /\ name \in Machine!arithmetic
    BY <1>1, <1>6, CalculateStep, MachineNumbers
  <2> QED
    BY <2>1 DEF Machine!MachineNext
<1>7. CASE Finish
  BY <1>7, FinishStep DEF Machine!MachineNext
<1>8. CASE InterpretAgain
  BY <1>8, AgainStep DEF Machine!MachineNext
<1>9. CASE UNCHANGED vmVars
  BY <1>9 DEF vmVars, stackVars, elements, Machine!machineVars, assembling
<1> QED
  BY <1>2, <1>3, <1>4, <1>5, <1>6, <1>7, <1>8, <1>9 DEF VMNext, Interpret

(***************************************************************************)
(* The interpreter, its stack in memory, is the machine of the documents:  *)
(* storing a result in an element already popped and copying it from there *)
(* computes what it should, no element below is ever disturbed, and it     *)
(* stops with an overflow exactly when the operands leave no room.         *)
(***************************************************************************)
THEOREM InterpreterIsMachine == VMSpec => MachineSpec
<1>1. VMInit => Machine!MachineInit
  <2> SUFFICES ASSUME VMInit PROVE Machine!MachineInit
    OBVIOUS
  <2>1. memory \in Memories /\ sp = stackWords
    BY InitTyped, TypedParts DEF VMInit, StackTyped
  <2>2. elements = << >>
    BY <2>1, ContentsEmpty DEF elements
  <2> HIDE DEF elements
  <2> QED
    BY <2>2 DEF VMInit, Machine!MachineInit, assembling
<1>2. VMInv /\ [VMNext]_vmVars => [Machine!MachineNext]_(Machine!machineVars)
  BY StepOfMachine
<1> QED
  BY <1>1, <1>2, VMInvariant, PTL DEF VMSpec, MachineSpec, Machine!MachineSpec
=============================================================================
