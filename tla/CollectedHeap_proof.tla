------------------------ MODULE CollectedHeap_proof ------------------------
(***************************************************************************)
(* Proofs about CollectedHeap, for every heap and every set of object      *)
(* sizes: with its lists in order it implements BlockHeap, so what         *)
(* BlockHeap_proof shows holds of it, and the binary search is right       *)
(* whenever its input is sorted by address.                                *)
(***************************************************************************)
EXTENDS CollectedHeap, Iteration, TLAPS

-----------------------------------------------------------------------------
(***************************************************************************)
(* The comparators are strict weak orders, as std::sort and std::merge     *)
(* require.                                                                *)
(***************************************************************************)
AnyBlock == [start : Nat, size : Nat \ {0}, used : Nat]

LEMMA BlockEnds ==
    ASSUME NEW b \in AnyBlock
    PROVE  b.start \in Nat /\ getEnd(b) \in Nat /\ b.start < getEnd(b)
BY DEF AnyBlock, getEnd

LEMMA ComparatorsAreWeakOrders ==
    ASSUME NEW S \in SUBSET AnyBlock
    PROVE  weakOrder(byAddress(S), S) /\ weakOrder(byRemaining(S), S)
<1>1. \A a \in S : a.start \in Nat /\ getRemaining(a) \in Int
  BY DEF getRemaining, AnyBlock
<1>2. \A a, b \in S : /\ <<a, b>> \in byAddress(S) <=> a.start < b.start
                      /\ <<a, b>> \in byRemaining(S) <=> lessThan(a, b)
  BY DEF byAddress, byRemaining, comparatorAddress
<1>3. weakOrder(byAddress(S), S)
  <2>1. \A a, b \in S : <<a, b>> \in byAddress(S) => <<b, a>> \notin byAddress(S)
    BY <1>1, <1>2
  <2>2. \A a, b, c \in S : <<a, b>> \in byAddress(S)
           => <<a, c>> \in byAddress(S) \/ <<c, b>> \in byAddress(S)
    BY <1>1, <1>2
  <2> QED
    BY <2>1, <2>2, Zenon DEF weakOrder
<1>4. weakOrder(byRemaining(S), S)
  <2>1. ASSUME NEW a \in S, NEW b \in S, lessThan(a, b) PROVE ~lessThan(b, a)
    BY <1>1, <2>1 DEF lessThan
  <2>2. ASSUME NEW a \in S, NEW b \in S, NEW c \in S, lessThan(a, b)
        PROVE  lessThan(a, c) \/ lessThan(c, b)
    <3>1. /\ a.start \in Nat /\ b.start \in Nat /\ c.start \in Nat
          /\ getRemaining(a) \in Int /\ getRemaining(b) \in Int /\ getRemaining(c) \in Int
      BY <1>1
    <3> QED
      BY <2>2, <3>1 DEF lessThan
  <2> QED
    BY <1>2, <2>1, <2>2 DEF weakOrder
<1> QED
  BY <1>3, <1>4

-----------------------------------------------------------------------------
(***************************************************************************)
(* searchBlock.  Its loop is a recursion over the pair of low and high; it *)
(* is well defined because each round makes high - low smaller.            *)
(***************************************************************************)
Ranges(bs) == (0..Len(bs)) \X (-1..(Len(bs) - 1))

middle(d) == (d[1] + d[2]) \div 2

\* One round of the loop, its result for the next range given by f.
searchRound(bs, addr, f, d) ==
    IF d[2] = -1 THEN -1
    ELSE IF d[1] > d[2] THEN 0
    ELSE IF inBlock(bs[middle(d) + 1], addr) THEN middle(d) + 1
    ELSE IF bs[middle(d) + 1].start > addr
         THEN f[<<d[1], middle(d) - 1>>] ELSE f[<<middle(d) + 1, d[2]>>]

LEMMA MiddleBetween ==
    ASSUME NEW low \in Nat, NEW high \in Nat, low <= high
    PROVE  (low + high) \div 2 \in Nat /\ low <= (low + high) \div 2 /\ (low + high) \div 2 <= high
OBVIOUS

\* What a round does in each case, and where it goes on.
LEMMA RoundEnds ==
    ASSUME NEW bs \in Seq(AnyBlock), NEW addr, NEW f, NEW d \in Ranges(bs), ~(d[2] >= d[1])
    PROVE  searchRound(bs, addr, f, d) = IF d[2] = -1 THEN -1 ELSE 0
<1>1. d[1] \in 0..Len(bs) /\ d[2] \in -1..(Len(bs) - 1) /\ Len(bs) \in Nat
  BY DEF Ranges
<1>2. CASE d[2] = -1
  BY <1>1, <1>2 DEF searchRound
<1>3. CASE d[2] # -1
  BY <1>1, <1>3 DEF searchRound
<1> QED
  BY <1>2, <1>3

LEMMA RoundGoesOn ==
    ASSUME NEW bs \in Seq(AnyBlock), NEW d \in Ranges(bs), d[2] >= d[1]
    PROVE  /\ middle(d) \in Nat /\ d[1] <= middle(d) /\ middle(d) <= d[2]
           /\ middle(d) + 1 \in 1..Len(bs)
           /\ <<d[1], middle(d) - 1>> \in Ranges(bs) /\ <<middle(d) + 1, d[2]>> \in Ranges(bs)
<1>1. d[1] \in 0..Len(bs) /\ d[2] \in -1..(Len(bs) - 1) /\ Len(bs) \in Nat
  BY DEF Ranges
<1>2. d[1] \in Nat /\ d[2] \in Nat
  BY <1>1
<1>3. middle(d) \in Nat /\ d[1] <= middle(d) /\ middle(d) <= d[2]
  BY <1>2, MiddleBetween DEF middle
<1> QED
  BY <1>1, <1>3 DEF Ranges

LEMMA RoundValue ==
    ASSUME NEW bs \in Seq(AnyBlock), NEW addr, NEW f, NEW d \in Ranges(bs), d[2] >= d[1]
    PROVE  searchRound(bs, addr, f, d) =
               IF inBlock(bs[middle(d) + 1], addr) THEN middle(d) + 1
               ELSE IF bs[middle(d) + 1].start > addr
                    THEN f[<<d[1], middle(d) - 1>>] ELSE f[<<middle(d) + 1, d[2]>>]
<1>1. d[1] \in 0..Len(bs) /\ d[2] \in -1..(Len(bs) - 1) /\ Len(bs) \in Nat
  BY DEF Ranges
<1>2. d[2] # -1 /\ ~(d[1] > d[2])
  BY <1>1
<1> QED
  BY <1>2, Zenon DEF searchRound

\* A round depends on smaller ranges only.
LEMMA RoundIsLocal ==
    ASSUME NEW bs \in Seq(AnyBlock), NEW addr, NEW f, NEW h, NEW d \in Ranges(bs),
           \A e \in Ranges(bs) : d[2] >= d[1] /\ e[2] - e[1] < d[2] - d[1] => f[e] = h[e]
    PROVE  searchRound(bs, addr, f, d) = searchRound(bs, addr, h, d)
<1>1. d[1] \in 0..Len(bs) /\ d[2] \in -1..(Len(bs) - 1) /\ Len(bs) \in Nat
  BY DEF Ranges
<1>2. CASE ~(d[2] >= d[1])
  <2>1. /\ searchRound(bs, addr, f, d) = IF d[2] = -1 THEN -1 ELSE 0
        /\ searchRound(bs, addr, h, d) = IF d[2] = -1 THEN -1 ELSE 0
    BY <1>2, RoundEnds
  <2> QED
    BY <2>1
<1>3. CASE d[2] >= d[1]
  <2> DEFINE l == <<d[1], middle(d) - 1>>
             r == <<middle(d) + 1, d[2]>>
  <2>1. middle(d) \in Nat /\ d[1] <= middle(d) /\ middle(d) <= d[2] /\ l \in Ranges(bs) /\ r \in Ranges(bs)
    BY <1>3, RoundGoesOn
  <2>2. l[2] - l[1] < d[2] - d[1] /\ r[2] - r[1] < d[2] - d[1]
    BY <1>1, <2>1
  <2>3. f[l] = h[l] /\ f[r] = h[r]
    <3> HIDE DEF l, r
    <3> QED
      BY <1>3, <2>1, <2>2
  <2>4. ~(d[2] = -1) /\ ~(d[1] > d[2])
    BY <1>1, <1>3
  <2> HIDE DEF l, r
  <2>5. /\ searchRound(bs, addr, f, d) =
               IF inBlock(bs[middle(d) + 1], addr) THEN middle(d) + 1
               ELSE IF bs[middle(d) + 1].start > addr THEN f[l] ELSE f[r]
        /\ searchRound(bs, addr, h, d) =
               IF inBlock(bs[middle(d) + 1], addr) THEN middle(d) + 1
               ELSE IF bs[middle(d) + 1].start > addr THEN h[l] ELSE h[r]
    BY <2>4, Zenon DEF searchRound, l, r
  <2> QED
    BY <2>3, <2>5
<1> QED
  BY <1>2, <1>3

isSearch(bs, addr, f) ==
    f = [d \in Ranges(bs) |-> searchRound(bs, addr, f, d)]

LEMMA SearchExists ==
    ASSUME NEW bs \in Seq(AnyBlock), NEW addr
    PROVE  \E f : isSearch(bs, addr, f)
<1> DEFINE D == Ranges(bs)
           X == [D -> Int]
           L == Len(bs)
           round(g) == [d \in D |-> searchRound(bs, addr, g, d)]
           K == L + 2
           F == [n \in 1..K |-> [g \in X |-> round(g)]]
           start == [d \in D |-> 0]
<1>1. ASSUME NEW g \in X, NEW d \in D
      PROVE  searchRound(bs, addr, g, d) \in Int
  <2>1. CASE ~(d[2] >= d[1])
    <3>1. searchRound(bs, addr, g, d) = IF d[2] = -1 THEN -1 ELSE 0
      BY <2>1, RoundEnds
    <3> QED
      BY <3>1
  <2>2. CASE d[2] >= d[1]
    <3> DEFINE m == middle(d)
    <3>1. m \in Nat /\ <<d[1], m - 1>> \in Ranges(bs) /\ <<m + 1, d[2]>> \in Ranges(bs)
      BY <2>2, RoundGoesOn
    <3>2. g[<<d[1], m - 1>>] \in Int /\ g[<<m + 1, d[2]>>] \in Int
      BY <3>1
    <3>3. searchRound(bs, addr, g, d) =
               IF inBlock(bs[m + 1], addr) THEN m + 1
               ELSE IF bs[m + 1].start > addr THEN g[<<d[1], m - 1>>] ELSE g[<<m + 1, d[2]>>]
      BY <2>2, RoundValue
    <3> QED
      BY <3>1, <3>2, <3>3
  <2> QED
    BY <2>1, <2>2
<1>2. \A g \in X : round(g) \in X
  BY <1>1
<1>3. K \in Nat /\ L \in Nat /\ start \in X /\ F \in [1..K -> [X -> X]]
  <2> HIDE DEF round, X
  <2>1. start \in X
    BY DEF X
  <2> QED
    BY <1>2, <2>1
<1>4. PICK g \in [0..K -> X] : g[0] = start /\ \A n \in 1..K : g[n] = round(g[n - 1])
  <2> HIDE DEF K, X, round, start, F
  <2>1. recursionExists(K, [n \in 0..K |-> X], start, F)
    BY <1>3, Recursion
  <2>2. PICK g : isRecursive(g, K, [n \in 0..K |-> X], start, F)
    BY <2>1 DEF recursionExists
  <2>3. g \in [0..K -> X] /\ g[0] = start /\ \A n \in 1..K : g[n] = F[n][g[n - 1]]
    BY <2>2 DEF isRecursive
  <2>4. ASSUME NEW n \in 1..K PROVE g[n] = round(g[n - 1])
    <3>1. n - 1 \in 0..K
      BY <1>3
    <3>2. g[n - 1] \in X
      BY <2>3, <3>1
    <3> QED
      BY <2>3, <3>2 DEF F
  <2> QED
    BY <2>3, <2>4
<1> DEFINE T == {n \in Nat : n + 2 <= K =>
                    \A d \in D : d[2] - d[1] < n => g[n + 2][d] = g[n + 1][d]}
<1>5. ASSUME NEW n \in Nat, n + 1 <= K, NEW d \in D
      PROVE  g[n + 1][d] = searchRound(bs, addr, g[n], d)
  <2>1. n + 1 \in 1..K /\ (n + 1) - 1 = n
    BY <1>3, <1>5
  <2>2. g[n + 1] = round(g[n])
    <3> HIDE DEF round
    <3> QED
      BY <1>4, <2>1
  <2> QED
    BY <2>2
<1>6. 0 \in T
  <2> SUFFICES ASSUME 2 <= K, NEW d \in D, d[2] - d[1] < 0
               PROVE  g[2][d] = g[1][d]
    OBVIOUS
  <2>1. d[1] \in Nat /\ d[2] \in Int /\ ~(d[2] >= d[1])
    BY DEF Ranges
  <2>2. searchRound(bs, addr, g[1], d) = searchRound(bs, addr, g[0], d)
    <3> HIDE DEF K, X, round, start, F
    <3> QED
      BY <2>1, RoundIsLocal
  <2> QED
    BY <1>5, <2>2
<1>7. ASSUME NEW n \in Nat, n \in T
      PROVE  n + 1 \in T
  <2> SUFFICES ASSUME (n + 1) + 2 <= K, NEW d \in D, d[2] - d[1] < n + 1
               PROVE  g[(n + 1) + 2][d] = g[(n + 1) + 1][d]
    OBVIOUS
  <2>1. d[1] \in Nat /\ d[2] \in Int
    BY DEF Ranges
  <2>2. ASSUME NEW e \in D, d[2] >= d[1], e[2] - e[1] < d[2] - d[1]
        PROVE  g[n + 2][e] = g[n + 1][e]
    <3>1. e[1] \in Nat /\ e[2] \in Int
      BY DEF Ranges
    <3>2. e[2] - e[1] < n /\ n + 2 <= K
      BY <1>3, <2>1, <2>2, <3>1
    <3> QED
      BY <1>7, <3>2
  <2>3. searchRound(bs, addr, g[n + 2], d) = searchRound(bs, addr, g[n + 1], d)
    <3> HIDE DEF K, X, round, start, F, T
    <3> QED
      BY <2>2, RoundIsLocal
  <2>4. (n + 2) + 1 = (n + 1) + 2 /\ (n + 1) + 1 = n + 2 /\ n + 2 \in Nat /\ n + 1 \in Nat
        /\ (n + 2) + 1 <= K /\ (n + 1) + 1 <= K
    BY <1>3
  <2>5. g[(n + 2) + 1][d] = searchRound(bs, addr, g[n + 2], d)
    BY <1>5, <2>4
  <2>6. g[(n + 1) + 1][d] = searchRound(bs, addr, g[n + 1], d)
    BY <1>5, <2>4
  <2> QED
    BY <2>3, <2>4, <2>5, <2>6
<1>8. L \in T
  <2> HIDE DEF T
  <2> QED
    BY <1>3, <1>6, <1>7, Induction
<1> DEFINE f == g[L + 1]
<1>9. L + 1 \in 0..K /\ L + 1 \in Nat /\ (L + 1) + 1 = L + 2 /\ (L + 1) + 1 <= K
  BY <1>3
<1>10. f \in X
  <2> HIDE DEF X
  <2> QED
    BY <1>4, <1>9
<1>11. ASSUME NEW d \in D
       PROVE  f[d] = searchRound(bs, addr, f, d)
  <2>1. d[2] - d[1] < L
    BY DEF Ranges
  <2>2. g[L + 2][d] = g[L + 1][d]
    BY <1>3, <1>8, <2>1
  <2>3. g[(L + 1) + 1][d] = searchRound(bs, addr, f, d)
    <3> HIDE DEF K, X, round, start, F, T
    <3> QED
      BY <1>5, <1>9
  <2> QED
    BY <1>9, <2>2, <2>3
<1> HIDE DEF f
<1> QED
  BY <1>10, <1>11 DEF isSearch

\* searchBlock is the value of such a function at the whole range.
LEMMA SearchBlockIs ==
    ASSUME NEW bs \in Seq(AnyBlock), NEW addr
    PROVE  \E f : isSearch(bs, addr, f) /\ searchBlock(bs, addr) = f[<<0, Len(bs) - 1>>]
<1> DEFINE Def(f) == f = [range \in (0..Len(bs)) \X (-1..(Len(bs) - 1)) |->
            LET low  == range[1]
                high == range[2]
                mid  == (low + high) \div 2
                b    == bs[mid + 1] IN
            IF high = -1 THEN -1
            ELSE IF low > high THEN 0
            ELSE IF inBlock(b, addr) THEN mid + 1
            ELSE IF b.start > addr THEN f[<<low, mid - 1>>] ELSE f[<<mid + 1, high>>]]
<1>1. ASSUME NEW f
      PROVE  Def(f) <=> f = [d \in Ranges(bs) |-> searchRound(bs, addr, f, d)]
  BY DEF Ranges, searchRound, middle
<1>2. \E f : Def(f)
  <2> HIDE DEF Def
  <2> QED
    BY <1>1, SearchExists DEF isSearch
<1> DEFINE f == CHOOSE f : Def(f)
<1>3. searchBlock(bs, addr) = f[<<0, Len(bs) - 1>>]
  BY DEF searchBlock, lastIndex
<1>4. Def(f)
  <2> HIDE DEF Def
  <2> QED
    BY <1>2
<1> HIDE DEF f, Def
<1>5. f = [d \in Ranges(bs) |-> searchRound(bs, addr, f, d)]
  BY <1>1, <1>4
<1>6. isSearch(bs, addr, f)
  BY <1>5 DEF isSearch
<1> QED
  BY <1>3, <1>6

(***************************************************************************)
(* What the search finds is a block of the vector that holds the address.  *)
(***************************************************************************)
isResult(bs, addr, r) == r \in {-1, 0} \/ (r \in 1..Len(bs) /\ inBlock(bs[r], addr))

LEMMA SearchResult ==
    ASSUME NEW bs \in Seq(AnyBlock), NEW addr
    PROVE  isResult(bs, addr, searchBlock(bs, addr))
<1> DEFINE D == Ranges(bs)
           L == Len(bs)
<1>1. PICK f : isSearch(bs, addr, f) /\ searchBlock(bs, addr) = f[<<0, L - 1>>]
  BY SearchBlockIs
<1>2. \A d \in D : f[d] = searchRound(bs, addr, f, d)
  BY <1>1 DEF isSearch
<1> DEFINE T == {n \in Nat : \A d \in D : d[2] - d[1] < n => isResult(bs, addr, f[d])}
<1>3. ASSUME NEW d \in D, ~(d[2] >= d[1])
      PROVE  isResult(bs, addr, f[d])
  <2>1. f[d] = IF d[2] = -1 THEN -1 ELSE 0
    BY <1>2, <1>3, RoundEnds
  <2> QED
    BY <2>1 DEF isResult
<1>4. 0 \in T
  <2> SUFFICES ASSUME NEW d \in D, d[2] - d[1] < 0 PROVE isResult(bs, addr, f[d])
    OBVIOUS
  <2>1. ~(d[2] >= d[1])
    BY DEF Ranges
  <2> QED
    BY <1>3, <2>1
<1>5. ASSUME NEW n \in Nat, n \in T
      PROVE  n + 1 \in T
  <2> SUFFICES ASSUME NEW d \in D, d[2] - d[1] < n + 1, d[2] >= d[1]
               PROVE  isResult(bs, addr, f[d])
    BY <1>3
  <2> DEFINE m == middle(d)
             l == <<d[1], m - 1>>
             r == <<m + 1, d[2]>>
  <2>1. /\ m \in Nat /\ d[1] <= m /\ m <= d[2] /\ m + 1 \in 1..L
        /\ l \in D /\ r \in D
    BY RoundGoesOn
  <2>2. l[2] - l[1] < n /\ r[2] - r[1] < n
    <3>1. d[1] \in Nat /\ d[2] \in Int
      BY DEF Ranges
    <3> QED
      BY <2>1, <3>1
  <2>3. isResult(bs, addr, f[l]) /\ isResult(bs, addr, f[r])
    <3> HIDE DEF l, r, D
    <3> QED
      BY <1>5, <2>1, <2>2
  <2>4. f[d] = IF inBlock(bs[m + 1], addr) THEN m + 1
               ELSE IF bs[m + 1].start > addr THEN f[l] ELSE f[r]
    BY <1>2, RoundValue
  <2> HIDE DEF l, r
  <2>5. CASE inBlock(bs[m + 1], addr)
    BY <2>1, <2>4, <2>5 DEF isResult
  <2>6. CASE ~inBlock(bs[m + 1], addr)
    BY <2>3, <2>4, <2>6
  <2> QED
    BY <2>5, <2>6
<1>6. L \in T /\ L \in Nat
  <2> HIDE DEF T
  <2> QED
    BY <1>4, <1>5, Induction
<1>7. <<0, L - 1>> \in D /\ (L - 1) - 0 < L
  BY <1>6 DEF Ranges
<1> QED
  BY <1>1, <1>6, <1>7

(***************************************************************************)
(* In a vector sorted by address the search does not miss a block that is  *)
(* there: it stays between low and high.                                   *)
(***************************************************************************)
inOrder(bs) == \A i, j \in 1..Len(bs) : i < j => getEnd(bs[i]) <= bs[j].start

LEMMA SearchInOrder ==
    ASSUME NEW bs \in Seq(AnyBlock), NEW addr \in Nat, inOrder(bs),
           NEW t \in 1..Len(bs), inBlock(bs[t], addr)
    PROVE  searchBlock(bs, addr) > 0
<1> DEFINE D == Ranges(bs)
           L == Len(bs)
           between(d) == d[1] <= t - 1 /\ t - 1 <= d[2]
<1>1. PICK f : isSearch(bs, addr, f) /\ searchBlock(bs, addr) = f[<<0, L - 1>>]
  BY SearchBlockIs
<1>2. \A d \in D : f[d] = searchRound(bs, addr, f, d)
  BY <1>1 DEF isSearch
<1> DEFINE T == {n \in Nat : \A d \in D : d[2] - d[1] < n /\ between(d) => f[d] > 0}
<1>3. \A d \in D : d[1] \in Nat /\ d[2] \in Int
  BY DEF Ranges
<1>4. 0 \in T
  <2>1. ASSUME NEW d \in D, d[2] - d[1] < 0 PROVE ~between(d)
    BY <1>3, <2>1
  <2> QED
    BY <2>1
<1>5. ASSUME NEW n \in Nat, n \in T
      PROVE  n + 1 \in T
  <2> SUFFICES ASSUME NEW d \in D, d[2] - d[1] < n + 1, between(d)
               PROVE  f[d] > 0
    OBVIOUS
  <2> DEFINE m == middle(d)
             l == <<d[1], m - 1>>
             r == <<m + 1, d[2]>>
  <2>1. d[2] >= d[1]
    BY <1>3
  <2>2. /\ m \in Nat /\ d[1] <= m /\ m <= d[2] /\ m + 1 \in 1..L
        /\ l \in D /\ r \in D
    BY <2>1, RoundGoesOn
  <2>3. l[2] - l[1] < n /\ r[2] - r[1] < n
    <3>1. d[1] \in Nat /\ d[2] \in Int
      BY <1>3
    <3> QED
      BY <2>2, <3>1
  <2>4. f[d] = IF inBlock(bs[m + 1], addr) THEN m + 1
               ELSE IF bs[m + 1].start > addr THEN f[l] ELSE f[r]
    BY <1>2, <2>1, RoundValue
  <2>5. /\ bs[m + 1].start \in Nat /\ getEnd(bs[m + 1]) \in Nat
        /\ bs[t].start \in Nat /\ getEnd(bs[t]) \in Nat
        /\ bs[t].start <= addr /\ addr < getEnd(bs[t])
        /\ bs[m + 1].start < getEnd(bs[m + 1])
    <3>1. bs[m + 1] \in AnyBlock /\ bs[t] \in AnyBlock
      <4>1. m + 1 \in 1..L
        BY <2>2
      <4> HIDE DEF m
      <4> QED
        BY <4>1
    <3>2. \A b \in AnyBlock : b.start \in Nat /\ getEnd(b) \in Nat /\ b.start < getEnd(b)
      BY BlockEnds
    <3> QED
      BY <3>1, <3>2 DEF inBlock
  <2>6. /\ t < m + 1 => getEnd(bs[t]) <= bs[m + 1].start
        /\ m + 1 < t => getEnd(bs[m + 1]) <= bs[t].start
    BY <2>2 DEF inOrder
  <2>7. CASE inBlock(bs[m + 1], addr)
    BY <2>2, <2>4, <2>7
  <2>8. CASE ~inBlock(bs[m + 1], addr) /\ bs[m + 1].start > addr
    <3>1. t # m + 1
      BY <2>8
    <3>2. ~(m + 1 < t)
      BY <2>5, <2>6, <2>8
    <3>3. t - 1 <= m - 1
      BY <2>2, <3>1, <3>2
    <3>4. between(l)
      BY <3>3
    <3>5. f[l] > 0
      <4> HIDE DEF l, r, D, between
      <4> QED
        BY <1>5, <2>2, <2>3, <3>4
    <3> QED
      BY <2>4, <2>8, <3>5
  <2>9. CASE ~inBlock(bs[m + 1], addr) /\ ~(bs[m + 1].start > addr)
    <3>1. t # m + 1
      BY <2>9
    <3>2. ~(t < m + 1)
      BY <2>5, <2>6, <2>9
    <3>3. m + 1 <= t - 1
      BY <2>2, <3>1, <3>2
    <3>4. between(r)
      BY <3>3
    <3>5. f[r] > 0
      <4> HIDE DEF l, r, D, between
      <4> QED
        BY <1>5, <2>2, <2>3, <3>4
    <3> QED
      BY <2>4, <2>9, <3>5
  <2> QED
    BY <2>7, <2>8, <2>9
<1>6. L \in Nat
  OBVIOUS
<1>7. L \in T
  <2> HIDE DEF T, L
  <2> QED
    BY <1>4, <1>5, <1>6, Induction
<1> DEFINE d == <<0, L - 1>>
<1>8. d \in D /\ d[2] - d[1] < L /\ between(d)
  BY <1>6 DEF Ranges
<1>9. f[d] > 0
  <2> HIDE DEF d, between
  <2> QED
    BY <1>7, <1>8
<1> QED
  BY <1>1, <1>9

(***************************************************************************)
(* sortedByAddress, which compares neighbours, orders all the blocks; when *)
(* they are disjoint too, each ends before the next ones begin.            *)
(***************************************************************************)
LEMMA SortedByAddressOrders ==
    ASSUME NEW bs \in Seq(AnyBlock), sortedByAddress(bs),
           \A b, c \in ToSet(bs) : b # c => getEnd(b) <= c.start \/ getEnd(c) <= b.start
    PROVE  inOrder(bs)
<1> DEFINE T == {n \in Nat : \A i, j \in 1..Len(bs) :
                                i < j /\ j - i <= n => bs[i].start < bs[j].start}
<1>1. Len(bs) \in Nat /\ \A i \in 1..Len(bs) : bs[i] \in ToSet(bs) /\ bs[i].start \in Nat
  <2>1. \A i \in 1..Len(bs) : bs[i] \in AnyBlock
    OBVIOUS
  <2> QED
    BY <2>1 DEF ToSet, AnyBlock
<1>2. 0 \in T
  BY <1>1
<1>3. ASSUME NEW n \in Nat, n \in T
      PROVE  n + 1 \in T
  <2> SUFFICES ASSUME NEW i \in 1..Len(bs), NEW j \in 1..Len(bs), i < j, j - i <= n + 1
               PROVE  bs[i].start < bs[j].start
    OBVIOUS
  <2>1. j - 1 \in 1..(Len(bs) - 1) /\ (j - 1) + 1 = j /\ j - 1 \in 1..Len(bs)
    BY <1>1
  <2>2. bs[j - 1].start < bs[j].start
    BY <2>1 DEF sortedByAddress, comparatorAddress
  <2>3. CASE i = j - 1
    BY <2>2, <2>3
  <2>4. CASE i < j - 1
    <3>1. bs[i].start < bs[j - 1].start
      BY <1>3, <2>1, <2>4
    <3> QED
      BY <1>1, <2>1, <2>2, <3>1
  <2> QED
    BY <2>1, <2>3, <2>4
<1>4. Len(bs) \in T
  <2> HIDE DEF T
  <2> QED
    BY <1>1, <1>2, <1>3, Induction
<1>5. ASSUME NEW i \in 1..Len(bs), NEW j \in 1..Len(bs), i < j
      PROVE  getEnd(bs[i]) <= bs[j].start
  <2>1. bs[i].start < bs[j].start
    BY <1>1, <1>4, <1>5
  <2>2. bs[i] \in AnyBlock /\ bs[j] \in AnyBlock /\ bs[i] # bs[j]
    BY <1>1, <2>1
  <2>3. getEnd(bs[i]) <= bs[j].start \/ getEnd(bs[j]) <= bs[i].start
    BY <1>1, <2>2
  <2> QED
    BY <2>1, <2>2, <2>3 DEF AnyBlock, getEnd
<1> QED
  BY <1>5 DEF inOrder
-----------------------------------------------------------------------------
(***************************************************************************)
(* The instance of BlockHeap of CollectedHeap, with what is proved of it.  *)
(* The two instances have the same definitions, compared one by one.       *)
(***************************************************************************)
BP == INSTANCE BlockHeap_proof WITH
        partiallyFreeBlocks <- ToSet(partiallyFreeBlocks),
        fullBlocks <- ToSet(fullBlocks),
        all <- ToSet(all),
        newPartially <- ToSet(newPartially),
        pc <- IF pc \in {"thrown", "crashed"} THEN "failed" ELSE pc

LEMMA SameSizes ==
    ASSUME NEW size
    PROVE  /\ BP!align(size) = align(size)
           /\ BP!isLargeObject(size) <=> isLargeObject(size)
           /\ BP!isSuperObject(size) <=> isSuperObject(size)
           /\ BP!blockSizeFor(size) = blockSizeFor(size)
BY DEF BP!align, align, BP!isLargeObject, isLargeObject, BP!isSuperObject, isSuperObject,
   BP!blockSizeFor, blockSizeFor

LEMMA SameBlock ==
    ASSUME NEW b
    PROVE  /\ BP!getEnd(b) = getEnd(b) /\ BP!current(b) = current(b)
           /\ BP!getRemaining(b) = getRemaining(b)
           /\ BP!shrunk(b) = shrunk(b) /\ BP!cutOff(b) = cutOff(b)
           /\ BP!afterReset(b) = afterReset(b)
BY DEF BP!getEnd, getEnd, BP!current, current, BP!getRemaining, getRemaining, BP!shrunk, shrunk,
   BP!cutOff, cutOff, BP!newHeapBlock, newHeapBlock, BP!afterReset, afterReset

LEMMA SameBlockAnd ==
    ASSUME NEW b, NEW x
    PROVE  /\ BP!newHeapBlock(b, x) = newHeapBlock(b, x)
           /\ BP!afterAllocate(b, x) = afterAllocate(b, x)
           /\ BP!newObject(b, x) = newObject(b, x)
           /\ BP!canAfford(b, x) <=> canAfford(b, x)
           /\ BP!inBlock(b, x) <=> inBlock(b, x)
           /\ BP!lessThan(b, x) <=> lessThan(b, x)
           /\ BP!onlyObject(b, x) <=> onlyObject(b, x)
           /\ BP!sideBlocks(b, x) = sideBlocks(b, x)
BY DEF BP!newHeapBlock, newHeapBlock, BP!afterAllocate, afterAllocate, BP!newObject, newObject,
   BP!canAfford, canAfford, BP!getRemaining, getRemaining, BP!inBlock, inBlock, BP!getEnd, getEnd,
   BP!lessThan, lessThan, BP!onlyObject, onlyObject, BP!sideBlocks, sideBlocks,
   BP!leftBlock, leftBlock, BP!rightBlock, rightBlock

LEMMA SameObject ==
    ASSUME NEW o
    PROVE  BP!objectBlock(o) = objectBlock(o) /\ BP!extentEnd(o) = extentEnd(o)
BY DEF BP!objectBlock, objectBlock, BP!newHeapBlock, newHeapBlock, BP!extentEnd, extentEnd,
   BP!align, align

LEMMA SameInit == BP!Init <=> B!Init
BY DEF BP!Init, B!Init, BP!newHeapBlock, B!newHeapBlock

LEMMA SameNext == [BP!Next]_BP!vars => [B!Next]_B!vars
<1>1. ASSUME NEW raw \in RawSizes, BP!AllocateFromBlock(raw) PROVE B!AllocateFromBlock(raw)
  BY <1>1 DEF BP!AllocateFromBlock, B!AllocateFromBlock, BP!selected, B!selected, BP!bestFits,
     B!bestFits, BP!canAfford, B!canAfford, BP!lessThan, B!lessThan, BP!getRemaining,
     B!getRemaining, BP!afterAllocate, B!afterAllocate, BP!newObject, B!newObject, BP!current,
     B!current, BP!align, B!align, BP!isLargeObject, B!isLargeObject, BP!unused, B!unused,
     BP!locals, B!locals
<1>2. ASSUME NEW raw \in RawSizes, BP!AllocateFromNewBlock(raw) PROVE B!AllocateFromNewBlock(raw)
  BY <1>2 DEF BP!AllocateFromNewBlock, B!AllocateFromNewBlock, BP!bestFits, B!bestFits,
     BP!canAfford, B!canAfford, BP!getRemaining, B!getRemaining, BP!afterAllocate,
     B!afterAllocate, BP!newObject, B!newObject, BP!align, B!align, BP!isLargeObject,
     B!isLargeObject, BP!newHeapBlock, B!newHeapBlock, BP!newBlockFromUnused,
     B!newBlockFromUnused, BP!locals, B!locals
<1>3. ASSUME NEW raw \in RawSizes, BP!AllocateLarge(raw) PROVE B!AllocateLarge(raw)
  BY <1>3 DEF BP!AllocateLarge, B!AllocateLarge, BP!getRemaining, B!getRemaining,
     BP!afterAllocate, B!afterAllocate, BP!newObject, B!newObject, BP!align, B!align,
     BP!isLargeObject, B!isLargeObject, BP!isSuperObject, B!isSuperObject, BP!blockSizeFor,
     B!blockSizeFor, BP!newHeapBlock, B!newHeapBlock, BP!newBlockFromUnused,
     B!newBlockFromUnused, BP!shrunk, B!shrunk, BP!cutOff, B!cutOff, BP!current, B!current,
     BP!locals, B!locals
<1>4. ASSUME NEW raw \in RawSizes, BP!AllocateFails(raw) PROVE B!AllocateFails(raw)
  BY <1>4 DEF BP!AllocateFails, B!AllocateFails, BP!bestFits, B!bestFits, BP!canAfford,
     B!canAfford, BP!getRemaining, B!getRemaining, BP!align, B!align, BP!isLargeObject,
     B!isLargeObject, BP!isSuperObject, B!isSuperObject, BP!blockSizeFor, B!blockSizeFor,
     BP!vars, B!vars, BP!unused, B!unused, BP!lists, B!lists, BP!locals, B!locals
<1>5. ASSUME NEW F \in SUBSET objects, BP!MemoryFreed(F) PROVE B!MemoryFreed(F)
  BY <1>5 DEF BP!MemoryFreed, B!MemoryFreed, BP!unused, B!unused, BP!lists, B!lists
<1>6. ASSUME NEW o \in free, BP!FreeObject(o) PROVE B!FreeObject(o)
  BY <1>6 DEF BP!FreeObject, B!FreeObject, BP!nextFree, B!nextFree, BP!inBlock, B!inBlock,
     BP!getEnd, B!getEnd, BP!ResetBlock, B!ResetBlock, BP!SplitBlock, B!SplitBlock,
     BP!onlyObject, B!onlyObject, BP!getRemaining, B!getRemaining, BP!afterReset, B!afterReset,
     BP!objectBlock, B!objectBlock, BP!sideBlocks, B!sideBlocks, BP!leftBlock, B!leftBlock,
     BP!rightBlock, B!rightBlock, BP!newHeapBlock, B!newHeapBlock, BP!unused, B!unused,
     BP!lists, B!lists
<1>7. BP!SearchFails => B!SearchFails
  BY DEF BP!SearchFails, B!SearchFails, BP!unused, B!unused, BP!lists, B!lists, BP!locals,
     B!locals
<1>8. BP!FinishFree => B!FinishFree
  BY DEF BP!FinishFree, B!FinishFree, BP!unused, B!unused
<1>9. BP!Next => B!Next
  BY <1>1, <1>2, <1>3, <1>4, <1>5, <1>6, <1>7, <1>8
     DEF BP!Next, B!Next, BP!Allocate, B!Allocate, BP!Sweep, B!Sweep
<1>10. UNCHANGED BP!vars => UNCHANGED B!vars
  BY DEF BP!vars, B!vars, BP!unused, B!unused, BP!lists, B!lists, BP!locals, B!locals
<1> QED
  BY <1>9, <1>10
-----------------------------------------------------------------------------
(***************************************************************************)
(* The inductive invariant: that of BlockHeap, and every list holds its    *)
(* blocks once.                                                            *)
(***************************************************************************)
listed(bs) == bs \in Seq(AnyBlock) /\ IsInjective(bs)

ListsOnce == listed(partiallyFreeBlocks) /\ listed(fullBlocks) /\ listed(all) /\ listed(newPartially)

HeapInv ==
    /\ ListsOnce
    /\ pc \in {"idle", "freeing", "thrown", "crashed"}
    /\ BP!IndInv

\* Blocks that tile a range of the heap are told apart by any address in them.
distinctBlocks(S, end) ==
    /\ S \subseteq AnyBlock
    /\ \A b \in S : getEnd(b) <= end
    /\ \A b, c \in S : inBlock(b, c.start) => b = c

LEMMA TilesDistinct ==
    ASSUME NEW S, NEW end \in Nat, BP!Tiles(S, 0, end)
    PROVE  /\ distinctBlocks(S, end)
           /\ \A b, c \in S : b # c => getEnd(b) <= c.start \/ getEnd(c) <= b.start
<1>1. /\ S \subseteq AnyBlock
      /\ \A b \in S : getEnd(b) <= end
      /\ \A b, c \in S : b # c => getEnd(b) <= c.start \/ getEnd(c) <= b.start
  BY SameBlock DEF BP!Tiles, BP!BlockType, AnyBlock
<1>2. ASSUME NEW b \in S, NEW c \in S, inBlock(b, c.start), b # c
      PROVE  FALSE
  <2>1. b.start \in Nat /\ c.start \in Nat /\ getEnd(b) \in Nat /\ getEnd(c) \in Nat
        /\ c.start < getEnd(c)
    BY <1>1, BlockEnds
  <2> QED
    BY <1>1, <1>2, <2>1 DEF inBlock
<1> QED
  BY <1>1, <1>2 DEF distinctBlocks

LEMMA BlocksInUse ==
    ASSUME HeapInv
    PROVE  /\ heapUnUsedStart \in Nat /\ heapUnusedSize = heapSize - heapUnUsedStart
           /\ objects \subseteq BP!ObjectType /\ free \subseteq objects
           /\ pc \in {"idle", "freeing", "thrown", "crashed"}
           /\ pc = "idle" =>
                /\ distinctBlocks(ToSet(fullBlocks) \cup ToSet(partiallyFreeBlocks), heapUnUsedStart)
                /\ ToSet(fullBlocks) \cap ToSet(partiallyFreeBlocks) = {}
           /\ pc # "idle" =>
                /\ distinctBlocks(ToSet(all) \cup ToSet(newPartially), heapUnUsedStart)
                /\ ToSet(all) \cap ToSet(newPartially) = {}
<1>1. /\ heapUnUsedStart \in 0..heapSize /\ heapUnusedSize = heapSize - heapUnUsedStart
      /\ objects \subseteq BP!ObjectType /\ free \subseteq objects
      /\ (IF pc \in {"thrown", "crashed"} THEN "failed" ELSE pc) \in {"idle", "freeing", "failed"}
  BY DEF HeapInv, BP!IndInv, BP!TypeOK
<1>2. heapUnUsedStart \in Nat /\ pc \in {"idle", "freeing", "thrown", "crashed"}
  <2>1. pc \in {"idle", "freeing", "thrown", "crashed"}
    BY DEF HeapInv
  <2>2. heapUnUsedStart \in Nat
    BY <1>1, SizesAssumption
  <2> QED
    BY <2>1, <2>2
<1>3. BP!Tiles(BP!blocks, 0, heapUnUsedStart)
  BY DEF HeapInv, BP!IndInv, BP!BlocksTile
<1>4. distinctBlocks(BP!blocks, heapUnUsedStart)
  BY <1>2, <1>3, TilesDistinct
<1>5. BP!Separate
  BY DEF HeapInv, BP!IndInv
<1>6. CASE pc = "idle"
  <2>1. BP!blocks = ToSet(fullBlocks) \cup ToSet(partiallyFreeBlocks)
    BY <1>6 DEF BP!blocks
  <2>2. ToSet(fullBlocks) \cap ToSet(partiallyFreeBlocks) = {}
    BY <1>5, <1>6 DEF BP!Separate
  <2> QED
    BY <1>1, <1>2, <1>4, <1>6, <2>1, <2>2
<1>7. CASE pc # "idle"
  <2>1. BP!blocks = ToSet(all) \cup ToSet(newPartially)
    BY <1>7 DEF BP!blocks
  <2>2. ToSet(all) \cap ToSet(newPartially) = {}
    BY <1>5, <1>7 DEF BP!Separate
  <2> QED
    BY <1>1, <1>2, <1>4, <1>7, <2>1, <2>2
<1> QED
  BY <1>6, <1>7

-----------------------------------------------------------------------------
(***************************************************************************)
(* allocate.                                                               *)
(***************************************************************************)

\* The lists stay as they are, or a list is appended a block it does not hold.
LEMMA ListAppend ==
    ASSUME NEW bs, listed(bs), NEW b \in AnyBlock, b \notin ToSet(bs)
    PROVE  listed(Append(bs, b)) /\ ToSet(Append(bs, b)) = ToSet(bs) \cup {b}
BY AppendElements DEF listed

LEMMA ListSort ==
    ASSUME NEW bs, listed(bs)
    PROVE  /\ listed(sort(bs)) /\ ToSet(sort(bs)) = ToSet(bs)
           /\ ordered(sort(bs), byRemaining(ToSet(bs)))
<1> DEFINE E == ToSet(bs)
           before == byRemaining(E)
<1>1. bs \in Seq(AnyBlock) /\ E \subseteq AnyBlock /\ bs \in Seq(E)
  BY DEF listed, ToSet
<1>2. weakOrder(before, E)
  BY <1>1, ComparatorsAreWeakOrders
<1> HIDE DEF E, before
<1>3. /\ sorted(bs, before) \in Seq(E) /\ ordered(sorted(bs, before), before)
      /\ ToSet(sorted(bs, before)) = ToSet(bs)
      /\ IsInjective(bs) => IsInjective(sorted(bs, before))
  BY <1>1, <1>2, SortedElements
<1>4. sorted(bs, before) \in Seq(AnyBlock)
  BY <1>1, <1>3
<1> QED
  BY <1>3, <1>4 DEF sort, listed, E, before

LEMMA ListThose ==
    ASSUME NEW bs, listed(bs), NEW S
    PROVE  listed(those(bs, S)) /\ ToSet(those(bs, S)) = ToSet(bs) \cap S
BY ThoseElements DEF listed

\* The blocks that can afford the size, and the one that allocate takes.
LEMMA BestFits ==
    ASSUME HeapInv, NEW size
    PROVE  /\ ToSet(bestFits(size)) = BP!bestFits(size)
           /\ bestFits(size) = << >> <=> BP!bestFits(size) = {}
           /\ bestFits(size) # << >> => Head(bestFits(size)) \in BP!selected(size)
<1> DEFINE P == ToSet(partiallyFreeBlocks)
           fits == those(partiallyFreeBlocks, {b \in P : canAfford(b, size)})
           E == ToSet(fits)
           q == bestFits(size)
<1>1. listed(fits) /\ E = {b \in P : canAfford(b, size)}
  BY ListThose DEF HeapInv, ListsOnce
<1>2. listed(q) /\ ToSet(q) = E /\ ordered(q, byRemaining(E))
  <2> HIDE DEF fits
  <2> QED
    BY <1>1, ListSort DEF bestFits, fits
<1>3. BP!bestFits(size) = E
  BY <1>1, SameBlockAnd DEF BP!bestFits
<1> HIDE DEF fits, E, q, P
<1>4. q \in Seq(AnyBlock) /\ Len(q) \in Nat /\ \A i \in 1..Len(q) : q[i] \in E
  BY <1>2 DEF listed, ToSet
<1>5. q = << >> <=> E = {}
  <2>1. q = << >> => E = {}
    BY <1>2 DEF ToSet
  <2>2. q # << >> => Head(q) = q[1] /\ 1 \in 1..Len(q)
    BY <1>4
  <2> QED
    BY <1>4, <2>1, <2>2
<1>6. ASSUME q # << >>
      PROVE  Head(q) \in BP!selected(size)
  <2>1. Head(q) = q[1] /\ 1 \in 1..Len(q) /\ q[1] \in E
    BY <1>4, <1>6
  <2>2. ASSUME NEW c \in E PROVE ~lessThan(c, Head(q))
    <3>1. PICK i \in 1..Len(q) : c = q[i]
      BY <1>2, <1>4 DEF ToSet
    <3>2. CASE i = 1
      <4>1. c \in AnyBlock
        BY <1>4, <3>1
      <4>2. getRemaining(c) \in Int /\ c.start \in Nat
        BY <4>1 DEF AnyBlock, getRemaining
      <4> QED
        BY <2>1, <3>1, <3>2, <4>2 DEF lessThan
    <3>3. CASE i # 1
      <4>1. <<q[i], q[1]>> \notin byRemaining(E)
        BY <1>2, <2>1, <3>3 DEF ordered
      <4> QED
        BY <2>1, <3>1, <4>1 DEF byRemaining
    <3> QED
      BY <3>2, <3>3
  <2> QED
    BY <1>3, <2>1, <2>2, SameBlockAnd DEF BP!selected
<1> QED
  BY <1>2, <1>3, <1>5, <1>6 DEF q
\* A list whose block b is allocated into, in place.
LEMMA ListUpdate ==
    ASSUME NEW bs, listed(bs), NEW b \in ToSet(bs), NEW a \in AnyBlock,
           \A c \in ToSet(bs) : c.start = b.start => c = b, a.start = b.start
    PROVE  LET cs == [i \in DOMAIN bs |-> IF bs[i] = b THEN a ELSE bs[i]]
           IN  listed(cs) /\ ToSet(cs) = (ToSet(bs) \ {b}) \cup {a}
<1> DEFINE cs == [i \in DOMAIN bs |-> IF bs[i] = b THEN a ELSE bs[i]]
           N == Len(bs)
<1>1. N \in Nat /\ DOMAIN bs = 1..N /\ bs \in Seq(AnyBlock) /\ \A i \in 1..N : bs[i] \in AnyBlock /\ bs[i] \in ToSet(bs)
  <2>1. bs \in Seq(AnyBlock)
    BY DEF listed
  <2> QED
    BY <2>1 DEF ToSet
<1>2. DOMAIN cs = 1..N /\ \A i \in 1..N : cs[i] = IF bs[i] = b THEN a ELSE bs[i]
  BY <1>1
<1>3. cs \in Seq(AnyBlock)
  BY <1>1
<1>4. ToSet(cs) = {cs[i] : i \in 1..N}
  BY <1>2 DEF ToSet
<1> HIDE DEF cs
<1>5. \A i, j \in 1..N : bs[i] = bs[j] => i = j
  BY <1>1 DEF listed, IsInjective
<1>6. PICK k \in 1..N : bs[k] = b
  BY <1>1 DEF ToSet
<1>7. IsInjective(cs)
  <2> SUFFICES ASSUME NEW i \in 1..N, NEW j \in 1..N, cs[i] = cs[j]
               PROVE  i = j
    BY <1>2 DEF IsInjective
  <2>1. CASE bs[i] = b /\ bs[j] = b
    BY <1>5, <2>1
  <2>2. CASE bs[i] # b /\ bs[j] # b
    BY <1>2, <1>5, <2>2
  <2>3. ASSUME NEW m \in 1..N, bs[m] # b PROVE bs[m] # a
    BY <1>1, <2>3
  <2> QED
    BY <1>2, <2>1, <2>2, <2>3
<1>8. ToSet(cs) = (ToSet(bs) \ {b}) \cup {a}
  <2>1. ToSet(bs) = {bs[i] : i \in 1..N}
    BY <1>1 DEF ToSet
  <2>2. a \in ToSet(cs)
    BY <1>2, <1>4, <1>6
  <2>3. ToSet(cs) \subseteq (ToSet(bs) \ {b}) \cup {a}
    BY <1>2, <1>4, <2>1
  <2>4. ToSet(bs) \ {b} \subseteq ToSet(cs)
    BY <1>2, <1>4, <2>1
  <2> QED
    BY <2>2, <2>3, <2>4
<1> QED
  BY <1>3, <1>7, <1>8 DEF listed, cs

LEMMA Aligned ==
    ASSUME NEW raw \in RawSizes
    PROVE  raw \in Nat /\ align(raw) \in Nat \ {0}
<1>1. raw \in Nat \ {0}
  BY RawSizesAssumption
<1>2. BP!align(raw) \in Nat /\ raw <= BP!align(raw)
  BY <1>1, BP!AlignBounds, SizesAssumption, RawSizesAssumption
<1> QED
  BY <1>1, <1>2, SameSizes

LEMMA AllocateFromBlockStep ==
    ASSUME HeapInv, NEW raw \in RawSizes, AllocateFromBlock(raw)
    PROVE  BP!AllocateFromBlock(raw) /\ ListsOnce'
<1> DEFINE size == align(raw)
           b == Head(bestFits(size))
           after == afterAllocate(b, size)
           P == ToSet(partiallyFreeBlocks)
<1>1. /\ pc = "idle" /\ ~isLargeObject(size) /\ bestFits(size) # << >>
      /\ objects' = objects \cup {newObject(current(b), raw)}
      /\ IF getRemaining(after) < ALIGN
         THEN /\ partiallyFreeBlocks' = those(partiallyFreeBlocks, P \ {b})
              /\ fullBlocks' = Append(fullBlocks, after)
         ELSE /\ partiallyFreeBlocks' =
                      [i \in DOMAIN partiallyFreeBlocks |->
                          IF partiallyFreeBlocks[i] = b THEN after ELSE partiallyFreeBlocks[i]]
              /\ fullBlocks' = fullBlocks
      /\ UNCHANGED <<unused, pc, locals>>
  BY DEF AllocateFromBlock
<1>2. size \in Nat \ {0}
  BY Aligned
<1>3. b \in BP!selected(size)
  BY <1>1, BestFits
<1>4. b \in P
  BY <1>3 DEF BP!selected, BP!bestFits
<1>5. /\ listed(partiallyFreeBlocks) /\ listed(fullBlocks) /\ listed(all) /\ listed(newPartially)
      /\ distinctBlocks(ToSet(fullBlocks) \cup P, heapUnUsedStart)
      /\ ToSet(fullBlocks) \cap P = {}
  BY <1>1, BlocksInUse DEF HeapInv, ListsOnce
<1>6. /\ b \in AnyBlock /\ after \in AnyBlock /\ after.start = b.start
      /\ \A c \in ToSet(fullBlocks) \cup P : c.start = b.start => c = b
  <2>1. b \in AnyBlock
    BY <1>4, <1>5 DEF distinctBlocks
  <2>2. after = [start |-> b.start, size |-> b.size, used |-> b.used + size]
    BY <2>1 DEF afterAllocate, AnyBlock
  <2>3. after \in AnyBlock /\ after.start = b.start
    BY <1>2, <2>1, <2>2 DEF AnyBlock
  <2>4. ASSUME NEW c \in ToSet(fullBlocks) \cup P, c.start = b.start PROVE c = b
    <3>1. inBlock(c, b.start)
      <4>1. c \in AnyBlock
        BY <1>5 DEF distinctBlocks
      <4> QED
        BY <2>4, <4>1, BlockEnds DEF inBlock
    <3> QED
      BY <1>4, <1>5, <3>1 DEF distinctBlocks
  <2> QED
    BY <2>1, <2>3, <2>4
<1>7. /\ after \notin ToSet(fullBlocks)
      /\ \A c \in P : c.start = b.start => c = b
  BY <1>4, <1>5, <1>6
<1>8. after \in AnyBlock /\ after.start = b.start
  BY <1>6
<1>9. IF getRemaining(after) < ALIGN
      THEN /\ listed(partiallyFreeBlocks') /\ ToSet(partiallyFreeBlocks') = P \ {b}
           /\ listed(fullBlocks') /\ ToSet(fullBlocks') = ToSet(fullBlocks) \cup {after}
      ELSE /\ listed(partiallyFreeBlocks') /\ ToSet(partiallyFreeBlocks') = (P \ {b}) \cup {after}
           /\ listed(fullBlocks') /\ ToSet(fullBlocks') = ToSet(fullBlocks)
  <2> HIDE DEF after, b, size
  <2>1. CASE getRemaining(after) < ALIGN
    <3>1. /\ partiallyFreeBlocks' = those(partiallyFreeBlocks, P \ {b})
          /\ fullBlocks' = Append(fullBlocks, after)
      BY <1>1, <2>1
    <3>2. listed(partiallyFreeBlocks') /\ ToSet(partiallyFreeBlocks') = P \cap (P \ {b})
      BY <1>5, <3>1, ListThose
    <3>3. listed(fullBlocks') /\ ToSet(fullBlocks') = ToSet(fullBlocks) \cup {after}
      BY <1>5, <1>7, <1>8, <3>1, ListAppend
    <3> QED
      BY <2>1, <3>2, <3>3
  <2>2. CASE ~(getRemaining(after) < ALIGN)
    <3>1. /\ partiallyFreeBlocks' = [i \in DOMAIN partiallyFreeBlocks |->
                          IF partiallyFreeBlocks[i] = b THEN after ELSE partiallyFreeBlocks[i]]
          /\ fullBlocks' = fullBlocks
      BY <1>1, <2>2
    <3>2. listed(partiallyFreeBlocks') /\ ToSet(partiallyFreeBlocks') = (P \ {b}) \cup {after}
      BY <1>4, <1>5, <1>7, <1>8, <3>1, ListUpdate
    <3> QED
      BY <1>5, <2>2, <3>1, <3>2
  <2> QED
    BY <2>1, <2>2
<1>10. ListsOnce'
  BY <1>1, <1>5, <1>9 DEF ListsOnce, locals
<1>11. BP!AllocateFromBlock(raw)
  <2>1. BP!align(raw) = size /\ ~BP!isLargeObject(size)
    BY <1>1, SameSizes
  <2>2. /\ BP!afterAllocate(b, size) = after
        /\ BP!getRemaining(after) = getRemaining(after)
        /\ BP!newObject(BP!current(b), raw) = newObject(current(b), raw)
    BY SameBlock, SameBlockAnd
  <2> HIDE DEF after, b, size, P
  <2>3. /\ ToSet(partiallyFreeBlocks)' =
               (P \ {b}) \cup (IF getRemaining(after) < ALIGN THEN {} ELSE {after})
        /\ ToSet(fullBlocks)' =
               ToSet(fullBlocks) \cup (IF getRemaining(after) < ALIGN THEN {after} ELSE {})
    BY <1>9
  <2>4. /\ UNCHANGED <<BP!unused, BP!locals>>
        /\ UNCHANGED IF pc \in {"thrown", "crashed"} THEN "failed" ELSE pc
        /\ (IF pc \in {"thrown", "crashed"} THEN "failed" ELSE pc) = "idle"
    BY <1>1 DEF unused, locals, BP!unused, BP!locals
  <2> QED
    BY <1>1, <1>3, <2>1, <2>2, <2>3, <2>4 DEF BP!AllocateFromBlock, P
<1> QED
  BY <1>10, <1>11
LEMMA AllocateFromNewBlockStep ==
    ASSUME HeapInv, NEW raw \in RawSizes, AllocateFromNewBlock(raw)
    PROVE  BP!AllocateFromNewBlock(raw) /\ ListsOnce'
<1> DEFINE size == align(raw)
           b == newHeapBlock(heapUnUsedStart, BLOCK)
           after == afterAllocate(b, size)
<1>1. /\ pc = "idle" /\ ~isLargeObject(size) /\ bestFits(size) = << >>
      /\ newBlockFromUnused(BLOCK)
      /\ objects' = objects \cup {newObject(b.start, raw)}
      /\ partiallyFreeBlocks' = Append(partiallyFreeBlocks, after)
      /\ UNCHANGED <<fullBlocks, pc, locals>>
  BY DEF AllocateFromNewBlock
<1>2. size \in Nat \ {0}
  BY Aligned
<1>3. BP!bestFits(size) = {}
  BY <1>1, BestFits
<1>4. /\ listed(partiallyFreeBlocks) /\ listed(fullBlocks) /\ listed(all) /\ listed(newPartially)
      /\ distinctBlocks(ToSet(fullBlocks) \cup ToSet(partiallyFreeBlocks), heapUnUsedStart)
      /\ heapUnUsedStart \in Nat
  BY <1>1, BlocksInUse DEF HeapInv, ListsOnce
<1>5. after \in AnyBlock /\ after.start = heapUnUsedStart
  <2>1. b = [start |-> heapUnUsedStart, size |-> BLOCK, used |-> 0]
    BY DEF newHeapBlock
  <2>2. after = [start |-> heapUnUsedStart, size |-> BLOCK, used |-> 0 + size]
    BY <2>1 DEF afterAllocate
  <2> QED
    BY <1>2, <1>4, <2>2, SizesAssumption DEF AnyBlock
<1>6. after \notin ToSet(partiallyFreeBlocks)
  BY <1>4, <1>5, BlockEnds DEF distinctBlocks
<1>7. listed(partiallyFreeBlocks') /\ ToSet(partiallyFreeBlocks') = ToSet(partiallyFreeBlocks) \cup {after}
  <2> HIDE DEF after
  <2> QED
    BY <1>1, <1>4, <1>5, <1>6, ListAppend
<1>8. ListsOnce'
  BY <1>1, <1>4, <1>7 DEF ListsOnce, locals
<1>9. BP!AllocateFromNewBlock(raw)
  <2>1. BP!align(raw) = size /\ ~BP!isLargeObject(size)
    BY <1>1, SameSizes
  <2>2. BP!newHeapBlock(heapUnUsedStart, BLOCK) = b /\ BP!afterAllocate(b, size) = after
        /\ BP!newObject(b.start, raw) = newObject(b.start, raw)
    BY SameBlockAnd
  <2>3. BP!newBlockFromUnused(BLOCK)
    BY <1>1 DEF newBlockFromUnused, BP!newBlockFromUnused
  <2> HIDE DEF after, b, size
  <2>4. ToSet(partiallyFreeBlocks)' = ToSet(partiallyFreeBlocks) \cup {after}
        /\ ToSet(fullBlocks)' = ToSet(fullBlocks)
    BY <1>1, <1>7
  <2>5. /\ UNCHANGED BP!locals
        /\ UNCHANGED IF pc \in {"thrown", "crashed"} THEN "failed" ELSE pc
        /\ (IF pc \in {"thrown", "crashed"} THEN "failed" ELSE pc) = "idle"
    BY <1>1 DEF locals, BP!locals
  <2> QED
    BY <1>1, <1>3, <2>1, <2>2, <2>3, <2>4, <2>5 DEF BP!AllocateFromNewBlock
<1> QED
  BY <1>8, <1>9

LEMMA AllocateLargeStep ==
    ASSUME HeapInv, NEW raw \in RawSizes, AllocateLarge(raw)
    PROVE  BP!AllocateLarge(raw) /\ ListsOnce'
<1> DEFINE size == align(raw)
           n == blockSizeFor(size)
           b == newHeapBlock(heapUnUsedStart, n)
           after == afterAllocate(b, size)
           split == getRemaining(after) >= ALIGN
           f == IF split THEN shrunk(after) ELSE after
           P == partiallyFreeBlocks \o (IF split THEN <<cutOff(after)>> ELSE << >>)
<1>1. /\ pc = "idle" /\ isLargeObject(size)
      /\ newBlockFromUnused(n)
      /\ objects' = objects \cup {newObject(after.start, raw)}
      /\ fullBlocks' = Append(fullBlocks, f)
      /\ partiallyFreeBlocks' = sort(P)
      /\ UNCHANGED <<pc, locals>>
  BY DEF AllocateLarge
<1>2. size \in Nat \ {0} /\ n \in Nat \ {0}
  <2>1. size \in Nat \ {0}
    BY Aligned
  <2> QED
    BY <2>1, SizesAssumption DEF blockSizeFor
<1>3. /\ listed(partiallyFreeBlocks) /\ listed(fullBlocks) /\ listed(all) /\ listed(newPartially)
      /\ distinctBlocks(ToSet(fullBlocks) \cup ToSet(partiallyFreeBlocks), heapUnUsedStart)
      /\ heapUnUsedStart \in Nat
  BY <1>1, BlocksInUse DEF HeapInv, ListsOnce
<1>4. after = [start |-> heapUnUsedStart, size |-> n, used |-> size]
  <2>1. b = [start |-> heapUnUsedStart, size |-> n, used |-> 0]
    BY DEF newHeapBlock
  <2>2. after = [start |-> heapUnUsedStart, size |-> n, used |-> 0 + size]
    BY <2>1 DEF afterAllocate
  <2> HIDE DEF size, n, after
  <2> QED
    BY <1>2, <2>2
<1> HIDE DEF after, size, n
<1>5. f \in AnyBlock /\ f.start = heapUnUsedStart
  <2>1. shrunk(after) = [start |-> heapUnUsedStart, size |-> size, used |-> size]
    BY <1>4 DEF shrunk
  <2> QED
    BY <1>2, <1>3, <1>4, <2>1 DEF AnyBlock
<1>6. ASSUME split
      PROVE  cutOff(after) \in AnyBlock /\ cutOff(after).start >= heapUnUsedStart
  <2>1. cutOff(after) = [start |-> heapUnUsedStart + size, size |-> n - size, used |-> 0]
    BY <1>4 DEF cutOff, newHeapBlock, current, getRemaining
  <2>2. n - size \in Nat \ {0}
    BY <1>2, <1>4, <1>6, SizesAssumption DEF getRemaining
  <2> QED
    BY <1>2, <1>3, <2>1, <2>2 DEF AnyBlock
<1> HIDE DEF f, split
<1>7. \A c \in ToSet(fullBlocks) \cup ToSet(partiallyFreeBlocks) : c.start < heapUnUsedStart /\ c.start \in Nat
  BY <1>3, BlockEnds DEF distinctBlocks
<1>8. listed(fullBlocks') /\ ToSet(fullBlocks') = ToSet(fullBlocks) \cup {f}
  <2>1. f \notin ToSet(fullBlocks)
    BY <1>3, <1>5, <1>7
  <2> QED
    BY <1>1, <1>3, <1>5, <2>1, ListAppend
<1>9. /\ listed(partiallyFreeBlocks')
      /\ ToSet(partiallyFreeBlocks') =
             ToSet(partiallyFreeBlocks) \cup (IF split THEN {cutOff(after)} ELSE {})
  <2>1. listed(P) /\ ToSet(P) = ToSet(partiallyFreeBlocks) \cup (IF split THEN {cutOff(after)} ELSE {})
    <3>1. CASE split
      <4>1. cutOff(after) \notin ToSet(partiallyFreeBlocks)
        BY <1>3, <1>6, <1>7, <3>1
      <4>2. P = Append(partiallyFreeBlocks, cutOff(after))
        BY <1>3, <1>6, <3>1 DEF listed
      <4> QED
        BY <1>3, <1>6, <3>1, <4>1, <4>2, ListAppend
    <3>2. CASE ~split
      <4>1. P = partiallyFreeBlocks
        BY <1>3, <3>2 DEF listed
      <4> QED
        BY <1>3, <3>2, <4>1
    <3> QED
      BY <3>1, <3>2
  <2> HIDE DEF P
  <2> QED
    BY <1>1, <2>1, ListSort
<1>10. ListsOnce'
  BY <1>1, <1>3, <1>8, <1>9 DEF ListsOnce, locals
<1>11. BP!AllocateLarge(raw)
  <2>1. BP!align(raw) = size /\ BP!isLargeObject(size) /\ BP!blockSizeFor(size) = n
    BY <1>1, SameSizes DEF size, n
  <2>2. /\ BP!newHeapBlock(heapUnUsedStart, n) = b /\ BP!afterAllocate(b, size) = after
        /\ BP!newObject(after.start, raw) = newObject(after.start, raw)
    BY SameBlockAnd DEF after
  <2>3. /\ BP!getRemaining(after) = getRemaining(after)
        /\ BP!shrunk(after) = shrunk(after) /\ BP!cutOff(after) = cutOff(after)
    BY SameBlock
  <2>4. BP!newBlockFromUnused(n)
    BY <1>1 DEF newBlockFromUnused, BP!newBlockFromUnused
  <2>5. /\ UNCHANGED BP!locals
        /\ UNCHANGED IF pc \in {"thrown", "crashed"} THEN "failed" ELSE pc
        /\ (IF pc \in {"thrown", "crashed"} THEN "failed" ELSE pc) = "idle"
    BY <1>1 DEF locals, BP!locals
  <2>6. /\ ToSet(fullBlocks)' = ToSet(fullBlocks) \cup {IF split THEN shrunk(after) ELSE after}
        /\ ToSet(partiallyFreeBlocks)' =
               ToSet(partiallyFreeBlocks) \cup (IF split THEN {cutOff(after)} ELSE {})
    BY <1>8, <1>9 DEF f
  <2> HIDE DEF b
  <2> QED
    BY <1>1, <2>1, <2>2, <2>3, <2>4, <2>5, <2>6 DEF BP!AllocateLarge, split
<1> QED
  BY <1>10, <1>11

LEMMA AllocateFailsStep ==
    ASSUME HeapInv, NEW raw \in RawSizes, AllocateFails(raw)
    PROVE  UNCHANGED vars
BY DEF AllocateFails

-----------------------------------------------------------------------------
(***************************************************************************)
(* memoryFreed.                                                            *)
(***************************************************************************)
LEMMA MemoryFreedStep ==
    ASSUME HeapInv, NEW F \in SUBSET objects, MemoryFreed(F)
    PROVE  BP!MemoryFreed(F) /\ ListsOnce'
<1>1. /\ pc = "idle" /\ pc' = "freeing" /\ free' = F
      /\ all' = mergeByAddress(fullBlocks, partiallyFreeBlocks)
      /\ newPartially' = << >>
      /\ UNCHANGED <<unused, lists, objects>>
  BY DEF MemoryFreed
<1>2. /\ listed(partiallyFreeBlocks) /\ listed(fullBlocks)
      /\ ToSet(fullBlocks) \cap ToSet(partiallyFreeBlocks) = {}
  BY <1>1, BlocksInUse DEF HeapInv, ListsOnce
<1>3. listed(all') /\ ToSet(all') = ToSet(fullBlocks) \cup ToSet(partiallyFreeBlocks)
  <2> DEFINE before == byAddress(ToSet(fullBlocks) \cup ToSet(partiallyFreeBlocks))
  <2>1. all' = merge(fullBlocks, partiallyFreeBlocks, before)
    BY <1>1 DEF mergeByAddress
  <2> HIDE DEF before
  <2> QED
    BY <1>2, <2>1, MergedElements DEF listed
<1>4. listed(<< >>) /\ ToSet(<< >>) = {}
  BY DEF listed, IsInjective, ToSet
<1>5. ListsOnce'
  BY <1>1, <1>2, <1>3, <1>4 DEF ListsOnce, lists
<1>6. BP!MemoryFreed(F)
  <2>1. /\ UNCHANGED <<BP!unused, BP!lists>>
        /\ (IF pc \in {"thrown", "crashed"} THEN "failed" ELSE pc) = "idle"
        /\ (IF pc \in {"thrown", "crashed"} THEN "failed" ELSE pc)' = "freeing"
        /\ ToSet(all)' = ToSet(fullBlocks) \cup ToSet(partiallyFreeBlocks)
        /\ ToSet(newPartially)' = {}
    BY <1>1, <1>3, <1>4 DEF unused, lists, BP!unused, BP!lists
  <2> QED
    BY <1>1, <2>1 DEF BP!MemoryFreed
<1> QED
  BY <1>5, <1>6

LEMMA FinishFreeStep ==
    ASSUME HeapInv, FinishFree
    PROVE  BP!FinishFree /\ ListsOnce'
<1>1. /\ pc = "freeing" /\ free = {} /\ pc' = "idle" /\ fullBlocks' = all
      /\ partiallyFreeBlocks' = sort(newPartially)
      /\ all' = << >> /\ newPartially' = << >>
      /\ UNCHANGED <<unused, objects, free>>
  BY DEF FinishFree
<1>2. listed(all) /\ listed(newPartially)
  BY DEF HeapInv, ListsOnce
<1>3. listed(partiallyFreeBlocks') /\ ToSet(partiallyFreeBlocks') = ToSet(newPartially)
  BY <1>1, <1>2, ListSort
<1>4. listed(<< >>) /\ ToSet(<< >>) = {}
  BY DEF listed, IsInjective, ToSet
<1>5. ListsOnce'
  BY <1>1, <1>2, <1>3, <1>4 DEF ListsOnce
<1>6. BP!FinishFree
  <2>1. /\ UNCHANGED BP!unused
        /\ (IF pc \in {"thrown", "crashed"} THEN "failed" ELSE pc) = "freeing"
        /\ (IF pc \in {"thrown", "crashed"} THEN "failed" ELSE pc)' = "idle"
        /\ ToSet(fullBlocks)' = ToSet(all) /\ ToSet(partiallyFreeBlocks)' = ToSet(newPartially)
        /\ ToSet(all)' = {} /\ ToSet(newPartially)' = {}
    BY <1>1, <1>3, <1>4 DEF unused, BP!unused
  <2> QED
    BY <1>1, <2>1 DEF BP!FinishFree
<1> QED
  BY <1>5, <1>6

LEMMA SearchMissesStep ==
    ASSUME HeapInv, NEW o \in free, SearchThrows(o) \/ SearchCrashes(o)
    PROVE  BP!SearchFails /\ ListsOnce'
<1>1. /\ pc = "freeing" /\ pc' \in {"thrown", "crashed"} /\ free # {}
      /\ UNCHANGED <<unused, lists, objects, locals>>
  BY DEF SearchThrows, SearchCrashes
<1>2. ListsOnce'
  BY <1>1 DEF HeapInv, ListsOnce, lists, locals
<1>3. BP!SearchFails
  <2>1. /\ UNCHANGED <<BP!unused, BP!lists, BP!locals>>
        /\ (IF pc \in {"thrown", "crashed"} THEN "failed" ELSE pc) = "freeing"
        /\ (IF pc \in {"thrown", "crashed"} THEN "failed" ELSE pc)' = "failed"
    BY <1>1 DEF unused, lists, locals, BP!unused, BP!lists, BP!locals
  <2> QED
    BY <1>1, <2>1 DEF BP!SearchFails
<1> QED
  BY <1>2, <1>3
\* The pieces a block is split into, as a list.
LEMMA ListPieces ==
    ASSUME NEW b \in AnyBlock, NEW o, o.addr \in Nat, o.size \in Nat \ {0}, inBlock(b, o.addr)
    PROVE  /\ listed(pieces(b, o)) /\ ToSet(pieces(b, o)) = sideBlocks(b, o)
           /\ \A c \in sideBlocks(b, o) : c \in AnyBlock /\ inBlock(b, c.start)
           /\ objectBlock(o) \in AnyBlock /\ objectBlock(o).start = o.addr
<1> DEFINE l == leftBlock(b, o)
           r == rightBlock(b, o)
           lr == <<l, r>>
<1>1. /\ b.start \in Nat /\ getEnd(b) \in Nat /\ b.start <= o.addr /\ o.addr < getEnd(b)
      /\ b.start < getEnd(b)
  BY BlockEnds DEF inBlock
<1>2. l = [start |-> b.start, size |-> o.addr - b.start, used |-> 0]
  BY DEF leftBlock, newHeapBlock
<1>3. r = [start |-> o.addr + o.size, size |-> getEnd(b) - (o.addr + o.size), used |-> 0]
  BY DEF rightBlock, newHeapBlock
<1>4. sideBlocks(b, o) = {c \in {l, r} : c.size > 0}
  BY DEF sideBlocks
<1>5. objectBlock(o) = [start |-> o.addr, size |-> o.size, used |-> 0]
  BY DEF objectBlock, newHeapBlock
<1> HIDE DEF l, r
<1>6. ASSUME NEW c \in sideBlocks(b, o) PROVE c \in AnyBlock /\ inBlock(b, c.start)
  <2>1. CASE c = l
    <3>1. o.addr - b.start \in Nat \ {0}
      BY <1>1, <1>2, <1>4, <2>1
    <3> QED
      BY <1>1, <1>2, <2>1, <3>1 DEF AnyBlock, inBlock
  <2>2. CASE c = r
    <3>1. getEnd(b) - (o.addr + o.size) > 0
      BY <1>3, <1>4, <2>2
    <3>2. getEnd(b) - (o.addr + o.size) \in Nat \ {0} /\ o.addr + o.size \in Nat
          /\ b.start <= o.addr + o.size /\ o.addr + o.size < getEnd(b)
      BY <1>1, <3>1
    <3> QED
      BY <1>1, <1>3, <2>2, <3>2 DEF AnyBlock, inBlock
  <2> QED
    BY <1>4, <2>1, <2>2
<1>7. lr \in Seq({l, r}) /\ ToSet(lr) = {l, r} /\ IsInjective(lr)
  <2>1. l # r
    <3>1. l.start = b.start /\ r.start = o.addr + o.size
      BY <1>2, <1>3
    <3>2. b.start # o.addr + o.size
      BY <1>1
    <3> QED
      BY <3>1, <3>2
  <2>2. lr \in Seq({l, r}) /\ DOMAIN lr = 1..2 /\ lr[1] = l /\ lr[2] = r
    OBVIOUS
  <2> HIDE DEF lr
  <2> QED
    BY <2>1, <2>2 DEF ToSet, IsInjective
<1>8. /\ pieces(b, o) \in Seq({l, r}) /\ IsInjective(pieces(b, o))
      /\ ToSet(pieces(b, o)) = {l, r} \cap sideBlocks(b, o)
  <2>1. pieces(b, o) = those(lr, sideBlocks(b, o))
    BY DEF pieces, l, r
  <2> HIDE DEF lr
  <2> QED
    BY <1>7, <2>1, ThoseElements
<1>9. ToSet(pieces(b, o)) = sideBlocks(b, o)
  BY <1>4, <1>8
<1>10. pieces(b, o) \in Seq(AnyBlock)
  <2>1. \A i \in 1..Len(pieces(b, o)) : pieces(b, o)[i] \in ToSet(pieces(b, o))
    BY <1>8 DEF ToSet
  <2>2. \A i \in 1..Len(pieces(b, o)) : pieces(b, o)[i] \in AnyBlock
    BY <1>6, <1>9, <2>1
  <2> QED
    BY <1>8, <2>2
<1>11. objectBlock(o) \in AnyBlock /\ objectBlock(o).start = o.addr
  BY <1>5 DEF AnyBlock
<1> QED
  BY <1>6, <1>8, <1>9, <1>10, <1>11 DEF listed

LEMMA ListSplit ==
    ASSUME NEW bs, listed(bs), NEW ps, listed(ps), ToSet(bs) \cap ToSet(ps) = {}
    PROVE  LET left == bs \o ps
           IN  /\ listed(sorted(left, byAddress(ToSet(left))))
               /\ ToSet(sorted(left, byAddress(ToSet(left)))) = ToSet(bs) \cup ToSet(ps)
<1> DEFINE left == bs \o ps
           E == ToSet(left)
           before == byAddress(E)
<1>1. left \in Seq(AnyBlock) /\ ToSet(left) = ToSet(bs) \cup ToSet(ps) /\ IsInjective(left)
  BY JoinedElements DEF listed
<1> HIDE DEF left
<1>2. E \subseteq AnyBlock /\ left \in Seq(E)
  BY <1>1 DEF ToSet
<1>3. weakOrder(before, E)
  BY <1>2, ComparatorsAreWeakOrders
<1> HIDE DEF E, before
<1>4. /\ sorted(left, before) \in Seq(E) /\ ToSet(sorted(left, before)) = ToSet(left)
      /\ IsInjective(left) => IsInjective(sorted(left, before))
  BY <1>2, <1>3, SortedElements
<1>5. sorted(left, before) \in Seq(AnyBlock)
  BY <1>2, <1>4
<1> QED
  BY <1>1, <1>4, <1>5 DEF listed, left, before, E

\* The block that the search has found for a swept object.
LEMMA FoundBlock ==
    ASSUME HeapInv, pc = "freeing", NEW o \in free, found(o) > 0
    PROVE  /\ o.addr \in Nat /\ o.size \in Nat \ {0}
           /\ all[found(o)] \in ToSet(all) /\ all[found(o)] \in AnyBlock
           /\ inBlock(all[found(o)], o.addr)
<1>1. o \in BP!ObjectType
  BY BlocksInUse
<1>2. o.addr \in Nat /\ o.size \in Nat \ {0}
  BY <1>1, RawSizesAssumption DEF BP!ObjectType
<1>3. all \in Seq(AnyBlock)
  BY DEF HeapInv, ListsOnce, listed
<1>4. isResult(all, o.addr, found(o))
  BY <1>3, SearchResult DEF found
<1>5. found(o) \in 1..Len(all) /\ inBlock(all[found(o)], o.addr)
  BY <1>4 DEF isResult
<1>6. all[found(o)] \in ToSet(all) /\ all[found(o)] \in AnyBlock
  BY <1>3, <1>5 DEF ToSet
<1> QED
  BY <1>2, <1>5, <1>6

LEMMA ListWithout ==
    ASSUME HeapInv, NEW b
    PROVE  listed(without(b)) /\ ToSet(without(b)) = ToSet(all) \ {b}
<1>1. listed(without(b)) /\ ToSet(without(b)) = ToSet(all) \cap (ToSet(all) \ {b})
  BY ListThose DEF without, HeapInv, ListsOnce
<1> QED
  BY <1>1

LEMMA FreeObjectStep ==
    ASSUME HeapInv, NEW o \in free, FreeObject(o)
    PROVE  BP!FreeObject(o) /\ ListsOnce'
<1> DEFINE b == all[found(o)]
<1>1. /\ pc = "freeing" /\ o \in nextFree /\ found(o) > 0
      /\ ResetBlock(b, o) \/ SplitBlock(b, o)
      /\ free' = free \ {o} /\ objects' = objects \ {o}
      /\ UNCHANGED <<unused, lists, pc>>
  BY DEF FreeObject
<1>2. /\ listed(all) /\ listed(newPartially) /\ listed(fullBlocks) /\ listed(partiallyFreeBlocks)
      /\ distinctBlocks(ToSet(all) \cup ToSet(newPartially), heapUnUsedStart)
      /\ ToSet(all) \cap ToSet(newPartially) = {}
      /\ objects \subseteq BP!ObjectType /\ free \subseteq objects
  BY <1>1, BlocksInUse DEF HeapInv, ListsOnce
<1>3. o.addr \in Nat /\ o.size \in Nat \ {0}
  BY <1>1, FoundBlock
<1>4. b \in ToSet(all) /\ inBlock(b, o.addr)
  BY <1>1, FoundBlock
<1> HIDE DEF b
<1>5. b \in AnyBlock /\ \A c \in ToSet(all) \cup ToSet(newPartially) : inBlock(b, c.start) => c = b
  BY <1>2, <1>4 DEF distinctBlocks
<1>6. inBlock(b, b.start)
  BY <1>5, BlockEnds DEF inBlock
<1>7. listed(without(b)) /\ ToSet(without(b)) = ToSet(all) \ {b}
  BY ListWithout
<1>8. ASSUME ResetBlock(b, o)
      PROVE  BP!ResetBlock(b, o) /\ ListsOnce'
  <2>1. /\ onlyObject(b, o) /\ newPartially' = Append(newPartially, afterReset(b))
        /\ all' = without(b)
    BY <1>8 DEF ResetBlock
  <2>2. afterReset(b) \in AnyBlock /\ afterReset(b).start = b.start
    BY <1>5 DEF afterReset, AnyBlock
  <2>3. afterReset(b) \notin ToSet(newPartially)
    BY <1>2, <1>4, <1>5, <1>6, <2>2
  <2>4. /\ listed(newPartially')
        /\ ToSet(newPartially') = ToSet(newPartially) \cup {afterReset(b)}
    BY <1>2, <2>1, <2>2, <2>3, ListAppend
  <2>5. ListsOnce'
    BY <1>1, <1>2, <1>7, <2>1, <2>4 DEF ListsOnce, lists
  <2>6. BP!ResetBlock(b, o)
    <3>1. BP!onlyObject(b, o) /\ BP!afterReset(b) = afterReset(b)
      BY <2>1, SameBlock, SameBlockAnd
    <3>2. /\ ToSet(newPartially)' = ToSet(newPartially) \cup {afterReset(b)}
          /\ ToSet(all)' = ToSet(all) \ {b}
      BY <1>7, <2>1, <2>4
    <3> QED
      BY <3>1, <3>2 DEF BP!ResetBlock
  <2> QED
    BY <2>5, <2>6
<1>9. ASSUME SplitBlock(b, o)
      PROVE  BP!SplitBlock(b, o) /\ ListsOnce'
  <2> DEFINE left == without(b) \o pieces(b, o)
  <2>1. /\ ~onlyObject(b, o) /\ newPartially' = Append(newPartially, objectBlock(o))
        /\ all' = sorted(left, byAddress(ToSet(left)))
    BY <1>9 DEF SplitBlock
  <2>2. /\ listed(pieces(b, o)) /\ ToSet(pieces(b, o)) = sideBlocks(b, o)
        /\ \A c \in sideBlocks(b, o) : c \in AnyBlock /\ inBlock(b, c.start)
        /\ objectBlock(o) \in AnyBlock /\ objectBlock(o).start = o.addr
    BY <1>3, <1>4, <1>5, ListPieces
  <2>3. objectBlock(o) \notin ToSet(newPartially)
    BY <1>2, <1>4, <1>5, <2>2
  <2>4. /\ listed(newPartially')
        /\ ToSet(newPartially') = ToSet(newPartially) \cup {objectBlock(o)}
    BY <1>2, <2>1, <2>2, <2>3, ListAppend
  <2>5. ToSet(without(b)) \cap ToSet(pieces(b, o)) = {}
    BY <1>5, <1>7, <2>2
  <2>6. listed(all') /\ ToSet(all') = (ToSet(all) \ {b}) \cup sideBlocks(b, o)
    BY <1>7, <2>1, <2>2, <2>5, ListSplit
  <2>7. ListsOnce'
    BY <1>1, <1>2, <2>4, <2>6 DEF ListsOnce, lists
  <2>8. BP!SplitBlock(b, o)
    <3>1. /\ ~BP!onlyObject(b, o) /\ BP!objectBlock(o) = objectBlock(o)
          /\ BP!sideBlocks(b, o) = sideBlocks(b, o)
      BY <2>1, SameObject, SameBlockAnd
    <3>2. /\ ToSet(newPartially)' = ToSet(newPartially) \cup {objectBlock(o)}
          /\ ToSet(all)' = (ToSet(all) \ {b}) \cup sideBlocks(b, o)
      BY <2>4, <2>6
    <3> QED
      BY <3>1, <3>2 DEF BP!SplitBlock
  <2> QED
    BY <2>7, <2>8
<1>10. BP!FreeObject(o)
  <2>1. BP!inBlock(b, o.addr)
    BY <1>4, SameBlockAnd
  <2>2. o \in BP!nextFree
    BY <1>1 DEF nextFree, BP!nextFree
  <2>3. /\ UNCHANGED <<BP!unused, BP!lists>>
        /\ (IF pc \in {"thrown", "crashed"} THEN "failed" ELSE pc) = "freeing"
        /\ UNCHANGED IF pc \in {"thrown", "crashed"} THEN "failed" ELSE pc
    BY <1>1 DEF unused, lists, BP!unused, BP!lists
  <2>4. BP!ResetBlock(b, o) \/ BP!SplitBlock(b, o)
    BY <1>1, <1>8, <1>9 DEF b
  <2> QED
    BY <1>1, <1>4, <2>1, <2>2, <2>3, <2>4 DEF BP!FreeObject
<1> QED
  BY <1>1, <1>8, <1>9, <1>10 DEF b

-----------------------------------------------------------------------------
(***************************************************************************)
(* HeapInv is an invariant, and every step is one of BlockHeap.            *)
(***************************************************************************)
LEMMA InitHeapInv == Init => HeapInv /\ BP!Init
<1> SUFFICES ASSUME Init PROVE HeapInv /\ BP!Init
  OBVIOUS
<1> DEFINE b == newHeapBlock(0, BLOCK)
<1>1. /\ heapUnUsedStart = BLOCK /\ heapUnusedSize = heapSize - BLOCK
      /\ partiallyFreeBlocks = <<b>> /\ fullBlocks = << >> /\ objects = {} /\ pc = "idle"
      /\ free = {} /\ all = << >> /\ newPartially = << >>
  BY DEF Init
<1>2. b \in AnyBlock
  BY SizesAssumption DEF newHeapBlock, AnyBlock
<1>3. BP!newHeapBlock(0, BLOCK) = b
  BY SameBlockAnd
<1> HIDE DEF b
<1>4. listed(<< >>) /\ ToSet(<< >>) = {}
  BY DEF listed, IsInjective, ToSet
<1>5. listed(<<b>>) /\ ToSet(<<b>>) = {b}
  <2>1. <<b>> \in Seq(AnyBlock) /\ DOMAIN <<b>> = 1..1 /\ <<b>>[1] = b
    BY <1>2
  <2> QED
    BY <2>1 DEF listed, IsInjective, ToSet
<1>6. ListsOnce
  BY <1>1, <1>4, <1>5 DEF ListsOnce
<1>7. BP!Init
  <2>1. /\ (IF pc \in {"thrown", "crashed"} THEN "failed" ELSE pc) = "idle"
        /\ ToSet(partiallyFreeBlocks) = {b} /\ ToSet(fullBlocks) = {}
        /\ ToSet(all) = {} /\ ToSet(newPartially) = {}
    BY <1>1, <1>4, <1>5
  <2> QED
    BY <1>1, <1>3, <2>1 DEF BP!Init
<1>8. BP!IndInv
  BY <1>7, BP!InitIndInv, SizesAssumption, RawSizesAssumption
<1> QED
  BY <1>1, <1>6, <1>7, <1>8 DEF HeapInv

LEMMA StepImplements == HeapInv /\ [Next]_vars => HeapInv' /\ [BP!Next]_BP!vars
<1> SUFFICES ASSUME HeapInv, [Next]_vars PROVE HeapInv' /\ [BP!Next]_BP!vars
  OBVIOUS
<1> DEFINE goal == ListsOnce' /\ [BP!Next]_BP!vars
                   /\ (pc \in {"idle", "freeing", "thrown", "crashed"})'
<1>0. pc \in {"idle", "freeing", "thrown", "crashed"}
  BY DEF HeapInv
<1>1. ASSUME NEW raw \in RawSizes, AllocateFromBlock(raw) PROVE goal
  <2>1. pc' = pc
    BY <1>1 DEF AllocateFromBlock
  <2> QED
    BY <1>0, <1>1, <2>1, AllocateFromBlockStep DEF BP!Next, BP!Allocate
<1>2. ASSUME NEW raw \in RawSizes, AllocateFromNewBlock(raw) PROVE goal
  <2>1. pc' = pc
    BY <1>2 DEF AllocateFromNewBlock
  <2> QED
    BY <1>0, <1>2, <2>1, AllocateFromNewBlockStep DEF BP!Next, BP!Allocate
<1>3. ASSUME NEW raw \in RawSizes, AllocateLarge(raw) PROVE goal
  <2>1. pc' = pc
    BY <1>3 DEF AllocateLarge
  <2> QED
    BY <1>0, <1>3, <2>1, AllocateLargeStep DEF BP!Next, BP!Allocate
<1>4. ASSUME UNCHANGED vars PROVE goal
  <2>1. ListsOnce' /\ pc' = pc
    BY <1>4 DEF HeapInv, ListsOnce, vars, unused, lists, locals
  <2>2. UNCHANGED BP!vars
    BY <1>4 DEF vars, unused, lists, locals, BP!vars, BP!unused, BP!lists, BP!locals
  <2> QED
    BY <1>0, <2>1, <2>2
<1>5. ASSUME NEW raw \in RawSizes, AllocateFails(raw) PROVE goal
  BY <1>4, <1>5, AllocateFailsStep
<1>6. ASSUME NEW F \in SUBSET objects, MemoryFreed(F) PROVE goal
  <2>1. pc' = "freeing"
    BY <1>6 DEF MemoryFreed
  <2> QED
    BY <1>6, <2>1, MemoryFreedStep DEF BP!Next, BP!Sweep
<1>7. ASSUME NEW o \in free, FreeObject(o) PROVE goal
  <2>1. pc' = pc
    BY <1>7 DEF FreeObject
  <2> QED
    BY <1>0, <1>7, <2>1, FreeObjectStep DEF BP!Next, BP!Sweep
<1>8. ASSUME NEW o \in free, SearchThrows(o) \/ SearchCrashes(o) PROVE goal
  <2>1. pc' \in {"thrown", "crashed"}
    BY <1>8 DEF SearchThrows, SearchCrashes
  <2> QED
    BY <1>8, <2>1, SearchMissesStep DEF BP!Next, BP!Sweep
<1>9. ASSUME FinishFree PROVE goal
  <2>1. pc' = "idle"
    BY <1>9 DEF FinishFree
  <2> QED
    BY <1>9, <2>1, FinishFreeStep DEF BP!Next, BP!Sweep
<1>10. goal
  <2> HIDE DEF goal
  <2> QED
    BY <1>1, <1>2, <1>3, <1>4, <1>5, <1>6, <1>7, <1>8, <1>9 DEF Next
<1>11. BP!IndInv'
  <2>1. BP!IndInv
    BY DEF HeapInv
  <2> QED
    BY <1>10, <2>1, BP!NextIndInv, SizesAssumption, RawSizesAssumption
<1> QED
  BY <1>10, <1>11 DEF HeapInv

LEMMA HeapInvariant == Spec => []HeapInv
<1>1. Init => HeapInv
  BY InitHeapInv
<1>2. HeapInv /\ [Next]_vars => HeapInv'
  BY StepImplements
<1> QED
  BY <1>1, <1>2, PTL DEF Spec

(***************************************************************************)
(* CollectedHeap with its lists in order is a BlockHeap: what sort, merge, *)
(* remove and the binary search do to the lists changes the sets of blocks *)
(* as BlockHeap says, whatever order the blocks were in.                   *)
(***************************************************************************)
THEOREM ListsImplementBlockHeap == Spec => BlockHeapSpec
<1>1. Init => B!Init
  BY InitHeapInv, SameInit
<1>2. HeapInv /\ [Next]_vars => [B!Next]_B!vars
  BY StepImplements, SameNext
<1> QED
  BY <1>1, <1>2, HeapInvariant, PTL DEF Spec, BlockHeapSpec, B!Spec

(***************************************************************************)
(* A block is in one list, once, through any sequence of allocations and   *)
(* sweeps: the lines of allocate and memoryFreed that move blocks between  *)
(* lists neither lose nor duplicate one.                                   *)
(***************************************************************************)
THEOREM NoBlockInTwoLists == Spec => []NoBlockTwice
<1>1. HeapInv => NoBlockTwice
  <2> SUFFICES ASSUME HeapInv PROVE NoBlockTwice
    OBVIOUS
  <2>1. listed(partiallyFreeBlocks) /\ listed(fullBlocks) /\ listed(all) /\ listed(newPartially)
    BY DEF HeapInv, ListsOnce
  <2>2. CASE pc = "idle"
    <3>1. ToSet(fullBlocks) \cap ToSet(partiallyFreeBlocks) = {}
      BY <2>2, BlocksInUse
    <3>2. IsInjective(fullBlocks \o partiallyFreeBlocks)
      BY <2>1, <3>1, JoinedElements DEF listed
    <3> QED
      BY <2>2, <3>2 DEF NoBlockTwice
  <2>3. CASE pc # "idle"
    <3>1. ToSet(all) \cap ToSet(newPartially) = {}
      BY <2>3, BlocksInUse
    <3>2. IsInjective(all \o newPartially)
      BY <2>1, <3>1, JoinedElements DEF listed
    <3> QED
      BY <2>3, <3>2 DEF NoBlockTwice
  <2> QED
    BY <2>2, <2>3
<1> QED
  BY <1>1, HeapInvariant, PTL
(***************************************************************************)
(* The types, with the bounds of the heap.  The lists of allocate keep     *)
(* their contents while memoryFreed works on its own, so that their bound  *)
(* is not that of the blocks in use at the time.                           *)
(***************************************************************************)
LEMMA TilesBounded ==
    ASSUME NEW S, NEW end \in 0..heapSize, BP!Tiles(S, 0, end)
    PROVE  S \subseteq BlockType
<1> SUFFICES ASSUME NEW b \in S PROVE b \in BlockType
  OBVIOUS
<1>1. /\ b \in AnyBlock /\ b.start + b.size <= end /\ b.used <= b.size
  BY SameBlock DEF BP!Tiles, BP!BlockType, AnyBlock, getEnd
<1>2. heapSize \in Nat /\ end <= heapSize /\ end \in Nat
  BY SizesAssumption
<1>3. b.start \in 0..heapSize /\ b.size \in 1..heapSize /\ b.used \in 0..heapSize
  BY <1>1, <1>2 DEF AnyBlock
<1>4. b = [start |-> b.start, size |-> b.size, used |-> b.used]
  BY <1>1 DEF AnyBlock
<1> QED
  BY <1>3, <1>4 DEF BlockType

Bounded ==
    /\ heapUnUsedStart \in 0..heapSize /\ heapUnusedSize \in 0..heapSize
    /\ objects \subseteq [addr : 0..heapSize, size : RawSizes]
    /\ pc = "idle" =>
         ToSet(partiallyFreeBlocks) \subseteq BlockType /\ ToSet(fullBlocks) \subseteq BlockType
    /\ pc # "idle" => ToSet(all) \subseteq BlockType /\ ToSet(newPartially) \subseteq BlockType
    /\ free \subseteq objects /\ pc \in {"idle", "freeing", "thrown", "crashed"}

LEMMA InUseBounded == HeapInv => Bounded
<1> SUFFICES ASSUME HeapInv PROVE Bounded
  OBVIOUS
<1>1. /\ heapUnUsedStart \in 0..heapSize /\ heapUnusedSize = heapSize - heapUnUsedStart
      /\ objects \subseteq BP!ObjectType /\ free \subseteq objects
      /\ BP!Tiles(BP!blocks, 0, heapUnUsedStart)
      /\ \A o \in objects : \E b \in BP!blocks : BP!housed(o, b)
  BY DEF HeapInv, BP!IndInv, BP!TypeOK, BP!BlocksTile, BP!ObjectsHoused
<1>2. BP!blocks \subseteq BlockType
  BY <1>1, TilesBounded
<1>3. heapUnusedSize \in 0..heapSize
  BY <1>1, SizesAssumption
<1>4. ASSUME NEW o \in objects PROVE o \in [addr : 0..heapSize, size : RawSizes]
  <2>1. o \in BP!ObjectType
    BY <1>1
  <2>2. o.addr \in Nat /\ o.size \in RawSizes /\ o = [addr |-> o.addr, size |-> o.size]
    BY <2>1 DEF BP!ObjectType
  <2>3. PICK b \in BP!blocks : BP!housed(o, b)
    BY <1>1
  <2>4. extentEnd(o) <= getEnd(b)
    BY <2>3, SameBlock, SameObject DEF BP!housed
  <2>5. getEnd(b) <= heapUnUsedStart /\ getEnd(b) \in Nat
    <3>1. b \in AnyBlock /\ getEnd(b) <= heapUnUsedStart
      BY <1>1, SameBlock DEF BP!Tiles, BP!BlockType, AnyBlock
    <3> QED
      BY <3>1, BlockEnds
  <2>6. o.addr <= extentEnd(o) /\ extentEnd(o) \in Nat
    <3>1. align(o.size) \in Nat
      BY <2>2, Aligned
    <3> QED
      BY <2>2, <3>1 DEF extentEnd
  <2>7. o.addr \in 0..heapSize
    BY <1>1, <2>2, <2>4, <2>5, <2>6, SizesAssumption
  <2> QED
    BY <2>2, <2>7
<1>5. pc = "idle" => ToSet(partiallyFreeBlocks) \subseteq BlockType /\ ToSet(fullBlocks) \subseteq BlockType
  BY <1>2 DEF BP!blocks
<1>6. pc # "idle" => ToSet(all) \subseteq BlockType /\ ToSet(newPartially) \subseteq BlockType
  BY <1>2, <1>1 DEF BP!blocks, HeapInv
<1> QED
  BY <1>1, <1>3, <1>4, <1>5, <1>6 DEF Bounded, HeapInv

\* What a step leaves of the lists that are not in use after it.
LEMMA StepLeaves ==
    ASSUME pc \in {"idle", "freeing", "thrown", "crashed"}, [Next]_vars
    PROVE  \/ pc' = "idle" /\ (all' = all \/ all' = << >>)
                           /\ (newPartially' = newPartially \/ newPartially' = << >>)
           \/ pc' # "idle" /\ partiallyFreeBlocks' = partiallyFreeBlocks /\ fullBlocks' = fullBlocks
<1>1. ASSUME NEW raw \in RawSizes,
             AllocateFromBlock(raw) \/ AllocateFromNewBlock(raw) \/ AllocateLarge(raw) \/ AllocateFails(raw)
      PROVE  pc' = "idle" /\ all' = all /\ newPartially' = newPartially
  BY <1>1 DEF AllocateFromBlock, AllocateFromNewBlock, AllocateLarge, AllocateFails, vars, locals
<1>2. ASSUME NEW F \in SUBSET objects, MemoryFreed(F)
      PROVE  pc' # "idle" /\ partiallyFreeBlocks' = partiallyFreeBlocks /\ fullBlocks' = fullBlocks
  BY <1>2 DEF MemoryFreed, lists
<1>3. ASSUME NEW o \in free, FreeObject(o) \/ SearchThrows(o) \/ SearchCrashes(o)
      PROVE  pc' # "idle" /\ partiallyFreeBlocks' = partiallyFreeBlocks /\ fullBlocks' = fullBlocks
  BY <1>3 DEF FreeObject, SearchThrows, SearchCrashes, lists
<1>4. ASSUME FinishFree
      PROVE  pc' = "idle" /\ all' = << >> /\ newPartially' = << >>
  BY <1>4 DEF FinishFree
<1>5. ASSUME UNCHANGED vars
      PROVE  /\ pc' = pc /\ partiallyFreeBlocks' = partiallyFreeBlocks /\ fullBlocks' = fullBlocks
             /\ all' = all /\ newPartially' = newPartially
  BY <1>5 DEF vars, lists, locals
<1> QED
  BY <1>1, <1>2, <1>3, <1>4, <1>5 DEF Next

(***************************************************************************)
(* Every block and every object in use is inside the heap, the unused      *)
(* range included (createBlockTree, newBlockFromUnused).                   *)
(***************************************************************************)
THEOREM ListsTyped == Spec => []TypeOK
<1>1. Init /\ HeapInv => TypeOK
  <2> SUFFICES ASSUME Init, HeapInv PROVE TypeOK
    OBVIOUS
  <2>1. ToSet(all) = {} /\ ToSet(newPartially) = {} /\ pc = "idle"
    BY DEF Init, ToSet
  <2> QED
    BY <2>1, InUseBounded DEF Bounded, TypeOK
<1>2. HeapInv /\ HeapInv' /\ TypeOK /\ [Next]_vars => TypeOK'
  <2> SUFFICES ASSUME HeapInv, HeapInv', TypeOK, [Next]_vars PROVE TypeOK'
    OBVIOUS
  <2>1. Bounded'
    BY InUseBounded, PTL
  <2>2. ToSet(<< >>) = {}
    BY DEF ToSet
  <2>3. \A bs \in {partiallyFreeBlocks, fullBlocks, all, newPartially} : ToSet(bs) \subseteq BlockType
    BY DEF TypeOK
  <2>4. \/ pc' = "idle" /\ (all' = all \/ all' = << >>)
                        /\ (newPartially' = newPartially \/ newPartially' = << >>)
        \/ pc' # "idle" /\ partiallyFreeBlocks' = partiallyFreeBlocks /\ fullBlocks' = fullBlocks
    BY StepLeaves DEF TypeOK
  <2>5. /\ ToSet(partiallyFreeBlocks') \subseteq BlockType /\ ToSet(fullBlocks') \subseteq BlockType
        /\ ToSet(all') \subseteq BlockType /\ ToSet(newPartially') \subseteq BlockType
    BY <2>1, <2>2, <2>3, <2>4 DEF Bounded
  <2> QED
    BY <2>1, <2>5 DEF TypeOK, Bounded
<1> QED
  BY <1>1, <1>2, HeapInvariant, PTL DEF Spec

LEMMA AllInOrder ==
    ASSUME HeapInv, pc # "idle", sortedByAddress(all)
    PROVE  inOrder(all)
<1>1. BP!Tiles(BP!blocks, 0, heapUnUsedStart) /\ heapUnUsedStart \in Nat
  BY BlocksInUse DEF HeapInv, BP!IndInv, BP!BlocksTile
<1>2. ToSet(all) \subseteq BP!blocks
  BY DEF BP!blocks, HeapInv
<1>3. \A c, d \in ToSet(all) : c # d => getEnd(c) <= d.start \/ getEnd(d) <= c.start
  BY <1>1, <1>2, TilesDistinct
<1>4. all \in Seq(AnyBlock)
  BY DEF HeapInv, ListsOnce, listed
<1> QED
  BY <1>3, <1>4, SortedByAddressOrders

LEMMA FindsWhenSorted == HeapInv => SortedSearchFinds
<1> SUFFICES ASSUME HeapInv, pc = "freeing", sortedByAddress(all), NEW o \in free
             PROVE  found(o) > 0 /\ inBlock(all[found(o)], o.addr)
  BY DEF SortedSearchFinds
<1>1. all \in Seq(AnyBlock)
  BY DEF HeapInv, ListsOnce, listed
<1>2. o \in objects /\ o.addr \in Nat /\ o.size \in RawSizes
  <2>1. o \in objects /\ o \in BP!ObjectType
    BY BlocksInUse
  <2> QED
    BY <2>1 DEF BP!ObjectType
<1>3. PICK b \in ToSet(all) : inBlock(b, o.addr)
  <2>1. (IF pc \in {"thrown", "crashed"} THEN "failed" ELSE pc) # "idle"
    OBVIOUS
  <2>2. \E b \in ToSet(all) : BP!housed(o, b)
    BY <1>2, <2>1, BP!SweptHoused, SizesAssumption, RawSizesAssumption DEF HeapInv
  <2>3. PICK b \in ToSet(all) : BP!housed(o, b)
    BY <2>2
  <2>4. b.start <= o.addr /\ extentEnd(o) <= getEnd(b)
    BY <2>3, SameBlock, SameObject DEF BP!housed
  <2>5. b \in AnyBlock
    BY <1>1 DEF ToSet
  <2>6. o.addr < extentEnd(o) /\ extentEnd(o) \in Nat
    <3>1. align(o.size) \in Nat \ {0}
      BY <1>2, Aligned
    <3> QED
      BY <1>2, <3>1 DEF extentEnd
  <2>7. inBlock(b, o.addr)
    BY <1>2, <2>4, <2>5, <2>6, BlockEnds DEF inBlock
  <2> QED
    BY <2>7
<1>4. PICK t \in 1..Len(all) : all[t] = b
  BY <1>1 DEF ToSet
<1>6. inOrder(all)
  BY AllInOrder
<1>7. found(o) > 0
  BY <1>1, <1>2, <1>3, <1>4, <1>6, SearchInOrder DEF found
<1>8. isResult(all, o.addr, found(o))
  BY <1>1, SearchResult DEF found
<1> QED
  BY <1>7, <1>8 DEF isResult

(***************************************************************************)
(* The search in memoryFreed is right whenever its vector is sorted by     *)
(* address: it finds the block that holds the swept object.                *)
(***************************************************************************)
THEOREM SearchIsRightWhenSorted == Spec => []SortedSearchFinds
<1>1. HeapInv => SortedSearchFinds
  BY FindsWhenSorted
<1> QED
  BY <1>1, HeapInvariant, PTL

(***************************************************************************)
(* The vector in which memoryFreed searches stays sorted by address once   *)
(* it is: erasing a block keeps the order, and a split sorts.              *)
(***************************************************************************)
LEMMA SortedIsOrdered ==
    ASSUME NEW bs \in Seq(AnyBlock), inOrder(bs), NEW S
    PROVE  ordered(bs, byAddress(S))
<1> SUFFICES ASSUME NEW i \in 1..Len(bs), NEW j \in 1..Len(bs), i < j
             PROVE  <<bs[j], bs[i]>> \notin byAddress(S)
  BY DEF ordered
<1>1. bs[i] \in AnyBlock /\ bs[j] \in AnyBlock
  OBVIOUS
<1>2. getEnd(bs[i]) <= bs[j].start
  BY DEF inOrder
<1>3. ~(bs[j].start < bs[i].start)
  BY <1>1, <1>2, BlockEnds
<1> QED
  BY <1>3 DEF byAddress, comparatorAddress

LEMMA OrderedIsSorted ==
    ASSUME NEW bs, listed(bs), NEW N, NEW end, distinctBlocks(ToSet(bs) \cup N, end),
           ordered(bs, byAddress(ToSet(bs)))
    PROVE  sortedByAddress(bs)
<1> SUFFICES ASSUME NEW i \in 1..(Len(bs) - 1)
             PROVE  bs[i].start < bs[i + 1].start
  BY DEF sortedByAddress, comparatorAddress
<1>1. bs \in Seq(AnyBlock) /\ Len(bs) \in Nat /\ DOMAIN bs = 1..Len(bs)
  BY DEF listed
<1>2. i \in 1..Len(bs) /\ i + 1 \in 1..Len(bs) /\ i < i + 1
  BY <1>1
<1>3. /\ bs[i] \in AnyBlock /\ bs[i + 1] \in AnyBlock
      /\ bs[i] \in ToSet(bs) /\ bs[i + 1] \in ToSet(bs)
  <2>1. \A k \in 1..Len(bs) : bs[k] \in AnyBlock /\ bs[k] \in ToSet(bs)
    BY <1>1 DEF ToSet
  <2> QED
    BY <1>2, <2>1
<1>4. ~(bs[i + 1].start < bs[i].start)
  <2>1. <<bs[i + 1], bs[i]>> \notin byAddress(ToSet(bs))
    BY <1>2 DEF ordered
  <2> QED
    BY <1>3, <2>1 DEF byAddress, comparatorAddress
<1>5. bs[i] # bs[i + 1]
  BY <1>1, <1>2 DEF listed, IsInjective
<1>6. bs[i].start # bs[i + 1].start
  <2>1. SUFFICES ASSUME bs[i].start = bs[i + 1].start PROVE FALSE
    OBVIOUS
  <2>2. inBlock(bs[i], bs[i + 1].start)
    BY <1>3, <2>1, BlockEnds DEF inBlock
  <2> QED
    BY <1>3, <1>5, <2>2 DEF distinctBlocks
<1> QED
  BY <1>3, <1>4, <1>6, BlockEnds

LEMMA FreeObjectSorts ==
    ASSUME HeapInv, HeapInv', NEW o \in free, FreeObject(o),
           sortedByAddress(all) \/ SplitBlock(all[found(o)], o)
    PROVE  sortedByAddress(all')
<1> DEFINE b == all[found(o)]
<1>1. pc' = "freeing" /\ (ResetBlock(b, o) \/ SplitBlock(b, o))
  BY DEF FreeObject
<1>2. listed(all)
  BY DEF HeapInv, ListsOnce
<1>3. listed(all') /\ distinctBlocks(ToSet(all') \cup ToSet(newPartially'), heapUnUsedStart')
  <2>1. (pc # "idle" => distinctBlocks(ToSet(all) \cup ToSet(newPartially), heapUnUsedStart))'
    BY BlocksInUse, PTL
  <2> QED
    BY <1>1, <2>1 DEF HeapInv, ListsOnce
<1> HIDE DEF b
<1>4. CASE SplitBlock(b, o)
  <2> DEFINE left == without(b) \o pieces(b, o)
  <2>1. all' = sorted(left, byAddress(ToSet(left)))
    BY <1>4 DEF SplitBlock
  <2>2. left \in Seq(ToSet(left)) /\ ToSet(left) \subseteq AnyBlock
    <3>1. listed(without(b)) /\ listed(pieces(b, o))
      BY <1>2, FoundBlock, ListWithout, ListPieces DEF b, FreeObject
    <3>2. left \in Seq(AnyBlock)
      BY <3>1, JoinedElements DEF listed
    <3> HIDE DEF left
    <3> QED
      BY <3>2 DEF ToSet
  <2> HIDE DEF left
  <2>3. weakOrder(byAddress(ToSet(left)), ToSet(left))
    BY <2>2, ComparatorsAreWeakOrders
  <2>4. /\ ordered(all', byAddress(ToSet(left)))
        /\ ToSet(all') = ToSet(left)
    BY <2>1, <2>2, <2>3, SortedElements
  <2> QED
    BY <1>3, <2>4, OrderedIsSorted
<1>5. CASE ResetBlock(b, o)
  <2>1. CASE SplitBlock(b, o)
    BY <1>4, <2>1
  <2>2. CASE ~SplitBlock(b, o)
    <3>1. sortedByAddress(all) /\ all' = those(all, ToSet(all) \ {b})
      BY <1>5, <2>2 DEF ResetBlock, without, b
    <3>2. inOrder(all)
      BY <3>1, AllInOrder DEF FreeObject
    <3>3. ordered(all, byAddress(ToSet(all')))
      BY <1>2, <3>2, SortedIsOrdered DEF listed
    <3>4. ordered(all', byAddress(ToSet(all')))
      BY <1>2, <3>1, <3>3, ThoseOrdered DEF listed
    <3> QED
      BY <1>3, <3>4, OrderedIsSorted
  <2> QED
    BY <2>1, <2>2
<1> QED
  BY <1>1, <1>4, <1>5

(***************************************************************************)
(* Why a sweep fails early or not at all: the only vector that may not be  *)
(* sorted is the one std::merge returns.  The first split of a sweep sorts *)
(* it, and from then on no search of the sweep misses (lines 205-232).     *)
(***************************************************************************)
splits == \E o \in free : FreeObject(o) /\ SplitBlock(all[found(o)], o)

SearchWorksOnceSorted ==
    [][/\ splits => sortedByAddress(all')
       /\ pc = "freeing" /\ sortedByAddress(all) /\ free # {} =>
             pc' = "freeing" /\ sortedByAddress(all')]_vars

THEOREM SearchStaysRight == Spec => SearchWorksOnceSorted
<1>1. HeapInv => SortedSearchFinds
  BY FindsWhenSorted
<1> DEFINE action == /\ splits => sortedByAddress(all')
                     /\ pc = "freeing" /\ sortedByAddress(all) /\ free # {} =>
                           pc' = "freeing" /\ sortedByAddress(all')
<1>2. HeapInv /\ HeapInv' /\ [Next]_vars => [action]_vars
  <2> SUFFICES ASSUME HeapInv, HeapInv', Next PROVE action
    OBVIOUS
  <2>1. splits => sortedByAddress(all')
    BY FreeObjectSorts DEF splits
  <2>2. ASSUME pc = "freeing", sortedByAddress(all), free # {}
        PROVE  pc' = "freeing" /\ sortedByAddress(all')
    <3>1. \A o \in free : found(o) > 0
      BY <1>1, <2>2 DEF SortedSearchFinds
    <3>2. PICK o \in free : FreeObject(o) \/ SearchThrows(o) \/ SearchCrashes(o)
      BY <2>2 DEF Next, AllocateFromBlock, AllocateFromNewBlock, AllocateLarge, AllocateFails,
         MemoryFreed, FinishFree
    <3>3. FreeObject(o)
      BY <3>1, <3>2 DEF SearchThrows, SearchCrashes
    <3> QED
      BY <2>2, <3>3, FreeObjectSorts DEF FreeObject
  <2> QED
    BY <2>1, <2>2
<1> QED
  BY <1>2, HeapInvariant, PTL DEF Spec, SearchWorksOnceSorted
=============================================================================
