----------------------------- MODULE Iteration -----------------------------
(***************************************************************************)
(* Induction over the natural numbers and definitions by recursion on      *)
(* them, with sets and functions in place of operators as parameters, so   *)
(* that the other proofs can use them: the induction hypothesis is the set *)
(* of numbers that it holds of.                                            *)
(***************************************************************************)
EXTENDS Lists, WellFoundedInduction, TLAPS

(***************************************************************************)
(* A set of natural numbers that is not empty has a least element.         *)
(***************************************************************************)
LEMMA LeastNumber ==
    ASSUME NEW T \in SUBSET Nat, T # {}
    PROVE  \E x \in T : \A y \in T : x <= y
<1> DEFINE R == OpToRel(<, Nat)
<1>1. IsWellFoundedOn(R, Nat)
  BY NatLessThanWellFounded, Zenon
<1>2. \A x, y \in Nat : y < x => <<y, x>> \in R
  BY Zenon DEF OpToRel
<1> HIDE DEF R
<1>3. PICK x \in T : \A y \in T : ~(<<y, x>> \in R)
  BY <1>1, WFMin, Zenon
<1>4. ASSUME NEW y \in T, y < x
      PROVE  FALSE
  <2>1. <<y, x>> \in R
    BY <1>2, <1>4
  <2> QED
    BY <1>3, <2>1
<1>5. \A y \in T : x <= y
  BY <1>4
<1> QED
  BY <1>3, <1>5

(***************************************************************************)
(* Induction: what 0 has and n + 1 has when n has it, all numbers have.    *)
(***************************************************************************)
LEMMA Induction ==
    ASSUME NEW S, 0 \in S, \A n \in Nat : n \in S => n + 1 \in S
    PROVE  \A n \in Nat : n \in S
<1>1. SUFFICES ASSUME Nat \ S # {} PROVE FALSE
  OBVIOUS
<1>2. PICK x \in Nat \ S : \A y \in Nat \ S : x <= y
  BY <1>1, LeastNumber
<1>3. x # 0 /\ x - 1 \in Nat
  BY <1>2
<1>4. x - 1 \in S
  BY <1>2, <1>3
<1>5. (x - 1) + 1 \in S
  BY <1>3, <1>4
<1> QED
  BY <1>5

(***************************************************************************)
(* Recursion: a function on 0..K may be given by its value at 0 and, for   *)
(* each n, by how the value at n follows from the one at n - 1, as long as *)
(* each value is among those that the next step is defined for.            *)
(***************************************************************************)
stepsWithin(K, I, F) == \A n \in 1..K : \A x \in I[n - 1] : F[n][x] \in I[n]

isRecursive(g, K, I, start, F) ==
    /\ DOMAIN g = 0..K /\ g = [n \in 0..K |-> g[n]] /\ g[0] = start
    /\ \A n \in 1..K : g[n] = F[n][g[n - 1]]
    /\ \A n \in 0..K : g[n] \in I[n]

recursionExists(K, I, start, F) == \E g : isRecursive(g, K, I, start, F)

LEMMA RecursionWithin ==
    ASSUME NEW K \in Nat, NEW I, NEW start \in I[0], NEW F, stepsWithin(K, I, F)
    PROVE  recursionExists(K, I, start, F)
<1> DEFINE upTo(k, g) == /\ DOMAIN g = 0..k /\ g = [n \in 0..k |-> g[n]] /\ g[0] = start
                         /\ \A n \in 1..k : g[n] = F[n][g[n - 1]]
                         /\ \A n \in 0..k : g[n] \in I[n]
           S == {k \in Nat : k <= K => \E g : upTo(k, g)}
<1>1. 0 \in S
  <2>1. upTo(0, [n \in 0..0 |-> start])
    OBVIOUS
  <2> QED
    BY <2>1
<1>2. ASSUME NEW k \in Nat, k \in S
      PROVE  k + 1 \in S
  <2>1. SUFFICES ASSUME k + 1 <= K PROVE \E g : upTo(k + 1, g)
    <3> HIDE DEF upTo
    <3> QED
      OBVIOUS
  <2>2. PICK g : upTo(k, g)
    BY <1>2, <2>1
  <2> DEFINE h == [n \in 0..(k + 1) |-> IF n <= k THEN g[n] ELSE F[k + 1][g[k]]]
  <2>3. F[k + 1][g[k]] \in I[k + 1]
    <3>1. k + 1 \in 1..K /\ (k + 1) - 1 = k /\ g[k] \in I[k] /\ k + 1 \in 0..K
      BY <2>1, <2>2
    <3> QED
      BY <3>1 DEF stepsWithin
  <2>4. DOMAIN h = 0..(k + 1) /\ h = [n \in 0..(k + 1) |-> h[n]] /\ h[0] = start
    BY <2>2
  <2>5. ASSUME NEW n \in 1..(k + 1)
        PROVE  h[n] = F[n][h[n - 1]]
    <3>1. CASE n <= k
      <4>1. n - 1 \in 0..(k + 1) /\ n \in 0..(k + 1) /\ n - 1 <= k /\ n \in 1..k
        BY <3>1
      <4>2. h[n] = g[n] /\ h[n - 1] = g[n - 1]
        BY <4>1
      <4>3. g[n] = F[n][g[n - 1]]
        BY <2>2, <4>1
      <4> QED
        BY <4>2, <4>3
    <3>2. CASE n = k + 1
      <4>1. k \in 0..(k + 1) /\ k + 1 \in 0..(k + 1) /\ ~(k + 1 <= k) /\ (k + 1) - 1 = k
        OBVIOUS
      <4>2. h[k] = g[k] /\ h[k + 1] = F[k + 1][g[k]]
        BY <4>1
      <4> QED
        BY <3>2, <4>1, <4>2
    <3> QED
      BY <3>1, <3>2
  <2>6. ASSUME NEW n \in 0..(k + 1)
        PROVE  h[n] \in I[n]
    BY <2>2, <2>3
  <2>7. upTo(k + 1, h)
    BY <2>4, <2>5, <2>6
  <2> QED
    BY <2>7
<1>3. K \in S
  BY <1>1, <1>2, Induction
<1> QED
  BY <1>3 DEF recursionExists, isRecursive

LEMMA Recursion ==
    ASSUME NEW X, NEW start \in X, NEW K \in Nat, NEW F \in [1..K -> [X -> X]]
    PROVE  recursionExists(K, [n \in 0..K |-> X], start, F)
<1> DEFINE I == [n \in 0..K |-> X]
<1>1. start \in I[0] /\ stepsWithin(K, I, F)
  BY DEF stepsWithin
<1> HIDE DEF I
<1>2. recursionExists(K, I, start, F)
  BY <1>1, RecursionWithin
<1> QED
  BY <1>2 DEF I

(***************************************************************************)
(* The same with a step that may look at all the values before it.         *)
(***************************************************************************)
tablesWithin(K, X, F) == \A n \in 0..K : \A h \in [0..(n - 1) -> X] : F[n][h] \in X

valuesBefore(g, n) == [i \in 0..(n - 1) |-> g[i]]

isTabulated(g, K, X, F) ==
    /\ g \in [0..K -> X]
    /\ \A n \in 0..K : g[n] = F[n][valuesBefore(g, n)]

tableExists(K, X, F) == \E g : isTabulated(g, K, X, F)

LEMMA Tabulation ==
    ASSUME NEW K \in Nat, NEW X, NEW F, tablesWithin(K, X, F)
    PROVE  tableExists(K, X, F)
<1> DEFINE S == {k \in Nat : k <= K => \E g : isTabulated(g, k, X, F)}
<1>1. 0 \in S
  <2> DEFINE h == [i \in 0..(0 - 1) |-> 0]
             g == [i \in 0..0 |-> F[0][h]]
  <2>1. h \in [0..(0 - 1) -> X] /\ valuesBefore(g, 0) = h
    BY DEF valuesBefore
  <2>2. F[0][h] \in X
    <3> HIDE DEF h
    <3>1. 0 \in 0..K
      OBVIOUS
    <3> QED
      BY <2>1, <3>1 DEF tablesWithin
  <2>3. isTabulated(g, 0, X, F)
    <3> HIDE DEF h
    <3>1. g \in [0..0 -> X] /\ \A n \in 0..0 : n = 0 /\ g[n] = F[0][h]
      BY <2>2
    <3> HIDE DEF g
    <3> QED
      BY <2>1, <3>1 DEF isTabulated
  <2> QED
    BY <2>3
<1>2. ASSUME NEW k \in Nat, k \in S
      PROVE  k + 1 \in S
  <2>1. SUFFICES ASSUME k + 1 <= K PROVE \E g : isTabulated(g, k + 1, X, F)
    OBVIOUS
  <2>2. PICK g : isTabulated(g, k, X, F)
    BY <1>2, <2>1
  <2>3. g \in [0..k -> X] /\ \A n \in 0..k : g[n] = F[n][valuesBefore(g, n)]
    BY <2>2 DEF isTabulated
  <2> DEFINE h == [i \in 0..(k + 1) |-> IF i <= k THEN g[i] ELSE F[k + 1][g]]
  <2>4. F[k + 1][g] \in X
    <3>1. (k + 1) - 1 = k /\ k + 1 \in 0..K
      BY <2>1
    <3> QED
      BY <2>3, <3>1 DEF tablesWithin
  <2>5. h \in [0..(k + 1) -> X]
    BY <2>3, <2>4
  <2>6. \A i \in 0..k : h[i] = g[i]
    OBVIOUS
  <2>7. h[k + 1] = F[k + 1][g]
    OBVIOUS
  <2> HIDE DEF h
  <2>8. \A n \in 0..k : valuesBefore(h, n) = valuesBefore(g, n)
    BY <2>6 DEF valuesBefore
  <2>9. valuesBefore(h, k + 1) = g
    <3>1. (k + 1) - 1 = k
      OBVIOUS
    <3> QED
      BY <2>3, <2>6, <3>1 DEF valuesBefore
  <2>10. \A n \in 0..(k + 1) : h[n] = F[n][valuesBefore(h, n)]
    <3>1. \A n \in 0..(k + 1) : n \in 0..k \/ n = k + 1
      OBVIOUS
    <3> QED
      BY <2>3, <2>6, <2>7, <2>8, <2>9, <3>1
  <2> QED
    BY <2>5, <2>10 DEF isTabulated
<1>3. K \in S
  <2> HIDE DEF S
  <2> QED
    BY <1>1, <1>2, Induction
<1> QED
  BY <1>3 DEF tableExists

-----------------------------------------------------------------------------
(***************************************************************************)
(* Sequences and the sets of their elements.                               *)
(***************************************************************************)
LEMMA AppendElements ==
    ASSUME NEW S, NEW s \in Seq(S), NEW e \in S
    PROVE  /\ Append(s, e) \in Seq(S) /\ ToSet(Append(s, e)) = ToSet(s) \cup {e}
           /\ Append(s, e) # << >> /\ Len(Append(s, e)) = Len(s) + 1
           /\ IsInjective(s) /\ e \notin ToSet(s) => IsInjective(Append(s, e))
<1>1. /\ Append(s, e) \in Seq(S) /\ Len(Append(s, e)) = Len(s) + 1 /\ Len(s) \in Nat
      /\ \A i \in 1..Len(s) : Append(s, e)[i] = s[i]
      /\ Append(s, e)[Len(s) + 1] = e
      /\ DOMAIN s = 1..Len(s) /\ DOMAIN Append(s, e) = 1..(Len(s) + 1)
  OBVIOUS
<1> QED
  BY <1>1 DEF ToSet, IsInjective

LEMMA TailElements ==
    ASSUME NEW S, NEW s \in Seq(S), s # << >>
    PROVE  /\ Tail(s) \in Seq(S) /\ Head(s) \in S /\ Len(Tail(s)) = Len(s) - 1 /\ Len(s) \in Nat
           /\ ToSet(s) = ToSet(Tail(s)) \cup {Head(s)}
           /\ IsInjective(s) => IsInjective(Tail(s)) /\ Head(s) \notin ToSet(Tail(s))
<1>1. /\ Tail(s) \in Seq(S) /\ Len(Tail(s)) = Len(s) - 1 /\ Len(s) \in Nat /\ Len(s) >= 1
      /\ \A i \in 1..(Len(s) - 1) : Tail(s)[i] = s[i + 1]
      /\ Head(s) = s[1] /\ s[1] \in S
      /\ DOMAIN s = 1..Len(s) /\ DOMAIN Tail(s) = 1..(Len(s) - 1)
  OBVIOUS
<1>2. ToSet(s) = ToSet(Tail(s)) \cup {Head(s)}
  <2>1. ASSUME NEW e \in ToSet(s), e # Head(s)
        PROVE  e \in ToSet(Tail(s))
    <3>1. PICK i \in 1..Len(s) : e = s[i]
      BY <1>1 DEF ToSet
    <3>2. i - 1 \in 1..(Len(s) - 1) /\ e = Tail(s)[i - 1]
      BY <1>1, <2>1, <3>1
    <3> QED
      BY <1>1, <3>2 DEF ToSet
  <2>2. ToSet(Tail(s)) \subseteq ToSet(s)
    BY <1>1 DEF ToSet
  <2>3. Head(s) \in ToSet(s)
    BY <1>1 DEF ToSet
  <2> QED
    BY <2>1, <2>2, <2>3
<1>3. IsInjective(s) => IsInjective(Tail(s)) /\ Head(s) \notin ToSet(Tail(s))
  BY <1>1 DEF ToSet, IsInjective
<1> QED
  BY <1>1, <1>2, <1>3

LEMMA JoinedElements ==
    ASSUME NEW S, NEW s \in Seq(S), NEW t \in Seq(S)
    PROVE  /\ s \o t \in Seq(S) /\ ToSet(s \o t) = ToSet(s) \cup ToSet(t)
           /\ Len(s \o t) = Len(s) + Len(t)
           /\ IsInjective(s) /\ IsInjective(t) /\ ToSet(s) \cap ToSet(t) = {}
                => IsInjective(s \o t)
<1>1. /\ s \o t \in Seq(S) /\ Len(s \o t) = Len(s) + Len(t) /\ Len(s) \in Nat /\ Len(t) \in Nat
      /\ \A i \in 1..Len(s) : (s \o t)[i] = s[i]
      /\ \A i \in (Len(s) + 1)..(Len(s) + Len(t)) : (s \o t)[i] = t[i - Len(s)]
      /\ DOMAIN s = 1..Len(s) /\ DOMAIN t = 1..Len(t)
      /\ DOMAIN (s \o t) = 1..(Len(s) + Len(t))
  OBVIOUS
<1>2. \A j \in 1..Len(t) : (s \o t)[Len(s) + j] = t[j]
  BY <1>1
<1>3. ToSet(s \o t) = ToSet(s) \cup ToSet(t)
  <2>1. ToSet(s) \subseteq ToSet(s \o t) /\ ToSet(s \o t) \subseteq ToSet(s) \cup ToSet(t)
    BY <1>1 DEF ToSet
  <2>2. ToSet(t) \subseteq ToSet(s \o t)
    <3>1. ASSUME NEW j \in 1..Len(t) PROVE t[j] \in ToSet(s \o t)
      <4>1. Len(s) + j \in 1..(Len(s) + Len(t))
        BY <1>1
      <4> QED
        BY <1>1, <1>2, <4>1 DEF ToSet
    <3> QED
      BY <1>1, <3>1 DEF ToSet
  <2> QED
    BY <2>1, <2>2
<1>4. ASSUME IsInjective(s), IsInjective(t), ToSet(s) \cap ToSet(t) = {}
      PROVE  IsInjective(s \o t)
  <2> SUFFICES ASSUME NEW i \in 1..(Len(s) + Len(t)), NEW j \in 1..(Len(s) + Len(t)),
                      (s \o t)[i] = (s \o t)[j]
               PROVE  i = j
    BY <1>1 DEF IsInjective
  <2>1. CASE i <= Len(s) /\ j <= Len(s)
    BY <1>1, <1>4, <2>1 DEF IsInjective
  <2>2. CASE i > Len(s) /\ j > Len(s)
    <3>1. i - Len(s) \in 1..Len(t) /\ j - Len(s) \in 1..Len(t) /\ t[i - Len(s)] = t[j - Len(s)]
      BY <1>1, <2>2
    <3>2. i - Len(s) = j - Len(s)
      BY <1>1, <1>4, <3>1 DEF IsInjective
    <3> QED
      BY <1>1, <3>2
  <2>3. \A a \in 1..Len(s), b \in (Len(s) + 1)..(Len(s) + Len(t)) : (s \o t)[a] # (s \o t)[b]
    <3> SUFFICES ASSUME NEW a \in 1..Len(s), NEW b \in (Len(s) + 1)..(Len(s) + Len(t))
                 PROVE  (s \o t)[a] # (s \o t)[b]
      OBVIOUS
    <3>1. b - Len(s) \in 1..Len(t)
      BY <1>1
    <3>2. s[a] \in ToSet(s) /\ t[b - Len(s)] \in ToSet(t)
      BY <1>1, <3>1 DEF ToSet
    <3> QED
      BY <1>1, <1>4, <3>2
  <2> QED
    BY <1>1, <2>1, <2>2, <2>3
<1> QED
  BY <1>1, <1>3, <1>4

-----------------------------------------------------------------------------
(***************************************************************************)
(* those keeps the elements of a set, each as often as it was there.       *)
(***************************************************************************)
LEMMA ThoseSteps ==
    ASSUME NEW E, NEW s \in Seq(E), NEW S
    PROVE  \E f : /\ those(s, S) = f[Len(s)] /\ f[0] = << >>
                  /\ \A n \in 1..Len(s) :
                       f[n] = IF s[n] \in S THEN Append(f[n - 1], s[n]) ELSE f[n - 1]
<1> DEFINE K == Len(s)
           X == Seq(E)
           Def(f) == f = [n \in 0..K |->
                             IF n = 0 THEN << >>
                             ELSE IF s[n] \in S THEN Append(f[n - 1], s[n]) ELSE f[n - 1]]
           F == [n \in 1..K |-> [x \in X |-> IF s[n] \in S THEN Append(x, s[n]) ELSE x]]
<1>1. K \in Nat /\ << >> \in X /\ F \in [1..K -> [X -> X]]
  OBVIOUS
<1>2. PICK g \in [0..K -> X] : g[0] = << >> /\ \A n \in 1..K : g[n] = F[n][g[n - 1]]
  <2> HIDE DEF K, X, F
  <2>1. recursionExists(K, [n \in 0..K |-> X], << >>, F)
    BY <1>1, Recursion
  <2> QED
    BY <2>1 DEF recursionExists, isRecursive
<1>3. Def(g)
  <2>1. ASSUME NEW n \in 0..K, n # 0
        PROVE  g[n] = IF s[n] \in S THEN Append(g[n - 1], s[n]) ELSE g[n - 1]
    <3>1. n \in 1..K /\ n - 1 \in 0..K
      BY <1>1, <2>1
    <3>2. g[n - 1] \in X
      BY <1>2, <3>1
    <3> QED
      BY <1>2, <3>1, <3>2
  <2> QED
    BY <1>1, <1>2, <2>1
<1> DEFINE f == CHOOSE f : Def(f)
<1>4. those(s, S) = f[K]
  BY DEF those
<1>5. Def(f)
  <2> HIDE DEF Def
  <2> QED
    BY <1>3
<1> HIDE DEF f
<1>6. f[0] = << >>
  BY <1>1, <1>5
<1>7. ASSUME NEW n \in 1..K
      PROVE  f[n] = IF s[n] \in S THEN Append(f[n - 1], s[n]) ELSE f[n - 1]
  <2>1. n \in 0..K /\ n # 0
    BY <1>1
  <2> QED
    BY <1>5, <2>1
<1> QED
  BY <1>4, <1>6, <1>7

LEMMA ThoseElements ==
    ASSUME NEW E, NEW s \in Seq(E), NEW S
    PROVE  /\ those(s, S) \in Seq(E) /\ ToSet(those(s, S)) = ToSet(s) \cap S
           /\ IsInjective(s) => IsInjective(those(s, S))
<1> DEFINE K == Len(s)
           first(n) == {s[i] : i \in 1..n}
           Inv(q, n) == /\ q \in Seq(E) /\ ToSet(q) = first(n) \cap S
                        /\ IsInjective(s) => IsInjective(q)
<1>1. PICK f : /\ those(s, S) = f[K] /\ f[0] = << >>
               /\ \A n \in 1..K : f[n] = IF s[n] \in S THEN Append(f[n - 1], s[n]) ELSE f[n - 1]
  BY ThoseSteps
<1> DEFINE T == {n \in Nat : n <= K => Inv(f[n], n)}
<1>2. 0 \in T
  <2>1. ToSet(<< >>) = {} /\ IsInjective(<< >>) /\ first(0) = {} /\ << >> \in Seq(E)
    BY DEF ToSet, IsInjective
  <2>2. Inv(<< >>, 0)
    BY <2>1
  <2> HIDE DEF Inv
  <2> QED
    BY <1>1, <2>2
<1>3. ASSUME NEW n \in Nat, n \in T
      PROVE  n + 1 \in T
  <2>1. SUFFICES ASSUME n + 1 <= K PROVE Inv(f[n + 1], n + 1)
    OBVIOUS
  <2> DEFINE e == s[n + 1]
  <2>2. /\ Inv(f[n], n) /\ e \in E
        /\ f[n + 1] = IF e \in S THEN Append(f[n], e) ELSE f[n]
    <3>1. n + 1 \in 1..K /\ (n + 1) - 1 = n
      BY <2>1
    <3> QED
      BY <1>1, <1>3, <2>1, <3>1
  <2>3. first(n + 1) = first(n) \cup {e}
    OBVIOUS
  <2>4. IsInjective(s) => e \notin first(n)
    BY <2>1 DEF IsInjective
  <2>5. CASE e \in S
    <3> HIDE DEF first, e
    <3> QED
      BY <2>2, <2>3, <2>4, <2>5, AppendElements
  <2>6. CASE e \notin S
    BY <2>2, <2>3, <2>6
  <2> QED
    BY <2>5, <2>6
<1>4. K \in T /\ K \in Nat
  <2> HIDE DEF T
  <2> QED
    BY <1>2, <1>3, Induction
<1>5. first(K) = ToSet(s)
  BY DEF ToSet
<1> QED
  BY <1>1, <1>4, <1>5

-----------------------------------------------------------------------------
(***************************************************************************)
(* Sorting.  A comparator has to be a strict weak order.                   *)
(***************************************************************************)
weakOrder(before, S) ==
    /\ \A a, b \in S : <<a, b>> \in before => <<b, a>> \notin before
    /\ \A a, b, c \in S : <<a, b>> \in before => <<a, c>> \in before \/ <<c, b>> \in before

ordered(s, before) == \A i, j \in 1..Len(s) : i < j => <<s[j], s[i]>> \notin before

\* A list without the element at a position.
LEMMA RemovedElements ==
    ASSUME NEW S, NEW s \in Seq(S), IsInjective(s), NEW i \in 1..Len(s)
    PROVE  /\ RemoveAt(s, i) \in Seq(S) /\ ToSet(RemoveAt(s, i)) = ToSet(s) \ {s[i]}
           /\ IsInjective(RemoveAt(s, i))
<1> DEFINE a == SubSeq(s, 1, i - 1)
           b == SubSeq(s, i + 1, Len(s))
<1>1. Len(s) \in Nat /\ DOMAIN s = 1..Len(s) /\ i \in Nat
  OBVIOUS
<1>2. a \in Seq(S) /\ Len(a) = i - 1 /\ \A j \in 1..(i - 1) : a[j] = s[j]
  OBVIOUS
<1>3. b \in Seq(S) /\ Len(b) = Len(s) - i /\ \A j \in 1..(Len(s) - i) : b[j] = s[i + j]
  OBVIOUS
<1>4. RemoveAt(s, i) = a \o b
  BY DEF RemoveAt
<1> HIDE DEF a, b
<1>5. DOMAIN a = 1..(i - 1) /\ DOMAIN b = 1..(Len(s) - i)
  BY <1>2, <1>3
<1>6. \A j, k \in 1..Len(s) : s[j] = s[k] => j = k
  BY <1>1 DEF IsInjective
<1>7. IsInjective(a)
  <2>1. \A j \in 1..(i - 1) : j \in 1..Len(s)
    BY <1>1
  <2> QED
    BY <1>2, <1>5, <1>6, <2>1 DEF IsInjective
<1>8. IsInjective(b)
  <2>1. ASSUME NEW j \in 1..(Len(s) - i), NEW k \in 1..(Len(s) - i), b[j] = b[k]
        PROVE  j = k
    <3>1. i + j \in 1..Len(s) /\ i + k \in 1..Len(s) /\ s[i + j] = s[i + k]
      BY <1>1, <1>3, <2>1
    <3>2. i + j = i + k
      BY <1>6, <3>1
    <3> QED
      BY <1>1, <3>2
  <2> QED
    BY <1>5, <2>1 DEF IsInjective
<1>9. ToSet(a) = {s[j] : j \in 1..(i - 1)} /\ ToSet(b) = {s[j] : j \in (i + 1)..Len(s)}
  <2>1. ToSet(a) = {s[j] : j \in 1..(i - 1)}
    BY <1>2, <1>5 DEF ToSet
  <2>2. ASSUME NEW j \in (i + 1)..Len(s)
        PROVE  j - i \in 1..(Len(s) - i) /\ i + (j - i) = j
    BY <1>1
  <2>3. \A j \in (i + 1)..Len(s) : j - i \in 1..(Len(s) - i) /\ b[j - i] = s[j]
    BY <1>3, <2>2
  <2>4. \A j \in 1..(Len(s) - i) : i + j \in (i + 1)..Len(s) /\ b[j] = s[i + j]
    BY <1>1, <1>3
  <2>5. ToSet(b) = {b[j] : j \in 1..(Len(s) - i)}
    BY <1>5 DEF ToSet
  <2>6. {b[j] : j \in 1..(Len(s) - i)} = {s[j] : j \in (i + 1)..Len(s)}
    BY <2>3, <2>4
  <2> QED
    BY <2>1, <2>5, <2>6
<1>10. ToSet(a) \cap ToSet(b) = {} /\ ToSet(a) \cup ToSet(b) = ToSet(s) \ {s[i]}
  <2>1. 1..Len(s) = 1..(i - 1) \cup {i} \cup (i + 1)..Len(s)
    BY <1>1
  <2>2. \A j \in 1..(i - 1) : \A k \in (i + 1)..Len(s) : s[j] # s[k] /\ s[j] # s[i] /\ s[k] # s[i]
    <3>1. \A j \in 1..(i - 1) : j \in 1..Len(s) /\ j # i
      BY <1>1
    <3>2. \A k \in (i + 1)..Len(s) : k \in 1..Len(s) /\ k # i
      BY <1>1
    <3>3. \A j \in 1..(i - 1) : \A k \in (i + 1)..Len(s) : j # k
      BY <1>1
    <3> QED
      BY <1>6, <3>1, <3>2, <3>3
  <2>3. \A j \in 1..(i - 1) \cup (i + 1)..Len(s) : s[j] # s[i]
    <3>1. \A j \in 1..(i - 1) \cup (i + 1)..Len(s) : j \in 1..Len(s) /\ j # i
      BY <1>1
    <3> QED
      BY <1>6, <3>1
  <2>4. ToSet(s) = {s[j] : j \in 1..Len(s)}
    BY <1>1 DEF ToSet
  <2>5. ToSet(a) \cap ToSet(b) = {}
    BY <1>9, <2>2
  <2>6. ToSet(a) \cup ToSet(b) = ToSet(s) \ {s[i]}
    BY <1>9, <2>1, <2>3, <2>4
  <2> QED
    BY <2>5, <2>6
<1> QED
  BY <1>2, <1>3, <1>4, <1>7, <1>8, <1>10, JoinedElements

\* those leaves an ordered sequence ordered.
LEMMA ThoseOrdered ==
    ASSUME NEW E, NEW s \in Seq(E), NEW S, NEW before, ordered(s, before)
    PROVE  ordered(those(s, S), before)
<1> DEFINE K == Len(s)
           first(n) == {s[i] : i \in 1..n}
           Inv(q, n) == q \in Seq(E) /\ ToSet(q) \subseteq first(n) /\ ordered(q, before)
<1>1. PICK f : /\ those(s, S) = f[K] /\ f[0] = << >>
               /\ \A n \in 1..K : f[n] = IF s[n] \in S THEN Append(f[n - 1], s[n]) ELSE f[n - 1]
  BY ThoseSteps
<1> DEFINE T == {n \in Nat : n <= K => Inv(f[n], n)}
<1>2. 0 \in T
  <2>1. ToSet(<< >>) = {} /\ << >> \in Seq(E) /\ ordered(<< >>, before)
    BY DEF ToSet, ordered
  <2>2. Inv(<< >>, 0)
    BY <2>1
  <2> HIDE DEF Inv
  <2> QED
    BY <1>1, <2>2
<1>3. ASSUME NEW n \in Nat, n \in T
      PROVE  n + 1 \in T
  <2>1. SUFFICES ASSUME n + 1 <= K PROVE Inv(f[n + 1], n + 1)
    OBVIOUS
  <2> DEFINE e == s[n + 1]
             q == f[n]
  <2>2. /\ Inv(q, n) /\ e \in E
        /\ f[n + 1] = IF e \in S THEN Append(q, e) ELSE q
    <3>1. n + 1 \in 1..K /\ (n + 1) - 1 = n
      BY <2>1
    <3> QED
      BY <1>1, <1>3, <2>1, <3>1
  <2>3. first(n + 1) = first(n) \cup {e}
    OBVIOUS
  <2>4. \A c \in first(n) : <<e, c>> \notin before
    BY <2>1 DEF ordered
  <2> HIDE DEF e, q, first
  <2>5. CASE e \in S
    <3>1. /\ Append(q, e) \in Seq(E) /\ ToSet(Append(q, e)) = ToSet(q) \cup {e}
          /\ Len(Append(q, e)) = Len(q) + 1
      BY <2>2, AppendElements
    <3>2. /\ Len(q) \in Nat /\ Append(q, e)[Len(q) + 1] = e
          /\ \A i \in 1..Len(q) : Append(q, e)[i] = q[i] /\ q[i] \in first(n)
      BY <2>2 DEF ToSet
    <3>3. ordered(Append(q, e), before)
      <4> SUFFICES ASSUME NEW i \in 1..(Len(q) + 1), NEW j \in 1..(Len(q) + 1), i < j
                   PROVE  <<Append(q, e)[j], Append(q, e)[i]>> \notin before
        BY <3>1 DEF ordered
      <4>1. CASE j \in 1..Len(q)
        <5>1. i \in 1..Len(q)
          BY <3>2, <4>1
        <5> QED
          BY <2>2, <3>2, <4>1, <5>1 DEF ordered
      <4>2. CASE j = Len(q) + 1
        <5>1. i \in 1..Len(q)
          BY <3>2, <4>2
        <5> QED
          BY <2>4, <3>2, <4>2, <5>1
      <4> QED
        BY <3>2, <4>1, <4>2
    <3> QED
      BY <2>2, <2>3, <2>5, <3>1, <3>3
  <2>6. CASE e \notin S
    BY <2>2, <2>3, <2>6
  <2> QED
    BY <2>5, <2>6
<1>4. K \in T /\ K \in Nat
  <2> HIDE DEF T
  <2> QED
    BY <1>2, <1>3, Induction
<1> QED
  BY <1>1, <1>4

\* q is s with e put in behind the first k elements.
insertedAt(q, s, e, k) ==
    /\ Len(q) = Len(s) + 1
    /\ \A i \in 1..k : q[i] = s[i]
    /\ q[k + 1] = e
    /\ \A i \in (k + 2)..(Len(s) + 1) : q[i] = s[i - 1]

LEMMA InsertedAt ==
    ASSUME NEW E, NEW s \in Seq(E), NEW e \in E, NEW k \in 0..Len(s)
    PROVE  InsertAt(s, k + 1, e) \in Seq(E) /\ insertedAt(InsertAt(s, k + 1, e), s, e, k)
<1> DEFINE a == SubSeq(s, 1, k)
           b == SubSeq(s, k + 1, Len(s))
<1>1. /\ a \in Seq(E) /\ Len(a) = k /\ \A i \in 1..k : a[i] = s[i]
      /\ k \in Nat /\ Len(s) \in Nat
  OBVIOUS
<1>2. /\ b \in Seq(E) /\ Len(b) = Len(s) - k
      /\ \A i \in 1..(Len(s) - k) : b[i] = s[k + i]
  OBVIOUS
<1> DEFINE c == a \o <<e>>
<1>3. /\ c \in Seq(E) /\ Len(c) = k + 1 /\ \A i \in 1..k : c[i] = s[i]
      /\ c[k + 1] = e
  BY <1>1
<1>4. InsertAt(s, k + 1, e) = c \o b
  <2>1. (k + 1) - 1 = k
    BY <1>1
  <2> QED
    BY <2>1, Zenon DEF InsertAt
<1> HIDE DEF a, b, c
<1>5. /\ c \o b \in Seq(E) /\ Len(c \o b) = Len(s) + 1
      /\ (k + 1) + (Len(s) - k) = Len(s) + 1
      /\ \A i \in 1..(k + 1) : (c \o b)[i] = c[i]
      /\ \A i \in (k + 2)..(Len(s) + 1) : (c \o b)[i] = b[i - (k + 1)]
  BY <1>1, <1>2, <1>3
<1>6. ASSUME NEW i \in (k + 2)..(Len(s) + 1)
      PROVE  (c \o b)[i] = s[i - 1]
  <2>1. i - (k + 1) \in 1..(Len(s) - k) /\ k + (i - (k + 1)) = i - 1
    BY <1>1
  <2> QED
    BY <1>2, <1>5, <2>1
<1>7. (\A i \in 1..k : i \in 1..(k + 1)) /\ k + 1 \in 1..(k + 1)
  BY <1>1
<1> QED
  BY <1>3, <1>4, <1>5, <1>6, <1>7 DEF insertedAt

LEMMA PlaceExists ==
    ASSUME NEW E, NEW before, weakOrder(before, E), NEW s \in Seq(E), ordered(s, before),
           NEW e \in E
    PROVE  /\ placeFor(s, e, before) \in 0..Len(s)
           /\ \A i \in 1..placeFor(s, e, before) : <<e, s[i]>> \notin before
           /\ \A i \in (placeFor(s, e, before) + 1)..Len(s) : <<e, s[i]>> \in before
<1> DEFINE place(k) == /\ \A i \in 1..k : <<e, s[i]>> \notin before
                       /\ \A i \in (k + 1)..Len(s) : <<e, s[i]>> \in before
           later == {i \in 1..Len(s) : <<e, s[i]>> \in before}
<1>1. \E k \in 0..Len(s) : place(k)
  <2>1. CASE later = {}
    <3>1. Len(s) \in 0..Len(s) /\ place(Len(s))
      BY <2>1
    <3> QED
      BY <3>1
  <2>2. CASE later # {}
    <3>1. PICK m \in later : \A y \in later : m <= y
      <4>1. later \in SUBSET Nat
        OBVIOUS
      <4> QED
        BY <2>2, <4>1, LeastNumber
    <3>2. m - 1 \in 0..Len(s) /\ m \in 1..Len(s) /\ <<e, s[m]>> \in before
      BY <3>1
    <3>3. \A i \in 1..(m - 1) : <<e, s[i]>> \notin before
      BY <3>1, <3>2
    <3>4. ASSUME NEW j \in ((m - 1) + 1)..Len(s)
          PROVE  <<e, s[j]>> \in before
      <4>1. CASE j = m
        BY <3>2, <4>1
      <4>2. CASE m < j
        <5>1. j \in 1..Len(s) /\ s[j] \in E /\ s[m] \in E /\ <<s[j], s[m]>> \notin before
          BY <3>2, <4>2 DEF ordered
        <5> QED
          BY <3>2, <5>1 DEF weakOrder
      <4> QED
        BY <3>2, <4>1, <4>2
    <3> QED
      BY <3>2, <3>3, <3>4
  <2> QED
    BY <2>1, <2>2
<1>2. placeFor(s, e, before) = CHOOSE k \in 0..Len(s) : place(k)
  BY DEF placeFor
<1>3. placeFor(s, e, before) \in 0..Len(s) /\ place(placeFor(s, e, before))
  <2> HIDE DEF place
  <2> QED
    BY <1>1, <1>2
<1> QED
  BY <1>3

LEMMA InsertOrdered ==
    ASSUME NEW E, NEW before, weakOrder(before, E), NEW s \in Seq(E), ordered(s, before),
           NEW e \in E
    PROVE  /\ insert(s, e, before) \in Seq(E) /\ ordered(insert(s, e, before), before)
           /\ Len(insert(s, e, before)) = Len(s) + 1
           /\ ToSet(insert(s, e, before)) = ToSet(s) \cup {e}
           /\ IsInjective(s) /\ e \notin ToSet(s) => IsInjective(insert(s, e, before))
<1> DEFINE k == placeFor(s, e, before)
           q == insert(s, e, before)
<1>1. /\ k \in 0..Len(s)
      /\ \A i \in 1..k : <<e, s[i]>> \notin before
      /\ \A i \in (k + 1)..Len(s) : <<e, s[i]>> \in before
  BY PlaceExists
<1>2. /\ q \in Seq(E) /\ Len(q) = Len(s) + 1 /\ Len(s) \in Nat /\ k \in Nat
      /\ \A i \in 1..k : q[i] = s[i]
      /\ q[k + 1] = e
      /\ \A i \in (k + 2)..(Len(s) + 1) : q[i] = s[i - 1]
      /\ DOMAIN q = 1..(Len(s) + 1) /\ DOMAIN s = 1..Len(s)
  <2> HIDE DEF k
  <2>1. q = InsertAt(s, k + 1, e)
    BY DEF insert, k
  <2> HIDE DEF q
  <2>2. InsertAt(s, k + 1, e) \in Seq(E) /\ insertedAt(InsertAt(s, k + 1, e), s, e, k)
    <3>1. k \in 0..Len(s)
      BY <1>1
    <3> QED
      BY <3>1, InsertedAt
  <2>3. q \in Seq(E) /\ Len(q) = Len(s) + 1 /\ Len(s) \in Nat /\ k \in Nat
    BY <1>1, <2>1, <2>2 DEF insertedAt
  <2> QED
    BY <2>1, <2>2, <2>3 DEF insertedAt
<1> HIDE DEF k, q
<1>3. \A i \in 1..(Len(s) + 1) : /\ i <= k => q[i] = s[i] /\ i \in 1..Len(s)
                                 /\ i > k + 1 => q[i] = s[i - 1] /\ i - 1 \in 1..Len(s)
                                 /\ ~(i <= k) /\ ~(i > k + 1) => i = k + 1 /\ q[i] = e
  BY <1>1, <1>2
<1>4. ordered(q, before)
  <2> SUFFICES ASSUME NEW i \in 1..(Len(s) + 1), NEW j \in 1..(Len(s) + 1), i < j
               PROVE  <<q[j], q[i]>> \notin before
    BY <1>2 DEF ordered
  <2>1. CASE j <= k
    BY <1>2, <1>3, <2>1 DEF ordered
  <2>2. CASE j = k + 1
    BY <1>1, <1>2, <1>3, <2>2
  <2>3. CASE j > k + 1 /\ i <= k
    <3>1. q[j] = s[j - 1] /\ q[i] = s[i] /\ i < j - 1 /\ i \in 1..Len(s) /\ j - 1 \in 1..Len(s)
      BY <1>2, <1>3, <2>3
    <3> QED
      BY <3>1 DEF ordered
  <2>4. CASE j > k + 1 /\ i > k + 1
    <3>1. /\ q[j] = s[j - 1] /\ q[i] = s[i - 1] /\ i - 1 < j - 1
          /\ i - 1 \in 1..Len(s) /\ j - 1 \in 1..Len(s)
      BY <1>2, <1>3, <2>4
    <3> QED
      BY <3>1 DEF ordered
  <2>5. CASE j > k + 1 /\ i = k + 1
    <3>1. q[j] = s[j - 1] /\ q[i] = e /\ j - 1 \in (k + 1)..Len(s) /\ j - 1 \in 1..Len(s)
      BY <1>2, <1>3, <2>5
    <3>2. <<e, s[j - 1]>> \in before /\ s[j - 1] \in E
      BY <1>1, <3>1
    <3> QED
      BY <3>1, <3>2 DEF weakOrder
  <2> QED
    BY <1>2, <2>1, <2>2, <2>3, <2>4, <2>5
<1>5. ToSet(q) = ToSet(s) \cup {e}
  <2>1. ToSet(q) \subseteq ToSet(s) \cup {e}
    <3> SUFFICES ASSUME NEW i \in 1..(Len(s) + 1) PROVE q[i] \in ToSet(s) \cup {e}
      BY <1>2 DEF ToSet
    <3> QED
      BY <1>2, <1>3 DEF ToSet
  <2>2. e \in ToSet(q)
    <3>1. k + 1 \in 1..(Len(s) + 1)
      BY <1>1, <1>2
    <3> QED
      BY <1>2, <3>1 DEF ToSet
  <2>3. ASSUME NEW i \in 1..Len(s) PROVE s[i] \in ToSet(q)
    <3>1. CASE i <= k
      <4>1. i \in 1..k /\ i \in 1..(Len(s) + 1)
        BY <1>2, <3>1
      <4> QED
        BY <1>2, <4>1 DEF ToSet
    <3>2. CASE i > k
      <4>1. i + 1 \in (k + 2)..(Len(s) + 1) /\ i + 1 \in 1..(Len(s) + 1) /\ (i + 1) - 1 = i
        BY <1>2, <3>2
      <4> QED
        BY <1>2, <4>1 DEF ToSet
    <3> QED
      BY <1>2, <3>1, <3>2
  <2> QED
    BY <1>2, <2>1, <2>2, <2>3 DEF ToSet
<1>6. ASSUME IsInjective(s), e \notin ToSet(s)
      PROVE  IsInjective(q)
  <2>1. \A i, j \in 1..Len(s) : s[i] = s[j] => i = j
    BY <1>2, <1>6 DEF IsInjective
  <2>2. \A i \in 1..Len(s) : s[i] # e
    BY <1>2, <1>6 DEF ToSet
  <2> SUFFICES ASSUME NEW i \in 1..(Len(s) + 1), NEW j \in 1..(Len(s) + 1), q[i] = q[j], i < j
               PROVE  FALSE
    BY <1>2 DEF IsInjective
  <2>3. CASE j <= k
    BY <1>3, <2>1, <2>3, <1>2
  <2>4. CASE j = k + 1
    BY <1>2, <1>3, <2>2, <2>4
  <2>5. CASE j > k + 1 /\ i <= k
    <3>1. i = j - 1
      BY <1>2, <1>3, <2>1, <2>5
    <3> QED
      BY <2>5, <3>1, <1>2
  <2>6. CASE j > k + 1 /\ i > k + 1
    <3>1. i - 1 = j - 1
      BY <1>2, <1>3, <2>1, <2>6
    <3> QED
      BY <3>1
  <2>7. CASE j > k + 1 /\ i = k + 1
    BY <1>2, <1>3, <2>2, <2>7
  <2> QED
    BY <1>2, <2>3, <2>4, <2>5, <2>6, <2>7
<1> QED
  BY <1>2, <1>4, <1>5, <1>6 DEF q

\* One step of the insertion sort, as insert takes it.
LEMMA SortedSteps ==
    ASSUME NEW E, NEW before, weakOrder(before, E), NEW s \in Seq(E)
    PROVE  \E f : /\ sorted(s, before) = f[Len(s)] /\ f[0] = << >>
                  /\ \A n \in 0..Len(s) : f[n] \in Seq(E) /\ ordered(f[n], before)
                  /\ \A n \in 1..Len(s) : f[n] = insert(f[n - 1], s[n], before)
<1> DEFINE K == Len(s)
           X == {q \in Seq(E) : ordered(q, before)}
           Def(f) == f = [n \in 0..K |->
                             IF n = 0 THEN << >> ELSE insert(f[n - 1], s[n], before)]
           F == [n \in 1..K |-> [x \in X |-> insert(x, s[n], before)]]
<1>1. K \in Nat /\ << >> \in X /\ F \in [1..K -> [X -> X]]
  <2>1. << >> \in X
    BY DEF ordered
  <2>2. ASSUME NEW n \in 1..K, NEW x \in X
        PROVE  insert(x, s[n], before) \in X
    <3> DEFINE e == s[n]
    <3>1. e \in E /\ x \in Seq(E) /\ ordered(x, before)
      OBVIOUS
    <3> HIDE DEF e, X
    <3>2. insert(x, e, before) \in Seq(E) /\ ordered(insert(x, e, before), before)
      BY <3>1, InsertOrdered
    <3> QED
      BY <3>2 DEF e, X
  <2> QED
    BY <2>1, <2>2
<1>2. PICK g \in [0..K -> X] : g[0] = << >> /\ \A n \in 1..K : g[n] = F[n][g[n - 1]]
  <2> HIDE DEF K, X, F
  <2>1. recursionExists(K, [n \in 0..K |-> X], << >>, F)
    BY <1>1, Recursion
  <2> QED
    BY <2>1 DEF recursionExists, isRecursive
<1> HIDE DEF X
<1>3. Def(g)
  <2>1. ASSUME NEW n \in 0..K, n # 0
        PROVE  g[n] = insert(g[n - 1], s[n], before)
    <3>1. n \in 1..K /\ n - 1 \in 0..K
      BY <1>1, <2>1
    <3>2. g[n - 1] \in X
      BY <1>2, <3>1
    <3> QED
      BY <1>2, <3>1, <3>2
  <2> QED
    BY <1>1, <1>2, <2>1
<1> DEFINE f == CHOOSE f : Def(f)
<1>4. sorted(s, before) = f[K]
  BY DEF sorted
<1>5. Def(f)
  <2> HIDE DEF Def
  <2> QED
    BY <1>3
<1> HIDE DEF f
<1>6. f[0] = << >>
  BY <1>1, <1>5
<1>7. ASSUME NEW n \in 1..K
      PROVE  f[n] = insert(f[n - 1], s[n], before)
  <2>1. n \in 0..K /\ n # 0
    BY <1>1
  <2> QED
    BY <1>5, <2>1
<1> DEFINE T == {n \in Nat : n <= K => f[n] \in X}
<1>8. 0 \in T
  BY <1>1, <1>6
<1>9. ASSUME NEW n \in Nat, n \in T
      PROVE  n + 1 \in T
  <2>1. SUFFICES ASSUME n + 1 <= K PROVE f[n + 1] \in X
    OBVIOUS
  <2>2. n + 1 \in 1..K /\ (n + 1) - 1 = n /\ f[n] \in X /\ s[n + 1] \in E
    BY <1>9, <2>1
  <2>3. f[n + 1] = insert(f[n], s[n + 1], before)
    BY <1>7, <2>2
  <2> DEFINE x == f[n]
             e == s[n + 1]
  <2>4. x \in Seq(E) /\ ordered(x, before) /\ e \in E
    BY <2>2 DEF X
  <2> HIDE DEF x, e
  <2>5. insert(x, e, before) \in Seq(E) /\ ordered(insert(x, e, before), before)
    BY <2>4, InsertOrdered
  <2> QED
    BY <2>3, <2>5 DEF X, x, e
<1>10. \A n \in Nat : n \in T
  <2> HIDE DEF T
  <2> QED
    BY <1>8, <1>9, Induction
<1>11. \A n \in 0..K : f[n] \in Seq(E) /\ ordered(f[n], before)
  BY <1>1, <1>10 DEF X
<1> QED
  BY <1>4, <1>6, <1>7, <1>11

LEMMA SortedElements ==
    ASSUME NEW E, NEW before, weakOrder(before, E), NEW s \in Seq(E)
    PROVE  /\ sorted(s, before) \in Seq(E) /\ ordered(sorted(s, before), before)
           /\ Len(sorted(s, before)) = Len(s)
           /\ ToSet(sorted(s, before)) = ToSet(s)
           /\ IsInjective(s) => IsInjective(sorted(s, before))
<1> DEFINE K == Len(s)
           first(n) == {s[i] : i \in 1..n}
           Inv(q, n) == /\ Len(q) = n /\ ToSet(q) = first(n)
                        /\ IsInjective(s) => IsInjective(q)
<1>1. PICK f : /\ sorted(s, before) = f[K] /\ f[0] = << >>
               /\ \A n \in 0..K : f[n] \in Seq(E) /\ ordered(f[n], before)
               /\ \A n \in 1..K : f[n] = insert(f[n - 1], s[n], before)
  BY SortedSteps
<1> DEFINE T == {n \in Nat : n <= K => Inv(f[n], n)}
<1>2. 0 \in T
  <2>1. ToSet(<< >>) = {} /\ IsInjective(<< >>) /\ first(0) = {} /\ Len(<< >>) = 0
    BY DEF ToSet, IsInjective
  <2>2. Inv(<< >>, 0)
    BY <2>1
  <2> HIDE DEF Inv
  <2> QED
    BY <1>1, <2>2
<1>3. ASSUME NEW n \in Nat, n \in T
      PROVE  n + 1 \in T
  <2>1. SUFFICES ASSUME n + 1 <= K PROVE Inv(f[n + 1], n + 1)
    OBVIOUS
  <2> DEFINE e == s[n + 1]
  <2>2. /\ Inv(f[n], n) /\ e \in E /\ f[n] \in Seq(E) /\ ordered(f[n], before)
        /\ f[n + 1] = insert(f[n], e, before)
    <3>1. n + 1 \in 1..K /\ (n + 1) - 1 = n /\ n \in 0..K
      BY <2>1
    <3> QED
      BY <1>1, <1>3, <2>1, <3>1
  <2>3. first(n + 1) = first(n) \cup {e}
    OBVIOUS
  <2>4. IsInjective(s) => e \notin first(n)
    BY <2>1 DEF IsInjective
  <2> DEFINE x == f[n]
  <2> HIDE DEF first, e, x
  <2>5. x \in Seq(E) /\ ordered(x, before)
    BY <2>2 DEF x
  <2>6. /\ Len(insert(x, e, before)) = Len(x) + 1
        /\ ToSet(insert(x, e, before)) = ToSet(x) \cup {e}
        /\ IsInjective(x) /\ e \notin ToSet(x) => IsInjective(insert(x, e, before))
    BY <2>2, <2>5, InsertOrdered
  <2> QED
    BY <2>2, <2>3, <2>4, <2>6 DEF x
<1>4. K \in T /\ K \in Nat
  <2> HIDE DEF T
  <2> QED
    BY <1>2, <1>3, Induction
<1>5. first(K) = ToSet(s)
  BY DEF ToSet
<1>6. Inv(f[K], K)
  BY <1>4
<1>7. f[K] \in Seq(E) /\ ordered(f[K], before)
  BY <1>1, <1>4
<1> HIDE DEF K, first
<1> QED
  BY <1>1, <1>5, <1>6, <1>7 DEF K

-----------------------------------------------------------------------------
(***************************************************************************)
(* What merge returns, whether or not its arguments are ordered.           *)
(***************************************************************************)
mergeStep(was, before) ==
    IF was.t # << >> /\ (was.s = << >> \/ <<Head(was.t), Head(was.s)>> \in before)
    THEN [was EXCEPT !.out = Append(@, Head(was.t)), !.t = Tail(@)]
    ELSE [was EXCEPT !.out = Append(@, Head(was.s)), !.s = Tail(@)]

\* The states of a merge of s and t with n elements left to take.
merging(E, s, t, n) ==
    {was \in [out : Seq(E), s : Seq(E), t : Seq(E)] :
        /\ Len(was.s) + Len(was.t) = n
        /\ ToSet(was.out) \cup ToSet(was.s) \cup ToSet(was.t) = ToSet(s) \cup ToSet(t)
        /\ IsInjective(s) /\ IsInjective(t) /\ ToSet(s) \cap ToSet(t) = {} =>
              /\ IsInjective(was.out) /\ IsInjective(was.s) /\ IsInjective(was.t)
              /\ ToSet(was.s) \cap ToSet(was.t) = {}
              /\ ToSet(was.out) \cap (ToSet(was.s) \cup ToSet(was.t)) = {}}

LEMMA MergeStep ==
    ASSUME NEW E, NEW before, NEW s, NEW t, NEW n \in Nat, NEW was \in merging(E, s, t, n + 1)
    PROVE  mergeStep(was, before) \in merging(E, s, t, n)
<1>1. /\ was.out \in Seq(E) /\ was.s \in Seq(E) /\ was.t \in Seq(E)
      /\ Len(was.s) + Len(was.t) = n + 1
      /\ was = [out |-> was.out, s |-> was.s, t |-> was.t]
      /\ ToSet(was.out) \cup ToSet(was.s) \cup ToSet(was.t) = ToSet(s) \cup ToSet(t)
  BY DEF merging
<1> DEFINE apart == IsInjective(s) /\ IsInjective(t) /\ ToSet(s) \cap ToSet(t) = {}
<1>2. apart => /\ IsInjective(was.out) /\ IsInjective(was.s) /\ IsInjective(was.t)
               /\ ToSet(was.s) \cap ToSet(was.t) = {}
               /\ ToSet(was.out) \cap (ToSet(was.s) \cup ToSet(was.t)) = {}
  BY DEF merging
<1> DEFINE o == was.out
           u == was.s
           v == was.t
<1>3. CASE v # << >> /\ (u = << >> \/ <<Head(v), Head(u)>> \in before)
  <2> DEFINE next == [out |-> Append(o, Head(v)), s |-> u, t |-> Tail(v)]
  <2>1. mergeStep(was, before) = next
    BY <1>1, <1>3 DEF mergeStep
  <2>2. /\ Tail(v) \in Seq(E) /\ Head(v) \in E /\ Len(Tail(v)) = Len(v) - 1 /\ Len(v) \in Nat
        /\ ToSet(v) = ToSet(Tail(v)) \cup {Head(v)}
        /\ IsInjective(v) => IsInjective(Tail(v)) /\ Head(v) \notin ToSet(Tail(v))
    BY <1>1, <1>3, TailElements
  <2>3. /\ Append(o, Head(v)) \in Seq(E) /\ ToSet(Append(o, Head(v))) = ToSet(o) \cup {Head(v)}
        /\ IsInjective(o) /\ Head(v) \notin ToSet(o) => IsInjective(Append(o, Head(v)))
    BY <1>1, <2>2, AppendElements
  <2>4. Len(u) + Len(Tail(v)) = n
    <3>1. Len(u) \in Nat /\ Len(u) + Len(v) = n + 1
      BY <1>1
    <3> HIDE DEF u, v
    <3> QED
      BY <2>2, <3>1
  <2>5. next \in [out : Seq(E), s : Seq(E), t : Seq(E)]
    BY <1>1, <2>2, <2>3
  <2>6. /\ ToSet(Append(o, Head(v))) \cup ToSet(u) \cup ToSet(Tail(v)) = ToSet(s) \cup ToSet(t)
        /\ apart => /\ IsInjective(Append(o, Head(v))) /\ IsInjective(u) /\ IsInjective(Tail(v))
                    /\ ToSet(u) \cap ToSet(Tail(v)) = {}
                    /\ ToSet(Append(o, Head(v))) \cap (ToSet(u) \cup ToSet(Tail(v))) = {}
    <3> HIDE DEF o, u, v, apart
    <3> QED
      BY <1>1, <1>2, <2>2, <2>3 DEF o, u, v
  <2>7. /\ next.out = Append(o, Head(v)) /\ next.s = u /\ next.t = Tail(v)
    OBVIOUS
  <2> HIDE DEF next, o, u, v
  <2> QED
    BY <2>1, <2>4, <2>5, <2>6, <2>7 DEF merging
<1>4. CASE ~(v # << >> /\ (u = << >> \/ <<Head(v), Head(u)>> \in before))
  <2> DEFINE next == [out |-> Append(o, Head(u)), s |-> Tail(u), t |-> v]
  <2>1. mergeStep(was, before) = next
    BY <1>1, <1>4 DEF mergeStep
  <2>2. u # << >>
    BY <1>1, <1>4
  <2>3. /\ Tail(u) \in Seq(E) /\ Head(u) \in E /\ Len(Tail(u)) = Len(u) - 1 /\ Len(u) \in Nat
        /\ ToSet(u) = ToSet(Tail(u)) \cup {Head(u)}
        /\ IsInjective(u) => IsInjective(Tail(u)) /\ Head(u) \notin ToSet(Tail(u))
    BY <1>1, <2>2, TailElements
  <2>4. /\ Append(o, Head(u)) \in Seq(E) /\ ToSet(Append(o, Head(u))) = ToSet(o) \cup {Head(u)}
        /\ IsInjective(o) /\ Head(u) \notin ToSet(o) => IsInjective(Append(o, Head(u)))
    BY <1>1, <2>3, AppendElements
  <2>5. Len(Tail(u)) + Len(v) = n
    <3>1. Len(v) \in Nat
      BY <1>1
    <3> QED
      BY <1>1, <2>3, <3>1
  <2>6. next \in [out : Seq(E), s : Seq(E), t : Seq(E)]
    BY <1>1, <2>3, <2>4
  <2>7. /\ ToSet(Append(o, Head(u))) \cup ToSet(Tail(u)) \cup ToSet(v) = ToSet(s) \cup ToSet(t)
        /\ apart => /\ IsInjective(Append(o, Head(u))) /\ IsInjective(Tail(u)) /\ IsInjective(v)
                    /\ ToSet(Tail(u)) \cap ToSet(v) = {}
                    /\ ToSet(Append(o, Head(u))) \cap (ToSet(Tail(u)) \cup ToSet(v)) = {}
    <3> HIDE DEF o, u, v, apart
    <3> QED
      BY <1>1, <1>2, <2>3, <2>4 DEF o, u, v
  <2>8. /\ next.out = Append(o, Head(u)) /\ next.s = Tail(u) /\ next.t = v
    OBVIOUS
  <2> HIDE DEF next, o, u, v
  <2> QED
    BY <2>1, <2>5, <2>6, <2>7, <2>8 DEF merging
<1> QED
  BY <1>3, <1>4

LEMMA MergedElements ==
    ASSUME NEW E, NEW s \in Seq(E), NEW t \in Seq(E), NEW before
    PROVE  /\ merge(s, t, before) \in Seq(E)
           /\ ToSet(merge(s, t, before)) = ToSet(s) \cup ToSet(t)
           /\ IsInjective(s) /\ IsInjective(t) /\ ToSet(s) \cap ToSet(t) = {}
                => IsInjective(merge(s, t, before))
<1> DEFINE K == Len(s) + Len(t)
           start == [out |-> << >>, s |-> s, t |-> t]
           I == [n \in 0..K |-> merging(E, s, t, K - n)]
           F == [n \in 1..K |-> [x \in I[n - 1] |-> mergeStep(x, before)]]
           Def(f) == f = [n \in 0..K |-> IF n = 0 THEN start ELSE mergeStep(f[n - 1], before)]
<1>1. K \in Nat
  OBVIOUS
<1>2. start \in I[0]
  <2>1. ToSet(<< >>) = {} /\ IsInjective(<< >>) /\ << >> \in Seq(E)
    BY DEF ToSet, IsInjective
  <2>2. I[0] = merging(E, s, t, K)
    BY <1>1
  <2> QED
    BY <2>1, <2>2 DEF merging
<1>3. \A n \in 1..K : \A x \in I[n - 1] : F[n][x] = mergeStep(x, before) /\ F[n][x] \in I[n]
  <2> SUFFICES ASSUME NEW n \in 1..K, NEW x \in I[n - 1]
               PROVE  F[n][x] = mergeStep(x, before) /\ F[n][x] \in I[n]
    OBVIOUS
  <2>1. n - 1 \in 0..K /\ n \in 0..K /\ K - n \in Nat /\ K - (n - 1) = (K - n) + 1
    BY <1>1
  <2>2. I[n - 1] = merging(E, s, t, (K - n) + 1) /\ I[n] = merging(E, s, t, K - n)
    BY <2>1
  <2>3. F[n][x] = mergeStep(x, before)
    <3> HIDE DEF I
    <3> QED
      OBVIOUS
  <2> HIDE DEF I
  <2> QED
    BY <2>1, <2>2, <2>3, MergeStep
<1>4. PICK g : isRecursive(g, K, I, start, F)
  <2>1. stepsWithin(K, I, F)
    BY <1>3 DEF stepsWithin
  <2> HIDE DEF K, I, F, start
  <2> QED
    BY <1>1, <1>2, <2>1, RecursionWithin DEF recursionExists
<1>5. /\ DOMAIN g = 0..K /\ g = [n \in 0..K |-> g[n]] /\ g[0] = start
      /\ \A n \in 1..K : g[n] = F[n][g[n - 1]]
      /\ \A n \in 0..K : g[n] \in I[n]
  BY <1>4 DEF isRecursive
<1> HIDE DEF I, F
<1>6. Def(g)
  <2>1. ASSUME NEW n \in 0..K, n # 0
        PROVE  g[n] = mergeStep(g[n - 1], before)
    <3>1. n \in 1..K /\ n - 1 \in 0..K
      BY <1>1, <2>1
    <3> QED
      BY <1>3, <1>5, <3>1
  <2> HIDE DEF start, K
  <2> QED
    BY <1>1, <1>5, <2>1
<1> DEFINE f == CHOOSE f : Def(f)
<1>7. merge(s, t, before) = f[K].out
  BY DEF merge, mergeStep
<1>8. Def(f)
  <2> HIDE DEF Def
  <2> QED
    BY <1>6
<1> HIDE DEF f
<1>9. \A n \in 1..K : f[n] = mergeStep(f[n - 1], before)
  <2> SUFFICES ASSUME NEW n \in 1..K PROVE f[n] = mergeStep(f[n - 1], before)
    OBVIOUS
  <2>1. n \in 0..K /\ n # 0
    BY <1>1
  <2> HIDE DEF K, start
  <2> QED
    BY <1>8, <2>1
<1>10. f[0] = start
  <2> HIDE DEF start
  <2> QED
    BY <1>1, <1>8
<1> DEFINE T == {n \in Nat : n <= K => f[n] \in I[n]}
<1>11. 0 \in T
  BY <1>2, <1>10
<1>12. ASSUME NEW n \in Nat, n \in T
       PROVE  n + 1 \in T
  <2>1. SUFFICES ASSUME n + 1 <= K PROVE f[n + 1] \in I[n + 1]
    OBVIOUS
  <2>2. n + 1 \in 1..K /\ (n + 1) - 1 = n /\ f[n] \in I[n]
    BY <1>1, <1>12, <2>1
  <2> HIDE DEF K
  <2> QED
    BY <1>3, <1>9, <2>2
<1>13. f[K] \in I[K]
  <2>1. K \in T
    <3> HIDE DEF T
    <3> QED
      BY <1>1, <1>11, <1>12, Induction
  <2> QED
    BY <1>1, <2>1
<1>14. f[K] \in merging(E, s, t, 0)
  <2>1. I[K] = merging(E, s, t, 0)
    <3>1. K \in 0..K /\ K - K = 0
      BY <1>1
    <3> HIDE DEF K
    <3> QED
      BY <3>1 DEF I
  <2> QED
    BY <1>13, <2>1
<1>15. ToSet(f[K].s) = {} /\ ToSet(f[K].t) = {}
  <2> DEFINE was == f[K]
  <2>1. was.s \in Seq(E) /\ was.t \in Seq(E) /\ Len(was.s) + Len(was.t) = 0
    BY <1>14 DEF merging
  <2> HIDE DEF was
  <2>2. Len(was.s) \in Nat /\ Len(was.t) \in Nat
    BY <2>1
  <2>3. was.s = << >> /\ was.t = << >>
    <3>1. Len(was.s) = 0 /\ Len(was.t) = 0
      <4>1. \A m, n \in Nat : m + n = 0 => m = 0 /\ n = 0
        OBVIOUS
      <4> QED
        BY <2>1, <2>2, <4>1, Zenon
    <3> QED
      BY <2>1, <3>1
  <2>4. ToSet(<< >>) = {}
    BY DEF ToSet
  <2> QED
    BY <2>3, <2>4 DEF was
<1> QED
  BY <1>7, <1>14, <1>15 DEF merging
=============================================================================
