------------------------------- MODULE Lists -------------------------------
(***************************************************************************)
(* What the C++ library does to the lists and vectors of the program, with *)
(* a set of values or a relation, the set of the pairs that a comparator   *)
(* holds of, for its functors.                                             *)
(***************************************************************************)
EXTENDS SequencesExt

\* erase(remove_if(...)), copy_if: the elements of s that are in S, in order.
those(s, S) ==
    LET kept[n \in 0..Len(s)] ==
            IF n = 0 THEN << >>
            ELSE IF s[n] \in S THEN Append(kept[n - 1], s[n]) ELSE kept[n - 1]
    IN  kept[Len(s)]

\* How many elements of an ordered sequence stay in front of e.
placeFor(s, e, before) ==
    CHOOSE k \in 0..Len(s) : /\ \A i \in 1..k : <<e, s[i]>> \notin before
                             /\ \A i \in (k + 1)..Len(s) : <<e, s[i]>> \in before

insert(s, e, before) == InsertAt(s, placeFor(s, e, before) + 1, e)

\* sort: list::sort keeps the order of equivalent elements.  std::sort may
\* not, but is given no equivalent elements here.
sorted(s, before) ==
    LET upTo[n \in 0..Len(s)] ==
            IF n = 0 THEN << >> ELSE insert(upTo[n - 1], s[n], before)
    IN  upTo[Len(s)]

\* merge: take from the second sequence only when its head is smaller.
merge(s, t, before) ==
    LET taken[n \in 0..(Len(s) + Len(t))] ==
            IF n = 0 THEN [out |-> << >>, s |-> s, t |-> t]
            ELSE LET was == taken[n - 1] IN
                 IF was.t # << >> /\ (was.s = << >> \/ <<Head(was.t), Head(was.s)>> \in before)
                 THEN [was EXCEPT !.out = Append(@, Head(was.t)), !.t = Tail(@)]
                 ELSE [was EXCEPT !.out = Append(@, Head(was.s)), !.s = Tail(@)]
    IN  taken[Len(s) + Len(t)].out
=============================================================================
