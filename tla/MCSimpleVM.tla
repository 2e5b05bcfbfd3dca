----------------------------- MODULE MCSimpleVM -----------------------------
(***************************************************************************)
(* SimpleVM for TLC: main.cpp's program with its heap of 128 KB, and all   *)
(* programs of at most six instructions before HALT, or three and no HALT, *)
(* that never pop an empty stack.                                          *)
(***************************************************************************)
EXTENDS SimpleVM

OneMutator == {1}
FirstPlaces == {32 * i : i \in 0..13}

Ops == {"NEW_VEC2", "ADD2", "SHOW2", "INC2_X", "COLLECT"}
\* The programs of n opcodes that pop no empty stack.
codes[n \in Nat] ==
    IF n = 0 THEN {<< >>}
    ELSE UNION {{Append(p, op) : op \in {o \in Ops : height(p, n - 1) >= arity(o)}} :
                p \in codes[n - 1]}
upTo(n) == UNION {codes[k] : k \in 0..n}
MCPrograms == {Append(p, "HALT") : p \in upTo(6)} \cup upTo(3) \cup {entranceProgram}
=============================================================================
