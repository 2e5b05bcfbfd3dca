------------------------------ MODULE MCTinyVM ------------------------------
(***************************************************************************)
(* TinyVM for TLC: words of a byte, a stack that three i64 fill, and codes *)
(* that push three operands (among them -1, 1 and the least integers, so   *)
(* that results wrap) and execute two instructions, the sample program,    *)
(* and codes that are damaged.                                             *)
(***************************************************************************)
EXTENDS TinyVM

MCBehind == {1, 255}

Operands == {<<5, 0>>, <<5, 255>>, <<6, 1, 2>>, <<6, 128, 0>>}
Operations == {<<op>> : op \in {4} \cup 7..14} \cup {<<3, 0, 6>>, <<1, 1>>}

Straight == {x \o y \o z \o f \o g \o <<EOF>> :
                x \in {<<5, 128>>, <<6, 255, 255>>}, y, z \in Operands, f, g \in Operations}
Short == {x \o f \o <<EOF>> : x \in Operands, f \in Operations}
         \cup {f \o g \o <<EOF>> : f, g \in Operations}
Countdowns == {countdown(x, 3) : x \in {0, 1, 86}}
Growing == {<<5, 1, 5, 1, 5, 1, EOF>>, <<6, 3, 3, 6, 0, 1, EOF>>}
Damaged == {<< >>, <<5, 1>>, <<0, 5, 0, 0, 0, 7, EOF>>, <<6, 1>>, <<5>>, <<15, EOF>>,
            <<1, 2, EOF>>, <<2, 0, 9, EOF>>, <<0, 0, 2, 0, 0, EOF>>}

MCCodes == Straight \cup Short \cup Countdowns \cup Growing \cup Damaged
=============================================================================
