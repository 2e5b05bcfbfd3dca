-------------------------- MODULE TinyInstructions --------------------------
(***************************************************************************)
(* tiny-vm's instructions and its integers.  A word is the 4 bytes of an   *)
(* i32; an i64 is two words, the low one first as in memory.  A width is a *)
(* number of words.                                                        *)
(***************************************************************************)
EXTENDS Integers, Sequences

CONSTANT W   \* values of a word (2^32)

\* A word is at least a byte.
ASSUME WordAssumption == W \in Nat /\ W >= 256 /\ W % 2 = 0

instruction(name, width, args) == [name |-> name, width |-> width, args |-> args]

\* The set main registers, by opcode.  args is get_args_byte_count: in words,
\* but for the one byte of int.
tisc == << instruction("int", 1, 1),
           instruction("jmp", 2, 2),  instruction("jmp_if", 2, 2),
           instruction("pop", 0, 0),
           instruction("push", 1, 1), instruction("push", 2, 2),
           instruction("add", 1, 0),  instruction("add", 2, 0),
           instruction("sub", 1, 0),  instruction("sub", 2, 0),
           instruction("mul", 1, 0),  instruction("mul", 2, 0),
           instruction("div", 1, 0),  instruction("div", 2, 0) >>

arithmetic == {"add", "sub", "mul", "div"}

modulus(n)   == IF n = 1 THEN W ELSE W * W
value(words) == IF Len(words) = 1 THEN words[1] ELSE words[1] + W * words[2]
asWords(v, n) == IF n = 1 THEN <<v>> ELSE <<v % W, v \div W>>
signed(v, n) == IF 2 * v < modulus(n) THEN v ELSE v - modulus(n)

\* C++ division truncates towards zero; by zero, or of the least integer by
\* -1, the processor traps.
magnitude(x)   == IF x < 0 THEN -x ELSE x
quotient(x, y) == LET q == magnitude(x) \div magnitude(y)
                  IN  IF (x < 0) = (y < 0) THEN q ELSE -q
traps(name, x, y, n) ==
    /\ name = "div"
    /\ y = 0 \/ (signed(y, n) = -1 /\ 2 * x = modulus(n))

\* x op y: the other operations wrap around.
calculate(name, x, y, n) ==
    LET i == signed(x, n)
        j == signed(y, n) IN
    (CASE name = "add" -> i + j
       [] name = "sub" -> i - j
       [] name = "mul" -> i * j
       [] name = "div" -> quotient(i, j)) % modulus(n)
=============================================================================
