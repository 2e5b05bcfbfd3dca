------------------------------- MODULE TinyVM -------------------------------
(***************************************************************************)
(* tiny-vm from the bytecode to the last instruction: assemble_bytecode    *)
(* (vm.hpp) over a byte_stream or a file, interpret, the stack in memory   *)
(* (memory.hpp) and what each instruction (instructions.hpp) does to it.   *)
(*                                                                         *)
(* A cell of the code is a byte (an opcode, the argument of int) or the    *)
(* four bytes of an operand's word.  In the code a word of an operand      *)
(* comes in big endian, so the high word of two comes first.  The stack's  *)
(* addresses count words from ss; sl is stackWords.  The size header of an *)
(* element is a word: the element's width (4 times that in the code).      *)
(***************************************************************************)
EXTENDS TinyInstructions, Lists

CONSTANTS stackWords,   \* words of the stack
          Behind,       \* what may be in the word behind the stack
          Codes         \* the codes that may be given

ASSUME CodesAssumption ==
    /\ stackWords \in Nat /\ Behind \subseteq 0..(W - 1)
    /\ \A c \in Codes : c \in Seq(0..(W - 1))

VARIABLES
    source,     \* "stream" or "file": which assemble_bytecode
    code,       \* the cells given
    position,   \* cells read so far (_current)
    assembly, m_pc,
    memory, sp, \* memory[stackWords] is the word behind the stack
    phase,      \* "assembling", "running", "halted" or "crashed"
    status      \* default_except's m_status

given     == <<source, code>>
stackVars == <<memory, sp>>
vmVars == <<given, position, assembly, m_pc, stackVars, phase, status>>

EOF == 255

VMInit ==
    /\ source \in {"stream", "file"}
    /\ code \in Codes
    /\ position = 0
    /\ assembly = << >> /\ m_pc = 0
    /\ \E behind \in Behind :
          memory = [i \in 0..stackWords |-> IF i < stackWords THEN 0 ELSE behind]
    /\ sp = stackWords
    /\ phase = "assembling"
    /\ status = "ready"

\* raise: a level below zero terminates, otherwise the last level decides.
raised(level) == IF level > 10 THEN "error" ELSE "warning"

-----------------------------------------------------------------------------
(***************************************************************************)
(* assemble_bytecode, one iteration of its loop per step.  The test for    *)
(* the end of the file never holds of an unsigned byte; fgetc's EOF, as a  *)
(* byte, is the eof opcode or an operand of ones.  get1 aborts beyond a    *)
(* stream's end (init turns its verification off).                         *)
(***************************************************************************)
assembling == phase = "assembling"
readable(n) == source = "file" \/ position + n <= Len(code)

opcode == IF position < Len(code) THEN code[position + 1] ELSE EOF

\* Mutant of operandWords: to_local_endian is left out.
operandWordsAsRead(n) ==
    [i \in 1..n |-> IF position + 1 + i <= Len(code) THEN code[position + 1 + i] ELSE W - 1]

operandWords(n) ==
    Reverse([i \in 1..n |-> IF position + 1 + i <= Len(code)
                            THEN code[position + 1 + i] ELSE W - 1])

\* The file cannot be opened: the exception is recorded, and interpret finds
\* an empty assembly.
AssembleNoFile ==
    /\ assembling /\ source = "file" /\ position = 0
    /\ status' = raised(20)
    /\ phase' = "running" /\ m_pc' = 0
    /\ UNCHANGED <<given, position, assembly, stackVars>>

AssembleNop ==
    /\ assembling /\ readable(1) /\ opcode = 0
    /\ position' = position + 1
    /\ UNCHANGED <<given, assembly, m_pc, stackVars, phase, status>>

AssembleInstruction ==
    /\ assembling /\ readable(1) /\ opcode \in DOMAIN tisc
    /\ LET inst == tisc[opcode] IN
       /\ readable(1 + inst.args)
       /\ assembly' = Append(assembly, [inst |-> inst, arg |-> operandWords(inst.args)])
       /\ position' = position + 1 + inst.args
    /\ UNCHANGED <<given, m_pc, stackVars, phase, status>>

\* The exception for an unknown opcode is only recorded; the nullptr that
\* get_instruction returns is used.
AssembleUnknown ==
    /\ assembling /\ readable(1) /\ opcode \notin {0, EOF} \cup DOMAIN tisc
    /\ position' = position + 1
    /\ status' = raised(20)
    /\ phase' = "crashed"
    /\ UNCHANGED <<given, assembly, m_pc, stackVars>>

AssembleBeyondEnd ==
    /\ assembling
    /\ ~readable(1) \/ (opcode \in DOMAIN tisc /\ ~readable(1 + tisc[opcode].args))
    /\ phase' = "crashed"
    /\ UNCHANGED <<given, position, assembly, m_pc, stackVars, status>>

\* interpret starts with rst_pc.
AssembleEnd ==
    /\ assembling /\ readable(1) /\ opcode = EOF
    /\ position' = position + 1
    /\ phase' = "running" /\ m_pc' = 0
    /\ UNCHANGED <<given, assembly, stackVars, status>>

-----------------------------------------------------------------------------
(***************************************************************************)
(* The stack grows down: an element is its header and, above it, its data. *)
(***************************************************************************)
empty(s)   == s = stackWords
top(s)     == s + 1
popped(s)  == s + memory[s] + 1

\* push makes room for n words unless there is none.
fits(n) == sp >= n + 1

\* memcpy_n, word by word upwards: source and destination may overlap.
copied(mem, from, to, n) ==
    LET after[i \in 0..n] ==
            IF i = 0 THEN mem
            ELSE [after[i - 1] EXCEPT ![to + i - 1] = after[i - 1][from + i - 1]]
    IN  after[n]

\* Mutant of withHeader: the new header is written below its slot.
withHeaderBelow(mem, s, n) == [mem EXCEPT ![s - 1] = n]

withHeader(mem, s, n) == [mem EXCEPT ![s] = n]

\* The number at an address, as an i32 or i64 pointer reads and writes it.
load(mem, at, n)     == value([i \in 1..n |-> mem[at + i - 1]])
store(mem, at, n, v) ==
    [i \in DOMAIN mem |-> IF i \in at..(at + n - 1) THEN asWords(v, n)[i - at + 1] ELSE mem[i]]

-----------------------------------------------------------------------------
(***************************************************************************)
(* interpret: the counter is incremented before the instruction executes.  *)
(* The memory a crash leaves behind is nobody's and not changed here.      *)
(***************************************************************************)
executing(name) == /\ phase = "running" /\ m_pc < Len(assembly)
                   /\ assembly[m_pc + 1].inst.name = name
width == assembly[m_pc + 1].inst.width
data  == assembly[m_pc + 1].arg

continues == m_pc' = m_pc + 1 /\ UNCHANGED <<given, position, assembly, phase>>
aborts    == phase' = "crashed" /\ m_pc' = m_pc + 1 /\ UNCHANGED <<given, position, assembly>>

\* Index 1 prints an i32; the others of bytecode.md do nothing.
Interrupt ==
    /\ executing("int") /\ (data[1] = 1 => ~empty(sp))
    /\ continues
    /\ UNCHANGED <<stackVars, status>>

\* jump takes a 32-bit index out of the 64 bits.
Jump ==
    /\ executing("jmp")
    /\ m_pc' = data[1]
    /\ UNCHANGED <<given, position, assembly, stackVars, phase, status>>

\* Mutant of topIsZero: one zero word is enough.
topHasZero == \E i \in 0..(memory[sp] - 1) : memory[top(sp) + i] = 0

topIsZero == \A i \in 0..(memory[sp] - 1) : memory[top(sp) + i] = 0

\* Mutant of JumpIf: the condition is popped.
JumpIfPops ==
    /\ executing("jmp_if") /\ ~empty(sp)
    /\ m_pc' = IF topIsZero THEN data[1] ELSE m_pc + 1
    /\ sp' = popped(sp)
    /\ UNCHANGED <<given, position, assembly, memory, phase, status>>

JumpIf ==
    /\ executing("jmp_if") /\ ~empty(sp)
    /\ m_pc' = IF topIsZero THEN data[1] ELSE m_pc + 1
    /\ UNCHANGED <<given, position, assembly, stackVars, phase, status>>

Pop ==
    /\ executing("pop")
    /\ IF empty(sp) THEN status' = raised(10) /\ UNCHANGED sp
       ELSE sp' = popped(sp) /\ UNCHANGED status
    /\ continues
    /\ UNCHANGED memory

Push ==
    /\ executing("push") /\ fits(width)
    /\ sp' = sp - width - 1
    /\ memory' = store(withHeader(memory, sp', width), top(sp'), width, value(data))
    /\ continues
    /\ UNCHANGED status

\* "Stack overflow." is fatal.
PushOverflow ==
    /\ executing("push") /\ ~fits(width)
    /\ aborts
    /\ UNCHANGED <<stackVars, status>>

computed(name, b, a) == calculate(name, load(memory, b, width), load(memory, a, width), width)

twoElements == ~empty(sp) /\ ~empty(popped(sp))

\* The result is stored in the element that was on top, which has been popped
\* by then, and pushed from there.
Arithmetic(name) ==
    LET a == top(sp)
        b == top(popped(sp))
        free == popped(popped(sp)) IN
    /\ executing(name) /\ twoElements
    /\ ~traps(name, load(memory, b, width), load(memory, a, width), width)
    /\ sp' = free - width - 1
    /\ LET stored == store(memory, a, width, computed(name, b, a)) IN
       memory' = copied(withHeader(stored, sp', width), a, top(sp'), width)
    /\ continues
    /\ UNCHANGED status

DivisionTrap ==
    /\ executing("div") /\ twoElements
    /\ traps("div", load(memory, top(popped(sp)), width), load(memory, top(sp), width), width)
    /\ aborts
    /\ UNCHANGED <<stackVars, status>>

\* top warns and returns nullptr, which the instruction uses.
NoOperand ==
    /\ \/ executing("int") /\ data[1] = 1 /\ empty(sp)
       \/ executing("jmp_if") /\ empty(sp)
       \/ \E name \in arithmetic : executing(name) /\ ~twoElements
    /\ status' = raised(10)
    /\ aborts
    /\ UNCHANGED stackVars

Finish ==
    /\ phase = "running" /\ m_pc >= Len(assembly)
    /\ phase' = "halted"
    /\ UNCHANGED <<given, position, assembly, m_pc, stackVars, status>>

\* run_elf interprets in a loop, with what is left on the stack.
InterpretAgain ==
    /\ phase = "halted"
    /\ phase' = "running" /\ m_pc' = 0
    /\ UNCHANGED <<given, position, assembly, stackVars, status>>

Assemble == AssembleNoFile \/ AssembleNop \/ AssembleInstruction \/ AssembleUnknown
            \/ AssembleBeyondEnd \/ AssembleEnd
Interpret == Interrupt \/ Jump \/ JumpIf \/ Pop \/ Push \/ PushOverflow \/ DivisionTrap
             \/ NoOperand \/ Finish \/ \E name \in arithmetic : Arithmetic(name)

VMNext == Assemble \/ Interpret \/ InterpretAgain

\* One thread that does nothing else.
VMSpec == VMInit /\ [][VMNext]_vmVars /\ WF_vmVars(Assemble \/ Interpret)

-----------------------------------------------------------------------------
\* Whether the elements from s on end exactly at the stack's limit.
chained(mem, s) ==
    \E headers \in SUBSET (s..stackWords) :
        /\ {s, stackWords} \subseteq headers
        /\ \A i \in headers \ {stackWords} : mem[i] \in {1, 2} /\ i + mem[i] + 1 \in headers

contents(mem, s) ==
    LET from[i \in 0..stackWords] ==
            LET n == i + mem[i] + 1 IN
            IF n <= stackWords THEN <<[j \in 1..mem[i] |-> mem[i + j]]>> \o from[n] ELSE << >>
    IN  from[s]

elements == contents(memory, sp)

(***************************************************************************)
(* Type invariant; and from the stack pointer on, header by header, there  *)
(* are whole elements up to the limit, whatever the widths of the operands *)
(* an instruction was given: every pop finds a header.                     *)
(***************************************************************************)
Assembled == [inst : ToSet(tisc), arg : Seq(0..(W - 1))]

VMTypeOK ==
    /\ source \in {"stream", "file"} /\ code \in Codes
    /\ position \in Nat /\ m_pc \in Nat
    /\ assembly \in Seq(Assembled)
    /\ \A i \in DOMAIN assembly : Len(assembly[i].arg) = assembly[i].inst.args
    /\ memory \in [0..stackWords -> 0..(W - 1)] /\ sp \in 0..stackWords
    /\ phase \in {"assembling", "running", "halted", "crashed"}
    /\ status \in {"ready", "warning", "error"}
    /\ chained(memory, sp)

(***************************************************************************)
(* The assembly is the code: put back into cells, it has the cells read so *)
(* far in their order, and only nops between instructions are missing, be  *)
(* the source a stream or a file.  An operand that the end of a file cuts  *)
(* off is made of ones from there on: that, and nothing else, is assembled *)
(* without being in the code.                                              *)
(***************************************************************************)
encoded(one) == <<CHOOSE op \in DOMAIN tisc : tisc[op] = one.inst>> \o Reverse(one.arg)

cellsOf(asm) ==
    LET upTo[n \in 0..Len(asm)] ==
            IF n = 0 THEN << >> ELSE upTo[n - 1] \o encoded(asm[n])
    IN  upTo[Len(asm)]

nonzero(cells) == those(cells, Nat \ {0})

\* No operand is longer than two words.
continued == code \o <<W - 1, W - 1>>

AssemblyDecodesCode ==
    assembling =>
        /\ Len(cellsOf(assembly)) <= position
        /\ nonzero(cellsOf(assembly)) = nonzero(SubSeq(continued, 1, position))

(***************************************************************************)
(* The interpreter implements the machine of the documents: storing a      *)
(* result in an element already popped, and pushing it from there over     *)
(* memory that may overlap, is a correct way to compute it, and never      *)
(* disturbs an element below, even when the widths do not match.           *)
(***************************************************************************)
Machine == INSTANCE StackMachine
    WITH capacity <- stackWords, pc <- m_pc, operands <- elements,
         program <- IF assembling THEN << >> ELSE assembly

MachineSpec == Machine!MachineSpec

-----------------------------------------------------------------------------
(***************************************************************************)
(* The sample program of the tests: multiply two numbers and count down to *)
(* zero.                                                                   *)
(***************************************************************************)
countdown(x, y) == <<5, x, 5, y, 11, 3, 0, 7, 5, 1, 9, 2, 0, 3, 4, EOF>>

isCountdown == \E x, y \in ToSet(code) : code = countdown(x, y)

(***************************************************************************)
(* Whatever it starts from, the countdown comes to its end with an empty   *)
(* stack, also when it is interpreted again.                               *)
(***************************************************************************)
CountdownEnds ==
    isCountdown /\ phase = "running" /\ assembly # << >> ~> phase = "halted" /\ empty(sp) /\ status = "ready"
=============================================================================
