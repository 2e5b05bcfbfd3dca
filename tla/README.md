# A TLA+ model of SparkGC

SparkGC is a mark-sweep collector that was written after an "on the fly" design:
mutators and a collector thread agree on the phase of a collection by
handshakes, and a color toggle replaces the reset of the marks.  This directory
holds TLA+ modules that model it, TLC configurations that check them on small
instances, and theorems about them that the TLA+ proof system checks.  File
names below are relative to the repository (`src/spark`, `include/spark`,
`docs`, `examples`).  `PROJECT.json` lists the components, the runs, the lines
each definition was written from, what the runs refute, the hazards the
properties are meant for, and the theorems.

## The system

| component | state | operations | how it meets the others |
|---|---|---|---|
| `HeapBlock` (`CollectedHeap.h`, `.cpp`) | start, size, current | `canAfford`, `allocate`, `shrinkToFit`, `reset`, `operator<` | owned by `CollectedHeap` |
| `CollectedHeap` | lists of partially free and full blocks, unused end of the heap | `allocate`, `allocateLarge`, `newBlockFromUnused`, `memoryFreed` (with `searchBlock`) | called by mutators and by the sweep, no lock |
| `SparkGC`, the cycle (`SparkGC.cpp`) | `handshakeState`, `gcStage`, `clearColor`, `markColor`, `mutators` | `collect` and its stages, `waitHandshake`, `toggleColor`, `registerMutator`, `unregisterMutator` | plain variables read by mutators |
| `SparkGC`, the collector | color bitmap, mark stack | `markGray`, `collectorTrace`, `collectorMarkBlack`, `emptyMarkBuffer`, `collectorSweep` | reads the mutators' mark buffers, calls `markChildren` of objects, gives the sweep's result to the heap |
| `SparkMutator` | handshake state, allocation color, mark buffer with `lastRead`, `lastWrite` | `allocate`, `write`, `handshakeCollector`, `markGray` | base class of a virtual machine |
| `ColorBitmap` | one 64-bit word per block | `getColor`, `setColor` | all threads |
| `CollectedObject`, `ColorMarker` | pointers of an object | `markChildren`, `mark` | call back into the collector |
| `SimpleVM` (`examples`) | stack of roots, wait flag | instructions, `gcNew`, `doGCWait` | a mutator that starts `collect` on a thread and answers handshakes until it is over |
| tiny-vm's heap (`examples/tiny-vm/include/vm/memory.hpp`) | list of free spaces, unused end | `malloc` under three policies, `free`, `compress` | does not use SparkGC |
| tiny-vm's stack and interpreter (`vm.hpp`, `instructions.hpp`, `bytestream.hpp`, `exception.hpp`) | code, instruction index, stack of sized elements, status | the two assemblers, `interpret`, the instructions, `vm_throw` | the stack's elements are read in place, after they have been popped |
| `include/spark/arch` | inline assembly atomics | | included by nothing |

What is hard about it: two threads that share plain variables (handshakes,
colors, the wait flag); an allocator whose lists are rearranged by every sweep;
a color whose meaning changes with every collection; indices into a buffer that
is never emptied; and a process that ends as soon as one exception is thrown on
the collector's thread.

What makes each component correct: the heap hands out space that is not in use
and gets back what it handed out; a handshake is over when all mutators have
answered; roots are marked before the trace and all that a marked object points
to before the sweep; the sweep frees what is clear and nothing else; after the toggle the survivors
are clear again; a virtual machine that waits for a collection touches no root
meanwhile, and finds its operands where it left them; free spaces and chunks
tile tiny-vm's memory; and its interpreter computes what a stack machine does.

## The modules

    Allocator <--(implements)-- BlockHeap <--(implements)-- CollectedHeap
                                    \--- HeapBlock (arithmetic) ---/
    Lists (std::list, std::sort, std::merge): used by CollectedHeap and TinyHeap
    Handshake <--(instance)-- SparkGC <--(extends)-- SimpleVM
    ColorBitmap
    TinyHeap
    StackMachine <--(implements)-- TinyVM
          \--- TinyInstructions (arithmetic) ---/

- **HeapBlock** has no state: blocks as records, addresses as offsets from
  `heapStart`, and each function of `HeapBlock` and each size test as an
  operator.  Its constants are those of `SparkGC_Shared.h`; `SizesAssumption` is
  all that is assumed of them.
- **Allocator** is the abstract specification: objects in use never overlap,
  and an object stops being in use only when the collector frees it.
- **BlockHeap** is `CollectedHeap` with its lists as sets.  `allocate` is four
  actions, one per return; `memoryFreed` is one step per swept object, between
  `MemoryFreed` (the locals) and `FinishFree` (the lists replaced), because a
  failing search stops it halfway.  The search finds the block or fails, at
  will.  `MemoryFreed` takes any set of objects: the heap must not depend on
  what the collector sweeps.
- **Lists** is what the program has the C++ library do to its lists: stable
  sort, `std::merge`, `remove_if` and `copy_if`, each a recursive function over
  positions, as is the binary search, so that the provers can expand it.
- **CollectedHeap** has the lists in order, `std::merge` on them and the binary
  search, index by index.  High is unsigned in the code; when it wraps, the
  next read is outside the vector and the model goes to `crashed`.
- **Handshake** has every load and store of the cycle's shared variables as a
  step of its own: `waitHandshake` looks at one mutator per step, the toggle is
  two stores, `handshakeCollector` is load, root marking, color, store.
  `readyCount` is kept from pass to pass as in the code, saturated at one more
  than the number of mutators, from where it can never be equal to it.
- **SparkGC** composes the handshakes (an instance of Handshake on the same
  variables) with objects, colors, pointers, roots and mark buffers.  The heap
  is abstracted to places: any free place may be handed out.  Each root that
  `markGlobalRoot` looks at and each iteration of the trace's two loops is a
  step; nothing acts after the process has ended (`crashed`).  Beyond the end of a mark buffer the code
  reads what `malloc` left there: the model chooses the place of any object
  ever constructed, or an exception that ends the process.  The collector's
  mark stack is a set, since neither its order nor duplicates change what gets
  marked.
- **ColorBitmap** has `setColor` and `getColor` bit by bit, each bit of a store
  being a load, a change and a store of the word, with the three colors that the
  program sets: blue (where the bitmaps start, and `memoryFreed`), white and black
  (`allocate`, the trace).  `raced` is a ghost: the blocks in which two calls of
  `setColor` have overlapped.
- **SimpleVM** is `examples/SimpleVM/main.cpp` on that collector, two threads:
  the machine (`Run`), whose instructions pop one operand per step into `hand`
  (C++ locals, no roots) before they allocate, and the thread of `doGCWait`
  (`Thread`), which runs `collect` and then clears the flag.  `expected` is a
  ghost: what a correct program would have on its stack, and `lost` for a root
  that was first in a mark buffer.  `gcNew`'s own collection is missing because
  no state reaches it: `allocate` throws before it returns `nullptr`
  (`GcNewFails`).  A program need not end with `HALT` (`CodeEnds`);
  `SimpleVMAssumption` leaves out those that pop an empty `std::deque`, which is
  undefined.
- **TinyHeap** is tiny-vm's heap: free spaces in the order of the code's list,
  `compress` as the loop over it that the code has, the three searches as the
  position they end at, `malloc` with and without truncation.
- **TinyInstructions** is the arithmetic of the instructions on words of `W`
  values, an even number that a byte fits in (`WordAssumption`);
  **StackMachine** is what the instructions are documented to do to a stack of
  values, **TinyVM** what the code does: the assemblers, item by item, and
  instructions that read their operands in memory behind the top of the stack
  after popping them, and write the result there.  The word behind the stack's
  memory, which an instruction with operands that are too narrow may read, is any
  of `Behind`.
- **BlockHeap_proof**, **CollectedHeap_proof**, **Handshake_proof**,
  **SparkGC_proof**, **SimpleVM_proof**, **ColorBitmap_proof**,
  **TinyVM_proof** (tiny-vm's heap and its interpreter): the theorems, with the
  inductive invariants they need.  **Iteration** has lemmas for all of them:
  induction, definitions by recursion, and what the operators of Lists return.
- **MC...**: constants for TLC.

Definitions that are commented "Mutant of ..." are wrong variants of the
definition that follows them.  Nothing uses them; substituted for the right
definition they make a property fail, which shows that the property depends on
the code it is about.

## The runs

| run | configuration | shows |
|---|---|---|
| heap_blocks | `MCBlockHeap.cfg` | tiling, disjointness, every swept object has a block, refinement of Allocator |
| heap_lists | `MCCollectedHeap.cfg` | refinement of BlockHeap, search right on sorted input, no block in two places |
| handshake | `MCHandshake.cfg` | the protocol with one mutator at a time, and that collections end |
| colors | `MCColorBitmap.cfg` | only calls of `setColor` that overlap in a block lose an update; only an object between blue and black is read in a third color |
| trace | `MCSparkGC_Trace.cfg` | marking, sweeping and colors in two collections of every small graph, and that they end |
| simple_vm | `MCSimpleVM.cfg` | every short program, with up to seven collections on one mark buffer: nothing runs beside a collection, operands keep their values, old buffer entries mark nothing, programs end |
| tiny_heap | `MCTinyHeap.cfg` | tiling, chunks that hold their request and keep their place, refusal only when no space could serve |
| tiny_vm | `MCTinyVM.cfg` | the assembler decodes its input, also where it ends too early, the interpreter implements StackMachine, the sample program ends |

Each of the others checks one sentence of the repository, and refutes it:

| run | the sentence | what happens |
|---|---|---|
| swept_block_is_found | a swept object has a block (`CollectedHeap.cpp:206`) | the merged vector is not sorted, the search misses |
| sync2_after_all | sync2 comes after all mutators are in sync1 (`SparkGC_Shared.h:92`) | one mutator is counted twice |
| color_lost_update | colors need no synchronization (`HeapManagement.md:18`) | of two threads that color two objects of a block, one loses its update |
| clear_is_garbage | what is left white is garbage (`SparkGC_Shared.h:59`) | the first root is never marked |

Other differences between the code and what is written about it need no run, a
definition states them:

- The sweep scans 1/32 of the heap, not "the whole heap" (`SparkGC.cpp:59`):
  `eachMove` counts places of 32 bytes and is added to byte addresses
  (`totalMove`, `slice`).
- "Direct children" of a black object need not be marked
  (`SparkGC_Shared.h:72`): an object a newly registered mutator creates has the
  mark color (`registrationColor`; `SparkGC_Shared.h:113` says white), and the
  next collection does not trace it.
- The write barrier shades the container and the new value
  (`SparkMutator.cpp:20-27`), where `SparkGC_Shared.h:102` asks for the old value;
  it matters only to a mutator that writes during a trace, which the repository
  does not have.
- Large objects come from the unused end of the heap only (`AllocateLarge`;
  `HeapManagement.md:14` says best fit among free blocks); a sweep puts free
  blocks it did not touch on the full list (`FinishFree`;
  `HeapManagement.md:10` says that free ranges are listed).
- The count of `waitHandshake` that ends a wait too early in sync2_after_all can
  as well jump over the number of mutators, after which the wait never ends:
  with two mutators registered (`MaxRegistered` 2 in `MCHandshake.cfg`) TLC
  refutes `CollectionEnds`.  With one neither can happen (`SerialInv`), which is
  what the run handshake shows and all it shows.
- `HeapManagement.md:18` has colors accessed without synchronization.  Even if no
  update is lost, blue and black differ in both bits, so that an object that goes
  from one to the other (`allocate` makes it black, the sweep blue) can be read as
  white, or as gray, which it never was.  `TornOnlyBlueAndBlack` excepts this
  case and says that it is the only one.
- tiny-vm's `best_fit` starts from the head of the list whether it fits or not,
  and refuses a request although another space would do
  (`BadAllocOnlyWhenFull` names the exception).
- `jump` takes 32 of the argument's 64 bits; the opcode table in tiny-vm's
  `bytecode.md` differs from the one the tests use, and `int 02` is not
  implemented.  `byte_stream::getBytes` with a count of 0 copies eight bytes,
  and `heap::size_of` reads the user's data; nothing calls either.

### Bounds

- heap_blocks, heap_lists: `ALIGN` 4, `MEDIUM` 4, `BLOCK` 12, 28 bytes of heap,
  raw sizes 4, 6 and 14: two blocks and a remainder; a small object, one that
  is not a multiple of the alignment and large with a remainder to cut off, and
  a super object.  Objects come and go without limit in heap_blocks; heap_lists
  has `MaxSweeps` 3 (a search can fail in the first sweep; later ones meet the
  blocks that earlier ones have split and moved).  The refuting run uses the
  code's sizes divided by 8.
- handshake: `Mutators` {1, 2} with one registered at a time (so mutators are
  replaced), `MaxCycles` 3.  The refuting run registers both.
- trace: three places, two of them scanned; `MaxStack` 2, `MaxPointers` 2 (chains,
  cycles, sharing); `MaxCycles` 2: the first collection of a process has
  nothing clear, the second is the first that marks and frees.
  `heapSize` 2048, `ALIGN` 32 and four slices are chosen so that the
  scanned part holds two places in different slices.
- simple_vm: all programs of at most six instructions before `HALT`, or three and
  no `HALT`, that do not pop an empty stack, and `main.cpp`'s own; its heap of 128 KB, with 14 places
  for objects; `MaxCycles` 7, one for each `COLLECT` such a program can have
  and one for `HALT`; `MaxStack` 6, `MaxPointers` 0 (a `Vec2` points to
  nothing).
- tiny_heap: a header of 2 and a memory of 20 bytes, requests of 1, 3 and 6:
  a remainder smaller than, equal to and larger than a header occurs, and so do
  three spaces with a chunk between them.
- tiny_vm: `W` 256, words of a byte (an i64 is two words), with operands of -1,
  1 and the least integers, so that sums, products and differences wrap; `Behind`
  {1, 255}; a stack of 9 words, which three i64 and their headers fill; codes of
  three pushes and two instructions, the sample program, and damaged ones.
- colors: the code's block of 128 bytes, two objects of the first block and one
  of the next; one thread colors the first two, the other the second of these and
  the third, and both read all three.  So calls meet on one object, on two objects
  of a block and on objects of different blocks.

`CHECK_DEADLOCK FALSE` is set where the process may end (an exception on the
collector's thread) or a bound is reached.

### Fairness

`FairSpec` in Handshake and SparkGC has weak fairness of the collector's steps
(once started, `collect` runs on a thread of its own) and of the answers of a
mutator (`doGCWait` calls `handshakeCollector` in a loop until the collection
is over).  Nothing makes a mutator allocate or start a collection.  SimpleVM has
two threads that run whenever they can, `Run` and `Thread`; TinyVM is one
thread that assembles or interprets.

### Assumptions about use

The modules follow SimpleVM, the example the README calls a "series collector": a
mutator that asks for a collection does nothing but answer handshakes until it
is over; mutators register and unregister between collections; nobody collects
while an unregistered mutator still has roots; one thread at a time is in the
heap.  ColorBitmap is the exception: its threads are unrestricted, the collector
and a mutator may color objects of one block at once, and its properties say
which of these meetings do harm.  In SimpleVM none of them happens: while a
collection is on only its thread sets colors, and outside one only the machine
(`WaitCoversCollection`).  (The tasks of `collectorSweep` are called one after the
other on the collector's thread.)

Plain variables that two threads share (`wait`, the handshake states, the colors)
are read and written one access at a time in one order for all threads.  For a
compiler that moves such accesses the C++ program has no defined behaviour.
SimpleVM's `NewObject` takes the lowest free place, so that the place of a freed
`Vec2` is used again at once, where the real heap keeps a block that had more than
that object in it; reuse is the harder case for `ValuesKept` and `TracePrecise`.

## What is proved

Each theorem below holds for every value of the constants that the named
assumptions allow; the runs check the same properties on small instances.  An
inductive invariant stands at the end of the module it is about (BlockHeap,
Handshake, where a module above refers to it) or in the proof module.

*BlockHeap_proof*, for all sizes that satisfy `SizesAssumption` and
`RawSizesAssumption`, so for any heap and any objects:

- `TypeCorrect`, `BlocksAlwaysTile`, `ObjectsNeverOverlap`,
  `FreeSpaceAlwaysClean`, `SweepAlwaysHasBlock`, `HeapImplementsAllocator`.

The argument is the inductive invariant `IndInv`.  Disjoint objects and clean
free space alone are not inductive: `memoryFreed` resets a block when the bytes
left and the object add up to its size, and to see that the block then holds
nothing else one must know that a block an allocation went into never has an
object behind its `current` (`UsedBlocksClean`), that each object is whole in
one block (`ObjectsHoused`), and that blocks on `newPartially` are empty
(`Separate`).  That an object is cut out by its raw size although its aligned
size was reserved is harmless for the same reason: the rest stays in a
block nothing allocates from.  Every action has a lemma; `TilesReplace` does
the work for all that replace one block by its pieces.

*CollectedHeap_proof*, from the same assumptions and for lists of any length:

- `ListsImplementBlockHeap`: each action is one of BlockHeap's on the sets of the
  lists' elements, whatever `std::merge` makes of unsorted lists and whatever the
  search makes of the outcome.
- `NoBlockInTwoLists`, `ListsTyped`.
- `SearchIsRightWhenSorted`: `searchBlock` finds the block of every swept object
  in a vector that is sorted by address.
- `SearchStaysRight`: once a sweep has split a block, and so sorted the vector, no
  later search of it misses.  With swept_block_is_found this says when
  `memoryFreed` throws: before the first split, or not at all.

The inductive invariant `HeapInv` is BlockHeap's `IndInv` on the sets, and that
each list holds its blocks once (`ListsOnce`); without that `remove` would take
more out of a list than the one block of the set.  Blocks that tile the heap are
apart, so the four lists need no clause to keep them so.  The search is a function
that calls itself on smaller ranges: `SearchExists` shows that there is such a
function, `SearchInOrder` that its range never loses the address.

*Handshake_proof*: `TypeCorrect`, for any number of mutators registered at the
same time.  `TypeInv` adds to the types that nothing is left to check outside a
wait, or registration would take a mutator away from the loop over the set, and
that no more than `MaxRegistered` are registered, which bounds the count.
Assuming `MaxRegistered <= 1` (sync2_after_all refutes the agreement for two):
`SerialHandshakeAgreed`, `SerialRootsBeforeTrace`, `SerialStatesInOrder`, for any
number of mutators one after the other and any number of collections.  The
inductive invariant `SerialInv` says that `readyCount` becomes 1 only when the mutator has answered,
and that this pass then ends the wait.

*SparkGC_proof*, assuming `MaxRegistered <= 1`, for every heap, every graph and
any number of roots and collections: `TypeCorrect`, `FreeMemoryIsBlue`,
`TraceCloses`, `TraceLosesOneRoot`, `ToggleClearsSurvivors`, `SweepSparesMarked`,
`TraceMarksNoGarbage`.  The handshake part of a step is Handshake's, so that
`SerialInv` is taken from Handshake_proof (`SameNext`, `SerialStep`).  The
inductive invariant `CollectInv` adds what ties the colors to the buffers:

- `UnreadInUse`: what a mark buffer still has to give is in use.  A root that
  is put there is clear, a clear place is not blue, and a place that is not
  blue is an object's (`BlueIsUnallocated`); the sweep, which frees objects,
  comes when all has been read (`ReadInTrace`).
- `RootsQueued`: the roots of this collection are the last entries of the
  buffer, from `base` on.  While the trace reads entry `lastRead + 2`, all from
  the second up to `lastRead + 1` are traced: hence every root but the first.
- `GrayBetween`: a clear child of a marked object is in the collector's mark
  stack.  Marking an object adds its clear children (`MarkBlackStep`); when the
  stack is empty the marked set is closed.
- `SweptColors` carries the colors through the sweep and the two stores of the
  toggle.

`TraceMarksNoGarbage` needs an invariant of its own, `MarkedReached`: all that is
marked or in the mark stack is reached from the mutators' roots or from what a
stray read had marked.  What places reach is a recursive function that adds
children once for each place there is.  `WithinSteps` unfolds it; `ReachClosed`
shows that it is closed under children, because a growing sequence of subsets of
a finite set stands still after as many steps as the set has elements.

*SimpleVM_proof*, for every set of programs that `SimpleVMAssumption` allows, and
all but the first assuming `MaxRegistered <= 1`:

- `WaitAlwaysCovers`, by `ThreadInv`, which says what the machine does while the
  thread exists.
- `VMToggleClearsSurvivors` and `VMTraceMarksNoGarbage`: each step of SimpleVM is
  one of SparkGC or the end of the process (`VMStepIsStep`), so SparkGC's
  invariants hold of it too (`VMCollectInvariant`).
- `OperandsKeepValues` and `VMTypeCorrect`, by `VMInv`, which adds to `ThreadInv`:
  - `MachineTyped`: how many operands there are is determined by the program and
    the position in it (`height`), so that no instruction lacks one; and what the
    stack holds are places where an object was constructed.
  - `RootsSafe`: during a collection, a root that the machine has looked at is
    no longer clear, or in the mark buffer behind the first entry, or
    known to be lost.  SparkGC_proof's `OthersTraced` says that the
    trace reaches all but the first entry; hence the sweep frees no operand whose
    value is expected (`SweepSparesRoots`).  `ValuesKept` alone is not inductive:
    nothing in it keeps the sweep from an operand.
- `FirstCollectionLosesNone`: until a second collection starts, every operand of
  every program has its value, with no exception for a first root.  Objects are
  created in the mark color and only the toggle makes them clear
  (`NothingClear`), so that a first collection puts no root in a mark buffer
  (`NoneLost`).
- `MainShowsItsSum`: the program of `main.cpp` shows Vec2(4, 6), for every heap
  and every interleaving.  `ExampleInv` says what is on the stack when each of its
  instructions starts, and that its `COLLECT` is the first collection.

*ColorBitmap_proof*, from `BitmapAssumption`, for any block size, any threads and
any objects:

- `TypeCorrect`: in particular, every color that is read is one of the four.
- `NoUpdateIsLost` (`OnlyOverlapsLose`): until two calls of `setColor` overlap in
  its block, an object that nobody is coloring has the color it was last given.
  The condition is about the block's history, not about who uses it: threads may
  color objects of the same block one after the other.  color_lost_update shows
  what one overlap does.
- `ReadsAreRegular` (`TornOnlyBlueAndBlack`): under the same condition a read
  returns a color that the object had or was being given during the call, or the
  object met both blue and black in that time.

The inductive invariant `BitmapInv` says of a block that is not raced that one
thread at a time is in `setColor` there (`OneWriterPerWord`), so that a word that
was loaded is still the one in the bitmap (`LoadedIsCurrent`); of each bit, whether
it belongs to the color before or to the one being set (`BitsOwned`); and that a
reader has seen every color whose bits it may have met (`ReaderHasSeen`).  What it
returns has its low bit from one of these and its high bit from another; of the
colors 0, 1 and 3 only 0 and 3 combine to a color that is neither.

*TinyVM_proof*, first part, from `TinyHeapAssumption`, for any memory, header and requests:
`TinyHeapTyped`, `SpacesAlwaysTile`, `ChunksAreLargeEnough`, `RefusedOnlyWhenFull`,
`HandedOutStays`.  The inductive invariant `HeapInv` is about one heap record
(`sound`), since a failed `malloc` compresses and tries again within one action.
`tiled` is `SpacesTile` in the form that induction needs: spaces in use or free end
where others begin.  `compress` is a loop over the sorted list with its own
invariant (`walked`); that no two free spaces are neighbours when it is done
(`compacted`) is why a refused request fits in no gap (`NoRoom`).

*TinyVM_proof*, second part, from `CodesAssumption` and `WordAssumption`, for any
such words, any stack, any set of codes, and whatever is behind the stack:

- `ElementsAreWhole` (`VMTypeOK`): from the stack pointer, header by header, there
  are whole elements up to the limit of the memory.
- `AssemblyIsTheCode`: what is assembled is what was read, the code and, where a
  file ends within an operand, ones.
- `InterpreterIsMachine`: TinyVM implements StackMachine.

The inductive invariant is `VMInv`, the type invariant and that `m_pc` is 0 until
the assembler is done.  The argument is about memory.  `chained` says that a set of
addresses is closed under "the header after this one"; a push adds an address to
it, a pop takes the lowest away (`ChainPush`, `ChainTop`).  The elements are a
recursive function of the memory, which `ContentsIs` shows to be determined by the
chain and `ContentsAgree` to depend on no word below the stack pointer.  An
instruction stores its result in the element that was on top and has been popped,
writes the header of the new element and copies the result there.  If both
operands have the operation's width the new element starts right behind the stored
result, so that neither the header nor the copy destroys it before it is read
(`Copied`, `ResultWritten`); if not, the result may be anything, but two popped
elements are at least as large as all that is stored, so nothing at or above their
end changes.  The
words that operands occupy with their headers are those between the stack pointer
and the limit (`UsedByChain`), so that both levels overflow together.  For the
assembler, `CellsAppended` and `NonzeroJoined` add one instruction's cells to the
cells of the others; opcodes differ (`OpcodesDiffer`), so that an instruction
determines the cell it came from.

*Iteration*: `LeastNumber`, `Induction` (with the set of numbers the hypothesis holds
of in the place of an operator), `RecursionWithin` and `Recursion` (the function
that a recursive definition describes exists), `Tabulation` (the same for a
definition that refers to any earlier values), from well-founded induction; then
`those`, `insert`, `sorted` and `merge` of Lists.

## What is only model-checked, and why

- Liveness (`CollectionEnds`, `RunEnds`, `CountdownEnds`): fairness is beyond the
  prover.
- Nothing else of the passing runs.  With several mutators registered at once only
  type correctness of Handshake is proved: the agreement that the other properties
  of Handshake and SparkGC rest on is refuted there (sync2_after_all).

## What is not modelled

- A mutator that runs, writes or allocates during a collection.  No program of
  the repository has one: SimpleVM waits, and its objects have no pointers.  The
  write barrier (`SparkMutator::write`) is modelled between collections, where
  it shades nothing.
- Two threads inside the heap at once, for the same reason.
- Weak references (a TODO in the code); `dumpHeap` and the printing of SimpleVM
  and tiny-vm; the operations of tiny-vm's `byte_stream` that nothing calls, its
  listeners and object allocators; `arch`, which nothing includes.

## Plan

Done: HeapBlock, Allocator, BlockHeap and CollectedHeap; Handshake, SparkGC and
SimpleVM; ColorBitmap; TinyHeap, StackMachine and TinyVM; and proofs of every
invariant and action property that the passing runs check.  What the repository
has no use of yet, and a model should have before it does:

1. A concurrent mutator on SparkGC: the write barrier as the code has it during
   a trace, allocation during the sweep, with what `SparkGC_Shared.h` says of
   the old value and of the colors.
2. Two threads in the heap: allocation step by step against `memoryFreed` and
   against another allocation.
