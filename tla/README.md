# Verification of nanogo

nanogo is a Go compiler written in Go. It is a pipeline: a package is
loaded, parsed, type-checked, lowered through three representations, given
registers, emitted as machine code, written as an object file and linked. The
pipeline is sequential; what is hard in it is not so much concurrency as loops
that must reach a fixed point, moves that happen at one instant and are made one
after another, tables that several passes keep consistent without saying so, and
a generated program whose registers and slots must hold what three passes agreed
on. Concurrency is real where a file table is shared by parallel parsers, and in
the generated code, which runs beside the collector.

This directory holds TLA+ models of parts of it, checked by TLC on small
instances, and proofs checked by TLAPS for every instance. `PROJECT.json` is the
index: the components, the runs, a mutation of the code's behaviour that each
property detects, the source lines each definition stands for, the hazards, the
findings and the theorems. To repeat a check:

    tlc -config FileSet.cfg MCFileSet        (and likewise every row of "Runs")
    tlapm FileSet_proofs.tla                 (and likewise every *_proofs.tla)

## The system

| component | state it keeps | operations | what makes it correct |
|---|---|---|---|
| source positions, `syntax/pos.go` | next free position, published slice of files, mutex | AddFile, SrcFile, Position | a position belongs to one file and resolves to it, while files are being added |
| lexer, parser, `syntax` | a token, a tree | next, one method a production | accepts the language |
| type checker, `types2` | a fork of the upstream checker: objects, delayed actions, an instance context | check, instantiate | upstream's |
| IR, `ir` | a tree per function | build, lower, range-over-func rewriting | same meaning |
| escape analysis, `escape` | for each parameter: flows (counts of dereferences) to variables and results, a leak flag | Params, analyse, node, store, ret | a note never promises a caller more than the body keeps |
| SSA, `ssa` | blocks, values, memory threads | Braun construction, Decompose, AssignABI, Lower, WriteBarriers, SplitCriticalEdges | same meaning, dominance, one memory live at a time |
| register allocation, `ssa/regalloc.go` | linearisation, live sets, ranges, homes, slots, operand registers, copies | Allocate, VerifyAllocation, ParallelCopy | a value is in its home whenever it is read; a collector finds pointers in their slots |
| stack maps, `ssa/liveness.go`, `stackmap.go`, `frame.go` | live pointers at each call, frame layout | per function | exactly the pointers that may be read again, all initialised |
| code generation, `ssagen` | an instruction buffer, fixups, pc tables | one function a value kind; moves | the moves of one instant, prologue, preemption ranges |
| object files, `obj`; export data, `export` | byte buffers and tables | write, lazy read | what the reference toolchain reads back |
| linker, `link` | a global symbol table, marks, initialisation lists, addresses | Load, InitTasks, Deadcode, layout | what the program uses is kept, nothing else; a symbol is at one address |
| driver and loader, `driver`, `loader` | a build graph, an import graph | compile, build | a package is built after what it imports |
| distribution, `dist`; runtime tables, `rtype`, `rtsym` | files; tables | build; lookup | versions agree; layout is the runtime's |
| tools, `internal/audit`, `gotest`, `selfhost` | verdicts by probe | run probes concurrently | a verdict is the probe's own, whatever finishes first |

**How they meet.** `driver/compile.go` calls the passes in order: Decompose,
AssignABI, Lower, WriteBarriers, SplitCriticalEdges, Allocate, and then ssagen.
Every pass reads and rewrites the one `ssa.Func`; nothing is passed by message.
The allocator hands ssagen an `Alloc` record (homes, slots, operand registers,
edge copies), and ssagen trusts it. ssagen and obj meet in the object's
relocations, which the linker's reachability pass reads. Parsers of different
files meet in the FileSet only. `link` calls Load, InitTasks, Deadcode, layout in
that order and never goes back.

**What is hard.** (1) AddFile and SrcFile at every memory access. (2) A scan
whose every step reads intervals closed at one end in some cases and open in
others, so that two values may share a register exactly when neither is needed.
(3) Moves that happen at once, made one by one, in two places (ParallelCopy and
ssagen's transfer) with different scratch registers and different stages.
(4) Critical edges, where a block inserted in the wrong slot gives a phi another
edge's value. (5) Fixed points that stop on a change flag: liveness, and the
alternation of flood and rounds in the linker. (6) Values read twice, walked
twice, or found again after a mark was taken back. (7) Generated code against the
collector, the stack copier and preemption: what is in a register, a slot or an
argument word at each instruction, against five tables that are each built
somewhere else. (8) Construction on the fly: a phi placed before it is
known what its block is reached from, and taken back when it turns out trivial.
(9) A block cut in two after the phis of its successors were made. (10) A promise
about a pointer that a flow found late, round a loop, takes back.

The hazards of `PROJECT.json` name each of these at its line, with the properties
that would see it go wrong, or the reason none does yet.

## The modules

```
PosTable   <- FileSet      <- FileSet_proofs,      MCFileSet
AtomicCopy <- ParallelCopy <- ParallelCopy_proofs, MCParallelCopy
AtomicCopy <- Transfer     <- Transfer_proofs,     MCTransfer
              LinearScan   <- MCLinearScan
      Deadcode, Loader     <- Link <- MCDeadcode,    Deadcode_proofs

SSAFunc     <- RegLiveness
SSAFunc     <- RegAnalysis <- LinearScan
LinearScan, RegLiveness, SSAMachine <- AllocRun <- AllocVerifier <- MCAllocRun
                                                   AllocVerifier <- RegAnalysis_proofs <- AllocRun_proofs

RegAnalysis <- Construction
RegAnalysis <- Dominators <- Decompose <- Lower
RegLiveness, Construction, Lower, Escape <- ConstructRun <- MCConstructRun

SSAFunc <- WriteBarrier
SSAFunc <- Frame <- StackMap
StackMap, WriteBarrier, GrowthCheck, RegAnalysis <- Emission <- Collector <- MCCollector
                                                               Collector <- Collector_proofs

Induction <- Deadcode_proofs, ParallelCopy_proofs, RegAnalysis_proofs, Collector_proofs
```

An arrow from left to right is EXTENDS or, for PosTable, AtomicCopy and SSAMachine,
INSTANCE with a refinement mapping. AllocRun extends the loop of liveness and the
scan: their variables are the allocator's own.

**PosTable** promises a table whose two operations take one step each. **FileSet**
is `syntax.FileSet`: a goroutine that adds a file locks, reserves, copies the
slice, publishes it by an atomic store and unlocks (one action a memory access);
one that resolves a position loads the slice and then searches it. The bisection
of sort.Search is modelled by what it returns. State: `mu`, `base`, `files` are
the struct's fields; `pc`, `file`, `next`, `snap`, `pos` the goroutines' local
variables; `returned` and `answer` what callers have been given.

**LinearScan** is `regAnalysis.scan` with freesAt, conflicts, nextUse and the
pre-colouring. One action is one visit, with the expiry that precedes it. The
input is any analysis record that satisfies `WellFormed`. `home`, `fixed`,
`owner` and `active` are the code's regOf, fixed, regOwner and active.

**AtomicCopy** promises that a set of copies happens at one instant.
**ParallelCopy** is the function of that name: sweeps that emit every copy whose
destination nobody still reads, and a temporary for a cycle. **Transfer** is
ssagen's own ordering of moves: out of registers, a permutation of each register
file, then into registers. Both keep in `mem` what the machine would hold after
the moves made so far, each value named by where it was at the start.

**SSAFunc** is the part of `ssa.Func` that the back end reads, with
SplitCriticalEdges and the definition of liveness by paths. **RegLiveness** is the backward iteration over the reverse
postorder, one action a block. **RegAnalysis** has the linearisation, the ranges,
the safepoints and slot sharing, as operators. **SSAMachine** is what a function
means: values in order, phis at once on an edge, and calls, branches and returns
observed with the operands they read. **AllocRun** composes them: it splits,
runs the liveness loop and the scan step by step, gives slots, names operands,
and then executes the code that ssagen emits (argument entry, operands through
scratch registers, calls that destroy every register, result moves, edge copies)
in step with SSAMachine. `Compilable` is what it may be given: the clauses of
`Verify` that the back end relies on (one place for a value, a slot for every edge,
an entry nothing leads to, phis first and with an operand for each edge, nothing
read that was not computed on the way), what the builder and the convention place
(arguments in the entry, each register argument in a register of its own, the
results of a call straight after it, a branch last, as many result registers as a
call has results, as many scratch registers as an instruction has operands, which
`TestArm64ScratchCoversTheOperationTable` holds the target to), and positions enough
to number it. **AllocVerifier** puts `VerifyAllocation` between the
two: one operator for each invariant the code reports under, the replay of an
edge's copies over a machine of named values among them. The allocation that is
checked is the allocator's own or any other that the run supplies, and the code
runs only if nothing is reported, so that `LiveHomes` and `RunsAsMeant` are what
the check is worth.

**Construction** is `ssa/build.go`: the walk over statements (if, for, switch
with tags and fallthrough, labels, goto, break, continue, short circuits, calls,
divides, indexes, loads and stores through pointers and globals with their nil
checks, returns) and Braun's algorithm under it: open blocks and their
incomplete phis, sealing, phis that are trivial and the users that become trivial
with them, blocks that nothing reaches. A program is a tree; an operator takes a
builder and a node to the builder after it, as the methods do. **Dominators** is
the iteration of `dom.go` and the verifier's clauses about structure, dominance
and memory. **Decompose** puts a call where two strings are compared and repairs
the chain of memory states by rounds; **Lower** cuts a block at a bounds check or
a divide, moves its edges to the continuation, leaves the pointer of a nil check to
its readers, and drops what nothing reads. **Escape** is the walk of
`escape/escape.go` for one parameter over the same tree: how many dereferences
from it each variable and result may be, whether it leaked, again until a round
finds nothing, and then the results the note names or the note that promises
nothing.
**ConstructRun** then finds the liveness by RegLiveness, and runs the program
(the tree, by a walk that knows variables only) and the function (blocks, phis,
live-ins only) in lockstep: the same calls, tests, panics and return with the
same bits, and the same heap. Where the variables are pointers each parameter is nil
or an object of its own, so that the run can tell where it went; the notes are made
when it starts.

**Frame** is the frame's items, their order and their offsets, as `frame.go` and
the prologue's `layout` make them. **WriteBarrier** is the pass that builds a
diamond over the flag for each pointer store that needs one, with the order of
blocks. **StackMap** is the liveness of slots and frame objects, the bitmaps at
calls, the objects table and the lookup by program counter. **GrowthCheck** is
the prologue's comparison in words that wrap. **Emission** lays the code of a
function out, one program counter for each thing the code does (checks, moves of
arguments, operations, calls, results, copies, jumps, prologue, epilogue and the
tail that grows the stack), and collects the rows of the stack pointer, the
unsafe ranges and the indices of maps while it does so. **Collector** runs that
code: a goroutine executes it with its registers and its frame; a callee may
grow and copy the stack, store through its argument or return; another goroutine
follows the list the function works on; and a concurrent collector with the
hybrid barrier stops the goroutine where the tables allow it, scans by the tables,
marks and frees. `WellFormed` (in Emission) is the shape of a function the
generator hands over, and an assumption on the constant `Programs`: the blocks are
all in the layout, at most two ways out of each and none of one that returns,
objects as large as their pointer words need. What the runtime does is external, and it reads the function's
frame by nothing but the tables.

**Deadcode** is `Loader.InitTasks` and `Loader.Deadcode`. The initialisation
lists are built first (`Schedule`, `Listed`); then the roots; then the flood,
which pops a symbol and takes one action for each relocation, auxiliary entry
and method (`Steps` lists them in the code's order); then the rounds over the
methods that wait (`Judge`), back to the flood if a round kept something, and
`Cleanup`. The three relocations of a method are one record. What objects say is
the record `prog`; decoding a descriptor is the data `sig`, `itabType`,
`decoded`.

**Loader** is the symbol table that `Loader.Load` builds: pure operators that pass
the table along, one for each function (`AddHashed` and `AddNamed` are the two
halves of `addSym`), folded over the objects in `LoadAll` in the order of the
code, definitions of packages first. **Link** puts it in front of Deadcode: `prog`
is what the loader makes of the objects `objs`. `objs` never changes, because
every object is added before Load runs. `WellMade` says what objects there are:
those that `Package.check` lets pass (`Checked`: the references exist, and a symbol
that tolerates others belongs to no package), and what the compiler sees to and
nothing checks: what is referred to has a name, a package defines a name once, and
two definitions between which only the size decides are alike if the sizes are.

The `*_Something` operators beside a definition are mutants: the way a plausible
mistake would change it. They are used only to show that a property can fail.

## Runs

| run | what it explores | bounds, and why they suffice |
|---|---|---|
| fileset | two goroutines add files, one resolves | sizes -1 (clipped), 0 and 2, two calls each: the empty file, the position past the end, a snapshot up to four files old |
| linearscan | every choice of interval ends of four values over two allocatable registers, with shapes for calls, pre-colouring, two-address results, phis, unread values, a use nearer than the end | four values is one more than any single decision relates (the value, a victim, a third that decides which); two registers give pressure with three live values; one register outside the allocatable set makes the refusals happen |
| parallelcopy | every set of up to four copies between five locations, of one class or two, recomputed sources included, and two malformed inputs | a three-cycle beside a chain and two two-cycles fit in four copies |
| transfer | up to four moves among three integer registers, two floating ones and a slot | a cycle in each file with a stage on either side |
| construct | about a thousand programs of three variables in five families (a labelled loop with something in its middle, jumps between labels and into a loop of labels, a switch in a loop, nested loops, a loop that is never left), 200 programs of five pointers (a loop in which a variable is handed on, to a global, an object, a callee or a result, before it is given what the next round hands on), and every graph of four blocks with at most two successors, irreducible and with double edges, with a definition, a use and a phi in every place | 8,838 initial states and 159,316 in all; three variables are what a swap round a loop takes; values are bits, enough for two values to differ; four blocks hold a nested and an irreducible loop, so that the fixed points need a second round; two pointer parameters and two results let a note name one and not the other |
| allocrun | five families of functions (straight line with a call of two results, a diamond, one arm, two loops), with the allocator's answer; for four functions also every assignment of homes and every answer with one fault (a home, an operand, a slot list, a copy dropped, added, moved or reordered) | two allocatable registers, so that almost every value meets pressure; at most four edges (`MaxEdges`) go round a loop twice |
| stackargs | an argument of three words on the stack, of which some are read, before a register argument | three functions; the finding below |
| deadcode | 2160 programs of nineteen symbols: entry code, a function, two types that may refer to each other, an itab, methods, reflection, a descriptor that does not decode, initialisation records | two types are what a late attribute, a cycle and a repeated walk need; a method that makes another callable forces a second and a third round. And 544 programs of three objects, of three packages or of two, that define and refer to one name in ten ways (in a package, outside, with and without content, of two sizes, tolerant, as text, of the other ABI, not at all), with data of two sizes merged by hash: three definitions are the least where the order of two merges matters |
| deadcodechain | the same programs | the finding below |
| collector | twelve functions that keep what only they can reach in a register, a slot, a frame object, their caller's frame or a global while the list it came from changes, each compiled in both ways; entered with room, with almost none, or asked to stop | a list of two and a third object that is born (`Heap`); one collection; one growth by a callee (`MaxGen` = 1) besides the prologue's (`GrowBy` = 32 bytes); words of two bytes (`PtrSize`), 128 addresses (`Space`), so that a frame can be larger than the stack pointer; a buffer of one barrier (`BufSize` = 2), so that it is full and flushed; two further objects of any of four shapes in every frame for `FramePlaced` |
| preempted | the same with asynchronous preemption inside a barrier | the finding below |
| frameaddress | one function that takes a frame address above a call and uses it below | the finding below |

What the properties say is written above each of them in the modules. In short:

* `AppendOnly`, `AnswersOwner`, `LookupsAnswered`, and FileSet refines PosTable
  (`TableSpec`).
* `NoSharedRegister`: no two values whose ranges meet share a register.
  `SpillsOnlyUnderPressure` and `EvictionsPay`: a value leaves the registers only
  if it must, for a nearer use. `Ends`.
* `Economical`: n moves and one for each cycle. `NeverFails`: the two "no order"
  errors are unreachable. `AtomicSpec`: refinement of AtomicCopy.
* `RunsAlike`: the function that was built, decomposed and lowered does what the
  program does, over every answer of its calls and tests, carrying over an edge
  only what liveness found. `VerifierAccepts`: it passes the verifier after
  decomposition and after lowering; a phi of memory is missing only at a join below
  which nothing reads memory and nothing returns. `MinimalPhis`: no trivial phi survives.
  `DominatorsExact`, `LivenessFound`: the two iterations give what paths define.
  `ChainRepaired`: on a graph whose loads and stores all read the entry's memory,
  the repair leaves one chain the verifier accepts. `NotesHold`: on every path of
  the program, a pointer parameter whose note promises so is stored nowhere, not
  written through, given to no callee, and returned only where the note says.
  `Settles`.
* `LiveHomes`: at every point of the execution every live value is where the
  allocation says. `RunsAsMeant`: the machine refines SSAMachine. Both are said of
  whatever allocation the verifier accepts. `AcceptsItsOwn`: the allocator's own is
  always accepted. `HandsOverWellFormed`: what the analysis hands the scan is what
  the scan relies on. `ArrivalsApart`: the refusal in entryArgs is unreachable for
  these functions.
* `KeepsWhatIsUsed` and `KeepsExactly`: the linker keeps the least set that rules
  without any order call for. `ListsExact`, `CountExact`, `CallsLand`, `Ends`.
* `OneMeaning`: for every order of the objects that keeps those of one archive in
  theirs, the loader reports a conflict or not; if not, every reference means the
  same symbol with the same definition. Which of two alike definitions is taken
  is left open, and so is the name of what merged by hash, as the comment of
  `LoadProgram` (`link/loader.go:604-611`) says.
* `NoDangling`: nothing that the function, its callee or the other goroutine may
  still read was freed, and no register lost its word. `NoStaleStack`: no address
  of a stack that was moved is in use. `MapHonest`: a word the maps describe holds
  nil, a valid pointer or an address in the stack as it is, never what an earlier
  use left there. `FramePlaced`: items are aligned, apart, inside the frame and
  where bitmaps can describe them. `Unwinds`: the stack pointer row of the return
  address is the frame's size, also after a call that does not return.
  `RoomBelow`: a frame is pushed only where there is room. `Ends`: the growth
  check is passed in the end, and a collection ends.

### Fairness

The passes are loops of one sequential goroutine that nothing blocks: weak
fairness of the next-state relation says that it is run, and every liveness
property of them is about termination; in the construct run only the rounds of
the liveness loop are fair, since only they are to end. In FileSet fairness is
given to the readers alone, one by one: nothing obliges an adder that holds the
mutex to be scheduled, and `LookupsAnswered` holds all the same because a lookup
takes no lock. In Collector a goroutine that runs is scheduled again and again
(`Scheduled`), a callee returns if it can, and a collection that was started is
worked on; nothing obliges a collection to start, a callee to grow the stack or
the other goroutine to go on. Safety properties are stated of specifications
without fairness wherever no liveness is claimed (AllocRun).

Runs of sequential passes say `CHECK_DEADLOCK FALSE` where the pass stops for
good, which each of them does; so does a function that has returned or panicked.

## Findings

* **stackargs** (`SecondReadAfterFirstDead`). `loadArg` in `ssagen.go` says that
  two arguments may share a home because the second is read after the first is
  dead. A stack-assigned parameter word that no instruction reads keeps its
  OpArg and may be given the register that a later register argument already
  waits in; the load of the unread word destroys it.
* **deadcodechain** (`ChainNamesCause`). `ReachedBy` promises the symbol that
  *first* reached a symbol, and a chain that names a cause. A type that is walked
  again is given its second parent, and in a cycle of types the chain then goes
  round for ever. What is kept is right; the diagnostic is not.
* **preempted** (`NoDangling`). The flag that says a collection is running is
  loaded, tested, and then the store is made; nothing marks these instructions as
  a place where asynchronous preemption must not stop. A collection that starts
  between the load and the store misses the pointer the store overwrites.
* **frameaddress** (`NoDangling`). The liveness of a frame object ends at the last
  value that *takes* its address, on the ground that the address is itself a value
  in a slot; but an address is rematerialised and has no slot, so that an object
  used below a call through an address taken above it is not in the call's map.

All are quoted with their lines in `PROJECT.json`.

Smaller disagreements that were met on the way, and have no run:

* A function in which two memory states join above an endless loop that touches
  no memory (`if c { f() }; for {}`) is refused: construction places a phi of
  memory where memory is read (`ssa/build.go:532-566`), though its head says that
  every join has one (`ssa/build.go:33-36`), and the verifier asks for one at every
  join (`ssa/verify.go:588-612`); the repair runs only if decomposition added a
  call (`ssa/decompose.go:1883-1890`). `VerifierAccepts` says that construction and
  the verifier disagree of no other function, over programs that have such a loop.
* `specs/035` (lines 93-99, 225) says that the prologue is not marked unsafe; the
  code marks everything up to its end (`ssagen/ssagen.go:562`,
  `ssa/stackmap.go:506`), and Emission follows the code.
* `verifyEdges` looks a copy entry up by its slot among the successor's
  predecessors (`ssa/regalloc.go:1783-1795`), the generator by block
  (`ssagen/ssagen.go:1640-1648`): an entry with a slot out of range is not
  looked at and is not emitted either.
* `cut` counts the edges of a block to one successor while it overwrites them
  (`ssa/lower.go:763-780`): of two edges to the same block it would find one.
  Construction makes no double edges.
* The repair of the memory chain may leave a phi of memory that merges one state
  with itself, in nested loops. It is harmless.

## Proofs

Each `*_proofs` module extends the module it is about. The constants are any that
satisfy the module's ASSUME; nothing else is assumed, apart from the library's
facts about finite sets and sequences, which are cited by name. The properties
the theorems state are checked by the runs as well.

**Induction** has what the other proofs need to reason about recursion. The
library's induction theorems take an operator as a parameter, which the provers
cannot instantiate; stated of a set instead (a set of numbers that holds 0 and the
successor of each of its elements holds every number, `NumberInduction`; the same
for finite sets, `SetInduction`) they can be cited with any set defined by a
comprehension. From them: a function that is defined by recursion over numbers
exists and satisfies its equation (`IterationExists`), so does a fold over a finite
set (`FoldExists`), a growing iteration over the subsets of a finite set has settled
at the least fixed point after as many rounds as the set has elements
(`IterationSettles`), and a set of numbers has a least and a greatest one. RECURSIVE
operators stay out of reach, so what the proofs speak of is written with recursive
functions and folds.

**FileSet_proofs** (any number of goroutines, calls and sizes). The inductive
invariant `IInv` says that only the holder of the mutex is inside AddFile
(`Exclusive`), that the published files lie one after the other below `base`
(`Sorted`), that the file being added lies after all of them and what will be
published is the current slice and that file (`Adding`), and that a reader's
snapshot is a prefix of what is published which holds the file its position
belongs to (`Reading`). The last is the heart: the slice a reader holds may be
old, and its answer is right only because the file was published before the
position was returned. From it follow disjoint ranges, the answers, and, step by
step, the refinement of PosTable, where AddFile takes effect at the atomic store
and SrcFile when its search ends.

**ParallelCopy_proofs** (any set of copies between any locations, cycles of any
number and length, recomputed sources). `NothingLost` says of every pending copy
that it still finds its value; the invariant adds that the copies are well formed
once they are accepted and that a sweep which has emitted nothing has met only
blocked copies (`Swept`). The step that needs an argument is the breaking of a
cycle, where the temporary must be free: if every destination left is read by
another copy left, sending a copy to a reader of its destination is an injection
of the copies left into themselves, hence onto, so every source left is a
destination and none is a temporary (`OnlyCycles`). That also gives `NeverFails`.
In the refinement the last step, `Finish`, is the one step of AtomicCopy.

`Economical` counts. The invariant `Paid` says that the moves made are the copies
emitted and one for each cycle that was broken (`Broken`: the cycles not all of
whose copies are left as they were). A step that emits a copy breaks nothing: the
copy is not blocked, so it is in no whole cycle. A step that takes a temporary does
break one, and only one, because the copies left form cycles only and the cycle of
the copy it takes was whole. When nothing is left every cycle was broken.

**Transfer_proofs** says the same of ssagen's ordering. Between its stages the
argument is about who writes what: a move out of registers writes a slot, a
permutation the registers and the scratch register of its file (`Phase`).

**RegAnalysis_proofs** is about the allocator up to the scan, in three parts.

The scan (any number of values and registers, any analysis record that is
`WellFormed`). `NoSharedRegister` is not inductive: a value that lost its
register to an expiry keeps its home, and only the order of the visits says that
no later value meets it. `ScanIInv` adds that order (`Ordered`), what it implies for
the values given up (`Retired`), the agreement of table and homes (`BooksAgree`),
that a value not yet visited has no home, and what pre-colouring established
(`FixedApart`, `FixedHome`, `Unreserved`). `EvictionsPay` is an action property
from the same invariant. `SpillsOnlyUnderPressure` needs another one, `PInv`: while
nothing is pre-coloured, a value that is in the frame has a crowd (`Crowd`: a set of
values of its class, larger than the registers of the class, that all conflict with
each other), because when it was sent there every register was held by an active
value, the active values overlap the visited one at its start, and so each other.

Liveness (any function, any order that has every block; the run that
checks the loop is construct). The change flag is the point: as long as no live-in
set grew in this round, every block already visited in it is closed
(`VisitedClosed`), so that a round that ends with the flag down leaves sets that
hold all the equations ask for. `LivenessIsExact` compares them with the definition
by paths (a value is live into a block if some path from there reads it before it
writes it), in both directions: no visit adds a value that no path asks for, which
is kept by every visit; and at the fixed point the blocks which a value is not live
into, although a path without a write of it reaches them, hold every block such a
path goes on to, so that none of them reads it.

What the analysis hands the scan (any function that is `Compilable`, any number
of blocks and values). `AnalysisHandsOver` gives `HandsOverWellFormed`, which the
theorems about the scan assume. Its invariant `AllocIInv` says of each stage what
the ones before it made. Splitting leaves every edge as it was or puts one block on
it that has its slot (`SplitFrom`, kept edge by edge: a slot is a count of the
equal edges before it, and splitting one of two equal edges shifts the count of the
other), and the function stays `Ready`. The walk keeps a path to the top of its
stack and leaves no block behind with a successor unseen, so that it lays out every
block once (`IsLayout`), and the running sums of the rows number the values without
a gap. The sets of the loop are exact where it stopped. A value is live only after it
stands, in the order of the walk, because it dominates what it reaches
(`LiveAtStart` of the entry is empty); so a range is an interval from the first
write to the last read, and no other interval starts where a value that may take
over its operands' registers is written.

**AllocRun_proofs** is about the run, for any allocation at all that passes
`VerifyAllocation`, the allocator's answer or another, and any function that is
`Compilable`. Two theorems: every live value is where the allocation says
(`LiveValuesAreHome`, that is `LiveHomes`), and the machine implements the function
as it was built, split or not (`CodeImplementsMeaning`, that is the refinement
`RunsAsMeant`). A third, `OwnAnswerAccepted`, says that the allocator's own answer is
such an allocation, and a fourth, `ArrivalsStayApart`, is about the arguments that
arrive in registers; they are below. Neither of the first two is inductive by itself: `LiveHomes` says nothing in the
middle of an entry or on a split edge, and nothing of what a later instruction will
read. `RunIInv` says at every point what each place has to hold: where a value is
about to be computed, all that is live there and what its phis and arguments have
become (`RunningIn`: `HomedIn`, `WaitingIn`); on a block an edge was split with,
what crosses the edge, a phi's operand in place of the phi until the copies are
made (`Crosses`). What a step needs is that the place it writes holds nothing that
is still wanted:

* two values that are live at one point do not have one home (`HomesApart`), from
  the check of overlaps for registers, and from the sharing rule for slots, through
  what the ranges are;
* a value that is live across a call is not in a register (`AcrossInFrame`);
* operands that are read into scratch registers are read into different ones;
* the moves of one instant change each destination once (`PutGives`, `Transfer`);
* on an edge the copies run one after the other are what the replay found them to
  be (`ReplayRuns`, `CopyHolds`): the replay names values, the machine holds results,
  and the one follows the other copy by copy.

The three things `VerifyAllocation` takes for granted (`IsAllocation`) are
assumptions of both theorems about the answers that are tried, and each is needed:
an entry for a slot its block does not have is not looked at and is emitted all the
same; nor is a recomputed operand's copy asked whether the value is one that can be
recomputed; nor a copy that goes through the second scratch register whether the
register is wanted. Allocate writes none of the three.

`OwnAnswerAccepted` (`AcceptsItsOwn`) is that the allocator never fails its own
check: whatever the function, none of the eight kinds of broken invariant is found in
what the scan, the slots, the operands and the copies come to. The invariant is what
Slots wrote (`Answered`) and what the scan left (`Scanned`: every value has a home,
none that is live across a call is in a register, the homes of values that meet
differ). From it, check by check:

* slots: giving each value the first slot that takes it leaves a table in which every
  spilled value has one slot and shares it only with values it may (`AssignSlotsOK`);
* operands: the values that are materialised before an operand are fewer than the
  scratch registers, and two different ones find different numbers of them
  (`EarlierFacts`);
* edges: two phis of a block that has an edge into it, and two values that arrive on
  one edge, have two homes, because a phi is written at the ends of the predecessors
  too (`PhisDiffer`, `ArgsDiffer`); so the copies of an edge are one parallel
  assignment (`EdgeParallel`);
* the order of the copies: at every step what is left to make is a parallel
  assignment that goes on from where the copies made so far have come (`Tracks`), and
  when every copy waits for another they go round, so that one source saved lets one
  copy be made. A copy costs two steps at the most, one when something is ready
  (`Budget`), so the sequence is complete (`SequenceGives`). What it leaves is the
  result of all of them at once, which is what the replay asks for (`OwnReplay`);
* the table of the edges has one entry for an edge with copies, where the edge has a
  place for it, because no edge is critical (`OwnPlaces`).

With `LiveValuesAreHome` this closes the circle: what Allocate makes is let through,
and what is let through runs as the function means. The assumption it rests on beside
those of the model's constants is `ReportAssumption`: no report is `Pending`, the
value that stands for a check not yet made.

`ArrivalsStayApart` (`ArrivalsApart`) is that entryArgs' refusal of two arguments with
one home is out of reach unless an argument is not where the scan put it. Two that kept
the registers they arrived in have different ones. Two in the frame are the hard
case. The ranges of register arguments all begin before anything else stands, so it
is enough that each of the two goes on past the row of them. One that is live across a
call does. The others were in their registers until the scan took them out, and it
does that only for a value whose register is not fixed and which starts while the
argument is still to end (`Displaced`, kept by every visit). Ranges that go on past
each other's beginnings do not share a slot.

**Deadcode_proofs** (any program that satisfies `IsProgram`: any number of
symbols, types that refer to each other in any way, any methods). Three
invariants, each resting on the ones before it.

* `Ledger`: types; the count, the parents and the queue agree with the marks; a
  walk with the attribute is of a type that has it; a waiting method is one of a
  kept type that reached an interface, and descends from a relocation of it.
* `Cover`: every kept symbol is queued, or is being walked, or has nothing left
  to do (`Walked`). A step of a walk is `Done` when what it asks for is there,
  and a method counts as done while it waits. Done is only of use if it stays so:
  facts only grow (`More`), and a walked symbol can lose `Walked` only by getting
  the attribute, in which case it is queued again. The walk in progress is
  covered up to its program counter, unless the attribute arrives under it; then
  it too is queued. At the cleanup the queue is empty and no waiting method can be
  called, which is `KeepsWhatIsUsed`.
* `NoMore`: the facts are within every closed set of facts. It is proved from the
  rules by one case for each action, and gives `KeepsOnlyWhatIsUsed`.

Together they say that the pass computes the least set of facts that is closed
under `CallsFor`, which mentions no order, no queue and no round: the result does
not depend on the order in which the loader numbers symbols or the flood pops
them. `KeepsExactly` says it of `Needed`, which computes that set by iteration from
nothing: the iteration has settled after as many rounds as there are facts
(`IterationSettles`, with facts told as elements of one set, `Telling`), its result
is closed and below every closed set, and by `Cover` and `NoMore` the facts of the
pass are both. `Listing` then gives `CallsLand`.

`ListsExact` is about the initialisation lists, which are made before the roots.
While a list is in the making (`Making`) what is listed and what waits is needed,
nothing is listed twice, and what a listed record imports is listed or waits; when
nothing waits, the list is closed under imports and within every closed set that
has the root.

`OrderDoesNotMatter` gives `OneMeaning` for any objects that are `WellMade`, of any
number, in any order. Two places (a definition, or a name that an object refers to)
are of one symbol if they have one `Key`: their hash, or their name, or themselves.
`HasAll(l, D)` says what the table is when the places of the set `D` have been
entered, in whatever order: each has a symbol, one for each key (`OneEach`); the
definition found there is one that no other of the key beats (`Best`, with the order
`AtMost` that the branches of `addSym` amount to: tolerant definitions, then zero-filled
data, then content, each by size); a conflict is reported if two definitions of a key
have content (`Reported`); and the tables of names, hashes and predeclared names hold
these symbols. Each of `AddHashed`, `AddNamed` with `registerBuiltin`, and
`LookupOrCreate` takes a table of `D` to one of `D` and the new place. It is needed
there that the definitions of packages come first: they take a name without looking,
so no other may have it yet. The folds over an object, and over the objects in an
order, then give `HasAll` for all places (`LeftFold`, by induction over the length).
As `HasAll` mentions no order, the tables of two orders agree on everything but which
of two definitions that neither beats is taken, and those are alike. A reference
means a place that does not depend on the order (`Meant`): of a package that has several
objects the first, because orders keep those of one archive in theirs.

**Collector_proofs** (any function that is `WellFormed`, compiled in either way, any
objects in its frame, any size of a word, any place of the stack above StackBig,
which is what the comment at `ssagen/prologue.go:75-78` says that constant means).
Four results, of which the middle two are about the compiler and the last about
every run of what it makes.

* The growth check is arithmetic, in one case for each way the difference is
  compared. The check of a larger frame is exact in spite of the wrap
  (`LargeExact`); a frame of any size that it lets through has its room
  (`PassedHasRoom`); a stack with the frame's bytes above its guard is not grown
  again (`GrownPasses`), the bound under the repetition in `Ends` of the run.
* `FrameIsWellPlaced` gives `FramePlaced`. Laying items one by one keeps those
  already laid apart, aligned and below the end (`Laying`, by induction on the
  items); the group without pointers comes before the one with; every shift by the
  padding is a multiple of the word, so that alignment survives it; the objects
  table counts what is below an object, so it ascends. To use this the passes before
  the frame have to hand over a function that has one: `Sound` (the records,
  values, blocks, edges and objects are what they say) and `Covered` (the layout
  has every block) are kept by splitting edges, by cutting a block for a write
  barrier and building its diamond, by inserting the barriers of all blocks, by
  liveness, slots and frame (`Ready`).
* `EmitFunctionFinished`: the code and its table agree. `Flows` says of each
  instruction how it moves the stack pointer, given what the rows of the table say
  before it and after it, and where it goes; code under construction is `Built` if
  all its instructions flow, and the code is `Finished` if it also goes on nowhere
  but where there is code. The step that needs care is a block after an epilogue,
  where the stack pointer is back and the table must be told (`EnterBlock`), and the
  last call that does not return (`PadExit`).
* `Rooms` is the inductive invariant of the machine: the code is finished, the
  program counter is in it, the table says what was pushed (`TableOK`), a call is
  under way only at a call, and between the check and the push nothing has changed
  what the check compared (`PassedOK`), growing and copying the stack and a request
  to stop included. From it `Unwinds` and `RoomBelow`. It was checked on the
  instance of the collector run before it was proved.

## What is only model-checked

* Liveness, everywhere (`Ends`, `Settles`, `LookupsAnswered`): fairness and
  ENABLED are out of the prover's reach. So is the termination half of the
  refinements of AtomicCopy; the theorems cover initial states and steps.
* The construct run, apart from `LivenessFound`. Construction, Dominators,
  Decompose, Lower and Escape walk trees and graphs with RECURSIVE operators, as the
  code does, which puts them and everything that uses them out of the prover's
  reach.
* In the collector run `NoDangling`, `NoStaleStack` and `MapHonest`: they relate the
  liveness of slots, the maps and the barriers to what a collector reads, over every
  path of the code, and need an invariant for each of the three that speaks of values
  along paths. Rooms is the part of it that speaks of the stack pointer.

## What is not modelled, and why

* The lexer, parser and type checker: the first two are sequential recognisers
  without state that outlives a production, and the third is a fork whose
  correctness is upstream's.
* In construction: frame objects and their zeroing on entry, the kinds of
  expressions (a test, a call, a copy, a divide, an index stand for them), and the
  error paths, after which no function is handed on. In decomposition: the words a
  wide value is split into, which is data. In lowering: the selection of machine
  instructions, hundreds of pure rewrites that a model could only transliterate.
* In escape analysis: ranges, type switches, composite literals, conversions
  through unsafe, variables that are captured or whose address is taken (a
  parameter of that kind gets no promise), declarations without a body, whose notes are the author's word, and the bytes of a note. How precise a
  note is, is compared with the reference compiler's by the repository's tests;
  the model asks that it is true.
* The bulk barriers of `ssa/bulkbarrier.go` and indexed stores; lifetime markers,
  which nothing emits.
* The range-over-func rewriting of `ir/rangefunc.go`: the check of the state of
  the loop body that the language asks for is not built (the code says so under
  "What is not checked"), so there is no protocol to check.
* Object file, export data, symbol table and DWARF writing: formats, tested
  against the reference toolchain byte by byte.
* In the linker: which symbols are local to a file, a reference to a package that
  is not in the link, the order in which imports are found (any order is taken),
  decoding of type descriptors (data of the model), and the layout of the output.
* File system and process work of the driver, the distribution and the tools.
* In AllocRun: floating-point registers beside integer ones (LinearScan and
  Transfer have both), results spread over a callee's stack area, and values
  wider than a word, which Decompose has removed by then.
* In Collector: the homes of values are any that the allocator promises (a slot
  across a call, a register otherwise) and AllocRun is what shows that it keeps
  the promise; liveness is the definition by paths, which `LivenessFound` shows
  the loop to compute; the functions of the run have one memory state and no phi
  of memory. Globals and the other goroutine are scanned in one step each. There
  is one collection; a second starts from what `NoDangling` says of the first.
  The passing run leaves out the two situations of the findings: preemption
  inside a barrier (`AsyncInBarrier`), and a frame address used below a call it
  was taken above.
* In FileSet: the line table inside a file, which belongs to one goroutine.

## Plan

What is left, in the order of what a mistake would cost.

1. Proofs: `MapHonest` from the liveness of slots.
2. The assignment of arguments and results to registers (`ssa/abi.go`), in
   front of AllocRun, with results in a callee's stack area.
3. The bulk barriers, as further stores of the collector run.
4. `internal/audit` Sweep and ratchet: probes that finish in any order, time out,
   or are cancelled; the ratchet never goes down.
5. The loader's import graph, `driver` build order and toolexec; the lazy reader
   of export data, with its cycles of references.
