------------------------------ MODULE AllocRun ------------------------------
(***************************************************************************)
(* Register allocation put together, and the code that comes of it.        *)
(*                                                                         *)
(* Allocate (src/ssa/regalloc.go) analyses the function, scans, gives the  *)
(* spilled values slots, names the register of every operand and turns the *)
(* phis into copies.  The code generator (src/ssagen/ssagen.go) emits what *)
(* the allocation says, and the machine runs it: a call destroys every     *)
(* register, and a slot keeps what was last stored there.                  *)
(*                                                                         *)
(* The machine runs in step with the meaning of the function, SSAMachine,  *)
(* whose env is compared with what the registers and the frame hold.       *)
(***************************************************************************)
EXTENDS LinearScan, RegLiveness

CONSTANTS Junk,        \* a register or a slot nothing useful was written to
          ArgRegs,     \* the registers arguments and results travel in, in order
          Scratch,     \* the scratch registers, in order
          SlotBase,    \* slot i of the frame is location SlotBase + i
          MaxEdges,    \* bound: the edges a run takes
          Pending      \* the analysis before it is made

\* The variables of RegLiveness and LinearScan are the allocator's own: fn is the
\* function with its critical edges split, and phase is where Allocate stands.
VARIABLES src,         \* the function as it was built
          lay,         \* the linearisation
          safe,        \* what is live across each call
          slots,       \* the values of each slot
          loc,         \* Alloc.Home: a register or a slot
          args,        \* Alloc.Args: the register each operand is read from
          result,      \* Alloc.Result: the register the result is written to
          copies,      \* Alloc.Edges: [pred, succ, slot, atEnd, seq], in order
          cells,       \* what each register and slot holds
          env,         \* the results, as the function means them
          pc,          \* <<block, index of the next value>> of fn
          seen,        \* the last call, branch or return, and the operands it read
          edges        \* the edges taken so far

liveness == <<liveIn, liveOut, next, grew, settled>>
scanning == <<an, todo, home, fixed, owner, active>>
alloc    == <<slots, loc, args, result, copies>>
runVars  == <<cells, env, pc, seen, edges>>
vars     == <<src, fn, order, liveness, phase, scanning, lay, safe, alloc, runVars>>

\* A block an edge was split with is on the edge: the function as it was built
\* is at the end of the edge.
OnEdge  == pc[1] \notin Blocks(src)
Meaning == INSTANCE SSAMachine WITH fn <- src, obs <- seen,
                                    at <- IF OnEdge THEN <<fn.succs[pc[1]][1], 1>> ELSE pc

SlotLoc(i) == SlotBase + i
ScratchRegs == ToSet(Scratch)
CellsOf(table) == Regs \cup ScratchRegs \cup {SlotLoc(i) : i \in DOMAIN table}
Cells == CellsOf(slots)

\* A register is a number, of the one class; a slot is none of them.
ASSUME MachineAssumption ==
  /\ Classes = {"int"}
  /\ ArgRegs \in Seq(Regs) /\ IsInjective(ArgRegs)
  /\ Scratch \in Seq(Nat) /\ Len(Scratch) >= 2 /\ IsInjective(Scratch) /\ ScratchRegs \cap Regs = {}
  /\ NoReg \notin Int /\ Pending # {}
  /\ SlotBase \in Nat /\ \A r \in Regs \cup ScratchRegs : r <= SlotBase

ASSUME FunctionAssumption == IsFiniteSet(Ids)

-----------------------------------------------------------------------------
(* The functions that are compiled *)

Ops == {"arg", "phi", "op", "const", "call", "select", "branch", "ret", "none"}

\* Blocks, edges and values; every value stands in one place.
Functions == [vals : Seq(Seq(Ids)), succs : Seq(Seq(Nat)), preds : Seq(Seq(Nat)),
              op : [Ids -> Ops], args : [Ids -> Seq(Ids)], place : [Ids -> Regs \cup {NoReg}], ptr : SUBSET Ids]
IsFunction(f) ==
  /\ f \in Functions /\ f.vals # <<>>
  /\ f.succs \in [Blocks(f) -> Seq(Blocks(f))] /\ f.preds \in [Blocks(f) -> Seq(Blocks(f))]
  /\ \A b, c \in Blocks(f) : \A i \in DOMAIN f.vals[b], j \in DOMAIN f.vals[c] :
        f.vals[b][i] = f.vals[c][j] => b = c /\ i = j
  /\ Tracked(f) \cup Calls(f) \subseteq Values(f)

\* j is the slot that the i-th edge out of b has in its successor.
IsSlot(f, b, i, j) ==
  LET s == f.succs[b][i]
  IN  /\ j \in DOMAIN f.preds[s] /\ f.preds[s][j] = b
      /\ Cardinality({m \in 1 .. j - 1 : f.preds[s][m] = b}) = Cardinality({k \in 1 .. i - 1 : f.succs[b][k] = s})

\* Every edge has a slot and every slot an edge.
Matched(f) ==
  /\ \A b \in Blocks(f) : \A i \in DOMAIN f.succs[b] : \E j \in DOMAIN f.preds[f.succs[b][i]] : IsSlot(f, b, i, j)
  /\ \A s \in Blocks(f) : \A j \in DOMAIN f.preds[s] :
        \E i \in DOMAIN f.succs[f.preds[s][j]] : f.succs[f.preds[s][j]][i] = s /\ IsSlot(f, f.preds[s][j], i, j)

\* Nothing leads to the entry, and the entry leads everywhere.
Reached(f) ==
  /\ f.preds[1] = <<>>
  /\ \A S \in SUBSET Blocks(f) : 1 \in S /\ (\A b \in S : ToSet(f.succs[b]) \subseteq S) => S = Blocks(f)

\* What a value may be and read, by its place: arguments in the entry, those in
\* registers before anything else; phis first, with an operand for every edge;
\* the results of a call straight after it; a branch at the end.
WellPlaced(f, b, i) ==
  LET v  == f.vals[b][i]
      is == f.op[v]
  IN  /\ is = "arg" => b = 1 /\ f.args[v] = <<>>
      /\ is = "arg" /\ f.place[v] # NoReg =>
            \A k \in 1 .. i : f.op[f.vals[b][k]] = "arg" /\ f.place[f.vals[b][k]] # NoReg
      /\ is = "phi" => (\A k \in 1 .. i : f.op[f.vals[b][k]] = "phi") /\ Len(f.args[v]) = Len(f.preds[b])
      /\ is = "select" => /\ Len(f.args[v]) = 1
                          /\ \E c \in 1 .. i - 1 : /\ f.vals[b][c] = f.args[v][1] /\ f.op[f.args[v][1]] = "call"
                                                   /\ \A k \in c + 1 .. i : /\ f.op[f.vals[b][k]] = "select"
                                                                            /\ f.args[f.vals[b][k]] = f.args[v]
      /\ is \in {"op", "call", "branch", "ret", "phi"} => ToSet(f.args[v]) \subseteq Tracked(f) \cup Remats(f)
      /\ is = "branch" => i = Len(f.vals[b])

\* The operations whose operands the convention places.
Convention == {"call", "ret"}

\* The convention has registers for the arguments that are in one, each its own,
\* and for the results of every call; the scratch registers are enough for the
\* operands of every instruction.
Conventional(f) ==
  /\ \A u, v \in Tracked(f) : f.op[u] = "arg" /\ f.op[v] = "arg" /\ f.place[u] = f.place[v] /\ u # v => f.place[u] = NoReg
  /\ \A c \in Calls(f) : Cardinality({v \in Tracked(f) : f.op[v] = "select" /\ f.args[v][1] = c}) <= Len(ArgRegs)
  /\ \A v \in Values(f) : f.op[v] \notin Convention \cup {"phi"} => Cardinality(ToSet(f.args[v])) <= Len(Scratch)

\* What Allocate is given: a function that Verify accepts, in which every value is
\* computed before it is read, and no longer than the numbers of positions are.
\* One thing of it the compiler does not promise, and it matters: the builder puts
\* an argument on the stack that comes before one in a register in front of it
\* (SecondReadAfterFirstDead says what comes of that).
Compilable(f) ==
  /\ IsFunction(f) /\ Matched(f) /\ Reached(f) /\ Conventional(f)
  /\ \A b \in Blocks(f) : \A i \in DOMAIN f.vals[b] : WellPlaced(f, b, i)
  /\ LiveAtStart(f, 1) = {}
  /\ LET split == SplitCriticalEdges(f)
     IN  \A b \in Blocks(split) : 0 .. Linearise(split).last[b] \subseteq Positions

-----------------------------------------------------------------------------
(* Allocate *)

InitAlloc ==
  /\ fn = src
  /\ phase = "split"
  /\ lay = Pending /\ an = Pending
  /\ order = <<>> /\ liveIn = <<>> /\ liveOut = <<>> /\ next = 0 /\ grew = FALSE /\ settled = FALSE
  /\ safe = <<>> /\ todo = {} /\ home = <<>> /\ fixed = <<>> /\ owner = <<>> /\ active = {}
  /\ slots = <<>> /\ loc = <<>> /\ args = <<>> /\ result = <<>> /\ copies = <<>>
  /\ cells = <<>> /\ seen = <<>> /\ edges = 0
  /\ env = Meaning!InitEnv /\ pc = <<1, 1>>

\* SplitCriticalEdges runs before Allocate, which then linearises.
Split == /\ phase = "split"
         /\ fn' = SplitCriticalEdges(src)
         /\ lay' = Linearise(fn')
         /\ order' = lay'.order
         /\ liveIn' = [b \in Blocks(fn') |-> {}] /\ liveOut' = liveIn'
         /\ next' = Len(order') /\ grew' = FALSE /\ settled' = FALSE
         /\ phase' = "liveness"
         /\ UNCHANGED <<src, scanning, safe, alloc, runVars>>

Liveness == /\ phase = "liveness"
            /\ LivenessNext
            /\ UNCHANGED <<src, phase, scanning, lay, safe, alloc, runVars>>

\* The ranges and the safepoints, and the state the scan starts from.
Analysed ==
  /\ phase = "liveness" /\ settled
  /\ LET a == Analyse(fn, lay, liveIn, liveOut)
     IN  /\ an' = a.an
         /\ safe' = a.safe
         /\ todo' = a.an.tracked
         /\ phase' = IF a.an.tracked = {} THEN "scanned" ELSE "precolour"
  /\ home' = [v \in Ids |-> None]
  /\ fixed' = [v \in Ids |-> NoReg]
  /\ owner' = [r \in Regs |-> NoId]
  /\ active' = {}
  /\ UNCHANGED <<src, fn, order, liveness, lay, alloc, runVars>>

ScanStep == /\ ScanNext
            /\ UNCHANGED <<src, fn, order, liveness, lay, safe, alloc, runVars>>

\* assignOperands, given where the values live.  The convention fixes where a call
\* and a return read their operands, and the ones beyond its registers are written
\* to the argument area.  Any other operand that is not in a register is read into
\* a scratch register, one for each value.
OperandReg_OneScratch(at, v, i) ==
  LET a == fn.args[v][i]
  IN  IF fn.op[v] = "phi" \/ a \notin Tracked(fn) \cup Remats(fn) THEN NoReg
      ELSE IF fn.op[v] \in Convention THEN IF i \in DOMAIN ArgRegs THEN ArgRegs[i] ELSE NoReg
      ELSE IF a \in Tracked(fn) /\ at[a] \in Regs THEN at[a] ELSE Scratch[1]

OperandReg(at, v, i) ==
  LET a == fn.args[v][i]
      Materialised(u) == u \in Remats(fn) \/ (u \in Tracked(fn) /\ at[u] \notin Regs)
      firstOf == SelectInSeq(fn.args[v], LAMBDA u : u = a)
      earlier == {fn.args[v][j] : j \in {k \in 1 .. firstOf - 1 : Materialised(fn.args[v][k])}}
  IN  IF fn.op[v] = "phi" \/ a \notin Tracked(fn) \cup Remats(fn) THEN NoReg
      ELSE IF fn.op[v] \in Convention THEN IF i \in DOMAIN ArgRegs THEN ArgRegs[i] ELSE NoReg
      ELSE IF Materialised(a) THEN Scratch[Cardinality(earlier) + 1] ELSE at[a]

OperandRegs(at) == [v \in Ids |-> [i \in DOMAIN fn.args[v] |-> OperandReg(at, v, i)]]

\* A result is written to its home, or to the first scratch register.
ResultRegs(at) == [v \in Ids |-> IF v \notin an.tracked THEN NoReg
                                 ELSE IF at[v] \in Regs THEN at[v] ELSE Scratch[1]]

\* resolvePhis: the copies of the edge into slot j of s, before they are ordered.
\* A recomputed operand has no source.
EdgeCopies(at, s, j) ==
  {[dst |-> at[phi], src |-> IF fn.args[phi][j] \in Remats(fn) THEN NoReg ELSE at[fn.args[phi][j]],
    val |-> fn.args[phi][j]] :
     phi \in {p \in Phis(fn, s) : LET a == fn.args[p][j]
                                   IN  a \in Remats(fn) \/ (a \in Tracked(fn) /\ at[a] # at[p])}}

\* Every order of the copies of a set, as they are or with the source of one of
\* them saved in the temporary first.
Orders(cs) ==
  LET Redirected(x) == {[c EXCEPT !.src = IF @ = x.src THEN Scratch[1] ELSE @] : c \in cs}
      Saved(x)      == [dst |-> Scratch[1], src |-> x.src, val |-> x.val]
  IN  SetToSeqs(cs)
      \cup UNION {{<<Saved(x)>> \o s : s \in SetToSeqs(Redirected(x))} : x \in {c \in cs : c.src # NoReg}}

\* ParallelCopy, by what it promises (module ParallelCopy): a copy is made when no
\* other copy left to make reads what it writes; when there is none, a source that
\* is about to be overwritten is saved in the temporary first.
CopyStep(st) ==
  LET ready    == {c \in st.left : \A x \in st.left \ {c} : x.src # c.dst}
      c        == CHOOSE x \in IF ready # {} THEN ready ELSE st.left : TRUE
      saved    == [dst |-> Scratch[1], src |-> c.src, val |-> c.val]
      redirect == {[x EXCEPT !.src = IF @ = c.src THEN Scratch[1] ELSE @] : x \in st.left}
  IN  IF st.left = {} THEN st
      ELSE IF ready # {} THEN [left |-> st.left \ {c}, done |-> Append(st.done, c)]
      ELSE [left |-> redirect, done |-> Append(st.done, saved)]

\* A copy is saved at most once before it is made.
Sequence(cs) ==
  LET step[n \in 0 .. 2 * Cardinality(cs)] == IF n = 0 THEN [left |-> cs, done |-> <<>>] ELSE CopyStep(step[n - 1])
  IN  step[2 * Cardinality(cs)].done

\* The edges, by successor and slot.
Slotted == UNION {{<<s, j>> : j \in DOMAIN fn.preds[s]} : s \in Blocks(fn)}

\* The copies go to the end of a predecessor with one successor, otherwise to the
\* start of the successor.  The edges need no order: each finds its own copies.
EdgeEntries(at) ==
  LET entry(s, j) == [pred |-> fn.preds[s][j], succ |-> s, slot |-> j,
                      atEnd |-> Len(fn.succs[fn.preds[s][j]]) = 1, seq |-> Sequence(EdgeCopies(at, s, j))]
  IN  SetToSeq({e \in {entry(x[1], x[2]) : x \in Slotted} : e.seq # <<>>})

Slots ==
  /\ phase = "scanned"
  /\ slots' = AssignSlots(fn, lay, an, safe, {v \in an.tracked : home[v] = Frame})
  /\ loc' = [v \in an.tracked |->
               IF home[v] = Frame
               THEN SlotLoc(CHOOSE i \in DOMAIN slots' : v \in slots'[i])
               ELSE home[v]]
  /\ args' = OperandRegs(loc')
  /\ result' = ResultRegs(loc')
  /\ copies' = EdgeEntries(loc')
  /\ phase' = "allocated"
  /\ UNCHANGED <<src, fn, order, liveness, scanning, lay, safe, runVars>>

-----------------------------------------------------------------------------
(* The emitted code *)

Term(v) == <<v, <<>>>>

\* move: what a location receives from the value a, given what m holds.
Fetch(m, a) == IF a \in Remats(fn) THEN Term(a) ELSE m[loc[a]]

\* Moves [dst, val] that happen at once.
Put(m, moves) == [l \in Cells |-> IF \E x \in moves : x.dst = l
                                  THEN (CHOOSE x \in moves : x.dst = l).val ELSE m[l]]

\* transfer, for moves [dst, src, val] where val is what src held before any of
\* them: out of registers into the frame, then the register permutation, then
\* into registers from the frame or recomputed.  Each stage reads what the
\* stages before it left.
TransferStage(m, moves) == Put(m, {[dst |-> x.dst, val |-> IF x.src = NoReg THEN Term(x.from) ELSE m[x.src]] : x \in moves})
Transfer(m, moves) ==
  LET fromReg == {x \in moves : x.src \in Regs}
      out     == {x \in fromReg : x.dst \notin Regs}
  IN  TransferStage(TransferStage(TransferStage(m, out), fromReg \ out), moves \ fromReg)

Source(a) == IF a \in Remats(fn) THEN NoReg ELSE loc[a]

\* operands: every operand of v, read into its register in order.
Materialise(m, v) ==
  LET read[n \in 0 .. Len(fn.args[v])] ==
        IF n = 0 THEN m ELSE [read[n - 1] EXCEPT ![args[v][n]] = Fetch(read[n - 1], fn.args[v][n])]
  IN  read[Len(fn.args[v])]

ReadOperands(m, v) == [i \in DOMAIN fn.args[v] |-> Materialise(m, v)[args[v][i]]]

\* The arguments and results the convention has registers for travel there, the
\* others in the argument area, written straight from where they live.
Placed(v) == 1 .. (IF Len(fn.args[v]) < Len(ArgRegs) THEN Len(fn.args[v]) ELSE Len(ArgRegs))
ToArgRegs(m, v) == Transfer(m, {[dst |-> ArgRegs[i], src |-> Source(fn.args[v][i]), from |-> fn.args[v][i]] :
                                  i \in Placed(v)})
PassedOperands(m, v) == [i \in DOMAIN fn.args[v] |->
                           IF i \in Placed(v) THEN ToArgRegs(m, v)[ArgRegs[i]]
                           ELSE Fetch(m, fn.args[v][i])]

RegArgs == {v \in an.tracked : fn.op[v] = "arg" /\ fn.place[v] # NoReg}
Selects(c) == {v \in an.tracked : fn.op[v] = "select" /\ fn.args[v][1] = c}
\* The results of a call in slot order.
ResultReg(v) == ArgRegs[Cardinality({u \in Selects(fn.args[v][1]) : u <= v})]

\* entryArgs: the arguments that arrived in registers move to their homes at
\* once, before the first value of the function.  Two with one home is an error.
Enter ==
  /\ phase = "allocated"
  /\ LET arrived == [l \in Cells |-> IF \E v \in RegArgs : fn.place[v] = l
                                     THEN Term(CHOOSE v \in RegArgs : fn.place[v] = l) ELSE Junk]
     IN  cells' = Transfer(arrived, {[dst |-> loc[v], src |-> fn.place[v], from |-> v] : v \in RegArgs})
  /\ phase' = IF \E u, v \in RegArgs : u # v /\ loc[u] = loc[v] THEN "failed" ELSE "run"
  /\ UNCHANGED <<src, fn, order, liveness, scanning, lay, safe, alloc, env, pc, seen, edges>>

Here == Meaning!Here

\* A call destroys every register, and its results are moved out of the result
\* registers at once.
AfterCall(m, c) ==
  LET reads == PassedOperands(m, c)
      back  == [l \in Cells |->
                  IF \E v \in Selects(c) : ResultReg(v) = l
                  THEN <<CHOOSE v \in Selects(c) : ResultReg(v) = l, reads>>
                  ELSE IF l \in Regs \cup ScratchRegs THEN Junk ELSE m[l]]
  IN  Transfer(back, {[dst |-> loc[v], src |-> ResultReg(v), from |-> v] : v \in Selects(c)})

\* spill: a value whose home is a slot is stored there from its result register.
Spill(m, v) == IF loc[v] \in Regs THEN m ELSE [m EXCEPT ![loc[v]] = m[result[v]]]

\* What the machine holds after the instructions of the value at the program
\* counter.
CellsAfter ==
  CASE fn.op[Here] = "op"  ->
         Spill([Materialise(cells, Here) EXCEPT ![result[Here]] = <<Here, ReadOperands(cells, Here)>>], Here)
    [] fn.op[Here] = "arg" -> IF fn.place[Here] = NoReg
                              THEN [cells EXCEPT ![loc[Here]] = Term(Here)] ELSE cells
    [] fn.op[Here] = "call" -> AfterCall(cells, Here)
    [] OTHER -> cells

Compute ==
  /\ phase = "run"
  /\ ~OnEdge /\ Meaning!AtValue
  /\ cells' = CellsAfter
  /\ seen' = IF fn.op[Here] \in {"call", "ret"} THEN <<Here, PassedOperands(cells, Here)>> ELSE seen
  /\ env' = Meaning!EnvAfter
  /\ pc' = Meaning!After
  /\ UNCHANGED <<src, fn, order, liveness, phase, scanning, lay, safe, alloc, edges>>

\* move, for a copy of an edge.  There is no instruction from one slot to another
\* or from nowhere to a slot: the second scratch register is on the way.
Copied(m, c) ==
  LET x == IF c.src = NoReg THEN Term(c.val) ELSE m[c.src]
  IN  IF c.dst = c.src THEN m
      ELSE IF c.dst \notin Regs \cup ScratchRegs /\ c.src \notin Regs \cup ScratchRegs
      THEN [m EXCEPT ![Scratch[2]] = x, ![c.dst] = x]
      ELSE [m EXCEPT ![c.dst] = x]

\* copies: the moves, in the order of the allocation.
RunCopies(m, seq) ==
  LET run[n \in 0 .. Len(seq)] == IF n = 0 THEN m ELSE Copied(run[n - 1], seq[n])
  IN  run[Len(seq)]

\* The moves of the entries named, in order.
RunEntries(m, here) ==
  LET run[k \in 0 .. Len(copies)] ==
        IF k = 0 THEN m ELSE IF k \in here THEN RunCopies(run[k - 1], copies[k].seq) ELSE run[k - 1]
  IN  run[Len(copies)]

\* edgeOut and edgeIn: the entries emitted at the end of a block with one
\* successor, and those at the start of a block.
OutOf(b)  == {k \in DOMAIN copies : copies[k].pred = b /\ copies[k].atEnd /\ Len(fn.succs[b]) = 1}
InTo(s)   == {k \in DOMAIN copies : copies[k].succ = s /\ ~copies[k].atEnd}

\* The branch, and the copies of the edge it takes: at the end of a block with
\* one successor, otherwise at the start of the successor.
TakeEdge(i) ==
  /\ phase = "run"
  /\ OnEdge \/ Meaning!AtEnd
  /\ OnEdge \/ edges < MaxEdges
  /\ edges' = IF OnEdge THEN edges ELSE edges + 1
  /\ cells' = RunEntries(RunEntries(cells, OutOf(pc[1])), InTo(fn.succs[pc[1]][i]))
  /\ seen' = IF pc[2] \in DOMAIN fn.vals[pc[1]] THEN <<Here, ReadOperands(cells, Here)>> ELSE seen
  /\ env' = IF OnEdge THEN env ELSE Meaning!EnvOnEdge(i)
  /\ pc' = <<fn.succs[pc[1]][i], 1>>
  /\ UNCHANGED <<src, fn, order, liveness, phase, scanning, lay, safe, alloc>>

Next == \/ Split \/ Liveness \/ Analysed \/ ScanStep \/ Slots \/ Enter \/ Compute
        \/ \E i \in DOMAIN fn.succs[pc[1]] : TakeEdge(i)

-----------------------------------------------------------------------------
(* Properties *)

\* The values live just before the program counter, by the path definition.
LiveHere == LiveBefore(fn, SubSeq(fn.vals[pc[1]], pc[2], Len(fn.vals[pc[1]])), LiveAtEnd(fn, pc[1]))

\* Every live value is where the allocation says it is: its register or slot
\* holds its result, through calls, copies, spills and shared slots.  So for the
\* allocator's answer, and for any other that VerifyAllocation lets through.
LiveHomes == phase = "run" /\ ~OnEdge /\ pc[2] > 0 => \A v \in LiveHere : cells[loc[v]] = env[v]

\* "The second is read after the first is dead": when an argument is loaded from
\* the argument area into its home, no argument that arrived in a register and
\* has the same home is read from here on.  The value of such an argument is in
\* its home from the entry, so its own place in the block writes nothing.
SecondReadAfterFirstDead ==
  LET rest == SelectSeq(SubSeq(fn.vals[1], pc[2], Len(fn.vals[1])), LAMBDA w : fn.op[w] # "arg")
  IN  phase = "run" /\ pc[1] = 1 /\ pc[2] > 0 /\ Meaning!AtValue /\ fn.op[Here] = "arg" /\ fn.place[Here] = NoReg
        => \A u \in RegArgs : loc[u] = loc[Here] => u \notin LiveBefore(fn, rest, LiveAtEnd(fn, 1))

\* "Two register arguments in one home is not a parallel move, and pre-colouring
\* is what makes it impossible": entryArgs never refuses what the allocator made;
\* when it refuses, an argument is not where the scan put it.
ArrivalsApart == phase = "failed" => \E v \in RegArgs : IF loc[v] \in Regs THEN loc[v] # home[v] ELSE home[v] # Frame

\* What the analysis hands the scan is what the scan relies on.
HandsOverWellFormed == phase = "precolour" => WellFormed(an)

\* "With hole-free ranges the disjointness already implies it": no two spilled
\* values are kept apart by the pointer condition alone.
SafepointClauseImplied ==
  phase = "allocated" =>
    \A u, v \in an.tracked :
      u # v /\ ~Overlaps(an, u, v) => ~PointerLiveAtSafepointIn(fn, lay, an, safe, u, v)

\* The code computes what the function means: every call, branch and return
\* reads the operands the function gives it, in the same order, whichever edges
\* are split.
RunsAsMeant == Meaning!Spec
=============================================================================
