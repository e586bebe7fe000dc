------------------------------ MODULE Emission ------------------------------
(***************************************************************************)
(* The code of a function (src/ssagen/ssagen.go, run, and prologue.go), one*)
(* program counter for each thing the code does, with the tables the       *)
(* runtime reads it by.  An instruction is a record                        *)
(*   [k, v, to, live]                                                      *)
(* with its kind, the value it is emitted for, the block or the edge it    *)
(* leads to, and the values that are live before it.                       *)
(***************************************************************************)
EXTENDS StackMap, WriteBarrier, GrowthCheck, RegAnalysis

ASSUME NoIdAssumption == NoId \notin Nat

-----------------------------------------------------------------------------
(* The functions that are compiled *)

\* What a function comes with, and what the passes below add.
Given == {"vals", "succs", "preds", "layout", "op", "mach", "args", "aux", "off", "place",
          "objs", "in", "ptr", "diamond"}
Added == {"liveIn", "liveOut", "order", "slots", "slot", "fr", "checked", "emitted", "maps"}

\* An object of the frame is as large as its pointer words need, and its
\* alignment is a part of a word, a whole one if there are any.
WellShaped(o) ==
  /\ o.size \in Nat /\ o.align \in Nat \ {0} /\ PtrSize % o.align = 0
  /\ o.ptrs \subseteq Nat /\ (o.ptrs # {} => o.align = PtrSize)
  /\ \A w \in o.ptrs : (w + 1) * PtrSize <= o.size

\* The blocks are in the order of the code, all of them; a block has two ways
\* out at most, and none if it returns, which it does last; what is emitted as
\* it stands is a load or a store.
WellFormed(f) ==
  /\ f = [x \in Given \cup Added |-> f[x]]
  /\ f.op \in Seq(STRING) /\ f.mach \in Seq(STRING) /\ f.args \in Seq(Seq(DOMAIN f.op))
  /\ Len(f.mach) = Len(f.op) /\ Len(f.args) = Len(f.op)
  /\ f.vals \in Seq(Seq(DOMAIN f.op)) \ {<<>>}
  /\ f.succs \in Seq(Seq(Blocks(f))) /\ Len(f.succs) = Len(f.vals)
  /\ f.layout \in Seq(Blocks(f)) /\ Blocks(f) \subseteq ToSet(f.layout)
  /\ f.objs \in Seq({o \in ToSet(f.objs) : WellShaped(o)})
  /\ \A b \in Blocks(f) : Len(f.succs[b]) <= 2
  /\ \A b \in Blocks(f) : \A i \in DOMAIN f.vals[b] :
        f.op[f.vals[b][i]] = "ret" => i = Len(f.vals[b]) /\ f.succs[b] = <<>>
  /\ \A v \in DOMAIN f.op :
        \/ f.op[v] \in {"arg", "phi", "const", "call", "select", "branch", "ret", "none"}
        \/ f.mach[v] \in {"load", "flag", "store"}

-----------------------------------------------------------------------------
(* The code under construction *)

Word(st, k, v, to, live) == [st EXCEPT !.code = Append(@, [k |-> k, v |-> v, to |-> to, live |-> live])]
PC(st) == Len(st.code)

\* The adjustment of the stack pointer in effect from here.
MarkSP(st, delta) == [st EXCEPT !.delta = delta, !.rows = Append(@, <<PC(st), delta>>)]

\* Every block runs with the frame pushed, whatever the code before it did.
EnterBlock(st, b, size) ==
  LET at == [st EXCEPT !.block[b] = PC(st)]
  IN  IF st.delta # size THEN MarkSP(at, size) ELSE at

\* A range that asynchronous preemption may not stop in, from lo to here.
Unsafe(st, lo) == [st EXCEPT !.unsafe = @ \cup {<<lo, PC(st)>>}]

RegArgs(f) == {f.in[i].v : i \in {j \in DOMAIN f.in : f.in[j].reg}}

\* The check, the frame, its objects cleared, and then the arguments moved to
\* where the body wants them.
Prologue(st, f, fr, checked) ==
  LET args    == RegArgs(f)
      check   == IF checked THEN Word(st, "check", NoId, NoId, args) ELSE st
      push    == IF fr.size = 0 THEN check ELSE MarkSP(Word(check, "push", NoId, NoId, args), fr.size)
      cleared == IF \E i \in Pointered(fr.items) : fr.items[i].kind = "object"
                 THEN Word(push, "zero", NoId, NoId, args) ELSE push
  IN  Word([cleared EXCEPT !.entered = PC(cleared)], "args", NoId, NoId, args)

\* The frame is taken down, in a range of its own.
Epilogue(st, v, live, size) ==
  IF size = 0 THEN Word(st, "ret", v, NoId, live)
  ELSE Unsafe(Word(MarkSP(Word(st, "pop", v, NoId, live), 0), "ret", v, NoId, {}), PC(st))

SelectsOf(f, c) == {v \in DOMAIN f.op : f.op[v] = "select" /\ f.args[v] = <<c>>}

\* The i-th value of b.  A constant is computed where it is read, phis and
\* results are written by the copies and the calls, a block's branch is emitted
\* with the way out of it.  The place in the buffer is no result of the
\* convention: the barrier's call leaves it where it is wanted.
EmitValue(st, f, fr, b, i) ==
  LET v       == f.vals[b][i]
      Before(k) == LiveBefore(f, SubSeq(f.vals[b], k, Len(f.vals[b])), f.liveOut[b])
      results == IF f.mach[v] = "wb" THEN {} ELSE SelectsOf(f, v)
      one(k)  == [Word(st, k, v, NoId, Before(i)) EXCEPT !.start[v] = PC(st)]
  IN  CASE f.op[v] \in {"const", "phi", "select", "branch", "none"} -> st
        [] f.op[v] = "arg"  -> IF v \in RegArgs(f) THEN st ELSE one("loadarg")
        [] f.op[v] = "call" -> IF results = {} THEN one("call") ELSE Word(one("call"), "results", v, NoId, Before(i + 1) \cup results)
        [] f.op[v] = "ret"  -> Epilogue(st, v, Before(i), fr.size)
        [] OTHER            -> one(f.mach[v])

\* The copies that realise the phis of the block after b.
HasCopies(f, b) == \E s \in ToSet(f.succs[b]) : Phis(f, s) # {}

\* The way out of b: a branch to its first successor, a jump to the other when
\* that does not follow.
Terminator(st, f, b, follows) ==
  LET out == f.liveOut[b]
      Arrived(s) == f.liveIn[s] \cup Phis(f, s)
      Go(at, s) == IF s = follows THEN at ELSE Word(at, "jump", NoId, s, Arrived(s))
  IN  CASE Len(f.succs[b]) = 2 ->
             LET ctrl == Last(f.vals[b])
             IN  Go(Word(st, "branch", ctrl, f.succs[b][1], out \cup Reads(f, ctrl)), f.succs[b][2])
        [] Len(f.succs[b]) = 1 ->
             Go(IF HasCopies(f, b) THEN Word(st, "copies", NoId, b, out) ELSE st, f.succs[b][1])
        [] OTHER -> st

EmitBlock(st, f, fr, k) ==
  LET b == f.layout[k]
      body[i \in 0 .. Len(f.vals[b])] ==
        IF i = 0 THEN EnterBlock(st, b, fr.size) ELSE EmitValue(body[i - 1], f, fr, b, i)
  IN  Terminator(body[Len(f.vals[b])], f, b, IF k < Len(f.layout) THEN f.layout[k + 1] ELSE NoId)

\* Mutant: the tail follows the last call at once.
PadExit_None(st, f) == st

\* A block that ends in a call that does not return is not the last thing
\* before the tail: the return address belongs to the body.
PadExit(st, f) ==
  LET b == Last(f.layout)
  IN  IF f.succs[b] = <<>> /\ (f.vals[b] = <<>> \/ f.op[Last(f.vals[b])] # "ret")
      THEN Word(st, "nop", NoId, NoId, {}) ELSE st

\* The tail: save the arguments, call the runtime, read them back, run again.
Growstack(st, f) ==
  LET args == RegArgs(f)
      at   == MarkSP(st, 0)
      call == Word(Word(at, "save", NoId, NoId, args), "more", NoId, NoId, {})
      tail == Word(Word(call, "reload", NoId, NoId, {}), "again", NoId, NoId, args)
  IN  Unsafe([tail EXCEPT !.growPC = PC(st)], PC(st))

-----------------------------------------------------------------------------
(* The whole back end, as far as the collector and the stack are concerned *)

\* The barriers, and the edges they made critical split.
Prepared(f) ==
  LET barred == WriteBarriers(f)
      split  == SplitCriticalEdges(barred)
  IN  [split EXCEPT !.layout = @ \o [i \in 1 .. Len(split.vals) - Len(barred.vals) |-> Len(barred.vals) + i]]

\* f with the live sets of its blocks, as paths define them.
WithLiveness(f) ==
  [f EXCEPT !.liveIn  = [b \in Blocks(f) |-> LiveAtStart(f, b)] @@ <<>>,
            !.liveOut = [b \in Blocks(f) |-> LiveAtEnd(f, b)] @@ <<>>]

\* f with the order of its blocks and the slots: every value that is live across
\* a call has one, and as many others as the pressure sends there: none, or all
\* but the places in the buffer, whose next use is the next instruction.
WithSlots(f, all) ==
  LET l  == Linearise(f)
      an == Analyse(f, l, f.liveIn, f.liveOut)
      places == UNION {SelectsOf(f, c) : c \in {v \in Calls(f) : f.mach[v] = "wb"}}
      across == {v \in Tracked(f) : \E c \in Calls(f) : v \in an.safe[c]}
  IN  [f EXCEPT !.order = l.order,
                !.slots = AssignSlots(f, l, an.an, an.safe, IF all THEN Tracked(f) \ places ELSE across)]

\* f with the slot of each value, 0 for none, and the frame.
WithFrame(f) ==
  LET holds(v) == {i \in DOMAIN f.slots : v \in f.slots[i]}
  IN  [f EXCEPT !.slot = [v \in DOMAIN f.op |-> Max({0} \cup holds(v))] @@ <<>>,
                !.fr   = LayoutFrame(f, f.slots)]

\* No code yet: no block and no value has its program counter.
Blank(f) ==
  [code |-> <<>>, rows |-> <<<<0, 0>>>>, delta |-> 0,
   block |-> [b \in DOMAIN f.vals |-> -1], start |-> [v \in DOMAIN f.op |-> -1],
   unsafe |-> {}, entered |-> 0, growPC |-> 0]

\* The prologue, the blocks in their order, and the tail.
EmitFunction(f, checked) ==
  LET after[k \in 0 .. Len(f.layout)] ==
        IF k = 0 THEN Prologue(Blank(f), f, f.fr, checked) ELSE EmitBlock(after[k - 1], f, f.fr, k)
      body == PadExit(after[Len(f.layout)], f)
  IN  IF checked THEN Growstack(body, f) ELSE body

\* f with its code.
WithCode(f, checked) == [f EXCEPT !.checked = checked, !.emitted = EmitFunction(f, checked)]

\* The tables of f.
WithMaps(f) == [f EXCEPT !.maps = BuildStackMaps(f, f.fr, Safepoints(f, f.fr, f.slot, f.order), f.checked)]

\* What the runtime is handed: the code and all that it reads it by.
Assembled(f) ==
  [f |-> f, fr |-> f.fr, slots |-> f.slots, slot |-> f.slot, checked |-> f.checked, maps |-> f.maps,
   code |-> f.emitted.code, rows |-> f.emitted.rows, block |-> f.emitted.block, unsafe |-> f.emitted.unsafe,
   entered |-> f.emitted.entered, growPC |-> f.emitted.growPC, objects |-> StackObjects(f.fr),
   index |-> StackMapPCData(f, f.maps, f.emitted.start, f.emitted.growPC)]

Checked(f) == WithCode(f, ~SkipsCheck(f.fr.size, IsLeaf(f), FALSE))

Compile(source, all) ==
  LET prepared == Prepared(source)
      analysed == WithLiveness(prepared)
      slotted  == WithSlots(analysed, all)
      framed   == WithFrame(slotted)
      coded    == Checked(framed)
      mapped   == WithMaps(coded)
  IN  Assembled(mapped)
=============================================================================
