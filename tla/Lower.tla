------------------------------- MODULE Lower -------------------------------
(***************************************************************************)
(* Selection (src/ssa/lower.go), as far as it changes the graph: a bounds  *)
(* check and a divide ("check" and "div") cut their block in two, with a   *)
(* third block that calls the runtime and does not return, a nil check     *)
(* leaves the pointer to its readers, and what nothing reads any more is   *)
(* dropped.  The instructions that are selected, and the folding of one    *)
(* into another, are left out.                                             *)
(***************************************************************************)
EXTENDS Decompose

\* The memory state b starts with: its phi, or what the first predecessor that
\* is lowered leaves with.
IncomingMem(g, exit, b) == StartMemory(g, exit, b)

-----------------------------------------------------------------------------
(* The cut *)

\* The slot of the i-th of succs in that block's predecessors, by the edges
\* that still come from b, or 0.
EdgeSlot(g, b, succs, i) ==
  LET s == succs[i]
      k == Cardinality({j \in 1 .. i - 1 : succs[j] = s})
      from == SelectSeq([j \in DOMAIN g.preds[s] |-> j], LAMBDA j : g.preds[s][j] = b)
  IN  IF k < Len(from) THEN from[k + 1] ELSE 0

\* Mutant: the continuation is a new predecessor, the last.
MoveEdge_Last(g, b, succs, i, cont) ==
  [g EXCEPT !.preds[succs[i]] = Append(RemoveAt(@, EdgeSlot(g, b, succs, i)), cont)]

\* The i-th edge now leaves the continuation, in the slot it had.
MoveEdge(g, b, succs, i, cont) ==
  LET j == EdgeSlot(g, b, succs, i)
  IN  IF j = 0 THEN g ELSE [g EXCEPT !.preds[succs[i]][j] = cont]

\* The control of the block is the value cmp, the last that was made; its i-th
\* value and those after it go on in a block of their own.
Cut(g, b, i) ==
  LET cont  == Len(g.vals) + 1
      succs == g.succs[b]
      moved == FoldLeft(LAMBDA h, k : MoveEdge(h, b, succs, k, cont), g, [k \in DOMAIN succs |-> k])
  IN  [moved EXCEPT !.vals    = [@ EXCEPT ![b] = Append(SubSeq(@, 1, i - 1), Len(g.op))]
                                \o <<SubSeq(g.vals[b], i, Len(g.vals[b])), <<>>>>,
                    !.succs   = [@ EXCEPT ![b] = <<cont, cont + 1>>] \o <<succs, <<>>>>,
                    !.preds   = @ \o <<<<b>>, <<b>>>>,
                    !.control = [@ EXCEPT ![b] = Len(g.op)] \o <<g.control[b], 0>>]

\* The block of the failure, the last, calls the runtime.
PanicCall(g, id, args) ==
  LET fail == Len(g.vals)
      Called(h) == [h EXCEPT !.vals[fail] = <<Len(h.op)>>, !.control[fail] = Len(h.op)]
  IN  Called(MakeValue(g, "call", args, id, TRUE))

\* Every reader of v reads w.
ReplaceBy(g, v, w) ==
  [g EXCEPT !.args = [u \in DOMAIN @ |-> ReplaceAll(@[u], v, w)],
            !.control = ReplaceAll(@, v, w)]

-----------------------------------------------------------------------------
(* The rules *)

\* The check is a load that faults; its readers read the pointer.
LowerNilCheck(g, v) == [ReplaceBy(g, v, g.args[v][1]) EXCEPT !.args[v] = g.args[v]]

\* The divide is reached only past the test of its divisor, which is left out
\* where there is no memory state to hang the call on.
GuardDivide(g, b, i, mem) ==
  LET v == g.vals[b][i]
      Guarded(h) == PanicCall(Cut(h, b, i), h.id[v], <<mem>>)
      machine == [g EXCEPT !.op[v] = "quotient"]
  IN  IF mem = 0 THEN machine ELSE Guarded(MakeValue(machine, "test", <<g.args[v][2]>>, 0, FALSE))

\* The check is gone: what it ordered takes the memory that it took.
LowerBoundsCheck(g, b, i, mem) ==
  LET v == g.vals[b][i]
      index == Front(g.args[v])
      Failed(h)  == PanicCall(Cut(h, b, i), h.id[v], Append(index, Last(g.args[v])))
      Dropped(h) == [h EXCEPT !.vals[Len(h.vals) - 1] = Tail(@), !.dead = @ \cup {v}, !.mem = @ \ {v}]
  IN  ReplaceBy(Dropped(Failed(MakeValue(g, "test", index, 0, FALSE))), v, Last(g.args[v]))

-----------------------------------------------------------------------------
(* The pass *)

\* The first value of b that cuts it, or 0.
FirstCut(g, b) == SelectInSeq(g.vals[b], LAMBDA v : g.op[v] \in {"div", "check"})

\* The blocks of the queue, a block that was cut once more and then the rest of
\* it; exit as each block leaves with it, 0 for one that is not lowered.
RECURSIVE LowerBlocks(_, _, _)
LowerBlocks(g, exit, queue) ==
  IF queue = <<>> THEN g
  ELSE LET b     == Head(queue)
           i     == FirstCut(g, b)
           along == MemoryAlong(g, IncomingMem(g, exit, b), b)
           Rule(h) == IF h.op[h.vals[b][i]] = "div" THEN GuardDivide(h, b, i, along[i]) ELSE LowerBoundsCheck(h, b, i, along[i])
           Next(h) == IF Len(h.vals) = Len(g.vals) THEN LowerBlocks(h, exit, queue)
                      ELSE LowerBlocks(h, [exit EXCEPT ![b] = along[i]] \o <<0, 0>>,
                                       <<b, Len(g.vals) + 1>> \o Tail(queue))
       IN  IF i = 0 THEN LowerBlocks(g, [exit EXCEPT ![b] = Last(along)], Tail(queue)) ELSE Next(Rule(g))

\* A value that may go when nothing reads it: not a nil check.
Removable(g, v) == v \notin g.mem /\ g.op[v] \notin {"arg", "select", "nilcheck"}

\* Values that nothing reads go, until there are none.
RECURSIVE DeadValues(_)
DeadValues(g) ==
  LET there  == ToSet(FlattenSeq(g.vals))
      used   == ToSet(g.control) \cup UNION {ToSet(g.args[v]) : v \in there}
      unread == {v \in there : v \notin used /\ Removable(g, v)}
  IN  IF unread = {} THEN g
      ELSE DeadValues([g EXCEPT !.vals = [b \in DOMAIN @ |-> SelectSeq(@[b], LAMBDA v : v \notin unread)],
                                !.dead = @ \cup unread])

\* A nil check is lowered where it stands, which no other rule looks at.
NilChecks(g) == SelectSeq(FlattenSeq(g.vals), LAMBDA v : g.op[v] = "nilcheck")

Lowered(g) == DeadValues(LowerBlocks(FoldLeft(LowerNilCheck, g, NilChecks(g)), NoneKnown(g), ReversePostorder(g)))
=============================================================================
