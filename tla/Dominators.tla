----------------------------- MODULE Dominators -----------------------------
(***************************************************************************)
(* The dominator tree (src/ssa/dom.go) and what the verifier asks of a     *)
(* function that construction hands over (src/ssa/verify.go).  The tree is *)
(* a function idom from blocks to blocks, 0 for a block not reached yet.   *)
(***************************************************************************)
EXTENDS RegAnalysis

\* The walk up two branches of the tree until they meet: the block with the
\* smaller postorder number is the deeper one.
RECURSIVE Intersect(_, _, _, _)
Intersect(idom, po, a, b) == IF a = b THEN a
                             ELSE IF po[a] < po[b] THEN Intersect(idom, po, idom[a], b)
                                                   ELSE Intersect(idom, po, a, idom[b])

\* One round: each block but the entry takes what the predecessors that have a
\* dominator meet in.
Round(f, order, po, idom) ==
  LET Meet(d, b) == LET known == SelectSeq(f.preds[b], LAMBDA p : d[p] # 0)
                    IN  IF known = <<>> THEN d
                        ELSE [d EXCEPT ![b] = FoldLeft(LAMBDA x, p : Intersect(d, po, x, p), known[1], Tail(known))]
  IN  FoldLeft(Meet, idom, Tail(order))

\* Mutant: one round is enough.
Settled_Once(f, order, po, idom) == Round(f, order, po, idom)

\* Rounds until one changes nothing.
RECURSIVE Settled(_, _, _, _)
Settled(f, order, po, idom) ==
  LET next == Round(f, order, po, idom)
  IN  IF next = idom THEN idom ELSE Settled(f, order, po, next)

\* Nothing is known of any block.
NoneKnown(f) == FoldLeft(LAMBDA known, vs : Append(known, 0), <<>>, f.vals)

Idom(f) ==
  LET order == ReversePostorder(f)
      po    == [b \in Blocks(f) |-> Len(order) - SelectInSeq(order, LAMBDA c : c = b)]
  IN  Settled(f, order, po, [NoneKnown(f) EXCEPT ![1] = 1])

RECURSIVE Dominates(_, _, _)
Dominates(idom, a, b) == idom[a] # 0 /\ idom[b] # 0
                         /\ (a = b \/ (b # 1 /\ Dominates(idom, a, idom[b])))

-----------------------------------------------------------------------------
(* The verifier *)

\* The definition of a is in scope at the i-th value of b.
DefDominatesUse(f, idom, a, b, i) ==
  LET def == BlockOf(f, a)
  IN  IF def = b THEN SelectInSeq(f.vals[b], LAMBDA v : v = a) < i ELSE Dominates(idom, def, b)

InFunction(f) == ToSet(FlattenSeq(f.vals))

\* An operand for each predecessor, which is in scope at the end of it.
CheckPhi(f, idom, b, phi) ==
  /\ Len(f.args[phi]) = Len(f.preds[b])
  /\ \A i \in DOMAIN f.args[phi] : Dominates(idom, BlockOf(f, f.args[phi][i]), f.preds[b][i])

\* The phis come first, and every operand is in the function and in scope.
CheckValue(f, idom, b, i) ==
  LET v == f.vals[b][i]
  IN  /\ ToSet(f.args[v]) \subseteq InFunction(f)
      /\ IF f.op[v] = "phi" THEN v \in Phis(f, b) /\ CheckPhi(f, idom, b, v)
                            ELSE \A a \in ToSet(f.args[v]) : DefDominatesUse(f, idom, a, b, i)

\* Two ways out with a control value that is in the function, or one without.
CheckBlock(f, b) ==
  /\ Len(f.succs[b]) \in 0 .. 2
  /\ (Len(f.succs[b]) = 1) = (f.control[b] = 0)
  /\ f.control[b] # 0 => f.control[b] \in InFunction(f)
  /\ \A i \in DOMAIN f.succs[b] : Contains(f.preds[f.succs[b][i]], b)

\* The memory state b starts with, by what the blocks before it leave with: its
\* phi, or that of the first predecessor that is known.
MemoryPhis(f, b) == SelectSeq(f.vals[b], LAMBDA v : f.op[v] = "phi" /\ v \in f.mem)
StartMemory(f, exit, b) ==
  LET known == SelectSeq(f.preds[b], LAMBDA p : exit[p] # 0)
  IN  IF MemoryPhis(f, b) # <<>> THEN MemoryPhis(f, b)[1] ELSE IF known # <<>> THEN exit[known[1]] ELSE 0

\* The states current before each value of b and at its end, from the one at its
\* start on; the first value of a function makes one.
MemoryAlong(f, start, b) ==
  LET Made(v) == v \in f.mem /\ f.op[v] # "phi"
  IN  FoldLeft(LAMBDA m, v : Append(m, IF Made(v) THEN v ELSE Last(m)), <<start>>, f.vals[b])

ExitMemory(f) ==
  FoldLeft(LAMBDA exit, b : [exit EXCEPT ![b] = Last(MemoryAlong(f, StartMemory(f, exit, b), b))],
           NoneKnown(f), ReversePostorder(f))

TakesMemory(f, v) == f.op[v] # "phi" /\ f.args[v] # <<>> /\ Last(f.args[v]) \in f.mem

\* Every value reads the state that is current.
ReadsCurrent(f) ==
  LET exit == ExitMemory(f)
  IN  \A b \in Blocks(f) :
        /\ Len(MemoryPhis(f, b)) <= 1
        /\ LET current == MemoryAlong(f, StartMemory(f, exit, b), b)
           IN  \A i \in DOMAIN f.vals[b] :
                 TakesMemory(f, f.vals[b][i]) => Last(f.args[f.vals[b][i]]) = current[i]

\* The joins of different states that have no phi of them.
Unmerged(f) == LET exit == ExitMemory(f)
               IN  {b \in Blocks(f) : /\ MemoryPhis(f, b) = <<>>
                                      /\ \E p, q \in ToSet(f.preds[b]) : exit[p] # exit[q]}

CheckMemory(f) == ReadsCurrent(f) /\ Unmerged(f) = {}

CheckFunction(f) == LET idom == Idom(f)
                    IN  /\ f.preds[1] = <<>>
                        /\ \A b \in Blocks(f) : /\ idom[b] # 0
                                                /\ CheckBlock(f, b)
                                                /\ \A i \in DOMAIN f.vals[b] : CheckValue(f, idom, b, i)

Verify(f) == CheckFunction(f) /\ CheckMemory(f)
=============================================================================
