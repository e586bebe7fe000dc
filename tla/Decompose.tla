----------------------------- MODULE Decompose -----------------------------
(***************************************************************************)
(* The part of decomposition (src/ssa/decompose.go) that changes the order *)
(* of effects: a comparison of two strings or interfaces, an "eq" value,   *)
(* becomes a call, which is put into the middle of a block, and the memory *)
(* chain is repaired when all of them are in.  Functions are as            *)
(* Construction leaves them; the words a wide value is split into are left *)
(* out.                                                                    *)
(***************************************************************************)
EXTENDS Dominators

\* A value that is in no block yet, the number after the last.
MakeValue(g, op, args, id, isMem) ==
  LET v == Len(g.op) + 1
  IN  [g EXCEPT !.op = Append(@, op), !.args = Append(@, args), !.id = Append(@, id),
                !.mem = IF isMem THEN @ \cup {v} ELSE @]

\* The last value made is the i-th of b.
PutAt(g, b, i) == [g EXCEPT !.vals[b] = InsertAt(@, i, Len(g.op))]

-----------------------------------------------------------------------------
(* Comparisons *)

PlaceOf(g, b, v) == SelectInSeq(g.vals[b], LAMBDA w : w = v)

\* A call may stand before the i-th value of b: no result of a call above it is
\* named below it.
CallSiteOK(g, b, i) == \A j \in i .. Len(g.vals[b]) :
                         LET v == g.vals[b][j]
                         IN  g.op[v] = "select" => PlaceOf(g, b, g.args[v][1]) \notin 1 .. i - 1

\* The call takes the memory the function starts with for the time being, and
\* its result stands right below it.
ExpandEqual(g, b, v) ==
  LET Call(h)   == PutAt(MakeValue(h, "call", Append(h.args[v], 1), h.id[v], TRUE), b, PlaceOf(h, b, v))
      Result(h) == PutAt(MakeValue(h, "select", <<Len(h.op)>>, 0, FALSE), b, PlaceOf(h, b, v))
      Named(h)  == [h EXCEPT !.op[v] = "same", !.args[v] = <<Len(h.op)>>]
  IN  Named(Result(Call(g)))

\* What plan lets through: the comparisons in the blocks, in order.
Comparisons(g) ==
  FlattenSeq([b \in Blocks(g) |->
    SelectSeq([i \in DOMAIN g.vals[b] |-> IF g.op[g.vals[b][i]] = "eq" /\ CallSiteOK(g, b, i) THEN g.vals[b][i] ELSE 0],
              LAMBDA v : v # 0)])

Rewrite(g) == FoldLeft(LAMBDA h, v : ExpandEqual(h, BlockOf(h, v), v), g, Comparisons(g))

-----------------------------------------------------------------------------
(* The memory chain.  exit has the state each block leaves with, 0 for one   *)
(* that is not known.                                                        *)

Known(g, exit, b) == {exit[p] : p \in ToSet(g.preds[b])} \ {0}

\* The state b starts with, when its predecessors agree or it has a phi.
MemIn(g, exit, b) == IF MemoryPhis(g, b) # <<>> THEN MemoryPhis(g, b)[1]
                     ELSE IF Known(g, exit, b) = {} THEN 0 ELSE CHOOSE m \in Known(g, exit, b) : TRUE

Disagree(g, exit, b) == MemoryPhis(g, b) = <<>> /\ Cardinality(Known(g, exit, b)) > 1

\* A phi after the phis b has, of what is known of the predecessors.
AddMemPhi(g, exit, b) ==
  PutAt(MakeValue(g, "phi", [i \in DOMAIN g.preds[b] |-> exit[g.preds[b][i]]], 0, TRUE), b,
        Cardinality(Phis(g, b)) + 1)

\* One block of a round.
VisitMemory(s, b) ==
  LET split  == Disagree(s.g, s.exit, b)
      merged == IF split THEN AddMemPhi(s.g, s.exit, b) ELSE s.g
      out    == Last(MemoryAlong(merged, MemIn(merged, s.exit, b), b))
  IN  [s EXCEPT !.g = merged, !.exit[b] = out, !.changed = @ \/ split \/ out # s.exit[b]]

\* Mutant: one round finds every join.
MemFixedPoint_Once(s, order) == FoldLeft(VisitMemory, s, order)

\* Rounds until one changes nothing; too many of them are an internal error.
RECURSIVE MemFixedPoint(_, _)
MemFixedPoint(s, order) ==
  IF s.round > Len(order) + 2 THEN s
  ELSE LET next == FoldLeft(VisitMemory, [s EXCEPT !.changed = FALSE], order)
       IN  IF next.changed THEN MemFixedPoint([next EXCEPT !.round = @ + 1], order) ELSE next

\* Every reader takes the state that is current where it stands, and a phi what
\* the predecessors leave with.
MemRetarget(g, exit) ==
  LET Takes(v) == g.op[v] # "phi" /\ g.args[v] # <<>> /\ Last(g.args[v]) \in g.mem
      Aim(h, b, i, m) == LET v == h.vals[b][i]
                         IN  IF Takes(v) /\ m # 0 THEN [h EXCEPT !.args[v][Len(h.args[v])] = m] ELSE h
      InBlock(h, b) == LET along == MemoryAlong(g, MemIn(g, exit, b), b)
                       IN  FoldLeft(LAMBDA k, i : Aim(k, b, i, along[i]), h, [i \in DOMAIN g.vals[b] |-> i])
      Leaves(p, a)  == IF exit[p] = 0 THEN a ELSE exit[p]
      AtPhi(h, b)   == IF MemoryPhis(h, b) = <<>> THEN h
                       ELSE [h EXCEPT !.args[MemoryPhis(h, b)[1]] =
                               [i \in DOMAIN @ |-> Leaves(h.preds[b][i], @[i])]]
      blocks == [b \in Blocks(g) |-> b]
  IN  FoldLeft(AtPhi, FoldLeft(InBlock, g, blocks), blocks)

\* What the fixed point ends with.
MemorySettled(g) == MemFixedPoint([g |-> g, exit |-> NoneKnown(g), changed |-> TRUE, round |-> 0],
                                  ReversePostorder(g))

RepairMemory(g) == LET s == MemorySettled(g) IN MemRetarget(s.g, s.exit)

\* Nothing is repaired where nothing was inserted.
Decomposed(g) == IF Comparisons(g) = <<>> THEN g ELSE RepairMemory(Rewrite(g))
=============================================================================
