------------------------------ MODULE SSAFunc ------------------------------
(***************************************************************************)
(* The part of an SSA function the back end reads (src/ssa/ssa.go), and    *)
(* the surgery that prepares it for register allocation.                   *)
(*                                                                         *)
(* A function f is a record.  Its blocks are 1 .. n, block 1 the entry:    *)
(*   vals[b]             the values of block b, in order                   *)
(*   succs[b], preds[b]  its edges, in slot order                          *)
(* and for every value v:                                                  *)
(*   op[v]     "arg", "phi", "op", "const", "call", "select", "branch",    *)
(*             "ret", or "none" for an identifier the function lacks       *)
(*   args[v]   its operands in order, memory left out                      *)
(*   place[v]  the register an argument arrives in, NoReg for the stack    *)
(* and ptr is the set of the values that hold a pointer.  "op" stands for  *)
(* every instruction that reads registers and writes one; a block's control*)
(* is its branch or its return, the last of its values.                    *)
(***************************************************************************)
EXTENDS Integers, Sequences, SequencesExt

CONSTANTS NoId,     \* no value
          NoReg     \* no register

Blocks(f) == DOMAIN f.vals
Values(f) == UNION {ToSet(f.vals[b]) : b \in Blocks(f)}
BlockOf(f, v) == CHOOSE b \in Blocks(f) : Contains(f.vals[b], v)

\* The phis a block begins with.
Phis(f, b) == {f.vals[b][i] : i \in {j \in DOMAIN f.vals[b] :
                 \A k \in 1 .. j : f.op[f.vals[b][k]] = "phi"}}

\* The slot that the i-th edge out of b has in its successor's predecessors:
\* the k-th edge to a block is its k-th edge from there.
PredIndex(f, b, i) ==
  LET s == f.succs[b][i]
      k == Cardinality({j \in 1 .. i - 1 : f.succs[b][j] = s})
  IN  CHOOSE j \in DOMAIN f.preds[s] :
         /\ f.preds[s][j] = b
         /\ Cardinality({m \in 1 .. j - 1 : f.preds[s][m] = b}) = k

\* The operand a phi of the i-th successor takes on that edge.
EdgeArg(f, b, i, phi) == f.args[phi][PredIndex(f, b, i)]

IsCritical(f, b, i) == Len(f.succs[b]) > 1 /\ Len(f.preds[f.succs[b][i]]) > 1

\* Mutant: the new block is the last predecessor of the edge's end.
SplitEdge_Last(f, b, i) ==
  LET s == f.succs[b][i]
      d == Len(f.vals) + 1
  IN  [f EXCEPT !.vals  = Append(@, <<>>),
                !.succs = Append([@ EXCEPT ![b][i] = d], <<s>>),
                !.preds = Append([@ EXCEPT ![s] = Append(RemoveAt(@, PredIndex(f, b, i)), d)], <<b>>)]

\* A new plain block takes the edge's two slots.
SplitEdge(f, b, i) ==
  LET s == f.succs[b][i]
      d == Len(f.vals) + 1
  IN  [f EXCEPT !.vals  = Append(@, <<>>),
                !.succs = Append([@ EXCEPT ![b][i] = d], <<s>>),
                !.preds = Append([@ EXCEPT ![s][PredIndex(f, b, i)] = d], <<b>>)]

\* The critical edges out of b, in slot order.
SplitEdgesOf(f, b) ==
  LET Split(g, i) == IF IsCritical(g, b, i) THEN SplitEdge(g, b, i) ELSE g
      split[i \in 0 .. Len(f.succs[b])] == IF i = 0 THEN f ELSE Split(split[i - 1], i)
  IN  split[Len(f.succs[b])]

\* Those of the blocks there are, in order.
SplitCriticalEdges(f) ==
  LET split[b \in 0 .. Len(f.vals)] == IF b = 0 THEN f ELSE SplitEdgesOf(split[b - 1], b)
  IN  split[Len(f.vals)]

-----------------------------------------------------------------------------
(* What reads and writes what *)

\* classify: a value that occupies storage; one that is recomputed at each use.
Tracked(f) == {v \in DOMAIN f.op : f.op[v] \in {"arg", "phi", "op", "select"}}
Remats(f)  == {v \in DOMAIN f.op : f.op[v] = "const"}

\* Mutant: what has no storage is read as well.
Reads_All(f, v) == IF f.op[v] = "phi" THEN {} ELSE ToSet(f.args[v])

\* What v reads where it stands.  A phi reads nothing there: its operands are
\* read at the ends of the predecessors.
Reads(f, v) == IF f.op[v] = "phi" THEN {} ELSE ToSet(f.args[v]) \cap Tracked(f)

\* What is live before the values vs when live is what is live after them.
LiveBefore(f, vs, live) == FoldRight(LAMBDA v, l : (l \ {v}) \cup Reads(f, v), vs, live)

\* What the phis of b's successors read at the end of b.
ReadAtEnd(f, b) ==
  LET carried(i) == {EdgeArg(f, b, i, phi) : phi \in Phis(f, f.succs[b][i])}
  IN  Tracked(f) \cap UNION {carried(i) : i \in DOMAIN f.succs[b]}

-----------------------------------------------------------------------------
(* What liveness means, by paths *)

\* v is read in b before b writes it, or at the end of b without being written.
Demands(f, b, v) == \/ v \in LiveBefore(f, f.vals[b], {})
                    \/ v \in ReadAtEnd(f, b) /\ ~Contains(f.vals[b], v)

\* The blocks a path from b reaches without writing v before it arrives.
Unwritten(f, b, v) ==
  LET After(S) == UNION {ToSet(f.succs[c]) : c \in {d \in S : ~Contains(f.vals[d], v)}}
      reach[n \in 0 .. Len(f.vals)] == {b} \cup (IF n = 0 THEN {} ELSE After(reach[n - 1]))
  IN  reach[Len(f.vals)]

\* v is live at the start of b: some path from there reads it before writing it.
LiveAtStart(f, b) == {v \in Tracked(f) : \E c \in Unwritten(f, b, v) : Demands(f, c, v)}
LiveAtEnd(f, b)   == ReadAtEnd(f, b) \cup UNION {LiveAtStart(f, s) : s \in ToSet(f.succs[b])}
=============================================================================
