---------------------------- MODULE RegAnalysis ----------------------------
(***************************************************************************)
(* What the register allocator computes before it places a value           *)
(* (src/ssa/regalloc.go, linearise, ranges, safepoints), and the rules it  *)
(* places by that read nothing else: overlaps and canShareSlot.            *)
(***************************************************************************)
EXTENDS SSAFunc

CONSTANTS Ids,        \* every identifier a function may use
          Positions   \* every position a function may have

-----------------------------------------------------------------------------
(* The linearisation *)

\* How far a visit is: about to look at the i-th edge out of b, or past them all.
Visits(f) == UNION {{b} \X (1 .. Len(f.succs[b]) + 1) : b \in Blocks(f)}

\* One turn of Postorder's loop: the visit on top of the stack looks at its next
\* edge and descends into a block that was not seen, or is over.
WalkStep(f, st) ==
  LET top  == Last(st.stack)
      b    == top[1]
      i    == top[2]
      s    == f.succs[b][i]
      rest == Append(Front(st.stack), <<b, i + 1>>)
  IN  IF st.stack = <<>> THEN st
      ELSE IF i \notin DOMAIN f.succs[b] THEN [st EXCEPT !.stack = Front(@), !.post = Append(@, b)]
      ELSE [st EXCEPT !.stack = IF s \in st.seen THEN rest ELSE Append(rest, <<s, 1>>), !.seen = @ \cup {s}]

\* The walk from a block: every visit takes one turn for every edge and one more.
Walk(f, from) ==
  LET walk[n \in 0 .. Cardinality(Visits(f))] ==
        IF n = 0 THEN [stack |-> <<<<from, 1>>>>, seen |-> {from}, post |-> <<>>]
        ELSE WalkStep(f, walk[n - 1])
  IN  walk[Cardinality(Visits(f))]

ReversePostorder(f) == Reverse(Walk(f, 1).post)

\* Mutant: the end of a block has no position of its own.
Row_NoEnd(f, b) == f.vals[b]

\* Every value of a block has a position, and so has its end.
Row(f, b) == Append(f.vals[b], NoId)

Linearise(f) ==
  LET order == ReversePostorder(f)
      before[k \in 0 .. Len(order)] == IF k = 0 THEN 0 ELSE before[k - 1] + Len(Row(f, order[k]))
      place(b)  == CHOOSE k \in DOMAIN order : order[k] = b
      first     == [b \in Blocks(f) |-> before[place(b) - 1]]
      placed    == {v \in Values(f) : BlockOf(f, v) \in ToSet(order)}
      index(v)  == CHOOSE i \in DOMAIN f.vals[BlockOf(f, v)] : f.vals[BlockOf(f, v)][i] = v
      pos       == [v \in Ids |-> IF v \in placed THEN first[BlockOf(f, v)] + index(v) - 1 ELSE -1]
  IN  [order |-> order,
       at    |-> [p \in Positions |-> IF \E v \in placed : pos[v] = p
                                      THEN CHOOSE v \in placed : pos[v] = p ELSE NoId],
       pos   |-> pos,
       first |-> first,
       last  |-> [b \in Blocks(f) |-> before[place(b)] - 1]]

-----------------------------------------------------------------------------
(* Ranges, from the linearisation l and the liveness li, lo *)

\* Mutant: a result of a call is written only where it stands.
Writes_NoCall(f, l, v) ==
  {l.pos[v]} \cup IF f.op[v] = "phi" THEN {l.last[p] : p \in ToSet(f.preds[BlockOf(f, v)])} ELSE {}

\* Where a value is written: where it stands, where its call stands, and at the
\* end of each predecessor of a phi's block, where the copies run.
Writes(f, l, v) ==
  {l.pos[v]} \cup CASE f.op[v] = "select" -> {l.pos[f.args[v][1]]}
                    [] f.op[v] = "phi"    -> {l.last[p] : p \in ToSet(f.preds[BlockOf(f, v)])}
                    [] OTHER              -> {}

\* Where a value is read.
Uses(f, l, v) == {l.pos[u] : u \in {w \in Values(f) : v \in Reads(f, w)}}
                 \cup {l.last[b] : b \in {c \in Blocks(f) : v \in ReadAtEnd(f, c)}}

\* Mutant: what is live at the end of a block need not last until there.
Covers_NoLiveOut(f, l, li, lo, v) ==
  Writes(f, l, v) \cup Uses(f, l, v) \cup {l.first[b] : b \in {c \in Blocks(f) : v \in li[c]}}

\* The positions the live range of v has to cover.
Covers(f, l, li, lo, v) == Writes(f, l, v) \cup Uses(f, l, v)
                           \cup {l.first[b] : b \in {c \in Blocks(f) : v \in li[c]}}
                           \cup {l.last[b] : b \in {c \in Blocks(f) : v \in lo[c]}}

Calls(f) == {v \in Values(f) : f.op[v] = "call"}

\* What is live after the call c and before it: what the call would destroy in
\* a register.
LiveAcross(f, lo, c) ==
  LET b == BlockOf(f, c)
      i == CHOOSE k \in DOMAIN f.vals[b] : f.vals[b][k] = c
  IN  LiveBefore(f, SubSeq(f.vals[b], i + 1, Len(f.vals[b])), lo[b])

\* The analysis the scan reads, and the safepoints.
Analyse(f, l, li, lo) ==
  LET tracked == Tracked(f)
      covers  == [v \in tracked |-> Covers(f, l, li, lo, v)]
      start   == [v \in Ids |-> IF v \in tracked THEN Min(covers[v]) ELSE 0]
      end     == [v \in Ids |-> IF v \in tracked THEN Max(covers[v]) ELSE 0]
      safe    == [c \in Calls(f) |-> LiveAcross(f, lo, c)]
      across  == {v \in tracked : \E c \in Calls(f) :
                    v \in safe[c] /\ start[v] < l.pos[c] /\ l.pos[c] < end[v]}
  IN  [an   |-> [tracked |-> tracked,
                 start   |-> start,
                 end     |-> end,
                 at      |-> l.at,
                 uses    |-> [v \in Ids |-> IF v \in tracked THEN Uses(f, l, v) ELSE {}],
                 phi     |-> {v \in tracked : f.op[v] = "phi"},
                 twoAddr |-> {},
                 class   |-> [v \in Ids |-> "int"],
                 wide    |-> {},
                 across  |-> across,
                 defReg  |-> [v \in Ids |-> IF v \in tracked /\ f.op[v] = "arg"
                                            THEN f.place[v] ELSE NoReg]],
       safe |-> safe]

-----------------------------------------------------------------------------
(* Sharing a slot *)

\* The closed form: ranges that touch at one position overlap.
Overlaps(an, u, v) == an.start[u] <= an.end[v] /\ an.start[v] <= an.end[u]

\* u holds a pointer and is live at a call inside the range of v.
PointerLiveAtSafepointIn(f, l, an, safe, u, v) ==
  u \in f.ptr /\ \E c \in Calls(f) : /\ l.pos[c] \in an.start[v] .. an.end[v]
                                     /\ u \in safe[c]

\* Mutant: the ranges may touch and more.
CanShareSlot_AnyRange(f, l, an, safe, u, v) == u \in f.ptr <=> v \in f.ptr

CanShareSlot(f, l, an, safe, u, v) ==
  /\ ~Overlaps(an, u, v)
  /\ u \in f.ptr <=> v \in f.ptr
  /\ ~PointerLiveAtSafepointIn(f, l, an, safe, u, v)
  /\ ~PointerLiveAtSafepointIn(f, l, an, safe, v, u)

\* v takes the first slot that accepts it, or a new one.  A slot is the set of
\* its values.
WithSlot(f, l, an, safe, slots, v) ==
  LET accepts == {i \in DOMAIN slots : \A u \in slots[i] : CanShareSlot(f, l, an, safe, u, v)}
  IN  IF accepts # {} THEN [slots EXCEPT ![Min(accepts)] = @ \cup {v}] ELSE Append(slots, {v})

\* Each spilled value gets its slot, by identifier: placed[n] once the values
\* below n have theirs.
AssignSlots(f, l, an, safe, spilled) ==
  LET Place(slots, v) == IF v \in spilled THEN WithSlot(f, l, an, safe, slots, v) ELSE slots
      placed[n \in 0 .. Max(spilled \cup {0}) + 1] == IF n = 0 THEN <<>> ELSE Place(placed[n - 1], n - 1)
  IN  placed[Max(spilled \cup {0}) + 1]
=============================================================================
