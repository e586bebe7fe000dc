------------------------------ MODULE StackMap ------------------------------
(***************************************************************************)
(* What the collector is told of a frame: the liveness of the slots and of *)
(* the frame objects (src/ssa/liveness.go), the bitmaps at the calls       *)
(* (src/ssa/stackmap.go, BuildStackMaps) and the tables that lead from a   *)
(* program counter to them.  A slot is the item of its own number.         *)
(***************************************************************************)
EXTENDS Frame

CONSTANT Unknown    \* the value of a table that says nothing

-----------------------------------------------------------------------------
(* Liveness of the items, backwards *)

\* What the collector follows has pointers.
Followed(fr, items) == items \cap Pointered(fr.items)

\* The slots the values vs live in.
SlotsOf(slot, vs) == {slot[v] : v \in vs} \ {0}

\* What v uses: the slots it reads, and the object whose address it takes.
ItemUses(f, fr, slot, v) ==
  (IF f.op[v] = "phi" THEN {} ELSE SlotsOf(slot, ToSet(f.args[v])))
  \cup (IF f.mach[v] = "local" THEN {ItemNamed(fr.items, f.aux[v])} ELSE {})

\* What is live before the values vs when live is what is live after them.
ItemsBefore(f, fr, slot, vs, live) ==
  FoldRight(LAMBDA v, l : (l \ {slot[v]}) \cup ItemUses(f, fr, slot, v), vs, live)

\* What the successors of b need and the phis of theirs read at its end.
ItemsOut(f, slot, in, b) ==
  (UNION {in[s] : s \in ToSet(f.succs[b])})
  \cup (UNION {SlotsOf(slot, {EdgeArg(f, b, i, phi) : phi \in Phis(f, f.succs[b][i])})
               : i \in DOMAIN f.succs[b]})

\* One round over the blocks, last first; rounds until no live-in set grows.
LivenessRound(f, fr, slot, order, lv) ==
  FoldRight(LAMBDA b, l :
              LET out == l.out[b] \cup ItemsOut(f, slot, l.in, b)
              IN  [in  |-> [l.in EXCEPT ![b] = @ \cup ItemsBefore(f, fr, slot, f.vals[b], out)],
                   out |-> [l.out EXCEPT ![b] = out]],
            order, lv)

Settled(f, fr, slot, order, start) ==
  LET Sets == [Blocks(f) -> SUBSET DOMAIN fr.items]
      settled[lv \in [in : Sets, out : Sets]] ==
        LET after == LivenessRound(f, fr, slot, order, lv)
        IN  IF after.in = lv.in THEN after ELSE settled[after]
  IN  settled[start]

\* An object the table of stack objects does not describe is never dead.
Conserve(fr) == {i \in Pointered(fr.items) : fr.items[i].kind = "object" /\ ~fr.items[i].object}

\* The items live after each call, its results being written below it.
Safepoints(f, fr, slot, order) ==
  LET none == [b \in Blocks(f) |-> {}]
      lv   == Settled(f, fr, slot, order, [in |-> none, out |-> none])
      After(c) == LET b == BlockOf(f, c)
                      i == SelectInSeq(f.vals[b], LAMBDA u : u = c)
                  IN  ItemsBefore(f, fr, slot, SubSeq(f.vals[b], i + 1, Len(f.vals[b])), lv.out[b])
  IN  [c \in {v \in ToSet(FlattenSeq(f.vals)) : f.op[v] = "call"}
         |-> Followed(fr, After(c) \cup Conserve(fr))]

-----------------------------------------------------------------------------
(* The bitmaps *)

LocalsMap(fr, live) ==
  UNION {{LocalBit(fr, WordOff(fr, i, w)) : w \in fr.items[i].ptrs} : i \in live}

\* Mutant: the tail has no map of its own.
ArgsMap_Body(f, grow) == {f.in[i].off \div PtrSize : i \in {j \in DOMAIN f.in : f.in[j].ptr /\ ~f.in[j].reg}}

\* The words kept for an argument in a register are pointers in the tail that
\* grows the stack, and only there.
ArgsMap(f, grow) == {f.in[i].off \div PtrSize : i \in {j \in DOMAIN f.in : f.in[j].ptr /\ (grow \/ ~f.in[j].reg)}}

\* A map for each call in the order of the code, equal ones once, and the
\* tail's at the end.  grow is its index.
BuildStackMaps(f, fr, live, grows) ==
  LET calls == SelectSeq(FlattenSeq([i \in DOMAIN f.layout |-> f.vals[f.layout[i]]]), LAMBDA v : f.op[v] = "call")
      Add(m, c) == LET map == [locals |-> LocalsMap(fr, live[c]), args |-> ArgsMap(f, FALSE)]
                   IN  IF Contains(m.maps, map)
                       THEN [m EXCEPT !.index = @ @@ (c :> SelectInSeq(m.maps, LAMBDA x : x = map))]
                       ELSE [maps |-> Append(m.maps, map), index |-> m.index @@ (c :> Len(m.maps) + 1)]
      body  == FoldLeft(Add, [maps |-> <<>>, index |-> <<>>], calls)
  IN  [index |-> body.index,
       grow  |-> IF grows THEN Len(body.maps) + 1 ELSE Unknown,
       maps  |-> IF grows THEN Append(body.maps, [locals |-> {}, args |-> ArgsMap(f, TRUE)]) ELSE body.maps]

-----------------------------------------------------------------------------
(* Tables by program counter *)

\* A table is a sequence of pairs of a program counter and the value from there
\* on; of two at one program counter the later counts.
Lookup(table, pc) ==
  LET before == {i \in DOMAIN table : table[i][1] <= pc}
      latest == Max({table[i][1] : i \in before})
  IN  table[Max({i \in before : table[i][1] = latest})][2]

\* The map in effect: the calls' from where their code starts, the tail's from
\* where the tail does.
StackMapPCData(f, m, start, growPC) ==
  LET calls == SelectSeq(FlattenSeq([i \in DOMAIN f.layout |-> f.vals[f.layout[i]]]), LAMBDA v : f.op[v] = "call")
  IN  <<<<0, Unknown>>>> \o [k \in DOMAIN calls |-> <<start[calls[k]], m.index[calls[k]]>>]
      \o IF m.grow = Unknown THEN <<>> ELSE <<<<growPC, m.grow>>>>

\* Where no asynchronous preemption may stop: the prologue and the ranges the
\* emitter collected, or everywhere when the source says nosplit.
UnsafePoint(prologueEnd, ranges, nosplit, pc) ==
  nosplit \/ pc < prologueEnd \/ \E r \in ranges : r[1] <= pc /\ pc < r[2]
=============================================================================
