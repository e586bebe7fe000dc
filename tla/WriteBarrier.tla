---------------------------- MODULE WriteBarrier ----------------------------
(***************************************************************************)
(* The pass that gives pointer stores their write barrier                  *)
(* (src/ssa/writebarrier.go).  After selection a value has, beyond the     *)
(* fields of SSAFunc,                                                      *)
(*   mach[v]  "local", "static" and "nil" for constants; "load" and "flag" *)
(*            for what reads memory; "store"; "wb" for the call of the     *)
(*            barrier; and aux[v] the object or the function it names,     *)
(*   off[v]   the word of an object that a load or a store displaces by,   *)
(* and layout is the sequence of the blocks in the order of the code.      *)
(* diamond collects what the pass builds, from the branch on the flag to   *)
(* the store.                                                              *)
(***************************************************************************)
EXTENDS SSAFunc

\* An unused block and n unused values, added to f.
NewBlock(f) == [f EXCEPT !.vals = Append(@, <<>>), !.succs = Append(@, <<>>), !.preds = Append(@, <<>>)]

\* A new value, the last of block b for now, and what it names.
AddValue(f, b, op, mach, args) ==
  [f EXCEPT !.vals[b] = Append(@, Len(f.op) + 1), !.op = Append(@, op), !.mach = Append(@, mach),
            !.args = Append(@, args)]
Naming(f, aux, off) == [f EXCEPT !.aux = Append(@, aux), !.off = Append(@, off)]
NewValue(f, b, op, mach, args, aux, off) == Naming(AddValue(f, b, op, mach, args), aux, off)

AddEdge(f, b, s) == [f EXCEPT !.succs[b] = Append(@, s), !.preds[s] = Append(@, b)]

\* Mutant: no store to a global needs a barrier.
NeedsBarrier_NotStatic(f, v) == /\ f.mach[v] = "store"
                                /\ f.args[v][2] \in f.ptr
                                /\ f.mach[f.args[v][1]] \notin {"local", "static"}
                                /\ v \notin f.diamond

\* A store of a pointer to what is not provably the frame.  The store stays in
\* the function after it got its barrier.
NeedsBarrier(f, v) == /\ f.mach[v] = "store"
                      /\ f.args[v][2] \in f.ptr
                      /\ f.mach[f.args[v][1]] # "local"
                      /\ v \notin f.diamond

\* The word a store is about to overwrite.
Destination(f, st) == [addr |-> f.args[st][1], off |-> f.off[st]]

\* wb and cont come right after b in the order of the code.
Place(layout, b, wb, cont) ==
  LET p == Min({i \in DOMAIN layout : layout[i] = b})
  IN  InsertAt(InsertAt(layout, p + 1, wb), p + 2, cont)

\* The values of b from the one at index at on, with the ways out of b, are a
\* block of their own; another block, for the detour, comes before it.
Cut(f, b, at) ==
  LET wb   == Len(f.vals) + 1
      cont == Len(f.vals) + 2
  IN  [NewBlock(NewBlock(f)) EXCEPT
         !.vals   = [@ EXCEPT ![b] = SubSeq(f.vals[b], 1, at - 1), ![cont] = SubSeq(f.vals[b], at, Len(f.vals[b]))],
         !.succs  = [@ EXCEPT ![b] = <<>>, ![cont] = f.succs[b]],
         !.preds  = [s \in DOMAIN @ |-> [j \in DOMAIN @[s] |-> IF @[s][j] = b THEN cont ELSE @[s][j]]],
         !.layout = Place(@, b, wb, cont)]

\* The diamond around the store at index at of b: b reads the flag and
\* branches; the detour loads the word about to be overwritten, takes two
\* places in the buffer and writes the new pointer and the old one there; the
\* rest of b begins with the store.  Of the values only the old one is a pointer
\* the collector follows.
Barrier(f, b, at) ==
  LET st   == f.vals[b][at]
      dst  == Destination(f, st)
      n    == Len(f.op)
      wb   == Len(f.vals) + 1
      cont == Len(f.vals) + 2
      addr == NewValue(Cut(f, b, at), b, "const", "static", <<>>, "flag", 0)
      flag == NewValue(addr, b, "op", "flag", <<n + 1>>, NoId, 0)
      ctrl == AddEdge(AddEdge(NewValue(flag, b, "branch", "none", <<n + 2>>, NoId, 0), b, wb), b, cont)
      old  == NewValue(ctrl, wb, "op", "load", <<dst.addr>>, NoId, dst.off)
      call == NewValue(old, wb, "call", "wb", <<>>, NoId, 0)
      buf  == NewValue(call, wb, "select", "none", <<n + 5>>, NoId, 0)
      m1   == NewValue(buf, wb, "store", "store", <<n + 6, f.args[st][2]>>, NoId, 0)
      m2   == NewValue(m1, wb, "store", "store", <<n + 6, n + 4>>, NoId, 1)
  IN  AddEdge([m2 EXCEPT !.ptr = @ \cup {n + 4},
                         !.diamond = @ \cup {n + 3, n + 4, n + 5, n + 6, n + 7, n + 8, st}], wb, cont)

\* The first store of at.b that needs a barrier gets one, and the walk goes on in
\* the block the rest moved to.
NextBarrier(at) ==
  LET needing == {i \in DOMAIN at.f.vals[at.b] : NeedsBarrier(at.f, at.f.vals[at.b][i])}
  IN  IF needing = {} THEN at
      ELSE [f |-> Barrier(at.f, at.b, Min(needing)), b |-> Len(at.f.vals) + 2]

\* At most once for every value of b.
BarriersOf(f, b) ==
  LET walked[k \in 0 .. Len(f.vals[b])] == IF k = 0 THEN [f |-> f, b |-> b] ELSE NextBarrier(walked[k - 1])
  IN  walked[Len(f.vals[b])].f

WriteBarriers(f) ==
  LET barred[k \in 0 .. Len(f.layout)] == IF k = 0 THEN f ELSE BarriersOf(barred[k - 1], f.layout[k])
  IN  barred[Len(f.layout)]
=============================================================================
