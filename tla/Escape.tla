------------------------------- MODULE Escape -------------------------------
(***************************************************************************)
(* Escape analysis (src/escape/escape.go): what the caller of a function is*)
(* told of each parameter.  A program is a tree of Construction's nodes,   *)
(* and its ptrs are the variables whose type has pointers.                 *)
(*                                                                         *)
(* A flow is the number of dereferences between the value of the parameter *)
(* and another value, NoRef where nothing of the parameter gets.  A walk a *)
(* has the flows to variables and to results by their number, and whether  *)
(* the parameter leaked.                                                   *)
(***************************************************************************)
EXTENDS Integers, SequencesExt, FiniteSetsExt

MaxDerefs  == 255
NoRef      == MaxDerefs + 1
NumResults == 5
MaxRounds  == 1000
HeapNote   == {0}       \* the caller has to assume anything

Shift(f, k) == IF f = NoRef THEN NoRef ELSE Min({f + k, MaxDerefs})

\* A variable without a pointer holds no reference.
Carries(p, f, x) == IF x \in p.ptrs THEN f ELSE NoRef

-----------------------------------------------------------------------------
(* The state of a walk *)

Tainted(a, x) == IF x \in DOMAIN a.tainted THEN a.tainted[x] ELSE NoRef
Flow(a, x)    == Tainted(a, x)
Mentions(a, vars) == \E x \in vars : Tainted(a, x) # NoRef

LeakIf(a, c) == [a EXCEPT !.leaked = @ \/ c]

\* x may hold a value that is f dereferences away.
Taint(a, x, f) == IF f >= Tainted(a, x) THEN a
                  ELSE [a EXCEPT !.tainted = (x :> f) @@ @, !.changed = TRUE]

\* So may the i-th result.
ToResult(a, i, f) ==
  CASE f = NoRef -> a
    [] f # NoRef /\ i > NumResults -> LeakIf(a, TRUE)
    [] OTHER -> [a EXCEPT !.results = (i :> Min({f} \cup {@[j] : j \in DOMAIN @ \cap {i}})) @@ @]

-----------------------------------------------------------------------------
(* The walk *)

\* An assignment to a variable of the frame.
StoreVar(p, a, x, f) == Taint(a, x, Carries(p, f, x))

\* An assignment through the pointer x: the value may reach the heap, and a write
\* through what the caller passed is one the note would deny.
StoreThrough(a, x, f) == LeakIf(a, f # NoRef \/ Mentions(a, {x}))

\* The values of a return go to the results by their position.  One without
\* values names nothing.
Ret(p, a, n) ==
  LET f(i) == Carries(p, Flow(a, n.reads[i]), p.results[i])
  IN  IF Len(n.reads) = Len(p.results)
      THEN FoldLeft(LAMBDA b, i : ToResult(b, i, f(i)), a, [i \in DOMAIN n.reads |-> i])
      ELSE LeakIf(a, Mentions(a, ToSet(n.reads)))

RECURSIVE NodeFlow(_, _, _)
Walked(p, a, list) == FoldLeft(LAMBDA b, n : NodeFlow(p, b, n), a, list)

\* One node.  The address of a field of what y points to is one dereference
\* less than the field itself.  Tests, divides, indexes, declarations and jumps
\* carry no reference.
NodeFlow(p, a, n) ==
  CASE n.op = "copy"  -> StoreVar(p, a, n.x, Flow(a, n.y))
    [] n.op = "load"  -> StoreVar(p, a, n.x, Shift(Flow(a, n.reads[1]), 1))
    [] n.op = "field" -> StoreVar(p, a, n.x, Shift(Flow(a, n.reads[1]), 1 - 1))
    [] n.op = "store" -> StoreThrough(a, n.reads[1], Flow(a, n.reads[2]))
    [] n.op = "put"   -> LeakIf(a, Flow(a, n.y) # NoRef)
    [] n.op = "call"  -> LeakIf(a, Mentions(a, ToSet(n.reads)))
    [] n.op = "return" -> Ret(p, a, n)
    [] n.op = "if"    -> Walked(p, Walked(p, a, n.body), n.els)
    [] n.op = "for"   -> Walked(p, Walked(p, a, n.body), n.post)
    [] n.op \in {"switch", "case", "label"} -> Walked(p, a, n.body)
    [] OTHER -> a

\* Mutant: one walk sees every flow.
Rounds_Once(p, a, round) == Walked(p, a, p.body)

\* Walks until one finds nothing new; a leak ends them.
RECURSIVE Rounds(_, _, _)
Rounds(p, a, round) ==
  IF round > MaxRounds THEN LeakIf(a, TRUE)
  ELSE LET next == Walked(p, [a EXCEPT !.changed = FALSE], p.body)
       IN  IF next.leaked \/ ~next.changed THEN next ELSE Rounds(p, next, round + 1)

-----------------------------------------------------------------------------
(* The note *)

\* What reached a named result leaves with it, whatever returns name.
NamedResults(p, a) == FoldLeft(LAMBDA b, i : ToResult(b, i, Flow(b, p.results[i])), a, [i \in DOMAIN p.results |-> i])

\* A flow that is not the value itself is not described.
AnalyseParam(p, x) ==
  LET a == NamedResults(p, Rounds(p, [tainted |-> (x :> 0), results |-> <<>>, leaked |-> FALSE, changed |-> FALSE], 0))
  IN  IF a.leaked \/ \E i \in DOMAIN a.results : a.results[i] # 0 THEN HeapNote ELSE DOMAIN a.results

\* The results by which each parameter may leave, or HeapNote.
Notes(p) == [x \in ToSet(p.params) |-> IF x \in p.ptrs THEN AnalyseParam(p, x) ELSE HeapNote]
=============================================================================
