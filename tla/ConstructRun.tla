---------------------------- MODULE ConstructRun ----------------------------
(***************************************************************************)
(* A program and the function that construction, decomposition and lowering*)
(* make of it, run side by side once the liveness of the function is known.*)
(*                                                                         *)
(* What a run shows of itself is its observations: the calls, the tests,   *)
(* the panics of a divide, an index or a nil pointer, and the return, each *)
(* with the values it reads and the memory it finds.  A value is a bit, and*)
(* what a call or a test answers is any bit, the same one for both.  The   *)
(* function carries over an edge what liveness says is live there and      *)
(* nothing else, and of the memory states only the newest counts.          *)
(*                                                                         *)
(* Where the variables of a program hold pointers 0 is nil, 1 an object    *)
(* that is not the caller's, and each parameter nil or an object of its    *)
(* own, which points to itself.  A call leaves what it returns in the      *)
(* global.                                                                 *)
(***************************************************************************)
EXTENDS RegLiveness, Construction, Lower, Escape

CONSTANT NoProgram  \* the function was not built from a program

VARIABLES prog,   \* the program
          built,  \* what construction made of it
          low,    \* and what decomposition and lowering made of that
          src,    \* where the program is: path, k, the test of it, tag, store,
                  \* heap, and the notes of its parameters
          at      \* where the function is: block, i, env, memory, heap

runVars == <<livenessVars, prog, built, low, src, at>>

Bits   == {0, 1}
Lost   == 2         \* read from a value that is not there
Stale  == -1        \* shown by a read of a memory state that is not the newest
Nothing == -2       \* shown by a run that goes round for ever
Absent == [started |-> FALSE]

Global   == 3       \* the address of the global
Own(i)   == 3 + i   \* the object of the i-th parameter
Objects(p) == {Own(i) : i \in {j \in DOMAIN p.params : p.params[j] \in p.ptrs}}
AtEntry(p) == (1 :> 0) @@ (Global :> 0) @@ [o \in Objects(p) |-> o]

-----------------------------------------------------------------------------
(* The program.  A path leads to a node: steps of a part and an index.      *)

Node(path) == FoldLeft(LAMBDA n, s : n[s[1]][s[2]], prog, path)

RECURSIVE Leave(_, _), After(_), Paths(_)

\* The first statement of a part, and what follows a part or a statement.
First(path, part) == IF Node(path)[part] = <<>> THEN Leave(path, part) ELSE Append(path, <<part, 1>>)
Leave(path, part) == LET n == Node(path)
                     IN  CASE n.op = "func" -> path
                           [] n.op = "for" /\ part = "body" -> First(path, "post")
                           [] n.op = "for" /\ part = "post" -> path
                           [] n.op = "case" -> After(Front(path))
                           [] OTHER -> After(path)
After(path) == LET list == Front(path)
                   s    == Last(path)
               IN  IF s[2] < Len(Node(list)[s[1]]) THEN Append(list, <<s[1], s[2] + 1>>) ELSE Leave(list, s[1])

Paths(path) == LET n == Node(path)
                   steps == UNION {{<<part, i>> : i \in DOMAIN n[part]} : part \in {"body", "els", "post"} \cap DOMAIN n}
               IN  {path} \cup UNION {Paths(Append(path, s)) : s \in steps}

Labelled(path, name) == LET n == Node(path) IN n.op = "label" /\ n.name = name

\* The loop or switch that a break or a continue of this name leaves.
Around(path, name, ops) ==
  LET Fits(k) == LET q == SubSeq(path, 1, k)
                 IN  Node(q).op \in ops /\ (name = NoName \/ (k > 0 /\ Labelled(Front(q), name)))
  IN  SubSeq(path, 1, CHOOSE k \in 0 .. Len(path) : Fits(k) /\ \A j \in k + 1 .. Len(path) : ~Fits(j))

\* The tests of the node, the tag of a switch first.
TestsOf(n) == CASE n.op \in {"if", "for"} -> n.cond.tests
                [] n.op = "switch" -> (IF n.tag.reads = <<>> THEN <<>> ELSE <<n.tag>>)
                                      \o [i \in DOMAIN ClauseTests(n) |-> ClauseTests(n)[i][2]]
                [] OTHER -> <<>>

\* A zero divisor, an index that is not below its length, or a nil pointer.
Panics(s) == LET n == Node(s.path)
             IN  \/ n.op = "div" /\ s.store[n.reads[2]] = 0
                 \/ n.op = "index" /\ s.store[n.reads[1]] >= s.store[n.reads[2]]
                 \/ n.op \in {"load", "field", "store"} /\ s.store[n.reads[1]] = 0

Observes(s) == LET n == Node(s.path)
               IN  \/ n.op \in {"call", "return", "func"}
                   \/ Panics(s)
                   \/ TestsOf(n) # <<>>

GoTo(s, path) == [s EXCEPT !.path = path, !.k = 1]

\* The default clause of the switch at path, or what follows it.
Fallback(path) == LET d == DefaultClause(Node(path))
                  IN  IF d = 0 THEN After(path) ELSE First(Append(path, <<"body", d>>), "body")

\* A statement that shows nothing.
Silent(s) ==
  LET n == Node(s.path)
      p == s.path
  IN  CASE n.op = "copy"        -> [GoTo(s, After(p)) EXCEPT !.store[n.x] = s.store[n.y]]
        [] n.op = "declare"     -> [GoTo(s, After(p)) EXCEPT !.store[n.x] = 0]
        [] n.op = "div"         -> [GoTo(s, After(p)) EXCEPT !.store[n.x] = s.store[n.reads[1]]]
        [] n.op = "index"       -> GoTo(s, After(p))
        [] n.op = "load"        -> [GoTo(s, After(p)) EXCEPT !.store[n.x] = s.heap[s.store[n.reads[1]]]]
        [] n.op = "field"       -> [GoTo(s, After(p)) EXCEPT !.store[n.x] = s.store[n.reads[1]]]
        [] n.op = "store"       -> [GoTo(s, After(p)) EXCEPT !.heap[s.store[n.reads[1]]] = s.store[n.reads[2]]]
        [] n.op = "get"         -> [GoTo(s, After(p)) EXCEPT !.store[n.x] = s.heap[Global]]
        [] n.op = "put"         -> [GoTo(s, After(p)) EXCEPT !.heap[Global] = s.store[n.y]]
        [] n.op = "label"       -> GoTo(s, First(p, "body"))
        [] n.op = "for"         -> GoTo(s, First(p, "body"))
        [] n.op = "switch"      -> GoTo(s, Fallback(p))
        [] n.op = "break"       -> GoTo(s, After(Around(p, n.name, {"for", "switch"})))
        [] n.op = "continue"    -> GoTo(s, Leave(Around(p, n.name, {"for"}), "body"))
        [] n.op = "goto"        -> GoTo(s, CHOOSE q \in Paths(<<>>) : Labelled(q, n.name))
        [] n.op = "fallthrough" -> LET c == Around(p, NoName, {"case"})
                                   IN  GoTo(s, First(Append(Front(c), <<"body", Last(c)[2] + 1>>), "body"))

\* To the next statement that shows, or to where the program was before: then it
\* goes round and shows nothing.
RECURSIVE ToNext(_, _)
ToNext(s, been) == IF Observes(s) \/ s \in been THEN s ELSE ToNext(Silent(s), been \cup {s})

\* What the program is about to show, but for the memory.
Showing(s) ==
  LET n == Node(s.path)
      Of(vars2) == [i \in DOMAIN vars2 |-> s.store[vars2[i]]]
      tagged == n.op = "switch" /\ n.tag.reads # <<>>
      t == TestsOf(n)[s.k]
  IN  IF ~Observes(s) THEN [id |-> Nothing, reads |-> <<>>]
      ELSE CASE n.op \in {"call", "index"} -> [id |-> n.id, reads |-> Of(n.reads)]
             [] n.op \in {"div", "load", "field", "store"} -> [id |-> n.id, reads |-> <<>>]
             [] n.op = "func" -> [id |-> 0, reads |-> Of(n.results)]
             [] n.op = "return" -> [id |-> n.id, reads |-> Of(IF n.reads = <<>> THEN prog.results ELSE n.reads)]
             [] OTHER -> [id |-> t.id, reads |-> (IF tagged /\ s.k > 1 THEN <<s.tag>> ELSE <<>>) \o Of(t.reads)]

Shown(s) == Showing(s) @@ [heap |-> s.heap]

Ended(s) == Node(s.path).op \in {"return", "func"} \/ Panics(s) \/ ~Observes(s)

\* The program goes on with the answer r.
Answered(s, r) ==
  LET n == Node(s.path)
      p == s.path
      more    == s.k < Len(TestsOf(n))
      decided == n.op \in {"if", "for"} /\ (~more \/ r = (IF n.cond.op = "and" THEN 0 ELSE 1))
      tagged  == n.op = "switch" /\ n.tag.reads # <<>>
      clause  == ClauseTests(n)[IF tagged THEN s.k - 1 ELSE s.k][1]
  IN  ToNext(
      CASE n.op = "call" -> [GoTo(s, After(p)) EXCEPT !.store = IF n.x = Memory THEN @ ELSE [@ EXCEPT ![n.x] = r],
                                                      !.heap[Global] = IF prog.ptrs = {} THEN @ ELSE r]
        [] n.op \in {"if", "for"} /\ ~decided -> [s EXCEPT !.k = @ + 1]
        [] decided /\ r = 1 -> GoTo(s, First(p, "body"))
        [] decided /\ r = 0 -> GoTo(s, IF n.op = "if" THEN First(p, "els") ELSE After(p))
        [] tagged /\ s.k = 1 -> IF more THEN [s EXCEPT !.k = 2, !.tag = r] ELSE GoTo(s, Fallback(p))
        [] n.op = "switch" /\ r = 1 -> GoTo(s, First(Append(p, <<"body", clause>>), "body"))
        [] OTHER -> IF more THEN [s EXCEPT !.k = @ + 1] ELSE GoTo(s, Fallback(p)), {})

-----------------------------------------------------------------------------
(* The function *)

Reading(env, v) == IF low.op[v] = "const" THEN 0 ELSE IF v \in DOMAIN env THEN env[v] ELSE Lost

\* Over the i-th edge out of the block: the phis at once, from what is live.
Cross(f, i) ==
  LET s    == low.succs[f.block][i]
      phis == Phis(low, s)
      left == [v \in DOMAIN f.env \cap liveOut[f.block] |-> f.env[v]]
      Arg(v) == EdgeArg(low, f.block, i, v)
  IN  [block  |-> s,
       i      |-> 1,
       env    |-> [v \in phis \ low.mem |-> Reading(left, Arg(v))]
                  @@ [v \in DOMAIN left \cap liveIn[s] |-> left[v]],
       heap   |-> f.heap,
       memory |-> {v \in phis \cap low.mem : Arg(v) \in f.memory} \cup (f.memory \ phis)]

\* The memory state that v reads is the newest.
UpToDate(f, v) == ToSet(low.args[v]) \cap low.mem \subseteq f.memory

\* What a value that shows nothing is.
Value(f, v) == LET a == [i \in DOMAIN low.args[v] |-> Reading(f.env, low.args[v][i])]
               IN  CASE low.op[v] \in {"same", "quotient"} -> a[1]
                     [] low.op[v] = "test" -> IF Len(a) = 1 THEN a[1] ELSE IF a[1] < a[2] THEN 1 ELSE 0
                     [] low.op[v] = "addr" -> Global
                     [] low.op[v] = "load" -> IF UpToDate(f, v) /\ a[1] \in DOMAIN f.heap THEN f.heap[a[1]] ELSE Lost

\* A store, of nothing where it is not on the newest state.
Stored(f, v) == LET to == Reading(f.env, low.args[v][1])
                    w  == IF UpToDate(f, v) THEN Reading(f.env, low.args[v][2]) ELSE Lost
                IN  [f EXCEPT !.heap = [x \in DOMAIN @ |-> IF x = to THEN w ELSE @[x]], !.memory = {v}]

Hidden(f) == LET v == low.vals[f.block][f.i]
                 g == [f EXCEPT !.i = @ + 1]
             IN  CASE low.op[v] \in {"same", "quotient", "test", "addr", "load"} -> [g EXCEPT !.env = (v :> Value(f, v)) @@ @]
                   [] low.op[v] = "store" -> Stored(g, v)
                   [] OTHER -> g

\* A value that shows: a nil check does when it faults.
Shows(f, v) == low.op[v] \in {"call", "op", "ret"} \/ (low.op[v] = "nilcheck" /\ Reading(f.env, low.args[v][1]) = 0)

\* To the next value that shows, or, where the function goes round and shows
\* nothing, to the end of a block.
RECURSIVE ToNextValue(_, _)
ToNextValue(f, fuel) ==
  IF f.i > Len(low.vals[f.block])
  THEN IF fuel = 0 THEN f
       ELSE ToNextValue(Cross(f, IF Len(low.succs[f.block]) = 2 /\ Reading(f.env, low.control[f.block]) = 0
                                 THEN 2 ELSE 1), fuel - 1)
  ELSE IF Shows(f, low.vals[f.block][f.i]) THEN f
  ELSE ToNextValue(Hidden(f), fuel)

NextValue(f) == ToNextValue(f, Len(low.vals))

Current(f) == low.vals[f.block][f.i]

\* What the function is about to show: a memory state it reads is the newest.
ShownBy(f) ==
  IF f.i > Len(low.vals[f.block]) THEN [id |-> Nothing, reads |-> <<>>, heap |-> f.heap]
  ELSE LET v == Current(f)
           ordinary == IF low.op[v] = "nilcheck" THEN <<>>
                       ELSE SelectSeq(low.args[v], LAMBDA a : a \notin low.mem)
       IN  [id    |-> IF UpToDate(f, v) THEN low.id[v] ELSE Stale,
            reads |-> [j \in DOMAIN ordinary |-> Reading(f.env, ordinary[j])],
            heap  |-> f.heap]

AnsweredBy(f, r) ==
  LET v == Current(f)
      written == {v} \cup {w \in DOMAIN low.op : low.op[w] = "select" /\ low.args[w] = <<v>>}
  IN  NextValue([f EXCEPT !.i = @ + 1, !.env = [w \in written |-> r] @@ @,
                          !.memory = IF v \in low.mem THEN {v} ELSE @,
                          !.heap[Global] = IF low.op[v] = "call" /\ prog.ptrs # {} THEN r ELSE @])

-----------------------------------------------------------------------------
(* The two together *)

RunInit == /\ InitLiveness
           /\ src = Absent
           /\ at = Absent

Running == src # Absent

Liveness == LivenessNext /\ UNCHANGED <<prog, built, low, src, at>>

\* A function that the verifier refuses is not run.
Start == /\ settled /\ ~Running /\ prog # NoProgram /\ Verify(low)
         /\ \E bits \in [ToSet(prog.params) -> Bits] :
              LET value(i) == IF prog.params[i] \in prog.ptrs /\ bits[prog.params[i]] = 1 THEN Own(i)
                              ELSE bits[prog.params[i]]
                  params   == [x \in ToSet(prog.params) |-> value(SelectInSeq(prog.params, LAMBDA y : y = x))]
                  arg(i)   == SelectSeq(low.vals[1], LAMBDA v : low.op[v] = "arg")[i]
                  zero     == [x \in ToSet(prog.results \o prog.locals) |-> 0]
              IN  /\ src' = ToNext([started |-> TRUE, path |-> First(<<>>, "body"), k |-> 1, tag |-> 0, store |-> params @@ zero,
                                     heap |-> AtEntry(prog), notes |-> Notes(prog)], {})
                  /\ at' = NextValue([block |-> 1, i |-> 1, memory |-> {1}, heap |-> AtEntry(prog),
                                      env |-> [v \in {arg(i) : i \in DOMAIN prog.params} |->
                                                value(CHOOSE i \in DOMAIN prog.params : arg(i) = v)]])
         /\ UNCHANGED <<livenessVars, prog, built, low>>

\* Both show the same, and both get the same answer.
Observe == /\ Running /\ ~Ended(src)
           /\ Shown(src) = ShownBy(at)
           /\ \E r \in Bits : src' = Answered(src, r) /\ at' = AnsweredBy(at, r)
           /\ UNCHANGED <<livenessVars, prog, built, low>>

RunNext == Liveness \/ Start \/ Observe

-----------------------------------------------------------------------------
(* Properties *)

\* The function and its liveness are there, and nothing runs yet.
Ready == settled /\ ~Running

\* The function does what its program says: the same calls, tests and return in
\* the same order with the same operands, each on the newest memory state,
\* though it keeps on every edge only what liveness finds live.
RunsAlike == Running => Shown(src) = ShownBy(at)

\* What the caller was told of a parameter is so, on every path: unless the note
\* is that it may go anywhere, the object it points to is in no other object and
\* no global, was not written, is given to no callee, and leaves by no result
\* but those the note names.
NotesHold ==
  Running =>
    \A i \in DOMAIN prog.params :
      LET note == src.notes[prog.params[i]]
          n    == Node(src.path)
          shown == Showing(src).reads
      IN  Own(i) \in Objects(prog) /\ note # HeapNote =>
            /\ \A o \in DOMAIN src.heap : (src.heap[o] = Own(i)) = (o = Own(i))
            /\ n.op = "call" => ~Contains(shown, Own(i))
            /\ n.op \in {"return", "func"} => \A j \in DOMAIN shown : shown[j] = Own(i) => j \in note

\* Memory is read in b or on a way from it; a return reads it too.
ReadBelow(f, b) == \E e \in Walk(f, b).seen : \E v \in ToSet(f.vals[e]) : TakesMemory(f, v)

\* What the passes hand over goes through the verifier: every operand is in
\* scope and every phi has an operand for each edge, after the blocks that
\* turned out to be unreachable are gone; one memory state is current everywhere
\* and read by every value that reads memory, after decomposition has put calls
\* in and lowering has cut the blocks.  Construction and the verifier disagree of
\* one kind of function only: one with a join of two states from which no way
\* leads to a read of memory or to a return.
VerifierAccepts ==
  Ready /\ prog # NoProgram =>
    LET whole == Decomposed(built)
    IN  /\ CheckFunction(whole) /\ ReadsCurrent(whole)
        /\ \A b \in Unmerged(whole) : ~ReadBelow(whole, b)
        /\ Unmerged(whole) = {} => Verify(low)

\* Every edge back, in the order of the blocks, leads to a block that dominates
\* the one it leaves.
Reducible(f) == LET idom == Idom(f)
                    Place(b) == SelectInSeq(order, LAMBDA c : c = b)
                IN  \A b \in Blocks(f) : \A s \in ToSet(f.succs[b]) : Place(s) <= Place(b) => Dominates(idom, s, b)

\* The phis are no more than are needed: on a reducible graph no set of phis
\* merges one value with themselves alone, on any other no single phi does,
\* whatever order the blocks were sealed in and whatever was removed late.
MinimalPhis ==
  Ready /\ prog # NoProgram =>
    LET phis == UNION {Phis(built, b) : b \in Blocks(built)}
        sets == IF Reducible(built) THEN (SUBSET phis) \ {{}} ELSE {{v} : v \in phis}
    IN  \A S \in sets : Cardinality((UNION {ToSet(built.args[v]) : v \in S}) \ S) > 1

\* a is on every path from the entry to b.
OnEveryPath(a, b) == a = b \/ b \notin Walk([fn EXCEPT !.succs[a] = <<>>], 1).seen

\* The tree's dominance is the definition by paths, on irreducible graphs too.
DominatorsExact == Ready =>
                     LET idom == Idom(fn)
                     IN  \A a, b \in Blocks(fn) : Dominates(idom, a, b) = OnEveryPath(a, b)

\* The graph as a function whose blocks in W make a memory state, and whose
\* blocks all read one.
Chain(W) == LET n == Len(fn.vals)
                made(b) == IF b \in W THEN <<n + b>> ELSE <<>>
            IN  [vals |-> [b \in Blocks(fn) |-> IF b = 1 THEN <<n + 1>> ELSE <<b>> \o made(b)],
                 succs |-> fn.succs, preds |-> fn.preds,
                 op   |-> [v \in 1 .. 2 * n |-> IF v = n + 1 THEN "initmem" ELSE "call"],
                 args |-> [v \in 1 .. 2 * n |-> IF v = n + 1 THEN <<>> ELSE <<n + 1>>],
                 id   |-> [v \in 1 .. 2 * n |-> 0],
                 mem  |-> {n + b : b \in W \cup {1}}]

\* The repair of the memory chain ends before it is called an internal error,
\* on irreducible graphs too and wherever memory is changed, and leaves every
\* reader with the state that is current, and a phi at every join of two.
ChainRepaired ==
  Ready /\ prog = NoProgram =>
    \A W \in SUBSET (Blocks(fn) \ {1}) :
      LET s == MemorySettled(Chain(W))
      IN  s.round <= Len(order) + 2 /\ CheckMemory(MemRetarget(s.g, s.exit))
=============================================================================
