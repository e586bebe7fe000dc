---------------------------- MODULE Construction ----------------------------
(***************************************************************************)
(* SSA construction (src/ssa/build.go): statements are walked once, in     *)
(* order, and phis are placed on the fly by the algorithm of Braun et al.  *)
(*                                                                         *)
(* A program is a tree of nodes, records with a field op:                  *)
(*   "func"      params, results, locals, body                             *)
(*   "call"      id, x, reads: x takes the result, Memory for none         *)
(*   "copy"      x, y          "declare" x        "return" id, reads       *)
(*   "if"        cond, body, els        "for"     cond, body, post         *)
(*   "switch"    tag, body, a sequence of "case" nodes with tests and body *)
(*   "label"     name, body    "goto", "break", "continue"  name           *)
(*   "div"       id, x, reads: x takes the quotient of two variables       *)
(*   "index"     id, reads, an index and a length   "fallthrough"          *)
(*   "load"      id, x, reads: x takes the word that a variable points to  *)
(*   "field"     id, x, reads: x takes the address of that word            *)
(*   "store"     id, reads: the word that one points to takes the other    *)
(*   "get"       x: x takes the word of a global    "put"  y: the reverse  *)
(* A test is an expression that reads some variables, the comparison of two*)
(* strings if its op is "eq"; a condition has one, or two joined by && or  *)
(* ||, or none.  What an expression computes is left out: id names it.     *)
(* Variables are positive; the memory state is variable Memory, as it is in*)
(* the code.                                                               *)
(*                                                                         *)
(* The operators pass a builder b along: the function so far, as in SSAFunc*)
(* but for a control value, and the state of the walk, with the value that *)
(* was produced last in res.  A block or a value that is missing is 0.     *)
(***************************************************************************)
EXTENDS RegAnalysis

Memory == 0
NoName == ""

Empty == [vals |-> <<>>, succs |-> <<>>, preds |-> <<>>, control |-> <<>>,  \* by block
          op |-> <<>>, args |-> <<>>, id |-> <<>>,                          \* by value
          mem     |-> {},     \* the values that are memory states
          uses    |-> <<>>,   \* the users of each value, repeats included
          forward |-> <<>>,   \* what replaces a phi that was removed
          dead    |-> {},     \* the values that were removed
          layout  |-> <<>>,   \* the blocks there are, in order
          defs    |-> <<>>,   \* what each block last writes to a variable
          incomplete |-> <<>>,\* the phis of a block that wait for its predecessors
          sealed  |-> {},     \* the blocks whose predecessors are all known
          cur     |-> 0,      \* the block being filled
          ctrl    |-> <<>>,   \* the loops and switches around
          labels  |-> <<>>,   \* the labels met, with their blocks
          results |-> <<>>, fallthru |-> 0, pendingLabel |-> NoName, res |-> 0]

-----------------------------------------------------------------------------
(* Blocks, edges and values *)

\* The block that the next call of NewBlock makes.
NextBlock(b) == Len(b.vals) + 1

NewBlock(b) ==
  [b EXCEPT !.vals = Append(@, <<>>), !.succs = Append(@, <<>>), !.preds = Append(@, <<>>),
            !.control = Append(@, 0), !.layout = Append(@, NextBlock(b)), !.defs = Append(@, <<>>),
            !.incomplete = Append(@, <<>>)]

NewBlocks(b, n) == FoldLeft(LAMBDA c, i : NewBlock(c), b, [i \in 1 .. n |-> i])

RemoveBlock(b, blk) == [b EXCEPT !.layout = Remove(@, blk)]

AddEdgeTo(b, blk, to) == [b EXCEPT !.succs[blk] = Append(@, to), !.preds[to] = Append(@, blk)]

\* The block being filled ends in a test of the value in res.
Branch(b, yes, no) == AddEdgeTo(AddEdgeTo([b EXCEPT !.control[b.cur] = b.res], b.cur, yes), b.cur, no)

AddArg(b, v, a) == [b EXCEPT !.args[v] = Append(@, a), !.uses[a] = Append(@, v)]

\* A value that is in no block yet.
NewValue(b, op, args, id, isMem) ==
  LET v == Len(b.op) + 1
  IN  FoldLeft(LAMBDA c, a : AddArg(c, v, a),
               [b EXCEPT !.op = Append(@, op), !.args = Append(@, <<>>), !.id = Append(@, id),
                         !.uses = Append(@, <<>>), !.forward = Append(@, 0),
                         !.mem = IF isMem THEN @ \cup {v} ELSE @, !.res = v],
               args)

\* The value in res is the i-th of blk.
InsertIn(b, blk, i) == [b EXCEPT !.vals[blk] = InsertAt(@, i, b.res)]

\* A value at the end of the block being filled.
Emit(b, op, args, id, isMem) == InsertIn(NewValue(b, op, args, id, isMem), b.cur, Len(b.vals[b.cur]) + 1)

\* The zero value goes to the start of the entry block, after the first memory
\* state; the first memory state is the zero of memory.
ZeroValue(b, var) == IF var = Memory THEN [b EXCEPT !.res = 1]
                                     ELSE InsertIn(NewValue(b, "const", <<>>, 0, FALSE), 1, 2)

PhisIn(b, blk) == SelectSeq(b.vals[blk], LAMBDA v : b.op[v] = "phi")

\* A phi goes after the phis its block has.
NewPhi(b, var, blk) == InsertIn(NewValue(b, "phi", <<>>, 0, var = Memory), blk, Len(PhisIn(b, blk)) + 1)

-----------------------------------------------------------------------------
(* The variable map *)

RECURSIVE Resolve(_, _), TryRemoveTrivialPhi(_, _), ReadRecursive(_, _, _), FillFrom(_, _, _)

\* What replaces v in the end.
Resolve(b, v) == IF v # 0 /\ b.forward[v] # 0 THEN Resolve(b, b.forward[v]) ELSE v

Resolved(b, v) == [b EXCEPT !.res = Resolve(b, v)]

\* blk writes the value in res to var.
Write(b, var, blk) == [b EXCEPT !.defs[blk] = (var :> b.res) @@ @]

\* Mutant: a phi that read a removed one is not looked at again.
Retry_Never(b, u) == b

Retry(b, u) == IF b.op[u] = "phi" /\ u \notin b.dead THEN TryRemoveTrivialPhi(b, u) ELSE b

\* The user u of phi reads v instead.
ReplaceIn(b, u, phi, v) ==
  IF u \in b.dead THEN b
  ELSE [b EXCEPT !.uses[v] = @ \o [i \in DOMAIN SelectSeq(b.args[u], LAMBDA a : a = phi) |-> u],
                 !.args[u] = ReplaceAll(@, phi, v)]

\* The value in res takes the place of phi; the users that are phis may have
\* become trivial in turn.
Forward(b, phi) ==
  LET users == Remove(b.uses[phi], phi)
      gone  == [b EXCEPT !.forward[phi] = b.res, !.dead = @ \cup {phi},
                         !.vals[BlockOf(b, phi)] = Remove(@, phi)]
  IN  Resolved(FoldLeft(Retry, FoldLeft(LAMBDA c, u : ReplaceIn(c, u, phi, b.res), gone, users), users), b.res)

\* A phi of one value and itself is that value, a phi of itself alone a zero.
TryRemoveTrivialPhi(b, phi) ==
  LET others == {Resolve(b, a) : a \in ToSet(b.args[phi])} \ {phi}
  IN  IF Cardinality(others) > 1 THEN [b EXCEPT !.res = phi]
      ELSE Forward(IF others = {} THEN ZeroValue(b, IF phi \in b.mem THEN Memory ELSE 1)
                                  ELSE [b EXCEPT !.res = CHOOSE a \in others : TRUE], phi)

Read(b, var, blk) == IF var \in DOMAIN b.defs[blk] THEN Write(Resolved(b, b.defs[blk][var]), var, blk)
                                                   ELSE ReadRecursive(b, var, blk)

\* One operand for each predecessor, in their order.
AddPhiArgs(b, var, phi, blk) ==
  LET Take(c)    == AddArg(c, phi, c.res)
      Fill(c, p) == Take(Read(c, var, p))
  IN  TryRemoveTrivialPhi(FoldLeft(Fill, b, b.preds[blk]), phi)

\* Mutant: a block with one predecessor so far has no other.
IsOpen_Guess(b, blk) == blk \notin b.sealed /\ Len(b.preds[blk]) # 1

\* More predecessors may come.
IsOpen(b, blk) == blk \notin b.sealed

\* A variable that blk does not write: the phi of an open block waits for its
\* operands; the phi of a closed one is in the map before they are read, since
\* a back edge may ask for it.
ReadRecursive(b, var, blk) ==
  LET Wait(c) == [c EXCEPT !.incomplete[blk] = Append(@, <<var, c.res>>)]
      Fill(c) == AddPhiArgs(Write(c, var, blk), var, c.res, blk)
  IN  Write(IF IsOpen(b, blk) THEN Wait(NewPhi(b, var, blk))
            ELSE IF Len(b.preds[blk]) = 1 THEN Read(b, var, b.preds[blk][1])
            ELSE IF b.preds[blk] = <<>> THEN ZeroValue(b, var)
            ELSE Fill(NewPhi(b, var, blk)), var, blk)

\* The phis that wait, from the i-th on, those included that the filling adds.
FillFrom(b, blk, i) ==
  IF i > Len(b.incomplete[blk]) THEN [b EXCEPT !.incomplete[blk] = <<>>]
  ELSE LET w == b.incomplete[blk][i]
       IN  FillFrom(IF w[2] \in b.dead THEN b ELSE AddPhiArgs(b, w[1], w[2], blk), blk, i + 1)

\* Every predecessor of blk is known.
Seal(b, blk) == IF blk \in b.sealed THEN b ELSE FillFrom([b EXCEPT !.sealed = @ \cup {blk}], blk, 1)

-----------------------------------------------------------------------------
(* Expressions *)

\* The values of the variables vars, in order, in res.
ReadAll(b, vars) ==
  LET Join(c, list) == [c EXCEPT !.res = Append(list, c.res)]
      One(c, var)   == Join(Read(c, var, c.cur), c.res)
  IN  FoldLeft(One, [b EXCEPT !.res = <<>>], vars)

\* The value of a test, which reads the values first as well.
Test(b, t, first) ==
  LET Value(c) == Emit(c, t.op, first \o c.res, t.id, FALSE) IN Value(ReadAll(b, t.reads))

\* A name of its own for the value of the expression whose blocks begin at blk.
Tmp(blk) == 0 - blk

\* x && y evaluates y when x is true, x || y when it is false.
EvaluateOn(op) == op = "and"

\* The value of x && y or x || y is read back through the variable map.
ShortCircuit(b, cond) ==
  LET Fork(c, rhs) ==
        [Seal(IF EvaluateOn(cond.op) THEN Branch(c, rhs, rhs + 1) ELSE Branch(c, rhs + 1, rhs), rhs)
           EXCEPT !.cur = rhs]
      Close(c, rhs) == [Seal(AddEdgeTo(c, c.cur, rhs + 1), rhs + 1) EXCEPT !.cur = rhs + 1]
      Right(c, rhs) == Test(Fork(NewBlocks(Write(c, Tmp(rhs), c.cur), 2), rhs), cond.tests[2], <<>>)
      Both(c, rhs)  == Read(Close(Write(Right(c, rhs), Tmp(rhs), rhs), rhs), Tmp(rhs), rhs + 1)
      Left(c) == Both(c, NextBlock(c))
  IN  Left(Test(b, cond.tests[1], <<>>))

Condition(b, cond) == IF cond.op = "test" THEN Test(b, cond.tests[1], <<>>) ELSE ShortCircuit(b, cond)

-----------------------------------------------------------------------------
(* Statements *)

RECURSIVE Stmt(_, _)

Stmts(b, list) == FoldLeft(Stmt, b, list)

Jump(b, to)       == [AddEdgeTo(b, b.cur, to) EXCEPT !.cur = 0]
JumpIfLive(b, to) == IF b.cur # 0 THEN Jump(b, to) ELSE b

\* The statements of list in blk, and then on to the block to.
Arm(b, blk, list, to) == JumpIfLive(Stmts([b EXCEPT !.cur = blk], list), to)

\* The block done is next, unless nothing reaches it.
StartJoin(b, done) == IF b.preds[done] = <<>> THEN [RemoveBlock(b, done) EXCEPT !.cur = 0]
                                              ELSE [Seal(b, done) EXCEPT !.cur = done]

\* The call is the memory state from here on; its result is a value of its own.
CallStmt(b, n) ==
  LET Called(c) == Write(Emit(c, "call", c.res, n.id, TRUE), Memory, c.cur)
      Taken(c)  == IF n.x = Memory THEN c ELSE Write(Emit(c, "select", <<c.res>>, 0, FALSE), n.x, c.cur)
  IN  Taken(Called(ReadAll(b, Append(n.reads, Memory))))

\* The quotient of two variables.
DivStmt(b, n) == LET Value(c) == Write(Emit(c, "div", c.res, n.id, FALSE), n.x, c.cur)
                 IN  Value(ReadAll(b, n.reads))

\* The bounds check of an index is the memory state from there on.
IndexCheck(b, n) == LET Check(c) == Write(Emit(c, "check", c.res, n.id, TRUE), Memory, c.cur)
                    IN  Check(ReadAll(b, Append(n.reads, Memory)))

\* The pointer x, checked where it is dereferenced: an address.
NilCheck(b, x, id) == LET Check(c) == Emit(c, "nilcheck", c.res, id, FALSE)
                      IN  Check(ReadAll(b, <<x, Memory>>))

GlobalAddr(b) == Emit(b, "addr", <<>>, 0, FALSE)

\* The word at the address in res.
Load(b) == LET From(c, addr) == Emit(c, "load", <<addr, c.res>>, 0, FALSE)
           IN  From(Read(b, Memory, b.cur), b.res)

\* val goes to the address in res.
Store(b, val) == LET To(c, addr) == Write(Emit(c, "store", <<addr, val, c.res>>, 0, TRUE), Memory, c.cur)
                 IN  To(Read(b, Memory, b.cur), b.res)

\* An assignment through a pointer or to a global evaluates the value first.
Assign(b, n, y) == LET At(c, val) == Store(IF n.op = "put" THEN GlobalAddr(c) ELSE NilCheck(c, n.reads[1], n.id), val)
                       Of(c) == At(c, c.res)
                   IN  Of(Read(b, y, b.cur))

CopyStmt(b, n) == Write(Read(b, n.y, b.cur), n.x, b.cur)

\* Each execution of a declaration is a fresh variable.
DeclareStmt(b, n) == Write(ZeroValue(b, n.x), n.x, b.cur)

\* A return without values leaves with the named results.
ReturnStmt(b, n) ==
  LET Leave(c) == [c EXCEPT !.control[c.cur] = c.res, !.cur = 0]
      Made(c)  == Leave(Emit(c, "ret", c.res, n.id, TRUE))
  IN  Made(ReadAll(b, Append(IF n.reads = <<>> THEN b.results ELSE n.reads, Memory)))

\* Both arms are sealed at once.
IfStmt(b, n) ==
  LET Arms(c, then) ==
        Arm(Arm(Seal(Seal(Branch(NewBlocks(c, 3), then, then + 1), then), then + 1),
                then, n.body, then + 2), then + 1, n.els, then + 2)
      Fork(c) == StartJoin(Arms(c, NextBlock(c)), NextBlock(c) + 2)
  IN  Fork(Condition(b, n.cond))

PushCtrl(b, isLoop, label, brk, cont) ==
  [b EXCEPT !.ctrl = Append(@, [loop |-> isLoop, label |-> label, brk |-> brk, cont |-> cont])]
PopCtrl(b) == [b EXCEPT !.ctrl = Front(@)]

\* The head, the body, the post statements and the exit are blocks in a row.
\* The head stays open until the back edge is there, and the condition may end
\* in another block than the head.
ForStmt(b, n, label) ==
  LET head == NextBlock(b)
      Enter(c) == [AddEdgeTo(NewBlocks(c, 4), c.cur, head) EXCEPT !.cur = head]
      Fork(c)  == IF n.cond.tests = <<>> THEN AddEdgeTo(c, head, head + 1)
                                         ELSE Branch(Condition(c, n.cond), head + 1, head + 3)
      Loop(c)  == PopCtrl(Arm(PushCtrl(Seal(c, head + 1), TRUE, label, head + 3, head + 2),
                              head + 1, n.body, head + 2))
      Back(c)  == IF c.preds[head + 2] = <<>> THEN RemoveBlock(c, head + 2)
                                              ELSE Arm(c, head + 2, n.post, head)
  IN  StartJoin(Seal(Back(Seal(Loop(Fork(Enter(b))), head + 2)), head), head + 3)

\* The tests of a switch with the clauses they lead to, and the clause without.
ClauseTests(n)   == FlattenSeq([i \in DOMAIN n.body |-> [j \in DOMAIN n.body[i].tests |-> <<i, n.body[i].tests[j]>>]])
DefaultClause(n) == SelectInSeq(n.body, LAMBDA c : c.tests = <<>>)

\* A chain of tests, then the clauses in order, whose blocks begin at first.
Clauses(b, n, label, tag, first, done) ==
  LET Miss(c, next)  == [Seal(c, next) EXCEPT !.cur = next]
      Match(c, i)    == Miss(Branch(NewBlock(c), first + i - 1, NextBlock(c)), NextBlock(c))
      Try(c, t)      == Match(Test(c, t[2], tag), t[1])
      Otherwise(c)   == Jump(c, IF DefaultClause(n) = 0 THEN done ELSE first + DefaultClause(n) - 1)
      Bind(c, i)     == [c EXCEPT !.fallthru = IF i < Len(n.body) THEN first + i ELSE 0]
      Clause(c, i)   == Arm(Seal(Bind(c, i), first + i - 1), first + i - 1, n.body[i].body, done)
      tried          == FoldLeft(Try, NewBlocks(b, Len(n.body) + 1), ClauseTests(n))
  IN  PopCtrl(FoldLeft(Clause, PushCtrl(Otherwise(tried), FALSE, label, done, 0), [i \in DOMAIN n.body |-> i]))

\* A switch in a clause has a fallthrough of its own and gives this one back.
SwitchStmt(b, n, label) ==
  LET Close(c, done) == StartJoin([c EXCEPT !.fallthru = b.fallthru], done)
      From(c, tag) == Close(Clauses(c, n, label, tag, NextBlock(c), NextBlock(c) + Len(n.body)),
                            NextBlock(c) + Len(n.body))
      Tagged(c) == From(c, <<c.res>>)
  IN  IF n.tag.reads = <<>> THEN From(b, <<>>) ELSE Tagged(Test(b, n.tag, <<>>))

\* The labels are in the order they are first named in.
LabelBlock(b, name) == b.labels[SelectInSeq(b.labels, LAMBDA l : l[1] = name)][2]
WithLabel(b, name)  == IF \E i \in DOMAIN b.labels : b.labels[i][1] = name THEN b
                       ELSE [NewBlock(b) EXCEPT !.labels = Append(@, <<name, NextBlock(b)>>)]

LabelStmt(b, n) ==
  LET Begin(c) == [JumpIfLive(c, LabelBlock(c, n.name)) EXCEPT !.cur = LabelBlock(c, n.name),
                                                               !.pendingLabel = n.name]
  IN  [Stmts(Begin(WithLabel(b, n.name)), n.body) EXCEPT !.pendingLabel = NoName]

GotoStmt(b, n) == LET Go(c) == Jump(c, LabelBlock(c, n.name)) IN Go(WithLabel(b, n.name))

\* The loop or switch a break or a continue means: the innermost that has the
\* name asked for; a continue passes through a switch.
Target(b, name, cont) ==
  SelectLastInSeq(b.ctrl, LAMBDA c : (cont => c.loop) /\ (name = NoName \/ c.label = name))

\* A statement that control cannot reach is not built, unless it is a label.
Stmt(b, n) ==
  LET c == [b EXCEPT !.pendingLabel = NoName]
  IN  IF b.cur = 0 /\ n.op # "label" THEN b
      ELSE CASE n.op = "call"        -> CallStmt(c, n)
             [] n.op = "copy"        -> CopyStmt(c, n)
             [] n.op = "div"         -> DivStmt(c, n)
             [] n.op = "index"       -> IndexCheck(c, n)
             [] n.op = "load"        -> Write(Load(NilCheck(c, n.reads[1], n.id)), n.x, c.cur)
             [] n.op = "field"       -> Write(NilCheck(c, n.reads[1], n.id), n.x, c.cur)
             [] n.op = "get"         -> Write(Load(GlobalAddr(c)), n.x, c.cur)
             [] n.op = "store"       -> Assign(c, n, n.reads[2])
             [] n.op = "put"         -> Assign(c, n, n.y)
             [] n.op = "declare"     -> DeclareStmt(c, n)
             [] n.op = "return"      -> ReturnStmt(c, n)
             [] n.op = "if"          -> IfStmt(c, n)
             [] n.op = "for"         -> ForStmt(c, n, b.pendingLabel)
             [] n.op = "switch"      -> SwitchStmt(c, n, b.pendingLabel)
             [] n.op = "label"       -> LabelStmt(c, n)
             [] n.op = "goto"        -> GotoStmt(c, n)
             [] n.op = "break"       -> Jump(c, c.ctrl[Target(c, n.name, FALSE)].brk)
             [] n.op = "continue"    -> Jump(c, c.ctrl[Target(c, n.name, TRUE)].cont)
             [] n.op = "fallthrough" -> Jump(c, c.fallthru)

-----------------------------------------------------------------------------
(* The function *)

\* The entry block: the first memory state, the parameters, and the zero value
\* of every result and local.
Entry(p) ==
  LET Arg(b, x)  == Write(Emit(b, "arg", <<>>, 0, FALSE), x, 1)
      Zero(b, x) == Write(ZeroValue(b, x), x, 1)
      start == [NewBlock(Empty) EXCEPT !.cur = 1, !.sealed = {1}, !.results = p.results]
  IN  FoldLeft(Zero, FoldLeft(Arg, Write(Emit(start, "initmem", <<>>, 0, TRUE), Memory, 1), p.params),
               p.results \o p.locals)

\* No reference to a removed phi is left in the blocks there are.
ResolveAll(b) ==
  LET InValue(c, v) == [c EXCEPT !.args[v] = [i \in DOMAIN @ |-> Resolve(b, @[i])]]
      InBlock(c, k) == [FoldLeft(InValue, c, c.vals[k]) EXCEPT !.control[k] = Resolve(b, @)]
  IN  FoldLeft(InBlock, b, b.layout)

\* The edges into k from blocks that go, and the operands its phis have on them.
DropEdges(b, k, live) ==
  LET kept    == SelectSeq([i \in DOMAIN b.preds[k] |-> i], LAMBDA i : b.preds[k][i] \in live)
      Pick(s) == [j \in DOMAIN kept |-> s[kept[j]]]
  IN  FoldLeft(LAMBDA c, v : [c EXCEPT !.args[v] = Pick(@)], [b EXCEPT !.preds[k] = Pick(@)], PhisIn(b, k))

\* The blocks the entry does not reach go, with their edges; a phi that lost an
\* operand may have become trivial.
RemoveUnreachable(b) ==
  LET live == Walk(b, 1).seen
      lost == SelectSeq(b.layout, LAMBDA k : k \in live /\ ~(ToSet(b.preds[k]) \subseteq live))
      cut  == [b EXCEPT !.layout = SelectSeq(@, LAMBDA k : k \in live),
                        !.dead = @ \cup UNION {ToSet(b.vals[k]) : k \in ToSet(b.layout) \ live}]
  IN  FoldLeft(Retry, FoldLeft(LAMBDA c, k : DropEdges(c, k, live), cut, lost),
               FlattenSeq([i \in DOMAIN lost |-> PhisIn(b, lost[i])]))

\* A return at the end, the labels' blocks sealed in the order of the labels,
\* then all the others.
Finish(b) ==
  LET End(c)       == IF c.cur = 0 THEN c ELSE ReturnStmt(c, [id |-> 0, reads |-> <<>>])
      SealNamed(c) == FoldLeft(Seal, c, [i \in DOMAIN c.labels |-> c.labels[i][2]])
      SealAll(c)   == FoldLeft(Seal, c, c.layout)
  IN  ResolveAll(RemoveUnreachable(ResolveAll(SealAll(SealNamed(End(b))))))

\* The blocks there are, numbered in their order.
Numbered(b) ==
  LET InOrder(s) == [i \in DOMAIN b.layout |-> s[b.layout[i]]]
      Numbers(s) == [i \in DOMAIN s |-> [j \in DOMAIN s[i] |-> SelectInSeq(b.layout, LAMBDA k : k = s[i][j])]]
  IN  [vals |-> InOrder(b.vals), succs |-> Numbers(InOrder(b.succs)), preds |-> Numbers(InOrder(b.preds)),
       control |-> InOrder(b.control),
       op |-> b.op, args |-> b.args, id |-> b.id, mem |-> b.mem, dead |-> b.dead]

Build(p) == Numbered(Finish(Stmts(Entry(p), p.body)))

\* The function as the register allocator sees it: without memory, and with the
\* branch of a block as the last of its values.
ForAllocator(g) ==
  LET hidden    == {v \in g.mem : g.op[v] \in {"initmem", "phi"}}
      branch(b) == Len(g.op) + b
      all       == 1 .. Len(g.op) + Len(g.vals)
      OpOf(v)   == CASE v \notin DOMAIN g.op -> "branch"
                     [] v \in hidden \cup g.dead -> "none"
                     [] OTHER -> IF g.op[v] \in {"quotient", "same", "test", "load", "addr"} THEN "op" ELSE g.op[v]
  IN  [vals  |-> [b \in DOMAIN g.vals |-> SelectSeq(g.vals[b], LAMBDA v : v \notin hidden)
                                          \o (IF Len(g.succs[b]) = 2 THEN <<branch(b)>> ELSE <<>>)],
       succs |-> g.succs,
       preds |-> g.preds,
       op    |-> [v \in all |-> OpOf(v)],
       args  |-> [v \in all |-> IF v \in DOMAIN g.op THEN SelectSeq(g.args[v], LAMBDA a : a \notin hidden)
                                                     ELSE <<g.control[v - Len(g.op)]>>],
       place |-> [v \in all |-> NoReg],
       ptr   |-> {}]
=============================================================================
