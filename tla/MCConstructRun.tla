--------------------------- MODULE MCConstructRun ---------------------------
(* What ConstructRun is checked on: programs of three variables, or of five   *)
(* pointers, built into functions, and functions given as graphs.             *)
(*                                                                            *)
(* The graphs have four blocks, each with at most two successors and none back*)
(* to the entry, irreducible ones and two edges to one block included.  Value *)
(* 1 is defined in the entry, value 2 in another block; one block reads both  *)
(* where 2 is defined, and a join may begin with a phi that the same block or *)
(* the last one reads.                                                        *)
EXTENDS ConstructRun

MCIds == 1 .. 8
MCPositions == 0 .. 16

Targets == {2, 3, 4}
Edges   == {<<>>, <<2>>, <<3>>, <<4>>, <<2, 3>>, <<2, 4>>, <<3, 4>>, <<4, 4>>}

ReachedFrom(g, start, without) ==
  LET reach[n \in 0 .. 4] == IF n = 0 THEN start
                             ELSE reach[n - 1] \cup UNION {ToSet(g[b]) : b \in reach[n - 1] \ without}
  IN  reach[4]

Graphs == {g \in {<<a, b, c, d>> : a \in {<<2>>, <<2, 3>>}, b, c, d \in Edges} :
             ReachedFrom(g, {1}, {}) = 1 .. 4}

Precedes(g, a, b) == a = b \/ a = 1 \/ b \notin ReachedFrom(g, {1}, {a})

PredsOf(g, s) == FlattenSeq([b \in 1 .. 4 |-> SelectSeq([i \in DOMAIN g[b] |-> IF g[b][i] = s THEN b ELSE 0],
                                                       LAMBDA x : x # 0)])

\* The value 2 is defined in d; r reads 1 and 2; the join j, if any, begins with
\* the phi 3, whose operand on an edge is a value defined there, and q reads it.
Func(g, d, r, j, q) ==
  LET phi    == j # 0
      Arg(p) == IF Precedes(g, d, p) THEN 2 ELSE IF phi /\ p # 1 /\ Precedes(g, j, p) THEN 3 ELSE 1
      only(c, v) == IF c THEN <<v>> ELSE <<>>
      code   == [b \in 1 .. 4 |-> only(b = j, 3) \o only(b = 1, 1) \o only(b = 1, 7) \o only(b = d, 2)
                                  \o only(b = r, 4) \o only(phi /\ b = q, 5)]
  IN  [vals  |-> code,
       succs |-> g,
       preds |-> [s \in 1 .. 4 |-> PredsOf(g, s)],
       op    |-> [v \in MCIds |-> CASE v = 3 /\ phi -> "phi" [] v = 5 /\ phi -> "op" [] v \in {1, 2, 4} -> "op"
                                    [] v = 7 -> "const" [] OTHER -> "none"],
       args  |-> [v \in MCIds |-> CASE v = 4 -> <<1, 2, 7>> [] v = 5 -> <<3>>
                                    [] v = 3 /\ phi -> [i \in DOMAIN PredsOf(g, j) |-> Arg(PredsOf(g, j)[i])]
                                    [] OTHER -> <<>>],
       place |-> [v \in MCIds |-> NoReg],
       ptr   |-> {}]

Functions == UNION {{Func(g, d, r, 0, 0) : r \in {x \in Targets : Precedes(g, d, x)}} \cup
                    {Func(g, d, r, j, q) : <<r, j, q>> \in {<<r, j, q>> \in Targets \X Targets \X Targets :
                        /\ Precedes(g, d, r)
                        /\ Len(PredsOf(g, j)) > 1 /\ Precedes(g, j, q) /\ q \in {r, 4}}} :
                    <<g, d>> \in Graphs \X Targets}

-----------------------------------------------------------------------------
(* Programs: x is the parameter, y the result, z a local; of pointers, w is a *)
(* parameter as well, z a result and v the local.                             *)

x == 1
y == 2
z == 3

Call(i, v, reads) == [op |-> "call", id |-> i, x |-> v, reads |-> reads]
Copy(v, w)   == [op |-> "copy", x |-> v, y |-> w]
Declare(v)   == [op |-> "declare", x |-> v]
Return(i, v) == [op |-> "return", id |-> i, reads |-> v]
If(c, yes, no)    == [op |-> "if", cond |-> c, body |-> yes, els |-> no]
For(c, do, post)  == [op |-> "for", cond |-> c, body |-> do, post |-> post]
Switch(tag, body) == [op |-> "switch", tag |-> tag, body |-> body]
Case(tests, body) == [op |-> "case", tests |-> tests, body |-> body]
Label(l, body)    == [op |-> "label", name |-> l, body |-> body]
Go(kind, l)       == [op |-> kind, name |-> l]
Fallthrough       == [op |-> "fallthrough"]

Deref(i, v, w)  == [op |-> "load", id |-> i, x |-> v, reads |-> <<w>>]
Field(i, v, w)  == [op |-> "field", id |-> i, x |-> v, reads |-> <<w>>]
StoreTo(i, v, w) == [op |-> "store", id |-> i, reads |-> <<v, w>>]
Get(v) == [op |-> "get", x |-> v]
Put(v) == [op |-> "put", y |-> v]

Div(i, v, reads) == [op |-> "div", id |-> i, x |-> v, reads |-> reads]
Index(i, reads)  == [op |-> "index", id |-> i, reads |-> reads]

Tests(i, reads) == [op |-> "op", id |-> i, reads |-> reads]
Equal(i, reads) == [op |-> "eq", id |-> i, reads |-> reads]
One(i, reads)   == [op |-> "test", tests |-> <<Tests(i, reads)>>]
Same(i, reads)  == [op |-> "test", tests |-> <<Equal(i, reads)>>]
Two(op, i, r, j, q) == [op |-> op, tests |-> <<Tests(i, r), Tests(j, q)>>]
Ever == [op |-> "test", tests |-> <<>>]
NoTag == Tests(0, <<>>)

Fn(body) == [op |-> "func", params |-> <<x>>, results |-> <<y>>, locals |-> <<z>>, ptrs |-> {}, body |-> body]

Opt(S) == {<<>>} \cup {<<s>> : s \in S}

\* A loop that may be left or repeated in its middle.
Loops == {Fn(<<Call(1, z, <<x>>), Label("L", <<For(c, b \o <<If(One(20, <<x>>), m, <<>>)>> \o d, p)>>), Call(6, Memory, <<y, z>>)>>) :
            c \in {Ever, Same(2, <<z>>), Two("and", 2, <<x>>, 3, <<y>>), Two("or", 2, <<x>>, 3, <<z>>)},
            b \in Opt({Declare(z), Copy(y, z), Index(7, <<y, x>>)}),
            m \in {<<Go("break", NoName)>>, <<Go("continue", "L")>>, <<Return(4, <<z>>)>>,
                   <<Copy(z, x), Go("goto", "L")>>},
            d \in Opt({Call(5, z, <<y, z>>), Copy(x, y), Div(8, y, <<x, z>>)}),
            p \in Opt({Copy(y, x)})}

\* Jumps between labels, into a loop of labels at its middle among them, and
\* labels that no reachable statement jumps to.
Jumps == {Fn(<<If(One(1, <<x>>), <<a, Go("goto", "M")>>, <<>>), Label("L", <<>>), b, Label("M", <<>>), c,
               If(Same(2, <<z, x>>), <<Go("goto", t)>>, n), Go("goto", "N"), Label("K", <<>>), Call(9, z, <<y>>),
               Go("goto", u), Label("N", <<>>), Call(3, Memory, <<x, y, z>>)>>) :
            a \in {Copy(z, x), Call(4, x, <<>>)}, b \in {Copy(y, z), Call(5, y, <<x>>)},
            c \in {Copy(x, y), Div(6, y, <<x, z>>), Declare(y)}, t \in {"L", "M", "K"},
            n \in {<<>>, <<Go("goto", "M")>>, <<Return(7, <<>>)>>}, u \in {"L", "K", "N"}}

\* A switch in a loop.
Switches == {Fn(<<Label("L", <<For(One(1, <<y>>),
                 <<Switch(tag, <<Case(<<Equal(2, <<z>>), Tests(3, <<x>>)>>, a)>> \o d \o <<Case(<<Tests(4, <<>>)>>, b)>>)>>,
                 <<Copy(x, z)>>)>>), Call(5, Memory, <<x, y, z>>)>>) :
               tag \in {NoTag, Tests(6, <<x>>)},
               a \in {<<Fallthrough>>, <<Copy(y, x), Fallthrough>>, <<Div(7, z, <<z, x>>)>>, <<Go("break", "L")>>},
               d \in {<<>>, <<Case(<<>>, <<Copy(z, x)>>)>>, <<Case(<<>>, <<Call(8, y, <<y>>), Fallthrough>>)>>},
               b \in {<<>>, <<Go("break", NoName)>>, <<Go("continue", NoName)>>, <<Return(9, <<z>>)>>}}

\* Loops in a loop.
Nests == {Fn(<<Label("L", <<For(One(1, <<x>>),
              <<Declare(z), For(c, <<a, If(Two("or", 3, <<z>>, 4, <<y>>), <<Go(g, l)>>, <<b>>)>>, <<Copy(y, x)>>)>>,
              <<>>)>>), Return(5, <<x, z>>)>>) :
            c \in {Ever, One(2, <<z>>)}, a \in {Copy(x, z), Call(6, z, <<x>>), Index(7, <<z, x>>)},
            b \in {Copy(z, y), Go("break", NoName)},
            g \in {"break", "continue"}, l \in {NoName, "L"}}

\* Pointers: in a loop a variable is handed on before it is given what the next
\* round hands on.
w == 4
v == 5
Pointers == {[op |-> "func", params |-> <<x, w>>, results |-> <<y, z>>, locals |-> <<v>>, ptrs |-> 1 .. 5,
              body |-> <<For(One(1, <<x>>), <<a, b>> \o c, <<>>), r>>] :
               a \in {Put(v), StoreTo(2, w, v), StoreTo(2, v, y), Call(3, y, <<v>>), Copy(z, v)},
               b \in {Copy(v, x), Deref(4, v, x), Field(4, v, x), Get(v)},
               c \in Opt({Copy(x, w), Declare(v), Deref(5, v, v), Copy(x, v)}),
               r \in {Return(6, <<v, w>>), Return(6, <<>>)}}

\* After a test one way of which makes a memory state comes a loop that is never
\* left: it, or a way from it, touches memory or nothing does.
Endless == {Fn(<<If(c, a, <<>>), For(Ever, b, p)>>) :
              c \in {One(1, <<x>>), Same(1, <<x>>)},
              a \in {<<Call(2, z, <<x>>)>>, <<Copy(z, x)>>, <<Index(3, <<z, x>>), Copy(z, x)>>},
              b \in {<<>>, <<Copy(y, z)>>, <<Call(4, z, <<z>>)>>, <<If(One(5, <<z>>), <<Return(6, <<z>>)>>, <<>>)>>,
                     <<If(Same(7, <<z, y>>), <<For(Ever, <<>>, <<>>)>>, <<Div(8, y, <<z, x>>)>>)>>},
              p \in Opt({Copy(x, y)})}

Programs == Loops \cup Jumps \cup Switches \cup Nests \cup Pointers \cup Endless

Compiled == /\ built = Build(prog)
            /\ low = Lowered(Decomposed(built))
            /\ fn = ForAllocator(low)

MCInit == /\ \/ prog = NoProgram /\ built = NoProgram /\ low = NoProgram /\ fn \in Functions
             \/ prog \in Programs /\ Compiled
          /\ order = ReversePostorder(fn)
          /\ RunInit

MCSpec == MCInit /\ [][RunNext]_runVars /\ WF_runVars(Liveness)
=============================================================================
