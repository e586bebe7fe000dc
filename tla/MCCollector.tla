---------------------------- MODULE MCCollector ----------------------------
(* Functions over a list of two objects, the first of which they are given:   *)
(* each keeps what only it can reach across a call, in a register, a slot, an *)
(* object of its frame or a frame of its caller's, while the list changes.    *)
EXTENDS Collector

MCIds == 1 .. 60
MCPositions == 0 .. 60

\* A function from its blocks, each a sequence of <<id, op, mach, args, aux>>;
\* a displacement of one word when mach ends in it.
Func(code, succs, objs, in, ptr) ==
  LET all      == ToSet(FlattenSeq(code))
      used     == 1 .. Max({x[1] : x \in all})
      instr(v) == IF \E x \in all : x[1] = v THEN CHOOSE x \in all : x[1] = v
                  ELSE <<v, "none", "none", <<>>, NoId>>
      from(s)  == FlattenSeq([b \in DOMAIN code |-> SelectSeq([i \in DOMAIN succs[b] |->
                                 IF succs[b][i] = s THEN b ELSE 0], LAMBDA x : x # 0)])
  IN  [vals  |-> [b \in DOMAIN code |-> [i \in DOMAIN code[b] |-> code[b][i][1]]],
       succs |-> succs,
       preds |-> [b \in DOMAIN code |-> from(b)],
       layout |-> [b \in DOMAIN code |-> b],
       op    |-> [v \in used |-> instr(v)[2]],
       mach  |-> [v \in used |-> IF instr(v)[3] = "load1" THEN "load"
                                 ELSE IF instr(v)[3] = "store1" THEN "store" ELSE instr(v)[3]],
       args  |-> [v \in used |-> instr(v)[4]],
       aux   |-> [v \in used |-> instr(v)[5]],
       off   |-> [v \in used |-> IF instr(v)[3] \in {"load1", "store1"} THEN 1 ELSE 0],
       place |-> [v \in MCIds |-> IF \E i \in DOMAIN in : in[i].v = v /\ in[i].reg
                                  THEN v - 1 ELSE NoReg],
       objs  |-> objs, in |-> in, ptr |-> ptr, diamond |-> {},
       order |-> <<>>, slots |-> <<>>, slot |-> <<>>, liveIn |-> <<>>, liveOut |-> <<>>,
       fr |-> <<>>, checked |-> FALSE, emitted |-> <<>>, maps |-> <<>>]

\* The instructions.
Arg(v)         == <<v, "arg", "none", <<>>, NoId>>
Null(v)        == <<v, "const", "nil", <<>>, NoId>>
LocalAddr(v, x) == <<v, "const", "local", <<>>, x>>
StaticAddr(v)  == <<v, "const", "static", <<>>, "g">>
Ld(v, a)       == <<v, "op", "load", <<a>>, NoId>>
Ld1(v, a)      == <<v, "op", "load1", <<a>>, NoId>>
St(v, a, w)    == <<v, "store", "store", <<a, w>>, NoId>>
St1(v, a, w)   == <<v, "store", "store1", <<a, w>>, NoId>>
Cl(v, k, args) == <<v, "call", k, args, NoId>>
Res(v, c)      == <<v, "select", "none", <<c>>, NoId>>
Phi(v, args)   == <<v, "phi", "none", args, NoId>>
Br(v, a)       == <<v, "branch", "none", <<a>>, NoId>>
Rt(v, args)    == <<v, "ret", "none", args, NoId>>

\* Arguments, each a word: in a register, or in the argument area.
InReg(v, off)   == [v |-> v, off |-> off, ptr |-> TRUE, reg |-> TRUE]
InFrame(v, off) == [v |-> v, off |-> off, ptr |-> TRUE, reg |-> FALSE]
One == <<InReg(1, 0)>>

\* Frame objects: a flag of one byte, and a pair of a byte and a pointer.
Flag == [name |-> "b", size |-> 1, align |-> 1, ptrs |-> {}, known |-> TRUE]
Pair(known) == [name |-> "x", size |-> 2 * PtrSize, align |-> PtrSize, ptrs |-> {1}, known |-> known]
Cell(known) == [name |-> "y", size |-> PtrSize, align |-> PtrSize, ptrs |-> {0}, known |-> known]
Large == [name |-> "z", size |-> 16 * PtrSize, align |-> PtrSize, ptrs |-> {0, 15}, known |-> TRUE]

\* What further objects a frame is laid out with.
Wide == [name |-> "w", size |-> PtrSize, align |-> PtrSize, ptrs |-> {}, known |-> FALSE]
MCShapes == {Flag, Wide, Pair(TRUE), Pair(FALSE)}

\* x is taken out of the list and used after a call.
Unlink == Func(<< <<Arg(1), Ld(2, 1), Null(3), St(4, 1, 3), Cl(5, "use", <<>>), Ld(6, 2), Rt(7, <<6>>)>> >>,
               << <<>> >>, <<Flag>>, One, {1, 2, 3, 6})

\* The same by the second word, through the argument area.
Unlink1 == Func(<< <<Arg(1), Ld1(2, 1), Null(3), St1(4, 1, 3), Cl(5, "get", <<1>>), Res(6, 5), Ld(7, 2),
                     Rt(8, <<7, 6>>)>> >>,
                << <<>> >>, <<>>, <<InFrame(1, 0)>>, {1, 2, 3, 6, 7})

\* A new object is put at the head of the list.
Insert == Func(<< <<Arg(1), Cl(2, "new", <<>>), Res(3, 2), Ld(4, 1), St(5, 3, 4), St(6, 1, 3),
                    Cl(7, "use", <<>>), Ld(8, 1), Ld(9, 8), Rt(10, <<9>>)>> >>,
               << <<>> >>, <<>>, One, {1, 3, 4, 8, 9})

\* The list is kept in an object of the frame, of which a callee is told.
InObject ==
  Func(<< <<Arg(1), Ld(2, 1), LocalAddr(3, "x"), St1(4, 3, 2), Null(5), St(6, 1, 5),
            Cl(7, "use", <<>>), LocalAddr(8, "x"), Cl(9, "use", <<8>>),
            LocalAddr(10, "x"), Ld1(11, 10), Ld(12, 11), Rt(13, <<12>>)>> >>,
       << <<>> >>, <<Flag, Pair(TRUE)>>, One, {1, 2, 3, 5, 8, 10, 11, 12})

\* The address of the object is used again below the call.
SameAddress ==
  Func(<< <<Arg(1), Ld(2, 1), LocalAddr(3, "x"), St1(4, 3, 2), Null(5), St(6, 1, 5),
            Cl(7, "use", <<>>), Ld1(8, 3), Ld(9, 8), Rt(10, <<9>>)>> >>,
       << <<>> >>, <<Flag, Pair(TRUE)>>, One, {1, 2, 3, 5, 8, 9})

\* A pointer into the frame or to the heap, across a call that stores by it; the
\* first call is above anything the object of the frame is given.
Either(known) ==
          Func(<< <<Arg(1), Cl(13, "use", <<>>), Ld(2, 1), LocalAddr(3, "y"), St(4, 3, 2), Null(5), St(6, 1, 5), Br(7, 2)>>,
                  <<LocalAddr(8, "y")>>,
                  <<>>,
                  <<Phi(9, <<8, 1>>), Cl(10, "use", <<9>>), Ld(11, 9), Rt(12, <<11>>)>> >>,
               << <<2, 3>>, <<4>>, <<4>>, <<>> >>, <<Cell(known)>>, One, {1, 2, 3, 5, 8, 9, 11})

\* A pointer into the caller's frame.
Outer == Func(<< <<Arg(1), Arg(2), Ld(3, 2), St(4, 1, 3), Null(5), St(6, 2, 5), Cl(7, "use", <<>>), Ld(8, 1),
                   Rt(9, <<8>>)>> >>,
              << <<>> >>, <<>>, <<InReg(1, 0), InReg(2, PtrSize)>>, {1, 2, 3, 5, 8})

\* The list is walked by a loop that calls, and cut behind the cursor.
Walking == Func(<< <<Arg(1)>>,
                   <<Phi(2, <<1, 4>>), Ld(4, 2), Br(7, 4)>>,
                   <<Null(5), St(6, 2, 5), Cl(3, "use", <<>>)>>,
                   <<Rt(8, <<2>>)>> >>,
                << <<2>>, <<3, 4>>, <<2>>, <<>> >>, <<>>, One, {1, 2, 4, 5})

\* x is kept in a global across a call and taken back, unless it is not there.
Global == Func(<< <<Arg(1), Ld(2, 1), StaticAddr(3), St(4, 3, 2), Null(5), St(6, 1, 5), Ld(7, 2), Br(8, 7)>>,
                  <<Cl(9, "panic", <<>>)>>,
                  <<Cl(10, "use", <<>>), StaticAddr(11), Ld(12, 11), Null(15), St(16, 11, 15), Ld(13, 12), Rt(14, <<13>>)>> >>,
               << <<2, 3>>, <<>>, <<>> >>, <<>>, One, {1, 2, 5, 7, 12, 13, 15})

\* The last block of the code ends in a call that does not return.
Panics == Func(<< <<Arg(1), Ld(2, 1), Br(3, 2)>>,
                  <<Rt(4, <<1>>)>>,
                  <<Cl(5, "panic", <<1>>)>> >>,
               << <<3, 2>>, <<>>, <<>> >>, <<>>, One, {1, 2})

\* No call: no frame, a small one, and one that is larger than any guard.
Leaf == Func(<< <<Arg(1), Ld(2, 1), Rt(3, <<2>>)>> >>, << <<>> >>, <<>>, One, {1, 2})
LeafLarge == Func(<< <<Arg(1), Ld(2, 1), LocalAddr(3, "z"), St(4, 3, 2), Ld(5, 3), Rt(6, <<5>>)>> >>,
                  << <<>> >>, <<Large>>, One, {1, 2, 3, 5})

Program == [unlink |-> Unlink, unlink1 |-> Unlink1, insert |-> Insert, object |-> InObject,
            either |-> Either(TRUE), unknown |-> Either(FALSE), outer |-> Outer, walk |-> Walking,
            global |-> Global, panics |-> Panics, leaf |-> Leaf, large |-> LeafLarge]

First == <<"heap", 1>>
Input == [n \in DOMAIN Program |-> IF n = "outer" THEN (1 :> <<"stack", 0, "outer", 0>>) @@ (2 :> First)
                                   ELSE 1 :> First]
\* The list, by its first words, or by its second ones.
List == [n \in DOMAIN Program \cup {"same"} |->
           (1 :> (IF n = "unlink1" THEN << <<"nil">>, <<"heap", 2>> >> ELSE << <<"heap", 2>>, <<"nil">> >>))
           @@ (2 :> << <<"nil">>, <<"nil">> >>)]

MCPeers == {<<"nil">>, First}
MCEntries == {<<8, FALSE>>, <<1, FALSE>>, <<8, TRUE>>}

\* Programs whose use of the list the tables do not cover.
Reusing == [same |-> SameAddress]
ReusingInput == [same |-> 1 :> First]
=============================================================================
