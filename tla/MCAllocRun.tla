----------------------------- MODULE MCAllocRun -----------------------------
(* Functions of five shapes over two allocatable registers: straight line     *)
(* code with a call of two results, a diamond, an arm that may be skipped,    *)
(* and a loop whose latch edge is critical or not.  For a few of them every    *)
(* allocation with a fault is tried as well as the allocator's own.            *)
EXTENDS AllocVerifier

MCIds == 1 .. 12
MCPositions == 0 .. 20

\* A function from its blocks, each a sequence of instructions <<id, op, args>>,
\* and the registers of its arguments.
Func(code, succs, place, ptr) ==
  LET instr(v) == CHOOSE x \in ToSet(FlattenSeq(code)) : x[1] = v
      used     == {x[1] : x \in ToSet(FlattenSeq(code))}
      from(s)  == FlattenSeq([b \in DOMAIN code |-> SelectSeq([i \in DOMAIN succs[b] |->
                                 IF succs[b][i] = s THEN b ELSE 0], LAMBDA x : x # 0)])
  IN  [vals  |-> [b \in DOMAIN code |-> [i \in DOMAIN code[b] |-> code[b][i][1]]],
       succs |-> succs,
       preds |-> [b \in DOMAIN code |-> from(b)],
       op    |-> [v \in MCIds |-> IF v \in used THEN instr(v)[2] ELSE "none"],
       args  |-> [v \in MCIds |-> IF v \in used THEN instr(v)[3] ELSE <<>>],
       place |-> [v \in MCIds |-> IF v \in DOMAIN place THEN place[v] ELSE NoReg],
       ptr   |-> ptr]

InRegs == <<0, 1>>
MCScratch == <<50, 51, 52>>
MCClassOf == [r \in {0, 1} |-> "int"]

\* x is a constant or an argument passed on the stack.
Line == {Func(<< <<<<1, "arg", <<>>>>, <<2, "arg", <<>>>>, <<3, x, <<>>>>,
                   <<4, "op", a>>, <<5, "call", c>>, <<6, "select", <<5>>>>, <<7, "select", <<5>>>>,
                   <<8, "op", d>>, <<9, "ret", r>>>> >>,
              <<<<>>>>, InRegs, p) :
           x \in {"const", "arg"},
           a \in {<<1, 2>>, <<2, 2>>, <<1, 3>>}, c \in {<<2, 1>>, <<4, 3>>, <<1, 4, 2>>},
           d \in {<<4, 1>>, <<6, 7>>, <<7, 2>>, <<7, 4, 6>>}, r \in {<<8, 7>>, <<8, 1>>, <<2, 4>>, <<7, 6>>},
           p \in {{}, {1, 4}}}

Diamond == {Func(<< <<<<1, "arg", <<>>>>, <<2, "arg", <<>>>>, <<3, "const", <<>>>>, <<4, "branch", <<1>>>>>>,
                     <<<<5, "op", a>>>>,
                     <<<<6, "call", <<2>>>>, <<7, "select", <<6>>>>>>,
                     <<<<8, "phi", <<5, x>>>>, <<9, "phi", <<y, z>>>>, <<10, "op", <<8, w>>>>, <<11, "ret", <<9, 10>>>>>> >>,
                  <<<<2, 3>>, <<4>>, <<4>>, <<>>>>, InRegs, p) :
              a \in {<<1, 2>>, <<3>>}, x \in {7, 1}, y \in {1, 2, 3}, z \in {2, 7, 3}, w \in {1, 2, 9},
              p \in {{}, {2, 9}}}

\* The header branches back to itself: the edge is critical.
Repeat == {Func(<< <<<<1, "arg", <<>>>>, <<2, "arg", <<>>>>, <<3, "const", <<>>>>>>,
                  <<<<4, "phi", <<e, x>>>>, <<5, "phi", <<2, y>>>>>> \o b \o <<<<9, "branch", <<4>>>>>>,
                  <<<<10, "op", <<5>>>>, <<11, "ret", r>>>> >>,
               <<<<2>>, <<2, 3>>, <<>>>>, InRegs, {}) :
            e \in {1, 2, 3}, x \in {4, 5, 8}, y \in {4, 8, 1},
            b \in {<<<<8, "op", <<4, 5>>>>>>, <<<<6, "call", <<5, 4>>>>, <<8, "select", <<6>>>>>>,
                   <<<<8, "op", <<5, 1>>>>, <<6, "call", <<4>>>>>>},
            r \in {<<10, 4>>, <<1, 10>>, <<8, 2>>}}

\* The body is a block of its own, after the header or after the exit.
While == {Func(<< <<<<1, "arg", <<>>>>, <<2, "arg", <<>>>>>>,
                  <<<<4, "phi", <<2, x>>>>, <<8, "op", h>>, <<9, "branch", <<8>>>>>>,
                  IF late THEN exit ELSE body, IF late THEN body ELSE exit >>,
               <<<<2>>, IF swap THEN <<4, 3>> ELSE <<3, 4>>, IF late THEN <<>> ELSE <<2>>,
                 IF late THEN <<2>> ELSE <<>>>>, InRegs, p) :
            x \in {4, 5, 6, 1}, h \in {<<4>>, <<4, 1>>}, swap \in BOOLEAN, late \in BOOLEAN,
            body \in {<<<<5, "op", <<8>>>>, <<6, "op", <<5, 4>>>>, <<7, "op", <<6>>>>>>,
                      <<<<3, "call", <<4>>>>, <<5, "select", <<3>>>>, <<6, "op", <<5, 8>>>>>>,
                      <<<<5, "op", <<8>>>>, <<3, "call", <<4>>>>, <<6, "select", <<3>>>>>>},
            exit \in {<<<<11, "ret", <<1, 4>>>>>>, <<<<11, "ret", <<8>>>>>>},
            p \in {{}, {1, 5}}}

\* One arm only: the edge that skips it is critical, and the join's first.
IfThen == {Func(<< <<<<1, "arg", <<>>>>, <<2, "arg", <<>>>>, <<3, "branch", <<1>>>>>>,
                   <<<<4, "op", <<a>>>>>>,
                   <<<<5, "phi", <<x, 4>>>>, <<6, "phi", <<y, z>>>>, <<7, "ret", <<5, 6>>>>>> >>,
                <<<<2, 3>>, <<3>>, <<>>>>, InRegs, {}) :
             a \in {1, 2}, x \in {1, 2}, y \in {1, 2}, z \in {1, 2, 4}}

Programs == IfThen \cup Line \cup Diamond \cup Repeat \cup While

-----------------------------------------------------------------------------
(* Allocations with a fault *)

\* A diamond, a critical loop edge that swaps two phis, a call with two results.
Few == {Func(<< <<<<1, "arg", <<>>>>, <<2, "arg", <<>>>>, <<3, "branch", <<1>>>>>>,
                <<<<4, "op", <<2, 1>>>>>>,
                <<<<5, "phi", <<2, 4>>>>, <<6, "phi", <<1, 2>>>>, <<7, "ret", <<5, 6>>>>>> >>,
             <<<<2, 3>>, <<3>>, <<>>>>, InRegs, {}),
        Func(<< <<<<1, "arg", <<>>>>, <<2, "arg", <<>>>>>>,
                <<<<4, "phi", <<1, 5>>>>, <<5, "phi", <<2, 4>>>>, <<9, "branch", <<4>>>>>>,
                <<<<11, "ret", <<5, 4>>>>>> >>,
             <<<<2>>, <<2, 3>>, <<>>>>, InRegs, {}),
        Func(<< <<<<1, "arg", <<>>>>, <<2, "arg", <<>>>>, <<3, "const", <<>>>>, <<4, "op", <<1, 3>>>>, <<5, "call", <<2, 4>>>>,
                  <<6, "select", <<5>>>>, <<7, "select", <<5>>>>, <<8, "op", <<7, 1>>>>, <<9, "ret", <<6, 8>>>>>> >>,
             <<<<>>>>, InRegs, {1}),
        Func(<< <<<<1, "arg", <<>>>>, <<3, "const", <<>>>>>>,
                <<<<4, "phi", <<3, 8>>>>, <<5, "phi", <<1, 4>>>>, <<8, "op", <<4, 5>>>>, <<9, "branch", <<8>>>>>>,
                <<<<11, "ret", <<5>>>>>> >>,
             <<<<2>>, <<2, 3>>, <<>>>>, InRegs, {})}

\* The allocation that follows from the homes h.
From(h) == [loc    |-> h,
            args   |-> OperandRegs(h),
            result |-> ResultRegs(h),
            slots  |-> [i \in 1 .. 2 |-> {v \in an.tracked : h[v] = SlotLoc(i)}],
            copies |-> EdgeEntries(h)]

Rehomed == {From([v \in Ids |-> IF v \in an.tracked THEN h[v] ELSE NoHome]) :
              h \in [an.tracked -> {0, 1, SlotLoc(1), SlotLoc(2)}]}

OneHome(a) == {From([a.loc EXCEPT ![v] = l]) : v \in an.tracked, l \in {50, SlotLoc(3)}}
              \cup {[a EXCEPT !.loc[v] = NoHome] : v \in an.tracked}

OneOperand(a) == UNION {{[a EXCEPT !.args[v][i] = r] : i \in DOMAIN fn.args[v], r \in {0, 1, 50, 51, NoReg}} :
                          v \in ToSet(lay.at) \ {NoId}}
                 \cup {[a EXCEPT !.result[v] = r] : v \in an.tracked, r \in {0, 1, 50, NoReg}}

Relisted(a) == {[a EXCEPT !.slots = [i \in 1 .. 2 |-> IF i = j THEN s ELSE IF i \in DOMAIN @ THEN @[i] ELSE {}]] :
                  j \in 1 .. 2, s \in SUBSET {v \in an.tracked : ~InReg(a.loc[v])}}

Reordered(a) == UNION {{[a EXCEPT !.copies[k].seq = s] :
                          s \in UNION {Orders(c) : c \in SUBSET ToSet(a.copies[k].seq)}} : k \in DOMAIN a.copies}
                \cup {[a EXCEPT !.copies = RemoveAt(@, k)] : k \in DOMAIN a.copies}
                \cup {[a EXCEPT !.copies = Append(@, @[k])] : k \in DOMAIN a.copies}
                \cup UNION {{[a EXCEPT !.copies[k][f] = x] : f \in {"pred", "succ"}, x \in Blocks(fn)} : k \in DOMAIN a.copies}
                \cup {[a EXCEPT !.copies[k].atEnd = ~@] : k \in DOMAIN a.copies}

Wrong(a) == OneHome(a) \cup OneOperand(a) \cup Relisted(a) \cup Reordered(a)

\* Only for the few functions: the others are checked as the allocator leaves them.
Tried(a) == IF src \in Few THEN {a} \cup Rehomed \cup Wrong(a) ELSE {a}

-----------------------------------------------------------------------------
(* An argument of three words between two of one word: f(a int, s []byte, b    *)
(* int).  The convention places an argument whole, so s is in the argument     *)
(* area and b takes the register after a's.  The words of s are the values 2,  *)
(* 3 and 4, of which the body reads some.                                      *)

PartlyRead == {Func(<< <<<<1, "arg", <<>>>>, <<2, "arg", <<>>>>, <<3, "arg", <<>>>>, <<4, "arg", <<>>>>,
                         <<5, "arg", <<>>>>, <<6, "op", r>>, <<7, "op", <<6, 1>>>>, <<8, "ret", <<7, 5>>>>>> >>,
                    <<<<>>>>, <<0, NoReg, NoReg, NoReg, 1>>, {2}) :
                 r \in {<<3>>, <<2, 3>>, <<2, 3, 4>>}}

-----------------------------------------------------------------------------
(* The specifications of the two runs *)

\* Every function tried is one the compiler could be given, the ones with an
\* argument on the stack between two in registers aside.
ASSUME \A f \in Programs \cup Few : Compilable(f)

MCInit == src \in Programs \cup Few /\ InitAlloc /\ reported = Pending
MCSpec == MCInit /\ [][VerifiedNext]_verifiedVars

StackArgsInit == src \in PartlyRead /\ InitAlloc /\ reported = Pending
StackArgsSpec == StackArgsInit /\ [][VerifiedNext]_verifiedVars
=============================================================================
