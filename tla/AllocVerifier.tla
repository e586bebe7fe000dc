---------------------------- MODULE AllocVerifier ----------------------------
(***************************************************************************)
(* VerifyAllocation (src/ssa/regalloc.go): the checks that an allocation   *)
(* has to pass, and what passing them is worth.                            *)
(*                                                                         *)
(* The allocator's answer is replaced by any allocation at all: homes, the *)
(* registers of operands and results, the table of slots and the copies of *)
(* edges are an input, as if the allocator had a bug.  The code that the   *)
(* emitter makes of an allocation runs only if nothing is reported.        *)
(***************************************************************************)
EXTENDS AllocRun

CONSTANTS Allocations(_)  \* given the allocator's own answer, the ones to try

VARIABLES reported        \* the invariants VerifyAllocation reports as broken

NoHome == NoReg
Home(a, v) == a.loc[v]
InReg(l)  == l \in Regs \cup ScratchRegs
InSlot(l) == l # NoHome /\ ~InReg(l)

\* verifyHomes.  Every value of the test functions is an integer, so the class
\* of a register is never wrong.
BadHome(a) == \E v \in Ids : IF v \in Tracked(fn) THEN Home(a, v) = NoHome ELSE Home(a, v) # NoHome
NoSuchSlot(a) == \E v \in Ids : InSlot(Home(a, v)) /\ \A i \in DOMAIN a.slots : SlotLoc(i) # Home(a, v)
ReservedHome(a) == \E v \in Ids : InReg(Home(a, v)) /\ Home(a, v) \notin Allocatable
AcrossCall(a) == \E v \in an.across : InReg(Home(a, v))

\* Mutant: only the values next to each other by number.
Overlap_Next(a) == \E v \in an.tracked : /\ v - 1 \in an.tracked
                                        /\ Home(a, v - 1) = Home(a, v) /\ InReg(Home(a, v))
                                        /\ Conflicts(v - 1, v)

\* verifyOverlap: every pair of one register.
Overlap(a) == \E u, v \in an.tracked : u < v /\ Home(a, u) = Home(a, v) /\ InReg(Home(a, u)) /\ Conflicts(u, v)

\* Mutant: an operand of a call is read from its home as any other is.
OperandOK_Home(a, v, i) ==
  LET arg == fn.args[v][i]
      r   == a.args[v][i]
  IN  IF arg \notin Tracked(fn) \cup Remats(fn) \/ fn.op[v] = "phi" THEN r = NoReg
      ELSE IF arg \notin Remats(fn) /\ InReg(Home(a, arg)) THEN r = Home(a, arg) ELSE r \in ScratchRegs

\* verifyOperands, case for case as assignOperands chooses.
OperandOK(a, v, i) ==
  LET arg == fn.args[v][i]
      r   == a.args[v][i]
  IN  IF arg \notin Tracked(fn) \cup Remats(fn) \/ fn.op[v] = "phi" THEN r = NoReg
      ELSE IF fn.op[v] \in Convention THEN r = IF i \in DOMAIN ArgRegs THEN ArgRegs[i] ELSE NoReg
      ELSE IF arg \notin Remats(fn) /\ InReg(Home(a, arg)) THEN r = Home(a, arg) ELSE r \in ScratchRegs

\* Two operands that are different values are not read into one scratch register.
ScratchTwice(a, v) == \E i, j \in DOMAIN fn.args[v] :
                        /\ fn.args[v][i] # fn.args[v][j]
                        /\ a.args[v][i] = a.args[v][j]
                        /\ a.args[v][i] \in ScratchRegs

ResultOK(a, v) == IF InReg(Home(a, v)) THEN a.result[v] = Home(a, v)
                  ELSE IF InSlot(Home(a, v)) THEN a.result[v] \in ScratchRegs ELSE a.result[v] = NoReg

BadOperand(a) == \E v \in ToSet(lay.at) \ {NoId} :
                    \/ \E i \in DOMAIN fn.args[v] : ~OperandOK(a, v, i)
                    \/ ScratchTwice(a, v)
                    \/ ~ResultOK(a, v)

\* verifySlots: the table against the homes, and the sharing rule on every pair.
BadSlot(a) ==
  \/ \E i \in DOMAIN a.slots : \E u \in a.slots[i] :
        \/ Home(a, u) # SlotLoc(i)
        \/ \E w \in a.slots[i] : /\ w # u
                                 /\ ~CanShareSlot(fn, lay, an, safe, u, w)
  \/ \E v \in Ids : InSlot(Home(a, v)) /\ Cardinality({i \in DOMAIN a.slots : v \in a.slots[i]}) # 1

\* verifyEdges.  The entries are indexed by successor and slot; an entry is looked
\* at if its slot is one of the successor's predecessors.
Entries(a, s, j) == {k \in DOMAIN a.copies : a.copies[k].succ = s /\ a.copies[k].slot = j}
EntryOf(a, s, j) == IF Entries(a, s, j) = {} THEN [seq |-> <<>>, atEnd |-> TRUE] ELSE a.copies[Min(Entries(a, s, j))]

\* A copy writes a phi of the successor or a scratch register, and an entry sits
\* where the edge has a place for it.
Misplaced(a, s, j, e) ==
  \/ e.pred # fn.preds[s][j]
  \/ e.atEnd /\ Len(fn.succs[fn.preds[s][j]]) # 1
  \/ ~e.atEnd /\ Len(fn.preds[s]) # 1
  \/ \E k \in DOMAIN e.seq : e.seq[k].dst \notin ScratchRegs \cup {Home(a, phi) : phi \in Phis(fn, s) \cap Tracked(fn)}
  \/ Phis(fn, s) \cap Tracked(fn) = {} /\ e.seq # <<>>

BadPhi(a) ==
  \/ \E k \in DOMAIN a.copies : a.copies[k].succ \notin Blocks(fn)
  \/ \E k, m \in DOMAIN a.copies : k < m /\ a.copies[k].succ = a.copies[m].succ /\ a.copies[k].slot = a.copies[m].slot
  \/ \E x \in Slotted : Entries(a, x[1], x[2]) # {} /\ Misplaced(a, x[1], x[2], EntryOf(a, x[1], x[2]))

\* replayEdge: the copies run over a machine whose locations hold values by name.
\* At first what arrives on this edge is in its home, and nothing else is known;
\* of a location that the frame lacks nothing is ever known.
Arriving(s, j) == {fn.args[phi][j] : phi \in Phis(fn, s)}
BeforeCopies(a, s, j) ==
  [l \in CellsOf(a.slots) |-> LET here == {v \in Arriving(s, j) \cap Tracked(fn) : Home(a, v) = l}
                              IN  IF here = {} THEN NoId ELSE CHOOSE v \in here : TRUE]
Known(m, l) == IF l \in DOMAIN m THEN m[l] ELSE NoId

\* What a copy leaves, and whether it read what it was written to move.
Replayed(st, c) == [m  |-> [st.m EXCEPT ![c.dst] = IF c.src = NoReg THEN c.val ELSE Known(st.m, c.src)],
                    ok |-> st.ok /\ (c.src = NoReg \/ Known(st.m, c.src) = c.val)]

\* Mutant: all the copies of an edge read what was there before any of them.
Replay_AtOnce(a, s, j) ==
  LET seq == EntryOf(a, s, j).seq
      m0  == BeforeCopies(a, s, j)
      One(st, c) == LET r == Replayed([m |-> m0, ok |-> TRUE], c)
                    IN  [m |-> [st.m EXCEPT ![c.dst] = Known(r.m, c.dst)], ok |-> st.ok /\ r.ok]
      run[n \in 0 .. Len(seq)] == IF n = 0 THEN [m |-> m0, ok |-> TRUE] ELSE One(run[n - 1], seq[n])
  IN  run[Len(seq)]

Replay(a, s, j) ==
  LET seq == EntryOf(a, s, j).seq
      run[n \in 0 .. Len(seq)] == IF n = 0 THEN [m |-> BeforeCopies(a, s, j), ok |-> TRUE]
                                  ELSE Replayed(run[n - 1], seq[n])
  IN  run[Len(seq)]

\* Mutant: what a copy reads is checked, what the phis end up with is not.
BadEdge_ReadsOnly(a) == \E x \in Slotted : ~Replay(a, x[1], x[2]).ok

BadEdge(a) ==
  \E x \in Slotted :
    /\ Phis(fn, x[1]) \cap Tracked(fn) # {}
    /\ LET end == Replay(a, x[1], x[2])
       IN  \/ ~end.ok
           \/ \E phi \in Phis(fn, x[1]) :
                LET arg == fn.args[phi][x[2]]
                IN  arg \in Tracked(fn) \cup Remats(fn) /\ Known(end.m, Home(a, phi)) # arg

\* Everything VerifyAllocation reports, which is not Pending.
Checks == {"home", "reserved", "call", "overlap", "operand", "slot", "phi", "edge"}

ASSUME ReportAssumption == \A S \in SUBSET Checks : S # Pending

Violations(a) ==
  {x \in Checks :
     CASE x = "home"     -> BadHome(a) \/ NoSuchSlot(a)
       [] x = "reserved" -> ReservedHome(a)
       [] x = "call"     -> AcrossCall(a)
       [] x = "overlap"  -> Overlap(a)
       [] x = "operand"  -> BadOperand(a)
       [] x = "slot"     -> BadSlot(a)
       [] x = "phi"      -> BadPhi(a)
       [] x = "edge"     -> ~BadHome(a) /\ BadEdge(a)}

-----------------------------------------------------------------------------
(* The code runs if the check reports nothing *)

Answer == [loc    |-> [v \in Ids |-> IF v \in an.tracked THEN loc[v] ELSE NoHome],
           args   |-> args, result |-> result, slots |-> slots, copies |-> copies]

\* What an allocation is.  Three things of it VerifyAllocation takes for granted,
\* as Allocate writes it: the copies of an edge name a slot their successor has,
\* a copy that reads no location is of a value that can be recomputed, and no copy
\* names the scratch register that a move to a slot goes through.
Copies == [dst : Int \cup {NoReg}, src : Int \cup {NoReg}, val : Ids]
IsAllocation(a) ==
  /\ a.slots \in Seq(SUBSET Ids) /\ DOMAIN a.loc = Ids
  /\ a.copies \in Seq([pred : Nat, succ : Nat, slot : Nat, atEnd : BOOLEAN, seq : Seq(Copies)])
  /\ \A e \in ToSet(a.copies) : /\ e.succ \in Blocks(fn) => e.slot \in DOMAIN fn.preds[e.succ]
                                /\ \A c \in ToSet(e.seq) : /\ c.src = NoReg => c.val \in Remats(fn)
                                                           /\ Scratch[2] \notin {c.dst, c.src}

VerifyAllocation ==
  /\ phase = "allocated" /\ reported = Pending
  /\ \E a \in {x \in Allocations(Answer) : IsAllocation(x)} :
        /\ loc' = a.loc /\ args' = a.args /\ result' = a.result /\ slots' = a.slots /\ copies' = a.copies
        /\ reported' = Violations(a)
  /\ UNCHANGED <<src, fn, order, liveness, phase, scanVars, lay, safe, runVars>>

VerifiedNext ==
  \/ VerifyAllocation
  \/ /\ phase # "allocated" \/ reported = {}
     /\ Next
     /\ UNCHANGED reported

verifiedVars == <<vars, reported>>

\* The compiler and the code it makes, for any function it may be given.
VerifiedInit == Compilable(src) /\ InitAlloc /\ reported = Pending
VerifiedSpec == VerifiedInit /\ [][VerifiedNext]_verifiedVars

-----------------------------------------------------------------------------
(* Properties *)

\* The allocator never fails its own check: "a wrong allocation is found", and
\* nothing that is right is reported.
AcceptsItsOwn == phase = "allocated" /\ reported = Pending => Violations(Answer) = {}
=============================================================================
