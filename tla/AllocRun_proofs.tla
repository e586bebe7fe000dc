-------------------------- MODULE AllocRun_proofs ---------------------------
(***************************************************************************)
(* Proofs about the run of the allocated function: at every step of every  *)
(* run a value that is read is where the allocator put it, in a register   *)
(* and in a frame slot no other live value has, and the run is a run of    *)
(* the function before the allocation.                                     *)
(*                                                                         *)
(* LiveHomes is not inductive.  It says nothing in the middle of a block's *)
(* entry, where the parallel copy has moved some of the values, nor of the *)
(* values live further on, which a later instruction reads.  RunIInv says  *)
(* for every point what each place has to hold: at a value that is about   *)
(* to be computed, all that is live there (RunningIn); on an edge, what    *)
(* crosses it, a phi's argument under the phi's name once its copy is done *)
(* (Crosses, HomedIn, WaitingIn).  The argument for one step is that the   *)
(* place it writes is the place of nothing that is still wanted, which is  *)
(* what the scan and the slots are for; for an edge, that the sequence of  *)
(* copies is one parallel assignment.                                      *)
(*                                                                         *)
(* The allocator never fails its own check.  Of its answer every broken    *)
(* invariant is excluded in turn (Own...).  The homes are apart because    *)
(* the scan and the table of slots keep them so; the operands, because the *)
(* values that are materialised are counted; and an edge, because of how   *)
(* its copies are put in order: whatever is left to make stays one         *)
(* parallel assignment, which continues what was made (Tracks), and no     *)
(* more steps are needed than there are (Budget).                          *)
(***************************************************************************)
EXTENDS RegAnalysis_proofs

-----------------------------------------------------------------------------
(* Where a range begins and ends *)

\* All that the analysis says of the function.
AllKnown == Shaped /\ AnalysedAs

\* What is used again and again of it.
LEMMA AnalysedFacts ==
  ASSUME AllKnown
  PROVE  /\ Ready(fn) /\ IsFunction(fn) /\ IsGraph(fn) /\ FlowGraph(fn) /\ Matched(fn) /\ Fits(fn, lay)
         /\ \A b \in Blocks(fn) : \A i \in DOMAIN fn.vals[b] : WellPlaced(fn, b, i)
         /\ LiveAtStart(fn, 1) = {} /\ an.tracked = Tracked(fn) /\ Tracked(fn) \subseteq Values(fn) /\ Tracked(fn) \subseteq Ids
         /\ IsRange(fn, lay, liveIn, liveOut, an)
         /\ \A b \in Blocks(fn) : liveIn[b] = LiveAtStart(fn, b) /\ liveOut[b] = LiveAtEnd(fn, b)
BY FunctionFacts DEF AllKnown, Shaped, AnalysedAs, Ready, IsAnalysis, IsRange, IsFunction

\* The ends of the range of a value, and its position between them.
LEMMA RangeFacts ==
  ASSUME AllKnown, NEW v \in Tracked(fn)
  PROVE  /\ an.start[v] \in Nat /\ an.end[v] \in Nat /\ lay.pos[v] \in Nat
         /\ an.start[v] <= lay.pos[v] /\ lay.pos[v] <= an.end[v]
         /\ \A p \in Covers(fn, lay, liveIn, liveOut, v) : p \in Nat /\ an.start[v] <= p /\ p <= an.end[v]
<1>1. Ready(fn) /\ Fits(fn, lay) /\ IsRange(fn, lay, liveIn, liveOut, an)
  BY AnalysedFacts
<1>2. lay.pos[v] \in Covers(fn, lay, liveIn, liveOut, v)
  BY <1>1, CoversPositions
<1> QED BY <1>1, <1>2, PositionsAssumption DEF IsRange

\* The range of what is live has begun and is not over.
LEMMA LiveSpans ==
  ASSUME AllKnown, NEW b \in Blocks(fn), NEW i \in 1 .. Len(fn.vals[b]) + 1, NEW u \in LiveAt(fn, b, i)
  PROVE  /\ u \in Tracked(fn) /\ an.start[u] \in Nat /\ an.end[u] \in Nat /\ lay.pos[u] \in Nat
         /\ an.start[u] <= lay.pos[u] /\ lay.pos[u] < lay.first[b] + i - 1 /\ lay.first[b] + i - 1 <= an.end[u]
<1> DEFINE n == Len(fn.vals[b])
           fb == lay.first[b]
           Good(k) == \A w \in LiveAt(fn, b, k) : w \in Tracked(fn) /\ fb + k - 1 <= an.end[w]
           P == {m \in Nat : m <= n => Good((n - m) + 1)}
<1>1. /\ IsFunction(fn) /\ FlowGraph(fn) /\ Fits(fn, lay) /\ LiveAtStart(fn, 1) = {} /\ Tracked(fn) \subseteq Values(fn)
      /\ liveOut[b] = LiveAtEnd(fn, b)
  BY AnalysedFacts
<1>2. n \in Nat /\ DOMAIN fn.vals[b] = 1 .. n /\ fb \in Nat /\ lay.last[b] = fb + n
  BY <1>1, FunctionFacts, GraphTypes, EndPosition
<1>3. /\ LiveAt(fn, b, n + 1) = LiveAtEnd(fn, b)
      /\ \A k \in DOMAIN fn.vals[b] :
              LiveAt(fn, b, k) = (LiveAt(fn, b, k + 1) \ {fn.vals[b][k]}) \cup Reads(fn, fn.vals[b][k])
  BY <1>1, LiveSteps
<1> HIDE DEF fb, n
<1>4. 0 \in P
  <2> SUFFICES ASSUME NEW w \in LiveAt(fn, b, (n - 0) + 1) PROVE w \in Tracked(fn) /\ fb + ((n - 0) + 1) - 1 <= an.end[w]
    OBVIOUS
  <2>1. (n - 0) + 1 = n + 1 /\ fb + ((n - 0) + 1) - 1 = fb + n
    BY <1>2
  <2>2. w \in LiveAtEnd(fn, b)
    BY <1>3, <2>1
  <2>3. w \in Tracked(fn)
    BY <2>2 DEF LiveAtEnd, LiveAtStart, ReadAtEnd
  <2>4. lay.last[b] \in Covers(fn, lay, liveIn, liveOut, w)
    BY <1>1, <2>2 DEF Covers
  <2>5. lay.last[b] <= an.end[w]
    BY <2>3, <2>4, RangeFacts
  <2> QED BY <1>2, <2>1, <2>3, <2>5
<1>5. ASSUME NEW m \in Nat, m \in P PROVE m + 1 \in P
  <2> SUFFICES ASSUME m + 1 <= n, NEW w \in LiveAt(fn, b, (n - (m + 1)) + 1)
               PROVE  w \in Tracked(fn) /\ fb + ((n - (m + 1)) + 1) - 1 <= an.end[w]
    OBVIOUS
  <2> DEFINE k == n - m
  <2>1. k \in 1 .. n /\ (n - (m + 1)) + 1 = k /\ (n - m) + 1 = k + 1 /\ m <= n /\ k \in Nat
    BY <1>2
  <2>2. Good(k + 1)
    BY <1>5, <2>1
  <2> HIDE DEF k
  <2>3. w \in LiveAt(fn, b, k)
    BY <2>1
  <2>4. w \in LiveAt(fn, b, k + 1) \/ w \in Reads(fn, fn.vals[b][k])
    BY <1>2, <1>3, <2>1, <2>3
  <2>5. CASE w \in LiveAt(fn, b, k + 1)
    <3>1. w \in Tracked(fn) /\ fb + (k + 1) - 1 <= an.end[w]
      BY <2>2, <2>5
    <3>2. an.end[w] \in Nat
      BY <3>1, RangeFacts
    <3>3. fb + k - 1 <= an.end[w]
      BY <1>2, <2>1, <3>1, <3>2
    <3> QED BY <2>1, <3>1, <3>3
  <2>6. CASE w \in Reads(fn, fn.vals[b][k])
    <3> DEFINE v == fn.vals[b][k]
    <3>1. k \in DOMAIN fn.vals[b]
      BY <1>2, <2>1
    <3>2. v \in Values(fn) /\ lay.pos[v] = fb + k - 1
      BY <1>1, <3>1, Stands, PositionOf DEF fb
    <3> HIDE DEF v
    <3>3. w \in Tracked(fn)
      BY <2>6 DEF Reads
    <3>4. lay.pos[v] \in Covers(fn, lay, liveIn, liveOut, w)
      BY <2>6, <3>2 DEF Covers, Uses, v
    <3>5. lay.pos[v] <= an.end[w]
      BY <3>3, <3>4, RangeFacts
    <3> QED BY <2>1, <3>2, <3>3, <3>5
  <2> QED BY <2>4, <2>5, <2>6
<1> HIDE DEF P
<1>6. \A m \in Nat : m \in P
  BY <1>4, <1>5, NumberInduction
<1>7. Good(i)
  <2> DEFINE m == (n + 1) - i
  <2>1. m \in Nat /\ m <= n /\ (n - m) + 1 = i
    BY <1>2 DEF n
  <2>2. m \in P
    BY <1>6, <2>1
  <2> HIDE DEF m
  <2>3. Good((n - m) + 1)
    BY <2>1, <2>2 DEF P
  <2> QED BY <2>1, <2>3
<1>8. lay.pos[u] < lay.first[b] + i - 1
  <2>1. \A w \in LiveAtStart(fn, b) : lay.pos[w] < lay.first[b]
    BY <1>1, LiveAfter
  <2> QED BY <1>1, <2>1, LiveAfterInBlock
<1>9. u \in Tracked(fn) /\ fb + i - 1 <= an.end[u]
  BY <1>7
<1> QED BY <1>8, <1>9, RangeFacts DEF fb

\* Ranges that go on past each other's beginnings meet: as the scan sees it, and
\* as the slots do.
LEMMA Crossing ==
  ASSUME NEW u, NEW v, an.start[u] \in Nat, an.end[u] \in Nat, an.start[v] \in Nat, an.end[v] \in Nat,
         an.start[u] < an.end[v], an.start[v] < an.end[u]
  PROVE  Conflicts(u, v) /\ Overlaps(an, u, v)
BY DEF Conflicts, Reaches, Overlaps

-----------------------------------------------------------------------------
(* What the check establishes *)

Passed(a) == IsAllocation(a) /\ Violations(a) = {}

\* Nothing is reported: no invariant is broken.
LEMMA NothingReported ==
  ASSUME NEW a, Passed(a)
  PROVE  /\ ~BadHome(a) /\ ~NoSuchSlot(a) /\ ~ReservedHome(a) /\ ~AcrossCall(a) /\ ~Overlap(a) /\ ~BadOperand(a)
         /\ ~BadSlot(a) /\ ~BadPhi(a) /\ ~BadEdge(a) /\ IsAllocation(a)
<1> DEFINE Kinds == {"home", "reserved", "call", "overlap", "operand", "slot", "phi", "edge"}
           Broken(x) == CASE x = "home"     -> BadHome(a) \/ NoSuchSlot(a)
                          [] x = "reserved" -> ReservedHome(a)
                          [] x = "call"     -> AcrossCall(a)
                          [] x = "overlap"  -> Overlap(a)
                          [] x = "operand"  -> BadOperand(a)
                          [] x = "slot"     -> BadSlot(a)
                          [] x = "phi"      -> BadPhi(a)
                          [] x = "edge"     -> ~BadHome(a) /\ BadEdge(a)
<1>1. {x \in Kinds : Broken(x)} = {}
  BY DEF Passed, Violations, Checks
<1>2. \A x \in Kinds : ~Broken(x)
  <2> HIDE DEF Kinds, Broken
  <2> QED BY <1>1
<1>3. /\ ~Broken("home") /\ ~Broken("reserved") /\ ~Broken("call") /\ ~Broken("overlap") /\ ~Broken("operand")
      /\ ~Broken("slot") /\ ~Broken("phi") /\ ~Broken("edge")
  <2> HIDE DEF Broken
  <2> QED BY <1>2
<1>4. ~BadHome(a) /\ ~NoSuchSlot(a)
  BY <1>3
<1>5. ~ReservedHome(a) /\ ~AcrossCall(a)
  BY <1>3
<1>6. ~Overlap(a) /\ ~BadOperand(a)
  BY <1>3
<1>7. ~BadSlot(a) /\ ~BadPhi(a)
  BY <1>3
<1>8. ~BadEdge(a)
  BY <1>3, <1>4
<1> QED BY <1>4, <1>5, <1>6, <1>7, <1>8 DEF Passed

\* A register is no slot, and slots with different numbers are different.
LEMMA SlotFacts ==
  ASSUME NEW i \in Nat, i >= 1
  PROVE  /\ SlotLoc(i) \in Nat /\ SlotLoc(i) \notin Regs \cup ScratchRegs /\ SlotLoc(i) # NoReg
         /\ \A j \in Nat : SlotLoc(j) = SlotLoc(i) => j = i
BY MachineAssumption DEF SlotLoc

\* Every value that needs a home has one: an allocatable register or a slot of
\* the table, never a scratch register.
LEMMA HomeFacts ==
  ASSUME AllKnown, NEW a, Passed(a), NEW v \in Tracked(fn)
  PROVE  /\ Home(a, v) \in CellsOf(a.slots) /\ Home(a, v) \notin ScratchRegs /\ Home(a, v) # NoReg
         /\ InReg(Home(a, v)) <=> Home(a, v) \in Regs
         /\ Home(a, v) \in Regs \/ InSlot(Home(a, v))
<1>1. v \in Ids
  BY AnalysedFacts
<1>2. Home(a, v) # NoHome
  BY <1>1, NothingReported DEF BadHome
<1>3. CASE InReg(Home(a, v))
  <2>1. Home(a, v) \in Allocatable
    BY <1>1, <1>3, NothingReported DEF ReservedHome
  <2>2. Home(a, v) \in Regs
    BY <2>1, RegsAssumption
  <2> QED BY <1>2, <2>2, MachineAssumption DEF InReg, CellsOf, NoHome
<1>4. CASE InSlot(Home(a, v))
  <2>1. PICK i \in DOMAIN a.slots : SlotLoc(i) = Home(a, v)
    BY <1>1, <1>4, NothingReported DEF NoSuchSlot
  <2>2. Home(a, v) \notin Regs \cup ScratchRegs
    BY <1>4 DEF InSlot, InReg
  <2> QED BY <1>2, <2>1, <2>2, <1>4 DEF CellsOf, InReg, NoHome
<1> QED BY <1>2, <1>3, <1>4 DEF InSlot

\* Two values with one home do not meet.
LEMMA HomesApart ==
  ASSUME AllKnown, NEW a, Passed(a), NEW u \in Tracked(fn), NEW v \in Tracked(fn), u # v,
         an.start[u] < an.end[v], an.start[v] < an.end[u]
  PROVE  Home(a, u) # Home(a, v)
<1> SUFFICES ASSUME Home(a, u) = Home(a, v) PROVE FALSE
  OBVIOUS
<1>1. Tracked(fn) \subseteq Ids /\ Ids \subseteq Nat /\ an.tracked = Tracked(fn)
  BY AnalysedFacts, IdsAssumption
<1>2. Conflicts(u, v) /\ Overlaps(an, u, v) /\ Conflicts(v, u)
  BY RangeFacts, Crossing
<1>3. CASE InReg(Home(a, u))
  <2>0. u \in Nat /\ v \in Nat
    BY <1>1
  <2>1. u < v \/ v < u
    BY ONLY <2>0, u # v
  <2>2. ~Overlap(a)
    BY NothingReported
  <2>3. u \in an.tracked /\ v \in an.tracked /\ Home(a, v) = Home(a, u)
    BY <1>1
  <2> QED BY ONLY <1>2, <1>3, <2>1, <2>2, <2>3 DEF Overlap
<1>4. CASE InSlot(Home(a, u))
  <2>1. ASSUME NEW w \in Tracked(fn), InSlot(Home(a, w)) PROVE \E i \in DOMAIN a.slots : w \in a.slots[i] /\ Home(a, w) = SlotLoc(i)
    <3>1. Cardinality({i \in DOMAIN a.slots : w \in a.slots[i]}) = 1
      BY <1>1, <2>1, NothingReported DEF BadSlot
    <3>2. {i \in DOMAIN a.slots : w \in a.slots[i]} # {}
      <4>1. Cardinality({}) = 0
        BY ONLY FS_EmptySet
      <4> QED BY ONLY <3>1, <4>1
    <3>3. PICK i \in DOMAIN a.slots : w \in a.slots[i]
      BY <3>2
    <3> QED BY <3>3, NothingReported DEF BadSlot
  <2>2. PICK i \in DOMAIN a.slots : u \in a.slots[i] /\ Home(a, u) = SlotLoc(i)
    BY <1>4, <2>1
  <2>3. PICK j \in DOMAIN a.slots : v \in a.slots[j] /\ Home(a, v) = SlotLoc(j)
    BY <1>4, <2>1
  <2>4. a.slots \in Seq(SUBSET Ids)
    BY NothingReported DEF IsAllocation
  <2>5. i \in Nat /\ j \in Nat /\ i >= 1
    BY <2>4
  <2>6. i = j
    BY <2>2, <2>3, <2>5, SlotFacts
  <2>7. CanShareSlot(fn, lay, an, safe, u, v)
    BY <2>2, <2>3, <2>6, NothingReported DEF BadSlot
  <2> QED BY <1>2, <2>7 DEF CanShareSlot
<1> QED BY <1>3, <1>4, HomeFacts DEF InReg

-----------------------------------------------------------------------------
(* What a value's place keeps apart *)

\* The values of a block before and after the one at i.
LEMMA PlaceFacts ==
  ASSUME AllKnown, NEW b \in Blocks(fn), NEW i \in DOMAIN fn.vals[b]
  PROVE  /\ i \in 1 .. Len(fn.vals[b]) + 1 /\ i + 1 \in 1 .. Len(fn.vals[b]) + 1 /\ i \in Nat /\ Len(fn.vals[b]) \in Nat
         /\ DOMAIN fn.vals[b] = 1 .. Len(fn.vals[b])
         /\ lay.pos[fn.vals[b][i]] = lay.first[b] + i - 1 /\ lay.first[b] \in Nat /\ lay.pos[fn.vals[b][i]] \in Nat
         /\ fn.vals[b][i] \in Values(fn) /\ fn.vals[b][i] \in Ids
         /\ LiveAt(fn, b, i) = (LiveAt(fn, b, i + 1) \ {fn.vals[b][i]}) \cup Reads(fn, fn.vals[b][i])
<1>1. IsFunction(fn) /\ FlowGraph(fn) /\ Fits(fn, lay)
  BY AnalysedFacts
<1>2. Len(fn.vals[b]) \in Nat /\ DOMAIN fn.vals[b] = 1 .. Len(fn.vals[b])
  BY <1>1, FunctionFacts, GraphTypes
<1>3. LiveAt(fn, b, i) = (LiveAt(fn, b, i + 1) \ {fn.vals[b][i]}) \cup Reads(fn, fn.vals[b][i])
  BY <1>1, LiveSteps
<1>4. lay.pos[fn.vals[b][i]] = lay.first[b] + i - 1 /\ lay.first[b] \in Nat
  BY <1>1, PositionOf
<1>5. fn.vals[b][i] \in Values(fn) /\ fn.vals[b][i] \in Ids
  BY <1>1, Stands
<1>6. lay.pos[fn.vals[b][i]] \in Nat
  BY <1>2, <1>4
<1> QED BY <1>2, <1>3, <1>4, <1>5, <1>6

\* A value that writes its result after what is live next to it: their homes differ.
LEMMA WrittenApart ==
  ASSUME AllKnown, NEW a, Passed(a), NEW b \in Blocks(fn), NEW i \in DOMAIN fn.vals[b], NEW u \in LiveAt(fn, b, i + 1),
         fn.vals[b][i] \in Tracked(fn), u # fn.vals[b][i]
  PROVE  Home(a, u) # Home(a, fn.vals[b][i])
<1> DEFINE v == fn.vals[b][i]
           p == lay.pos[v]
           fb == lay.first[b]
<1>1. i \in Nat /\ i + 1 \in 1 .. Len(fn.vals[b]) + 1 /\ p = fb + i - 1 /\ fb \in Nat /\ v \in Values(fn)
  BY PlaceFacts
<1>2. u \in Tracked(fn) /\ an.start[u] \in Nat /\ an.end[u] \in Nat /\ lay.pos[u] \in Nat
      /\ an.start[u] <= lay.pos[u] /\ lay.pos[u] < fb + (i + 1) - 1 /\ fb + (i + 1) - 1 <= an.end[u]
  BY <1>1, LiveSpans
<1>3. an.start[v] \in Nat /\ an.end[v] \in Nat /\ p \in Nat /\ an.start[v] <= p /\ p <= an.end[v]
  BY RangeFacts
<1>4. lay.pos[u] # p
  <2>1. u \in Values(fn) /\ lay.at[lay.pos[u]] = u /\ lay.at[p] = v
    <3>1. IsFunction(fn) /\ Fits(fn, lay) /\ u \in Values(fn)
      BY <1>2, AnalysedFacts
    <3>2. lay.at[p] = v
      BY <3>1, PositionOf
    <3>3. PICK c \in Blocks(fn) : \E k \in DOMAIN fn.vals[c] : fn.vals[c][k] = u
      BY <3>1, HasPlace
    <3>4. PICK k \in DOMAIN fn.vals[c] : fn.vals[c][k] = u
      BY <3>3
    <3>5. lay.at[lay.pos[u]] = u
      BY <3>1, <3>4, PositionOf
    <3> QED BY ONLY <3>1, <3>2, <3>5
  <2> QED BY <2>1
<1> HIDE DEF v, p, fb
<1>5. an.start[u] < an.end[v] /\ an.start[v] < an.end[u]
  <2> DEFINE su == an.start[u]
             eu == an.end[u]
             pu == lay.pos[u]
             sv == an.start[v]
             ev == an.end[v]
  <2>1. /\ su \in Nat /\ eu \in Nat /\ pu \in Nat /\ sv \in Nat /\ ev \in Nat /\ p \in Nat /\ fb \in Nat /\ i \in Nat
        /\ p = fb + i - 1 /\ su <= pu /\ pu < fb + (i + 1) - 1 /\ fb + (i + 1) - 1 <= eu /\ sv <= p /\ p <= ev /\ pu # p
    BY <1>1, <1>2, <1>3, <1>4
  <2> HIDE DEF su, eu, pu, sv, ev
  <2>2. su < ev /\ sv < eu
    BY <2>1
  <2> QED BY <2>2 DEF su, ev, sv, eu
<1>6. v \in Tracked(fn) /\ u # v
  BY DEF v
<1>7. Home(a, u) # Home(a, v)
  BY <1>2, <1>5, <1>6, HomesApart
<1> QED BY <1>7 DEF v

\* The call that a result belongs to stands before it in its block, with nothing
\* but its results between.
LEMMA CallOf ==
  ASSUME AllKnown, NEW b \in Blocks(fn), NEW j \in DOMAIN fn.vals[b], fn.op[fn.vals[b][j]] = "select"
  PROVE  \E k \in DOMAIN fn.vals[b] : /\ k < j /\ fn.vals[b][k] = fn.args[fn.vals[b][j]][1] /\ fn.op[fn.vals[b][k]] = "call"
                                      /\ \A m \in k + 1 .. j : fn.op[fn.vals[b][m]] = "select" /\ fn.args[fn.vals[b][m]] = fn.args[fn.vals[b][j]]
<1>1. WellPlaced(fn, b, j)
  BY AnalysedFacts
<1>2. PICK k \in 1 .. j - 1 : /\ fn.vals[b][k] = fn.args[fn.vals[b][j]][1] /\ fn.op[fn.args[fn.vals[b][j]][1]] = "call"
                              /\ \A m \in k + 1 .. j : /\ fn.op[fn.vals[b][m]] = "select"
                                                       /\ fn.args[fn.vals[b][m]] = fn.args[fn.vals[b][j]]
  BY <1>1 DEF WellPlaced
<1>3. k \in DOMAIN fn.vals[b] /\ k < j
  BY PlaceFacts
<1> QED BY <1>2, <1>3

\* The range of a result begins where its call stands, and goes on past it.
LEMMA ResultSpans ==
  ASSUME AllKnown, NEW b \in Blocks(fn), NEW k \in DOMAIN fn.vals[b], NEW v \in Tracked(fn), fn.op[v] = "select",
         fn.args[v][1] = fn.vals[b][k]
  PROVE  an.start[v] <= lay.pos[fn.vals[b][k]] /\ lay.pos[fn.vals[b][k]] < lay.pos[v]
         /\ \E j \in DOMAIN fn.vals[b] : j > k /\ fn.vals[b][j] = v
<1>0. IsFunction(fn) /\ Tracked(fn) \subseteq Values(fn)
  BY AnalysedFacts
<1>1. PICK c \in Blocks(fn) : \E j \in DOMAIN fn.vals[c] : fn.vals[c][j] = v
  BY <1>0, HasPlace
<1>2. PICK j \in DOMAIN fn.vals[c] : fn.vals[c][j] = v
  BY <1>1
<1>3. PICK m \in DOMAIN fn.vals[c] : m < j /\ fn.vals[c][m] = fn.args[v][1]
  BY <1>2, CallOf
<1>4. c = b /\ m = k
  BY <1>0, <1>3, Stands
<1>5. lay.pos[fn.vals[b][k]] \in Covers(fn, lay, liveIn, liveOut, v)
  BY DEF Covers, Writes
<1>6. an.start[v] <= lay.pos[fn.vals[b][k]]
  BY <1>5, RangeFacts
<1>7. /\ lay.pos[v] = lay.first[b] + j - 1 /\ lay.pos[fn.vals[b][k]] = lay.first[b] + k - 1 /\ lay.first[b] \in Nat
      /\ j \in Nat /\ k \in Nat
  BY <1>2, <1>4, PlaceFacts
<1>8. lay.pos[fn.vals[b][k]] < lay.pos[v]
  <2> DEFINE x == lay.pos[v]
             y == lay.pos[fn.vals[b][k]]
             z == lay.first[b]
  <2>1. x = z + j - 1 /\ y = z + k - 1 /\ z \in Nat /\ j \in Nat /\ k \in Nat /\ k < j
    BY <1>3, <1>4, <1>7
  <2> HIDE DEF x, y, z
  <2>2. y < x
    BY <2>1
  <2> QED BY <2>2 DEF x, y
<1> QED BY <1>2, <1>3, <1>4, <1>6, <1>8

\* What is live after a call and its results are all in different homes, and what
\* is live after it is in no register.
LEMMA ResultsApart ==
  ASSUME AllKnown, NEW a, Passed(a), NEW b \in Blocks(fn), NEW k \in DOMAIN fn.vals[b], fn.op[fn.vals[b][k]] = "call",
         NEW v \in Tracked(fn), fn.op[v] = "select", fn.args[v][1] = fn.vals[b][k]
  PROVE  /\ \A u \in LiveAt(fn, b, k + 1) : Home(a, u) # Home(a, v)
         /\ \A w \in Tracked(fn) : w # v /\ fn.op[w] = "select" /\ fn.args[w][1] = fn.vals[b][k] => Home(a, w) # Home(a, v)
<1> DEFINE p == lay.pos[fn.vals[b][k]]
           fb == lay.first[b]
<1>1. k \in Nat /\ k + 1 \in 1 .. Len(fn.vals[b]) + 1 /\ p = fb + k - 1 /\ fb \in Nat
  BY PlaceFacts
<1>2. an.start[v] <= p /\ p < lay.pos[v]
  BY ResultSpans
<1>3. an.start[v] \in Nat /\ an.end[v] \in Nat /\ lay.pos[v] \in Nat /\ lay.pos[v] <= an.end[v]
  BY RangeFacts
<1>0. p \in Nat
  BY PlaceFacts
<1> HIDE DEF p, fb
<1>4. ASSUME NEW u \in LiveAt(fn, b, k + 1) PROVE Home(a, u) # Home(a, v)
  <2>1. u \in Tracked(fn) /\ an.start[u] \in Nat /\ an.end[u] \in Nat /\ lay.pos[u] \in Nat
        /\ an.start[u] <= lay.pos[u] /\ lay.pos[u] < fb + (k + 1) - 1 /\ fb + (k + 1) - 1 <= an.end[u]
    BY <1>1, LiveSpans DEF fb
  <2>2. lay.pos[u] <= p /\ p < an.end[u]
    <3> DEFINE x == lay.pos[u]
               y == an.end[u]
    <3>1. x \in Nat /\ y \in Nat /\ x < fb + (k + 1) - 1 /\ fb + (k + 1) - 1 <= y
      BY <2>1
    <3> HIDE DEF x, y
    <3>2. x <= p /\ p < y
      BY <1>1, <3>1
    <3> QED BY <3>2 DEF x, y
  <2>3. an.start[u] < an.end[v] /\ an.start[v] < an.end[u] /\ u # v
    BY <1>0, <1>2, <1>3, <2>1, <2>2
  <2> QED BY <2>1, <2>3, HomesApart
<1>5. ASSUME NEW w \in Tracked(fn), w # v, fn.op[w] = "select", fn.args[w][1] = fn.vals[b][k] PROVE Home(a, w) # Home(a, v)
  <2>1. an.start[w] <= p /\ p < lay.pos[w]
    BY <1>5, ResultSpans DEF p
  <2>2. an.start[w] \in Nat /\ an.end[w] \in Nat /\ lay.pos[w] \in Nat /\ lay.pos[w] <= an.end[w]
    BY RangeFacts
  <2>3. an.start[w] < an.end[v] /\ an.start[v] < an.end[w]
    BY <1>0, <1>2, <1>3, <2>1, <2>2
  <2> QED BY <1>5, <2>3, HomesApart
<1> QED BY <1>4, <1>5

\* A value that is live after a call is in the frame.
LEMMA AcrossInFrame ==
  ASSUME AllKnown, NEW a, Passed(a), NEW b \in Blocks(fn), NEW k \in DOMAIN fn.vals[b], fn.op[fn.vals[b][k]] = "call",
         NEW u \in LiveAt(fn, b, k + 1)
  PROVE  Home(a, u) \notin Regs
<1> DEFINE c == fn.vals[b][k]
           p == lay.pos[c]
           fb == lay.first[b]
<1>1. k \in Nat /\ k + 1 \in 1 .. Len(fn.vals[b]) + 1 /\ p = fb + k - 1 /\ fb \in Nat /\ c \in Values(fn)
  BY PlaceFacts
<1>2. u \in Tracked(fn) /\ an.start[u] \in Nat /\ an.end[u] \in Nat /\ lay.pos[u] \in Nat
      /\ an.start[u] <= lay.pos[u] /\ lay.pos[u] < fb + (k + 1) - 1 /\ fb + (k + 1) - 1 <= an.end[u]
  BY <1>1, LiveSpans
<1>3. IsFunction(fn) /\ Fits(fn, lay) /\ u \in Values(fn) /\ liveOut[b] = LiveAtEnd(fn, b)
  BY <1>2, AnalysedFacts
<1>4. lay.pos[u] # p
  <2>1. lay.at[lay.pos[u]] = u /\ lay.at[p] = c
    <3>1. lay.at[p] = c
      BY <1>3, PositionOf
    <3>2. PICK d \in Blocks(fn) : \E m \in DOMAIN fn.vals[d] : fn.vals[d][m] = u
      BY <1>3, HasPlace
    <3>3. PICK m \in DOMAIN fn.vals[d] : fn.vals[d][m] = u
      BY <3>2
    <3>4. lay.at[lay.pos[u]] = u
      BY <1>3, <3>3, PositionOf
    <3> QED BY ONLY <3>1, <3>4
  <2>2. u # c
    BY <1>2 DEF Tracked
  <2> QED BY <2>1, <2>2
<1>5. BlockOf(fn, c) = b /\ (CHOOSE m \in DOMAIN fn.vals[b] : fn.vals[b][m] = c) = k
  BY <1>3, Stands
<1>6. LiveAcross(fn, liveOut, c) = LiveAt(fn, b, k + 1)
  BY <1>3, <1>5 DEF LiveAcross, LiveAt, Rest
<1>7. c \in Calls(fn)
  BY <1>1 DEF Calls
<1>0. p \in Nat
  BY PlaceFacts
<1> HIDE DEF c, p, fb
<1>8. an.start[u] < p /\ p < an.end[u]
  <2> DEFINE su == an.start[u]
             eu == an.end[u]
             pu == lay.pos[u]
  <2>1. /\ su \in Nat /\ eu \in Nat /\ pu \in Nat /\ p \in Nat /\ su <= pu /\ pu < fb + (k + 1) - 1 /\ fb + (k + 1) - 1 <= eu
        /\ pu # p
    BY <1>0, <1>2, <1>4
  <2> HIDE DEF su, eu, pu
  <2>2. su < p /\ p < eu
    BY <1>1, <2>1
  <2> QED BY <2>2 DEF su, eu
<1>9. u \in an.across
  <2>1. an.across = {v \in Tracked(fn) : \E d \in Calls(fn) :
                   v \in LiveAcross(fn, liveOut, d) /\ an.start[v] < lay.pos[d] /\ lay.pos[d] < an.end[v]}
    BY DEF AllKnown, AnalysedAs, IsAnalysis
  <2> QED BY <1>2, <1>6, <1>7, <1>8, <2>1 DEF p
<1>10. ~InReg(Home(a, u))
  BY <1>9, NothingReported DEF AcrossCall
<1> QED BY <1>10 DEF InReg

\* The phis of a block come first, and what is live into it is live after them.
LEMMA PhiFacts ==
  ASSUME AllKnown, NEW s \in Blocks(fn), NEW i \in DOMAIN fn.vals[s], fn.op[fn.vals[s][i]] = "phi"
  PROVE  /\ fn.vals[s][i] \in Phis(fn, s) /\ fn.vals[s][i] \in Tracked(fn)
         /\ \A k \in 1 .. i : k \in DOMAIN fn.vals[s] /\ fn.op[fn.vals[s][k]] = "phi"
         /\ Len(fn.args[fn.vals[s][i]]) = Len(fn.preds[s])
         /\ ToSet(fn.args[fn.vals[s][i]]) \subseteq Tracked(fn) \cup Remats(fn)
<1>1. WellPlaced(fn, s, i)
  BY AnalysedFacts
<1>2. i \in Nat /\ DOMAIN fn.vals[s] = 1 .. Len(fn.vals[s]) /\ Len(fn.vals[s]) \in Nat /\ fn.vals[s][i] \in Ids
  BY PlaceFacts
<1>3. /\ \A k \in 1 .. i : fn.op[fn.vals[s][k]] = "phi"
      /\ Len(fn.args[fn.vals[s][i]]) = Len(fn.preds[s])
      /\ ToSet(fn.args[fn.vals[s][i]]) \subseteq Tracked(fn) \cup Remats(fn)
  BY <1>1 DEF WellPlaced
<1>4. \A k \in 1 .. i : k \in DOMAIN fn.vals[s]
  BY <1>2
<1>5. fn.vals[s][i] \in Phis(fn, s)
  BY <1>3 DEF Phis
<1>6. DOMAIN fn.op = Ids
  BY AnalysedFacts, FunctionFacts
<1>7. fn.vals[s][i] \in Tracked(fn)
  BY <1>2, <1>6 DEF Tracked
<1> QED BY <1>3, <1>4, <1>5, <1>7

\* A phi has no place of a value that is live into its block.
LEMMA PhisApart ==
  ASSUME AllKnown, NEW a, Passed(a), NEW s \in Blocks(fn), NEW i \in DOMAIN fn.vals[s], fn.op[fn.vals[s][i]] = "phi",
         NEW u \in LiveAt(fn, s, 1)
  PROVE  Home(a, u) # Home(a, fn.vals[s][i]) /\ u # fn.vals[s][i]
<1> DEFINE q == fn.vals[s][i]
           fb == lay.first[s]
           P == {k \in Nat : k <= i => u \in LiveAt(fn, s, k + 1)}
<1>1. i \in Nat /\ DOMAIN fn.vals[s] = 1 .. Len(fn.vals[s]) /\ Len(fn.vals[s]) \in Nat /\ lay.pos[q] = fb + i - 1 /\ fb \in Nat
  BY PlaceFacts
<1>2. q \in Tracked(fn) /\ \A k \in 1 .. i : k \in DOMAIN fn.vals[s] /\ fn.op[fn.vals[s][k]] = "phi"
  BY PhiFacts
<1>3. 1 \in 1 .. Len(fn.vals[s]) + 1
  BY <1>1
<1>4. lay.pos[u] < fb + 1 - 1 /\ lay.pos[u] \in Nat /\ u \in Tracked(fn)
  BY <1>3, LiveSpans
<1>5. u # q
  BY <1>1, <1>4
<1>6. 0 \in P
  OBVIOUS
<1>7. ASSUME NEW k \in Nat, k \in P PROVE k + 1 \in P
  <2> SUFFICES ASSUME k + 1 <= i PROVE u \in LiveAt(fn, s, (k + 1) + 1)
    OBVIOUS
  <2>1. k + 1 \in 1 .. i /\ k <= i
    BY <1>1
  <2>2. u \in LiveAt(fn, s, k + 1)
    BY <1>7, <2>1
  <2>3. k + 1 \in DOMAIN fn.vals[s] /\ fn.op[fn.vals[s][k + 1]] = "phi"
    BY <1>2, <2>1
  <2>4. LiveAt(fn, s, k + 1) = (LiveAt(fn, s, (k + 1) + 1) \ {fn.vals[s][k + 1]}) \cup Reads(fn, fn.vals[s][k + 1])
    BY <2>3, PlaceFacts
  <2>5. Reads(fn, fn.vals[s][k + 1]) = {}
    BY <2>3 DEF Reads
  <2> QED BY <2>2, <2>4, <2>5
<1> HIDE DEF P
<1>8. \A k \in Nat : k \in P
  BY <1>6, <1>7, NumberInduction
<1>9. u \in LiveAt(fn, s, i + 1)
  <2>1. i \in P
    BY <1>1, <1>8
  <2> QED BY <1>1, <2>1 DEF P
<1> QED BY <1>2, <1>5, <1>9, WrittenApart

-----------------------------------------------------------------------------
(* Moves at one instant *)

\* What a move brings to its destination.
Brought(m, x) == IF x.src = NoReg THEN Term(x.from) ELSE m[x.src]

Distinct(moves) == \A x, y \in moves : x.dst = y.dst => x = y

\* Moves at one instant change their destinations, each to what the move brings.
LEMMA PutGives ==
  ASSUME NEW m, NEW moves, Distinct(moves)
  PROVE  /\ DOMAIN Put(m, moves) = Cells
         /\ \A l \in Cells : (\A x \in moves : x.dst # l) => Put(m, moves)[l] = m[l]
         /\ \A x \in moves : x.dst \in Cells => Put(m, moves)[x.dst] = x.val
<1>1. ASSUME NEW x \in moves, x.dst \in Cells PROVE Put(m, moves)[x.dst] = x.val
  <2>1. (CHOOSE y \in moves : y.dst = x.dst) = x
    BY DEF Distinct
  <2>2. Put(m, moves)[x.dst] = (CHOOSE y \in moves : y.dst = x.dst).val
    BY <1>1 DEF Put
  <2> QED BY <2>1, <2>2
<1>2. ASSUME NEW l \in Cells, \A x \in moves : x.dst # l PROVE Put(m, moves)[l] = m[l]
  BY <1>2 DEF Put
<1>3. DOMAIN Put(m, moves) = Cells
  BY DEF Put
<1> QED BY <1>1, <1>2, <1>3

\* One stage reads everything before it writes anything.
LEMMA StageGives ==
  ASSUME NEW m, NEW moves, Distinct(moves)
  PROVE  /\ DOMAIN TransferStage(m, moves) = Cells
         /\ \A l \in Cells : (\A x \in moves : x.dst # l) => TransferStage(m, moves)[l] = m[l]
         /\ \A x \in moves : x.dst \in Cells => TransferStage(m, moves)[x.dst] = Brought(m, x)
<1> DEFINE put(x) == [dst |-> x.dst, val |-> Brought(m, x)]
           puts == {put(x) : x \in moves}
<1>1. TransferStage(m, moves) = Put(m, puts)
  BY DEF TransferStage, Brought
<1>2. \A x \in moves : put(x) \in puts /\ put(x).dst = x.dst /\ put(x).val = Brought(m, x)
  OBVIOUS
<1>3. \A p \in puts : \E x \in moves : p = put(x)
  OBVIOUS
<1> HIDE DEF put, puts
<1>4. Distinct(puts)
  <2> SUFFICES ASSUME NEW p \in puts, NEW q \in puts, p.dst = q.dst PROVE p = q
    BY DEF Distinct
  <2>1. PICK x \in moves : p = put(x)
    BY <1>3
  <2>2. PICK y \in moves : q = put(y)
    BY <1>3
  <2>3. x = y
    BY <1>2, <2>1, <2>2 DEF Distinct
  <2> QED BY <2>1, <2>2, <2>3
<1>5. ASSUME NEW l \in Cells, \A x \in moves : x.dst # l PROVE Put(m, puts)[l] = m[l]
  <2>1. \A p \in puts : p.dst # l
    BY <1>2, <1>3, <1>5
  <2> QED BY <1>4, <2>1, PutGives
<1>6. ASSUME NEW x \in moves, x.dst \in Cells PROVE Put(m, puts)[x.dst] = Brought(m, x)
  <2>1. put(x) \in puts /\ put(x).dst \in Cells
    BY <1>2, <1>6
  <2>2. Put(m, puts)[put(x).dst] = put(x).val
    BY <1>4, <2>1, PutGives
  <2> QED BY <1>2, <2>2
<1>7. DOMAIN Put(m, puts) = Cells
  BY <1>4, PutGives
<1> QED BY <1>1, <1>5, <1>6, <1>7

\* The moves of a transfer are one assignment, when all of them are out of registers
\* or all of them are into registers.
LEMMA TransferGives ==
  ASSUME NEW m, NEW moves, Distinct(moves), \A x \in moves : x.dst \in Cells /\ x.src \in Cells \cup {NoReg},
         (\A x \in moves : x.src \in Regs) \/ (\A x \in moves : x.dst \in Regs)
  PROVE  /\ DOMAIN Transfer(m, moves) = Cells
         /\ \A l \in Cells : (\A x \in moves : x.dst # l) => Transfer(m, moves)[l] = m[l]
         /\ \A x \in moves : Transfer(m, moves)[x.dst] = Brought(m, x)
<1> DEFINE fromReg == {x \in moves : x.src \in Regs}
           out     == {x \in fromReg : x.dst \notin Regs}
           among   == fromReg \ out
           into    == moves \ fromReg
           m1      == TransferStage(m, out)
           m2      == TransferStage(m1, among)
           m3      == TransferStage(m2, into)
<1>1. Transfer(m, moves) = m3
  BY DEF Transfer
<1>2. \A x : /\ x \in out <=> x \in moves /\ x.src \in Regs /\ x.dst \notin Regs
             /\ x \in among <=> x \in moves /\ x.src \in Regs /\ x.dst \in Regs
             /\ x \in into <=> x \in moves /\ x.src \notin Regs
  OBVIOUS
<1> HIDE DEF out, among, into
<1>3. Distinct(out) /\ Distinct(among) /\ Distinct(into)
  BY <1>2 DEF Distinct
<1>4. /\ \A l \in Cells : (\A x \in out : x.dst # l) => m1[l] = m[l]
      /\ \A x \in out : x.dst \in Cells => m1[x.dst] = Brought(m, x)
  BY <1>3, StageGives
<1> HIDE DEF m1
<1>5. /\ \A l \in Cells : (\A x \in among : x.dst # l) => m2[l] = m1[l]
      /\ \A x \in among : x.dst \in Cells => m2[x.dst] = Brought(m1, x)
  BY <1>3, StageGives
<1> HIDE DEF m2
<1>6. /\ DOMAIN m3 = Cells
      /\ \A l \in Cells : (\A x \in into : x.dst # l) => m3[l] = m2[l]
      /\ \A x \in into : x.dst \in Cells => m3[x.dst] = Brought(m2, x)
  BY <1>3, StageGives
<1> HIDE DEF m3
<1>7. ASSUME NEW l \in Cells, \A x \in moves : x.dst # l PROVE m3[l] = m[l]
  <2>1. m1[l] = m[l]
    BY <1>2, <1>4, <1>7
  <2>2. m2[l] = m1[l]
    BY <1>2, <1>5, <1>7
  <2>3. m3[l] = m2[l]
    BY <1>2, <1>6, <1>7
  <2> QED BY <2>1, <2>2, <2>3
<1>8. NoReg \notin Regs /\ Regs \subseteq Cells
  BY RegsAssumption DEF Cells, CellsOf
<1>9. \A r \in Regs : m1[r] = m[r]
  BY <1>2, <1>4, <1>8
<1>10. ASSUME NEW x \in moves PROVE m3[x.dst] = Brought(m, x)
  <2>1. x.dst \in Cells
    OBVIOUS
  <2>2. CASE x \in out
    <3>1. m1[x.dst] = Brought(m, x)
      BY <1>4, <2>1, <2>2
    <3>2. \A y \in among : y.dst # x.dst
      BY <1>2, <2>2
    <3>3. \A y \in into : y.dst # x.dst
      BY <1>2, <2>2 DEF Distinct
    <3> QED BY <1>5, <1>6, <2>1, <3>1, <3>2, <3>3
  <2>3. CASE x \in among
    <3>1. x.src \in Regs
      BY <1>2, <2>3
    <3>2. Brought(m1, x) = Brought(m, x)
      BY <1>8, <1>9, <3>1 DEF Brought
    <3>3. m2[x.dst] = Brought(m, x)
      BY <1>5, <2>1, <2>3, <3>2
    <3>4. \A y \in into : y.dst # x.dst
      BY <1>2, <2>3 DEF Distinct
    <3> QED BY <1>6, <2>1, <3>3, <3>4
  <2>4. CASE x \in into
    <3>1. \A y \in moves : y.dst \in Regs
      BY <1>2, <2>4
    <3>2. x.src \notin Regs
      BY <1>2, <2>4
    <3>3. x.src # NoReg => m2[x.src] = m[x.src]
      <4> SUFFICES ASSUME x.src # NoReg PROVE m2[x.src] = m[x.src]
        OBVIOUS
      <4>1. x.src \in Cells
        OBVIOUS
      <4>2. \A y \in out : y.dst # x.src
        BY <1>2, <3>1, <3>2
      <4>3. \A y \in among : y.dst # x.src
        BY <1>2, <3>1, <3>2
      <4> QED BY <1>4, <1>5, <4>1, <4>2, <4>3
    <3>4. Brought(m2, x) = Brought(m, x)
      BY <3>3 DEF Brought
    <3> QED BY <1>6, <2>1, <2>4, <3>4
  <2> QED BY <1>2, <2>2, <2>3, <2>4
<1> QED BY <1>1, <1>6, <1>7, <1>10

-----------------------------------------------------------------------------
(* What the instructions read *)

\* The allocation the code is emitted from is one that passed.
Agrees(a) == Passed(a) /\ loc = a.loc /\ args = a.args /\ result = a.result /\ slots = a.slots /\ copies = a.copies

IsMemory(m) == m = [l \in Cells |-> m[l]]

\* Where a value lives.
LEMMA LocFacts ==
  ASSUME AllKnown, NEW a, Agrees(a), NEW v \in Tracked(fn)
  PROVE  /\ loc[v] = Home(a, v) /\ loc[v] \in Cells /\ loc[v] \notin ScratchRegs /\ loc[v] # NoReg
         /\ loc[v] \notin Regs => InSlot(loc[v])
         /\ v \in Ids /\ v \in Values(fn) /\ v \notin Remats(fn)
<1>1. Passed(a) /\ loc = a.loc /\ slots = a.slots
  BY DEF Agrees
<1>2. loc[v] = Home(a, v)
  BY <1>1 DEF Home
<1>3. /\ Home(a, v) \in CellsOf(a.slots) /\ Home(a, v) \notin ScratchRegs /\ Home(a, v) # NoReg
      /\ Home(a, v) \in Regs \/ InSlot(Home(a, v))
  BY <1>1, HomeFacts
<1>4. CellsOf(a.slots) = Cells
  BY <1>1 DEF Cells
<1>5. v \in Ids /\ v \in Values(fn)
  BY AnalysedFacts
<1>6. v \notin Remats(fn)
  BY DEF Tracked, Remats
<1> QED BY <1>2, <1>3, <1>4, <1>5, <1>6

\* Every value stands somewhere in the layout.
LEMMA Listed ==
  ASSUME AllKnown, NEW b \in Blocks(fn), NEW i \in DOMAIN fn.vals[b]
  PROVE  fn.vals[b][i] \in ToSet(lay.at) \ {NoId}
<1> DEFINE v == fn.vals[b][i]
<1>1. Fits(fn, lay) /\ IsFunction(fn)
  BY AnalysedFacts
<1>2. lay.at[lay.pos[v]] = v /\ lay.pos[v] \in Positions
  BY <1>1, PositionOf
<1>3. lay.at \in [Positions -> Ids \cup {NoId}]
  BY <1>1 DEF Fits, IsLayout
<1>4. v \in Ids
  BY PlaceFacts
<1>5. v # NoId
  BY <1>4, IdsAssumption
<1> QED BY <1>2, <1>3, <1>5 DEF ToSet

\* The registers that an instruction reads its operands from.
LEMMA OperandFacts ==
  ASSUME AllKnown, NEW a, Agrees(a), NEW b \in Blocks(fn), NEW i \in DOMAIN fn.vals[b], fn.op[fn.vals[b][i]] \in {"op", "branch"},
         NEW k \in DOMAIN fn.args[fn.vals[b][i]]
  PROVE  LET v == fn.vals[b][i]
             u == fn.args[v][k]
         IN  /\ u \in Tracked(fn) \cup Remats(fn)
             /\ args[v][k] \in ScratchRegs \/ (u \in Tracked(fn) /\ args[v][k] = loc[u] /\ loc[u] \in Regs)
             /\ \A j \in DOMAIN fn.args[v] : args[v][j] = args[v][k] /\ args[v][k] \in ScratchRegs => fn.args[v][j] = u
<1> DEFINE v == fn.vals[b][i]
           u == fn.args[v][k]
<1>1. WellPlaced(fn, b, i) /\ Fits(fn, lay) /\ IsFunction(fn)
  BY AnalysedFacts
<1>2. u \in Tracked(fn) \cup Remats(fn)
  BY <1>1 DEF WellPlaced, ToSet
<1>3. Passed(a) /\ loc = a.loc /\ args = a.args
  BY DEF Agrees
<1>4. v \in ToSet(lay.at) \ {NoId}
  BY Listed
<1>5. (\A j \in DOMAIN fn.args[v] : OperandOK(a, v, j)) /\ ~ScratchTwice(a, v)
  BY <1>3, <1>4, NothingReported DEF BadOperand
<1>6. OperandOK(a, v, k)
  BY <1>5
<1>7. fn.op[v] # "phi" /\ fn.op[v] \notin Convention
  BY DEF Convention
<1>8. IF u \notin Remats(fn) /\ InReg(Home(a, u)) THEN a.args[v][k] = Home(a, u) ELSE a.args[v][k] \in ScratchRegs
  BY <1>2, <1>6, <1>7 DEF OperandOK
<1>9. args[v][k] \in ScratchRegs \/ (u \in Tracked(fn) /\ args[v][k] = loc[u] /\ loc[u] \in Regs)
  <2>1. CASE u \notin Remats(fn) /\ InReg(Home(a, u))
    <3>1. u \in Tracked(fn) /\ args[v][k] = loc[u]
      BY <1>2, <1>3, <1>8, <2>1 DEF Home
    <3>2. loc[u] \in Regs
      BY <1>3, <2>1, <3>1, HomeFacts DEF Home
    <3> QED BY <3>1, <3>2
  <2>2. CASE ~(u \notin Remats(fn) /\ InReg(Home(a, u)))
    BY <1>3, <1>8, <2>2
  <2> QED BY <2>1, <2>2
<1>10. ASSUME NEW j \in DOMAIN fn.args[v], args[v][j] = args[v][k], args[v][k] \in ScratchRegs PROVE fn.args[v][j] = u
  BY <1>3, <1>5, <1>10 DEF ScratchTwice
<1> QED BY <1>2, <1>9, <1>10

\* The operands are read as they were, each into its register, and nothing but
\* scratch registers is written.
LEMMA MaterialiseGives ==
  ASSUME AllKnown, NEW a, Agrees(a), NEW b \in Blocks(fn), NEW i \in DOMAIN fn.vals[b], fn.op[fn.vals[b][i]] \in {"op", "branch"},
         NEW m, IsMemory(m)
  PROVE  LET v == fn.vals[b][i]
         IN  /\ IsMemory(Materialise(m, v))
             /\ \A l \in Cells \ ScratchRegs : Materialise(m, v)[l] = m[l]
             /\ \A k \in DOMAIN fn.args[v] : Materialise(m, v)[args[v][k]] = Fetch(m, fn.args[v][k])
<1> DEFINE v == fn.vals[b][i]
           N == Len(fn.args[v])
           V == {m[l] : l \in Cells} \cup {Term(u) : u \in Ids}
           M == [Cells -> V]
           Step(x, n) == [x EXCEPT ![args[v][n]] = Fetch(x, fn.args[v][n])]
           Good(n, x) == /\ \A l \in Cells \ ScratchRegs : x[l] = m[l]
                         /\ \A k \in 1 .. n : x[args[v][k]] = Fetch(m, fn.args[v][k])
           T == [n \in 0 .. N |-> {x \in M : Good(n, x)}]
           g == [n \in 1 .. N |-> [x \in M |-> Step(x, n)]]
<1>1. v \in Ids /\ IsFunction(fn) /\ Remats(fn) \subseteq Ids
  BY PlaceFacts, AnalysedFacts, FunctionFacts
<1>2. N \in Nat /\ DOMAIN fn.args[v] = 1 .. N
  BY <1>1, FunctionFacts
<1>3. m \in M
  BY DEF IsMemory
<1>4. \A u \in Remats(fn) : Term(u) \in V
  BY <1>1
<1>5. ScratchRegs \subseteq Cells /\ Regs \subseteq Cells
  BY DEF Cells, CellsOf
<1>6. \A k \in 1 .. N : /\ fn.args[v][k] \in Tracked(fn) \cup Remats(fn)
                        /\ \/ args[v][k] \in ScratchRegs
                           \/ fn.args[v][k] \in Tracked(fn) /\ args[v][k] = loc[fn.args[v][k]] /\ loc[fn.args[v][k]] \in Regs
                        /\ \A j \in 1 .. N : args[v][j] = args[v][k] /\ args[v][k] \in ScratchRegs => fn.args[v][j] = fn.args[v][k]
  <2> TAKE k \in 1 .. N
  <2>1. k \in DOMAIN fn.args[fn.vals[b][i]]
    BY <1>2
  <2> DEFINE u == fn.args[v][k]
  <2>2. /\ u \in Tracked(fn) \cup Remats(fn)
        /\ args[v][k] \in ScratchRegs \/ (u \in Tracked(fn) /\ args[v][k] = loc[u] /\ loc[u] \in Regs)
        /\ \A j \in DOMAIN fn.args[v] : args[v][j] = args[v][k] /\ args[v][k] \in ScratchRegs => fn.args[v][j] = u
    BY <2>1, OperandFacts
  <2> QED BY <1>2, <2>2
<1>7. \A u \in Tracked(fn) : loc[u] \in Cells \ ScratchRegs /\ u \notin Remats(fn)
  BY LocFacts
<1> HIDE DEF V, N, v
<1>8. ASSUME NEW n \in 1 .. N, NEW x \in M, Good(n - 1, x) PROVE Step(x, n) \in M /\ Good(n, Step(x, n))
  <2> DEFINE u == fn.args[v][n]
             r == args[v][n]
             y == Step(x, n)
  <2>0. n - 1 \in Nat /\ n \in Nat /\ N \in Nat /\ n <= N
    BY <1>2
  <2>1. u \in Tracked(fn) \cup Remats(fn) /\ (r \in ScratchRegs \/ (u \in Tracked(fn) /\ r = loc[u] /\ loc[u] \in Regs))
    BY <1>6
  <2>2. Fetch(x, u) = Fetch(m, u) /\ Fetch(m, u) \in V
    <3>1. CASE u \in Remats(fn)
      BY <1>4, <3>1 DEF Fetch
    <3>2. CASE u \notin Remats(fn)
      <4>1. loc[u] \in Cells \ ScratchRegs
        BY <1>7, <2>1, <3>2
      <4>2. x[loc[u]] = m[loc[u]] /\ m[loc[u]] \in V
        BY <1>3, <1>8, <4>1
      <4> QED BY <3>2, <4>2 DEF Fetch
    <3> QED BY <3>1, <3>2
  <2>3. r \in Cells
    BY <1>5, <2>1
  <2> HIDE DEF u, r
  <2>4. y = [x EXCEPT ![r] = Fetch(m, u)]
    BY <2>2 DEF u, r
  <2> HIDE DEF y
  <2>5. y \in M /\ y[r] = Fetch(m, u) /\ \A l \in Cells : l # r => y[l] = x[l]
    BY <2>2, <2>3, <2>4
  <2>6. \A l \in Cells \ ScratchRegs : y[l] = m[l]
    <3> TAKE l \in Cells \ ScratchRegs
    <3>1. x[l] = m[l]
      BY <1>8
    <3>2. CASE l = r
      <4>1. u \in Tracked(fn) /\ r = loc[u]
        BY <2>1, <3>2 DEF u, r
      <4>2. Fetch(m, u) = m[l]
        BY <1>7, <3>2, <4>1 DEF Fetch
      <4> QED BY <2>5, <3>2, <4>2
    <3> QED BY <2>5, <3>1, <3>2
  <2>7. ASSUME NEW k \in 1 .. n PROVE y[args[v][k]] = Fetch(m, fn.args[v][k])
    <3>0. k \in 1 .. N
      BY <2>0
    <3>1. CASE args[v][k] = r
      <4>1. CASE r \in ScratchRegs
        <5>1. fn.args[v][k] = u
          BY <1>6, <3>0, <3>1, <4>1 DEF u, r
        <5> QED BY <2>5, <3>1, <5>1
      <4>2. CASE r \notin ScratchRegs
        <5>1. fn.args[v][k] \in Tracked(fn) /\ args[v][k] = loc[fn.args[v][k]]
          BY <1>6, <3>0, <3>1, <4>2
        <5>2. y[args[v][k]] = m[args[v][k]]
          BY <2>3, <2>6, <3>1, <4>2
        <5> QED BY <1>7, <5>1, <5>2 DEF Fetch
      <4> QED BY <4>1, <4>2
    <3>2. CASE args[v][k] # r
      <4>1. k # n
        BY <3>2 DEF r
      <4>2. k \in 1 .. n - 1
        BY <2>0, <4>1
      <4>3. x[args[v][k]] = Fetch(m, fn.args[v][k])
        BY <1>8, <4>2
      <4>4. args[v][k] \in Cells
        BY <1>5, <1>6, <3>0
      <4> QED BY <2>5, <3>2, <4>3, <4>4
    <3> QED BY <3>1, <3>2
  <2>8. Good(n, y)
    BY <2>6, <2>7
  <2> QED BY <2>5, <2>8 DEF y
<1>9. Good(0, m)
  OBVIOUS
<1>10. N \in Nat
  BY <1>2
<1> HIDE DEF Good, M, Step
<1>11. Chained(T, N, m, g)
  <2>1. m \in T[0]
    BY <1>3, <1>9, <1>10
  <2>2. ASSUME NEW n \in 1 .. N, NEW x \in T[n - 1] PROVE g[n][x] \in T[n]
    <3>1. n - 1 \in 0 .. N /\ n \in 0 .. N
      BY <1>10
    <3>2. x \in M /\ Good(n - 1, x)
      BY <3>1
    <3>3. g[n][x] = Step(x, n)
      BY <3>2
    <3>4. Step(x, n) \in M /\ Good(n, Step(x, n))
      BY <1>8, <3>2
    <3> QED BY <3>1, <3>3, <3>4
  <2> QED BY <1>10, <2>1, <2>2 DEF Chained
<1>12. PICK it : ChainOf(it, N, m, g) /\ \A n \in 0 .. N : it[n] \in T[n]
  BY <1>11, ChainExists
<1> DEFINE Read(f) == f = [n \in 0 .. N |-> IF n = 0 THEN m ELSE Step(f[n - 1], n)]
           read == CHOOSE f : Read(f)
<1>13. Read(it)
  <2>1. it = [n \in 0 .. N |-> IF n = 0 THEN m ELSE g[n][it[n - 1]]]
    BY <1>12 DEF ChainOf
  <2>2. ASSUME NEW n \in 0 .. N PROVE (IF n = 0 THEN m ELSE g[n][it[n - 1]]) = (IF n = 0 THEN m ELSE Step(it[n - 1], n))
    <3>1. n # 0 => n \in 1 .. N /\ n - 1 \in 0 .. N
      BY <1>10
    <3>2. n # 0 => it[n - 1] \in M
      BY <1>12, <3>1
    <3> QED BY <3>1, <3>2
  <2> HIDE DEF g
  <2> QED BY <2>1, <2>2
<1>14. Read(read)
  BY <1>13
<1> HIDE DEF read
<1>15. ASSUME NEW f, Read(f) PROVE f[N] \in T[N]
  <2>1. f[0] \in T[0]
    BY <1>3, <1>9, <1>10, <1>15
  <2>2. ASSUME NEW n \in 1 .. N, f[n - 1] \in T[n - 1] PROVE f[n] \in T[n]
    <3>1. n - 1 \in 0 .. N /\ n \in 0 .. N /\ n # 0
      BY <1>10
    <3>2. f[n - 1] \in M /\ Good(n - 1, f[n - 1])
      BY <2>2, <3>1
    <3>3. f[n] = Step(f[n - 1], n)
      BY <1>15, <3>1
    <3>4. Step(f[n - 1], n) \in M /\ Good(n, Step(f[n - 1], n))
      BY <1>8, <3>2
    <3> QED BY <3>1, <3>3, <3>4
  <2> HIDE DEF T, Read
  <2>3. \A n \in 0 .. N : f[n] \in T[n]
    BY <1>10, <2>1, <2>2, ChainKeeps
  <2> QED BY <1>10, <2>3
<1>16. Materialise(m, v) = read[N]
  BY DEF Materialise, read, Read, Step, N
<1>17. Materialise(m, v) \in M /\ Good(N, Materialise(m, v))
  <2>1. read[N] \in T[N]
    BY <1>14, <1>15
  <2> QED BY <1>10, <1>16, <2>1
<1>18. IsMemory(Materialise(m, v))
  BY <1>17 DEF IsMemory, M
<1> QED BY <1>2, <1>17, <1>18 DEF Good, v

-----------------------------------------------------------------------------
(* The machine in step with the meaning of the function *)

\* The operands that a value has in the results e.
OperandsIn(e, v) == [x \in DOMAIN fn.args[v] |-> e[fn.args[v][x]]]

\* Memory and results, typed; a constant is itself everywhere.
Regular(m, e) == IsMemory(m) /\ e = [v \in Ids |-> e[v]] /\ \A r \in Remats(fn) : e[r] = Term(r)

\* What is live before the i-th value of b is in its home.
HomedIn(m, e, b, i) == \A u \in LiveAt(fn, b, i) : m[loc[u]] = e[u]

\* What a value reads where it stands is where the code takes it from.
LEMMA FetchMeans ==
  ASSUME AllKnown, NEW a, Agrees(a), NEW b \in Blocks(fn), NEW i \in DOMAIN fn.vals[b],
         fn.op[fn.vals[b][i]] \in {"op", "branch", "call", "ret"},
         NEW m, NEW e, Regular(m, e), HomedIn(m, e, b, i), NEW k \in DOMAIN fn.args[fn.vals[b][i]]
  PROVE  LET u == fn.args[fn.vals[b][i]][k]
         IN  Fetch(m, u) = e[u] /\ u \in Tracked(fn) \cup Remats(fn)
<1> DEFINE v == fn.vals[b][i]
           u == fn.args[v][k]
<1>1. WellPlaced(fn, b, i)
  BY AnalysedFacts
<1>2. u \in ToSet(fn.args[v])
  BY DEF ToSet
<1>3. u \in Tracked(fn) \cup Remats(fn)
  BY <1>1, <1>2 DEF WellPlaced
<1>4. CASE u \in Remats(fn)
  BY <1>4 DEF Fetch, Regular
<1>5. CASE u \notin Remats(fn)
  <2>1. u \in Reads(fn, v)
    BY <1>2, <1>3, <1>5 DEF Reads
  <2>2. LiveAt(fn, b, i) = (LiveAt(fn, b, i + 1) \ {v}) \cup Reads(fn, v)
    BY PlaceFacts
  <2>3. m[loc[u]] = e[u]
    BY <2>1, <2>2 DEF HomedIn
  <2> QED BY <1>3, <1>5, <2>3 DEF Fetch
<1> QED BY <1>3, <1>4, <1>5

\* An instruction reads the operands it is meant to.
LEMMA ReadMeans ==
  ASSUME AllKnown, NEW a, Agrees(a), NEW b \in Blocks(fn), NEW i \in DOMAIN fn.vals[b], fn.op[fn.vals[b][i]] \in {"op", "branch"},
         NEW m, NEW e, Regular(m, e), HomedIn(m, e, b, i)
  PROVE  ReadOperands(m, fn.vals[b][i]) = OperandsIn(e, fn.vals[b][i])
<1> DEFINE v == fn.vals[b][i]
<1>1. IsMemory(m)
  BY DEF Regular
<1>2. ASSUME NEW k \in DOMAIN fn.args[v] PROVE Materialise(m, v)[args[v][k]] = e[fn.args[v][k]]
  <2>1. Materialise(m, v)[args[v][k]] = Fetch(m, fn.args[v][k])
    BY <1>1, MaterialiseGives
  <2>2. Fetch(m, fn.args[v][k]) = e[fn.args[v][k]]
    <3>1. fn.op[v] \in {"op", "branch", "call", "ret"}
      OBVIOUS
    <3>2. \A n \in DOMAIN fn.args[v] : Fetch(m, fn.args[v][n]) = e[fn.args[v][n]] /\ fn.args[v][n] \in Tracked(fn) \cup Remats(fn)
      BY <3>1, FetchMeans
    <3> QED BY <3>2
  <2> QED BY <2>1, <2>2
<1> HIDE DEF v
<1>3. ReadOperands(m, v) = OperandsIn(e, v)
  <2>1. [k \in DOMAIN fn.args[v] |-> Materialise(m, v)[args[v][k]]] = [k \in DOMAIN fn.args[v] |-> e[fn.args[v][k]]]
    BY <1>2
  <2> QED BY <2>1 DEF ReadOperands, OperandsIn
<1> QED BY <1>3 DEF v

\* A call and a return are passed the operands they are meant to.
LEMMA PassMeans ==
  ASSUME AllKnown, NEW a, Agrees(a), NEW b \in Blocks(fn), NEW i \in DOMAIN fn.vals[b], fn.op[fn.vals[b][i]] \in {"call", "ret"},
         NEW m, NEW e, Regular(m, e), HomedIn(m, e, b, i)
  PROVE  PassedOperands(m, fn.vals[b][i]) = OperandsIn(e, fn.vals[b][i])
<1> DEFINE v == fn.vals[b][i]
           u(k) == fn.args[v][k]
           mv(k) == [dst |-> ArgRegs[k], src |-> Source(u(k)), from |-> u(k)]
           moves == {mv(k) : k \in Placed(v)}
<1>1. \A k \in DOMAIN fn.args[v] : Fetch(m, u(k)) = e[u(k)] /\ u(k) \in Tracked(fn) \cup Remats(fn)
  BY FetchMeans
<1>2. v \in Ids /\ IsFunction(fn)
  BY PlaceFacts, AnalysedFacts
<1>3. Len(fn.args[v]) \in Nat /\ DOMAIN fn.args[v] = 1 .. Len(fn.args[v])
  BY <1>2, FunctionFacts
<1>4. ArgRegs \in Seq(Regs) /\ Len(ArgRegs) \in Nat /\ DOMAIN ArgRegs = 1 .. Len(ArgRegs)
      /\ \A k, n \in DOMAIN ArgRegs : ArgRegs[k] = ArgRegs[n] => k = n
  BY MachineAssumption DEF IsInjective
<1>5. \A k \in Placed(v) : k \in DOMAIN fn.args[v] /\ k \in DOMAIN ArgRegs
  BY <1>3, <1>4 DEF Placed
<1> HIDE DEF v
<1>6. \A k \in Placed(v) : ArgRegs[k] \in Regs
  BY <1>4, <1>5
<1>7. \A w \in Tracked(fn) : loc[w] \in Cells /\ loc[w] # NoReg /\ w \notin Remats(fn)
  BY LocFacts
<1>8. \A k \in Placed(v) : Source(u(k)) \in Cells \cup {NoReg} /\ Brought(m, mv(k)) = Fetch(m, u(k))
  <2> TAKE k \in Placed(v)
  <2>1. u(k) \in Tracked(fn) \cup Remats(fn)
    BY <1>1, <1>5
  <2> QED BY <1>7, <2>1 DEF Source, Brought, Fetch
<1>9. Distinct(moves)
  <2> SUFFICES ASSUME NEW x \in moves, NEW y \in moves, x.dst = y.dst PROVE x = y
    BY DEF Distinct
  <2>1. PICK k \in Placed(v) : x = mv(k)
    OBVIOUS
  <2>2. PICK n \in Placed(v) : y = mv(n)
    OBVIOUS
  <2>3. ArgRegs[k] = ArgRegs[n]
    BY <2>1, <2>2
  <2>4. k = n
    BY <1>4, <1>5, <2>3
  <2> QED BY <2>1, <2>2, <2>4
<1>10. \A x \in moves : \E k \in Placed(v) : x = mv(k)
  OBVIOUS
<1>11. \A k \in Placed(v) : mv(k) \in moves /\ mv(k).dst = ArgRegs[k] /\ mv(k).src = Source(u(k))
  OBVIOUS
<1>12. ToArgRegs(m, v) = Transfer(m, moves)
  BY DEF ToArgRegs
<1> HIDE DEF mv, moves, u
<1>13. Regs \subseteq Cells
  BY DEF Cells, CellsOf
<1>14. \A x \in moves : x.dst \in Cells /\ x.src \in Cells \cup {NoReg} /\ x.dst \in Regs
  BY <1>6, <1>8, <1>10, <1>11, <1>13
<1>15. \A x \in moves : Transfer(m, moves)[x.dst] = Brought(m, x)
  BY <1>9, <1>14, TransferGives
<1>16. \A k \in Placed(v) : ToArgRegs(m, v)[ArgRegs[k]] = Fetch(m, u(k))
  BY <1>8, <1>11, <1>12, <1>15
<1>17. PassedOperands(m, v) = OperandsIn(e, v)
  BY <1>1, <1>16 DEF PassedOperands, OperandsIn, u
<1> QED BY <1>17 DEF v

-----------------------------------------------------------------------------
(* What the code of a value leaves *)

\* CellsAfter and EnvAfter, for any memory and results.
Leaves(m, v) ==
  CASE fn.op[v] = "op"  -> Spill([Materialise(m, v) EXCEPT ![result[v]] = <<v, ReadOperands(m, v)>>], v)
    [] fn.op[v] = "arg" -> IF fn.place[v] = NoReg THEN [m EXCEPT ![loc[v]] = Term(v)] ELSE m
    [] fn.op[v] = "call" -> AfterCall(m, v)
    [] OTHER -> m

Computed(e, v) == IF v \in Tracked(fn) /\ fn.op[v] # "phi"
                  THEN [e EXCEPT ![v] = <<v, OperandsIn(e, IF fn.op[v] = "select" THEN fn.args[v][1] ELSE v)>>] ELSE e

\* The register a result is written to: its home, or a scratch register.
LEMMA ResultFacts ==
  ASSUME AllKnown, NEW a, Agrees(a), NEW b \in Blocks(fn), NEW i \in DOMAIN fn.vals[b], fn.vals[b][i] \in Tracked(fn)
  PROVE  IF loc[fn.vals[b][i]] \in Regs THEN result[fn.vals[b][i]] = loc[fn.vals[b][i]]
                                        ELSE result[fn.vals[b][i]] \in ScratchRegs
<1> DEFINE v == fn.vals[b][i]
<1>1. v \in ToSet(lay.at) \ {NoId}
  BY Listed
<1>2. Passed(a) /\ loc = a.loc /\ result = a.result
  BY DEF Agrees
<1>3. ResultOK(a, v)
  BY <1>1, <1>2, NothingReported DEF BadOperand
<1>4. Home(a, v) = loc[v] /\ loc[v] \notin ScratchRegs /\ (loc[v] \notin Regs => InSlot(loc[v]))
  BY LocFacts
<1> HIDE DEF v
<1>5. IF loc[v] \in Regs THEN result[v] = loc[v] ELSE result[v] \in ScratchRegs
  <2>1. CASE loc[v] \in Regs
    <3>1. InReg(Home(a, v))
      BY <1>4, <2>1 DEF InReg
    <3>2. a.result[v] = Home(a, v)
      BY <1>3, <3>1 DEF ResultOK, InSlot
    <3> QED BY <1>2, <1>4, <2>1, <3>2
  <2>2. CASE loc[v] \notin Regs
    <3>1. InSlot(Home(a, v)) /\ ~InReg(Home(a, v))
      BY <1>4, <2>2 DEF InSlot
    <3>2. a.result[v] \in ScratchRegs
      BY <1>3, <3>1 DEF ResultOK
    <3> QED BY <1>2, <2>2, <3>2
  <2> QED BY <2>1, <2>2
<1> QED BY <1>5 DEF v

\* An instruction leaves its result in its home, and everything else but the
\* scratch registers as it was.
LEMMA OpLeaves ==
  ASSUME AllKnown, NEW a, Agrees(a), NEW b \in Blocks(fn), NEW i \in DOMAIN fn.vals[b], fn.op[fn.vals[b][i]] = "op",
         NEW m, NEW e, Regular(m, e), HomedIn(m, e, b, i)
  PROVE  LET v == fn.vals[b][i]
         IN  /\ IsMemory(Leaves(m, v)) /\ Leaves(m, v)[loc[v]] = <<v, OperandsIn(e, v)>>
             /\ \A l \in Cells \ ScratchRegs : l # loc[v] => Leaves(m, v)[l] = m[l]
<1> DEFINE v == fn.vals[b][i]
           x == <<v, ReadOperands(m, v)>>
           m0 == Materialise(m, v)
           m1 == [m0 EXCEPT ![result[v]] = x]
           m2 == Spill(m1, v)
<1>1. IsMemory(m) /\ fn.op[v] \in {"op", "branch"}
  BY DEF Regular
<1>2. IsMemory(m0) /\ \A l \in Cells \ ScratchRegs : m0[l] = m[l]
  BY <1>1, MaterialiseGives
<1>3. x = <<v, OperandsIn(e, v)>>
  BY <1>1, ReadMeans
<1>4. v \in Tracked(fn)
  BY PlaceFacts, AnalysedFacts, FunctionFacts DEF Tracked
<1>5. IF loc[v] \in Regs THEN result[v] = loc[v] ELSE result[v] \in ScratchRegs
  BY <1>4, ResultFacts
<1>6. loc[v] \in Cells /\ loc[v] \notin ScratchRegs
  BY <1>4, LocFacts
<1>7. result[v] \in Cells
  BY <1>5, <1>6 DEF Cells, CellsOf
<1> HIDE DEF v, x, m0
<1>8. m1[result[v]] = x /\ IsMemory(m1) /\ \A l \in Cells : l # result[v] => m1[l] = m0[l]
  BY <1>2, <1>7 DEF IsMemory
<1> HIDE DEF m1
<1>9. IsMemory(m2) /\ m2[loc[v]] = x /\ \A l \in Cells \ ScratchRegs : l # loc[v] => m2[l] = m[l]
  <2>1. CASE loc[v] \in Regs
    <3>1. m2 = m1 /\ result[v] = loc[v]
      BY <1>5, <2>1 DEF Spill
    <3> HIDE DEF m2
    <3> QED BY <1>2, <1>8, <3>1
  <2>2. CASE loc[v] \notin Regs
    <3>1. m2 = [m1 EXCEPT ![loc[v]] = x] /\ result[v] \in ScratchRegs
      BY <1>5, <1>8, <2>2 DEF Spill
    <3> HIDE DEF m2
    <3>2. IsMemory(m2) /\ m2[loc[v]] = x /\ \A l \in Cells : l # loc[v] => m2[l] = m1[l]
      BY <1>6, <1>8, <3>1 DEF IsMemory
    <3> QED BY <1>2, <1>8, <3>1, <3>2
  <2> QED BY <2>1, <2>2
<1>10. Leaves(m, v) = m2
  <2>1. fn.op[v] = "op"
    BY DEF v
  <2> QED BY <2>1 DEF Leaves, m2, m1, m0, x
<1> HIDE DEF m2
<1>11. IsMemory(Leaves(m, v)) /\ Leaves(m, v)[loc[v]] = <<v, OperandsIn(e, v)>> /\ \A l \in Cells \ ScratchRegs : l # loc[v] => Leaves(m, v)[l] = m[l]
  BY <1>3, <1>9, <1>10
<1> QED BY <1>11 DEF v

\* The results of a call have each its register.
LEMMA ResultRegFacts ==
  ASSUME AllKnown, NEW c \in Calls(fn)
  PROVE  /\ \A v \in Selects(c) : ResultReg(v) \in Regs
         /\ \A v, w \in Selects(c) : ResultReg(v) = ResultReg(w) => v = w
<1> DEFINE S == Selects(c)
           upto(v) == {u \in S : u <= v}
           rank(v) == Cardinality(upto(v))
<1>1. an.tracked = Tracked(fn) /\ Ready(fn)
  BY AnalysedFacts
<1>2. S = {v \in Tracked(fn) : fn.op[v] = "select" /\ fn.args[v][1] = c}
  BY <1>1 DEF Selects
<1>3. Cardinality(S) <= Len(ArgRegs)
  BY <1>1, <1>2 DEF Ready, Conventional
<1>4. S \subseteq Nat /\ IsFiniteSet(S) /\ S \subseteq Ids
  BY <1>2, AnalysedFacts, IdsAssumption, FunctionAssumption, FS_Subset
<1>5. \A v \in S : ResultReg(v) = ArgRegs[rank(v)]
  BY <1>2 DEF ResultReg
<1>6. ArgRegs \in Seq(Regs) /\ Len(ArgRegs) \in Nat /\ DOMAIN ArgRegs = 1 .. Len(ArgRegs)
      /\ \A k, n \in DOMAIN ArgRegs : ArgRegs[k] = ArgRegs[n] => k = n
  BY MachineAssumption DEF IsInjective
<1>7. ASSUME NEW v \in S PROVE rank(v) \in DOMAIN ArgRegs /\ rank(v) \in Nat
  <2>1. upto(v) \subseteq S /\ v \in upto(v)
    BY <1>4, <1>7
  <2> HIDE DEF upto
  <2>2. IsFiniteSet(upto(v)) /\ Cardinality(upto(v)) <= Cardinality(S) /\ Cardinality(upto(v)) \in Nat /\ Cardinality(S) \in Nat
    BY <1>4, <2>1, FS_Subset, FS_CardinalityType
  <2>3. Cardinality(upto(v)) # 0
    BY <2>1, <2>2, FS_EmptySet
  <2> QED BY <1>3, <1>6, <2>2, <2>3
<1>8. ASSUME NEW v \in S, NEW w \in S, v < w PROVE rank(v) < rank(w)
  <2>1. upto(v) \subseteq upto(w) /\ w \in upto(w) /\ w \notin upto(v)
    BY <1>4, <1>8
  <2>2. upto(w) \subseteq S
    OBVIOUS
  <2> HIDE DEF upto
  <2>3. IsFiniteSet(upto(w)) /\ Cardinality(upto(w)) \in Nat
    BY <1>4, <2>2, FS_Subset, FS_CardinalityType
  <2>4. Cardinality(upto(v)) <= Cardinality(upto(w)) /\ (Cardinality(upto(v)) = Cardinality(upto(w)) => upto(v) = upto(w))
    BY <2>1, <2>3, FS_Subset
  <2>5. Cardinality(upto(v)) \in Nat
    BY <1>7
  <2> QED BY <2>1, <2>3, <2>4, <2>5
<1> HIDE DEF S, rank
<1>9. \A v \in S : ResultReg(v) \in Regs
  BY <1>5, <1>6, <1>7
<1>10. ASSUME NEW v \in S, NEW w \in S, ResultReg(v) = ResultReg(w) PROVE v = w
  <2>1. rank(v) = rank(w)
    BY <1>5, <1>6, <1>7, <1>10
  <2>2. ~(v < w) /\ ~(w < v)
    BY <1>7, <1>8, <2>1
  <2>3. v \in Nat /\ w \in Nat
    BY <1>4
  <2> QED BY <2>2, <2>3
<1> QED BY <1>9, <1>10 DEF S

\* The results of a call are in their homes.
ResultsIn(m, e, c) == \A w \in Tracked(fn) : fn.op[w] = "select" /\ fn.args[w][1] = c => m[loc[w]] = <<w, OperandsIn(e, c)>>

\* A call leaves its results in their homes, and what is live after it in place.
LEMMA CallLeaves ==
  ASSUME AllKnown, NEW a, Agrees(a), NEW b \in Blocks(fn), NEW i \in DOMAIN fn.vals[b], fn.op[fn.vals[b][i]] = "call",
         NEW m, NEW e, Regular(m, e), HomedIn(m, e, b, i)
  PROVE  LET c == fn.vals[b][i]
         IN  /\ IsMemory(Leaves(m, c))
             /\ \A u \in LiveAt(fn, b, i + 1) : Leaves(m, c)[loc[u]] = m[loc[u]]
             /\ ResultsIn(Leaves(m, c), e, c)
<1> DEFINE c == fn.vals[b][i]
           reads == PassedOperands(m, c)
           back == [l \in Cells |->
                      IF \E v \in Selects(c) : ResultReg(v) = l
                      THEN <<CHOOSE v \in Selects(c) : ResultReg(v) = l, reads>>
                      ELSE IF l \in Regs \cup ScratchRegs THEN Junk ELSE m[l]]
           mv(v) == [dst |-> loc[v], src |-> ResultReg(v), from |-> v]
           moves == {mv(v) : v \in Selects(c)}
           m2 == Leaves(m, c)
<1>1. reads = OperandsIn(e, c)
  <2>1. fn.op[c] \in {"call", "ret"}
    OBVIOUS
  <2> QED BY <2>1, PassMeans
<1>2. c \in Calls(fn)
  BY PlaceFacts DEF Calls
<1>3. /\ \A v \in Selects(c) : ResultReg(v) \in Regs
      /\ \A v, w \in Selects(c) : ResultReg(v) = ResultReg(w) => v = w
  BY <1>2, ResultRegFacts
<1>4. Selects(c) = {v \in Tracked(fn) : fn.op[v] = "select" /\ fn.args[v][1] = c}
  BY AnalysedFacts DEF Selects
<1>5. \A v \in Tracked(fn) : loc[v] \in Cells /\ loc[v] \notin ScratchRegs /\ loc[v] = Home(a, v)
  BY LocFacts
<1>6. Passed(a)
  BY DEF Agrees
<1>7. \A v \in Selects(c) : \A u \in LiveAt(fn, b, i + 1) : loc[u] # loc[v]
  <2> TAKE v \in Selects(c)
  <2> TAKE u \in LiveAt(fn, b, i + 1)
  <2>1. Home(a, u) # Home(a, v)
    BY <1>4, <1>6, ResultsApart
  <2>2. u \in Tracked(fn)
    BY PlaceFacts, LiveSpans
  <2> QED BY <1>4, <1>5, <2>1, <2>2
<1>8. \A v, w \in Selects(c) : w # v => loc[w] # loc[v]
  <2> TAKE v, w \in Selects(c)
  <2>1. w # v => Home(a, w) # Home(a, v)
    BY <1>4, <1>6, ResultsApart
  <2> QED BY <1>4, <1>5, <2>1
<1>9. ASSUME NEW u \in LiveAt(fn, b, i + 1) PROVE u \in Tracked(fn) /\ loc[u] \in Cells \ (Regs \cup ScratchRegs)
  <2>1. u \in Tracked(fn)
    BY PlaceFacts, LiveSpans
  <2>2. Home(a, u) \notin Regs
    BY <1>6, AcrossInFrame
  <2> QED BY <1>5, <2>1, <2>2
<1>10. m2 = Transfer(back, moves)
  BY DEF Leaves, AfterCall
<1> HIDE DEF c, reads
<1>11. \A x \in moves : \E v \in Selects(c) : x = mv(v)
  OBVIOUS
<1>12. \A v \in Selects(c) : mv(v) \in moves /\ mv(v).dst = loc[v] /\ mv(v).src = ResultReg(v)
  OBVIOUS
<1>13. \A v \in Selects(c) : back[ResultReg(v)] = <<v, reads>>
  <2> TAKE v \in Selects(c)
  <2>1. (CHOOSE w \in Selects(c) : ResultReg(w) = ResultReg(v)) = v
    BY <1>3
  <2>2. ResultReg(v) \in Cells
    BY <1>3 DEF Cells, CellsOf
  <2> QED BY <2>1, <2>2
<1>14. \A l \in Cells \ (Regs \cup ScratchRegs) : back[l] = m[l]
  BY <1>3
<1> HIDE DEF moves, mv, back, m2
<1>15. Distinct(moves)
  <2> SUFFICES ASSUME NEW x \in moves, NEW y \in moves, x.dst = y.dst PROVE x = y
    BY DEF Distinct
  <2>1. PICK v \in Selects(c) : x = mv(v)
    BY <1>11
  <2>2. PICK w \in Selects(c) : y = mv(w)
    BY <1>11
  <2>3. v = w
    BY <1>8, <1>12, <2>1, <2>2
  <2> QED BY <2>1, <2>2, <2>3
<1>16. Regs \subseteq Cells /\ NoReg \notin Regs
  BY RegsAssumption DEF Cells, CellsOf
<1>17. \A x \in moves : x.dst \in Cells /\ x.src \in Cells \cup {NoReg} /\ x.src \in Regs
  BY <1>3, <1>4, <1>5, <1>11, <1>12, <1>16
<1>18. /\ DOMAIN m2 = Cells
       /\ \A l \in Cells : (\A x \in moves : x.dst # l) => m2[l] = back[l]
       /\ \A x \in moves : m2[x.dst] = Brought(back, x)
  BY <1>10, <1>15, <1>17, TransferGives
<1>19. \A v \in Selects(c) : m2[loc[v]] = <<v, OperandsIn(e, c)>>
  <2> TAKE v \in Selects(c)
  <2>1. m2[loc[v]] = Brought(back, mv(v))
    BY <1>12, <1>18
  <2>2. Brought(back, mv(v)) = back[ResultReg(v)]
    BY <1>3, <1>12, <1>16 DEF Brought
  <2> QED BY <1>1, <1>13, <2>1, <2>2
<1>20. \A u \in LiveAt(fn, b, i + 1) : m2[loc[u]] = m[loc[u]]
  <2> TAKE u \in LiveAt(fn, b, i + 1)
  <2>1. \A x \in moves : x.dst # loc[u]
    BY <1>7, <1>11, <1>12
  <2>2. m2[loc[u]] = back[loc[u]]
    BY <1>9, <1>18, <2>1
  <2> QED BY <1>9, <1>14, <2>2
<1>21. IsMemory(m2)
  <2>1. m2 = TransferStage(TransferStage(TransferStage(back, {x \in {y \in moves : y.src \in Regs} : x.dst \notin Regs}),
                   {y \in moves : y.src \in Regs} \ {x \in {y \in moves : y.src \in Regs} : x.dst \notin Regs}),
                   moves \ {y \in moves : y.src \in Regs})
    BY <1>10 DEF Transfer
  <2> QED BY <2>1 DEF TransferStage, Put, IsMemory
<1>22. ResultsIn(m2, e, c)
  BY <1>4, <1>19 DEF ResultsIn
<1> QED BY <1>20, <1>21, <1>22 DEF c, m2

-----------------------------------------------------------------------------
(* One value after the other *)

\* What stands ready in its home before its own turn: the phis of the block, the
\* arguments that arrived in registers, the results of the call before them.
WaitingIn(m, e, b, i) ==
  \A j \in DOMAIN fn.vals[b] : j >= i =>
    /\ fn.op[fn.vals[b][j]] = "phi" => m[loc[fn.vals[b][j]]] = e[fn.vals[b][j]]
    /\ fn.op[fn.vals[b][j]] = "arg" /\ fn.place[fn.vals[b][j]] # NoReg => m[loc[fn.vals[b][j]]] = Term(fn.vals[b][j])
    /\ fn.op[fn.vals[b][j]] = "select" =>
          \A k \in DOMAIN fn.vals[b] : k < i /\ fn.vals[b][k] = fn.args[fn.vals[b][j]][1] =>
                m[loc[fn.vals[b][j]]] = <<fn.vals[b][j], OperandsIn(e, fn.vals[b][k])>>

\* What stands between the values that are ready and the one whose turn it is.
LEMMA ReadyTogether ==
  ASSUME AllKnown, NEW b \in Blocks(fn), NEW j \in DOMAIN fn.vals[b], NEW i \in DOMAIN fn.vals[b], i < j
  PROVE  /\ fn.op[fn.vals[b][j]] = "phi" => fn.op[fn.vals[b][i]] = "phi"
         /\ fn.op[fn.vals[b][j]] = "arg" /\ fn.place[fn.vals[b][j]] # NoReg =>
                fn.op[fn.vals[b][i]] = "arg" /\ fn.place[fn.vals[b][i]] # NoReg
         /\ fn.op[fn.vals[b][j]] = "select" =>
                \A k \in DOMAIN fn.vals[b] : k <= i /\ fn.vals[b][k] = fn.args[fn.vals[b][j]][1] =>
                    /\ fn.op[fn.vals[b][k]] = "call"
                    /\ k < i => fn.op[fn.vals[b][i]] = "select"
<1>1. WellPlaced(fn, b, j) /\ IsFunction(fn)
  BY AnalysedFacts
<1>2. DOMAIN fn.vals[b] = 1 .. Len(fn.vals[b]) /\ Len(fn.vals[b]) \in Nat
  BY PlaceFacts
<1>3. i \in 1 .. j /\ i \in Nat /\ j \in Nat
  BY <1>2
<1>4. fn.op[fn.vals[b][j]] = "phi" => fn.op[fn.vals[b][i]] = "phi"
  BY <1>1, <1>3 DEF WellPlaced
<1>5. fn.op[fn.vals[b][j]] = "arg" /\ fn.place[fn.vals[b][j]] # NoReg =>
          fn.op[fn.vals[b][i]] = "arg" /\ fn.place[fn.vals[b][i]] # NoReg
  BY <1>1, <1>3 DEF WellPlaced
<1>6. ASSUME fn.op[fn.vals[b][j]] = "select", NEW k \in DOMAIN fn.vals[b], k <= i, fn.vals[b][k] = fn.args[fn.vals[b][j]][1]
      PROVE  fn.op[fn.vals[b][k]] = "call" /\ (k < i => fn.op[fn.vals[b][i]] = "select")
  <2>1. PICK n \in DOMAIN fn.vals[b] : /\ n < j /\ fn.vals[b][n] = fn.args[fn.vals[b][j]][1] /\ fn.op[fn.vals[b][n]] = "call"
                                       /\ \A x \in n + 1 .. j : fn.op[fn.vals[b][x]] = "select"
    <3>1. AllKnown /\ b \in Blocks(fn) /\ j \in DOMAIN fn.vals[b] /\ fn.op[fn.vals[b][j]] = "select"
      BY <1>6
    <3>2. \E n \in DOMAIN fn.vals[b] : /\ n < j /\ fn.vals[b][n] = fn.args[fn.vals[b][j]][1] /\ fn.op[fn.vals[b][n]] = "call"
                                       /\ \A x \in n + 1 .. j : fn.op[fn.vals[b][x]] = "select" /\ fn.args[fn.vals[b][x]] = fn.args[fn.vals[b][j]]
      BY ONLY <3>1, CallOf
    <3> QED BY ONLY <3>2
  <2>2. n = k
    BY <1>1, <1>6, <2>1, Stands
  <2>3. k < i => i \in n + 1 .. j
    BY <1>2, <1>3, <2>2
  <2> QED BY <2>1, <2>2, <2>3
<1> QED BY <1>4, <1>5, <1>6

\* A call does not read its own results.
LEMMA NotItsOwn ==
  ASSUME AllKnown, NEW b \in Blocks(fn), NEW i \in DOMAIN fn.vals[b], NEW k \in DOMAIN fn.vals[b], k < i,
         fn.op[fn.vals[b][k]] = "call", NEW e, NEW x, e = [v \in Ids |-> e[v]], fn.vals[b][i] \in Tracked(fn)
  PROVE  OperandsIn([e EXCEPT ![fn.vals[b][i]] = x], fn.vals[b][k]) = OperandsIn(e, fn.vals[b][k])
<1> DEFINE v == fn.vals[b][i]
           c == fn.vals[b][k]
           e2 == [e EXCEPT ![v] = x]
<1>1. IsFunction(fn) /\ LiveAtStart(fn, 1) = {} /\ Fits(fn, lay)
  BY AnalysedFacts
<1>2. lay.pos[v] = lay.first[b] + i - 1 /\ lay.pos[c] = lay.first[b] + k - 1 /\ lay.first[b] \in Nat /\ i \in Nat /\ k \in Nat /\ c \in Values(fn)
  BY PlaceFacts
<1>3. ~(lay.pos[v] < lay.pos[c])
  <2> DEFINE p == lay.pos[v]
             q == lay.pos[c]
             r == lay.first[b]
  <2>1. p = r + i - 1 /\ q = r + k - 1 /\ r \in Nat /\ i \in Nat /\ k \in Nat /\ k < i
    BY <1>2
  <2> HIDE DEF p, q, r
  <2>2. ~(p < q)
    BY <2>1
  <2> QED BY <2>2 DEF p, q
<1>4. v \notin Reads(fn, c)
  BY <1>1, <1>2, <1>3, ReadsAfter
<1>5. \A n \in DOMAIN fn.args[c] : fn.args[c][n] # v
  BY <1>4 DEF Reads, ToSet
<1> HIDE DEF v, c
<1>6. \A n \in DOMAIN fn.args[c] : e2[fn.args[c][n]] = e[fn.args[c][n]]
  BY <1>5
<1> HIDE DEF e2
<1>7. OperandsIn(e2, c) = OperandsIn(e, c)
  BY <1>6 DEF OperandsIn
<1> QED BY <1>7 DEF e2, v, c

\* The values and results after one more value, typed.
LEMMA ComputeRegular ==
  ASSUME AllKnown, NEW a, Agrees(a), NEW b \in Blocks(fn), NEW i \in DOMAIN fn.vals[b],
         NEW m, NEW e, Regular(m, e), HomedIn(m, e, b, i)
  PROVE  Regular(Leaves(m, fn.vals[b][i]), Computed(e, fn.vals[b][i]))
<1> DEFINE v == fn.vals[b][i]
<1>1. IsMemory(m) /\ e = [u \in Ids |-> e[u]] /\ \A r \in Remats(fn) : e[r] = Term(r)
  BY DEF Regular
<1>2. IsMemory(Leaves(m, v))
  <2>1. CASE fn.op[v] = "op"
    BY <2>1, OpLeaves
  <2>2. CASE fn.op[v] = "arg"
    <3>1. Leaves(m, v) = IF fn.place[v] = NoReg THEN [m EXCEPT ![loc[v]] = Term(v)] ELSE m
      BY <2>2 DEF Leaves
    <3> QED BY <1>1, <3>1 DEF IsMemory
  <2>3. CASE fn.op[v] = "call"
    BY <2>3, CallLeaves
  <2>4. CASE fn.op[v] \notin {"op", "arg", "call"}
    <3>1. Leaves(m, v) = m
      BY <2>4 DEF Leaves
    <3> QED BY <1>1, <3>1
  <2> QED BY <2>1, <2>2, <2>3, <2>4
<1>3. v \in Tracked(fn) => v \notin Remats(fn)
  BY DEF Tracked, Remats
<1>4. Computed(e, v) = [u \in Ids |-> Computed(e, v)[u]] /\ \A r \in Remats(fn) : Computed(e, v)[r] = Term(r)
  <2>1. CASE v \in Tracked(fn) /\ fn.op[v] # "phi"
    <3> DEFINE x == <<v, OperandsIn(e, IF fn.op[v] = "select" THEN fn.args[v][1] ELSE v)>>
    <3>1. Computed(e, v) = [e EXCEPT ![v] = x]
      BY <2>1 DEF Computed
    <3>2. Remats(fn) \subseteq Ids
      BY AnalysedFacts, FunctionFacts
    <3> DEFINE e2 == Computed(e, v)
    <3> HIDE DEF x, v, e2
    <3>3. e2 = [e EXCEPT ![v] = x]
      BY <3>1 DEF e2
    <3>4. e2 = [u \in Ids |-> e2[u]]
      BY <1>1, <3>3
    <3>5. \A r \in Remats(fn) : e2[r] = Term(r)
      BY <1>1, <1>3, <2>1, <3>2, <3>3
    <3> QED BY <3>4, <3>5 DEF e2
  <2>2. CASE ~(v \in Tracked(fn) /\ fn.op[v] # "phi")
    <3>1. Computed(e, v) = e
      BY <2>2 DEF Computed
    <3> QED BY <1>1, <3>1
  <2> QED BY <2>1, <2>2
<1> QED BY <1>2, <1>4 DEF Regular

\* What is live after a value is in its home after it, its result included.
LEMMA ComputeHomed ==
  ASSUME AllKnown, NEW a, Agrees(a), NEW b \in Blocks(fn), NEW i \in DOMAIN fn.vals[b], fn.op[fn.vals[b][i]] # "branch",
         NEW m, NEW e, Regular(m, e), HomedIn(m, e, b, i), WaitingIn(m, e, b, i)
  PROVE  HomedIn(Leaves(m, fn.vals[b][i]), Computed(e, fn.vals[b][i]), b, i + 1)
<1> DEFINE v == fn.vals[b][i]
           m2 == Leaves(m, v)
           e2 == Computed(e, v)
<1> SUFFICES ASSUME NEW u \in LiveAt(fn, b, i + 1) PROVE m2[loc[u]] = e2[u]
  BY DEF HomedIn
<1>1. /\ e = [w \in Ids |-> e[w]] /\ IsMemory(m)
      /\ LiveAt(fn, b, i) = (LiveAt(fn, b, i + 1) \ {v}) \cup Reads(fn, v) /\ v \in Ids /\ u \in Tracked(fn) /\ WellPlaced(fn, b, i)
  BY PlaceFacts, LiveSpans, AnalysedFacts DEF Regular
<1>2. loc[u] \in Cells \ ScratchRegs /\ u \in Ids /\ loc[u] = Home(a, u)
  BY <1>1, LocFacts
<1>3. Passed(a)
  BY DEF Agrees
<1>4. CASE u # v
  <2>1. m[loc[u]] = e[u]
    BY <1>1, <1>4 DEF HomedIn
  <2>2. e2[u] = e[u]
    <3> DEFINE x == <<v, OperandsIn(e, IF fn.op[v] = "select" THEN fn.args[v][1] ELSE v)>>
    <3>1. e2 = IF v \in Tracked(fn) /\ fn.op[v] # "phi" THEN [e EXCEPT ![v] = x] ELSE e
      BY DEF Computed
    <3> HIDE DEF x, v, e2
    <3> QED BY <1>1, <1>2, <1>4, <3>1
  <2>3. m2[loc[u]] = m[loc[u]]
    <3>0. v \in Tracked(fn) => loc[u] # loc[v]
      <4> SUFFICES ASSUME v \in Tracked(fn) PROVE loc[u] # loc[v]
        OBVIOUS
      <4>1. Home(a, u) # Home(a, v)
        BY <1>3, <1>4, WrittenApart
      <4>2. loc[v] = Home(a, v)
        BY LocFacts
      <4> QED BY <1>2, <4>1, <4>2
    <3>1. CASE fn.op[v] = "op"
      <4>2. v \in Tracked(fn)
        BY <1>1, <3>1, AnalysedFacts, FunctionFacts DEF Tracked
      <4>3. \A l \in Cells \ ScratchRegs : l # loc[v] => m2[l] = m[l]
        BY <3>1, OpLeaves
      <4> HIDE DEF m2
      <4> QED BY <1>2, <3>0, <4>2, <4>3
    <3>2. CASE fn.op[v] = "arg"
      <4>1. m2 = IF fn.place[v] = NoReg THEN [m EXCEPT ![loc[v]] = Term(v)] ELSE m
        BY <3>2 DEF Leaves
      <4>2. v \in Tracked(fn)
        BY <1>1, <3>2, AnalysedFacts, FunctionFacts DEF Tracked
      <4> HIDE DEF m2
      <4> QED BY <1>1, <1>2, <3>0, <4>1, <4>2 DEF IsMemory
    <3>3. CASE fn.op[v] = "call"
      BY <3>3, CallLeaves
    <3>4. CASE fn.op[v] \notin {"op", "arg", "call"}
      BY <3>4 DEF Leaves
    <3> QED BY <3>1, <3>2, <3>3, <3>4
  <2> QED BY <2>1, <2>2, <2>3
<1>5. CASE u = v
  <2>0. v \in Tracked(fn) /\ loc[v] \in Cells
    BY <1>1, <1>2, <1>5
  <2>1. CASE fn.op[v] = "op"
    <3>2. m2[loc[v]] = <<v, OperandsIn(e, v)>>
      BY <2>1, OpLeaves
    <3>3. e2 = [e EXCEPT ![v] = <<v, OperandsIn(e, v)>>]
      BY <2>0, <2>1 DEF Computed
    <3>4. e2[v] = <<v, OperandsIn(e, v)>>
      <4> DEFINE x == <<v, OperandsIn(e, v)>>
      <4> HIDE DEF x, v, e2
      <4>1. e2 = [e EXCEPT ![v] = x]
        BY <3>3 DEF x
      <4>2. e2[v] = x
        BY <1>1, <4>1
      <4> QED BY <4>2 DEF x
    <3> QED BY <1>5, <3>2, <3>4
  <2>2. CASE fn.op[v] = "arg"
    <3>1. m2[loc[v]] = Term(v)
      <4>1. CASE fn.place[v] = NoReg
        <5>1. m2 = [m EXCEPT ![loc[v]] = Term(v)]
          BY <2>2, <4>1 DEF Leaves
        <5> HIDE DEF m2, v
        <5> QED BY <1>1, <2>0, <5>1 DEF IsMemory
      <4>2. CASE fn.place[v] # NoReg
        <5>1. m2 = m
          BY <2>2, <4>2 DEF Leaves
        <5>2. i >= i
          BY PlaceFacts
        <5>3. m[loc[v]] = Term(v)
          BY <2>2, <4>2, <5>2 DEF WaitingIn
        <5> QED BY <5>1, <5>3
      <4> QED BY <4>1, <4>2
    <3>2. OperandsIn(e, v) = <<>>
      <4>1. fn.args[v] = <<>>
        BY <1>1, <2>2 DEF WellPlaced
      <4>2. OperandsIn(e, v) = [x \in {} |-> e[fn.args[v][x]]]
        <5>1. DOMAIN fn.args[v] = {}
          BY <4>1
        <5> QED BY <5>1 DEF OperandsIn
      <4> QED BY <4>2
    <3>3. e2 = [e EXCEPT ![v] = <<v, OperandsIn(e, v)>>]
      BY <2>0, <2>2 DEF Computed
    <3>4. <<v, OperandsIn(e, v)>> = Term(v)
      BY <3>2 DEF Term
    <3>5. e2[v] = Term(v)
      <4> HIDE DEF v, e2
      <4>1. e2 = [e EXCEPT ![v] = Term(v)]
        BY <3>3, <3>4
      <4> QED BY <1>1, <4>1
    <3> QED BY <1>5, <3>1, <3>5
  <2>3. CASE fn.op[v] = "phi"
    <3>1. m2 = m /\ e2 = e
      BY <2>3 DEF Leaves, Computed
    <3>2. i >= i
      BY PlaceFacts
    <3>3. m[loc[v]] = e[v]
      BY <2>3, <3>2 DEF WaitingIn
    <3> QED BY <1>5, <3>1, <3>3
  <2>4. CASE fn.op[v] = "select"
    <3>1. m2 = m
      BY <2>4 DEF Leaves
    <3>2. PICK k \in DOMAIN fn.vals[b] : k < i /\ fn.vals[b][k] = fn.args[v][1]
      BY <2>4, CallOf
    <3>3. i >= i
      BY PlaceFacts
    <3>4. m[loc[v]] = <<v, OperandsIn(e, fn.args[v][1])>>
      BY <2>4, <3>2, <3>3 DEF WaitingIn
    <3>5. e2 = [e EXCEPT ![v] = <<v, OperandsIn(e, fn.args[v][1])>>]
      BY <2>0, <2>4 DEF Computed
    <3>6. e2[v] = m[loc[v]]
      <4> HIDE DEF v, e2
      <4> QED BY <1>1, <3>4, <3>5
    <3> QED BY <1>5, <3>1, <3>6
  <2> QED BY <2>0, <2>1, <2>2, <2>3, <2>4 DEF Tracked
<1> QED BY <1>4, <1>5

\* What is ready stays so.
LEMMA ComputeWaiting ==
  ASSUME AllKnown, NEW a, Agrees(a), NEW b \in Blocks(fn), NEW i \in DOMAIN fn.vals[b], fn.op[fn.vals[b][i]] # "branch",
         NEW m, NEW e, Regular(m, e), HomedIn(m, e, b, i), WaitingIn(m, e, b, i)
  PROVE  WaitingIn(Leaves(m, fn.vals[b][i]), Computed(e, fn.vals[b][i]), b, i + 1)
<1> DEFINE v == fn.vals[b][i]
           m2 == Leaves(m, v)
           e2 == Computed(e, v)
<1> SUFFICES ASSUME NEW j \in DOMAIN fn.vals[b], j >= i + 1
             PROVE  /\ fn.op[fn.vals[b][j]] = "phi" => m2[loc[fn.vals[b][j]]] = e2[fn.vals[b][j]]
                    /\ fn.op[fn.vals[b][j]] = "arg" /\ fn.place[fn.vals[b][j]] # NoReg => m2[loc[fn.vals[b][j]]] = Term(fn.vals[b][j])
                    /\ fn.op[fn.vals[b][j]] = "select" =>
                          \A k \in DOMAIN fn.vals[b] : k < i + 1 /\ fn.vals[b][k] = fn.args[fn.vals[b][j]][1] =>
                                m2[loc[fn.vals[b][j]]] = <<fn.vals[b][j], OperandsIn(e2, fn.vals[b][k])>>
  BY DEF WaitingIn
<1> DEFINE w == fn.vals[b][j]
<1>1. i \in Nat /\ j \in Nat /\ i < j /\ j >= i /\ e = [u \in Ids |-> e[u]]
  BY PlaceFacts DEF Regular
<1>2. CASE fn.op[w] = "phi"
  <2>1. fn.op[v] = "phi"
    BY <1>1, <1>2, ReadyTogether
  <2>2. m2 = m /\ e2 = e
    BY <2>1 DEF Leaves, Computed
  <2>3. m[loc[w]] = e[w]
    BY <1>1, <1>2 DEF WaitingIn
  <2> QED BY <1>2, <2>2, <2>3
<1>3. CASE fn.op[w] = "arg"
  <2> SUFFICES ASSUME fn.place[w] # NoReg PROVE m2[loc[w]] = Term(w)
    BY <1>3
  <2>1. fn.op[v] = "arg" /\ fn.place[v] # NoReg
    BY <1>1, <1>3, ReadyTogether
  <2>2. m2 = m
    BY <2>1 DEF Leaves
  <2>3. m[loc[w]] = Term(w)
    BY <1>1, <1>3 DEF WaitingIn
  <2> QED BY <2>2, <2>3
<1>4. CASE fn.op[w] = "select"
  <2> SUFFICES ASSUME NEW k \in DOMAIN fn.vals[b], k < i + 1, fn.vals[b][k] = fn.args[w][1]
               PROVE  m2[loc[w]] = <<w, OperandsIn(e2, fn.vals[b][k])>>
    BY <1>4
  <2>0. k <= i /\ k \in Nat
    BY <1>1, PlaceFacts
  <2>1. fn.op[fn.vals[b][k]] = "call" /\ (k < i => fn.op[v] = "select")
    BY <1>1, <1>4, <2>0, ReadyTogether
  <2>2. w \in Tracked(fn)
    BY <1>4, PlaceFacts, AnalysedFacts, FunctionFacts DEF Tracked
  <2>3. CASE k = i
    <3>1. fn.op[v] = "call" /\ fn.vals[b][k] = v
      BY <2>1, <2>3
    <3>3. v \notin Tracked(fn)
      BY <3>1 DEF Tracked
    <3>4. e2 = e
      BY <3>3 DEF Computed
    <3>5. fn.args[w][1] = v
      BY <3>1
    <3>6. ResultsIn(m2, e, v)
      BY <3>1, CallLeaves
    <3>7. m2[loc[w]] = <<w, OperandsIn(e, v)>>
      BY <1>4, <2>2, <3>5, <3>6 DEF ResultsIn
    <3> QED BY <3>1, <3>4, <3>7
  <2>4. CASE k < i
    <3>1. fn.op[v] = "select"
      BY <2>1, <2>4
    <3>2. m2 = m
      BY <3>1 DEF Leaves
    <3>3. m[loc[w]] = <<w, OperandsIn(e, fn.vals[b][k])>>
      BY <1>1, <1>4, <2>4 DEF WaitingIn
    <3>4. v \in Tracked(fn)
      BY <3>1, PlaceFacts, AnalysedFacts, FunctionFacts DEF Tracked
    <3>5. e2 = [e EXCEPT ![v] = <<v, OperandsIn(e, fn.args[v][1])>>]
      BY <3>1, <3>4 DEF Computed
    <3>6. e = [u \in Ids |-> e[u]]
      BY <1>1
    <3>7. fn.vals[b][i] \in Tracked(fn)
      BY <3>4
    <3>8. fn.op[fn.vals[b][k]] = "call"
      BY <2>1
    <3>9. AllKnown
      OBVIOUS
    <3>10. \A x : OperandsIn([e EXCEPT ![fn.vals[b][i]] = x], fn.vals[b][k]) = OperandsIn(e, fn.vals[b][k])
      BY ONLY NotItsOwn, <2>4, <3>6, <3>7, <3>8, <3>9
    <3>11. OperandsIn([e EXCEPT ![fn.vals[b][i]] = <<v, OperandsIn(e, fn.args[v][1])>>], fn.vals[b][k]) = OperandsIn(e, fn.vals[b][k])
      BY ONLY <3>10
    <3>12. OperandsIn(e2, fn.vals[b][k]) = OperandsIn(e, fn.vals[b][k])
      BY ONLY <3>5, <3>11
    <3> QED BY <3>2, <3>3, <3>12
  <2>5. k = i \/ k < i
    BY ONLY <1>1, <2>0
  <2> QED BY ONLY <2>3, <2>4, <2>5
<1>5. CASE fn.op[w] \notin {"phi", "arg", "select"}
  BY <1>5
<1> QED BY <1>2, <1>3, <1>4, <1>5

-----------------------------------------------------------------------------
(* The copies of an edge *)

\* One entry is run, if there is one.
LEMMA EntriesRun ==
  ASSUME NEW N \in Nat, Len(copies) = N, NEW m, NEW here, NEW n0 \in 1 .. N + 1, \A k \in 1 .. N : k \in here <=> k = n0
  PROVE  RunEntries(m, here) = IF n0 \in 1 .. N THEN RunCopies(m, copies[n0].seq) ELSE m
<1> DEFINE m1 == IF n0 \in 1 .. N THEN RunCopies(m, copies[n0].seq) ELSE m
           T == [n \in 0 .. N |-> {IF n < n0 THEN m ELSE m1}]
           Step(x, n) == IF n \in here THEN RunCopies(x, copies[n].seq) ELSE x
           g == [n \in 1 .. N |-> [x \in {m, m1} |-> Step(x, n)]]
           Runs(f) == f = [n \in 0 .. N |-> IF n = 0 THEN m ELSE Step(f[n - 1], n)]
           run == CHOOSE f : Runs(f)
<1>1. ASSUME NEW n \in 1 .. N, NEW x \in T[n - 1] PROVE x \in {m, m1} /\ Step(x, n) \in T[n]
  <2>1. n - 1 \in 0 .. N /\ n \in 0 .. N
    OBVIOUS
  <2>2. x = IF n - 1 < n0 THEN m ELSE m1
    BY <2>1
  <2>3. Step(x, n) = IF n < n0 THEN m ELSE m1
    <3>1. CASE n < n0
      <4>1. n \notin here /\ n - 1 < n0
        BY <3>1
      <4> QED BY <2>2, <3>1, <4>1
    <3>2. CASE n = n0
      <4>1. n \in here /\ n - 1 < n0 /\ ~(n < n0) /\ n0 \in 1 .. N
        BY <3>2
      <4>2. Step(x, n) = RunCopies(m, copies[n0].seq)
        BY <2>2, <3>2, <4>1
      <4> QED BY <4>1, <4>2
    <3>3. CASE n0 < n
      <4>1. n \notin here /\ ~(n - 1 < n0) /\ ~(n < n0)
        BY <3>3
      <4> QED BY <2>2, <4>1
    <3> QED BY <3>1, <3>2, <3>3
  <2> HIDE DEF m1, Step
  <2> QED BY <2>1, <2>2, <2>3
<1>2. m \in T[0] /\ T[N] = {m1}
  OBVIOUS
<1> HIDE DEF T, m1, Step
<1>3. Chained(T, N, m, g)
  BY <1>1, <1>2 DEF Chained
<1>4. PICK it : ChainOf(it, N, m, g) /\ \A n \in 0 .. N : it[n] \in T[n]
  BY <1>3, ChainExists
<1>5. Runs(it)
  <2>1. it = [n \in 0 .. N |-> IF n = 0 THEN m ELSE g[n][it[n - 1]]]
    BY <1>4 DEF ChainOf
  <2>2. ASSUME NEW n \in 0 .. N PROVE (IF n = 0 THEN m ELSE g[n][it[n - 1]]) = (IF n = 0 THEN m ELSE Step(it[n - 1], n))
    <3>1. n # 0 => n \in 1 .. N /\ n - 1 \in 0 .. N
      OBVIOUS
    <3>2. n # 0 => it[n - 1] \in {m, m1}
      BY <1>1, <1>4, <3>1
    <3> QED BY <3>1, <3>2
  <2> HIDE DEF g
  <2> QED BY <2>1, <2>2
<1>6. Runs(run)
  BY <1>5
<1> HIDE DEF run
<1>7. ASSUME NEW f, Runs(f) PROVE f[N] \in T[N]
  <2>1. f[0] \in T[0]
    BY <1>2, <1>7
  <2>2. ASSUME NEW n \in 1 .. N, f[n - 1] \in T[n - 1] PROVE f[n] \in T[n]
    <3>1. f[n] = Step(f[n - 1], n)
      <4>1. n \in 0 .. N /\ n # 0
        OBVIOUS
      <4> QED BY <1>7, <4>1
    <3> QED BY <1>1, <2>2, <3>1
  <2> HIDE DEF Runs
  <2>3. \A n \in 0 .. N : f[n] \in T[n]
    BY <2>1, <2>2, ChainKeeps
  <2> QED BY <2>3
<1>8. RunEntries(m, here) = run[N]
  BY DEF RunEntries, run, Runs, Step
<1> QED BY <1>2, <1>6, <1>7, <1>8 DEF m1

\* No copies, no change.
LEMMA NoCopies ==
  ASSUME NEW m
  PROVE  RunCopies(m, <<>>) = m
<1> DEFINE Runs(f) == f = [n \in 0 .. 0 |-> IF n = 0 THEN m ELSE Copied(f[n - 1], <<>>[n])]
           run == CHOOSE f : Runs(f)
<1>1. Runs([n \in 0 .. 0 |-> m])
  OBVIOUS
<1>2. Runs(run)
  BY <1>1
<1>3. run[0] = m
  <2> HIDE DEF run
  <2> QED BY <1>2
<1>4. Len(<<>>) = 0
  OBVIOUS
<1>5. RunCopies(m, <<>>) = run[0]
  BY <1>4 DEF RunCopies
<1> QED BY <1>3, <1>5

\* Every entry belongs to one edge, and sits where the edge has a place for it.
LEMMA EntryFacts ==
  ASSUME AllKnown, NEW a, Agrees(a), NEW k \in DOMAIN copies
  PROVE  /\ copies[k].succ \in Blocks(fn) /\ copies[k].slot \in DOMAIN fn.preds[copies[k].succ]
         /\ Entries(a, copies[k].succ, copies[k].slot) = {k} /\ EntryOf(a, copies[k].succ, copies[k].slot) = copies[k]
         /\ ~Misplaced(a, copies[k].succ, copies[k].slot, copies[k])
<1> DEFINE e == copies[k]
           x == <<e.succ, e.slot>>
<1>1. Passed(a) /\ copies = a.copies
  BY DEF Agrees
<1>2. ~BadPhi(a) /\ IsAllocation(a)
  BY <1>1, NothingReported
<1>3. e.succ \in Blocks(fn)
  BY <1>1, <1>2 DEF BadPhi
<1>4. e \in ToSet(a.copies)
  BY <1>1 DEF ToSet
<1>5. e.slot \in DOMAIN fn.preds[e.succ]
  BY <1>2, <1>3, <1>4 DEF IsAllocation
<1>6. a.copies \in Seq([pred : Nat, succ : Nat, slot : Nat, atEnd : BOOLEAN, seq : Seq(Copies)])
  BY <1>2 DEF IsAllocation
<1>7. DOMAIN a.copies \subseteq Nat
  BY <1>6
<1>8. \A n \in DOMAIN a.copies : a.copies[n].succ = e.succ /\ a.copies[n].slot = e.slot => n = k
  <2> TAKE n \in DOMAIN a.copies
  <2>1. n \in Nat /\ k \in Nat /\ k \in DOMAIN a.copies
    BY <1>1, <1>7
  <2>2. ~(n < k) \/ a.copies[n].succ # e.succ \/ a.copies[n].slot # e.slot
    BY <1>1, <1>2, <2>1 DEF BadPhi
  <2>3. ~(k < n) \/ a.copies[n].succ # e.succ \/ a.copies[n].slot # e.slot
    BY <1>1, <1>2, <2>1 DEF BadPhi
  <2> QED BY <2>1, <2>2, <2>3
<1>9. Entries(a, e.succ, e.slot) = {k}
  BY <1>1, <1>8 DEF Entries
<1>10. Min({k}) = k
  <2>1. {k} \subseteq Nat
    BY <1>1, <1>7
  <2> QED BY <2>1, MinFacts
<1>11. EntryOf(a, e.succ, e.slot) = e
  BY <1>1, <1>9, <1>10 DEF EntryOf
<1>12. ~Misplaced(a, e.succ, e.slot, e)
  <2>1. x \in Slotted /\ x[1] = e.succ /\ x[2] = e.slot
    BY <1>3, <1>5 DEF Slotted
  <2>2. Entries(a, x[1], x[2]) # {}
    BY <1>9, <2>1
  <2>3. ~Misplaced(a, x[1], x[2], EntryOf(a, x[1], x[2]))
    BY <1>2, <2>1, <2>2 DEF BadPhi
  <2> QED BY <1>11, <2>1, <2>3
<1> QED BY <1>3, <1>5, <1>9, <1>11, <1>12

\* The code at the end of a block and at the start of its successor is the copies
\* of the edge between them, and no others.
LEMMA EdgeRuns ==
  ASSUME AllKnown, NEW a, Agrees(a), NEW b \in Blocks(fn), NEW i \in DOMAIN fn.succs[b], NEW j, IsSlot(fn, b, i, j), NEW m
  PROVE  RunEntries(RunEntries(m, OutOf(b)), InTo(fn.succs[b][i])) = RunCopies(m, EntryOf(a, fn.succs[b][i], j).seq)
<1> DEFINE s == fn.succs[b][i]
           N == Len(copies)
           H == OutOf(b) \cup InTo(s)
<1>1. IsGraph(fn) /\ Matched(fn)
  BY AnalysedFacts
<1>2. s \in Blocks(fn) /\ j \in DOMAIN fn.preds[s] /\ fn.preds[s][j] = b
  BY <1>1, EdgeTypes
<1>3. copies = a.copies /\ N \in Nat /\ DOMAIN copies = 1 .. N
  <2>1. copies = a.copies /\ IsAllocation(a)
    BY NothingReported DEF Agrees
  <2>2. a.copies \in Seq([pred : Nat, succ : Nat, slot : Nat, atEnd : BOOLEAN, seq : Seq(Copies)])
    BY <2>1 DEF IsAllocation
  <2> QED BY <2>1, <2>2
<1>4. ASSUME NEW k \in OutOf(b) PROVE copies[k].succ = s /\ copies[k].slot = j
  <2>1. k \in DOMAIN copies /\ copies[k].pred = b /\ copies[k].atEnd /\ Len(fn.succs[b]) = 1
    BY DEF OutOf
  <2>2. /\ copies[k].succ \in Blocks(fn) /\ copies[k].slot \in DOMAIN fn.preds[copies[k].succ]
        /\ ~Misplaced(a, copies[k].succ, copies[k].slot, copies[k])
    BY <2>1, EntryFacts
  <2>3. fn.preds[copies[k].succ][copies[k].slot] = b
    BY <2>1, <2>2 DEF Misplaced
  <2>4. PICK n \in DOMAIN fn.succs[b] : fn.succs[b][n] = copies[k].succ /\ IsSlot(fn, b, n, copies[k].slot)
    BY <1>1, <2>2, <2>3 DEF Matched
  <2>5. n = i
    <3>1. DOMAIN fn.succs[b] = 1 .. Len(fn.succs[b])
      BY <1>1, GraphTypes
    <3>2. n \in 1 .. 1 /\ i \in 1 .. 1
      BY <2>1, <2>4, <3>1
    <3> QED BY ONLY <3>2
  <2> DEFINE h == copies[k].slot
  <2>6. IsSlot(fn, b, i, h)
    BY <2>4, <2>5
  <2> HIDE DEF h
  <2>7. j = h
    BY <1>1, <2>6, OneSlot
  <2> QED BY <2>4, <2>5, <2>7 DEF h
<1>5. ASSUME NEW k \in InTo(s) PROVE copies[k].succ = s /\ copies[k].slot = j
  <2>1. k \in DOMAIN copies /\ copies[k].succ = s /\ ~copies[k].atEnd
    BY DEF InTo
  <2>2. copies[k].slot \in DOMAIN fn.preds[s] /\ ~Misplaced(a, s, copies[k].slot, copies[k])
    BY <2>1, EntryFacts
  <2>3. Len(fn.preds[s]) = 1
    BY <2>1, <2>2 DEF Misplaced
  <2>4. DOMAIN fn.preds[s] = {1}
    BY <1>1, <1>2, <2>3, GraphTypes
  <2> QED BY <1>2, <2>1, <2>2, <2>4
<1>6. ASSUME NEW k \in DOMAIN copies, copies[k].succ = s, copies[k].slot = j
      PROVE  IF copies[k].atEnd THEN k \in OutOf(b) /\ k \notin InTo(s) ELSE k \in InTo(s) /\ k \notin OutOf(b)
  <2>1. ~Misplaced(a, s, j, copies[k])
    BY <1>6, EntryFacts
  <2>2. copies[k].pred = b /\ (copies[k].atEnd => Len(fn.succs[b]) = 1)
    BY <1>2, <2>1 DEF Misplaced
  <2> QED BY <1>6, <2>2 DEF OutOf, InTo
<1>7. Entries(a, s, j) = {k \in DOMAIN copies : copies[k].succ = s /\ copies[k].slot = j}
  BY <1>3 DEF Entries
<1> HIDE DEF s, N
<1>8. CASE Entries(a, s, j) = {}
  <2>1. \A k \in 1 .. N : k \notin OutOf(b) /\ k \notin InTo(s)
    BY <1>3, <1>4, <1>5, <1>7, <1>8
  <2>2. N + 1 \in 1 .. N + 1 /\ ~(N + 1 \in 1 .. N)
    BY <1>3
  <2>3. \A here : (\A k \in 1 .. N : k \notin here) => (\A k \in 1 .. N : k \in here <=> k = N + 1)
    BY <1>3
  <2>4. \A x : RunEntries(x, OutOf(b)) = x
    <3> TAKE x
    <3>1. RunEntries(x, OutOf(b)) = IF N + 1 \in 1 .. N THEN RunCopies(x, copies[N + 1].seq) ELSE x
      BY <1>3, <2>1, <2>2, <2>3, EntriesRun DEF N
    <3> QED BY <2>2, <3>1
  <2>5. \A x : RunEntries(x, InTo(s)) = x
    <3> TAKE x
    <3>1. RunEntries(x, InTo(s)) = IF N + 1 \in 1 .. N THEN RunCopies(x, copies[N + 1].seq) ELSE x
      BY <1>3, <2>1, <2>2, <2>3, EntriesRun DEF N
    <3> QED BY <2>2, <3>1
  <2>6. EntryOf(a, s, j).seq = <<>>
    BY <1>8 DEF EntryOf
  <2>7. RunCopies(m, EntryOf(a, s, j).seq) = m
    BY <2>6, NoCopies
  <2> QED BY <2>4, <2>5, <2>7 DEF s
<1>9. CASE Entries(a, s, j) # {}
  <2>1. PICK k0 \in DOMAIN copies : copies[k0].succ = s /\ copies[k0].slot = j
    BY <1>7, <1>9
  <2>2. Entries(a, s, j) = {k0} /\ EntryOf(a, s, j) = copies[k0]
    BY <2>1, EntryFacts
  <2>3. \A k \in 1 .. N : copies[k].succ = s /\ copies[k].slot = j => k = k0
    BY <1>3, <1>7, <2>2
  <2>4. k0 \in 1 .. N /\ k0 \in 1 .. N + 1 /\ N + 1 \in 1 .. N + 1 /\ ~(N + 1 \in 1 .. N)
    BY <1>3, <2>1
  <2>5. CASE copies[k0].atEnd
    <3>1. k0 \in OutOf(b) /\ k0 \notin InTo(s)
      BY <1>6, <2>1, <2>5
    <3>2. \A k \in 1 .. N : k \in OutOf(b) <=> k = k0
      BY <1>4, <2>3, <3>1
    <3>3. \A k \in 1 .. N : k \in InTo(s) <=> k = N + 1
      BY <1>3, <1>5, <2>3, <3>1
    <3>4. RunEntries(m, OutOf(b)) = IF k0 \in 1 .. N THEN RunCopies(m, copies[k0].seq) ELSE m
      BY <1>3, <2>4, <3>2, EntriesRun DEF N
    <3>5. \A x : RunEntries(x, InTo(s)) = x
      <4> TAKE x
      <4>1. RunEntries(x, InTo(s)) = IF N + 1 \in 1 .. N THEN RunCopies(x, copies[N + 1].seq) ELSE x
        BY <1>3, <2>4, <3>3, EntriesRun DEF N
      <4> QED BY <2>4, <4>1
    <3> QED BY <2>2, <2>4, <3>4, <3>5 DEF s
  <2>6. CASE ~copies[k0].atEnd
    <3>1. k0 \in InTo(s) /\ k0 \notin OutOf(b)
      BY <1>6, <2>1, <2>6
    <3>2. \A k \in 1 .. N : k \in InTo(s) <=> k = k0
      BY <1>5, <2>3, <3>1
    <3>3. \A k \in 1 .. N : k \in OutOf(b) <=> k = N + 1
      BY <1>3, <1>4, <2>3, <3>1
    <3>4. RunEntries(m, InTo(s)) = IF k0 \in 1 .. N THEN RunCopies(m, copies[k0].seq) ELSE m
      BY <1>3, <2>4, <3>2, EntriesRun DEF N
    <3>5. RunEntries(m, OutOf(b)) = IF N + 1 \in 1 .. N THEN RunCopies(m, copies[N + 1].seq) ELSE m
      BY <1>3, <2>4, <3>3, EntriesRun DEF N
    <3> QED BY <2>2, <2>4, <3>4, <3>5 DEF s
  <2> QED BY <2>5, <2>6
<1> QED BY <1>8, <1>9

\* A phi of a block is a value of it, and has an operand for every edge.
LEMMA PhiPlace ==
  ASSUME AllKnown, NEW s \in Blocks(fn), NEW p \in Phis(fn, s)
  PROVE  /\ p \in Tracked(fn) /\ fn.op[p] = "phi" /\ \E i \in DOMAIN fn.vals[s] : fn.vals[s][i] = p
         /\ \A j \in DOMAIN fn.preds[s] : fn.args[p][j] \in Tracked(fn) \cup Remats(fn)
<1>1. IsFunction(fn) /\ IsGraph(fn)
  BY AnalysedFacts
<1>2. PICK i \in DOMAIN fn.vals[s] : p = fn.vals[s][i] /\ \A k \in 1 .. i : fn.op[fn.vals[s][k]] = "phi"
  BY DEF Phis
<1>3. i \in Nat /\ i >= 1
  BY PlaceFacts, <1>1, FunctionFacts
<1>4. fn.op[fn.vals[s][i]] = "phi"
  BY <1>2, <1>3
<1>5. /\ p \in Tracked(fn) /\ Len(fn.args[p]) = Len(fn.preds[s]) /\ ToSet(fn.args[p]) \subseteq Tracked(fn) \cup Remats(fn)
  BY <1>2, <1>4, PhiFacts
<1>6. p \in Ids
  BY <1>2, PlaceFacts
<1>7. DOMAIN fn.args[p] = 1 .. Len(fn.args[p])
  BY <1>1, <1>6, FunctionFacts
<1>8. DOMAIN fn.preds[s] = 1 .. Len(fn.preds[s])
  BY <1>1, GraphTypes
<1>9. \A j \in DOMAIN fn.preds[s] : fn.args[p][j] \in ToSet(fn.args[p])
  BY <1>5, <1>7, <1>8 DEF ToSet
<1> QED BY <1>2, <1>4, <1>5, <1>9

\* What a copy of an edge may be.
CopyOf(a, s, c) == /\ c \in Copies /\ c.dst \in ScratchRegs \cup {Home(a, p) : p \in Phis(fn, s)}
                   /\ c.src = NoReg => c.val \in Remats(fn)
                   /\ c.dst # Scratch[2] /\ c.src # Scratch[2]

\* The copies of an edge whose allocation nothing is reported of.
LEMMA CopyFacts ==
  ASSUME AllKnown, NEW a, Agrees(a), NEW s \in Blocks(fn), NEW j \in DOMAIN fn.preds[s]
  PROVE  LET seq == EntryOf(a, s, j).seq
         IN  /\ Len(seq) \in Nat /\ \A n \in 1 .. Len(seq) : CopyOf(a, s, seq[n])
             /\ Phis(fn, s) = {} => seq = <<>>
<1> DEFINE e == EntryOf(a, s, j)
<1>1. CASE Entries(a, s, j) = {}
  <2>1. e.seq = <<>>
    BY <1>1 DEF EntryOf
  <2>2. Len(<<>>) = 0 /\ 1 .. 0 = {}
    OBVIOUS
  <2> QED BY <2>1, <2>2
<1>2. CASE Entries(a, s, j) # {}
  <2>1. copies = a.copies /\ IsAllocation(a)
    BY NothingReported DEF Agrees
  <2>2. PICK k \in DOMAIN copies : copies[k].succ = s /\ copies[k].slot = j
    BY <1>2, <2>1 DEF Entries
  <2>3. e = copies[k] /\ ~Misplaced(a, s, j, copies[k])
    BY <2>2, EntryFacts
  <2>4. a.copies \in Seq([pred : Nat, succ : Nat, slot : Nat, atEnd : BOOLEAN, seq : Seq(Copies)])
    BY <2>1 DEF IsAllocation
  <2> DEFINE R == [pred : Nat, succ : Nat, slot : Nat, atEnd : BOOLEAN, seq : Seq(Copies)]
  <2>5. e.seq \in Seq(Copies)
    <3>1. \A x \in R : x.seq \in Seq(Copies)
      OBVIOUS
    <3>3. a.copies \in Seq(R)
      BY <2>4
    <3> HIDE DEF R
    <3>2. copies[k] \in R
      BY <2>1, <2>2, <3>3
    <3> QED BY <2>3, <3>1, <3>2
  <2>6. e \in ToSet(a.copies)
    BY <2>1, <2>2, <2>3 DEF ToSet
  <2>7. \A c \in ToSet(e.seq) : /\ c.src = NoReg => c.val \in Remats(fn)
                                /\ Scratch[2] \notin {c.dst, c.src}
    BY <2>1, <2>6 DEF IsAllocation
  <2>8. Phis(fn, s) \subseteq Tracked(fn)
    BY PhiPlace
  <2>9. \A n \in DOMAIN e.seq : e.seq[n].dst \in ScratchRegs \cup {Home(a, p) : p \in Phis(fn, s)}
    BY <2>3, <2>8 DEF Misplaced
  <2>10. Phis(fn, s) = {} => e.seq = <<>>
    BY <2>3 DEF Misplaced
  <2> HIDE DEF e
  <2>11. Len(e.seq) \in Nat /\ DOMAIN e.seq = 1 .. Len(e.seq)
    BY <2>5
  <2>12. ASSUME NEW n \in 1 .. Len(e.seq) PROVE CopyOf(a, s, e.seq[n])
    <3>1. e.seq[n] \in Copies /\ e.seq[n] \in ToSet(e.seq)
      BY <2>5, <2>11 DEF ToSet
    <3>2. e.seq[n].dst \in ScratchRegs \cup {Home(a, p) : p \in Phis(fn, s)}
      BY <2>9, <2>11
    <3> QED BY <2>7, <3>1, <3>2 DEF CopyOf
  <2> QED BY <2>10, <2>11, <2>12 DEF e
<1> QED BY <1>1, <1>2

\* The replay of an edge, copy by copy; nothing that it finds wrong is forgotten.
IsReplay(a, s, j, rp) ==
  LET seq == EntryOf(a, s, j).seq
  IN  /\ rp[0] = [m |-> BeforeCopies(a, s, j), ok |-> TRUE]
      /\ \A n \in 1 .. Len(seq) : rp[n] = Replayed(rp[n - 1], seq[n])
      /\ \A n \in 0 .. Len(seq) : rp[n] \in [m : [Cells -> Ids \cup {NoId}], ok : BOOLEAN]
      /\ Replay(a, s, j) = rp[Len(seq)]
      /\ rp[Len(seq)].ok => \A n \in 0 .. Len(seq) : rp[n].ok

\* There is such a replay.
LEMMA ReplayRuns ==
  ASSUME AllKnown, NEW a, Agrees(a), NEW s \in Blocks(fn), NEW j \in DOMAIN fn.preds[s]
  PROVE  \E rp : IsReplay(a, s, j, rp)
<1> DEFINE seq == EntryOf(a, s, j).seq
           N == Len(seq)
           S == [m : [Cells -> Ids \cup {NoId}], ok : BOOLEAN]
           st0 == [m |-> BeforeCopies(a, s, j), ok |-> TRUE]
           T == [n \in 0 .. N |-> S]
           g == [n \in 1 .. N |-> [x \in S |-> Replayed(x, seq[n])]]
           Runs(f) == f = [n \in 0 .. N |-> IF n = 0 THEN st0 ELSE Replayed(f[n - 1], seq[n])]
           run == CHOOSE f : Runs(f)
<1>1. N \in Nat /\ \A n \in 1 .. N : CopyOf(a, s, seq[n])
  BY CopyFacts
<1>2. CellsOf(a.slots) = Cells
  BY DEF Agrees, Cells
<1>3. st0 \in S
  <2>1. \A l \in Cells : BeforeCopies(a, s, j)[l] \in Ids \cup {NoId}
    <3> TAKE l \in Cells
    <3> DEFINE here == {v \in Arriving(s, j) \cap Tracked(fn) : Home(a, v) = l}
    <3>1. BeforeCopies(a, s, j)[l] = IF here = {} THEN NoId ELSE CHOOSE v \in here : TRUE
      BY <1>2 DEF BeforeCopies
    <3>2. here \subseteq Ids
      BY AnalysedFacts
    <3>3. here # {} => (CHOOSE v \in here : TRUE) \in here
      OBVIOUS
    <3> HIDE DEF here
    <3> QED BY <3>1, <3>2, <3>3
  <2>2. BeforeCopies(a, s, j) = [l \in Cells |-> BeforeCopies(a, s, j)[l]]
    BY <1>2 DEF BeforeCopies
  <2>3. BeforeCopies(a, s, j) \in [Cells -> Ids \cup {NoId}]
    BY <2>1, <2>2
  <2> QED BY <2>3
<1>4. ASSUME NEW n \in 1 .. N, NEW x \in S PROVE Replayed(x, seq[n]) \in S
  <2> DEFINE c == seq[n]
             w == IF c.src = NoReg THEN c.val ELSE Known(x.m, c.src)
  <2>1. c.val \in Ids
    BY <1>1 DEF CopyOf, Copies
  <2>2. w \in Ids \cup {NoId}
    BY <2>1 DEF Known
  <2>3. [x.m EXCEPT ![c.dst] = w] \in [Cells -> Ids \cup {NoId}]
    BY <2>2
  <2>4. Replayed(x, c) = [m |-> [x.m EXCEPT ![c.dst] = w], ok |-> x.ok /\ (c.src = NoReg \/ Known(x.m, c.src) = c.val)]
    BY DEF Replayed
  <2>5. (x.ok /\ (c.src = NoReg \/ Known(x.m, c.src) = c.val)) \in BOOLEAN
    OBVIOUS
  <2> HIDE DEF c, w
  <2> QED BY <2>3, <2>4, <2>5 DEF c
<1> HIDE DEF seq, N, S, st0
<1>5. Chained(T, N, st0, g)
  BY <1>1, <1>3, <1>4 DEF Chained
<1>6. PICK it : ChainOf(it, N, st0, g) /\ \A n \in 0 .. N : it[n] \in T[n]
  BY <1>5, ChainExists
<1>7. Runs(it)
  <2>1. it = [n \in 0 .. N |-> IF n = 0 THEN st0 ELSE g[n][it[n - 1]]]
    BY <1>6 DEF ChainOf
  <2>2. ASSUME NEW n \in 0 .. N PROVE (IF n = 0 THEN st0 ELSE g[n][it[n - 1]]) = (IF n = 0 THEN st0 ELSE Replayed(it[n - 1], seq[n]))
    <3>1. n # 0 => n \in 1 .. N /\ n - 1 \in 0 .. N
      BY <1>1
    <3>2. n # 0 => it[n - 1] \in S
      BY <1>6, <3>1
    <3> QED BY <3>1, <3>2
  <2> HIDE DEF g
  <2> QED BY <2>1, <2>2
<1>8. Runs(run)
  BY <1>7
<1> HIDE DEF run
<1>9. run[0] = st0 /\ \A n \in 1 .. N : run[n] = Replayed(run[n - 1], seq[n])
  <2>1. 0 \in 0 .. N /\ \A n \in 1 .. N : n \in 0 .. N /\ n # 0
    BY <1>1
  <2> QED BY <1>8, <2>1
<1> HIDE DEF Runs
<1>10. \A n \in 0 .. N : run[n] \in T[n]
  <2>1. run[0] \in T[0] /\ \A n \in 1 .. N : run[n - 1] \in T[n - 1] => run[n] \in T[n]
    <3>1. T[0] = S /\ \A n \in 1 .. N : T[n] = S /\ T[n - 1] = S
      BY <1>1
    <3> HIDE DEF T
    <3> QED BY <1>3, <1>4, <1>9, <3>1
  <2> QED BY <1>1, <2>1, ChainKeeps
<1>11. \A n \in 0 .. N : run[n] \in S
  BY <1>10
<1>12. ASSUME run[N].ok PROVE \A n \in 0 .. N : run[n].ok
  <2> DEFINE back == [n \in 0 .. N |-> IF run[N - n].ok THEN 1 ELSE 0]
             U == [n \in 0 .. N |-> {1}]
  <2>2. back[0] = 1
    <3>1. N - 0 = N /\ 0 \in 0 .. N /\ N \in 0 .. N
      BY <1>1
    <3> QED BY <1>12, <3>1
  <2>3. ASSUME NEW n \in 1 .. N, back[n - 1] = 1 PROVE back[n] = 1
    <3>1. n - 1 \in 0 .. N /\ n \in 0 .. N /\ N - n \in 0 .. N /\ N - (n - 1) \in 1 .. N /\ (N - (n - 1)) - 1 = N - n
      BY <1>1
    <3> DEFINE k == N - (n - 1)
    <3>2. run[k].ok
      BY <2>3, <3>1
    <3>3. run[k] = Replayed(run[k - 1], seq[k])
      BY <1>9, <3>1
    <3> HIDE DEF k
    <3>4. run[k - 1].ok
      <4>1. Replayed(run[k - 1], seq[k]).ok = (run[k - 1].ok /\ (seq[k].src = NoReg \/ Known(run[k - 1].m, seq[k].src) = seq[k].val))
        BY DEF Replayed
      <4> QED BY <3>2, <3>3, <4>1
    <3>5. k - 1 = N - n
      BY <3>1 DEF k
    <3>6. run[N - n].ok
      BY <3>4, <3>5
    <3> QED BY <3>1, <3>6
  <2>4. back[0] \in U[0] /\ \A n \in 1 .. N : back[n - 1] \in U[n - 1] => back[n] \in U[n]
    <3>1. U[0] = {1} /\ \A n \in 1 .. N : U[n] = {1} /\ U[n - 1] = {1}
      BY ONLY <1>1
    <3> HIDE DEF U, back
    <3> QED BY <2>2, <2>3, <3>1
  <2>5. \A n \in 0 .. N : back[n] \in U[n]
    <3> HIDE DEF U, back
    <3> QED BY <1>1, <2>4, ChainKeeps
  <2>6. ASSUME NEW n \in 0 .. N PROVE run[n].ok
    <3>1. N - n \in 0 .. N /\ N - (N - n) = n
      BY <1>1
    <3>2. back[N - n] = 1
      BY <2>5, <3>1
    <3> QED BY <3>1, <3>2
  <2> QED BY <2>6
<1>13. Replay(a, s, j) = run[N]
  BY DEF Replay, run, Runs, N, seq, st0
<1>14. IsReplay(a, s, j, run)
  BY <1>9, <1>11, <1>12, <1>13 DEF IsReplay, N, seq, S, st0
<1> QED BY <1>14

\* The record k of a replay holds of the machine x: what it names is there.
Holds(m, x, k) == k[Scratch[2]] = NoId /\ \A l \in Cells : k[l] # NoId => x[l] = Fetch(m, k[l])

\* What the record holds after a copy.
Recorded(k, c) == [k EXCEPT ![c.dst] = IF c.src = NoReg THEN c.val ELSE Known(k, c.src)]

\* One copy that the replay finds right.
LEMMA CopyHolds ==
  ASSUME AllKnown, NEW a, Agrees(a), NEW s \in Blocks(fn), NEW c, CopyOf(a, s, c),
         NEW V, NEW m, NEW x \in [Cells -> V], NEW k \in [Cells -> Ids \cup {NoId}],
         \A u \in Remats(fn) : Term(u) \in V, Holds(m, x, k), c.src = NoReg \/ Known(k, c.src) = c.val
  PROVE  /\ Copied(x, c) \in [Cells -> V]
         /\ Holds(m, Copied(x, c), Recorded(k, c))
         /\ \A l \in Cells \ ScratchRegs : (\A p \in Phis(fn, s) : l # Home(a, p)) => Copied(x, c)[l] = x[l]
<1> DEFINE d == c.dst
           q == c.src
           w == c.val
           t == Scratch[2]
           y == Copied(x, c)
           k2 == Recorded(k, c)
           w2 == IF q = NoReg THEN Term(w) ELSE x[q]
<1>1. w \in Ids /\ d \in ScratchRegs \cup {Home(a, p) : p \in Phis(fn, s)} /\ (q = NoReg => w \in Remats(fn)) /\ d # t /\ q # t
  BY DEF CopyOf, Copies
<1>2. ScratchRegs \subseteq Cells /\ t \in ScratchRegs /\ NoReg \notin Cells
  <2>1. ScratchRegs \subseteq Cells
    BY DEF Cells, CellsOf
  <2>2. t \in ScratchRegs
    BY MachineAssumption DEF ScratchRegs, ToSet
  <2>3. slots = a.slots /\ IsAllocation(a)
    BY NothingReported DEF Agrees
  <2>4. NoReg \notin {SlotLoc(i) : i \in DOMAIN slots}
    <3>1. a.slots \in Seq(SUBSET Ids)
      BY <2>3 DEF IsAllocation
    <3>2. \A i \in DOMAIN slots : i \in Nat /\ i >= 1
      BY <2>3, <3>1
    <3> QED BY <3>2, SlotFacts
  <2>5. NoReg \notin Regs \cup ScratchRegs
    BY MachineAssumption, RegsAssumption DEF ScratchRegs, ToSet
  <2> QED BY <2>1, <2>2, <2>4, <2>5 DEF Cells, CellsOf
<1>3. \A p \in Phis(fn, s) : Home(a, p) \in Cells /\ Home(a, p) \notin ScratchRegs
  BY PhiPlace, LocFacts
<1>4. d \in Cells
  BY <1>1, <1>2, <1>3
<1>5. q # NoReg => q \in Cells /\ k[q] = w /\ Known(k, q) = w
  <2> SUFFICES ASSUME q # NoReg PROVE q \in Cells /\ k[q] = w /\ Known(k, q) = w
    OBVIOUS
  <2>1. Known(k, q) = w
    OBVIOUS
  <2>2. w # NoId /\ DOMAIN k = Cells
    BY <1>1, IdsAssumption
  <2> QED BY <2>1, <2>2 DEF Known
<1>6. w2 \in V /\ w2 = Fetch(m, w)
  <2>1. CASE q = NoReg
    BY <1>1, <2>1 DEF Fetch
  <2>2. CASE q # NoReg
    <3>1. w # NoId /\ q \in Cells /\ k[q] = w
      BY <1>1, <1>5, <2>2, IdsAssumption
    <3>2. x[q] = Fetch(m, w) /\ x[q] \in V
      BY <3>1 DEF Holds
    <3> QED BY <2>2, <3>2
  <2> QED BY <2>1, <2>2
<1>7. k2 = [k EXCEPT ![d] = w]
  BY <1>5 DEF Recorded
<1>8. y = IF d = q THEN x ELSE IF d \notin Regs \cup ScratchRegs /\ q \notin Regs \cup ScratchRegs
                              THEN [x EXCEPT ![t] = w2, ![d] = w2] ELSE [x EXCEPT ![d] = w2]
  BY DEF Copied
<1>9. d = q => x[d] = w2 /\ q # NoReg
  BY <1>2, <1>4
<1> HIDE DEF d, q, w, t, y, k2, w2
<1>10. y \in [Cells -> V] /\ y[d] = w2 /\ \A l \in Cells : l # d /\ l # t => y[l] = x[l]
  <2>1. CASE d = q
    BY <1>4, <1>6, <1>8, <1>9, <2>1
  <2>2. CASE d # q /\ d \notin Regs \cup ScratchRegs /\ q \notin Regs \cup ScratchRegs
    <3>1. y = [x EXCEPT ![t] = w2, ![d] = w2]
      BY <1>8, <2>2
    <3> QED BY <1>1, <1>2, <1>4, <1>6, <3>1
  <2>3. CASE d # q /\ ~(d \notin Regs \cup ScratchRegs /\ q \notin Regs \cup ScratchRegs)
    <3>1. y = [x EXCEPT ![d] = w2]
      BY <1>8, <2>3
    <3> QED BY <1>4, <1>6, <3>1
  <2> QED BY <2>1, <2>2, <2>3
<1>11. k2 \in [Cells -> Ids \cup {NoId}] /\ k2[d] = w /\ \A l \in Cells : l # d => k2[l] = k[l]
  BY <1>1, <1>4, <1>7
<1>12. Holds(m, y, k2)
  <2>1. k2[t] = NoId
    BY <1>1, <1>2, <1>11 DEF Holds, t
  <2>2. ASSUME NEW l \in Cells, k2[l] # NoId PROVE y[l] = Fetch(m, k2[l])
    <3>1. l # t
      BY <2>1, <2>2
    <3>2. CASE l = d
      BY <1>6, <1>10, <1>11, <3>2
    <3>3. CASE l # d
      <4>1. k2[l] = k[l] /\ y[l] = x[l]
        BY <1>10, <1>11, <3>1, <3>3
      <4> QED BY <2>2, <4>1 DEF Holds
    <3> QED BY <3>2, <3>3
  <2> QED BY <2>1, <2>2 DEF Holds, t
<1>13. \A l \in Cells \ ScratchRegs : (\A p \in Phis(fn, s) : l # Home(a, p)) => y[l] = x[l]
  <2> SUFFICES ASSUME NEW l \in Cells \ ScratchRegs, \A p \in Phis(fn, s) : l # Home(a, p) PROVE y[l] = x[l]
    OBVIOUS
  <2>1. l # d /\ l # t
    BY <1>1, <1>2
  <2> QED BY <1>10, <2>1
<1> QED BY <1>10, <1>12, <1>13 DEF y, k2, d, q, w

\* What is known before the copies are made is so.
LEMMA ArrivedHolds ==
  ASSUME AllKnown, NEW a, Agrees(a), NEW s \in Blocks(fn), NEW j \in DOMAIN fn.preds[s], NEW m
  PROVE  Holds(m, m, BeforeCopies(a, s, j))
<1> DEFINE here(l) == {v \in Arriving(s, j) \cap Tracked(fn) : Home(a, v) = l}
<1>1. CellsOf(a.slots) = Cells /\ ScratchRegs \subseteq Cells /\ Scratch[2] \in ScratchRegs
  <2>1. Scratch[2] \in ScratchRegs
    BY MachineAssumption DEF ScratchRegs, ToSet
  <2> QED BY <2>1 DEF Agrees, Cells, CellsOf
<1>2. \A l \in Cells : BeforeCopies(a, s, j)[l] = IF here(l) = {} THEN NoId ELSE CHOOSE v \in here(l) : TRUE
  BY <1>1 DEF BeforeCopies
<1>3. here(Scratch[2]) = {}
  BY <1>1, LocFacts
<1>4. ASSUME NEW l \in Cells, BeforeCopies(a, s, j)[l] # NoId PROVE m[l] = Fetch(m, BeforeCopies(a, s, j)[l])
  <2> DEFINE v == CHOOSE u \in here(l) : TRUE
  <2>1. here(l) # {} /\ BeforeCopies(a, s, j)[l] = v
    BY <1>2, <1>4
  <2>2. v \in here(l)
    BY <2>1
  <2> HIDE DEF v
  <2>3. v \in Tracked(fn) /\ loc[v] = l /\ v \notin Remats(fn)
    BY <2>2, LocFacts
  <2> QED BY <2>1, <2>3 DEF Fetch
<1> QED BY <1>1, <1>2, <1>3, <1>4 DEF Holds

\* y is m after the edge into slot j of s: every phi has its operand, and the other
\* homes are as they were.
Moved(m, y, s, j) == /\ IsMemory(y)
                     /\ \A p \in Phis(fn, s) : y[loc[p]] = Fetch(m, fn.args[p][j])
                     /\ \A l \in Cells \ ScratchRegs : (\A p \in Phis(fn, s) : l # loc[p]) => y[l] = m[l]

\* An edge whose replay is not reported gives every phi its operand of that edge,
\* as it was before the copies, and leaves the other homes alone.
LEMMA EdgeMoves ==
  ASSUME AllKnown, NEW a, Agrees(a), NEW s \in Blocks(fn), NEW j \in DOMAIN fn.preds[s], NEW m, IsMemory(m)
  PROVE  Moved(m, RunCopies(m, EntryOf(a, s, j).seq), s, j)
<1> DEFINE seq == EntryOf(a, s, j).seq
           y == RunCopies(m, seq)
<1>1. \A p \in Phis(fn, s) : loc[p] = Home(a, p) /\ loc[p] \in Cells /\ p \in Tracked(fn)
  BY PhiPlace, LocFacts
<1>2. CASE Phis(fn, s) = {}
  <2>1. y = m
    BY <1>2, CopyFacts, NoCopies
  <2> HIDE DEF y
  <2> QED BY <1>2, <2>1 DEF y, Moved
<1>3. CASE Phis(fn, s) # {}
  <2> DEFINE N == Len(seq)
             V == {m[l] : l \in Cells} \cup {Term(u) : u \in Ids}
             M == [Cells -> V]
  <2>1. N \in Nat /\ \A n \in 1 .. N : CopyOf(a, s, seq[n])
    BY CopyFacts
  <2>2. PICK rp : IsReplay(a, s, j, rp)
    BY ReplayRuns
  <2>3. /\ rp[0] = [m |-> BeforeCopies(a, s, j), ok |-> TRUE]
        /\ \A n \in 1 .. N : rp[n] = Replayed(rp[n - 1], seq[n])
        /\ \A n \in 0 .. N : rp[n] \in [m : [Cells -> Ids \cup {NoId}], ok : BOOLEAN]
        /\ Replay(a, s, j) = rp[N]
        /\ rp[N].ok => \A n \in 0 .. N : rp[n].ok
    BY <2>2 DEF IsReplay
  <2>4. rp[N].ok /\ \A p \in Phis(fn, s) : fn.args[p][j] \in Tracked(fn) \cup Remats(fn) => Known(rp[N].m, Home(a, p)) = fn.args[p][j]
    <3> DEFINE z == <<s, j>>
    <3>1. z \in Slotted /\ z[1] = s /\ z[2] = j
      BY DEF Slotted
    <3>2. ~BadEdge(a)
      BY NothingReported DEF Agrees
    <3>3. Phis(fn, z[1]) \cap Tracked(fn) # {}
      BY <1>1, <1>3, <3>1
    <3> HIDE DEF z
    <3>4. ~(~Replay(a, z[1], z[2]).ok
            \/ \E phi \in Phis(fn, z[1]) : /\ fn.args[phi][z[2]] \in Tracked(fn) \cup Remats(fn)
                                           /\ Known(Replay(a, z[1], z[2]).m, Home(a, phi)) # fn.args[phi][z[2]])
      BY <3>1, <3>2, <3>3 DEF BadEdge
    <3> QED BY <2>3, <3>1, <3>4
  <2>5. m \in M /\ \A u \in Remats(fn) : Term(u) \in V
    <3>1. Remats(fn) \subseteq Ids
      BY AnalysedFacts, FunctionFacts
    <3> QED BY <3>1 DEF IsMemory
  <2> DEFINE Same(x) == \A l \in Cells \ ScratchRegs : (\A p \in Phis(fn, s) : l # Home(a, p)) => x[l] = m[l]
             T == [n \in 0 .. N |-> {x \in M : Holds(m, x, rp[n].m) /\ Same(x)}]
             g == [n \in 1 .. N |-> [x \in M |-> Copied(x, seq[n])]]
             Runs(f) == f = [n \in 0 .. N |-> IF n = 0 THEN m ELSE Copied(f[n - 1], seq[n])]
             run == CHOOSE f : Runs(f)
  <2> HIDE DEF seq, N, V
  <2>6. ASSUME NEW n \in 1 .. N, NEW x \in M, Holds(m, x, rp[n - 1].m), Same(x)
        PROVE  LET z == Copied(x, seq[n]) IN z \in M /\ Holds(m, z, rp[n].m) /\ Same(z)
    <3> DEFINE c == seq[n]
               k == rp[n - 1].m
               k2 == Recorded(k, c)
               z == Copied(x, c)
    <3>1. n - 1 \in 0 .. N /\ n \in 0 .. N
      BY <2>1
    <3>2. rp[n] = Replayed(rp[n - 1], c) /\ rp[n].ok
      BY <2>3, <2>4, <3>1
    <3>3. k \in [Cells -> Ids \cup {NoId}]
      BY <2>3, <3>1
    <3>4. rp[n].m = k2
      <4>1. Replayed(rp[n - 1], c).m = k2
        BY DEF Replayed, Recorded
      <4> QED BY <3>2, <4>1
    <3>5. c.src = NoReg \/ Known(k, c.src) = c.val
      <4>1. Replayed(rp[n - 1], c).ok = (rp[n - 1].ok /\ (c.src = NoReg \/ Known(k, c.src) = c.val))
        BY DEF Replayed
      <4> QED BY <3>2, <4>1
    <3>6. CopyOf(a, s, c) /\ Holds(m, x, k)
      BY <2>1, <2>6
    <3> HIDE DEF c, k
    <3>7. z \in M /\ Holds(m, z, k2) /\ \A l \in Cells \ ScratchRegs : (\A p \in Phis(fn, s) : l # Home(a, p)) => z[l] = x[l]
      BY <2>5, <3>3, <3>5, <3>6, CopyHolds
    <3> HIDE DEF z, k2
    <3>8. Same(z)
      BY <2>6, <3>7
    <3> QED BY <3>4, <3>7, <3>8 DEF z, c
  <2>7. m \in T[0]
    <3>1. Holds(m, m, rp[0].m)
      BY <2>3, ArrivedHolds
    <3>2. Same(m)
      OBVIOUS
    <3>3. 0 \in 0 .. N
      BY <2>1
    <3> HIDE DEF Same, M
    <3> QED BY <2>5, <3>1, <3>2, <3>3
  <2>8. ASSUME NEW n \in 1 .. N, NEW x \in T[n - 1] PROVE x \in M /\ Copied(x, seq[n]) \in T[n]
    <3>1. n - 1 \in 0 .. N /\ n \in 0 .. N
      BY <2>1
    <3> HIDE DEF Same, M
    <3>2. x \in M /\ Holds(m, x, rp[n - 1].m) /\ Same(x)
      BY <3>1
    <3>3. Copied(x, seq[n]) \in M /\ Holds(m, Copied(x, seq[n]), rp[n].m) /\ Same(Copied(x, seq[n]))
      BY <2>6, <3>2
    <3> QED BY <3>1, <3>2, <3>3
  <2>9. T[N] = {x \in M : Holds(m, x, rp[N].m) /\ Same(x)}
    BY <2>1
  <2> HIDE DEF T, Same, M
  <2>10. Chained(T, N, m, g)
    BY <2>1, <2>7, <2>8 DEF Chained
  <2>11. PICK it : ChainOf(it, N, m, g) /\ \A n \in 0 .. N : it[n] \in T[n]
    BY <2>10, ChainExists
  <2>12. Runs(it)
    <3>1. it = [n \in 0 .. N |-> IF n = 0 THEN m ELSE g[n][it[n - 1]]]
      BY <2>11 DEF ChainOf
    <3>2. ASSUME NEW n \in 0 .. N PROVE (IF n = 0 THEN m ELSE g[n][it[n - 1]]) = (IF n = 0 THEN m ELSE Copied(it[n - 1], seq[n]))
      <4>1. n # 0 => n \in 1 .. N /\ n - 1 \in 0 .. N
        BY <2>1
      <4>2. n # 0 => it[n - 1] \in M
        BY <2>8, <2>11, <4>1
      <4> QED BY <4>1, <4>2
    <3> HIDE DEF g
    <3> QED BY <3>1, <3>2
  <2>13. Runs(run)
    BY <2>12
  <2> HIDE DEF run
  <2>14. run[N] \in T[N]
    <3>1. run[0] = m /\ \A n \in 1 .. N : run[n] = Copied(run[n - 1], seq[n])
      <4>1. 0 \in 0 .. N /\ \A n \in 1 .. N : n \in 0 .. N /\ n # 0
        BY <2>1
      <4> QED BY <2>13, <4>1
    <3> HIDE DEF Runs
    <3>2. run[0] \in T[0] /\ \A n \in 1 .. N : run[n - 1] \in T[n - 1] => run[n] \in T[n]
      BY <2>7, <2>8, <3>1
    <3>3. \A n \in 0 .. N : run[n] \in T[n]
      BY <2>1, <3>2, ChainKeeps
    <3> QED BY <2>1, <3>3
  <2>15. y = run[N]
    BY DEF RunCopies, run, Runs, N, seq
  <2> HIDE DEF y
  <2>16. y \in M /\ Holds(m, y, rp[N].m) /\ Same(y)
    BY <2>9, <2>14, <2>15
  <2>17. IsMemory(y)
    BY <2>16 DEF M, IsMemory
  <2>18. ASSUME NEW p \in Phis(fn, s) PROVE y[loc[p]] = Fetch(m, fn.args[p][j])
    <3>1. fn.args[p][j] \in Tracked(fn) \cup Remats(fn)
      BY PhiPlace
    <3>2. Known(rp[N].m, loc[p]) = fn.args[p][j]
      BY <1>1, <2>4, <3>1
    <3>3. fn.args[p][j] # NoId
      <4>1. Tracked(fn) \subseteq Ids /\ Remats(fn) \subseteq Ids
        BY AnalysedFacts, FunctionFacts
      <4> QED BY <3>1, <4>1, IdsAssumption
    <3>4. N \in 0 .. N /\ rp[N].m \in [Cells -> Ids \cup {NoId}]
      BY <2>1, <2>3
    <3>5. rp[N].m[loc[p]] = fn.args[p][j]
      BY <1>1, <3>2, <3>4 DEF Known
    <3> QED BY <1>1, <2>16, <3>3, <3>5 DEF Holds
  <2> QED BY <1>1, <2>16, <2>17, <2>18 DEF y, seq, Same, Moved
<1> QED BY <1>2, <1>3

-----------------------------------------------------------------------------
(* Across an edge *)

\* The results once the edge into slot j of s is taken.
Carried(e, s, j) == [v \in Ids |-> IF v \in Phis(fn, s) THEN e[fn.args[v][j]] ELSE e[v]]

\* What is live after the edge is in its home before it, and what the phis take
\* can be fetched: as it was before the edge, and as the phis' own results.
Leaving(m, e, s, j)  == /\ \A u \in LiveAt(fn, s, 1) : m[loc[u]] = e[u]
                        /\ \A p \in Phis(fn, s) : Fetch(m, fn.args[p][j]) = e[fn.args[p][j]]
Crosses(m, e, s, j)  == /\ \A u \in LiveAt(fn, s, 1) : m[loc[u]] = e[u]
                        /\ \A p \in Phis(fn, s) : Fetch(m, fn.args[p][j]) = e[p]

\* The end of a block: what is live after any of its edges is live there.
LEMMA EdgeLeaves ==
  ASSUME AllKnown, NEW a, Agrees(a), NEW b \in Blocks(fn), NEW i \in DOMAIN fn.succs[b], NEW j, IsSlot(fn, b, i, j),
         NEW k, k = Len(fn.vals[b]) + 1 \/ (k \in DOMAIN fn.vals[b] /\ fn.op[fn.vals[b][k]] = "branch"),
         NEW m, NEW e, Regular(m, e), HomedIn(m, e, b, k)
  PROVE  Leaving(m, e, fn.succs[b][i], j)
<1> DEFINE s == fn.succs[b][i]
           N == Len(fn.vals[b])
<1>1. IsGraph(fn) /\ FlowGraph(fn) /\ Matched(fn) /\ IsFunction(fn)
  BY AnalysedFacts
<1>2. s \in Blocks(fn) /\ j \in DOMAIN fn.preds[s] /\ fn.preds[s][j] = b
  BY <1>1, EdgeTypes
<1>3. LiveAtEnd(fn, b) \subseteq LiveAt(fn, b, k)
  <2>1. LiveAt(fn, b, N + 1) = LiveAtEnd(fn, b)
    BY <1>1, LiveSteps
  <2>2. CASE k \in DOMAIN fn.vals[b] /\ fn.op[fn.vals[b][k]] = "branch"
    <3>1. k = N
      <4>1. WellPlaced(fn, b, k)
        BY <2>2, AnalysedFacts
      <4> QED BY ONLY <2>2, <4>1 DEF WellPlaced
    <3>2. LiveAt(fn, b, k) = (LiveAt(fn, b, k + 1) \ {fn.vals[b][k]}) \cup Reads(fn, fn.vals[b][k])
      BY <2>2, PlaceFacts
    <3>3. k + 1 \in 1 .. N + 1
      BY <2>2, PlaceFacts
    <3>4. fn.vals[b][k] \notin LiveAt(fn, b, k + 1)
      <4>1. LiveAt(fn, b, k + 1) \subseteq Tracked(fn)
        BY <3>3, LiveSpans
      <4>2. fn.vals[b][k] \notin Tracked(fn)
        BY <2>2 DEF Tracked
      <4> QED BY <4>1, <4>2
    <3> HIDE DEF N
    <3> QED BY <2>1, <3>1, <3>2, <3>4
  <2> QED BY <2>1, <2>2
<1>4. LiveAt(fn, s, 1) \subseteq LiveAtEnd(fn, b)
  <2>1. LiveAt(fn, s, 1) \subseteq LiveAtStart(fn, s)
    BY <1>1, <1>2, LiveSteps
  <2>2. s \in ToSet(fn.succs[b])
    BY DEF ToSet
  <2> HIDE DEF s
  <2> QED BY <2>1, <2>2 DEF LiveAtEnd
<1>5. ASSUME NEW p \in Phis(fn, s) PROVE Fetch(m, fn.args[p][j]) = e[fn.args[p][j]]
  <2> DEFINE u == fn.args[p][j]
  <2>1. u \in Tracked(fn) \cup Remats(fn)
    BY <1>2, PhiPlace
  <2>2. CASE u \in Remats(fn)
    BY <2>2 DEF Fetch, Regular
  <2>3. CASE u \in Tracked(fn)
    <3>1. EdgeArg(fn, b, i, p) = u
      BY <1>1, PredIndexIsSlot DEF EdgeArg
    <3>2. u \in ReadAtEnd(fn, b)
      BY <2>3, <3>1 DEF ReadAtEnd
    <3>3. u \in LiveAtEnd(fn, b)
      BY <3>2 DEF LiveAtEnd
    <3>4. m[loc[u]] = e[u]
      BY <1>3, <3>3 DEF HomedIn
    <3>5. u \notin Remats(fn)
      BY <2>3, LocFacts
    <3> QED BY <3>4, <3>5 DEF Fetch
  <2> QED BY <2>1, <2>2, <2>3
<1>6. \A u \in LiveAt(fn, s, 1) : m[loc[u]] = e[u]
  BY <1>3, <1>4 DEF HomedIn
<1> QED BY <1>5, <1>6 DEF Leaving

\* The phis change their results, and nothing else does.
LEMMA EdgeCarries ==
  ASSUME AllKnown, NEW a, Agrees(a), NEW s \in Blocks(fn), NEW j \in DOMAIN fn.preds[s],
         NEW m, NEW e, Regular(m, e), Leaving(m, e, s, j)
  PROVE  Regular(m, Carried(e, s, j)) /\ Crosses(m, Carried(e, s, j), s, j)
<1> DEFINE e2 == Carried(e, s, j)
<1>1. e2 = [v \in Ids |-> e2[v]] /\ \A v \in Ids : e2[v] = IF v \in Phis(fn, s) THEN e[fn.args[v][j]] ELSE e[v]
  BY DEF Carried
<1>2. \A p \in Phis(fn, s) : p \in Tracked(fn) /\ p \in Ids /\ p \notin Remats(fn)
  BY PhiPlace, LocFacts
<1>3. Remats(fn) \subseteq Ids
  BY AnalysedFacts, FunctionFacts
<1>4. \A u \in LiveAt(fn, s, 1) : u \in Ids /\ u \notin Phis(fn, s)
  <2> TAKE u \in LiveAt(fn, s, 1)
  <2>1. 1 \in 1 .. Len(fn.vals[s]) + 1
    BY AnalysedFacts, GraphTypes
  <2>2. u \in Tracked(fn)
    BY <2>1, LiveSpans
  <2>3. u \in Ids
    BY <2>2, LocFacts
  <2>4. ASSUME u \in Phis(fn, s) PROVE FALSE
    <3>1. PICK i \in DOMAIN fn.vals[s] : fn.vals[s][i] = u
      BY <2>4, PhiPlace
    <3>2. fn.op[fn.vals[s][i]] = "phi"
      BY <2>4, <3>1, PhiPlace
    <3>3. Passed(a)
      BY DEF Agrees
    <3> QED BY <3>1, <3>2, <3>3, PhisApart
  <2> QED BY <2>3, <2>4
<1> HIDE DEF e2
<1>5. Regular(m, e2)
  BY <1>1, <1>2, <1>3 DEF Regular
<1>6. \A u \in LiveAt(fn, s, 1) : m[loc[u]] = e2[u]
  BY <1>1, <1>4 DEF Leaving
<1>7. \A p \in Phis(fn, s) : Fetch(m, fn.args[p][j]) = e2[p]
  BY <1>1, <1>2 DEF Leaving
<1> QED BY <1>5, <1>6, <1>7 DEF Crosses, e2

\* The copies of the edge bring the phis' results to their homes.
LEMMA EdgeArrives ==
  ASSUME AllKnown, NEW a, Agrees(a), NEW s \in Blocks(fn), NEW j \in DOMAIN fn.preds[s],
         NEW m, NEW e, Regular(m, e), Crosses(m, e, s, j)
  PROVE  LET y == RunCopies(m, EntryOf(a, s, j).seq)
         IN  Regular(y, e) /\ HomedIn(y, e, s, 1) /\ WaitingIn(y, e, s, 1)
<1> DEFINE y == RunCopies(m, EntryOf(a, s, j).seq)
<1>1. IsMemory(m)
  BY DEF Regular
<1>2. /\ IsMemory(y)
      /\ \A p \in Phis(fn, s) : y[loc[p]] = Fetch(m, fn.args[p][j])
      /\ \A l \in Cells \ ScratchRegs : (\A p \in Phis(fn, s) : l # loc[p]) => y[l] = m[l]
  <2>1. Moved(m, y, s, j)
    BY <1>1, EdgeMoves
  <2> QED BY <2>1 DEF Moved
<1> HIDE DEF y
<1>3. Regular(y, e)
  BY <1>2 DEF Regular
<1>4. \A p \in Phis(fn, s) : y[loc[p]] = e[p]
  BY <1>2 DEF Crosses
<1>5. Passed(a)
  BY DEF Agrees
<1>6. ASSUME NEW u \in LiveAt(fn, s, 1) PROVE y[loc[u]] = e[u]
  <2>1. 1 \in 1 .. Len(fn.vals[s]) + 1
    BY AnalysedFacts, GraphTypes
  <2>2. u \in Tracked(fn)
    BY <2>1, LiveSpans
  <2>3. loc[u] \in Cells \ ScratchRegs /\ loc[u] = Home(a, u)
    BY <2>2, LocFacts
  <2>4. ASSUME NEW p \in Phis(fn, s) PROVE loc[u] # loc[p]
    <3>1. PICK i \in DOMAIN fn.vals[s] : fn.vals[s][i] = p
      BY PhiPlace
    <3>2. fn.op[fn.vals[s][i]] = "phi" /\ p \in Tracked(fn)
      BY <3>1, PhiPlace
    <3>3. Home(a, u) # Home(a, fn.vals[s][i])
      BY <1>5, <3>2, PhisApart
    <3>4. loc[p] = Home(a, p)
      BY <3>2, LocFacts
    <3> QED BY <2>3, <3>1, <3>3, <3>4
  <2>5. y[loc[u]] = m[loc[u]]
    BY <1>2, <2>3, <2>4
  <2> QED BY <2>5 DEF Crosses
<1>7. HomedIn(y, e, s, 1)
  BY <1>6 DEF HomedIn
<1>8. ASSUME NEW k \in DOMAIN fn.vals[s]
      PROVE  /\ fn.op[fn.vals[s][k]] = "phi" => y[loc[fn.vals[s][k]]] = e[fn.vals[s][k]]
             /\ ~(fn.op[fn.vals[s][k]] = "arg" /\ fn.place[fn.vals[s][k]] # NoReg)
             /\ ~(k < 1)
  <2>1. fn.op[fn.vals[s][k]] = "phi" => fn.vals[s][k] \in Phis(fn, s)
    BY PhiFacts
  <2>2. ASSUME fn.op[fn.vals[s][k]] = "arg" PROVE FALSE
    <3>1. s = 1
      <4>1. s \in Blocks(fn) /\ k \in DOMAIN fn.vals[s]
        BY <1>1
      <4>2. WellPlaced(fn, s, k)
        BY <4>1, AnalysedFacts
      <4> QED BY ONLY <2>2, <4>2 DEF WellPlaced
    <3>2. fn.preds[1] = <<>>
      BY DEF AllKnown, Shaped, Ready, Reached
    <3> QED BY <3>1, <3>2
  <2>3. ~(k < 1)
    BY PlaceFacts
  <2> QED BY <1>4, <2>1, <2>2, <2>3
<1>9. WaitingIn(y, e, s, 1)
  BY <1>8 DEF WaitingIn
<1> QED BY <1>3, <1>7, <1>9 DEF y

-----------------------------------------------------------------------------
(* What the function means *)

\* The meaning reads a function by the definitions the allocator reads it by.
LEMMA SameReading ==
  ASSUME NEW f
  PROVE  /\ Meaning!Tracked(f) = Tracked(f) /\ Meaning!Remats(f) = Remats(f)
         /\ \A b : Meaning!Phis(f, b) = Phis(f, b)
         /\ \A S : Meaning!Cardinality(S) = Cardinality(S)
<1>1. Meaning!Tracked(f) = Tracked(f) /\ Meaning!Remats(f) = Remats(f)
  BY DEF Meaning!Tracked, Tracked, Meaning!Remats, Remats
<1>2. \A b : Meaning!Phis(f, b) = Phis(f, b)
  BY DEF Meaning!Phis, Phis
<1>3. \A S : Meaning!Cardinality(S) = Cardinality(S)
  BY DEF Meaning!Cardinality, Cardinality
<1> QED BY <1>1, <1>2, <1>3

\* Both find the slot an edge has.
LEMMA MeansSlot ==
  ASSUME NEW f, IsGraph(f), NEW b \in Blocks(f), NEW i \in DOMAIN f.succs[b], NEW j, IsSlot(f, b, i, j), NEW p
  PROVE  Meaning!EdgeArg(f, b, i, p) = f.args[p][j]
<1> DEFINE s == f.succs[b][i]
           P(k) == /\ f.preds[s][k] = b
                   /\ Meaning!Cardinality({m \in 1 .. k - 1 : f.preds[s][m] = b}) = Meaning!Cardinality({n \in 1 .. i - 1 : f.succs[b][n] = s})
<1>1. \A k \in DOMAIN f.preds[s] : P(k) => IsSlot(f, b, i, k)
  BY SameReading DEF IsSlot
<1>2. j \in DOMAIN f.preds[s] /\ P(j)
  BY SameReading DEF IsSlot
<1>3. Meaning!PredIndex(f, b, i) = CHOOSE k \in DOMAIN f.preds[s] : P(k)
  BY DEF Meaning!PredIndex
<1> HIDE DEF P
<1> DEFINE h == CHOOSE k \in DOMAIN f.preds[s] : P(k)
<1>4. h \in DOMAIN f.preds[s] /\ P(h)
  BY <1>2
<1> HIDE DEF h
<1>5. IsSlot(f, b, i, h)
  BY <1>1, <1>4
<1>6. j = h
  BY <1>5, OneSlot
<1>7. Meaning!PredIndex(f, b, i) = j
  BY <1>3, <1>6 DEF h
<1> QED BY <1>7 DEF Meaning!EdgeArg

\* The function as it was built has the blocks, values and operands of the one
\* that is run, but for the blocks on edges.
LEMMA SourceFacts ==
  ASSUME AllKnown, IsFunction(src), Matched(src)
  PROVE  /\ src.op = fn.op /\ src.args = fn.args /\ DOMAIN src.op = Ids /\ SplitFrom(fn, src) /\ IsGraph(src)
         /\ \A b \in Blocks(src) : /\ b \in Blocks(fn) /\ src.vals[b] = fn.vals[b] /\ Phis(src, b) = Phis(fn, b)
                                   /\ DOMAIN fn.succs[b] = DOMAIN src.succs[b]
         /\ Tracked(src) = Tracked(fn) /\ Remats(src) = Remats(fn)
<1>1. SplitFrom(fn, src) /\ src.op = fn.op /\ src.args = fn.args
  BY DEF AllKnown, Shaped, SplitFrom
<1>2. IsGraph(src) /\ DOMAIN src.op = Ids
  BY FunctionFacts DEF IsFunction, Functions
<1>3. \A b \in Blocks(src) : b \in Blocks(fn) /\ src.vals[b] = fn.vals[b] /\ DOMAIN fn.succs[b] = DOMAIN src.succs[b]
  BY <1>1, <1>2, SplitFromAt
<1>4. \A b \in Blocks(src) : Phis(src, b) = Phis(fn, b)
  BY <1>1, <1>3 DEF Phis
<1>5. Tracked(src) = Tracked(fn) /\ Remats(src) = Remats(fn)
  BY <1>1 DEF Tracked, Remats
<1> QED BY <1>1, <1>2, <1>3, <1>4, <1>5

\* At a value of a block that was there from the start, the two agree on where
\* they are.
LEMMA MeansHere ==
  ASSUME AllKnown, IsFunction(src), Matched(src), ~OnEdge
  PROVE  LET b == pc[1]
             v == fn.vals[b][pc[2]]
         IN  /\ b \in Blocks(fn) /\ b \in Blocks(src) /\ Here = v /\ Meaning!Here = v
             /\ Meaning!AtValue <=> pc[2] \in DOMAIN fn.vals[b] /\ fn.op[v] # "branch"
             /\ Meaning!AtEnd <=> pc[2] = Len(fn.vals[b]) + 1 \/ (pc[2] \in DOMAIN fn.vals[b] /\ fn.op[v] = "branch")
             /\ Meaning!After = IF fn.op[v] = "ret" THEN <<b, 0>> ELSE <<b, pc[2] + 1>>
             /\ Meaning!EnvAfter = Computed(env, v)
             /\ CellsAfter = Leaves(cells, v)
             /\ \A w : Meaning!Operands(w) = OperandsIn(env, w)
<1> DEFINE b == pc[1]
           v == fn.vals[b][pc[2]]
<1>1. b \in Blocks(src)
  BY DEF OnEdge
<1>2. /\ src.op = fn.op /\ src.args = fn.args
      /\ b \in Blocks(fn) /\ src.vals[b] = fn.vals[b]
      /\ Tracked(src) = Tracked(fn)
  BY <1>1, SourceFacts
<1>3. Meaning!Here = v
  BY <1>2 DEF Meaning!Here
<1>4. Here = v
  BY <1>3 DEF Here
<1>5. Meaning!AtValue <=> pc[2] \in DOMAIN fn.vals[b] /\ fn.op[v] # "branch"
  BY <1>2, <1>3 DEF Meaning!AtValue
<1>6. Meaning!AtEnd <=> pc[2] = Len(fn.vals[b]) + 1 \/ (pc[2] \in DOMAIN fn.vals[b] /\ fn.op[v] = "branch")
  BY <1>2, <1>3 DEF Meaning!AtEnd
<1>7. Meaning!After = IF fn.op[v] = "ret" THEN <<b, 0>> ELSE <<b, pc[2] + 1>>
  BY <1>2, <1>3 DEF Meaning!After
<1>8. \A w : Meaning!Operands(w) = OperandsIn(env, w)
  BY <1>2 DEF Meaning!Operands, OperandsIn
<1>9. Meaning!EnvAfter = Computed(env, v)
  BY <1>2, <1>3, <1>8, SameReading DEF Meaning!EnvAfter, Meaning!Result, Computed
<1>10. CellsAfter = Leaves(cells, v)
  BY <1>4 DEF CellsAfter, Leaves
<1> QED BY <1>1, <1>2, <1>3, <1>4, <1>5, <1>6, <1>7, <1>8, <1>9, <1>10

\* On the other side of an edge.
LEMMA MeansEdge ==
  ASSUME AllKnown, IsFunction(src), Matched(src), ~OnEdge, env = [v \in Ids |-> env[v]],
         NEW i \in DOMAIN fn.succs[pc[1]], NEW j, IsSlot(src, pc[1], i, j)
  PROVE  src.succs[pc[1]][i] \in Blocks(src) /\ Meaning!EnvOnEdge(i) = Carried(env, src.succs[pc[1]][i], j)
<1> DEFINE b == pc[1]
           s == src.succs[b][i]
<1>1. b \in Blocks(src)
  BY DEF OnEdge
<1>2. /\ src.args = fn.args /\ IsGraph(src) /\ i \in DOMAIN src.succs[b]
      /\ \A c \in Blocks(src) : Phis(src, c) = Phis(fn, c)
  BY <1>1, SourceFacts
<1>3. s \in Blocks(src)
  BY <1>1, <1>2, GraphTypes
<1>6. DOMAIN env = Ids
  OBVIOUS
<1>7. Meaning!EnvOnEdge(i) = [v \in DOMAIN env |-> IF v \in Meaning!Phis(src, s) THEN env[Meaning!EdgeArg(src, b, i, v)] ELSE env[v]]
  BY DEF Meaning!EnvOnEdge, OnEdge
<1>8. Meaning!Phis(src, s) = Phis(fn, s)
  BY <1>2, <1>3, SameReading
<1>9. \A p : Meaning!EdgeArg(src, b, i, p) = fn.args[p][j]
  BY <1>1, <1>2, MeansSlot
<1> HIDE DEF b, s
<1>10. Meaning!EnvOnEdge(i) = Carried(env, s, j)
  BY <1>6, <1>7, <1>8, <1>9 DEF Carried
<1> QED BY <1>3, <1>10 DEF s, b

-----------------------------------------------------------------------------
(* The state of a run *)

\* Where a run stands, with memory m and results e at p: what is live and what
\* waits for its turn is in its home, and on an edge what the edge is to bring.
RunningIn(m, e, p) ==
  /\ Regular(m, e) /\ p = <<p[1], p[2]>> /\ p[1] \in Blocks(fn)
  /\ IF p[1] \in Blocks(src)
     THEN p[2] \in 0 .. Len(fn.vals[p[1]]) + 1 /\ (p[2] > 0 => HomedIn(m, e, p[1], p[2]) /\ WaitingIn(m, e, p[1], p[2]))
     ELSE p[2] = 1 /\ \E j : IsSlot(fn, p[1], 1, j) /\ Crosses(m, e, fn.succs[p[1]][1], j)

\* The start of a block, after an edge into it.
LEMMA EdgeInto ==
  ASSUME AllKnown, NEW a, Agrees(a), NEW b \in Blocks(fn), NEW i \in DOMAIN fn.succs[b], NEW j, IsSlot(fn, b, i, j),
         NEW m, NEW e, Regular(m, e), Crosses(m, e, fn.succs[b][i], j)
  PROVE  LET y == RunEntries(RunEntries(m, OutOf(b)), InTo(fn.succs[b][i]))
         IN  Regular(y, e) /\ HomedIn(y, e, fn.succs[b][i], 1) /\ WaitingIn(y, e, fn.succs[b][i], 1)
<1> DEFINE s == fn.succs[b][i]
           y == RunEntries(RunEntries(m, OutOf(b)), InTo(s))
<1>1. s \in Blocks(fn) /\ j \in DOMAIN fn.preds[s]
  BY AnalysedFacts, EdgeTypes
<1>2. y = RunCopies(m, EntryOf(a, s, j).seq)
  BY EdgeRuns
<1> HIDE DEF y, s
<1>3. Regular(RunCopies(m, EntryOf(a, s, j).seq), e) /\ HomedIn(RunCopies(m, EntryOf(a, s, j).seq), e, s, 1)
      /\ WaitingIn(RunCopies(m, EntryOf(a, s, j).seq), e, s, 1)
  BY <1>1, EdgeArrives DEF s
<1> QED BY <1>2, <1>3 DEF y, s

\* From the end of a block to its successor, or to the block on the edge.
LEMMA EdgeTaken ==
  ASSUME AllKnown, IsFunction(src), Matched(src), NEW a, Agrees(a), NEW b \in Blocks(src), NEW i \in DOMAIN fn.succs[b],
         NEW k, k = Len(fn.vals[b]) + 1 \/ (k \in DOMAIN fn.vals[b] /\ fn.op[fn.vals[b][k]] = "branch"),
         NEW m, NEW e, Regular(m, e), HomedIn(m, e, b, k), NEW j, IsSlot(src, b, i, j)
  PROVE  LET t == fn.succs[b][i]
             s == src.succs[b][i]
         IN  /\ IF t \in Blocks(src) THEN t = s ELSE fn.succs[t][1] = s
             /\ RunningIn(RunEntries(RunEntries(m, OutOf(b)), InTo(t)), Carried(e, s, j), <<t, 1>>)
<1> DEFINE t == fn.succs[b][i]
           s == src.succs[b][i]
           y == RunEntries(RunEntries(m, OutOf(b)), InTo(t))
           e2 == Carried(e, s, j)
           p == <<t, 1>>
<1>1. /\ SplitFrom(fn, src) /\ IsGraph(src) /\ b \in Blocks(fn) /\ i \in DOMAIN src.succs[b]
      /\ \A c \in Blocks(src) : c \in Blocks(fn) /\ src.vals[c] = fn.vals[c] /\ Phis(src, c) = Phis(fn, c)
  BY SourceFacts
<1>2. IsGraph(fn) /\ Matched(fn) /\ FlowGraph(fn)
  BY AnalysedFacts
<1>3. s \in Blocks(src) /\ t \in Blocks(fn)
  BY <1>1, <1>2, GraphTypes
<1>4. EdgeKept(fn, src, b, i, j) \/ EdgeHalved(fn, src, b, i, j)
  BY <1>1 DEF SplitFrom
<1>5. \A c \in Blocks(fn) : Len(fn.vals[c]) \in Nat
  BY <1>2, GraphTypes
<1>6. p[1] = t /\ p[2] = 1 /\ p = <<p[1], p[2]>>
  OBVIOUS
<1>7. CASE EdgeKept(fn, src, b, i, j)
  <2>1. t = s /\ IsSlot(fn, b, i, j)
    BY <1>7 DEF EdgeKept
  <2>2. Leaving(m, e, t, j)
    BY <1>1, <2>1, EdgeLeaves
  <2>3. j \in DOMAIN fn.preds[t]
    BY <2>1 DEF IsSlot
  <2>4. Regular(m, e2) /\ Crosses(m, e2, t, j)
    BY <1>3, <2>1, <2>2, <2>3, EdgeCarries
  <2>5. Regular(y, e2) /\ HomedIn(y, e2, t, 1) /\ WaitingIn(y, e2, t, 1)
    BY <1>1, <2>1, <2>4, EdgeInto
  <2>6. 1 \in 0 .. Len(fn.vals[t]) + 1
    BY <1>3, <1>5
  <2> HIDE DEF y, e2, t, s, p
  <2>7. RunningIn(y, e2, p)
    BY <1>3, <1>6, <2>1, <2>5, <2>6 DEF RunningIn
  <2> QED BY <1>3, <2>1, <2>7 DEF y, e2, t, s, p
<1>8. CASE EdgeHalved(fn, src, b, i, j)
  <2>1. t \notin Blocks(src) /\ fn.succs[t][1] = s /\ IsSlot(fn, t, 1, j)
    BY <1>8 DEF EdgeHalved
  <2>2. fn.vals[t] = <<>> /\ Len(fn.succs[t]) = 1
    BY <1>1, <1>3, <2>1 DEF SplitFrom, IsMiddle
  <2>3. 1 \in DOMAIN fn.succs[t] /\ Len(fn.vals[t]) = 0 /\ Phis(fn, t) = {}
    <3>1. DOMAIN fn.succs[t] = 1 .. Len(fn.succs[t])
      BY <1>2, <1>3, GraphTypes
    <3>2. DOMAIN fn.vals[t] = {} /\ Len(fn.vals[t]) = 0
      BY <2>2
    <3> QED BY <2>2, <3>1, <3>2 DEF Phis
  <2>4. PICK n : n \in DOMAIN fn.preds[t] /\ IsSlot(fn, b, i, n)
    BY <1>1, <1>2 DEF Matched
  <2>5. Leaving(m, e, t, n)
    BY <1>1, <2>4, EdgeLeaves
  <2>6. Crosses(m, e, t, n)
    BY <2>3, <2>5 DEF Leaving, Crosses
  <2>7. Regular(y, e) /\ HomedIn(y, e, t, 1)
    BY <1>1, <2>4, <2>6, EdgeInto
  <2> HIDE DEF y, t, s
  <2>8. 1 = Len(fn.vals[t]) + 1
    BY <2>3
  <2>9. Leaving(y, e, fn.succs[t][1], j)
    BY <1>3, <2>1, <2>3, <2>7, <2>8, EdgeLeaves
  <2>10. s \in Blocks(fn) /\ j \in DOMAIN fn.preds[s]
    <3>1. j \in DOMAIN fn.preds[fn.succs[t][1]]
      BY <2>1 DEF IsSlot
    <3> QED BY <1>1, <1>3, <2>1, <3>1
  <2>11. Regular(y, e2) /\ Crosses(y, e2, s, j)
    BY <2>1, <2>7, <2>9, <2>10, EdgeCarries
  <2> HIDE DEF e2, p
  <2>12. RunningIn(y, e2, p)
    BY <1>3, <1>6, <2>1, <2>11 DEF RunningIn
  <2> QED BY <1>3, <2>1, <2>12 DEF y, e2, t, s, p
<1> QED BY <1>4, <1>7, <1>8

\* From the block on an edge to the end of the edge.
LEMMA EdgeFinished ==
  ASSUME AllKnown, IsFunction(src), Matched(src), NEW a, Agrees(a), NEW d \in Blocks(fn), d \notin Blocks(src),
         NEW m, NEW e, RunningIn(m, e, <<d, 1>>)
  PROVE  LET s == fn.succs[d][1]
         IN  /\ s \in Blocks(src) /\ DOMAIN fn.succs[d] = {1} /\ fn.vals[d] = <<>>
             /\ RunningIn(RunEntries(RunEntries(m, OutOf(d)), InTo(s)), e, <<s, 1>>)
<1> DEFINE s == fn.succs[d][1]
           y == RunEntries(RunEntries(m, OutOf(d)), InTo(s))
           p == <<s, 1>>
<1>1. SplitFrom(fn, src)
  BY SourceFacts
<1>2. fn.vals[d] = <<>> /\ Len(fn.succs[d]) = 1 /\ s \in Blocks(src)
  BY <1>1 DEF SplitFrom, IsMiddle
<1>3. DOMAIN fn.succs[d] = {1}
  <2>1. DOMAIN fn.succs[d] = 1 .. Len(fn.succs[d])
    BY AnalysedFacts, GraphTypes
  <2> QED BY <1>2, <2>1
<1>4. s \in Blocks(fn)
  BY <1>1, <1>2 DEF SplitFrom
<1>5. PICK j : IsSlot(fn, d, 1, j) /\ Crosses(m, e, s, j)
  BY DEF RunningIn
<1>6. Regular(m, e)
  BY DEF RunningIn
<1>7. Regular(y, e) /\ HomedIn(y, e, s, 1) /\ WaitingIn(y, e, s, 1)
  BY <1>3, <1>5, <1>6, EdgeInto
<1>8. 1 \in 0 .. Len(fn.vals[s]) + 1
  <2>1. IsGraph(fn)
    BY AnalysedFacts
  <2> DEFINE n == Len(fn.vals[s])
  <2>2. n \in Nat
    BY <1>4, <2>1, GraphTypes
  <2> HIDE DEF n
  <2>3. 1 \in 0 .. n + 1
    BY ONLY <2>2
  <2> QED BY ONLY <2>3 DEF n
<1>9. p[1] = s /\ p[2] = 1 /\ p = <<p[1], p[2]>>
  OBVIOUS
<1> HIDE DEF y, s, p
<1>10. RunningIn(y, e, p)
  BY <1>2, <1>4, <1>7, <1>8, <1>9 DEF RunningIn
<1> QED BY <1>2, <1>3, <1>10 DEF y, s, p

\* From a value to the next, or to the end after a return.
LEMMA ValueRun ==
  ASSUME AllKnown, NEW a, Agrees(a), NEW b \in Blocks(fn), b \in Blocks(src), NEW i \in DOMAIN fn.vals[b],
         fn.op[fn.vals[b][i]] # "branch", NEW m, NEW e, RunningIn(m, e, <<b, i>>)
  PROVE  LET v == fn.vals[b][i]
         IN  \A n \in {0, i + 1} : RunningIn(Leaves(m, v), Computed(e, v), <<b, n>>)
<1> DEFINE v == fn.vals[b][i]
           y == Leaves(m, v)
           e2 == Computed(e, v)
<1>1. i \in Nat /\ i > 0 /\ Len(fn.vals[b]) \in Nat /\ i <= Len(fn.vals[b])
  BY PlaceFacts
<1>2. Regular(m, e) /\ HomedIn(m, e, b, i) /\ WaitingIn(m, e, b, i)
  <2> DEFINE p == <<b, i>>
  <2>1. p[1] = b /\ p[2] = i
    OBVIOUS
  <2> HIDE DEF p
  <2>2. RunningIn(m, e, p)
    BY DEF p
  <2> QED BY <1>1, <2>1, <2>2 DEF RunningIn
<1>3. Regular(y, e2)
  BY <1>2, ComputeRegular
<1>4. HomedIn(y, e2, b, i + 1)
  BY <1>2, ComputeHomed
<1>5. WaitingIn(y, e2, b, i + 1)
  BY <1>2, ComputeWaiting
<1> HIDE DEF y, e2
<1>6. ASSUME NEW n \in {0, i + 1} PROVE RunningIn(y, e2, <<b, n>>)
  <2> DEFINE p == <<b, n>>
  <2>1. p[1] = b /\ p[2] = n /\ p = <<p[1], p[2]>>
    OBVIOUS
  <2>2. n \in 0 .. Len(fn.vals[b]) + 1
    BY <1>1
  <2>3. n > 0 => n = i + 1
    BY <1>1
  <2> HIDE DEF p
  <2>4. RunningIn(y, e2, p)
    BY <1>3, <1>4, <1>5, <2>1, <2>2, <2>3 DEF RunningIn
  <2> QED BY <2>4 DEF p
<1> QED BY <1>6 DEF y, e2

-----------------------------------------------------------------------------
(* The entry *)

Arrived == [l \in Cells |-> IF \E v \in RegArgs : fn.place[v] = l
                            THEN Term(CHOOSE v \in RegArgs : fn.place[v] = l) ELSE Junk]
Arrivals == {[dst |-> loc[v], src |-> fn.place[v], from |-> v] : v \in RegArgs}

\* Arguments in registers are all of the entry, which has no phis then.
LEMMA ArgsOrPhis ==
  ASSUME AllKnown, NEW i \in DOMAIN fn.vals[1], fn.op[fn.vals[1][i]] = "phi"
  PROVE  RegArgs = {}
<1>1. /\ IsFunction(fn) /\ IsGraph(fn) /\ an.tracked \subseteq Values(fn) /\ an.tracked = Tracked(fn)
      /\ \A b \in Blocks(fn) : \A k \in DOMAIN fn.vals[b] : WellPlaced(fn, b, k)
  BY AnalysedFacts
<1>2. 1 \in Blocks(fn) /\ i \in Nat /\ i >= 1 /\ DOMAIN fn.vals[1] = 1 .. Len(fn.vals[1]) /\ Len(fn.vals[1]) \in Nat
  BY <1>1, FunctionFacts, GraphTypes
<1>3. fn.op[fn.vals[1][1]] = "phi"
  <2>1. \A k \in 1 .. i : fn.op[fn.vals[1][k]] = "phi"
    BY <1>2, PhiFacts
  <2> QED BY <1>2, <2>1
<1>4. ASSUME NEW v \in RegArgs PROVE FALSE
  <2>1. v \in Values(fn) /\ fn.op[v] = "arg" /\ fn.place[v] # NoReg
    BY <1>1 DEF RegArgs
  <2>7. PICK b \in Blocks(fn) : v \in ToSet(fn.vals[b])
    BY <2>1 DEF Values
  <2>2. PICK k \in DOMAIN fn.vals[b] : fn.vals[b][k] = v
    BY <2>7 DEF ToSet
  <2>3. WellPlaced(fn, b, k)
    BY <1>1
  <2>4. b = 1 /\ \A n \in 1 .. k : fn.op[fn.vals[b][n]] = "arg"
    BY <2>1, <2>2, <2>3 DEF WellPlaced
  <2>5. 1 \in 1 .. k
    BY <1>2, <2>4
  <2>6. fn.op[fn.vals[1][1]] = "arg"
    BY <2>4, <2>5
  <2> QED BY <1>3, <2>6
<1> QED BY <1>4

\* entryArgs, when no two arguments that arrive in registers have one home.
LEMMA EntryGives ==
  ASSUME AllKnown, IsFunction(src), Matched(src), NEW a, Agrees(a),
         \A u, v \in RegArgs : u # v => loc[u] # loc[v]
  PROVE  RunningIn(Transfer(Arrived, Arrivals), Meaning!InitEnv, <<1, 1>>)
<1> DEFINE m == Transfer(Arrived, Arrivals)
           e == Meaning!InitEnv
           mv(v) == [dst |-> loc[v], src |-> fn.place[v], from |-> v]
           p == <<1, 1>>
<1>1. /\ IsFunction(fn) /\ IsGraph(fn) /\ FlowGraph(fn) /\ an.tracked = Tracked(fn) /\ LiveAtStart(fn, 1) = {}
      /\ Conventional(fn)
  BY AnalysedFacts DEF AllKnown, Shaped, Ready
<1>2. 1 \in Blocks(fn) /\ 1 \in Blocks(src)
  BY <1>1, FunctionFacts
<1>3. \A v \in RegArgs : v \in Tracked(fn) /\ fn.op[v] = "arg" /\ fn.place[v] # NoReg
  BY <1>1 DEF RegArgs
<1>4. \A v \in RegArgs : loc[v] \in Cells /\ v \in Ids
  BY <1>3, LocFacts
<1>5. Regs \subseteq Cells /\ NoReg \notin Regs
  BY RegsAssumption DEF Cells, CellsOf
<1>6. \A v \in RegArgs : fn.place[v] \in Regs
  BY <1>1, <1>3, <1>4 DEF IsFunction, Functions
<1>7. \A u, v \in RegArgs : fn.place[u] = fn.place[v] => u = v
  BY <1>1, <1>3 DEF Conventional
<1>8. \A v \in RegArgs : Arrived[fn.place[v]] = Term(v)
  <2> TAKE v \in RegArgs
  <2>1. (CHOOSE u \in RegArgs : fn.place[u] = fn.place[v]) = v
    BY <1>7
  <2>2. fn.place[v] \in Cells
    BY <1>5, <1>6
  <2> QED BY <2>1, <2>2 DEF Arrived
<1>9. \A x \in Arrivals : \E v \in RegArgs : x = mv(v)
  BY DEF Arrivals
<1>10. \A v \in RegArgs : mv(v) \in Arrivals /\ mv(v).dst = loc[v] /\ mv(v).src = fn.place[v]
  BY DEF Arrivals
<1> HIDE DEF mv
<1>11. Distinct(Arrivals)
  <2> SUFFICES ASSUME NEW x \in Arrivals, NEW y \in Arrivals, x.dst = y.dst PROVE x = y
    BY DEF Distinct
  <2>1. PICK v \in RegArgs : x = mv(v)
    BY <1>9
  <2>2. PICK w \in RegArgs : y = mv(w)
    BY <1>9
  <2>3. v = w
    BY <1>10, <2>1, <2>2
  <2> QED BY <2>1, <2>2, <2>3
<1>12. \A x \in Arrivals : x.dst \in Cells /\ x.src \in Cells \cup {NoReg} /\ x.src \in Regs
  BY <1>4, <1>5, <1>6, <1>9, <1>10
<1>13. /\ DOMAIN m = Cells
       /\ \A l \in Cells : (\A x \in Arrivals : x.dst # l) => m[l] = Arrived[l]
       /\ \A x \in Arrivals : m[x.dst] = Brought(Arrived, x)
  BY <1>11, <1>12, TransferGives
<1>14. IsMemory(m)
  <2>1. m = TransferStage(TransferStage(TransferStage(Arrived, {x \in {y \in Arrivals : y.src \in Regs} : x.dst \notin Regs}),
                   {y \in Arrivals : y.src \in Regs} \ {x \in {y \in Arrivals : y.src \in Regs} : x.dst \notin Regs}),
                   Arrivals \ {y \in Arrivals : y.src \in Regs})
    BY DEF Transfer
  <2> HIDE DEF m
  <2> QED BY <2>1 DEF TransferStage, Put, IsMemory
<1> HIDE DEF m, e
<1>15. \A v \in RegArgs : m[loc[v]] = Term(v)
  <2> TAKE v \in RegArgs
  <2>1. m[loc[v]] = Brought(Arrived, mv(v))
    BY <1>10, <1>13
  <2>2. Brought(Arrived, mv(v)) = Arrived[fn.place[v]]
    BY <1>5, <1>6, <1>10 DEF Brought
  <2> QED BY <1>8, <2>1, <2>2
<1>16. e = [v \in Ids |-> IF v \in Remats(fn) THEN Term(v) ELSE Junk]
  BY SourceFacts, SameReading DEF e, Meaning!InitEnv, Term
<1>17. Regular(m, e)
  <2>1. Remats(fn) \subseteq Ids
    BY <1>1, FunctionFacts
  <2> QED BY <1>14, <1>16, <2>1 DEF Regular
<1>18. HomedIn(m, e, 1, 1)
  <2>1. LiveAt(fn, 1, 1) = {}
    BY <1>1, <1>2, LiveSteps
  <2> QED BY <2>1 DEF HomedIn
<1>19. ASSUME NEW i \in DOMAIN fn.vals[1]
       PROVE  /\ fn.op[fn.vals[1][i]] = "phi" => m[loc[fn.vals[1][i]]] = e[fn.vals[1][i]]
              /\ fn.op[fn.vals[1][i]] = "arg" /\ fn.place[fn.vals[1][i]] # NoReg => m[loc[fn.vals[1][i]]] = Term(fn.vals[1][i])
              /\ ~(i < 1)
  <2> DEFINE v == fn.vals[1][i]
  <2>1. CASE fn.op[v] = "phi"
    <3>1. RegArgs = {}
      BY <2>1, ArgsOrPhis
    <3>2. v \in Tracked(fn)
      BY <1>2, <2>1, PhiFacts
    <3>3. loc[v] \in Cells /\ v \in Ids /\ v \notin Remats(fn)
      BY <3>2, LocFacts
    <3>4. Arrivals = {} /\ Arrived[loc[v]] = Junk
      BY <3>1, <3>3 DEF Arrivals, Arrived
    <3>5. m[loc[v]] = Junk /\ e[v] = Junk
      BY <1>13, <1>16, <3>3, <3>4
    <3>6. i >= 1 /\ i \in Nat
      BY <1>2, PlaceFacts, <1>1, GraphTypes
    <3> QED BY <2>1, <3>5, <3>6
  <2>2. CASE fn.op[v] # "phi"
    <3>1. i >= 1 /\ i \in Nat
      BY <1>2, PlaceFacts, <1>1, GraphTypes
    <3>2. v \in Ids
      BY <1>2, PlaceFacts
    <3>3. fn.op[v] = "arg" /\ fn.place[v] # NoReg => v \in RegArgs
      <4>1. fn.op[v] = "arg" => v \in Tracked(fn)
        BY <1>1, <3>2 DEF Tracked, IsFunction, Functions
      <4> QED BY <1>1, <4>1 DEF RegArgs
    <3> QED BY <1>15, <2>2, <3>1, <3>3
  <2> QED BY <2>1, <2>2
<1>20. WaitingIn(m, e, 1, 1)
  BY <1>19 DEF WaitingIn
<1>21. 1 \in 0 .. Len(fn.vals[1]) + 1
  BY <1>1, <1>2, GraphTypes
<1>22. p[1] = 1 /\ p[2] = 1 /\ p = <<p[1], p[2]>>
  OBVIOUS
<1> HIDE DEF p
<1>23. RunningIn(m, e, p)
  BY <1>2, <1>17, <1>18, <1>20, <1>21, <1>22 DEF RunningIn
<1> QED BY <1>23 DEF m, e, p

-----------------------------------------------------------------------------
(* A run *)

\* Whether an allocation passes depends on the function and its analysis alone.
LEMMA PassedStays ==
  ASSUME NEW a, UNCHANGED <<fn, an, lay, safe>>
  PROVE  Passed(a)' <=> Passed(a)
<1>0. fn' = fn /\ an' = an /\ lay' = lay /\ safe' = safe
  OBVIOUS
<1>1. BadHome(a)' <=> BadHome(a)
  BY <1>0 DEF BadHome, Home
<1>2. NoSuchSlot(a)' <=> NoSuchSlot(a)
  BY DEF NoSuchSlot, Home
<1>3. ReservedHome(a)' <=> ReservedHome(a)
  BY DEF ReservedHome, Home
<1>4. AcrossCall(a)' <=> AcrossCall(a)
  BY <1>0 DEF AcrossCall, Home
<1>5. Overlap(a)' <=> Overlap(a)
  <2>1. \A u, v : Conflicts(u, v)' <=> Conflicts(u, v)
    BY <1>0 DEF Conflicts, Reaches, FreesAt
  <2> QED BY <1>0, <2>1 DEF Overlap
<1>6. BadOperand(a)' <=> BadOperand(a)
  <2>1. \A v, i : OperandOK(a, v, i)' <=> OperandOK(a, v, i)
    BY <1>0 DEF OperandOK, Home
  <2>2. \A v : ScratchTwice(a, v)' <=> ScratchTwice(a, v)
    BY <1>0 DEF ScratchTwice
  <2>3. \A v : ResultOK(a, v)' <=> ResultOK(a, v)
    BY <1>0 DEF ResultOK, Home
  <2> QED BY <1>0, <2>1, <2>2, <2>3 DEF BadOperand
<1>7. BadSlot(a)' <=> BadSlot(a)
  BY <1>0 DEF BadSlot, Home
<1>8. BadPhi(a)' <=> BadPhi(a)
  <2>1. \A s, j, e : Misplaced(a, s, j, e)' <=> Misplaced(a, s, j, e)
    BY <1>0 DEF Misplaced, Home
  <2>2. Slotted' = Slotted
    BY <1>0 DEF Slotted
  <2> QED BY <1>0, <2>1, <2>2 DEF BadPhi
<1>9. BadEdge(a)' <=> BadEdge(a)
  <2>1. \A s, j : Arriving(s, j)' = Arriving(s, j)
    BY <1>0 DEF Arriving
  <2> DEFINE B(S) == [l \in CellsOf(a.slots) |-> LET here == {v \in S : Home(a, v) = l} IN IF here = {} THEN NoId ELSE CHOOSE v \in here : TRUE]
             R(s, j, x) == LET seq == EntryOf(a, s, j).seq
                               run[n \in 0 .. Len(seq)] == IF n = 0 THEN [m |-> x, ok |-> TRUE] ELSE Replayed(run[n - 1], seq[n])
                           IN  run[Len(seq)]
  <2>2. \A s, j : BeforeCopies(a, s, j) = B(Arriving(s, j) \cap Tracked(fn)) /\ BeforeCopies(a, s, j)' = B(Arriving(s, j)' \cap Tracked(fn'))
    BY DEF BeforeCopies
  <2>3. \A s, j : Replay(a, s, j) = R(s, j, BeforeCopies(a, s, j)) /\ Replay(a, s, j)' = R(s, j, BeforeCopies(a, s, j)')
    BY DEF Replay
  <2> HIDE DEF B, R
  <2>4. ASSUME NEW s, NEW j PROVE Replay(a, s, j)' = Replay(a, s, j)
    <3>1. Arriving(s, j)' \cap Tracked(fn') = Arriving(s, j) \cap Tracked(fn)
      BY <1>0, <2>1
    <3>2. BeforeCopies(a, s, j)' = BeforeCopies(a, s, j)
      BY <2>2, <3>1
    <3> QED BY <2>3, <3>2
  <2>5. Slotted' = Slotted
    BY <1>0 DEF Slotted
  <2> QED BY <1>0, <2>4, <2>5 DEF BadEdge, Home
<1>10. IsAllocation(a)' <=> IsAllocation(a)
  BY <1>0 DEF IsAllocation
<1>11. Violations(a)' = Violations(a)
  <2> DEFINE W(x) == CASE x = "home"     -> BadHome(a) \/ NoSuchSlot(a)
                       [] x = "reserved" -> ReservedHome(a)
                       [] x = "call"     -> AcrossCall(a)
                       [] x = "overlap"  -> Overlap(a)
                       [] x = "operand"  -> BadOperand(a)
                       [] x = "slot"     -> BadSlot(a)
                       [] x = "phi"      -> BadPhi(a)
                       [] x = "edge"     -> ~BadHome(a) /\ BadEdge(a)
             K == {"home", "reserved", "call", "overlap", "operand", "slot", "phi", "edge"}
  <2>1. \A x \in K : W(x)' <=> W(x)
    BY <1>1, <1>2, <1>3, <1>4, <1>5, <1>6, <1>7, <1>8, <1>9
  <2>2. Violations(a) = {x \in K : W(x)} /\ Violations(a)' = {x \in K : W(x)'}
    BY DEF Violations, Checks
  <2> HIDE DEF W, K
  <2> QED BY <2>1, <2>2
<1> QED BY <1>10, <1>11 DEF Passed

Running == RunningIn(cells, env, pc)

\* Where a run stands is a matter of the function, the homes and the frame.
LEMMA RunningStays ==
  ASSUME UNCHANGED <<src, fn, slots, loc>>, RunningIn(cells', env', pc')
  PROVE  Running'
<1>0. src' = src /\ fn' = fn /\ slots' = slots /\ loc' = loc
  OBVIOUS
<1>1. Regular(cells', env') <=> Regular(cells, env)'
  BY <1>0 DEF Regular, IsMemory, Cells, Term
<1>2. \A v : OperandsIn(env', v) = OperandsIn(env, v)'
  BY <1>0 DEF OperandsIn
<1>3. \A b, i : HomedIn(cells', env', b, i) <=> HomedIn(cells, env, b, i)'
  BY <1>0 DEF HomedIn
<1>4. ASSUME NEW b, NEW i, WaitingIn(cells', env', b, i) PROVE WaitingIn(cells, env, b, i)'
  <2> DEFINE x == fn.vals[b]
  <2>1. ASSUME NEW j \in DOMAIN x, j >= i
        PROVE  /\ fn.op[x[j]] = "phi" => cells'[loc[x[j]]] = env'[x[j]]
               /\ fn.op[x[j]] = "arg" /\ fn.place[x[j]] # NoReg => cells'[loc[x[j]]] = Term(x[j])
               /\ fn.op[x[j]] = "select" =>
                     \A k \in DOMAIN x : k < i /\ x[k] = fn.args[x[j]][1] => cells'[loc[x[j]]] = <<x[j], OperandsIn(env', x[k])>>
    BY <1>4, <2>1 DEF WaitingIn
  <2>2. x = fn'.vals[b]
    BY <1>0
  <2> HIDE DEF x
  <2>3. \A j \in DOMAIN x : j >= i =>
          /\ fn'.op[x[j]] = "phi" => cells'[loc'[x[j]]] = env'[x[j]]
          /\ fn'.op[x[j]] = "arg" /\ fn'.place[x[j]] # NoReg => cells'[loc'[x[j]]] = <<x[j], <<>>>>
          /\ fn'.op[x[j]] = "select" =>
                \A k \in DOMAIN x : k < i /\ x[k] = fn'.args[x[j]][1] => cells'[loc'[x[j]]] = <<x[j], OperandsIn(env', x[k])>>
    BY ONLY <1>0, <2>1 DEF Term
  <2>4. \A j \in DOMAIN fn'.vals[b] : j >= i =>
          /\ fn'.op[fn'.vals[b][j]] = "phi" => cells'[loc'[fn'.vals[b][j]]] = env'[fn'.vals[b][j]]
          /\ fn'.op[fn'.vals[b][j]] = "arg" /\ fn'.place[fn'.vals[b][j]] # NoReg
                => cells'[loc'[fn'.vals[b][j]]] = <<fn'.vals[b][j], <<>>>>
          /\ fn'.op[fn'.vals[b][j]] = "select" =>
                \A k \in DOMAIN fn'.vals[b] : k < i /\ fn'.vals[b][k] = fn'.args[fn'.vals[b][j]][1] =>
                      cells'[loc'[fn'.vals[b][j]]] = <<fn'.vals[b][j], OperandsIn(env, fn.vals[b][k])'>>
    <3> TAKE j \in DOMAIN fn'.vals[b]
    <3> DEFINE w == fn'.vals[b][j]
    <3> HAVE j >= i
    <3>0. j \in DOMAIN x /\ x[j] = w
      BY ONLY <2>2
    <3> HIDE DEF w
    <3>1. /\ fn'.op[w] = "phi" => cells'[loc'[w]] = env'[w]
          /\ fn'.op[w] = "arg" /\ fn'.place[w] # NoReg => cells'[loc'[w]] = <<w, <<>>>>
      BY ONLY <2>3, <3>0, j >= i
    <3>2. ASSUME fn'.op[w] = "select", NEW k \in DOMAIN fn'.vals[b], k < i, fn'.vals[b][k] = fn'.args[w][1]
          PROVE  cells'[loc'[w]] = <<w, OperandsIn(env, fn.vals[b][k])'>>
      <4>1. k \in DOMAIN x /\ x[k] = fn'.vals[b][k]
        BY ONLY <2>2, <3>2
      <4>2. cells'[loc'[w]] = <<w, OperandsIn(env', x[k])>>
        BY ONLY <2>3, <3>0, <3>2, <4>1, j >= i
      <4>3. OperandsIn(env', x[k]) = OperandsIn(env, fn.vals[b][k])'
        BY ONLY <1>2, <4>1
      <4> QED BY ONLY <4>2, <4>3
    <3> QED BY ONLY <3>1, <3>2 DEF w
  <2> QED BY ONLY <2>4 DEF WaitingIn, Term
<1>5. \A u : Fetch(cells', u) = Fetch(cells, u)'
  BY <1>0 DEF Fetch, Term
<1>6. \A s, j : Crosses(cells', env', s, j) <=> Crosses(cells, env, s, j)'
  BY <1>0, <1>5 DEF Crosses
<1> QED BY <1>0, <1>1, <1>3, <1>4, <1>6 DEF Running, RunningIn

\* An allocation that is in force stays so.
LEMMA AgreesStays ==
  ASSUME NEW a, Agrees(a), UNCHANGED <<fn, an, lay, safe, loc, args, result, slots, copies>>
  PROVE  Agrees(a)'
<1>1. Passed(a)'
  BY PassedStays DEF Agrees
<1> QED BY <1>1 DEF Agrees

\* The analysis is behind a run, which an allocation that passed is made into,
\* and a run that has not begun is at the entry.
RunIInv ==
  /\ AllocIInv
  /\ phase \notin {"allocated", "run", "failed"} => reported = Pending
  /\ phase \in {"run", "failed"} => reported = {}
  /\ reported = {} => \E a : Agrees(a)
  /\ phase # "run" => env = Meaning!InitEnv /\ pc = <<1, 1>> /\ seen = <<>>
  /\ phase = "run" => Running

\* Once the check has passed, the function is analysed and the allocation agrees.
LEMMA RunKnows ==
  ASSUME RunIInv, reported = {}
  PROVE  /\ AllKnown /\ IsFunction(src) /\ Matched(src)
         /\ \E a : Agrees(a)
<1>1. phase \in {"allocated", "run", "failed"}
  BY MachineAssumption DEF RunIInv
<1>2. AllKnown
  BY <1>1 DEF RunIInv, AllocIInv, AllKnown
<1>3. IsFunction(src) /\ Matched(src)
  BY DEF RunIInv, AllocIInv, Compilable
<1> QED BY <1>2, <1>3 DEF RunIInv

\* The results before any are computed are the function's alone.
LEMMA StartStays ==
  ASSUME src' = src
  PROVE  (Meaning!InitEnv)' = Meaning!InitEnv
BY DEF Meaning!InitEnv, Meaning!Remats

\* One value.
LEMMA ComputeRuns ==
  ASSUME RunIInv, Compute, reported' = reported
  PROVE  RunIInv' /\ Meaning!Compute
<1>1. phase = "run" /\ reported = {} /\ ~OnEdge /\ Running
  BY DEF Compute, RunIInv
<1>2. PICK a : Agrees(a)
  BY <1>1, RunKnows
<1>3. AllKnown /\ IsFunction(src) /\ Matched(src)
  BY <1>1, RunKnows
<1> DEFINE b == pc[1]
           i == pc[2]
           v == fn.vals[b][i]
<1>4. /\ b \in Blocks(fn) /\ b \in Blocks(src) /\ Here = v /\ Meaning!Here = v
      /\ Meaning!AtValue <=> i \in DOMAIN fn.vals[b] /\ fn.op[v] # "branch"
      /\ Meaning!After = IF fn.op[v] = "ret" THEN <<b, 0>> ELSE <<b, i + 1>>
      /\ Meaning!EnvAfter = Computed(env, v)
      /\ CellsAfter = Leaves(cells, v)
      /\ \A w : Meaning!Operands(w) = OperandsIn(env, w)
  BY <1>1, <1>3, MeansHere
<1>5. i \in DOMAIN fn.vals[b] /\ fn.op[v] # "branch"
  BY <1>4 DEF Compute
<1>6. pc = <<b, i>>
  BY <1>1 DEF Running, RunningIn
<1>7. /\ cells' = Leaves(cells, v) /\ env' = Computed(env, v)
      /\ pc' = IF fn.op[v] = "ret" THEN <<b, 0>> ELSE <<b, i + 1>>
      /\ seen' = IF fn.op[v] \in {"call", "ret"} THEN <<v, PassedOperands(cells, v)>> ELSE seen
      /\ UNCHANGED <<src, fn, order, liveness, phase, scanning, lay, safe, alloc, edges>>
  BY <1>4 DEF Compute
<1>8. RunningIn(cells, env, <<b, i>>)
  BY <1>1, <1>6 DEF Running
<1>9. \A n \in {0, i + 1} : RunningIn(Leaves(cells, v), Computed(env, v), <<b, n>>)
  BY <1>2, <1>3, <1>4, <1>5, <1>8, ValueRun
<1>10. RunningIn(cells', env', pc')
  BY <1>7, <1>9
<1>11. Running'
  BY <1>7, <1>10, RunningStays DEF alloc
<1>12. (\E x : Agrees(x))'
  <2>1. Agrees(a)'
    BY <1>2, <1>7, AgreesStays DEF alloc, scanning
  <2> QED BY <2>1
<1>13. AllocIInv'
  <2>1. Next
    BY DEF Next
  <2>2. [VerifiedNext]_verifiedVars
    BY <1>1, <2>1 DEF VerifiedNext
  <2> QED BY <2>2, AllocStepIInv DEF RunIInv
<1>14. RunIInv'
  BY <1>1, <1>7, <1>11, <1>12, <1>13 DEF RunIInv
<1>15. fn.op[v] \in {"call", "ret"} => PassedOperands(cells, v) = OperandsIn(env, v)
  <2>1. Regular(cells, env) /\ HomedIn(cells, env, b, i)
    <3>1. i > 0
      <4>1. AllKnown /\ b \in Blocks(fn) /\ i \in DOMAIN fn.vals[b]
        BY ONLY <1>3, <1>4, <1>5
      <4> HIDE DEF b, i
      <4>2. i \in 1 .. Len(fn.vals[b]) /\ Len(fn.vals[b]) \in Nat
        BY ONLY <4>1, PlaceFacts
      <4> QED BY ONLY <4>2
    <3> QED BY <1>1, <1>4, <3>1 DEF Running, RunningIn
  <2> QED BY <1>2, <1>3, <1>4, <1>5, <2>1, PassMeans
<1>16. Meaning!Observed(v) <=> fn.op[v] \in {"call", "ret"}
  <2>1. src.op = fn.op
    BY <1>3, SourceFacts
  <2> QED BY <1>5, <2>1 DEF Meaning!Observed
<1>17. seen' = IF Meaning!Observed(v) THEN <<v, Meaning!Operands(v)>> ELSE seen
  BY <1>4, <1>7, <1>15, <1>16
<1>18. ~OnEdge'
  <2>1. pc'[1] = b
    BY <1>7
  <2> QED BY <1>4, <1>7, <2>1 DEF OnEdge
<1> HIDE DEF v, b, i
<1>19. Meaning!Compute
  <2>1. Meaning!AtValue
    BY DEF Compute
  <2>2. env' = Meaning!EnvAfter /\ pc' = Meaning!After
    BY DEF Compute
  <2> QED BY <1>1, <1>4, <1>7, <1>17, <1>18, <2>1, <2>2 DEF Meaning!Compute
<1> QED BY <1>14, <1>19

\* The rest of the way, from a block on an edge.
LEMMA FinishesEdge ==
  ASSUME RunIInv, NEW i \in DOMAIN fn.succs[pc[1]], TakeEdge(i), reported' = reported, OnEdge
  PROVE  RunIInv' /\ UNCHANGED Meaning!vars
<1>1. phase = "run" /\ reported = {} /\ Running
  BY DEF TakeEdge, RunIInv
<1>2. PICK a : Agrees(a)
  BY <1>1, RunKnows
<1>3. AllKnown /\ IsFunction(src) /\ Matched(src)
  BY <1>1, RunKnows
<1> DEFINE d == pc[1]
           s == fn.succs[d][1]
<1>4. d \in Blocks(fn) /\ d \notin Blocks(src) /\ pc = <<d, 1>> /\ pc[2] = 1
  BY <1>1 DEF Running, RunningIn, OnEdge
<1>5. RunningIn(cells, env, <<d, 1>>)
  BY <1>1, <1>4 DEF Running
<1>6. /\ s \in Blocks(src) /\ DOMAIN fn.succs[d] = {1} /\ fn.vals[d] = <<>>
      /\ RunningIn(RunEntries(RunEntries(cells, OutOf(d)), InTo(s)), env, <<s, 1>>)
  BY <1>2, <1>3, <1>4, <1>5, EdgeFinished
<1>7. i = 1
  BY <1>6
<1>8. /\ cells' = RunEntries(RunEntries(cells, OutOf(d)), InTo(s)) /\ env' = env /\ pc' = <<s, 1>>
      /\ UNCHANGED <<src, fn, order, liveness, phase, scanning, lay, safe, alloc>>
  BY <1>7 DEF TakeEdge
<1>9. seen' = seen
  <2>1. pc[2] \notin DOMAIN fn.vals[pc[1]]
    BY <1>6
  <2> QED BY <2>1 DEF TakeEdge
<1>10. RunningIn(cells', env', pc')
  BY <1>6, <1>8
<1>11. Running'
  BY <1>8, <1>10, RunningStays DEF alloc
<1>12. (\E x : Agrees(x))'
  <2>1. Agrees(a)'
    BY <1>2, <1>8, AgreesStays DEF alloc, scanning
  <2> QED BY <2>1
<1>13. AllocIInv'
  <2>1. Next
    BY DEF Next
  <2>2. [VerifiedNext]_verifiedVars
    BY <1>1, <2>1 DEF VerifiedNext
  <2> QED BY <2>2, AllocStepIInv DEF RunIInv
<1>14. RunIInv'
  BY <1>1, <1>8, <1>11, <1>12, <1>13 DEF RunIInv
<1>15. ~OnEdge'
  <2>1. pc'[1] = s
    BY <1>8
  <2> HIDE DEF s
  <2> QED BY <1>6, <1>8, <2>1 DEF OnEdge
<1>16. (IF OnEdge THEN <<fn.succs[pc[1]][1], 1>> ELSE pc) = <<s, 1>>
  OBVIOUS
<1>17. UNCHANGED Meaning!vars
  BY <1>8, <1>9, <1>15, <1>16 DEF Meaning!vars
<1> QED BY <1>14, <1>17

\* An edge, or as far as the block that is on it.
LEMMA TakesEdge ==
  ASSUME RunIInv, NEW i \in DOMAIN fn.succs[pc[1]], TakeEdge(i), reported' = reported, ~OnEdge
  PROVE  RunIInv' /\ Meaning!Next
<1>1. phase = "run" /\ reported = {} /\ Running
  BY DEF TakeEdge, RunIInv
<1>2. PICK a : Agrees(a)
  BY <1>1, RunKnows
<1>3. AllKnown /\ IsFunction(src) /\ Matched(src)
  BY <1>1, RunKnows
<1> DEFINE b == pc[1]
           k == pc[2]
           t == fn.succs[b][i]
           s == src.succs[b][i]
           v == fn.vals[b][k]
<1>4. /\ b \in Blocks(fn) /\ b \in Blocks(src) /\ Here = v /\ Meaning!Here = v
      /\ Meaning!AtEnd <=> k = Len(fn.vals[b]) + 1 \/ (k \in DOMAIN fn.vals[b] /\ fn.op[v] = "branch")
      /\ \A w : Meaning!Operands(w) = OperandsIn(env, w)
  BY <1>1, <1>3, MeansHere
<1>5. Meaning!AtEnd
  BY DEF TakeEdge
<1>6. /\ DOMAIN fn.succs[b] = DOMAIN src.succs[b] /\ src.vals[b] = fn.vals[b] /\ IsGraph(src)
  BY <1>3, <1>4, SourceFacts
<1>7. i \in DOMAIN src.succs[b]
  BY <1>6
<1>8. PICK j : IsSlot(src, b, i, j)
  BY <1>3, <1>4, <1>7 DEF Matched
<1>9. Len(fn.vals[b]) \in Nat /\ DOMAIN fn.vals[b] = 1 .. Len(fn.vals[b])
  BY <1>3, <1>4, AnalysedFacts, GraphTypes
<1>10. k = Len(fn.vals[b]) + 1 \/ (k \in DOMAIN fn.vals[b] /\ fn.op[v] = "branch")
  BY <1>4, <1>5
<1>11. k > 0
  BY <1>9, <1>10
<1>12. Regular(cells, env) /\ HomedIn(cells, env, b, k)
  BY <1>1, <1>4, <1>11 DEF Running, RunningIn
<1>13. /\ IF t \in Blocks(src) THEN t = s ELSE fn.succs[t][1] = s
       /\ RunningIn(RunEntries(RunEntries(cells, OutOf(b)), InTo(t)), Carried(env, s, j), <<t, 1>>)
  BY <1>2, <1>3, <1>4, <1>8, <1>10, <1>12, EdgeTaken
<1>14. env = [u \in Ids |-> env[u]]
  BY <1>12 DEF Regular
<1>15. s \in Blocks(src) /\ Meaning!EnvOnEdge(i) = Carried(env, s, j)
  BY <1>3, <1>8, <1>14, MeansEdge
<1>16. /\ cells' = RunEntries(RunEntries(cells, OutOf(b)), InTo(t)) /\ env' = Meaning!EnvOnEdge(i) /\ pc' = <<t, 1>>
       /\ seen' = IF k \in DOMAIN fn.vals[b] THEN <<v, ReadOperands(cells, v)>> ELSE seen
       /\ UNCHANGED <<src, fn, order, liveness, phase, scanning, lay, safe, alloc>>
  BY <1>4 DEF TakeEdge
<1>17. RunningIn(cells', env', pc')
  BY <1>13, <1>15, <1>16
<1>18. Running'
  BY <1>16, <1>17, RunningStays DEF alloc
<1>19. (\E x : Agrees(x))'
  <2>1. Agrees(a)'
    BY <1>2, <1>16, AgreesStays DEF alloc, scanning
  <2> QED BY <2>1
<1>20. AllocIInv'
  <2>1. Next
    BY DEF Next
  <2>2. [VerifiedNext]_verifiedVars
    BY <1>1, <2>1 DEF VerifiedNext
  <2> QED BY <2>2, AllocStepIInv DEF RunIInv
<1>21. RunIInv'
  BY <1>1, <1>16, <1>18, <1>19, <1>20 DEF RunIInv
<1>22. k \in DOMAIN fn.vals[b] => ReadOperands(cells, v) = OperandsIn(env, v)
  <2> SUFFICES ASSUME k \in DOMAIN fn.vals[b] PROVE ReadOperands(cells, v) = OperandsIn(env, v)
    OBVIOUS
  <2>1. fn.op[v] = "branch"
    BY <1>9, <1>10
  <2>2. fn.op[v] \in {"op", "branch"}
    BY <2>1
  <2> QED BY <1>2, <1>3, <1>4, <1>12, <2>2, ReadMeans
<1>23. seen' = IF k \in DOMAIN src.vals[b] THEN <<Meaning!Here, Meaning!Operands(Meaning!Here)>> ELSE seen
  BY <1>4, <1>6, <1>16, <1>22
<1>24. (IF OnEdge THEN <<fn.succs[pc[1]][1], 1>> ELSE pc)' = <<s, 1>>
  <2>1. pc'[1] = t /\ src' = src /\ fn' = fn
    BY <1>16
  <2> HIDE DEF t, s
  <2>2. OnEdge' <=> t \notin Blocks(src)
    BY <2>1 DEF OnEdge
  <2> QED BY <1>13, <1>16, <2>1, <2>2
<1> HIDE DEF t, v
<1>25. Meaning!TakeEdge(i)
  BY <1>5, <1>16, <1>23, <1>24 DEF Meaning!TakeEdge
<1>26. Meaning!Next
  BY <1>7, <1>25 DEF Meaning!Next
<1> QED BY <1>21, <1>26

\* The arguments come home.
LEMMA EnterRuns ==
  ASSUME RunIInv, Enter, reported' = reported, reported = {}
  PROVE  RunIInv' /\ UNCHANGED Meaning!vars
<1>1. phase = "allocated" /\ env = Meaning!InitEnv /\ pc = <<1, 1>>
  BY DEF Enter, RunIInv
<1>2. PICK a : Agrees(a)
  BY RunKnows
<1>3. AllKnown /\ IsFunction(src) /\ Matched(src)
  BY RunKnows
<1>4. /\ cells' = Transfer(Arrived, Arrivals)
      /\ phase' = IF \E u, v \in RegArgs : u # v /\ loc[u] = loc[v] THEN "failed" ELSE "run"
      /\ UNCHANGED <<src, fn, order, liveness, scanning, lay, safe, alloc, env, pc, seen, edges>>
  BY DEF Enter, Arrived, Arrivals
<1>5. ASSUME phase' = "run" PROVE Running'
  <2>1. \A u, v \in RegArgs : u # v => loc[u] # loc[v]
    BY <1>4, <1>5
  <2>2. RunningIn(Transfer(Arrived, Arrivals), Meaning!InitEnv, <<1, 1>>)
    BY <1>2, <1>3, <2>1, EntryGives
  <2>3. RunningIn(cells', env', pc')
    BY <1>1, <1>4, <2>2
  <2> QED BY <1>4, <2>3, RunningStays DEF alloc
<1>6. (\E x : Agrees(x))'
  <2>1. Agrees(a)'
    BY <1>2, <1>4, AgreesStays DEF alloc, scanning
  <2> QED BY <2>1
<1>7. AllocIInv'
  <2>1. Next
    BY DEF Next
  <2>2. [VerifiedNext]_verifiedVars
    BY <2>1 DEF VerifiedNext
  <2> QED BY <2>2, AllocStepIInv DEF RunIInv
<1>8. phase' \in {"run", "failed"}
  BY <1>4
<1>9. (Meaning!InitEnv)' = Meaning!InitEnv
  BY <1>4, StartStays
<1>10. seen' = <<>> /\ env' = Meaning!InitEnv /\ pc' = <<1, 1>>
  BY <1>1, <1>4 DEF RunIInv
<1>11. RunIInv'
  BY <1>5, <1>6, <1>7, <1>8, <1>9, <1>10 DEF RunIInv
<1>12. UNCHANGED Meaning!vars
  BY <1>4 DEF Meaning!vars, OnEdge
<1> QED BY <1>11, <1>12

\* What comes before a run leaves it where it begins.
LEMMA BeforeRun ==
  ASSUME RunIInv, [VerifiedNext]_verifiedVars, reported' = reported, UNCHANGED <<src, runVars>>,
         phase \notin {"allocated", "run", "failed"}, phase' \notin {"run", "failed"}
  PROVE  RunIInv' /\ UNCHANGED Meaning!vars
<1>1. AllocIInv'
  BY AllocStepIInv DEF RunIInv
<1>2. reported = Pending /\ reported # {}
  BY MachineAssumption DEF RunIInv
<1>3. env = Meaning!InitEnv /\ pc = <<1, 1>> /\ seen = <<>>
  BY DEF RunIInv
<1>4. env' = env /\ pc' = pc /\ seen' = seen /\ src' = src
  BY DEF runVars
<1>5. (Meaning!InitEnv)' = Meaning!InitEnv
  BY StartStays
<1>6. RunIInv'
  BY <1>1, <1>2, <1>3, <1>4, <1>5 DEF RunIInv
<1>7. ~OnEdge /\ ~OnEdge'
  <2>1. 1 \in Blocks(src)
    BY FunctionFacts DEF RunIInv, AllocIInv, Compilable
  <2> QED BY <1>3, <1>4, <2>1 DEF OnEdge
<1>8. UNCHANGED Meaning!vars
  BY <1>4, <1>7 DEF Meaning!vars
<1> QED BY <1>6, <1>8

\* The check, which lets an allocation through or does not.
LEMMA CheckRuns ==
  ASSUME RunIInv, VerifyAllocation
  PROVE  RunIInv' /\ UNCHANGED Meaning!vars
<1>1. AllocIInv'
  <2>1. [VerifiedNext]_verifiedVars
    BY DEF VerifiedNext
  <2> QED BY <2>1, AllocStepIInv DEF RunIInv
<1>2. PICK a : /\ IsAllocation(a) /\ loc' = a.loc /\ args' = a.args /\ result' = a.result /\ slots' = a.slots /\ copies' = a.copies
               /\ reported' = Violations(a)
  BY DEF VerifyAllocation
<1>3. UNCHANGED <<src, fn, order, liveness, phase, scanVars, lay, safe, runVars>> /\ phase = "allocated"
  BY DEF VerifyAllocation
<1>4. ASSUME reported' = {} PROVE Agrees(a)'
  <2>1. Passed(a)
    BY <1>2, <1>4 DEF Passed
  <2>2. Passed(a)'
    BY <1>3, <2>1, PassedStays DEF scanVars
  <2> QED BY <1>2, <2>2 DEF Agrees
<1>5. (reported = {})' => (\E x : Agrees(x))'
  BY <1>4
<1>6. env' = env /\ pc' = pc /\ seen' = seen /\ src' = src /\ fn' = fn /\ phase' = "allocated"
  BY <1>3 DEF runVars
<1>7. (Meaning!InitEnv)' = Meaning!InitEnv
  BY <1>6, StartStays
<1>8. RunIInv'
  BY <1>1, <1>3, <1>5, <1>6, <1>7 DEF RunIInv
<1>9. UNCHANGED Meaning!vars
  BY <1>6 DEF Meaning!vars, OnEdge
<1> QED BY <1>8, <1>9

\* Nothing at all.
LEMMA IdleRuns ==
  ASSUME RunIInv, UNCHANGED verifiedVars
  PROVE  RunIInv' /\ UNCHANGED Meaning!vars
<1> USE DEF liveness, scanning, alloc, runVars
<1>1. UNCHANGED <<src, fn, an, lay, safe, loc, args, result, slots, copies, phase, env, pc, seen, cells, reported>>
  BY DEF verifiedVars, vars
<1>2. AllocIInv'
  BY AllocStepIInv DEF RunIInv
<1>3. ASSUME reported' = {} PROVE (\E x : Agrees(x))'
  <2>1. PICK a : Agrees(a)
    BY <1>1, <1>3 DEF RunIInv
  <2>2. Agrees(a)'
    BY <1>1, <2>1, AgreesStays
  <2> QED BY <2>2
<1>4. ASSUME phase' = "run" PROVE Running'
  <2>1. Running
    BY <1>1, <1>4 DEF RunIInv
  <2>2. RunningIn(cells', env', pc')
    BY <1>1, <2>1 DEF Running
  <2> QED BY <1>1, <2>2, RunningStays
<1>5. (Meaning!InitEnv)' = Meaning!InitEnv
  BY <1>1, StartStays
<1>6. RunIInv'
  BY <1>1, <1>2, <1>3, <1>4, <1>5 DEF RunIInv
<1>7. UNCHANGED Meaning!vars
  BY <1>1 DEF Meaning!vars, OnEdge
<1> QED BY <1>6, <1>7

\* Every step: the invariant is kept, and the function's meaning takes the step or
\* stands still.
LEMMA RunSteps ==
  ASSUME RunIInv, [VerifiedNext]_verifiedVars
  PROVE  RunIInv' /\ [Meaning!Next]_Meaning!vars
<1>1. CASE VerifyAllocation
  BY <1>1, CheckRuns
<1>2. CASE UNCHANGED verifiedVars
  BY <1>2, IdleRuns
<1>3. CASE (phase # "allocated" \/ reported = {}) /\ Next /\ UNCHANGED reported
  <2>1. CASE Split
    BY <1>3, <2>1, BeforeRun DEF Split
  <2>2. CASE Liveness
    BY <1>3, <2>2, BeforeRun DEF Liveness
  <2>3. CASE Analysed
    BY <1>3, <2>3, BeforeRun DEF Analysed
  <2>4. CASE ScanStep
    BY <1>3, <2>4, BeforeRun DEF ScanStep, ScanNext, Precolour, Refuse, Visit
  <2>5. CASE Slots
    BY <1>3, <2>5, BeforeRun DEF Slots
  <2>6. CASE Enter
    <3>1. reported = {}
      BY <1>3, <2>6 DEF Enter
    <3> QED BY <1>3, <2>6, <3>1, EnterRuns
  <2>7. CASE Compute
    BY <1>3, <2>7, ComputeRuns DEF Meaning!Next
  <2>8. ASSUME NEW i \in DOMAIN fn.succs[pc[1]], TakeEdge(i) PROVE RunIInv' /\ [Meaning!Next]_Meaning!vars
    <3>1. CASE OnEdge
      BY <1>3, <2>8, <3>1, FinishesEdge
    <3>2. CASE ~OnEdge
      BY <1>3, <2>8, <3>2, TakesEdge
    <3> QED BY <3>1, <3>2
  <2> QED BY <1>3, <2>1, <2>2, <2>3, <2>4, <2>5, <2>6, <2>7, <2>8 DEF Next
<1> QED BY <1>1, <1>2, <1>3 DEF VerifiedNext

\* At first the machine has not begun, nor has what it is compared with.
LEMMA RunBegins == VerifiedInit => RunIInv /\ Meaning!Init
<1> SUFFICES ASSUME VerifiedInit PROVE RunIInv /\ Meaning!Init
  OBVIOUS
<1>1. phase = "split" /\ reported = Pending /\ env = Meaning!InitEnv /\ pc = <<1, 1>> /\ seen = <<>> /\ Compilable(src)
  BY DEF VerifiedInit, InitAlloc
<1>2. AllocIInv
  BY <1>1 DEF AllocIInv
<1>3. RunIInv
  BY <1>1, <1>2, MachineAssumption DEF RunIInv
<1>4. 1 \in Blocks(src)
  BY <1>1, FunctionFacts DEF Compilable
<1>5. ~OnEdge
  BY <1>1, <1>4 DEF OnEdge
<1>6. Meaning!Init
  BY <1>1, <1>5 DEF Meaning!Init
<1> QED BY <1>3, <1>6

\* The machine is as it should be in every state.
LEMMA RunInvariance == VerifiedSpec => []RunIInv
<1>1. VerifiedInit => RunIInv
  BY RunBegins
<1>2. RunIInv /\ [VerifiedNext]_verifiedVars => RunIInv'
  BY RunSteps
<1> QED BY <1>1, <1>2, PTL DEF VerifiedSpec

\* Whatever allocation VerifyAllocation lets through (src/ssa/regalloc.go), every
\* value that is live is in its home while the code runs: in its register or its
\* slot, through calls, copies, spills, scratch registers and slots that are
\* shared, for any function that can be compiled and any number of registers.
THEOREM LiveValuesAreHome == VerifiedSpec => []LiveHomes
<1>1. RunIInv => LiveHomes
  <2> SUFFICES ASSUME RunIInv, phase = "run", ~OnEdge, pc[2] > 0, NEW v \in LiveHere PROVE cells[loc[v]] = env[v]
    BY DEF LiveHomes
  <2>1. Running
    BY DEF RunIInv
  <2>2. HomedIn(cells, env, pc[1], pc[2])
    BY <2>1 DEF Running, RunningIn, OnEdge
  <2>3. v \in LiveAt(fn, pc[1], pc[2])
    BY DEF LiveHere, LiveAt, Rest
  <2> QED BY <2>2, <2>3 DEF HomedIn
<1> QED BY <1>1, RunInvariance, PTL

\* ... and the code computes what the function means (specs/021): its calls,
\* branches and returns read what SSAMachine gives them, in the same order,
\* whichever edges were split on the way.
THEOREM CodeImplementsMeaning == VerifiedSpec => RunsAsMeant
<1>1. VerifiedInit => Meaning!Init
  BY RunBegins
<1>2. RunIInv /\ [VerifiedNext]_verifiedVars => [Meaning!Next]_Meaning!vars
  BY RunSteps
<1>3. VerifiedSpec => Meaning!Spec
  BY <1>1, <1>2, RunInvariance, PTL DEF VerifiedSpec, Meaning!Spec
<1> QED BY <1>3 DEF RunsAsMeant

-----------------------------------------------------------------------------
(* The arguments that arrive in registers *)

IsRegArg(v) == fn.op[v] = "arg" /\ fn.place[v] # NoReg

LEMMA RegArgFacts ==
  ASSUME AllKnown, NEW u \in RegArgs
  PROVE  /\ u \in Tracked(fn) /\ u \in Values(fn) /\ u \in Ids /\ IsRegArg(u) /\ an.defReg[u] = fn.place[u]
         /\ \E i \in DOMAIN fn.vals[1] : fn.vals[1][i] = u
<1>1. u \in an.tracked /\ IsRegArg(u) /\ an.tracked = Tracked(fn) /\ Tracked(fn) \subseteq Values(fn) /\ Tracked(fn) \subseteq Ids
  BY AnalysedFacts DEF RegArgs, IsRegArg
<1>2. an.defReg[u] = fn.place[u]
  BY <1>1 DEF AllKnown, AnalysedAs, IsAnalysis, IsRegArg
<1>3. PICK b \in Blocks(fn) : \E i \in DOMAIN fn.vals[b] : fn.vals[b][i] = u
  BY <1>1, HasPlace
<1>4. PICK i \in DOMAIN fn.vals[b] : fn.vals[b][i] = u
  BY <1>3
<1>5. b = 1
  <2>1. WellPlaced(fn, b, i)
    BY AnalysedFacts
  <2>2. fn.op[fn.vals[b][i]] = "arg"
    BY ONLY <1>1, <1>4 DEF IsRegArg
  <2> QED BY ONLY <2>1, <2>2 DEF WellPlaced
<1> QED BY <1>1, <1>2, <1>4, <1>5

\* The entry stands before everything else.
LEMMA EntryFirst ==
  ASSUME AllKnown, NEW b \in Blocks(fn)
  PROVE  /\ 1 \in Blocks(fn) /\ lay.last[1] \in Nat /\ lay.last[b] \in Nat /\ lay.first[b] \in Nat
         /\ lay.last[1] <= lay.last[b] /\ (b # 1 => lay.last[1] < lay.first[b])
<1>1. IsFunction(fn) /\ Fits(fn, lay) /\ 1 \in Blocks(fn)
  BY AnalysedFacts, FunctionFacts
<1>2. \A c \in Blocks(fn) : lay.first[c] \in Nat /\ lay.last[c] \in Nat /\ lay.first[c] <= lay.last[c]
  <2> TAKE c \in Blocks(fn)
  <2>1. lay.first[c] \in Nat /\ lay.last[c] = lay.first[c] + Len(fn.vals[c]) /\ Len(fn.vals[c]) \in Nat
    BY <1>1, EndPosition
  <2> QED BY <2>1
<1>3. PICK k \in DOMAIN lay.order : lay.order[k] = b
  BY <1>1 DEF Fits, IsLayout, IsOrder
<1>4. lay.order \in Seq(Blocks(fn)) /\ lay.order[1] = 1 /\ Len(lay.order) >= 1
  BY <1>1 DEF Fits, IsLayout, IsOrder
<1>5. k \in Nat /\ k >= 1 /\ 1 \in DOMAIN lay.order
  <2>1. Len(lay.order) \in Nat /\ DOMAIN lay.order = 1 .. Len(lay.order)
    BY <1>4, SequenceTypes
  <2> QED BY <1>3, <1>4, <2>1
<1>6. CASE b = 1
  BY <1>1, <1>2, <1>6
<1>7. CASE b # 1
  <2>1. 1 < k
    BY <1>3, <1>4, <1>5, <1>7
  <2>2. lay.last[1] < lay.first[b]
    BY <1>1, <1>3, <1>4, <1>5, <2>1 DEF Fits, IsLayout
  <2> QED BY <1>1, <1>2, <2>2
<1> QED BY <1>6, <1>7

\* The arguments that arrive in registers stand before everything else.
LEMMA RegArgFirst ==
  ASSUME AllKnown, NEW u \in RegArgs
  PROVE  /\ lay.pos[u] \in Nat
         /\ \A w \in Values(fn) : ~IsRegArg(w) => lay.pos[u] < lay.pos[w]
         /\ \A b \in Blocks(fn) : lay.pos[u] < lay.last[b] /\ (b # 1 => lay.pos[u] < lay.first[b])
<1>1. PICK i \in DOMAIN fn.vals[1] : fn.vals[1][i] = u
  BY RegArgFacts
<1>2. IsFunction(fn) /\ Fits(fn, lay) /\ 1 \in Blocks(fn) /\ IsRegArg(u)
  BY AnalysedFacts, FunctionFacts, RegArgFacts
<1>3. /\ lay.pos[u] = lay.first[1] + i - 1 /\ lay.first[1] \in Nat /\ i \in Nat /\ i <= Len(fn.vals[1]) /\ Len(fn.vals[1]) \in Nat
      /\ lay.last[1] = lay.first[1] + Len(fn.vals[1]) /\ lay.pos[u] \in Nat /\ lay.pos[u] < lay.last[1]
  BY <1>1, <1>2, PositionOf, EndPosition, Stands
<1>4. \A b \in Blocks(fn) : lay.pos[u] < lay.last[b] /\ (b # 1 => lay.pos[u] < lay.first[b])
  <2> TAKE b \in Blocks(fn)
  <2>1. lay.last[1] \in Nat /\ lay.last[b] \in Nat /\ lay.first[b] \in Nat /\ lay.last[1] <= lay.last[b] /\ (b # 1 => lay.last[1] < lay.first[b])
    BY EntryFirst
  <2> QED BY <1>3, <2>1
<1>5. \A w \in Values(fn) : ~IsRegArg(w) => lay.pos[u] < lay.pos[w]
  <2> SUFFICES ASSUME NEW w \in Values(fn), ~IsRegArg(w) PROVE lay.pos[u] < lay.pos[w]
    OBVIOUS
  <2>1. PICK b \in Blocks(fn) : \E k \in DOMAIN fn.vals[b] : fn.vals[b][k] = w
    BY HasPlace
  <2>2. PICK k \in DOMAIN fn.vals[b] : fn.vals[b][k] = w
    BY <2>1
  <2>3. lay.pos[w] = lay.first[b] + k - 1 /\ lay.first[b] \in Nat /\ k \in Nat /\ k >= 1 /\ lay.pos[w] \in Nat /\ lay.first[b] <= lay.pos[w]
    BY <1>2, <2>2, PositionOf, Stands
  <2>4. CASE b # 1
    <3>1. lay.pos[u] < lay.first[b]
      BY <1>4, <2>4
    <3> QED BY <1>3, <2>3, <3>1
  <2>5. CASE b = 1
    <3>1. ~(k \in 1 .. i)
      <4>1. WellPlaced(fn, 1, i)
        BY <1>1, <1>2, AnalysedFacts
      <4>2. fn.vals[1][i] = u /\ fn.op[u] = "arg" /\ fn.place[u] # NoReg
        BY <1>1, <1>2 DEF IsRegArg
      <4>3. \A n \in 1 .. i : fn.op[fn.vals[1][n]] = "arg" /\ fn.place[fn.vals[1][n]] # NoReg
        BY ONLY <4>1, <4>2 DEF WellPlaced
      <4>4. fn.vals[1][k] = w /\ ~(fn.op[w] = "arg" /\ fn.place[w] # NoReg)
        BY <2>2, <2>5 DEF IsRegArg
      <4> QED BY ONLY <4>3, <4>4
    <3>2. i < k
      BY <1>3, <2>3, <3>1
    <3> QED BY <1>3, <2>3, <2>5, <3>2
  <2> QED BY <2>4, <2>5
<1> QED BY <1>3, <1>4, <1>5

\* The range of any other value starts after them.
LEMMA RegArgsStartFirst ==
  ASSUME AllKnown, NEW u \in RegArgs, NEW x \in Tracked(fn), ~IsRegArg(x)
  PROVE  lay.pos[u] < an.start[x]
<1>1. /\ IsFunction(fn) /\ Fits(fn, lay) /\ x \in Values(fn) /\ LiveAtStart(fn, 1) = {}
      /\ \A b \in Blocks(fn) : liveIn[b] = LiveAtStart(fn, b)
      /\ an.start[x] \in Covers(fn, lay, liveIn, liveOut, x)
  BY AnalysedFacts DEF IsRange
<1>2. lay.pos[u] < lay.pos[x]
  BY <1>1, RegArgFirst
<1>3. CASE an.start[x] \in Writes(fn, lay, x)
  <2>1. CASE an.start[x] = lay.pos[x]
    BY <1>2, <2>1
  <2>2. CASE fn.op[x] = "select" /\ an.start[x] = lay.pos[fn.args[x][1]]
    <3>1. PICK b \in Blocks(fn) : \E i \in DOMAIN fn.vals[b] : fn.vals[b][i] = x
      BY <1>1, HasPlace
    <3>2. PICK i \in DOMAIN fn.vals[b] : fn.vals[b][i] = x
      BY <3>1
    <3>3. PICK k \in DOMAIN fn.vals[b] : fn.vals[b][k] = fn.args[x][1] /\ fn.op[fn.vals[b][k]] = "call"
      BY <2>2, <3>2, CallOf
    <3>4. fn.vals[b][k] \in Values(fn)
      BY <1>1, Stands
    <3>5. ~IsRegArg(fn.vals[b][k])
      BY <3>3 DEF IsRegArg
    <3> QED BY <2>2, <3>3, <3>4, <3>5, RegArgFirst
  <2>3. CASE fn.op[x] = "phi" /\ an.start[x] \in {lay.last[p] : p \in ToSet(fn.preds[BlockOf(fn, x)])}
    <3>1. PICK b \in Blocks(fn) : \E i \in DOMAIN fn.vals[b] : fn.vals[b][i] = x
      BY <1>1, HasPlace
    <3>2. BlockOf(fn, x) = b
      BY <1>1, <3>1, Stands
    <3>3. \A c \in ToSet(fn.preds[b]) : c \in Blocks(fn)
      BY <1>1, FunctionFacts, GraphTypes, InSequence
    <3> QED BY <2>3, <3>2, <3>3, RegArgFirst
  <2> QED BY <1>3, <2>1, <2>2, <2>3 DEF Writes
<1>4. CASE an.start[x] \in Uses(fn, lay, x)
  <2>1. CASE an.start[x] \in {lay.last[b] : b \in {c \in Blocks(fn) : x \in ReadAtEnd(fn, c)}}
    BY <2>1, RegArgFirst
  <2>2. CASE \E w \in Values(fn) : x \in Reads(fn, w) /\ an.start[x] = lay.pos[w]
    <3>1. PICK w \in Values(fn) : x \in Reads(fn, w) /\ an.start[x] = lay.pos[w]
      BY <2>2
    <3>2. lay.pos[x] < lay.pos[w]
      BY <1>1, <3>1, ReadsAfter
    <3>3. lay.pos[u] \in Nat /\ lay.pos[x] \in Nat /\ lay.pos[w] \in Nat
      <4>1. \A y \in Values(fn) : lay.pos[y] \in Nat
        BY <1>1, HasPlace, PositionOf
      <4> QED BY <1>1, <4>1, RegArgFirst
    <3> QED BY <1>2, <3>1, <3>2, <3>3
  <2> QED BY <1>4, <2>1, <2>2 DEF Uses
<1>5. CASE an.start[x] \in {lay.first[b] : b \in {c \in Blocks(fn) : x \in liveIn[c]}}
  <2>1. PICK b \in Blocks(fn) : x \in liveIn[b] /\ an.start[x] = lay.first[b]
    BY <1>5
  <2>2. b # 1
    BY <1>1, <2>1
  <2> QED BY <2>1, <2>2, RegArgFirst
<1>6. CASE an.start[x] \in {lay.last[b] : b \in {c \in Blocks(fn) : x \in liveOut[c]}}
  BY <1>6, RegArgFirst
<1> QED BY <1>1, <1>3, <1>4, <1>5, <1>6 DEF Covers

\* One that is not left in its register is still to end when the others start.
LEMMA RegArgsInFrame ==
  ASSUME AllKnown, Scanned, NEW u \in RegArgs, NEW v \in RegArgs, home[v] = Frame
  PROVE  an.start[u] < an.end[v]
<1>1. /\ v \in Tracked(fn) /\ u \in Tracked(fn) /\ v \in an.tracked /\ an.defReg[v] = fn.place[v] /\ fn.place[v] # NoReg
      /\ an.tracked = Tracked(fn)
  BY RegArgFacts, AnalysedFacts DEF IsRegArg
<1>2. an.start[u] \in Nat /\ lay.pos[u] \in Nat /\ an.start[u] <= lay.pos[u] /\ an.end[v] \in Nat
  BY <1>1, RangeFacts
<1>3. lay.pos[u] < an.end[v]
  <2>1. CASE v \in an.wide \cup an.across
    <3>1. v \in an.across
      BY <2>1 DEF AllKnown, AnalysedAs, IsAnalysis
    <3>2. PICK c \in Calls(fn) : lay.pos[c] < an.end[v]
      BY <3>1 DEF AllKnown, AnalysedAs, IsAnalysis
    <3>3. c \in Values(fn) /\ ~IsRegArg(c)
      BY DEF Calls, IsRegArg
    <3>4. lay.pos[u] < lay.pos[c]
      BY <3>3, RegArgFirst
    <3>5. lay.pos[c] \in Nat
      BY <3>3, AnalysedFacts, HasPlace, PositionOf
    <3> QED BY <1>2, <3>2, <3>4, <3>5
  <2>2. CASE v \notin an.wide \cup an.across
    <3>1. v \in Visited /\ fixed[v] # NoReg
      BY <1>1 DEF Scanned, Visited, FixedAsNamed
    <3>2. PICK x \in Visited : fixed[x] = NoReg /\ an.start[x] <= an.end[v]
      BY <2>2, <3>1 DEF Scanned, Displaced
    <3>3. x \in an.tracked /\ an.defReg[x] = NoReg
      BY <3>2 DEF Visited, Scanned, FixedAsNamed
    <3>4. x \in Tracked(fn) /\ ~IsRegArg(x)
      BY <1>1, <3>3, RegArgFacts DEF RegArgs, IsRegArg
    <3>5. lay.pos[u] < an.start[x] /\ an.start[x] \in Nat
      BY <3>4, RegArgsStartFirst, RangeFacts
    <3> QED BY <1>2, <3>2, <3>5
  <2> QED BY <2>1, <2>2
<1> QED BY <1>2, <1>3

\* What entryArgs refuses is none of the allocator's making.
LEMMA ArrivalsDiffer ==
  ASSUME AllKnown, Scanned, NEW a, Agrees(a), NEW u \in RegArgs, NEW v \in RegArgs, u # v, loc[u] = loc[v],
         \A x \in RegArgs : IF loc[x] \in Regs THEN loc[x] = home[x] ELSE home[x] = Frame
  PROVE  FALSE
<1>1. /\ u \in Tracked(fn) /\ v \in Tracked(fn) /\ an.tracked = Tracked(fn) /\ IsRegArg(u) /\ IsRegArg(v)
      /\ an.defReg[u] = fn.place[u] /\ an.defReg[v] = fn.place[v]
  BY RegArgFacts, AnalysedFacts
<1>2. CASE loc[u] \in Regs
  <2>1. home[u] = home[v] /\ home[u] \in Regs /\ fixed[u] = fn.place[u] /\ fixed[v] = fn.place[v]
    BY <1>1, <1>2 DEF Scanned, FixedAsNamed
  <2>2. fn.place[u] = fn.place[v] /\ fn.place[u] # NoReg
    BY <1>1, <2>1 DEF Scanned, FixedHome, IsRegArg
  <2> QED BY <1>1, <2>2, AnalysedFacts DEF Ready, Conventional, IsRegArg
<1>3. CASE loc[u] \notin Regs
  <2>1. home[u] = Frame /\ home[v] = Frame
    BY <1>3
  <2>2. an.start[u] < an.end[v] /\ an.start[v] < an.end[u]
    BY <2>1, RegArgsInFrame
  <2>3. Home(a, u) # Home(a, v)
    BY <1>1, <2>2, HomesApart DEF Agrees
  <2> QED BY <1>1, <2>3, LocFacts
<1> QED BY <1>2, <1>3

FailedIInv == phase = "failed" => \E u, v \in RegArgs : u # v /\ loc[u] = loc[v]

LEMMA FailedStep == FailedIInv /\ [VerifiedNext]_verifiedVars => FailedIInv'
<1> SUFFICES ASSUME FailedIInv, [VerifiedNext]_verifiedVars, phase' = "failed"
             PROVE  (\E u, v \in RegArgs : u # v /\ loc[u] = loc[v])'
  BY DEF FailedIInv
<1>1. CASE Enter
  <2>1. \E u, v \in RegArgs : u # v /\ loc[u] = loc[v]
    BY <1>1 DEF Enter
  <2>2. UNCHANGED <<fn, an, loc>>
    BY <1>1 DEF Enter, scanning, alloc
  <2> QED BY <2>1, <2>2 DEF RegArgs
<1>2. CASE UNCHANGED verifiedVars
  <2>1. phase = "failed" /\ UNCHANGED <<fn, an, loc>>
    BY <1>2 DEF verifiedVars, vars, scanning, alloc
  <2> QED BY <2>1 DEF FailedIInv, RegArgs
<1>3. CASE VerifyAllocation
  BY <1>3 DEF VerifyAllocation, scanVars
<1>4. CASE Split \/ Liveness \/ Analysed \/ Slots \/ Compute \/ \E i \in DOMAIN fn.succs[pc[1]] : TakeEdge(i)
  BY <1>4 DEF Split, Liveness, Analysed, Slots, Compute, TakeEdge
<1>5. CASE ScanStep
  BY <1>5 DEF ScanStep, ScanNext, Precolour, Refuse, Visit
<1> QED BY <1>1, <1>2, <1>3, <1>4, <1>5 DEF VerifiedNext, Next

\* For every function the compiler may be given and every allocation that passes the
\* check, entryArgs refuses only one that puts an argument where the scan did not
\* (src/ssagen/ssagen.go, entryArgs: "pre-colouring is what makes it impossible").
THEOREM ArrivalsStayApart == VerifiedSpec => []ArrivalsApart
<1>1. VerifiedInit => FailedIInv
  BY DEF VerifiedInit, InitAlloc, FailedIInv
<1>2. VerifiedSpec => []FailedIInv
  BY <1>1, FailedStep, PTL DEF VerifiedSpec
<1>3. RunIInv /\ HomesIInv /\ FailedIInv => ArrivalsApart
  <2> SUFFICES ASSUME RunIInv, HomesIInv, FailedIInv, phase = "failed",
                      ~ \E v \in RegArgs : IF loc[v] \in Regs THEN loc[v] # home[v] ELSE home[v] # Frame
               PROVE  FALSE
    BY DEF ArrivalsApart
  <2>1. AllKnown /\ \E a : Agrees(a)
    BY RunKnows DEF RunIInv
  <2>2. Scanned
    BY DEF HomesIInv
  <2>3. PICK a : Agrees(a)
    BY <2>1
  <2>4. PICK u \in RegArgs : \E v \in RegArgs : u # v /\ loc[u] = loc[v]
    BY DEF FailedIInv
  <2>5. PICK v \in RegArgs : u # v /\ loc[u] = loc[v]
    BY <2>4
  <2>6. \A x \in RegArgs : IF loc[x] \in Regs THEN loc[x] = home[x] ELSE home[x] = Frame
    OBVIOUS
  <2> QED BY <2>1, <2>2, <2>3, <2>5, <2>6, ArrivalsDiffer
<1> QED BY <1>2, <1>3, RunInvariance, HomesInvariance, PTL

-----------------------------------------------------------------------------
(* The order of the copies of an edge *)

\* Copies that are to happen at once: each destination is written by one of them,
\* and none moves a value to where it is.
Parallel(cs) ==
  /\ cs \subseteq Copies /\ IsFiniteSet(cs)
  /\ \A c \in cs : /\ c.dst \notin ScratchRegs /\ c.dst # NoReg /\ c.dst # c.src /\ c.src # Scratch[2]
                   /\ c.src = NoReg => c.val \in Remats(fn)
  /\ \A c, x \in cs : c.dst = x.dst => c = x

ReadyIn(cs) == {c \in cs : \A x \in cs \ {c} : x.src # c.dst}
Redirect(x, l) == [x EXCEPT !.src = IF @ = l THEN Scratch[1] ELSE @]
Redirected(cs, l) == {Redirect(x, l) : x \in cs}

LEMMA ScratchFacts ==
  /\ Scratch[1] \in ScratchRegs /\ Scratch[2] \in ScratchRegs /\ Scratch[1] # Scratch[2]
  /\ Scratch[1] \in Int /\ Scratch[2] \in Int /\ NoReg \notin ScratchRegs /\ NoReg \notin Int /\ ScratchRegs \subseteq Int
  /\ Len(Scratch) \in Nat /\ Len(Scratch) >= 2 /\ DOMAIN Scratch = 1 .. Len(Scratch)
  /\ \A i, j \in DOMAIN Scratch : Scratch[i] = Scratch[j] => i = j
  /\ \A i \in DOMAIN Scratch : Scratch[i] \in ScratchRegs
<1>1. Scratch \in Seq(Nat) /\ Len(Scratch) >= 2 /\ IsInjective(Scratch) /\ NoReg \notin Int
  BY MachineAssumption
<1>2. Len(Scratch) \in Nat /\ DOMAIN Scratch = 1 .. Len(Scratch) /\ \A i \in DOMAIN Scratch : Scratch[i] \in Nat
  BY <1>1, SequenceTypes
<1>3. 1 \in DOMAIN Scratch /\ 2 \in DOMAIN Scratch
  BY <1>1, <1>2
<1>4. ScratchRegs = {Scratch[i] : i \in DOMAIN Scratch}
  BY DEF ScratchRegs, ToSet
<1> QED BY <1>1, <1>2, <1>3, <1>4 DEF IsInjective

LEMMA RedirectGives ==
  ASSUME NEW x \in Copies, NEW l
  PROVE  LET y == Redirect(x, l)
         IN  y \in Copies /\ y.dst = x.dst /\ y.val = x.val /\ y.src = IF x.src = l THEN Scratch[1] ELSE x.src
<1>1. x = [dst |-> x.dst, src |-> x.src, val |-> x.val] /\ x.dst \in Int \cup {NoReg} /\ x.src \in Int \cup {NoReg} /\ x.val \in Ids
  BY DEF Copies
<1>2. Redirect(x, l) = [dst |-> x.dst, src |-> IF x.src = l THEN Scratch[1] ELSE x.src, val |-> x.val]
  BY <1>1 DEF Redirect
<1> QED BY <1>1, <1>2, ScratchFacts DEF Copies

\* When every copy has to wait for another, they go round: each reads what one of
\* them writes.
LEMMA EveryoneWaits ==
  ASSUME NEW cs, Parallel(cs), ReadyIn(cs) = {}
  PROVE  \A x \in cs : \E c \in cs : x.src = c.dst
<1> DEFINE f == [c \in cs |-> CHOOSE x \in cs \ {c} : x.src = c.dst]
<1>1. \A c \in cs : f[c] \in cs /\ f[c].src = c.dst
  <2> TAKE c \in cs
  <2>1. \E x \in cs \ {c} : x.src = c.dst
    BY DEF ReadyIn
  <2> QED BY <2>1
<1>2. f \in [cs -> cs]
  BY <1>1
<1> HIDE DEF f
<1>3. \A c, x \in cs : f[c] = f[x] => c = x
  BY <1>1 DEF Parallel
<1>4. f \in Injection(cs, cs)
  BY <1>2, <1>3 DEF Injection, IsInjective
<1>5. f \in Surjection(cs, cs)
  BY <1>4, FS_Injection DEF Parallel
<1>6. \A x \in cs : \E c \in cs : f[c] = x
  BY <1>5 DEF Surjection
<1> QED BY <1>1, <1>6

\* A copy that nothing waits for is made.
LEMMA MakingOne ==
  ASSUME NEW cs, Parallel(cs), NEW c \in cs
  PROVE  /\ Parallel(cs \ {c}) /\ Cardinality(cs) \in Nat /\ Cardinality(cs) >= 1 /\ Cardinality(cs \ {c}) = Cardinality(cs) - 1
<1>1. IsFiniteSet(cs \ {c}) /\ Cardinality(cs \ {c}) = Cardinality(cs) - 1
  BY FS_RemoveElement DEF Parallel
<1>2. Cardinality(cs) \in Nat /\ Cardinality(cs) # 0
  BY FS_CardinalityType, FS_EmptySet DEF Parallel
<1>3. Parallel(cs \ {c})
  BY <1>1 DEF Parallel
<1> QED BY <1>1, <1>2, <1>3

\* When they go round, one source is saved, and the copy that writes there is the next.
LEMMA SavingOne ==
  ASSUME NEW cs, Parallel(cs), ReadyIn(cs) = {}, NEW c \in cs
  PROVE  /\ Parallel(Redirected(cs, c.src)) /\ Cardinality(Redirected(cs, c.src)) = Cardinality(cs)
         /\ ReadyIn(Redirected(cs, c.src)) # {}
         /\ c.src # NoReg /\ \A x \in cs : x.src \notin ScratchRegs
<1> DEFINE l == c.src
           rs == Redirected(cs, l)
           f == [x \in cs |-> Redirect(x, l)]
<1>1. \A x \in cs : \E d \in cs : x.src = d.dst
  BY EveryoneWaits
<1>2. c.src # NoReg /\ \A x \in cs : x.src \notin ScratchRegs
  BY <1>1 DEF Parallel
<1>3. \A x \in cs : /\ x \in Copies /\ f[x] \in Copies /\ f[x].dst = x.dst /\ f[x].val = x.val
                    /\ f[x].src = IF x.src = l THEN Scratch[1] ELSE x.src
  BY RedirectGives DEF Parallel
<1>4. rs = {f[x] : x \in cs}
  BY DEF Redirected
<1>5. \A x, y \in cs : f[x].dst = f[y].dst => x = y
  BY <1>3 DEF Parallel
<1> HIDE DEF f, rs
<1>6. f \in [cs -> rs]
  <2>1. f = [x \in cs |-> f[x]]
    BY DEF f
  <2> QED BY <1>4, <2>1
<1>7. f \in Surjection(cs, rs) /\ f \in Injection(cs, rs)
  BY <1>4, <1>5, <1>6 DEF Surjection, Injection, IsInjective
<1>8. IsFiniteSet(rs) /\ Cardinality(rs) = Cardinality(cs)
  BY <1>7, FS_Surjection DEF Parallel
<1>9. Parallel(rs)
  <2>1. rs \subseteq Copies
    BY <1>3, <1>4
  <2>2. \A y \in rs : /\ y.dst \notin ScratchRegs /\ y.dst # NoReg /\ y.dst # y.src /\ y.src # Scratch[2]
                      /\ y.src = NoReg => y.val \in Remats(fn)
    <3> SUFFICES ASSUME NEW x \in cs
                 PROVE  LET y == f[x] IN /\ y.dst \notin ScratchRegs /\ y.dst # NoReg /\ y.dst # y.src /\ y.src # Scratch[2]
                                         /\ y.src = NoReg => y.val \in Remats(fn)
      BY <1>4
    <3>1. x.dst \notin ScratchRegs /\ x.dst # NoReg /\ x.dst # x.src /\ x.src # Scratch[2] /\ (x.src = NoReg => x.val \in Remats(fn))
      BY DEF Parallel
    <3> QED BY <1>3, <3>1, ScratchFacts
  <2>3. \A y, z \in rs : y.dst = z.dst => y = z
    BY <1>4, <1>5
  <2> QED BY <1>8, <2>1, <2>2, <2>3 DEF Parallel
<1>10. ReadyIn(rs) # {}
  <2>1. PICK d \in cs : c.src = d.dst
    BY <1>1
  <2>2. \A x \in cs : f[x].src # f[d].dst
    <3> TAKE x \in cs
    <3>1. d.dst \notin ScratchRegs /\ f[d].dst = l
      BY <1>3, <2>1 DEF Parallel
    <3> QED BY <1>3, <2>1, <3>1, ScratchFacts
  <2>3. f[d] \in rs /\ \A y \in rs : y.src # f[d].dst
    BY <1>4, <2>2
  <2> QED BY <2>3 DEF ReadyIn
<1> QED BY <1>2, <1>8, <1>9, <1>10 DEF rs

-----------------------------------------------------------------------------
(* What the copies leave *)

\* What is where when only left remains to be done of the copies cs, which found m0.
Tracks(left, m, cs, m0) ==
  /\ DOMAIN m = Cells /\ DOMAIN m0 = Cells
  /\ \A c \in cs : c.dst \in Cells
  /\ \A c \in left : c.src = NoReg \/ (c.src \in Cells /\ m[c.src] = c.val)
  /\ \A c \in cs : (\E x \in left : x.dst = c.dst /\ x.val = c.val) \/ (m[c.dst] = c.val /\ \A x \in left : x.dst # c.dst)
  /\ \A x \in left : \E c \in cs : x.dst = c.dst
  /\ \A l \in Cells : l \notin ScratchRegs /\ (\A c \in cs : c.dst # l) => m[l] = m0[l]

Put1(m, l, x) == [m EXCEPT ![l] = x]

LEMMA MakingTracks ==
  ASSUME NEW cs, NEW left, Parallel(left), NEW m, NEW m0, Tracks(left, m, cs, m0), NEW c \in ReadyIn(left)
  PROVE  Tracks(left \ {c}, Put1(m, c.dst, c.val), cs, m0)
<1> DEFINE n == Put1(m, c.dst, c.val)
<1>1. c \in left /\ \A x \in left \ {c} : x.src # c.dst /\ x.dst # c.dst
  BY DEF ReadyIn, Parallel
<1>2. PICK d \in cs : c.dst = d.dst
  BY <1>1 DEF Tracks
<1>3. c.dst \in Cells
  BY <1>2 DEF Tracks
<1>4. DOMAIN n = Cells /\ n[c.dst] = c.val /\ \A l \in Cells : l # c.dst => n[l] = m[l]
  BY <1>3 DEF Put1, Tracks
<1> HIDE DEF n
<1>5. \A x \in left \ {c} : x.src = NoReg \/ (x.src \in Cells /\ n[x.src] = x.val)
  BY <1>1, <1>4 DEF Tracks
<1>6. \A x \in cs : (\E y \in left \ {c} : y.dst = x.dst /\ y.val = x.val) \/ (n[x.dst] = x.val /\ \A y \in left \ {c} : y.dst # x.dst)
  <2> TAKE x \in cs
  <2>1. CASE x.dst = c.dst
    <3>1. x.val = c.val
      <4>1. PICK y \in left : y.dst = x.dst /\ y.val = x.val
        BY <1>1, <2>1 DEF Tracks
      <4>2. y = c
        BY <1>1, <2>1, <4>1
      <4> QED BY <4>1, <4>2
    <3> QED BY <1>1, <1>4, <2>1, <3>1
  <2>2. CASE x.dst # c.dst
    <3>1. x.dst \in Cells
      BY DEF Tracks
    <3>2. n[x.dst] = m[x.dst]
      BY <1>4, <2>2, <3>1
    <3>3. (\E y \in left : y.dst = x.dst /\ y.val = x.val) \/ (m[x.dst] = x.val /\ \A y \in left : y.dst # x.dst)
      BY DEF Tracks
    <3> QED BY <2>2, <3>2, <3>3
  <2> QED BY <2>1, <2>2
<1>7. \A l \in Cells : l \notin ScratchRegs /\ (\A x \in cs : x.dst # l) => n[l] = m0[l]
  BY <1>2, <1>4 DEF Tracks
<1> QED BY <1>4, <1>5, <1>6, <1>7 DEF Tracks, n

LEMMA SavingTracks ==
  ASSUME NEW cs, Parallel(cs), NEW left, Parallel(left), NEW m, NEW m0, Tracks(left, m, cs, m0), ReadyIn(left) = {}, NEW c \in left,
         ScratchRegs \subseteq Cells
  PROVE  Tracks(Redirected(left, c.src), Put1(m, Scratch[1], c.val), cs, m0)
<1> DEFINE n == Put1(m, Scratch[1], c.val)
           l == c.src
           f == [x \in left |-> Redirect(x, l)]
<1>1. c.src # NoReg /\ \A x \in left : x.src \notin ScratchRegs
  BY SavingOne
<1>2. Scratch[1] \in Cells /\ Scratch[1] \in ScratchRegs
  BY ScratchFacts
<1>3. DOMAIN n = Cells /\ n[Scratch[1]] = c.val /\ \A k \in Cells : k # Scratch[1] => n[k] = m[k]
  BY <1>2 DEF Put1, Tracks
<1>4. \A x \in left : f[x].dst = x.dst /\ f[x].val = x.val /\ f[x].src = IF x.src = l THEN Scratch[1] ELSE x.src
  BY RedirectGives DEF Parallel
<1>5. Redirected(left, l) = {f[x] : x \in left}
  BY DEF Redirected
<1> HIDE DEF n, f
<1>6. \A x \in left : f[x].src = NoReg \/ (f[x].src \in Cells /\ n[f[x].src] = f[x].val)
  <2> TAKE x \in left
  <2>1. x.src = NoReg \/ (x.src \in Cells /\ m[x.src] = x.val)
    BY DEF Tracks
  <2>2. c.src \in Cells /\ m[c.src] = c.val
    BY <1>1 DEF Tracks
  <2>3. CASE x.src = l
    <3>1. x.val = c.val
      BY <1>1, <2>1, <2>2, <2>3
    <3> QED BY <1>2, <1>3, <1>4, <2>3, <3>1
  <2>4. CASE x.src # l
    BY <1>1, <1>2, <1>3, <1>4, <2>1, <2>4
  <2> QED BY <2>3, <2>4
<1>7. \A x \in cs : (\E y \in Redirected(left, l) : y.dst = x.dst /\ y.val = x.val)
                    \/ (n[x.dst] = x.val /\ \A y \in Redirected(left, l) : y.dst # x.dst)
  <2> TAKE x \in cs
  <2>1. CASE \E y \in left : y.dst = x.dst /\ y.val = x.val
    BY <1>4, <1>5, <2>1
  <2>2. CASE ~ \E y \in left : y.dst = x.dst /\ y.val = x.val
    <3>1. m[x.dst] = x.val /\ \A y \in left : y.dst # x.dst
      BY <2>2 DEF Tracks
    <3>2. x.dst # Scratch[1] /\ x.dst \in Cells
      BY <1>2 DEF Tracks, Parallel
    <3> QED BY <1>3, <1>4, <1>5, <3>1, <3>2
  <2> QED BY <2>1, <2>2
<1>8. \A k \in Cells : k \notin ScratchRegs /\ (\A x \in cs : x.dst # k) => n[k] = m0[k]
  BY <1>2, <1>3 DEF Tracks
<1>9. \A y \in Redirected(left, l) : \E x \in cs : y.dst = x.dst
  BY <1>4, <1>5 DEF Tracks
<1> QED BY <1>3, <1>5, <1>6, <1>7, <1>8, <1>9 DEF Tracks, n

\* rp[n] is what the replay makes of the first n copies of seq, from m0 on.
IsRun(rp, seq, m0) == /\ rp[0] = [m |-> m0, ok |-> TRUE]
                      /\ \A n \in 1 .. Len(seq) : rp[n] = Replayed(rp[n - 1], seq[n])

LEMMA ReplayedGives ==
  ASSUME NEW st, st.ok = TRUE, DOMAIN st.m = Cells, NEW c, c.src = NoReg \/ (c.src \in Cells /\ st.m[c.src] = c.val)
  PROVE  Replayed(st, c).ok = TRUE /\ Replayed(st, c).m = Put1(st.m, c.dst, c.val)
<1>1. (IF c.src = NoReg THEN c.val ELSE Known(st.m, c.src)) = c.val /\ (c.src = NoReg \/ Known(st.m, c.src) = c.val)
  BY DEF Known
<1>2. Replayed(st, c).m = [st.m EXCEPT ![c.dst] = IF c.src = NoReg THEN c.val ELSE Known(st.m, c.src)]
  BY DEF Replayed
<1>3. Replayed(st, c).ok = (st.ok /\ (c.src = NoReg \/ Known(st.m, c.src) = c.val))
  BY DEF Replayed
<1> QED BY <1>1, <1>2, <1>3 DEF Put1

\* What is recorded of the copies made so far.
Clean(seq, cs) ==
  \A n \in 1 .. Len(seq) : /\ seq[n].dst = Scratch[1] \/ \E c \in cs : seq[n].dst = c.dst
                           /\ seq[n].src # Scratch[2]
                           /\ seq[n].src = NoReg => seq[n].val \in Remats(fn)

\* A copy is saved at most once before it is made.
Budget(left, n, N) == left = {} \/ n + 2 * Cardinality(left) - (IF ReadyIn(left) = {} THEN 0 ELSE 1) <= N

Halfway(left, done, cs, m0) ==
  /\ Parallel(left) /\ Clean(done, cs)
  /\ \A x \in left : \E c \in cs : x.dst = c.dst
  /\ \A rp : IsRun(rp, done, m0) => rp[Len(done)].ok = TRUE /\ Tracks(left, rp[Len(done)].m, cs, m0)

CopyStates == [left : SUBSET Copies, done : Seq(Copies)]

LEMMA CopyStepMakes ==
  ASSUME NEW st, st.left # {}, ReadyIn(st.left) # {}
  PROVE  \E c \in ReadyIn(st.left) : CopyStep(st) = [left |-> st.left \ {c}, done |-> Append(st.done, c)]
<1> DEFINE R == ReadyIn(st.left)
           c == CHOOSE x \in IF R # {} THEN R ELSE st.left : TRUE
<1>1. c \in R
  <2> DEFINE D == IF R # {} THEN R ELSE st.left
  <2>1. D = R /\ D # {}
    OBVIOUS
  <2> HIDE DEF D
  <2>2. (CHOOSE x \in D : TRUE) \in D
    BY <2>1
  <2> QED BY <2>1, <2>2 DEF D
<1>2. CopyStep(st) = [left |-> st.left \ {c}, done |-> Append(st.done, c)]
  BY DEF CopyStep, ReadyIn
<1> QED BY <1>1, <1>2

Saved(c) == [dst |-> Scratch[1], src |-> c.src, val |-> c.val]

LEMMA CopyStepSaves ==
  ASSUME NEW st, st.left # {}, ReadyIn(st.left) = {}
  PROVE  \E c \in st.left : CopyStep(st) = [left |-> Redirected(st.left, c.src), done |-> Append(st.done, Saved(c))]
<1> DEFINE R == ReadyIn(st.left)
           c == CHOOSE x \in IF R # {} THEN R ELSE st.left : TRUE
<1>1. c \in st.left
  <2> DEFINE D == IF R # {} THEN R ELSE st.left
  <2>1. D = st.left /\ D # {}
    OBVIOUS
  <2> HIDE DEF D
  <2>2. (CHOOSE x \in D : TRUE) \in D
    BY <2>1
  <2> QED BY <2>1, <2>2 DEF D
<1>2. CopyStep(st) = [left |-> Redirected(st.left, c.src), done |-> Append(st.done, Saved(c))]
  BY DEF CopyStep, ReadyIn, Redirected, Redirect, Saved
<1> QED BY <1>1, <1>2

LEMMA AppendGives ==
  ASSUME NEW S, NEW q \in Seq(S), NEW x \in S
  PROVE  /\ Append(q, x) \in Seq(S) /\ Len(Append(q, x)) = Len(q) + 1 /\ Append(q, x)[Len(q) + 1] = x /\ Len(q) \in Nat
         /\ \A n \in 1 .. Len(q) : Append(q, x)[n] = q[n]
OBVIOUS

\* One copy more, whichever it is.
LEMMA OneMoreCopy ==
  ASSUME NEW cs, NEW m0, NEW left, NEW done \in Seq(Copies), Halfway(left, done, cs, m0), NEW c \in Copies, NEW rest, Parallel(rest),
         c.dst = Scratch[1] \/ \E x \in cs : c.dst = x.dst,
         \A x \in rest : \E y \in cs : x.dst = y.dst,
         c.src # Scratch[2], c.src = NoReg => c.val \in Remats(fn),
         \A m : Tracks(left, m, cs, m0) => /\ Tracks(rest, Put1(m, c.dst, c.val), cs, m0)
                                           /\ c.src = NoReg \/ (c.src \in Cells /\ m[c.src] = c.val)
  PROVE  Append(done, c) \in Seq(Copies) /\ Halfway(rest, Append(done, c), cs, m0)
<1> DEFINE more == Append(done, c)
           N == Len(done)
<1>1. more \in Seq(Copies) /\ Len(more) = N + 1 /\ more[N + 1] = c /\ N \in Nat /\ \A n \in 1 .. N : more[n] = done[n]
  BY AppendGives
<1>5. \A n \in 1 .. N : /\ done[n].dst = Scratch[1] \/ \E x \in cs : done[n].dst = x.dst
                        /\ done[n].src # Scratch[2]
                        /\ done[n].src = NoReg => done[n].val \in Remats(fn)
  <2>1. Clean(done, cs)
    BY DEF Halfway
  <2> QED BY <2>1 DEF Clean
<1> HIDE DEF more, N
<1>2. Clean(more, cs)
  <2> SUFFICES ASSUME NEW n \in 1 .. N + 1
               PROVE  /\ more[n].dst = Scratch[1] \/ \E x \in cs : more[n].dst = x.dst
                      /\ more[n].src # Scratch[2]
                      /\ more[n].src = NoReg => more[n].val \in Remats(fn)
    BY <1>1 DEF Clean
  <2>1. CASE n = N + 1
    BY <1>1, <2>1
  <2>2. CASE n \in 1 .. N
    <3>1. more[n] = done[n]
      BY <1>1, <2>2
    <3>2. /\ done[n].dst = Scratch[1] \/ \E x \in cs : done[n].dst = x.dst
          /\ done[n].src # Scratch[2]
          /\ done[n].src = NoReg => done[n].val \in Remats(fn)
      BY <1>5, <2>2
    <3> QED BY <3>1, <3>2
  <2> QED BY <1>1, <2>1, <2>2
<1>3. ASSUME NEW rp, IsRun(rp, more, m0)
      PROVE  rp[N + 1].ok = TRUE /\ Tracks(rest, rp[N + 1].m, cs, m0)
  <2>1. rp[0] = [m |-> m0, ok |-> TRUE] /\ \A n \in 1 .. N + 1 : rp[n] = Replayed(rp[n - 1], more[n])
    BY <1>1, <1>3 DEF IsRun
  <2>2. IsRun(rp, done, m0)
    <3>1. \A n \in 1 .. N : n \in 1 .. N + 1
      BY <1>1
    <3> QED BY <1>1, <2>1, <3>1 DEF IsRun, N
  <2>3. rp[N].ok = TRUE /\ Tracks(left, rp[N].m, cs, m0)
    BY <2>2 DEF Halfway, N
  <2>4. rp[N + 1] = Replayed(rp[N], c)
    <3>1. N + 1 \in 1 .. N + 1 /\ (N + 1) - 1 = N
      BY <1>1
    <3> QED BY <1>1, <2>1, <3>1
  <2>5. DOMAIN rp[N].m = Cells /\ (c.src = NoReg \/ (c.src \in Cells /\ rp[N].m[c.src] = c.val))
    BY <2>3 DEF Tracks
  <2>6. Replayed(rp[N], c).ok = TRUE /\ Replayed(rp[N], c).m = Put1(rp[N].m, c.dst, c.val)
    BY <2>3, <2>5, ReplayedGives
  <2> QED BY <2>3, <2>4, <2>6
<1>4. Halfway(rest, more, cs, m0)
  BY <1>1, <1>2, <1>3 DEF Halfway
<1> QED BY <1>1, <1>4 DEF more

\* One turn: a copy is made, or a source is saved.
LEMMA CopyTurn ==
  ASSUME NEW cs, Parallel(cs), NEW m0, ScratchRegs \subseteq Cells, NEW st \in CopyStates, Halfway(st.left, st.done, cs, m0),
         NEW n \in Nat, NEW N \in Nat, Budget(st.left, n, N)
  PROVE  LET nx == CopyStep(st)
         IN  nx \in CopyStates /\ Halfway(nx.left, nx.done, cs, m0) /\ Budget(nx.left, n + 1, N)
<1> DEFINE left == st.left
           done == st.done
           nx == CopyStep(st)
<1>1. left \in SUBSET Copies /\ done \in Seq(Copies) /\ Parallel(left) /\ Halfway(left, done, cs, m0) /\ Budget(left, n, N)
  BY DEF CopyStates, Halfway
<1>2. CASE left = {}
  <2>1. nx = st
    BY <1>2 DEF CopyStep
  <2>2. Budget(st.left, n + 1, N)
    BY <1>2 DEF Budget
  <2> HIDE DEF nx
  <2> QED BY <1>1, <2>1, <2>2 DEF nx
<1>3. CASE left # {} /\ ReadyIn(left) # {}
  <2>1. PICK c \in ReadyIn(left) : nx = [left |-> left \ {c}, done |-> Append(done, c)]
    BY <1>3, CopyStepMakes
  <2>2. c \in left /\ c \in Copies /\ c.src # Scratch[2] /\ (c.src = NoReg => c.val \in Remats(fn))
    BY <1>1 DEF ReadyIn, Parallel
  <2>3. /\ Parallel(left \ {c}) /\ Cardinality(left) \in Nat /\ Cardinality(left) >= 1 /\ Cardinality(left \ {c}) = Cardinality(left) - 1
    BY <1>1, <2>2, MakingOne
  <2>4. Budget(left \ {c}, n + 1, N)
    <3> DEFINE k == Cardinality(left)
               j == Cardinality(left \ {c})
               r == IF ReadyIn(left \ {c}) = {} THEN 0 ELSE 1
    <3>1. n + 2 * k - 1 <= N
      BY <1>1, <1>3 DEF Budget
    <3>2. k \in Nat /\ k >= 1 /\ j = k - 1 /\ r \in {0, 1}
      BY <2>3
    <3> HIDE DEF k, j, r
    <3>3. n + 1 + 2 * j - r <= N
      BY <3>1, <3>2
    <3> QED BY <3>3 DEF Budget, j, r
  <2>5. \A x \in left \ {c} : \E y \in cs : x.dst = y.dst
    BY <1>1 DEF Halfway
  <2>6. \E x \in cs : c.dst = x.dst
    BY <1>1, <2>2 DEF Halfway
  <2>7. ASSUME NEW m, Tracks(left, m, cs, m0)
        PROVE  /\ Tracks(left \ {c}, Put1(m, c.dst, c.val), cs, m0)
               /\ c.src = NoReg \/ (c.src \in Cells /\ m[c.src] = c.val)
    <3>1. Tracks(left \ {c}, Put1(m, c.dst, c.val), cs, m0)
      BY <1>1, <2>1, <2>7, MakingTracks
    <3>2. c.src = NoReg \/ (c.src \in Cells /\ m[c.src] = c.val)
      BY <2>2, <2>7 DEF Tracks
    <3> QED BY <3>1, <3>2
  <2>8. Append(done, c) \in Seq(Copies) /\ Halfway(left \ {c}, Append(done, c), cs, m0)
    <3> HIDE DEF left, done
    <3> QED BY <1>1, <2>2, <2>3, <2>5, <2>6, <2>7, OneMoreCopy
  <2>9. nx.left = left \ {c} /\ nx.done = Append(done, c) /\ nx \in CopyStates
    BY <1>1, <2>1, <2>8 DEF CopyStates
  <2> HIDE DEF nx
  <2> QED BY <2>4, <2>8, <2>9 DEF nx
<1>4. CASE left # {} /\ ReadyIn(left) = {}
  <2>1. PICK c \in left : nx = [left |-> Redirected(left, c.src), done |-> Append(done, Saved(c))]
    BY <1>4, CopyStepSaves
  <2> DEFINE rest == Redirected(left, c.src)
             s == Saved(c)
  <2>2. Parallel(rest) /\ Cardinality(rest) = Cardinality(left) /\ ReadyIn(rest) # {} /\ c.src # NoReg
    BY <1>1, <1>4, SavingOne
  <2>3. c \in Copies /\ c.src # Scratch[2]
    BY <1>1 DEF Parallel
  <2>4. s \in Copies /\ s.dst = Scratch[1] /\ s.src = c.src /\ s.val = c.val
    BY <2>3, ScratchFacts DEF Saved, Copies
  <2>5. Budget(rest, n + 1, N)
    <3> DEFINE k == Cardinality(left)
    <3>1. n + 2 * k - 0 <= N
      BY <1>1, <1>4 DEF Budget
    <3>2. k \in Nat /\ Cardinality(rest) = k
      BY <1>1, <2>2, FS_CardinalityType DEF Parallel
    <3> HIDE DEF k, rest
    <3>3. (n + 1) + 2 * k - 1 <= N
      BY <3>1, <3>2
    <3> QED BY <2>2, <3>2, <3>3 DEF Budget
  <2>6. \A x \in rest : \E y \in cs : x.dst = y.dst
    <3>1. \A x \in left : Redirect(x, c.src).dst = x.dst
      BY <1>1, RedirectGives DEF Parallel
    <3> QED BY <1>1, <3>1 DEF Redirected, Halfway
  <2> HIDE DEF s, rest
  <2>7. ASSUME NEW m, Tracks(left, m, cs, m0)
        PROVE  /\ Tracks(rest, Put1(m, s.dst, s.val), cs, m0)
               /\ s.src = NoReg \/ (s.src \in Cells /\ m[s.src] = s.val)
    <3>1. Tracks(rest, Put1(m, Scratch[1], c.val), cs, m0)
      BY <1>1, <1>4, <2>7, SavingTracks DEF rest
    <3>2. c.src = NoReg \/ (c.src \in Cells /\ m[c.src] = c.val)
      BY <2>7 DEF Tracks
    <3> QED BY <2>4, <3>1, <3>2
  <2>8. Append(done, s) \in Seq(Copies) /\ Halfway(rest, Append(done, s), cs, m0)
    <3>1. s.src # Scratch[2] /\ (s.src = NoReg => s.val \in Remats(fn))
      BY <2>2, <2>3, <2>4
    <3> HIDE DEF left, done
    <3> QED BY <1>1, <2>2, <2>4, <2>6, <2>7, <3>1, OneMoreCopy
  <2>9. nx.left = rest /\ nx.done = Append(done, s) /\ nx \in CopyStates
    <3>1. rest \in SUBSET Copies
      BY <2>2 DEF Parallel
    <3> QED BY <1>1, <2>1, <2>8, <3>1 DEF CopyStates, rest, s
  <2> HIDE DEF nx
  <2> QED BY <2>5, <2>8, <2>9 DEF nx
<1> QED BY <1>2, <1>3, <1>4

CopyStart(cs) == [left |-> cs, done |-> <<>>]
CopyChain(cs, it) ==
  it = [n \in 0 .. 2 * Cardinality(cs) |-> IF n = 0 THEN CopyStart(cs) ELSE CopyStep(it[n - 1])]

\* Copies that can be made from m0.
Feasible(cs, m0) == /\ Parallel(cs) /\ ScratchRegs \subseteq Cells /\ DOMAIN m0 = Cells
                    /\ \A c \in cs : c.dst \in Cells /\ (c.src = NoReg \/ (c.src \in Cells /\ m0[c.src] = c.val))

LEMMA CopiesStart ==
  ASSUME NEW cs, NEW m0, Feasible(cs, m0)
  PROVE  CopyStart(cs) \in CopyStates /\ Halfway(cs, <<>>, cs, m0) /\ Budget(cs, 0, 2 * Cardinality(cs)) /\ Cardinality(cs) \in Nat
<1>1. cs \subseteq Copies /\ Cardinality(cs) \in Nat /\ Parallel(cs)
  BY FS_CardinalityType DEF Feasible, Parallel
<1>2. CopyStart(cs) \in CopyStates
  BY <1>1 DEF CopyStart, CopyStates
<1>3. Budget(cs, 0, 2 * Cardinality(cs))
  <2> DEFINE k == Cardinality(cs)
             r == IF ReadyIn(cs) = {} THEN 0 ELSE 1
  <2>1. k \in Nat /\ r \in {0, 1}
    BY <1>1
  <2> HIDE DEF k, r
  <2>2. 0 + 2 * k - r <= 2 * k
    BY <2>1
  <2> QED BY <2>2 DEF Budget, k, r
<1>4. Len(<<>>) = 0 /\ Clean(<<>>, cs)
  BY DEF Clean
<1>5. Tracks(cs, m0, cs, m0)
  BY DEF Feasible, Tracks
<1>6. ASSUME NEW rp, IsRun(rp, <<>>, m0) PROVE rp[Len(<<>>)].ok = TRUE /\ Tracks(cs, rp[Len(<<>>)].m, cs, m0)
  <2>1. rp[0] = [m |-> m0, ok |-> TRUE]
    BY <1>6 DEF IsRun
  <2> QED BY <1>4, <1>5, <2>1
<1>7. \A x \in cs : \E c \in cs : x.dst = c.dst
  OBVIOUS
<1>8. Halfway(cs, <<>>, cs, m0)
  BY <1>1, <1>4, <1>6, <1>7 DEF Halfway
<1> QED BY <1>1, <1>2, <1>3, <1>8

\* All copies are made by the end.
LEMMA CopiesEnd ==
  ASSUME NEW left, Parallel(left), NEW N \in Nat, Budget(left, N, N)
  PROVE  left = {}
<1> SUFFICES ASSUME left # {} PROVE FALSE
  OBVIOUS
<1> DEFINE k == Cardinality(left)
           r == IF ReadyIn(left) = {} THEN 0 ELSE 1
<1>1. N + 2 * k - r <= N
  BY DEF Budget
<1>2. r \in {0, 1} /\ k \in Nat /\ k >= 1
  <2>1. k \in Nat /\ k # 0
    BY FS_CardinalityType, FS_EmptySet DEF Parallel
  <2> QED BY <2>1
<1> HIDE DEF k, r
<1> QED BY <1>1, <1>2

\* The order that the copies are given makes all of them, as if at once.
LEMMA SequenceGives ==
  ASSUME NEW cs, NEW m0, Feasible(cs, m0)
  PROVE  /\ Sequence(cs) \in Seq(Copies) /\ Clean(Sequence(cs), cs) /\ (cs = {} => Sequence(cs) = <<>>)
         /\ \A rp : IsRun(rp, Sequence(cs), m0) => rp[Len(Sequence(cs))].ok = TRUE /\ Tracks({}, rp[Len(Sequence(cs))].m, cs, m0)
<1> DEFINE N == 2 * Cardinality(cs)
           base == CopyStart(cs)
           T == [n \in Nat |-> {st \in CopyStates : Halfway(st.left, st.done, cs, m0) /\ Budget(st.left, n, N)}]
           step == [n \in 1 .. N |-> [st \in CopyStates |-> CopyStep(st)]]
           chain == CHOOSE it : CopyChain(cs, it)
<1>1. N \in Nat /\ (cs = {} => N = 0)
  BY CopiesStart, FS_EmptySet
<1>2. base \in T[0]
  <2>1. base.left = cs /\ base.done = <<>>
    BY DEF CopyStart
  <2> HIDE DEF base
  <2> QED BY <2>1, CopiesStart DEF base
<1>3. ASSUME NEW n \in 1 .. N, NEW st \in T[n - 1] PROVE CopyStep(st) \in T[n] /\ st \in CopyStates
  <2>1. n \in Nat /\ n - 1 \in Nat /\ (n - 1) + 1 = n
    BY <1>1
  <2>2. st \in CopyStates /\ Halfway(st.left, st.done, cs, m0) /\ Budget(st.left, n - 1, N)
    BY <2>1
  <2> HIDE DEF N
  <2>3. LET nx == CopyStep(st) IN nx \in CopyStates /\ Halfway(nx.left, nx.done, cs, m0) /\ Budget(nx.left, (n - 1) + 1, N)
    BY <1>1, <2>1, <2>2, CopyTurn DEF Feasible
  <2> QED BY <2>1, <2>2, <2>3
<1>4. ASSUME NEW st \in T[N] PROVE st \in CopyStates /\ Halfway({}, st.done, cs, m0)
  <2> DEFINE left == st.left
  <2>1. st \in CopyStates /\ Halfway(left, st.done, cs, m0) /\ Budget(left, N, N)
    BY <1>1
  <2> HIDE DEF N, left
  <2>2. Parallel(left)
    BY <2>1 DEF Halfway
  <2>3. left = {}
    BY <1>1, <2>1, <2>2, CopiesEnd
  <2> QED BY <2>1, <2>3
<1> HIDE DEF T, N, base
<1>5. \A n \in 1 .. N : \A st \in T[n - 1] : step[n][st] \in T[n] /\ step[n][st] = CopyStep(st)
  BY <1>3
<1> HIDE DEF step
<1>6. PICK it : ChainOf(it, N, base, step) /\ \A n \in 0 .. N : it[n] \in T[n]
  BY <1>1, <1>2, <1>5, ChainExists DEF Chained
<1>7. CopyChain(cs, it)
  <2>1. ASSUME NEW n \in 0 .. N PROVE (IF n = 0 THEN base ELSE step[n][it[n - 1]]) = IF n = 0 THEN base ELSE CopyStep(it[n - 1])
    <3> SUFFICES ASSUME n # 0 PROVE step[n][it[n - 1]] = CopyStep(it[n - 1])
      OBVIOUS
    <3>1. n \in 1 .. N /\ n - 1 \in 0 .. N
      BY <1>1
    <3>2. it[n - 1] \in T[n - 1]
      BY <1>6, <3>1
    <3> QED BY <1>5, <3>1, <3>2
  <2>2. it = [n \in 0 .. N |-> IF n = 0 THEN base ELSE step[n][it[n - 1]]]
    BY <1>6 DEF ChainOf
  <2>3. it = [n \in 0 .. N |-> IF n = 0 THEN base ELSE CopyStep(it[n - 1])]
    BY <2>1, <2>2
  <2> QED BY <2>3 DEF CopyChain, N, base
<1>8. CopyChain(cs, chain)
  BY <1>7
<1> HIDE DEF chain
<1>9. chain[0] = base /\ \A n \in 1 .. N : chain[n] = CopyStep(chain[n - 1])
  <2>1. chain = [n \in 0 .. N |-> IF n = 0 THEN base ELSE CopyStep(chain[n - 1])]
    BY <1>8 DEF CopyChain, N, base
  <2>2. 0 \in 0 .. N /\ \A n \in 1 .. N : n \in 0 .. N /\ n # 0
    BY <1>1
  <2> QED BY <2>1, <2>2
<1>10. \A n \in 0 .. N : chain[n] \in T[n]
  <2>1. chain[0] \in T[0] /\ \A n \in 1 .. N : chain[n - 1] \in T[n - 1] => chain[n] \in T[n]
    BY <1>2, <1>3, <1>9
  <2> QED BY <1>1, <2>1, ChainKeeps
<1>11. chain[N] \in T[N]
  BY <1>1, <1>10
<1>12. chain[N].done \in Seq(Copies) /\ Halfway({}, chain[N].done, cs, m0)
  BY <1>4, <1>11 DEF CopyStates
<1>13. Sequence(cs) = chain[N].done
  BY DEF Sequence, chain, CopyChain, CopyStart, N
<1>14. cs = {} => Sequence(cs) = <<>>
  BY <1>1, <1>9, <1>13 DEF base, CopyStart
<1> HIDE DEF N
<1> QED BY <1>12, <1>13, <1>14 DEF Halfway

-----------------------------------------------------------------------------
(* The slots of the frame *)

Sharing(u, w) == CanShareSlot(fn, lay, an, safe, u, w)

\* Every value of S has its slot, and those of one slot may share it.
SlotsOK(table, S) ==
  /\ table \in Seq(SUBSET S)
  /\ \A v \in S : \E i \in DOMAIN table : v \in table[i]
  /\ \A i, j \in DOMAIN table : \A v \in table[i] : v \in table[j] => i = j
  /\ \A i \in DOMAIN table : \A u, w \in table[i] : u # w => Sharing(u, w)

LEMMA SharingEither ==
  ASSUME NEW u, NEW w, Sharing(u, w)
  PROVE  Sharing(w, u)
<1>1. ~Overlaps(an, u, w) /\ (u \in fn.ptr <=> w \in fn.ptr)
      /\ ~PointerLiveAtSafepointIn(fn, lay, an, safe, u, w) /\ ~PointerLiveAtSafepointIn(fn, lay, an, safe, w, u)
  BY DEF Sharing, CanShareSlot
<1>2. ~Overlaps(an, w, u)
  BY <1>1 DEF Overlaps
<1> QED BY <1>1, <1>2 DEF Sharing, CanShareSlot

LEMMA WithSlotOK ==
  ASSUME NEW table, NEW S, SlotsOK(table, S), NEW v, v \notin S
  PROVE  SlotsOK(WithSlot(fn, lay, an, safe, table, v), S \cup {v})
<1> DEFINE accepts == {i \in DOMAIN table : \A u \in table[i] : CanShareSlot(fn, lay, an, safe, u, v)}
           m == Min(accepts)
           more == WithSlot(fn, lay, an, safe, table, v)
           D == DOMAIN table
<1>1. table \in Seq(SUBSET S) /\ Len(table) \in Nat /\ D = 1 .. Len(table) /\ \A i \in D : table[i] \subseteq S
  BY DEF SlotsOK
<1>2. more = IF accepts # {} THEN [table EXCEPT ![m] = table[m] \cup {v}] ELSE Append(table, {v})
  BY DEF WithSlot
<1>3. \A i \in D : v \notin table[i]
  BY <1>1
<1>4. CASE accepts # {}
  <2>1. m \in D /\ \A u \in table[m] : Sharing(u, v)
    <3>1. accepts \subseteq Nat
      BY <1>1
    <3>2. m \in accepts
      BY <1>4, <3>1, MinFacts
    <3> HIDE DEF m
    <3> QED BY <3>2 DEF Sharing
  <2>2. more = [table EXCEPT ![m] = table[m] \cup {v}]
    BY <1>2, <1>4
  <2> HIDE DEF m, more, accepts
  <2>3. DOMAIN more = D /\ more[m] = table[m] \cup {v} /\ \A i \in D : i # m => more[i] = table[i]
    BY <2>1, <2>2
  <2>4. more \in Seq(SUBSET (S \cup {v}))
    <3>1. table \in Seq(SUBSET (S \cup {v})) /\ table[m] \cup {v} \in SUBSET (S \cup {v})
      <4>1. \A i \in D : table[i] \in SUBSET (S \cup {v})
        BY <1>1
      <4>2. table \in [1 .. Len(table) -> SUBSET (S \cup {v})]
        <5>1. table = [i \in 1 .. Len(table) |-> table[i]]
          BY <1>1
        <5> QED BY <1>1, <4>1, <5>1
      <4> QED BY <1>1, <2>1, <4>2
    <3> QED BY <2>1, <2>2, <3>1
  <2>5. \A u \in S \cup {v} : \E i \in D : u \in more[i]
    BY <2>1, <2>3 DEF SlotsOK
  <2>6. ASSUME NEW i \in D, NEW j \in D, NEW u \in more[i], u \in more[j] PROVE i = j
    <3>1. CASE u = v
      BY <1>3, <2>3, <2>6, <3>1
    <3>2. CASE u # v
      <4>1. u \in table[i] /\ u \in table[j]
        BY <2>3, <2>6, <3>2
      <4> QED BY <4>1 DEF SlotsOK
    <3> QED BY <3>1, <3>2
  <2>7. ASSUME NEW i \in D, NEW u \in more[i], NEW w \in more[i], u # w PROVE Sharing(u, w)
    <3>1. CASE u \in table[i] /\ w \in table[i]
      BY <2>7, <3>1 DEF SlotsOK
    <3>2. CASE ~(u \in table[i] /\ w \in table[i])
      <4>1. i = m /\ ((u = v /\ w \in table[m]) \/ (w = v /\ u \in table[m]))
        BY <2>3, <2>7, <3>2
      <4> QED BY <2>1, <4>1, SharingEither
    <3> QED BY <3>1, <3>2
  <2> QED BY <2>3, <2>4, <2>5, <2>6, <2>7 DEF SlotsOK, more
<1>5. CASE accepts = {}
  <2> DEFINE k == Len(table) + 1
  <2>1. more = Append(table, {v})
    BY <1>2, <1>5
  <2> HIDE DEF more, accepts
  <2>2. k \in Nat /\ k \notin D /\ D \cup {k} = 1 .. k
    BY <1>1
  <2>3. DOMAIN more = D \cup {k} /\ more[k] = {v} /\ \A i \in D : more[i] = table[i]
    <3>1. Len(more) = k /\ DOMAIN more = 1 .. k /\ more[k] = {v} /\ \A i \in 1 .. Len(table) : more[i] = table[i]
      BY <1>1, <2>1
    <3> QED BY <1>1, <2>2, <3>1
  <2>4. more \in Seq(SUBSET (S \cup {v}))
    <3>1. \A i \in 1 .. k : more[i] \in SUBSET (S \cup {v})
      BY <1>1, <2>2, <2>3
    <3>2. more = [i \in 1 .. k |-> more[i]]
      <4>1. more \in Seq((SUBSET S) \cup {{v}})
        <5>1. table \in Seq((SUBSET S) \cup {{v}})
          <6>1. table = [i \in 1 .. Len(table) |-> table[i]] /\ \A i \in 1 .. Len(table) : table[i] \in (SUBSET S) \cup {{v}}
            BY <1>1
          <6>2. table \in [1 .. Len(table) -> (SUBSET S) \cup {{v}}]
            BY <6>1
          <6> QED BY <1>1, <6>2
        <5> QED BY <2>1, <5>1
      <4>2. more \in [1 .. Len(more) -> (SUBSET S) \cup {{v}}]
        BY <4>1, SequenceTypes
      <4>3. more = [i \in DOMAIN more |-> more[i]]
        BY <4>2
      <4> QED BY <2>2, <2>3, <4>3
    <3> HIDE DEF k
    <3>3. more \in [1 .. k -> SUBSET (S \cup {v})]
      BY <3>1, <3>2
    <3> QED BY <2>2, <3>3
  <2> HIDE DEF k
  <2>5. \A u \in S \cup {v} : \E i \in D \cup {k} : u \in more[i]
    BY <2>3 DEF SlotsOK
  <2>6. ASSUME NEW i \in D \cup {k}, NEW j \in D \cup {k}, NEW u \in more[i], u \in more[j] PROVE i = j
    <3>1. CASE u = v
      BY <1>3, <2>3, <2>6, <3>1
    <3>2. CASE u # v
      <4>1. i \in D /\ j \in D /\ u \in table[i] /\ u \in table[j]
        BY <2>3, <2>6, <3>2
      <4> QED BY <4>1 DEF SlotsOK
    <3> QED BY <3>1, <3>2
  <2>7. ASSUME NEW i \in D \cup {k}, NEW u \in more[i], NEW w \in more[i], u # w PROVE Sharing(u, w)
    <3>1. i \in D /\ u \in table[i] /\ w \in table[i]
      BY <2>3, <2>7
    <3> QED BY <2>7, <3>1 DEF SlotsOK
  <2> QED BY <2>3, <2>4, <2>5, <2>6, <2>7 DEF SlotsOK, more
<1> QED BY <1>4, <1>5

\* A finite set of numbers has a bound.
LEMMA FiniteBound ==
  ASSUME NEW S, IsFiniteSet(S), S \subseteq Nat
  PROVE  \E n \in Nat : S \subseteq 0 .. n
<1> DEFINE P == {s \in SUBSET S : \E n \in Nat : s \subseteq 0 .. n}
<1>1. {} \in P
  <2>1. {} \subseteq 0 .. 0 /\ 0 \in Nat
    OBVIOUS
  <2> QED BY <2>1
<1>2. ASSUME NEW s \in SUBSET S, s # {}, \A x \in s : s \ {x} \in P PROVE s \in P
  <2>1. PICK x \in s : TRUE
    BY <1>2
  <2>2. PICK n \in Nat : s \ {x} \subseteq 0 .. n
    BY <1>2
  <2>3. x \in Nat /\ n + x \in Nat /\ \A y \in s : y \in Nat
    OBVIOUS
  <2>4. s \subseteq 0 .. n + x
    <3> SUFFICES ASSUME NEW y \in s PROVE y \in 0 .. n + x
      OBVIOUS
    <3>1. y = x \/ y \in 0 .. n
      BY <2>2
    <3> QED BY <2>3, <3>1
  <2> QED BY <2>3, <2>4
<1> HIDE DEF P
<1>3. S \in P
  BY <1>1, <1>2, SetInduction
<1> QED BY <1>3 DEF P

Under(S, n) == {v \in S : v < n}

LEMMA UnderFacts ==
  ASSUME NEW S, S \subseteq Nat, NEW n \in Nat
  PROVE  /\ Under(S, 0) = {} /\ n \notin Under(S, n)
         /\ n \in S => Under(S, n + 1) = Under(S, n) \cup {n}
         /\ n \notin S => Under(S, n + 1) = Under(S, n)
         /\ (\A v \in S : v <= n) => Under(S, n + 1) = S
<1>1. \A v \in S : v \in Nat
  OBVIOUS
<1>2. \A m : \A v : v \in Under(S, m) <=> v \in S /\ v < m
  BY DEF Under
<1>3. \A v : v \in Under(S, n + 1) <=> v \in S /\ (v < n \/ v = n)
  <2> TAKE v
  <2>1. v \in S => (v < n + 1 <=> v < n \/ v = n)
    BY <1>1
  <2> QED BY <1>2, <2>1
<1>4. \A v \in S : ~(v < 0) /\ ~(n < n)
  BY <1>1
<1>5. Under(S, n + 1) \subseteq S
  BY DEF Under
<1>6. ASSUME \A v \in S : v <= n PROVE \A v \in S : v < n \/ v = n
  BY <1>1, <1>6
<1> QED BY <1>2, <1>3, <1>4, <1>5, <1>6

\* The slots along the assignment, value by value.
SlotChain(spilled, N, it) ==
  it = [n \in 0 .. N |->
          IF n = 0 THEN <<>>
          ELSE IF n - 1 \in spilled THEN WithSlot(fn, lay, an, safe, it[n - 1], n - 1) ELSE it[n - 1]]

LEMMA AssignSlotsOK ==
  ASSUME NEW spilled, spilled \subseteq Ids
  PROVE  SlotsOK(AssignSlots(fn, lay, an, safe, spilled), spilled)
<1> DEFINE top == Max(spilled \cup {0})
           N == top + 1
           Below(n) == Under(spilled, n)
           T == [n \in Nat |-> {x \in Seq(SUBSET spilled) : SlotsOK(x, Below(n))}]
           Turn(x, n) == IF n - 1 \in spilled THEN WithSlot(fn, lay, an, safe, x, n - 1) ELSE x
           step == [n \in 1 .. N |-> [x \in Seq(SUBSET spilled) |-> Turn(x, n)]]
           chain == CHOOSE it : SlotChain(spilled, N, it)
<1>1. spilled \subseteq Nat /\ IsFiniteSet(spilled)
  BY IdsAssumption, FunctionAssumption, FS_Subset
<1>2. top \in Nat /\ \A v \in spilled : v <= top
  <2>1. PICK n \in Nat : spilled \subseteq 0 .. n
    BY <1>1, FiniteBound
  <2> DEFINE s == spilled \cup {0}
  <2>2. s \subseteq 0 .. n /\ s # {} /\ spilled \subseteq s
    BY <2>1
  <2> HIDE DEF s
  <2>3. Max(s) \in s /\ \A k \in s : k <= Max(s)
    BY <2>2, MaxFacts
  <2> QED BY <2>2, <2>3 DEF s
<1> HIDE DEF top
<1>3. N \in Nat /\ Below(N) = spilled /\ Below(0) = {}
  <2>1. Under(spilled, top + 1) = spilled
    BY ONLY <1>1, <1>2, UnderFacts
  <2>2. Under(spilled, 0) = {}
    BY ONLY <1>1, <1>2, UnderFacts
  <2> QED BY <1>2, <2>1, <2>2
<1>4. \A x \in SUBSET spilled : \A t : SlotsOK(t, x) => t \in Seq(SUBSET spilled)
  <2> TAKE x \in SUBSET spilled
  <2> TAKE t
  <2> SUFFICES ASSUME SlotsOK(t, x) PROVE t \in Seq(SUBSET spilled)
    OBVIOUS
  <2>1. t \in Seq(SUBSET x)
    BY DEF SlotsOK
  <2>2. Len(t) \in Nat /\ t \in [1 .. Len(t) -> SUBSET x]
    BY <2>1, SequenceTypes
  <2>3. t \in [1 .. Len(t) -> SUBSET spilled]
    <3>1. t = [i \in 1 .. Len(t) |-> t[i]] /\ \A i \in 1 .. Len(t) : t[i] \in SUBSET spilled
      BY <2>2
    <3> QED BY <3>1
  <2> QED BY <2>2, <2>3
<1>5. <<>> \in T[0]
  <2>1. SlotsOK(<<>>, {})
    BY DEF SlotsOK
  <2> QED BY <1>3, <1>4, <2>1
<1>6. ASSUME NEW n \in 1 .. N, NEW x \in T[n - 1] PROVE Turn(x, n) \in T[n] /\ x \in Seq(SUBSET spilled)
  <2>1. n \in Nat /\ n - 1 \in Nat
    BY <1>3
  <2>2. SlotsOK(x, Below(n - 1)) /\ x \in Seq(SUBSET spilled)
    BY <2>1
  <2>3. SlotsOK(Turn(x, n), Below(n))
    <3>1. CASE n - 1 \in spilled
      <4>1. Below(n) = Below(n - 1) \cup {n - 1} /\ n - 1 \notin Below(n - 1)
        <5> DEFINE k == n - 1
        <5>1. k \in Nat /\ k \in spilled /\ n = k + 1
          BY <2>1, <3>1
        <5> HIDE DEF k
        <5>2. Under(spilled, k + 1) = Under(spilled, k) \cup {k} /\ k \notin Under(spilled, k)
          BY ONLY <1>1, <5>1, UnderFacts
        <5> QED BY <5>1, <5>2 DEF k
      <4> DEFINE S == Below(n - 1)
                 k == n - 1
      <4>2. SlotsOK(x, S) /\ k \notin S
        BY <2>2, <4>1
      <4> HIDE DEF S, k, Below
      <4>3. SlotsOK(WithSlot(fn, lay, an, safe, x, k), S \cup {k})
        BY <4>2, WithSlotOK
      <4> QED BY <3>1, <4>1, <4>3 DEF S, k
    <3>2. CASE n - 1 \notin spilled
      <4>1. Below(n) = Below(n - 1)
        <5> DEFINE k == n - 1
        <5>1. k \in Nat /\ k \notin spilled /\ n = k + 1
          BY <2>1, <3>2
        <5> HIDE DEF k
        <5>2. Under(spilled, k + 1) = Under(spilled, k)
          <6>1. k \notin spilled => Under(spilled, k + 1) = Under(spilled, k)
            BY ONLY <1>1, <5>1, UnderFacts
          <6> QED BY ONLY <5>1, <6>1
        <5> QED BY <5>1, <5>2 DEF k
      <4> HIDE DEF Below
      <4> QED BY <2>2, <3>2, <4>1
    <3> QED BY <3>1, <3>2
  <2>4. Below(n) \in SUBSET spilled
    BY DEF Under
  <2> HIDE DEF Below, Turn
  <2> QED BY <1>4, <2>1, <2>2, <2>3, <2>4
<1>7. T[N] \subseteq {x \in Seq(SUBSET spilled) : SlotsOK(x, spilled)}
  BY <1>3
<1> HIDE DEF T, N, Below
<1>8. \A n \in 1 .. N : \A x \in T[n - 1] : step[n][x] \in T[n] /\ step[n][x] = Turn(x, n)
  BY <1>6
<1> HIDE DEF step
<1>9. PICK it : ChainOf(it, N, <<>>, step) /\ \A n \in 0 .. N : it[n] \in T[n]
  <2>1. \A n \in 1 .. N : \A x \in T[n - 1] : step[n][x] \in T[n]
    BY <1>8
  <2>2. Chained(T, N, <<>>, step)
    BY <1>3, <1>5, <2>1 DEF Chained
  <2> QED BY <2>2, ChainExists
<1>10. SlotChain(spilled, N, it)
  <2>1. ASSUME NEW n \in 0 .. N PROVE (IF n = 0 THEN <<>> ELSE step[n][it[n - 1]]) = IF n = 0 THEN <<>> ELSE Turn(it[n - 1], n)
    <3> SUFFICES ASSUME n # 0 PROVE step[n][it[n - 1]] = Turn(it[n - 1], n)
      OBVIOUS
    <3>1. n \in 1 .. N /\ n - 1 \in 0 .. N
      BY <1>3
    <3>2. it[n - 1] \in T[n - 1]
      BY <1>9, <3>1
    <3> HIDE DEF Turn
    <3> QED BY <1>8, <3>1, <3>2
  <2>2. it = [n \in 0 .. N |-> IF n = 0 THEN <<>> ELSE step[n][it[n - 1]]]
    BY <1>9 DEF ChainOf
  <2> HIDE DEF Turn
  <2>3. it = [n \in 0 .. N |-> IF n = 0 THEN <<>> ELSE Turn(it[n - 1], n)]
    BY <2>1, <2>2
  <2> QED BY <2>3 DEF SlotChain, Turn
<1>11. SlotChain(spilled, N, chain)
  BY <1>10
<1> HIDE DEF chain
<1>12. chain[0] = <<>> /\ \A n \in 1 .. N : chain[n] = Turn(chain[n - 1], n)
  <2>1. chain = [n \in 0 .. N |-> IF n = 0 THEN <<>> ELSE Turn(chain[n - 1], n)]
    BY <1>11 DEF SlotChain
  <2>2. 0 \in 0 .. N /\ \A n \in 1 .. N : n \in 0 .. N /\ n # 0
    BY <1>3
  <2> HIDE DEF Turn
  <2> QED BY <2>1, <2>2
<1> HIDE DEF Turn
<1>13. \A n \in 0 .. N : chain[n] \in T[n]
  <2>1. chain[0] \in T[0] /\ \A n \in 1 .. N : chain[n - 1] \in T[n - 1] => chain[n] \in T[n]
    BY <1>5, <1>6, <1>12
  <2> QED BY <1>3, <2>1, ChainKeeps
<1>14. SlotsOK(chain[N], spilled)
  BY <1>3, <1>7, <1>13
<1>15. AssignSlots(fn, lay, an, safe, spilled) = chain[N]
  BY DEF AssignSlots, chain, SlotChain, N, top
<1> QED BY <1>14, <1>15

-----------------------------------------------------------------------------
(* The allocator's own answer *)

Spilled == {v \in an.tracked : home[v] = Frame}

\* What Slots writes.
Answered ==
  /\ slots = AssignSlots(fn, lay, an, safe, Spilled)
  /\ loc = [v \in an.tracked |-> IF home[v] = Frame THEN SlotLoc(CHOOSE i \in DOMAIN slots : v \in slots[i]) ELSE home[v]]
  /\ args = OperandRegs(loc) /\ result = ResultRegs(loc) /\ copies = EdgeEntries(loc)

Own == AllKnown /\ Scanned /\ Answered

\* A value is in the register the scan gave it, or in its slot.
IsHome(v) == \/ /\ home[v] \in Allocatable /\ home[v] \in Regs /\ loc[v] = home[v]
                /\ loc[v] \in Nat /\ \A i \in DOMAIN slots : SlotLoc(i) # loc[v]
             \/ /\ home[v] = Frame /\ loc[v] \notin Regs \cup ScratchRegs /\ loc[v] \in Nat
                /\ \E i \in DOMAIN slots : v \in slots[i] /\ loc[v] = SlotLoc(i)

LEMMA OwnSlots ==
  ASSUME Own
  PROVE  /\ SlotsOK(slots, Spilled) /\ Spilled \subseteq Ids /\ slots \in Seq(SUBSET Ids)
         /\ \A i \in DOMAIN slots : i \in Nat /\ i >= 1 /\ slots[i] \subseteq Spilled
         /\ DOMAIN slots = 1 .. Len(slots) /\ Len(slots) \in Nat
<1>1. Spilled \subseteq Ids
  BY AnalysedFacts DEF Own, Spilled
<1>2. SlotsOK(slots, Spilled)
  BY <1>1, AssignSlotsOK DEF Own, Answered
<1>3. slots \in Seq(SUBSET Spilled)
  BY <1>2 DEF SlotsOK
<1>4. Len(slots) \in Nat /\ DOMAIN slots = 1 .. Len(slots) /\ \A i \in DOMAIN slots : slots[i] \in SUBSET Spilled
  BY <1>3, SequenceTypes
<1>5. slots \in Seq(SUBSET Ids)
  <2>1. slots \in [1 .. Len(slots) -> SUBSET Ids]
    <3>1. slots = [i \in 1 .. Len(slots) |-> slots[i]]
      BY <1>3, SequenceTypes
    <3> QED BY <1>1, <1>4, <3>1
  <2> QED BY <1>4, <2>1
<1> QED BY <1>1, <1>2, <1>4, <1>5

LEMMA OwnHomes ==
  ASSUME Own, NEW v \in Tracked(fn)
  PROVE  IsHome(v) /\ loc[v] \in Cells /\ v \in an.tracked /\ v \in Ids
<1>1. v \in an.tracked /\ an.tracked \subseteq Ids /\ v \in Ids /\ todo = {}
  BY AnalysedFacts DEF Own, Scanned
<1>2. home[v] \in Allocatable \cup {Frame} /\ Frame \notin Regs /\ Allocatable \subseteq Regs /\ Regs \subseteq Nat
  BY <1>1, RegsAssumption, FrameAssumption DEF Own, Scanned, AllPlaced, Visited
<1>3. CASE home[v] = Frame
  <2> DEFINE k == CHOOSE i \in DOMAIN slots : v \in slots[i]
  <2>1. v \in Spilled
    BY <1>1, <1>3 DEF Spilled
  <2>2. \E i \in DOMAIN slots : v \in slots[i]
    BY <2>1, OwnSlots DEF SlotsOK
  <2>3. k \in DOMAIN slots /\ v \in slots[k]
    BY <2>2
  <2>4. loc[v] = SlotLoc(k)
    BY <1>1, <1>3 DEF Own, Answered
  <2> HIDE DEF k
  <2>5. loc[v] \in Nat /\ loc[v] \notin Regs \cup ScratchRegs
    BY <2>3, <2>4, OwnSlots, SlotFacts
  <2>6. loc[v] \in Cells
    BY <2>3, <2>4 DEF Cells, CellsOf
  <2> QED BY <1>1, <1>3, <2>3, <2>4, <2>5, <2>6 DEF IsHome
<1>4. CASE home[v] # Frame
  <2>1. home[v] \in Allocatable /\ home[v] \in Regs /\ loc[v] = home[v]
    BY <1>1, <1>2, <1>4 DEF Own, Answered
  <2>2. loc[v] \in Cells /\ loc[v] \in Nat
    BY <1>2, <2>1 DEF Cells, CellsOf
  <2>3. \A i \in DOMAIN slots : SlotLoc(i) # loc[v]
    BY <2>1, OwnSlots, SlotFacts
  <2> QED BY <1>1, <2>1, <2>2, <2>3 DEF IsHome
<1> QED BY <1>3, <1>4

\* What the answer says of a value.
LEMMA AnswerLoc ==
  ASSUME Own, NEW v \in Ids
  PROVE  Home(Answer, v) = IF v \in Tracked(fn) THEN loc[v] ELSE NoReg
<1>1. an.tracked = Tracked(fn)
  BY AnalysedFacts DEF Own
<1> QED BY <1>1 DEF Home, Answer, NoHome

LEMMA OwnFields ==
  Answer.slots = slots /\ Answer.args = args /\ Answer.result = result /\ Answer.copies = copies
BY DEF Answer

\* The checks of the homes: every value has one, ...
LEMMA OwnHome ==
  ASSUME Own
  PROVE  ~BadHome(Answer) /\ ~NoSuchSlot(Answer)
<1>1. ASSUME NEW v \in Ids PROVE IF v \in Tracked(fn) THEN Home(Answer, v) # NoReg ELSE Home(Answer, v) = NoReg
  <2>1. v \in Tracked(fn) => loc[v] # NoReg
    BY OwnHomes, ScratchFacts DEF IsHome
  <2> QED BY <2>1, AnswerLoc
<1>2. ~BadHome(Answer)
  BY <1>1 DEF BadHome, NoHome
<1>3. ASSUME NEW v \in Ids, InSlot(Home(Answer, v)) PROVE \E i \in DOMAIN slots : SlotLoc(i) = Home(Answer, v)
  <2>1. v \in Tracked(fn)
    BY <1>1, <1>3 DEF InSlot, NoHome
  <2>2. Home(Answer, v) = loc[v] /\ loc[v] \notin Regs \cup ScratchRegs
    BY <1>3, <2>1, AnswerLoc DEF InSlot, InReg
  <2> QED BY <2>1, <2>2, OwnHomes DEF IsHome
<1>4. ~NoSuchSlot(Answer)
  BY <1>3, OwnFields DEF NoSuchSlot
<1> QED BY <1>2, <1>4

\* ... one it may have, ...
LEMMA OwnRegister ==
  ASSUME Own, NEW v \in Ids, InReg(Home(Answer, v))
  PROVE  v \in Tracked(fn) /\ Home(Answer, v) = loc[v] /\ loc[v] = home[v] /\ home[v] \in Allocatable /\ home[v] \in Regs
<1>1. NoReg \notin Regs \cup ScratchRegs
  BY ScratchFacts, RegsAssumption
<1>2. v \in Tracked(fn) /\ Home(Answer, v) = loc[v] /\ loc[v] \in Regs \cup ScratchRegs
  BY <1>1, AnswerLoc DEF InReg
<1> QED BY <1>2, OwnHomes DEF IsHome

LEMMA OwnReserved ==
  ASSUME Own
  PROVE  ~ReservedHome(Answer) /\ ~AcrossCall(Answer)
<1>1. ~ReservedHome(Answer)
  BY OwnRegister DEF ReservedHome
<1>2. an.across \subseteq Ids
  BY DEF Own, AllKnown, AnalysedAs, IsAnalysis, Analysis
<1>3. \A v \in an.across : home[v] \notin Regs
  BY DEF Own, Scanned, AcrossFramed
<1>4. ~AcrossCall(Answer)
  BY <1>2, <1>3, OwnRegister DEF AcrossCall
<1> QED BY <1>1, <1>4

\* ... and of its own while it lives.
LEMMA OwnOverlap ==
  ASSUME Own
  PROVE  ~Overlap(Answer)
<1> SUFFICES ASSUME NEW u \in an.tracked, NEW v \in an.tracked, u < v, Home(Answer, u) = Home(Answer, v), InReg(Home(Answer, u)),
                    Conflicts(u, v)
             PROVE  FALSE
  BY DEF Overlap
<1>1. u \in Ids /\ v \in Ids /\ u # v
  <2>1. an.tracked \subseteq Ids
    BY AnalysedFacts DEF Own
  <2>2. u \in Nat /\ v \in Nat
    BY <2>1, IdsAssumption
  <2> QED BY <2>1, <2>2
<1>2. home[u] \in Regs /\ home[u] = home[v]
  BY <1>1, OwnRegister
<1> QED BY <1>1, <1>2 DEF Own, Scanned, NoSharedRegister

\* The slots.
LEMMA OwnTable ==
  ASSUME Own
  PROVE  ~BadSlot(Answer)
<1>1. ASSUME NEW i \in DOMAIN slots, NEW u \in slots[i]
      PROVE  Home(Answer, u) = SlotLoc(i) /\ \A w \in slots[i] : w # u => CanShareSlot(fn, lay, an, safe, u, w)
  <2>1. u \in Spilled /\ u \in Ids /\ u \in Tracked(fn) /\ home[u] = Frame
    BY OwnSlots, AnalysedFacts DEF Own, Spilled
  <2>2. PICK j \in DOMAIN slots : u \in slots[j] /\ loc[u] = SlotLoc(j)
    BY <2>1, OwnHomes, RegsAssumption, FrameAssumption DEF IsHome
  <2>3. i = j
    BY <2>2, OwnSlots DEF SlotsOK
  <2>4. \A w \in slots[i] : w # u => Sharing(u, w)
    BY OwnSlots DEF SlotsOK
  <2> QED BY <2>1, <2>2, <2>3, <2>4, AnswerLoc DEF Sharing
<1>2. ASSUME NEW v \in Ids, InSlot(Home(Answer, v)) PROVE Cardinality({i \in DOMAIN slots : v \in slots[i]}) = 1
  <2>1. v \in Tracked(fn) /\ Home(Answer, v) = loc[v] /\ loc[v] \notin Regs \cup ScratchRegs
    BY <1>2, AnswerLoc DEF InSlot, InReg, NoHome
  <2>2. PICK i \in DOMAIN slots : v \in slots[i]
    BY <2>1, OwnHomes DEF IsHome
  <2>3. {j \in DOMAIN slots : v \in slots[j]} = {i}
    BY <2>2, OwnSlots DEF SlotsOK
  <2> QED BY <2>3, FS_Singleton
<1> QED BY <1>1, <1>2, OwnFields DEF BadSlot

-----------------------------------------------------------------------------
(* The registers of the operands *)

MaterialisedAt(at, u) == u \in Remats(fn) \/ (u \in Tracked(fn) /\ at[u] \notin Regs)
FirstAt(v, a) == SelectInSeq(fn.args[v], LAMBDA u : u = a)
EarlierThan(at, v, i) ==
  {fn.args[v][j] : j \in {k \in 1 .. FirstAt(v, fn.args[v][i]) - 1 : MaterialisedAt(at, fn.args[v][k])}}
Stored(v, i) == fn.op[v] # "phi" /\ fn.args[v][i] \in Tracked(fn) \cup Remats(fn)

LEMMA OperandRegIs ==
  ASSUME NEW at, NEW v, NEW i
  PROVE  OperandReg(at, v, i) =
           IF fn.op[v] = "phi" \/ fn.args[v][i] \notin Tracked(fn) \cup Remats(fn) THEN NoReg
           ELSE IF fn.op[v] \in Convention THEN IF i \in DOMAIN ArgRegs THEN ArgRegs[i] ELSE NoReg
           ELSE IF MaterialisedAt(at, fn.args[v][i]) THEN Scratch[Cardinality(EarlierThan(at, v, i)) + 1]
           ELSE at[fn.args[v][i]]
BY DEF OperandReg, MaterialisedAt, EarlierThan, FirstAt

\* The first place of an operand among the operands.
LEMMA FirstAtFacts ==
  ASSUME NEW v, fn.args[v] \in Seq(Ids), NEW i \in DOMAIN fn.args[v]
  PROVE  LET n == FirstAt(v, fn.args[v][i])
         IN  n \in DOMAIN fn.args[v] /\ fn.args[v][n] = fn.args[v][i]
             /\ \A k \in DOMAIN fn.args[v] : fn.args[v][k] = fn.args[v][i] => n <= k
<1> DEFINE a == fn.args[v][i]
           I == {k \in 1 .. Len(fn.args[v]) : fn.args[v][k] = a}
<1>1. Len(fn.args[v]) \in Nat /\ DOMAIN fn.args[v] = 1 .. Len(fn.args[v])
  BY SequenceTypes
<1>2. i \in I /\ I \subseteq Nat /\ I # {}
  BY <1>1
<1>3. FirstAt(v, a) = IF I # {} THEN Min(I) ELSE 0
  BY DEF FirstAt, SelectInSeq
<1> HIDE DEF a
<1>4. FirstAt(v, a) \in I /\ \A k \in I : FirstAt(v, a) <= k
  <2> HIDE DEF I
  <2> QED BY <1>2, <1>3, MinFacts
<1> QED BY <1>1, <1>4 DEF a

LEMMA EarlierFacts ==
  ASSUME NEW at, NEW v, fn.args[v] \in Seq(Ids), NEW i \in DOMAIN fn.args[v]
  PROVE  LET S == EarlierThan(at, v, i)
         IN  /\ IsFiniteSet(S) /\ Cardinality(S) \in Nat
             /\ Cardinality(S) + 1 <= Cardinality(ToSet(fn.args[v]))
             /\ \A j \in DOMAIN fn.args[v] :
                   MaterialisedAt(at, fn.args[v][i]) /\ FirstAt(v, fn.args[v][i]) < FirstAt(v, fn.args[v][j]) =>
                     Cardinality(S) < Cardinality(EarlierThan(at, v, j))
<1> DEFINE a == fn.args[v][i]
           S == EarlierThan(at, v, i)
           all == ToSet(fn.args[v])
<1>1. Len(fn.args[v]) \in Nat /\ DOMAIN fn.args[v] = 1 .. Len(fn.args[v]) /\ \A k \in DOMAIN fn.args[v] : fn.args[v][k] \in Ids
  BY SequenceTypes
<1>2. all = {fn.args[v][k] : k \in DOMAIN fn.args[v]}
  BY DEF ToSet
<1>3. IsFiniteSet(all)
  <2>1. all \subseteq Ids
    BY <1>1, <1>2
  <2> HIDE DEF all
  <2> QED BY <2>1, FunctionAssumption, FS_Subset
<1>4. ASSUME NEW j \in DOMAIN fn.args[v]
      PROVE  /\ EarlierThan(at, v, j) \subseteq all /\ fn.args[v][j] \notin EarlierThan(at, v, j)
             /\ \A k \in DOMAIN fn.args[v] : k < FirstAt(v, fn.args[v][j]) /\ MaterialisedAt(at, fn.args[v][k]) =>
                   fn.args[v][k] \in EarlierThan(at, v, j)
             /\ \A x \in EarlierThan(at, v, j) : \E k \in DOMAIN fn.args[v] : x = fn.args[v][k] /\ k < FirstAt(v, fn.args[v][j])
                                                                          /\ MaterialisedAt(at, fn.args[v][k])
  <2> DEFINE n == FirstAt(v, fn.args[v][j])
             E == EarlierThan(at, v, j)
  <2>1. n \in 1 .. Len(fn.args[v]) /\ \A k \in DOMAIN fn.args[v] : fn.args[v][k] = fn.args[v][j] => n <= k
    BY <1>1, FirstAtFacts
  <2>2. E = {fn.args[v][k] : k \in {m \in 1 .. n - 1 : MaterialisedAt(at, fn.args[v][m])}}
    BY DEF EarlierThan
  <2> HIDE DEF n, E
  <2>3. \A k \in 1 .. n - 1 : k \in DOMAIN fn.args[v] /\ k < n
    BY <1>1, <2>1
  <2>4. \A k \in DOMAIN fn.args[v] : k < n => k \in 1 .. n - 1
    BY <1>1, <2>1
  <2>5. \A x \in E : \E k \in DOMAIN fn.args[v] : x = fn.args[v][k] /\ k < n /\ MaterialisedAt(at, fn.args[v][k])
    BY <2>2, <2>3
  <2>6. E \subseteq all
    BY <1>2, <2>5
  <2>7. fn.args[v][j] \notin E
    <3> SUFFICES ASSUME fn.args[v][j] \in E PROVE FALSE
      OBVIOUS
    <3>1. PICK k \in DOMAIN fn.args[v] : fn.args[v][j] = fn.args[v][k] /\ k < n
      BY <2>5
    <3>2. n <= k /\ k \in Nat /\ n \in Nat
      BY <1>1, <2>1, <3>1
    <3> QED BY <3>1, <3>2
  <2>8. \A k \in DOMAIN fn.args[v] : k < n /\ MaterialisedAt(at, fn.args[v][k]) => fn.args[v][k] \in E
    BY <2>2, <2>4
  <2> QED BY <2>5, <2>6, <2>7, <2>8 DEF n, E
<1>5. \A j \in DOMAIN fn.args[v] : IsFiniteSet(EarlierThan(at, v, j)) /\ Cardinality(EarlierThan(at, v, j)) \in Nat
  <2> HIDE DEF all
  <2> QED BY <1>3, <1>4, FS_Subset, FS_CardinalityType
<1>6. IsFiniteSet(S \cup {a}) /\ Cardinality(S \cup {a}) = Cardinality(S) + 1
  <2>1. a \notin S /\ IsFiniteSet(S)
    BY <1>4, <1>5
  <2> HIDE DEF a, S
  <2> QED BY <2>1, FS_AddElement
<1>7. Cardinality(S) + 1 <= Cardinality(all)
  <2>1. S \cup {a} \subseteq all
    BY <1>2, <1>4
  <2> HIDE DEF all, S, a
  <2> QED BY <1>3, <1>6, <2>1, FS_Subset
<1>8. ASSUME NEW j \in DOMAIN fn.args[v], MaterialisedAt(at, a), FirstAt(v, a) < FirstAt(v, fn.args[v][j])
      PROVE  Cardinality(S) < Cardinality(EarlierThan(at, v, j))
  <2> DEFINE E == EarlierThan(at, v, j)
             n == FirstAt(v, a)
             m == FirstAt(v, fn.args[v][j])
  <2>1. n \in DOMAIN fn.args[v] /\ fn.args[v][n] = a /\ m \in DOMAIN fn.args[v] /\ n < m
    BY <1>8, FirstAtFacts
  <2>2. a \in E
    BY <1>4, <1>8, <2>1
  <2>3. S \subseteq E
    <3> SUFFICES ASSUME NEW x \in S PROVE x \in E
      OBVIOUS
    <3>1. PICK k \in DOMAIN fn.args[v] : x = fn.args[v][k] /\ k < n /\ MaterialisedAt(at, fn.args[v][k])
      BY <1>4
    <3>2. k < m
      <4> HIDE DEF n, m
      <4>1. k \in Nat /\ n \in Nat /\ m \in Nat
        BY <1>1, <2>1, <3>1
      <4> QED BY <2>1, <3>1, <4>1
    <3> QED BY <1>4, <3>1, <3>2
  <2>4. S \cup {a} \subseteq E /\ IsFiniteSet(E) /\ Cardinality(E) \in Nat
    BY <1>5, <2>2, <2>3
  <2>5. Cardinality(S) \in Nat
    BY <1>5
  <2> HIDE DEF E, S, a, n, m
  <2>6. Cardinality(S \cup {a}) <= Cardinality(E)
    BY <2>4, FS_Subset
  <2>7. Cardinality(S) < Cardinality(E)
    BY <1>6, <2>4, <2>5, <2>6
  <2> QED BY <2>7 DEF E
<1> QED BY <1>5, <1>7, <1>8

\* The values that stand in the code.
LEMMA StandsSomewhere ==
  ASSUME AllKnown, NEW v \in ToSet(lay.at) \ {NoId}
  PROVE  v \in Values(fn) /\ v \in Ids /\ \E b \in Blocks(fn) : \E i \in DOMAIN fn.vals[b] : fn.vals[b][i] = v /\ WellPlaced(fn, b, i)
<1>1. IsLayout(fn, lay) /\ IsFunction(fn)
  BY AnalysedFacts DEF Fits
<1>2. DOMAIN lay.at = Positions
  BY <1>1 DEF IsLayout
<1>3. PICK p \in Positions : lay.at[p] = v
  BY <1>2 DEF ToSet
<1>4. v \in Values(fn) /\ v \in Ids
  BY <1>1, <1>3 DEF IsLayout
<1>5. \E b \in Blocks(fn) : v \in ToSet(fn.vals[b])
  BY <1>4 DEF Values
<1>6. \E b \in Blocks(fn) : \E i \in DOMAIN fn.vals[b] : fn.vals[b][i] = v
  BY <1>5 DEF ToSet
<1> QED BY <1>4, <1>6, AnalysedFacts

\* An operand is where the check wants it.
LEMMA OwnOperandIs ==
  ASSUME Own, NEW v \in Values(fn), v \in Ids, NEW i \in DOMAIN fn.args[v]
  PROVE  LET a == fn.args[v][i]
             r == args[v][i]
             S == EarlierThan(loc, v, i)
         IN  /\ OperandOK(Answer, v, i)
             /\ r \in ScratchRegs => /\ MaterialisedAt(loc, a) /\ r = Scratch[Cardinality(S) + 1]
                                    /\ Cardinality(S) + 1 \in DOMAIN Scratch
<1> DEFINE a == fn.args[v][i]
           r == args[v][i]
           S == EarlierThan(loc, v, i)
<1>0. IsFunction(fn) /\ AllKnown
  BY AnalysedFacts DEF Own
<1>1. fn.args[v] \in Seq(Ids) /\ a \in Ids /\ Tracked(fn) \cap Remats(fn) = {} /\ Tracked(fn) \subseteq Ids
  <2>1. fn.args[v] \in Seq(Ids) /\ Tracked(fn) \subseteq Ids
    BY <1>0, FunctionFacts
  <2>2. a \in Ids
    BY <2>1, SequenceTypes
  <2>3. Tracked(fn) \cap Remats(fn) = {}
    BY DEF Tracked, Remats
  <2> QED BY <2>1, <2>2, <2>3
<1>2. r = OperandReg(loc, v, i)
  <2>1. args = OperandRegs(loc)
    BY DEF Own, Answered
  <2> QED BY <2>1 DEF OperandRegs
<1>3. r = IF fn.op[v] = "phi" \/ a \notin Tracked(fn) \cup Remats(fn) THEN NoReg
          ELSE IF fn.op[v] \in Convention THEN IF i \in DOMAIN ArgRegs THEN ArgRegs[i] ELSE NoReg
          ELSE IF MaterialisedAt(loc, a) THEN Scratch[Cardinality(S) + 1]
          ELSE loc[a]
  BY <1>2, OperandRegIs
<1>4. Answer.args[v][i] = r
  BY OwnFields
<1>5. NoReg \notin ScratchRegs /\ \A k \in DOMAIN ArgRegs : ArgRegs[k] \notin ScratchRegs
  <2>1. ArgRegs \in Seq(Regs) /\ ScratchRegs \cap Regs = {}
    BY MachineAssumption
  <2>2. \A k \in DOMAIN ArgRegs : ArgRegs[k] \in Regs
    BY <2>1, SequenceTypes
  <2> QED BY <2>1, <2>2, ScratchFacts
<1>6. a \in Tracked(fn) => IF InReg(Home(Answer, a)) THEN Home(Answer, a) = loc[a] /\ loc[a] \in Regs /\ loc[a] \notin ScratchRegs
                          ELSE loc[a] \notin Regs
  <2> SUFFICES ASSUME a \in Tracked(fn)
               PROVE  IF InReg(Home(Answer, a)) THEN Home(Answer, a) = loc[a] /\ loc[a] \in Regs /\ loc[a] \notin ScratchRegs
                      ELSE loc[a] \notin Regs
    OBVIOUS
  <2>1. Home(Answer, a) = loc[a]
    BY <1>1, AnswerLoc
  <2>2. InReg(Home(Answer, a)) => loc[a] \in Regs
    BY <1>1, <2>1, OwnRegister
  <2>3. ScratchRegs \cap Regs = {}
    BY MachineAssumption
  <2> QED BY <2>1, <2>2, <2>3 DEF InReg
<1>7. a \notin Tracked(fn) => ~InReg(Home(Answer, a))
  <2>1. NoReg \notin Regs
    BY RegsAssumption
  <2> QED BY <1>1, <1>5, <2>1, AnswerLoc DEF InReg
<1>8. fn.op[v] \notin Convention \cup {"phi"} => Cardinality(S) + 1 \in DOMAIN Scratch
  <2> SUFFICES ASSUME fn.op[v] \notin Convention \cup {"phi"} PROVE Cardinality(S) + 1 \in DOMAIN Scratch
    OBVIOUS
  <2>1. Cardinality(ToSet(fn.args[v])) <= Len(Scratch)
    BY <1>0, AnalysedFacts DEF Ready, Conventional
  <2>2. Cardinality(S) \in Nat /\ Cardinality(S) + 1 <= Cardinality(ToSet(fn.args[v]))
    BY <1>1, EarlierFacts
  <2>3. Cardinality(ToSet(fn.args[v])) \in Nat
    <3>1. \A k \in DOMAIN fn.args[v] : fn.args[v][k] \in Ids
      BY <1>1, SequenceTypes
    <3>2. ToSet(fn.args[v]) \subseteq Ids
      BY <3>1 DEF ToSet
    <3> HIDE DEF S, a, r
    <3> QED BY <3>2, FunctionAssumption, FS_Subset, FS_CardinalityType
  <2> DEFINE c == Cardinality(S)
             d == Cardinality(ToSet(fn.args[v]))
             e == Len(Scratch)
  <2>4. c \in Nat /\ d \in Nat /\ e \in Nat /\ c + 1 <= d /\ d <= e /\ DOMAIN Scratch = 1 .. e
    BY <2>1, <2>2, <2>3, ScratchFacts
  <2> HIDE DEF c, d, e
  <2>5. c + 1 \in DOMAIN Scratch
    BY <2>4
  <2> QED BY <2>5 DEF c
<1> HIDE DEF S, r, a
<1>9. CASE fn.op[v] = "phi" \/ a \notin Tracked(fn) \cup Remats(fn)
  <2>1. r = NoReg
    BY <1>3, <1>9
  <2> QED BY <1>4, <1>5, <1>9, <2>1 DEF OperandOK, a, r
<1>10. CASE ~(fn.op[v] = "phi" \/ a \notin Tracked(fn) \cup Remats(fn)) /\ fn.op[v] \in Convention
  <2>1. r = IF i \in DOMAIN ArgRegs THEN ArgRegs[i] ELSE NoReg
    BY <1>3, <1>10
  <2>2. r \notin ScratchRegs
    BY <1>5, <2>1
  <2>3. OperandOK(Answer, v, i)
    BY <1>4, <1>10, <2>1 DEF OperandOK, a, r
  <2> QED BY <2>2, <2>3 DEF r
<1>11. CASE /\ ~(fn.op[v] = "phi" \/ a \notin Tracked(fn) \cup Remats(fn)) /\ fn.op[v] \notin Convention
            /\ MaterialisedAt(loc, a)
  <2>1. r = Scratch[Cardinality(S) + 1] /\ Cardinality(S) + 1 \in DOMAIN Scratch
    BY <1>3, <1>8, <1>11
  <2>2. r \in ScratchRegs
    BY <2>1, ScratchFacts
  <2>3. ~(a \notin Remats(fn) /\ InReg(Home(Answer, a)))
    BY <1>6, <1>7, <1>11 DEF MaterialisedAt
  <2>4. OperandOK(Answer, v, i)
    BY <1>4, <1>11, <2>2, <2>3 DEF OperandOK, a, r
  <2> QED BY <1>11, <2>1, <2>4 DEF a, r, S
<1>12. CASE /\ ~(fn.op[v] = "phi" \/ a \notin Tracked(fn) \cup Remats(fn)) /\ fn.op[v] \notin Convention
            /\ ~MaterialisedAt(loc, a)
  <2>1. r = loc[a]
    BY <1>3, <1>12
  <2>2. a \in Tracked(fn) /\ a \notin Remats(fn) /\ loc[a] \in Regs
    BY <1>12 DEF MaterialisedAt
  <2>3. InReg(Home(Answer, a)) /\ Home(Answer, a) = loc[a] /\ r \notin ScratchRegs
    BY <1>6, <2>1, <2>2
  <2>4. OperandOK(Answer, v, i)
    BY <1>4, <1>12, <2>1, <2>2, <2>3 DEF OperandOK, a, r
  <2> QED BY <2>3, <2>4 DEF r
<1> QED BY <1>9, <1>10, <1>11, <1>12

\* Different values are read into different scratch registers.
LEMMA OwnScratch ==
  ASSUME Own, NEW v \in Values(fn), v \in Ids
  PROVE  ~ScratchTwice(Answer, v)
<1> SUFFICES ASSUME NEW i \in DOMAIN fn.args[v], NEW j \in DOMAIN fn.args[v], fn.args[v][i] # fn.args[v][j],
                    args[v][i] = args[v][j], args[v][i] \in ScratchRegs
             PROVE  FALSE
  BY OwnFields DEF ScratchTwice
<1>1. fn.args[v] \in Seq(Ids) /\ DOMAIN fn.args[v] \subseteq Nat
  <2>1. fn.args[v] \in Seq(Ids)
    BY FunctionFacts, AnalysedFacts DEF Own
  <2>2. DOMAIN fn.args[v] = 1 .. Len(fn.args[v])
    BY <2>1, SequenceTypes
  <2> QED BY <2>1, <2>2
<1> DEFINE a == fn.args[v][i]
           b == fn.args[v][j]
           S == EarlierThan(loc, v, i)
           E == EarlierThan(loc, v, j)
<1>2. MaterialisedAt(loc, a) /\ args[v][i] = Scratch[Cardinality(S) + 1] /\ Cardinality(S) + 1 \in DOMAIN Scratch
  BY OwnOperandIs
<1>3. MaterialisedAt(loc, b) /\ args[v][j] = Scratch[Cardinality(E) + 1] /\ Cardinality(E) + 1 \in DOMAIN Scratch
  BY OwnOperandIs
<1>4. Cardinality(S) \in Nat /\ Cardinality(E) \in Nat
  BY <1>1, EarlierFacts
<1>5. FirstAt(v, a) < FirstAt(v, b) => Cardinality(S) < Cardinality(E)
  BY <1>1, <1>2, EarlierFacts
<1>6. FirstAt(v, b) < FirstAt(v, a) => Cardinality(E) < Cardinality(S)
  BY <1>1, <1>3, EarlierFacts
<1>7. FirstAt(v, a) # FirstAt(v, b) /\ FirstAt(v, a) \in Nat /\ FirstAt(v, b) \in Nat
  <2>1. FirstAt(v, a) \in DOMAIN fn.args[v] /\ fn.args[v][FirstAt(v, a)] = a
    BY <1>1, FirstAtFacts
  <2>2. FirstAt(v, b) \in DOMAIN fn.args[v] /\ fn.args[v][FirstAt(v, b)] = b
    BY <1>1, FirstAtFacts
  <2> QED BY <1>1, <2>1, <2>2
<1>8. Cardinality(S) + 1 = Cardinality(E) + 1
  <2> HIDE DEF S, E
  <2> QED BY <1>2, <1>3, ScratchFacts
<1> HIDE DEF S, E, a, b
<1> QED BY <1>4, <1>5, <1>6, <1>7, <1>8

\* A result is written to its home, or through a scratch register.
LEMMA OwnResult ==
  ASSUME Own, NEW v \in Ids
  PROVE  ResultOK(Answer, v)
<1>1. Answer.result[v] = IF v \notin Tracked(fn) THEN NoReg ELSE IF loc[v] \in Regs THEN loc[v] ELSE Scratch[1]
  <2>1. result = ResultRegs(loc) /\ an.tracked = Tracked(fn)
    BY AnalysedFacts DEF Own, Answered
  <2> QED BY <2>1, OwnFields DEF ResultRegs
<1>2. CASE InReg(Home(Answer, v))
  <2>1. v \in Tracked(fn) /\ Home(Answer, v) = loc[v] /\ loc[v] \in Regs
    BY <1>2, OwnRegister
  <2> QED BY <1>1, <1>2, <2>1 DEF ResultOK
<1>3. CASE ~InReg(Home(Answer, v)) /\ InSlot(Home(Answer, v))
  <2>1. v \in Tracked(fn) /\ Home(Answer, v) = loc[v]
    BY <1>3, AnswerLoc DEF InSlot, NoHome
  <2>2. Answer.result[v] \in ScratchRegs
    BY <1>1, <1>3, <2>1, ScratchFacts DEF InReg
  <2> QED BY <1>3, <2>2 DEF ResultOK
<1>4. CASE ~InReg(Home(Answer, v)) /\ ~InSlot(Home(Answer, v))
  <2>1. Home(Answer, v) = NoReg
    BY <1>4 DEF InSlot, NoHome
  <2>2. v \notin Tracked(fn)
    BY <2>1, OwnHome DEF BadHome, NoHome
  <2> QED BY <1>1, <1>4, <2>2 DEF ResultOK
<1> QED BY <1>2, <1>3, <1>4

LEMMA OwnOperand ==
  ASSUME Own
  PROVE  ~BadOperand(Answer)
<1> SUFFICES ASSUME NEW v \in ToSet(lay.at) \ {NoId}
             PROVE  (\A i \in DOMAIN fn.args[v] : OperandOK(Answer, v, i)) /\ ~ScratchTwice(Answer, v) /\ ResultOK(Answer, v)
  BY DEF BadOperand
<1>1. v \in Values(fn) /\ v \in Ids
  BY StandsSomewhere DEF Own
<1> QED BY <1>1, OwnOperandIs, OwnScratch, OwnResult

-----------------------------------------------------------------------------
(* What the allocator keeps apart *)

\* Two values whose ranges go on past each other's beginnings have two homes.
LEMMA OwnApart ==
  ASSUME Own, NEW u \in Tracked(fn), NEW v \in Tracked(fn), u # v, an.start[u] < an.end[v], an.start[v] < an.end[u]
  PROVE  loc[u] # loc[v]
<1> SUFFICES ASSUME loc[u] = loc[v] PROVE FALSE
  OBVIOUS
<1>0. AllKnown
  BY DEF Own
<1>1. Conflicts(u, v) /\ Overlaps(an, u, v)
  BY <1>0, RangeFacts, Crossing
<1>2. IsHome(u) /\ IsHome(v) /\ u \in an.tracked /\ v \in an.tracked
  BY OwnHomes
<1>3. CASE home[u] \in Regs /\ loc[u] = home[u]
  <2>1. home[v] \in Regs /\ loc[v] = home[v]
    BY <1>2, <1>3 DEF IsHome
  <2> QED BY <1>1, <1>2, <1>3, <2>1 DEF Own, Scanned, NoSharedRegister
<1>4. CASE ~(home[u] \in Regs /\ loc[u] = home[u])
  <2>1. PICK i \in DOMAIN slots : u \in slots[i] /\ loc[u] = SlotLoc(i)
    BY <1>2, <1>4 DEF IsHome
  <2>2. PICK k \in DOMAIN slots : v \in slots[k] /\ loc[v] = SlotLoc(k)
    BY <1>2, <2>1 DEF IsHome
  <2>3. i \in Nat /\ i >= 1 /\ k \in Nat
    BY OwnSlots
  <2>4. i = k
    BY <2>1, <2>2, <2>3, SlotFacts
  <2>5. Sharing(u, v)
    BY <2>1, <2>2, <2>4, OwnSlots DEF SlotsOK
  <2> QED BY <1>1, <2>5 DEF Sharing, CanShareSlot
<1> QED BY <1>3, <1>4

\* The rows of two blocks do not mix.
LEMMA RowsInOrder ==
  ASSUME AllKnown, NEW b \in Blocks(fn), NEW s \in Blocks(fn)
  PROVE  b = s \/ lay.last[b] < lay.first[s] \/ lay.last[s] < lay.first[b]
<1> SUFFICES ASSUME b # s PROVE lay.last[b] < lay.first[s] \/ lay.last[s] < lay.first[b]
  OBVIOUS
<1>1. IsLayout(fn, lay)
  BY AnalysedFacts DEF Fits
<1>2. lay.order \in Seq(Blocks(fn)) /\ \E k \in DOMAIN lay.order : lay.order[k] = b
  BY <1>1, InSequence DEF IsLayout, IsOrder
<1>3. \E m \in DOMAIN lay.order : lay.order[m] = s
  BY <1>1, InSequence DEF IsLayout, IsOrder
<1>4. PICK k \in DOMAIN lay.order : lay.order[k] = b
  BY <1>2
<1>5. PICK m \in DOMAIN lay.order : lay.order[m] = s
  BY <1>3
<1>6. k \in Nat /\ m \in Nat /\ k # m
  BY <1>2, <1>4, <1>5, SequenceTypes
<1>7. k < m \/ m < k
  BY ONLY <1>6
<1> QED BY <1>1, <1>4, <1>5, <1>7 DEF IsLayout

\* Every phi of a block is written at the ends of the block's predecessors too.
LEMMA PhiSpans ==
  ASSUME AllKnown, NEW s \in Blocks(fn), NEW j \in DOMAIN fn.preds[s], NEW p \in Phis(fn, s)
  PROVE  /\ p \in Tracked(fn) /\ an.start[p] \in Nat /\ an.end[p] \in Nat /\ lay.pos[p] \in Nat
         /\ an.start[p] <= lay.pos[p] /\ lay.pos[p] <= an.end[p]
         /\ an.start[p] <= lay.last[fn.preds[s][j]] /\ lay.last[fn.preds[s][j]] <= an.end[p]
         /\ lay.first[s] <= lay.pos[p] /\ lay.pos[p] < lay.last[s]
<1>1. IsFunction(fn) /\ Fits(fn, lay)
  BY AnalysedFacts
<1>2. p \in Tracked(fn) /\ fn.op[p] = "phi" /\ \E i \in DOMAIN fn.vals[s] : fn.vals[s][i] = p
  BY PhiPlace
<1>3. PICK i \in DOMAIN fn.vals[s] : fn.vals[s][i] = p
  BY <1>2
<1>4. BlockOf(fn, p) = s
  BY <1>1, <1>3, Stands
<1>5. lay.last[fn.preds[s][j]] \in Covers(fn, lay, liveIn, liveOut, p)
  BY <1>2, <1>4 DEF Covers, Writes, ToSet
<1>6. lay.first[s] <= lay.pos[p] /\ lay.pos[p] < lay.last[s]
  BY <1>1, <1>3, PositionOf
<1> QED BY <1>2, <1>5, <1>6, RangeFacts

\* So two phis of a block that is entered have two homes.
LEMMA PhisDiffer ==
  ASSUME Own, NEW s \in Blocks(fn), NEW j \in DOMAIN fn.preds[s], NEW p \in Phis(fn, s), NEW q \in Phis(fn, s), p # q
  PROVE  loc[p] # loc[q]
<1> DEFINE b == fn.preds[s][j]
           w == lay.last[b]
<1>0. AllKnown
  BY DEF Own
<1>1. IsFunction(fn) /\ Fits(fn, lay) /\ b \in Blocks(fn) /\ Tracked(fn) \subseteq Values(fn) /\ IsGraph(fn)
  BY <1>0, AnalysedFacts, GraphTypes
<1>2. /\ lay.first[b] \in Nat /\ lay.last[b] \in Nat /\ lay.first[b] <= lay.last[b]
      /\ lay.first[s] \in Nat /\ lay.last[s] \in Nat
  <2> DEFINE n == Len(fn.vals[b])
             x == lay.first[b]
             y == lay.last[b]
  <2>1. x \in Nat /\ y \in Nat /\ y = x + n /\ n \in Nat /\ lay.first[s] \in Nat /\ lay.last[s] \in Nat
    BY <1>1, EndPosition
  <2> HIDE DEF n, x, y
  <2>2. x <= y
    BY <2>1
  <2> QED BY <2>1, <2>2 DEF x, y
<1>3. w < lay.first[s] \/ lay.last[s] <= w
  <2>1. b = s \/ lay.last[b] < lay.first[s] \/ lay.last[s] < lay.first[b]
    BY <1>0, <1>1, RowsInOrder
  <2> HIDE DEF b
  <2> DEFINE x == lay.first[b]
             y == lay.last[b]
             z == lay.last[s]
  <2>2. x \in Nat /\ y \in Nat /\ z \in Nat /\ x <= y
    BY <1>2
  <2>3. CASE b = s
    BY <1>2, <2>3
  <2>4. CASE lay.last[b] < lay.first[s]
    BY <2>4
  <2>5. CASE z < x
    <3> HIDE DEF x, y, z
    <3>1. z <= y
      BY <2>2, <2>5
    <3> QED BY <3>1 DEF y, z
  <2> QED BY <2>1, <2>3, <2>4, <2>5
<1>4. /\ p \in Tracked(fn) /\ an.start[p] \in Nat /\ an.end[p] \in Nat /\ lay.pos[p] \in Nat
      /\ an.start[p] <= lay.pos[p] /\ lay.pos[p] <= an.end[p] /\ an.start[p] <= w /\ w <= an.end[p]
      /\ lay.first[s] <= lay.pos[p] /\ lay.pos[p] < lay.last[s]
  BY <1>0, PhiSpans
<1>5. /\ q \in Tracked(fn) /\ an.start[q] \in Nat /\ an.end[q] \in Nat /\ lay.pos[q] \in Nat
      /\ an.start[q] <= lay.pos[q] /\ lay.pos[q] <= an.end[q] /\ an.start[q] <= w /\ w <= an.end[q]
      /\ lay.first[s] <= lay.pos[q] /\ lay.pos[q] < lay.last[s]
  BY <1>0, PhiSpans
<1>6. an.start[p] < an.end[q] /\ an.start[q] < an.end[p]
  <2> DEFINE sp == an.start[p]
             ep == an.end[p]
             xp == lay.pos[p]
             sq == an.start[q]
             eq == an.end[q]
             xq == lay.pos[q]
             f == lay.first[s]
             l == lay.last[s]
  <2>1. sp \in Nat /\ ep \in Nat /\ xp \in Nat /\ sp <= xp /\ xp <= ep /\ sp <= w /\ w <= ep /\ f <= xp /\ xp < l
    BY <1>4
  <2>2. sq \in Nat /\ eq \in Nat /\ xq \in Nat /\ sq <= xq /\ xq <= eq /\ sq <= w /\ w <= eq /\ f <= xq /\ xq < l
    BY <1>5
  <2>3. w \in Nat /\ f \in Nat /\ l \in Nat /\ (w < f \/ l <= w)
    BY <1>2, <1>3
  <2> HIDE DEF sp, ep, xp, sq, eq, xq, f, l, w
  <2>4. sp < eq /\ sq < ep
    BY <2>1, <2>2, <2>3
  <2> QED BY <2>4 DEF sp, ep, sq, eq
<1> QED BY <1>4, <1>5, <1>6, OwnApart

\* What a phi reads is live at the end of the block it comes from.
LEMMA ArgLeaves ==
  ASSUME AllKnown, NEW s \in Blocks(fn), NEW j \in DOMAIN fn.preds[s], NEW p \in Phis(fn, s), fn.args[p][j] \in Tracked(fn)
  PROVE  fn.args[p][j] \in LiveAtEnd(fn, fn.preds[s][j])
<1> DEFINE b == fn.preds[s][j]
           u == fn.args[p][j]
<1>1. IsGraph(fn) /\ Matched(fn) /\ b \in Blocks(fn)
  BY AnalysedFacts, GraphTypes
<1>2. PICK i \in DOMAIN fn.succs[b] : fn.succs[b][i] = s /\ IsSlot(fn, b, i, j)
  BY <1>1 DEF Matched
<1>3. EdgeArg(fn, b, i, p) = u
  BY <1>1, <1>2, PredIndexIsSlot DEF EdgeArg
<1>4. u \in ReadAtEnd(fn, b)
  <2> DEFINE carried(x) == {EdgeArg(fn, b, x, phi) : phi \in Phis(fn, fn.succs[b][x])}
  <2>1. p \in Phis(fn, fn.succs[b][i]) /\ u \in Tracked(fn)
    BY <1>2
  <2>2. u \in carried(i)
    BY ONLY <1>3, <2>1
  <2> HIDE DEF carried
  <2>3. u \in Tracked(fn) \cap UNION {carried(x) : x \in DOMAIN fn.succs[b]}
    BY ONLY <1>2, <2>1, <2>2
  <2> QED BY ONLY <2>3 DEF ReadAtEnd, carried
<1> QED BY <1>4 DEF LiveAtEnd

\* Two values that phis of a block read on one edge have two homes.
LEMMA ArgsDiffer ==
  ASSUME Own, NEW s \in Blocks(fn), NEW j \in DOMAIN fn.preds[s],
         NEW u \in Arriving(s, j) \cap Tracked(fn), NEW v \in Arriving(s, j) \cap Tracked(fn), u # v
  PROVE  loc[u] # loc[v]
<1> DEFINE b == fn.preds[s][j]
           N == Len(fn.vals[b])
           w == lay.first[b] + (N + 1) - 1
<1>0. AllKnown
  BY DEF Own
<1>1. IsFunction(fn) /\ FlowGraph(fn) /\ b \in Blocks(fn) /\ N \in Nat
  BY <1>0, AnalysedFacts, GraphTypes
<1>2. LiveAt(fn, b, N + 1) = LiveAtEnd(fn, b) /\ N + 1 \in 1 .. N + 1
  <2>1. LiveAt(fn, b, N + 1) = LiveAtEnd(fn, b)
    BY <1>1, LiveSteps
  <2> QED BY <1>1, <2>1
<1>3. ASSUME NEW x \in Arriving(s, j) \cap Tracked(fn)
      PROVE  an.start[x] \in Nat /\ an.end[x] \in Nat /\ an.start[x] < w /\ w <= an.end[x] /\ w \in Nat
  <2>1. PICK p \in Phis(fn, s) : x = fn.args[p][j]
    BY DEF Arriving
  <2>2. x \in LiveAt(fn, b, N + 1)
    BY <1>0, <1>2, <2>1, ArgLeaves
  <2> HIDE DEF b
  <2>3. /\ an.start[x] \in Nat /\ an.end[x] \in Nat /\ lay.pos[x] \in Nat
        /\ an.start[x] <= lay.pos[x] /\ lay.pos[x] < w /\ w <= an.end[x]
    BY <1>0, <1>1, <1>2, <2>2, LiveSpans
  <2>4. w \in Nat
    <3>1. lay.first[b] \in Nat
      BY <1>0, <1>1, AnalysedFacts, EndPosition
    <3> QED BY <1>1, <3>1
  <2> HIDE DEF w
  <2>5. an.start[x] < w
    <3> DEFINE y == an.start[x]
               z == lay.pos[x]
    <3>1. y \in Nat /\ z \in Nat /\ w \in Nat /\ y <= z /\ z < w
      BY <2>3, <2>4
    <3> HIDE DEF y, z
    <3>2. y < w
      BY <3>1
    <3> QED BY <3>2 DEF y
  <2> QED BY <2>3, <2>4, <2>5
<1>4. an.start[u] < an.end[v] /\ an.start[v] < an.end[u]
  <2> DEFINE su == an.start[u]
             eu == an.end[u]
             sv == an.start[v]
             ev == an.end[v]
  <2>1. su \in Nat /\ eu \in Nat /\ su < w /\ w <= eu /\ w \in Nat
    BY <1>3
  <2>2. sv \in Nat /\ ev \in Nat /\ sv < w /\ w <= ev
    BY <1>3
  <2> HIDE DEF su, eu, sv, ev, w
  <2>3. su < ev /\ sv < eu
    BY <2>1, <2>2
  <2> QED BY <2>3 DEF su, eu, sv, ev
<1> QED BY <1>4, OwnApart

-----------------------------------------------------------------------------
(* The copies of an edge can be made *)

\* The copy that phi p asks for on the edge, and the phis that ask for one.
CopyFor(p, j) == [dst |-> loc[p], src |-> IF fn.args[p][j] \in Remats(fn) THEN NoReg ELSE loc[fn.args[p][j]],
                  val |-> fn.args[p][j]]
Asking(s, j) == {p \in Phis(fn, s) : LET a == fn.args[p][j] IN a \in Remats(fn) \/ (a \in Tracked(fn) /\ loc[a] # loc[p])}

LEMMA EdgeCopiesAre ==
  ASSUME NEW s, NEW j
  PROVE  EdgeCopies(loc, s, j) = {CopyFor(p, j) : p \in Asking(s, j)}
BY DEF EdgeCopies, CopyFor, Asking

\* A home is a location, not a scratch register and not nowhere.
LEMMA HomeIsPlace ==
  ASSUME Own, NEW v \in Tracked(fn)
  PROVE  loc[v] \in Nat /\ loc[v] \in Int /\ loc[v] # NoReg /\ loc[v] \notin ScratchRegs /\ loc[v] \in Cells /\ v \in Ids
         /\ Home(Answer, v) = loc[v]
<1>1. IsHome(v) /\ loc[v] \in Cells /\ v \in Ids
  BY OwnHomes
<1>2. loc[v] \in Nat /\ loc[v] \notin ScratchRegs
  BY <1>1, MachineAssumption DEF IsHome
<1>3. NoReg \notin Int /\ Nat \subseteq Int
  BY MachineAssumption
<1> QED BY <1>1, <1>2, <1>3, AnswerLoc

LEMMA CopyForFacts ==
  ASSUME Own, NEW s \in Blocks(fn), NEW j \in DOMAIN fn.preds[s], NEW p \in Asking(s, j)
  PROVE  LET c == CopyFor(p, j)
         IN  /\ p \in Phis(fn, s) /\ p \in Tracked(fn)
             /\ c \in Copies /\ c.dst = loc[p] /\ c.dst \notin ScratchRegs /\ c.dst # NoReg /\ c.dst # c.src /\ c.dst \in Cells
             /\ c.src # Scratch[2] /\ (c.src = NoReg => c.val \in Remats(fn)) /\ c.val = fn.args[p][j]
             /\ c.src = NoReg \/ (c.src = loc[c.val] /\ c.val \in Arriving(s, j) \cap Tracked(fn))
<1> DEFINE a == fn.args[p][j]
           c == CopyFor(p, j)
<1>0. AllKnown
  BY DEF Own
<1>1. p \in Phis(fn, s) /\ (a \in Remats(fn) \/ (a \in Tracked(fn) /\ loc[a] # loc[p]))
  BY DEF Asking
<1>2. p \in Tracked(fn)
  BY <1>0, <1>1, PhiPlace
<1>3. a \in Ids /\ (a \in Tracked(fn) => a \notin Remats(fn))
  <2>1. Tracked(fn) \subseteq Ids /\ Remats(fn) \subseteq Ids
    BY <1>0, AnalysedFacts, FunctionFacts
  <2>2. Tracked(fn) \cap Remats(fn) = {}
    BY DEF Tracked, Remats
  <2> QED BY <1>1, <2>1, <2>2
<1>4. c = [dst |-> loc[p], src |-> IF a \in Remats(fn) THEN NoReg ELSE loc[a], val |-> a]
  BY DEF CopyFor
<1>5. c.dst = loc[p] /\ c.val = a /\ c.src = IF a \in Remats(fn) THEN NoReg ELSE loc[a]
  BY <1>4
<1>6. loc[p] \in Int /\ loc[p] # NoReg /\ loc[p] \notin ScratchRegs /\ loc[p] \in Cells
  BY <1>2, HomeIsPlace
<1>7. a \in Tracked(fn) => loc[a] \in Int /\ loc[a] \notin ScratchRegs /\ loc[a] # NoReg
  BY HomeIsPlace
<1>8. a \in Arriving(s, j)
  BY <1>1 DEF Arriving
<1> HIDE DEF a, c
<1>9. c \in Copies
  BY <1>1, <1>3, <1>4, <1>6, <1>7 DEF Copies
<1>10. c.src # Scratch[2] /\ c.dst # c.src
  BY <1>1, <1>3, <1>5, <1>6, <1>7, ScratchFacts
<1>11. (c.src = NoReg => c.val \in Remats(fn)) /\ (c.src = NoReg \/ (c.src = loc[c.val] /\ c.val \in Arriving(s, j) \cap Tracked(fn)))
  BY <1>1, <1>3, <1>5, <1>7, <1>8
<1> QED BY <1>1, <1>2, <1>5, <1>6, <1>9, <1>10, <1>11 DEF a, c

LEMMA EdgeParallel ==
  ASSUME Own, NEW s \in Blocks(fn), NEW j \in DOMAIN fn.preds[s]
  PROVE  Parallel(EdgeCopies(loc, s, j))
<1> DEFINE P == Asking(s, j)
           cs == EdgeCopies(loc, s, j)
           f == [p \in P |-> CopyFor(p, j)]
<1>1. cs = {CopyFor(p, j) : p \in P}
  BY EdgeCopiesAre
<1>2. IsFiniteSet(P)
  <2>1. P \subseteq Ids
    <3> SUFFICES ASSUME NEW p \in P PROVE p \in Ids
      OBVIOUS
    <3>1. p \in Tracked(fn)
      BY CopyForFacts
    <3> QED BY <3>1, HomeIsPlace
  <2> HIDE DEF P
  <2> QED BY <2>1, FunctionAssumption, FS_Subset
<1>3. f \in Surjection(P, cs)
  BY <1>1 DEF Surjection
<1>4. IsFiniteSet(cs)
  <2> HIDE DEF f, P, cs
  <2> QED BY <1>2, <1>3, FS_Surjection
<1>5. \A c \in cs : /\ c \in Copies /\ c.dst \notin ScratchRegs /\ c.dst # NoReg /\ c.dst # c.src /\ c.src # Scratch[2]
                    /\ c.src = NoReg => c.val \in Remats(fn)
  <2> SUFFICES ASSUME NEW p \in P
               PROVE  LET c == CopyFor(p, j)
                      IN  /\ c \in Copies /\ c.dst \notin ScratchRegs /\ c.dst # NoReg /\ c.dst # c.src /\ c.src # Scratch[2]
                          /\ c.src = NoReg => c.val \in Remats(fn)
    BY <1>1
  <2> QED BY CopyForFacts
<1>6. \A c, x \in cs : c.dst = x.dst => c = x
  <2> SUFFICES ASSUME NEW p \in P, NEW q \in P, CopyFor(p, j).dst = CopyFor(q, j).dst
               PROVE  CopyFor(p, j) = CopyFor(q, j)
    BY <1>1
  <2>1. p \in Phis(fn, s) /\ q \in Phis(fn, s) /\ loc[p] = loc[q]
    BY CopyForFacts
  <2>2. p = q
    BY <2>1, PhisDiffer
  <2> QED BY <2>2
<1> HIDE DEF cs
<1>7. cs \subseteq Copies
  BY <1>5
<1>8. Parallel(cs)
  BY <1>4, <1>5, <1>6, <1>7 DEF Parallel
<1> QED BY <1>8 DEF cs

\* What arrives on an edge is in its home before the copies.
LEMMA ArrivesHome ==
  ASSUME Own, NEW s \in Blocks(fn), NEW j \in DOMAIN fn.preds[s]
  PROVE  /\ DOMAIN BeforeCopies(Answer, s, j) = Cells
         /\ \A u \in Arriving(s, j) \cap Tracked(fn) : BeforeCopies(Answer, s, j)[loc[u]] = u
         /\ BeforeCopies(Answer, s, j) \in [Cells -> Ids \cup {NoId}]
<1> DEFINE here(l) == {v \in Arriving(s, j) \cap Tracked(fn) : Home(Answer, v) = l}
<1>1. BeforeCopies(Answer, s, j) = [l \in Cells |-> IF here(l) = {} THEN NoId ELSE CHOOSE v \in here(l) : TRUE]
  BY OwnFields DEF BeforeCopies, Cells
<1>2. ASSUME NEW u \in Arriving(s, j) \cap Tracked(fn)
      PROVE  here(loc[u]) = {u} /\ loc[u] \in Cells
  <2>1. ASSUME NEW v \in here(loc[u]) PROVE v = u
    <3>1. v \in Arriving(s, j) \cap Tracked(fn) /\ loc[v] = loc[u]
      BY HomeIsPlace
    <3> QED BY <3>1, ArgsDiffer
  <2>2. u \in here(loc[u])
    BY HomeIsPlace
  <2>3. loc[u] \in Cells
    BY HomeIsPlace
  <2> QED BY <2>1, <2>2, <2>3
<1>3. \A l \in Cells : (IF here(l) = {} THEN NoId ELSE CHOOSE v \in here(l) : TRUE) \in Ids \cup {NoId}
  <2> TAKE l \in Cells
  <2>1. here(l) \subseteq Ids
    <3>1. Tracked(fn) \subseteq Ids
      BY AnalysedFacts DEF Own
    <3> QED BY <3>1
  <2>2. here(l) # {} => (CHOOSE v \in here(l) : TRUE) \in here(l)
    OBVIOUS
  <2> HIDE DEF here
  <2> QED BY <2>1, <2>2
<1> HIDE DEF here
<1>4. BeforeCopies(Answer, s, j) \in [Cells -> Ids \cup {NoId}]
  BY <1>1, <1>3
<1>5. ASSUME NEW u \in Arriving(s, j) \cap Tracked(fn) PROVE BeforeCopies(Answer, s, j)[loc[u]] = u
  <2>1. BeforeCopies(Answer, s, j)[loc[u]] = CHOOSE v \in {u} : TRUE
    BY <1>1, <1>2
  <2> QED BY <2>1
<1>6. DOMAIN BeforeCopies(Answer, s, j) = Cells
  BY <1>1
<1> QED BY <1>4, <1>5, <1>6

LEMMA EdgeFeasible ==
  ASSUME Own, NEW s \in Blocks(fn), NEW j \in DOMAIN fn.preds[s]
  PROVE  Feasible(EdgeCopies(loc, s, j), BeforeCopies(Answer, s, j))
<1> DEFINE cs == EdgeCopies(loc, s, j)
           m0 == BeforeCopies(Answer, s, j)
<1>1. Parallel(cs) /\ DOMAIN m0 = Cells
  BY EdgeParallel, ArrivesHome
<1>2. ScratchRegs \subseteq Cells
  BY DEF Cells, CellsOf
<1>3. ASSUME NEW c \in cs PROVE c.dst \in Cells /\ (c.src = NoReg \/ (c.src \in Cells /\ m0[c.src] = c.val))
  <2>1. PICK p \in Asking(s, j) : c = CopyFor(p, j)
    BY EdgeCopiesAre
  <2>2. c.dst \in Cells /\ (c.src = NoReg \/ (c.src = loc[c.val] /\ c.val \in Arriving(s, j) \cap Tracked(fn)))
    BY <2>1, CopyForFacts
  <2>3. CASE c.src = NoReg
    BY <2>2, <2>3
  <2>4. CASE c.src = loc[c.val] /\ c.val \in Arriving(s, j) \cap Tracked(fn)
    <3>1. m0[loc[c.val]] = c.val
      BY <2>4, ArrivesHome
    <3>2. loc[c.val] \in Cells
      BY <2>4, HomeIsPlace
    <3> QED BY <2>2, <2>4, <3>1, <3>2
  <2> QED BY <2>2, <2>3, <2>4
<1> HIDE DEF cs, m0
<1>4. Feasible(cs, m0)
  BY <1>1, <1>2, <1>3 DEF Feasible
<1> QED BY <1>4 DEF cs, m0

-----------------------------------------------------------------------------
(* The table of the edges *)

EntryFor(s, j) == [pred |-> fn.preds[s][j], succ |-> s, slot |-> j,
                   atEnd |-> Len(fn.succs[fn.preds[s][j]]) = 1, seq |-> Sequence(EdgeCopies(loc, s, j))]
EntrySet == {e \in {EntryFor(x[1], x[2]) : x \in Slotted} : e.seq # <<>>}

LEMMA EntriesAre == EdgeEntries(loc) = SetToSeq(EntrySet)
BY DEF EdgeEntries, EntrySet, EntryFor

\* A finite set as a sequence: each element once.
LEMMA SetToSeqGives ==
  ASSUME NEW S, IsFiniteSet(S)
  PROVE  LET q == SetToSeq(S)
         IN  /\ Len(q) \in Nat /\ DOMAIN q = 1 .. Len(q)
             /\ \A i \in DOMAIN q : q[i] \in S
             /\ \A i, k \in DOMAIN q : q[i] = q[k] => i = k
             /\ \A x \in S : \E i \in DOMAIN q : q[i] = x
<1> DEFINE n == Cardinality(S)
           q == SetToSeq(S)
<1>1. n \in Nat /\ ExistsBijection(1 .. n, S)
  BY FS_CardinalityType
<1>2. PICK g : g \in Bijection(1 .. n, S)
  BY <1>1 DEF ExistsBijection
<1>3. g \in [1 .. n -> S] /\ IsInjective(g)
  BY <1>2 DEF Bijection, Injection, IsInjective
<1>4. q \in [1 .. n -> S] /\ IsInjective(q)
  BY <1>3 DEF SetToSeq
<1> HIDE DEF q
<1>5. q \in Injection(1 .. n, S)
  BY <1>4 DEF Injection, IsInjective
<1>6. Cardinality(1 .. n) = n
  <2>1. 1 \in Int /\ n \in Int
    BY <1>1
  <2>2. Cardinality(1 .. n) = IF 1 > n THEN 0 ELSE n - 1 + 1
    BY <2>1, FS_Interval
  <2> HIDE DEF n
  <2> QED BY <1>1, <2>2
<1>7. q \in Surjection(1 .. n, S)
  <2> HIDE DEF n
  <2>1. Cardinality(1 .. n) = Cardinality(S)
    BY <1>6 DEF n
  <2> QED BY <1>5, <2>1, FS_Injection
<1>8. DOMAIN q = 1 .. n /\ Len(q) = n
  <2> HIDE DEF n
  <2> QED BY <1>1, <1>4
<1>9. \A x \in S : \E i \in DOMAIN q : q[i] = x
  BY <1>7, <1>8 DEF Surjection
<1>10. \A i, k \in DOMAIN q : q[i] = q[k] => i = k
  BY <1>4 DEF IsInjective
<1>11. \A i \in DOMAIN q : q[i] \in S
  BY <1>4, <1>8
<1>12. Len(q) \in Nat /\ DOMAIN q = 1 .. Len(q)
  BY <1>1, <1>8
<1> QED BY <1>9, <1>10, <1>11, <1>12 DEF q

LEMMA SlottedFacts ==
  ASSUME AllKnown
  PROVE  /\ IsFiniteSet(Slotted)
         /\ \A x \in Slotted : x = <<x[1], x[2]>> /\ x[1] \in Blocks(fn) /\ x[2] \in DOMAIN fn.preds[x[1]] /\ x[2] \in Nat
         /\ \A s \in Blocks(fn) : \A j \in DOMAIN fn.preds[s] : <<s, j>> \in Slotted
<1> DEFINE D == [s \in Blocks(fn) |-> {s} \X (1 .. Len(fn.preds[s]))]
           E == {D[s] : s \in Blocks(fn)}
<1>0. IsGraph(fn)
  BY AnalysedFacts
<1>1. IsFiniteSet(Blocks(fn)) /\ \A s \in Blocks(fn) : Len(fn.preds[s]) \in Nat /\ DOMAIN fn.preds[s] = 1 .. Len(fn.preds[s])
  <2>1. Blocks(fn) = 1 .. Len(fn.vals) /\ Len(fn.vals) \in Nat
    BY <1>0, GraphTypes
  <2>2. IsFiniteSet(Blocks(fn))
    BY <2>1, FS_Interval
  <2>3. \A s \in Blocks(fn) : Len(fn.preds[s]) \in Nat /\ DOMAIN fn.preds[s] = 1 .. Len(fn.preds[s])
    BY <1>0, GraphTypes
  <2> QED BY <2>2, <2>3
<1>2. IsFiniteSet(E)
  <2> DEFINE e == [s \in Blocks(fn) |-> D[s]]
  <2> HIDE DEF D
  <2>1. e \in Surjection(Blocks(fn), E)
    BY DEF Surjection
  <2> QED BY <1>1, <2>1, FS_Surjection
<1>3. ASSUME NEW s \in Blocks(fn) PROVE IsFiniteSet(D[s])
  <2>1. IsFiniteSet(1 .. Len(fn.preds[s]))
    BY <1>1, FS_Interval
  <2>2. IsFiniteSet({s})
    BY FS_Singleton
  <2>3. IsFiniteSet({s} \X (1 .. Len(fn.preds[s])))
    BY <2>1, <2>2, FS_Product
  <2> QED BY <2>3
<1>4. Slotted = UNION E
  <2>1. \A s \in Blocks(fn) : D[s] = {<<s, j>> : j \in DOMAIN fn.preds[s]}
    BY <1>1
  <2> HIDE DEF D
  <2> QED BY <2>1 DEF Slotted
<1>5. IsFiniteSet(Slotted)
  <2> HIDE DEF D
  <2>1. IsFiniteSet(UNION E)
    BY <1>2, <1>3, FS_UNION
  <2> QED BY <1>4, <2>1
<1>6. \A x \in Slotted : x = <<x[1], x[2]>> /\ x[1] \in Blocks(fn) /\ x[2] \in DOMAIN fn.preds[x[1]] /\ x[2] \in Nat
  <2> SUFFICES ASSUME NEW s \in Blocks(fn), NEW j \in DOMAIN fn.preds[s]
               PROVE  LET x == <<s, j>> IN x = <<x[1], x[2]>> /\ x[1] \in Blocks(fn) /\ x[2] \in DOMAIN fn.preds[x[1]] /\ x[2] \in Nat
    BY DEF Slotted
  <2>1. j \in Nat
    BY <1>1
  <2> QED BY <2>1
<1>7. \A s \in Blocks(fn) : \A j \in DOMAIN fn.preds[s] : <<s, j>> \in Slotted
  BY DEF Slotted
<1> QED BY <1>5, <1>6, <1>7

\* Each edge with copies has one entry, and an entry is of an edge.
LEMMA OwnTableOfEdges ==
  ASSUME Own
  PROVE  /\ Len(copies) \in Nat /\ DOMAIN copies = 1 .. Len(copies)
         /\ \A k \in DOMAIN copies : /\ copies[k].succ \in Blocks(fn) /\ copies[k].slot \in DOMAIN fn.preds[copies[k].succ]
                                     /\ copies[k] = EntryFor(copies[k].succ, copies[k].slot) /\ copies[k].seq # <<>>
         /\ \A i, k \in DOMAIN copies : copies[i].succ = copies[k].succ /\ copies[i].slot = copies[k].slot => i = k
         /\ \A s \in Blocks(fn) : \A j \in DOMAIN fn.preds[s] :
               Sequence(EdgeCopies(loc, s, j)) # <<>> => \E k \in DOMAIN copies : copies[k].succ = s /\ copies[k].slot = j
<1> DEFINE f == [x \in Slotted |-> EntryFor(x[1], x[2])]
           all == {EntryFor(x[1], x[2]) : x \in Slotted}
<1>0. AllKnown /\ copies = SetToSeq(EntrySet)
  BY EntriesAre DEF Own, Answered
<1>1. IsFiniteSet(EntrySet)
  <2>1. f \in Surjection(Slotted, all)
    BY DEF Surjection
  <2>2. IsFiniteSet(all)
    <3> HIDE DEF f, all
    <3> QED BY <1>0, <2>1, SlottedFacts, FS_Surjection
  <2>3. EntrySet \subseteq all
    BY DEF EntrySet
  <2> HIDE DEF all
  <2> QED BY <2>2, <2>3, FS_Subset
<1>2. /\ Len(copies) \in Nat /\ DOMAIN copies = 1 .. Len(copies)
      /\ \A i \in DOMAIN copies : copies[i] \in EntrySet
      /\ \A i, k \in DOMAIN copies : copies[i] = copies[k] => i = k
      /\ \A x \in EntrySet : \E i \in DOMAIN copies : copies[i] = x
  BY <1>0, <1>1, SetToSeqGives
<1>3. ASSUME NEW s, NEW j PROVE EntryFor(s, j).succ = s /\ EntryFor(s, j).slot = j /\ EntryFor(s, j).seq = Sequence(EdgeCopies(loc, s, j))
  BY DEF EntryFor
<1>4. ASSUME NEW k \in DOMAIN copies
      PROVE  /\ copies[k].succ \in Blocks(fn) /\ copies[k].slot \in DOMAIN fn.preds[copies[k].succ]
             /\ copies[k] = EntryFor(copies[k].succ, copies[k].slot) /\ copies[k].seq # <<>>
  <2>1. copies[k] \in EntrySet
    BY <1>2
  <2>2. PICK x \in Slotted : copies[k] = EntryFor(x[1], x[2])
    BY <2>1 DEF EntrySet
  <2>3. copies[k].seq # <<>>
    BY <2>1 DEF EntrySet
  <2>4. copies[k].succ = x[1] /\ copies[k].slot = x[2]
    BY <1>3, <2>2
  <2> QED BY <1>0, <2>2, <2>3, <2>4, SlottedFacts
<1>5. \A i, k \in DOMAIN copies : copies[i].succ = copies[k].succ /\ copies[i].slot = copies[k].slot => i = k
  <2> TAKE i, k \in DOMAIN copies
  <2> HAVE copies[i].succ = copies[k].succ /\ copies[i].slot = copies[k].slot
  <2>1. copies[i] = EntryFor(copies[i].succ, copies[i].slot) /\ copies[k] = EntryFor(copies[k].succ, copies[k].slot)
    BY <1>4
  <2>2. copies[i] = copies[k]
    BY <2>1
  <2> QED BY <1>2, <2>2
<1>6. ASSUME NEW s \in Blocks(fn), NEW j \in DOMAIN fn.preds[s], Sequence(EdgeCopies(loc, s, j)) # <<>>
      PROVE  \E k \in DOMAIN copies : copies[k].succ = s /\ copies[k].slot = j
  <2>1. <<s, j>> \in Slotted
    BY <1>0, SlottedFacts
  <2>2. EntryFor(s, j) \in all
    BY <2>1
  <2>3. EntryFor(s, j) \in EntrySet
    BY <1>3, <1>6, <2>2 DEF EntrySet
  <2>4. PICK k \in DOMAIN copies : copies[k] = EntryFor(s, j)
    BY <1>2, <2>3
  <2> QED BY <1>3, <2>4
<1> QED BY <1>2, <1>4, <1>5, <1>6

\* What the check finds of an edge is what resolving the phis made.
LEMMA OwnEntry ==
  ASSUME Own, NEW s \in Blocks(fn), NEW j \in DOMAIN fn.preds[s]
  PROVE  /\ EntryOf(Answer, s, j).seq = Sequence(EdgeCopies(loc, s, j))
         /\ Entries(Answer, s, j) # {} => EntryOf(Answer, s, j) = EntryFor(s, j) /\ Sequence(EdgeCopies(loc, s, j)) # <<>>
<1> DEFINE K == Entries(Answer, s, j)
<1>1. K = {k \in DOMAIN copies : copies[k].succ = s /\ copies[k].slot = j}
  BY OwnFields DEF Entries
<1>2. CASE K = {}
  <2>1. Sequence(EdgeCopies(loc, s, j)) = <<>>
    BY <1>1, <1>2, OwnTableOfEdges
  <2>2. EntryOf(Answer, s, j).seq = <<>>
    BY <1>2 DEF EntryOf
  <2> QED BY <1>2, <2>1, <2>2
<1>3. CASE K # {}
  <2>1. K \subseteq Nat
    BY <1>1, OwnTableOfEdges
  <2>2. Min(K) \in K
    <3> HIDE DEF K
    <3> QED BY <1>3, <2>1, MinFacts
  <2>3. EntryOf(Answer, s, j) = copies[Min(K)]
    BY <1>3, OwnFields DEF EntryOf
  <2> HIDE DEF K
  <2>4. Min(K) \in DOMAIN copies /\ copies[Min(K)].succ = s /\ copies[Min(K)].slot = j
    BY <1>1, <2>2
  <2>5. copies[Min(K)] = EntryFor(s, j) /\ copies[Min(K)].seq # <<>>
    BY <2>4, OwnTableOfEdges
  <2>6. EntryFor(s, j).seq = Sequence(EdgeCopies(loc, s, j))
    BY DEF EntryFor
  <2> QED BY <2>3, <2>5, <2>6
<1> QED BY <1>2, <1>3

\* Each entry is where its edge has a place for it, and writes the phis' homes.
LEMMA OwnPlaces ==
  ASSUME Own, NEW s \in Blocks(fn), NEW j \in DOMAIN fn.preds[s], Sequence(EdgeCopies(loc, s, j)) # <<>>
  PROVE  ~Misplaced(Answer, s, j, EntryFor(s, j))
<1> DEFINE e == EntryFor(s, j)
           b == fn.preds[s][j]
           cs == EdgeCopies(loc, s, j)
           m0 == BeforeCopies(Answer, s, j)
<1>0. AllKnown
  BY DEF Own
<1>1. e.pred = b /\ (e.atEnd <=> Len(fn.succs[b]) = 1) /\ e.seq = Sequence(cs)
  BY DEF EntryFor
<1>2. ~e.atEnd => Len(fn.preds[s]) = 1
  <2> SUFFICES ASSUME Len(fn.succs[b]) # 1 PROVE Len(fn.preds[s]) = 1
    BY <1>1
  <2>1. IsGraph(fn) /\ Matched(fn) /\ b \in Blocks(fn)
    BY <1>0, AnalysedFacts, GraphTypes
  <2>2. PICK i \in DOMAIN fn.succs[b] : fn.succs[b][i] = s
    BY <2>1 DEF Matched
  <2>3. ~IsCritical(fn, b, i)
    BY <1>0, <2>1, AnalysedFacts DEF Ready
  <2>4. Len(fn.succs[b]) \in Nat /\ DOMAIN fn.succs[b] = 1 .. Len(fn.succs[b])
    BY <2>1, GraphTypes
  <2>5. Len(fn.preds[s]) \in Nat /\ DOMAIN fn.preds[s] = 1 .. Len(fn.preds[s])
    BY <2>1, GraphTypes
  <2>6. Len(fn.succs[b]) > 1
    <3> DEFINE n == Len(fn.succs[b])
    <3>1. n \in Nat /\ i \in 1 .. n /\ n # 1
      BY <2>2, <2>4
    <3> HIDE DEF n
    <3>2. n > 1
      BY <3>1
    <3> QED BY <3>2 DEF n
  <2>7. ~(Len(fn.preds[s]) > 1)
    BY <2>2, <2>3, <2>6 DEF IsCritical
  <2> DEFINE m == Len(fn.preds[s])
  <2>8. m \in Nat /\ j \in 1 .. m /\ ~(m > 1)
    BY <2>5, <2>7
  <2> HIDE DEF m
  <2>9. m = 1
    BY <2>8
  <2> QED BY <2>9 DEF m
<1>3. Feasible(cs, m0)
  BY EdgeFeasible
<1>4. Sequence(cs) \in Seq(Copies) /\ Clean(Sequence(cs), cs) /\ (cs = {} => Sequence(cs) = <<>>)
  <2> HIDE DEF cs, m0
  <2> QED BY <1>3, SequenceGives
<1>5. Len(Sequence(cs)) \in Nat /\ DOMAIN Sequence(cs) = 1 .. Len(Sequence(cs))
  <2> HIDE DEF cs
  <2> QED BY <1>4, SequenceTypes
<1>6. \A c \in cs : c.dst \in {Home(Answer, phi) : phi \in Phis(fn, s) \cap Tracked(fn)}
  <2> SUFFICES ASSUME NEW p \in Asking(s, j)
               PROVE  CopyFor(p, j).dst \in {Home(Answer, phi) : phi \in Phis(fn, s) \cap Tracked(fn)}
    BY EdgeCopiesAre
  <2>1. p \in Phis(fn, s) /\ p \in Tracked(fn) /\ CopyFor(p, j).dst = loc[p]
    BY CopyForFacts
  <2>2. Home(Answer, p) = loc[p]
    BY <2>1, HomeIsPlace
  <2> QED BY <2>1, <2>2
<1>7. \A k \in DOMAIN e.seq : e.seq[k].dst \in ScratchRegs \cup {Home(Answer, phi) : phi \in Phis(fn, s) \cap Tracked(fn)}
  <2> HIDE DEF e, cs
  <2> QED BY <1>1, <1>4, <1>5, <1>6, ScratchFacts DEF Clean
<1>8. Phis(fn, s) \cap Tracked(fn) # {}
  <2> SUFFICES ASSUME Phis(fn, s) \cap Tracked(fn) = {} PROVE FALSE
    OBVIOUS
  <2>1. \A p \in Asking(s, j) : FALSE
    BY CopyForFacts
  <2>2. cs = {}
    BY <2>1, EdgeCopiesAre
  <2> QED BY <1>4, <2>2
<1> QED BY <1>1, <1>2, <1>7, <1>8 DEF Misplaced

LEMMA OwnPhi ==
  ASSUME Own
  PROVE  ~BadPhi(Answer)
<1>1. \A k \in DOMAIN copies : copies[k].succ \in Blocks(fn)
  BY OwnTableOfEdges
<1>2. ASSUME NEW k \in DOMAIN copies, NEW m \in DOMAIN copies, k < m, copies[k].succ = copies[m].succ, copies[k].slot = copies[m].slot
      PROVE  FALSE
  <2>1. k = m
    BY <1>2, OwnTableOfEdges
  <2>2. k \in Nat
    BY OwnTableOfEdges
  <2> QED BY <1>2, <2>1, <2>2
<1>3. ASSUME NEW x \in Slotted, Entries(Answer, x[1], x[2]) # {}
      PROVE  ~Misplaced(Answer, x[1], x[2], EntryOf(Answer, x[1], x[2]))
  <2>1. x[1] \in Blocks(fn) /\ x[2] \in DOMAIN fn.preds[x[1]]
    BY SlottedFacts DEF Own
  <2>2. EntryOf(Answer, x[1], x[2]) = EntryFor(x[1], x[2]) /\ Sequence(EdgeCopies(loc, x[1], x[2])) # <<>>
    BY <1>3, <2>1, OwnEntry
  <2> QED BY <2>1, <2>2, OwnPlaces
<1> QED BY <1>1, <1>2, <1>3, OwnFields DEF BadPhi

-----------------------------------------------------------------------------
(* The replay of an edge of the allocator's own *)

LEMMA OwnRuns ==
  ASSUME Own, NEW s \in Blocks(fn), NEW j \in DOMAIN fn.preds[s]
  PROVE  \E rp : /\ IsRun(rp, Sequence(EdgeCopies(loc, s, j)), BeforeCopies(Answer, s, j))
                 /\ Replay(Answer, s, j) = rp[Len(Sequence(EdgeCopies(loc, s, j)))]
<1> DEFINE cs == EdgeCopies(loc, s, j)
           seq == Sequence(cs)
           N == Len(seq)
           S == [m : [Cells -> Ids \cup {NoId}], ok : BOOLEAN]
           m0 == BeforeCopies(Answer, s, j)
           st0 == [m |-> m0, ok |-> TRUE]
           T == [n \in 0 .. N |-> S]
           g == [n \in 1 .. N |-> [x \in S |-> Replayed(x, seq[n])]]
           Runs(f) == f = [n \in 0 .. N |-> IF n = 0 THEN st0 ELSE Replayed(f[n - 1], seq[n])]
           run == CHOOSE f : Runs(f)
<1>1. seq \in Seq(Copies) /\ Clean(seq, cs)
  <2>1. Feasible(cs, m0)
    BY EdgeFeasible
  <2> HIDE DEF cs, m0
  <2> QED BY <2>1, SequenceGives
<1>2. N \in Nat /\ DOMAIN seq = 1 .. N /\ \A n \in 1 .. N : seq[n] \in Copies
  <2> HIDE DEF seq
  <2> QED BY <1>1, SequenceTypes
<1>3. st0 \in S
  <2>1. m0 \in [Cells -> Ids \cup {NoId}]
    BY ArrivesHome
  <2> HIDE DEF m0
  <2> QED BY <2>1
<1>4. ASSUME NEW n \in 1 .. N, NEW x \in S PROVE Replayed(x, seq[n]) \in S
  <2> DEFINE c == seq[n]
             w == IF c.src = NoReg THEN c.val ELSE Known(x.m, c.src)
  <2>1. c.val \in Ids
    BY <1>2 DEF Copies
  <2>2. w \in Ids \cup {NoId}
    BY <2>1 DEF Known
  <2>3. [x.m EXCEPT ![c.dst] = w] \in [Cells -> Ids \cup {NoId}]
    BY <2>2
  <2>4. Replayed(x, c) = [m |-> [x.m EXCEPT ![c.dst] = w], ok |-> x.ok /\ (c.src = NoReg \/ Known(x.m, c.src) = c.val)]
    BY DEF Replayed
  <2>5. (x.ok /\ (c.src = NoReg \/ Known(x.m, c.src) = c.val)) \in BOOLEAN
    OBVIOUS
  <2> HIDE DEF c, w
  <2> QED BY <2>3, <2>4, <2>5 DEF c
<1>5. EntryOf(Answer, s, j).seq = seq
  BY OwnEntry
<1> HIDE DEF seq, N, S, m0
<1>6. Chained(T, N, st0, g)
  BY <1>2, <1>3, <1>4 DEF Chained
<1> HIDE DEF st0
<1>7. PICK it : ChainOf(it, N, st0, g) /\ \A n \in 0 .. N : it[n] \in T[n]
  BY <1>6, ChainExists
<1>8. Runs(it)
  <2>1. it = [n \in 0 .. N |-> IF n = 0 THEN st0 ELSE g[n][it[n - 1]]]
    BY <1>7 DEF ChainOf
  <2>2. ASSUME NEW n \in 0 .. N PROVE (IF n = 0 THEN st0 ELSE g[n][it[n - 1]]) = (IF n = 0 THEN st0 ELSE Replayed(it[n - 1], seq[n]))
    <3>1. n # 0 => n \in 1 .. N /\ n - 1 \in 0 .. N
      BY <1>2
    <3>2. n # 0 => it[n - 1] \in S
      BY <1>7, <3>1
    <3> QED BY <3>1, <3>2
  <2> HIDE DEF g
  <2> QED BY <2>1, <2>2
<1>9. Runs(run)
  BY <1>8
<1> HIDE DEF run
<1>10. run[0] = st0 /\ \A n \in 1 .. N : run[n] = Replayed(run[n - 1], seq[n])
  <2>1. 0 \in 0 .. N /\ \A n \in 1 .. N : n \in 0 .. N /\ n # 0
    BY <1>2
  <2> QED BY <1>9, <2>1
<1> HIDE DEF Runs
<1>11. IsRun(run, seq, m0)
  BY <1>10 DEF IsRun, st0, N
<1>12. Replay(Answer, s, j) = run[N]
  BY <1>5 DEF Replay, run, Runs, N, st0, m0
<1> QED BY <1>11, <1>12 DEF N, seq, m0

\* The copies read what they are written to move, and every phi ends up with
\* what it takes on the edge.
LEMMA OwnReplay ==
  ASSUME Own, NEW s \in Blocks(fn), NEW j \in DOMAIN fn.preds[s]
  PROVE  /\ Replay(Answer, s, j).ok = TRUE
         /\ \A p \in Phis(fn, s) : Known(Replay(Answer, s, j).m, Home(Answer, p)) = fn.args[p][j]
<1> DEFINE cs == EdgeCopies(loc, s, j)
           m0 == BeforeCopies(Answer, s, j)
           end == Replay(Answer, s, j)
<1>1. Feasible(cs, m0)
  BY EdgeFeasible
<1>2. PICK rp : IsRun(rp, Sequence(cs), m0) /\ end = rp[Len(Sequence(cs))]
  BY OwnRuns
<1>3. end.ok = TRUE /\ Tracks({}, end.m, cs, m0)
  <2> HIDE DEF cs, m0, end
  <2> QED BY <1>1, <1>2, SequenceGives
<1>4. /\ DOMAIN end.m = Cells
      /\ \A c \in cs : end.m[c.dst] = c.val
      /\ \A l \in Cells : l \notin ScratchRegs /\ (\A c \in cs : c.dst # l) => end.m[l] = m0[l]
  <2> HIDE DEF cs, m0, end
  <2> QED BY <1>3 DEF Tracks
<1> HIDE DEF end
<1>5. ASSUME NEW p \in Phis(fn, s) PROVE Known(end.m, Home(Answer, p)) = fn.args[p][j]
  <2> DEFINE a == fn.args[p][j]
  <2>1. p \in Tracked(fn) /\ a \in Tracked(fn) \cup Remats(fn)
    BY PhiPlace DEF Own
  <2>2. loc[p] \in Cells /\ loc[p] \notin ScratchRegs /\ Home(Answer, p) = loc[p]
    BY <2>1, HomeIsPlace
  <2>3. CASE p \in Asking(s, j)
    <3>1. CopyFor(p, j) \in cs
      BY <2>3, EdgeCopiesAre
    <3>2. CopyFor(p, j).dst = loc[p] /\ CopyFor(p, j).val = a
      BY <2>3, CopyForFacts
    <3>3. end.m[loc[p]] = a
      BY <1>4, <3>1, <3>2
    <3> QED BY <1>4, <2>2, <3>3 DEF Known
  <2>4. CASE p \notin Asking(s, j)
    <3>1. a \in Tracked(fn) /\ loc[a] = loc[p]
      BY <2>1, <2>4 DEF Asking
    <3>2. a \in Arriving(s, j)
      BY DEF Arriving
    <3>3. ASSUME NEW c \in cs PROVE c.dst # loc[p]
      <4>1. PICK q \in Asking(s, j) : c = CopyFor(q, j)
        BY EdgeCopiesAre
      <4>2. c.dst = loc[q] /\ q \in Phis(fn, s) /\ q # p
        BY <2>4, <4>1, CopyForFacts
      <4> QED BY <4>2, PhisDiffer
    <3>4. end.m[loc[p]] = m0[loc[p]]
      <4> HIDE DEF cs, m0
      <4> QED BY <1>4, <2>2, <3>3
    <3>5. m0[loc[a]] = a
      BY <3>1, <3>2, ArrivesHome
    <3>6. end.m[loc[p]] = a
      BY <3>1, <3>4, <3>5
    <3> QED BY <1>4, <2>2, <3>6 DEF Known
  <2> QED BY <2>3, <2>4
<1> QED BY <1>3, <1>5 DEF end

LEMMA OwnEdge ==
  ASSUME Own
  PROVE  ~BadEdge(Answer)
<1> SUFFICES ASSUME NEW x \in Slotted
             PROVE  /\ Replay(Answer, x[1], x[2]).ok
                    /\ \A p \in Phis(fn, x[1]) : Known(Replay(Answer, x[1], x[2]).m, Home(Answer, p)) = fn.args[p][x[2]]
  BY DEF BadEdge
<1>1. x[1] \in Blocks(fn) /\ x[2] \in DOMAIN fn.preds[x[1]]
  BY SlottedFacts DEF Own
<1> QED BY <1>1, OwnReplay

\* The check reports nothing of what the allocator made.
LEMMA OwnAccepted ==
  ASSUME Own
  PROVE  Violations(Answer) = {}
<1>1. ~BadHome(Answer) /\ ~NoSuchSlot(Answer)
  BY OwnHome
<1>2. ~ReservedHome(Answer) /\ ~AcrossCall(Answer) /\ ~Overlap(Answer)
  BY OwnReserved, OwnOverlap
<1>3. ~BadOperand(Answer) /\ ~BadSlot(Answer)
  BY OwnOperand, OwnTable
<1>4. ~BadPhi(Answer) /\ ~BadEdge(Answer)
  BY OwnPhi, OwnEdge
<1> SUFFICES ASSUME NEW x \in Violations(Answer) PROVE FALSE
  OBVIOUS
<1>5. x \in Checks
  BY DEF Violations
<1>6. CASE x = "home"
  BY <1>1, <1>6 DEF Violations
<1>7. CASE x = "reserved"
  BY <1>2, <1>7 DEF Violations
<1>8. CASE x = "call"
  BY <1>2, <1>8 DEF Violations
<1>9. CASE x = "overlap"
  BY <1>2, <1>9 DEF Violations
<1>10. CASE x = "operand"
  BY <1>3, <1>10 DEF Violations
<1>11. CASE x = "slot"
  BY <1>3, <1>11 DEF Violations
<1>12. CASE x = "phi"
  BY <1>4, <1>12 DEF Violations
<1>13. CASE x = "edge"
  BY <1>4, <1>13 DEF Violations
<1> QED BY <1>5, <1>6, <1>7, <1>8, <1>9, <1>10, <1>11, <1>12, <1>13 DEF Checks

-----------------------------------------------------------------------------
(* The answer until it is checked *)

\* Until the check has been made, the allocation is what Slots wrote.
OwnIInv == phase = "allocated" /\ reported = Pending => Answered

\* What Slots writes depends on the function and the homes alone.
LEMMA WrittenAlike ==
  ASSUME UNCHANGED <<fn, an>>
  PROVE  OperandRegs(loc)' = OperandRegs(loc') /\ ResultRegs(loc)' = ResultRegs(loc') /\ EdgeEntries(loc)' = EdgeEntries(loc')
<1>0. fn' = fn /\ an' = an
  OBVIOUS
<1> DEFINE Reg(g, at, v, i) ==
             LET a == g.args[v][i]
                 M(u) == u \in Remats(g) \/ (u \in Tracked(g) /\ at[u] \notin Regs)
                 n == SelectInSeq(g.args[v], LAMBDA u : u = a)
                 S == {g.args[v][j] : j \in {k \in 1 .. n - 1 : M(g.args[v][k])}}
             IN  IF g.op[v] = "phi" \/ a \notin Tracked(g) \cup Remats(g) THEN NoReg
                 ELSE IF g.op[v] \in Convention THEN IF i \in DOMAIN ArgRegs THEN ArgRegs[i] ELSE NoReg
                 ELSE IF M(a) THEN Scratch[Cardinality(S) + 1] ELSE at[a]
           Entry(g, at, s, j) == [pred |-> g.preds[s][j], succ |-> s, slot |-> j, atEnd |-> Len(g.succs[g.preds[s][j]]) = 1,
                                  seq |-> Sequence({[dst |-> at[phi], src |-> IF g.args[phi][j] \in Remats(g) THEN NoReg ELSE at[g.args[phi][j]],
                                                     val |-> g.args[phi][j]] :
                                                      phi \in {p \in Phis(g, s) : LET a == g.args[p][j]
                                                                                  IN  a \in Remats(g) \/ (a \in Tracked(g) /\ at[a] # at[p])}})]
           Rows(g) == UNION {{<<s, j>> : j \in DOMAIN g.preds[s]} : s \in Blocks(g)}
           Table(g, at) == SetToSeq({e \in {Entry(g, at, x[1], x[2]) : x \in Rows(g)} : e.seq # <<>>})
<1>1. \A v, i : OperandReg(loc, v, i)' = Reg(fn', loc', v, i) /\ OperandReg(loc', v, i) = Reg(fn, loc', v, i)
  BY DEF OperandReg, SelectInSeq
<1>4. EdgeEntries(loc)' = Table(fn', loc') /\ EdgeEntries(loc') = Table(fn, loc')
  BY DEF EdgeEntries, EdgeCopies, Slotted
<1> HIDE DEF Reg, Entry, Table
<1>5. \A v, i : OperandReg(loc, v, i)' = OperandReg(loc', v, i)
  BY <1>0, <1>1
<1>2. OperandRegs(loc)' = OperandRegs(loc')
  BY <1>0, <1>5 DEF OperandRegs
<1>3. ResultRegs(loc)' = ResultRegs(loc')
  BY <1>0 DEF ResultRegs
<1>6. EdgeEntries(loc)' = EdgeEntries(loc')
  BY <1>0, <1>4
<1> QED BY <1>2, <1>3, <1>6

LEMMA SlotsAnswer ==
  ASSUME Slots
  PROVE  Answered'
<1>1. UNCHANGED <<fn, an, lay, safe, home>>
  BY DEF Slots, scanning
<1>2. OperandRegs(loc)' = OperandRegs(loc') /\ ResultRegs(loc)' = ResultRegs(loc') /\ EdgeEntries(loc)' = EdgeEntries(loc')
  BY <1>1, WrittenAlike
<1>3. args' = OperandRegs(loc)' /\ result' = ResultRegs(loc)' /\ copies' = EdgeEntries(loc)'
  BY <1>2 DEF Slots
<1>4. Spilled' = {v \in an.tracked : home[v] = Frame}
  BY <1>1 DEF Spilled
<1>5. slots' = AssignSlots(fn', lay', an', safe', Spilled')
  BY <1>1, <1>4 DEF Slots
<1>6. loc' = [v \in an'.tracked |-> IF home'[v] = Frame THEN SlotLoc(CHOOSE i \in DOMAIN slots' : v \in slots'[i]) ELSE home'[v]]
  BY <1>1 DEF Slots
<1> QED BY <1>3, <1>5, <1>6 DEF Answered

LEMMA AnswerKept ==
  ASSUME Answered, UNCHANGED <<fn, an, lay, safe, home, slots, loc, args, result, copies>>
  PROVE  Answered'
<1>1. OperandRegs(loc)' = OperandRegs(loc') /\ ResultRegs(loc)' = ResultRegs(loc') /\ EdgeEntries(loc)' = EdgeEntries(loc')
  BY WrittenAlike
<1>2. Spilled' = Spilled
  BY DEF Spilled
<1>3. args' = OperandRegs(loc)' /\ result' = ResultRegs(loc)' /\ copies' = EdgeEntries(loc)'
  BY <1>1 DEF Answered
<1>4. slots' = AssignSlots(fn', lay', an', safe', Spilled')
  BY <1>2 DEF Answered
<1>5. loc' = [v \in an'.tracked |-> IF home'[v] = Frame THEN SlotLoc(CHOOSE i \in DOMAIN slots' : v \in slots'[i]) ELSE home'[v]]
  BY DEF Answered
<1> QED BY <1>3, <1>4, <1>5 DEF Answered

LEMMA OwnStep == OwnIInv /\ [VerifiedNext]_verifiedVars => OwnIInv'
<1> SUFFICES ASSUME OwnIInv, [VerifiedNext]_verifiedVars, phase' = "allocated", reported' = Pending
             PROVE  Answered'
  BY DEF OwnIInv
<1>1. CASE Slots
  BY <1>1, SlotsAnswer
<1>2. CASE VerifyAllocation
  <2>1. PICK a : reported' = Violations(a)
    BY <1>2 DEF VerifyAllocation
  <2>2. Violations(a) \in SUBSET Checks
    BY DEF Violations
  <2>3. Violations(a) # Pending
    BY <2>2, ReportAssumption
  <2> QED BY <2>1, <2>3
<1>3. CASE UNCHANGED verifiedVars
  <2>1. phase = "allocated" /\ reported = Pending
    BY <1>3 DEF verifiedVars, vars
  <2>2. UNCHANGED <<fn, an, lay, safe, home, slots, loc, args, result, copies>>
    BY <1>3 DEF verifiedVars, vars, scanning, alloc
  <2>3. Answered
    BY <2>1 DEF OwnIInv
  <2> QED BY <2>2, <2>3, AnswerKept
<1>4. CASE Split \/ Liveness \/ Analysed \/ Enter \/ Compute \/ \E i \in DOMAIN fn.succs[pc[1]] : TakeEdge(i)
  BY <1>4 DEF Split, Liveness, Analysed, Enter, Compute, TakeEdge
<1>5. CASE ScanStep
  BY <1>5 DEF ScanStep, ScanNext, Precolour, Refuse, Visit
<1> QED BY <1>1, <1>2, <1>3, <1>4, <1>5 DEF VerifiedNext, Next

\* For every function the compiler may be given, the allocator never fails its own
\* check (src/ssa/regalloc.go, VerifyAllocation).
THEOREM OwnAnswerAccepted == VerifiedSpec => []AcceptsItsOwn
<1>1. VerifiedInit => OwnIInv
  BY DEF VerifiedInit, InitAlloc, OwnIInv
<1>2. VerifiedSpec => []OwnIInv
  BY <1>1, OwnStep, PTL DEF VerifiedSpec
<1>3. HomesIInv /\ OwnIInv => AcceptsItsOwn
  <2> SUFFICES ASSUME HomesIInv, OwnIInv, phase = "allocated", reported = Pending
               PROVE  Violations(Answer) = {}
    BY DEF AcceptsItsOwn
  <2>1. Shaped /\ AnalysedAs
    BY DEF HomesIInv, AllocIInv
  <2>2. Scanned
    BY DEF HomesIInv
  <2>3. Answered
    BY DEF OwnIInv
  <2>4. Own
    BY <2>1, <2>2, <2>3 DEF Own, AllKnown
  <2> QED BY <2>4, OwnAccepted
<1> QED BY <1>2, <1>3, HomesInvariance, PTL
=============================================================================
