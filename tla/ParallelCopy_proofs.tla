------------------------- MODULE ParallelCopy_proofs -------------------------
(***************************************************************************)
(* Proofs about the parallel copy: for any number of copies, locations and *)
(* register classes, the sequence emitted has the effect of doing all the  *)
(* copies at once.                                                         *)
(*                                                                         *)
(* The step that needs an argument is the breaking of a cycle: the         *)
(* temporary must not hold a value somebody still needs.  When a sweep     *)
(* emits nothing, every destination left is read by another copy left;     *)
(* destinations are distinct, so sending a copy to a reader of its         *)
(* destination is an injection of the copies left into themselves, hence   *)
(* onto, and every source left is a destination, never a temporary.        *)
(*                                                                         *)
(* A temporary breaks one cycle that was whole, and an emitted copy none:  *)
(* the moves are the copies and the cycles (Paid).                         *)
(***************************************************************************)
EXTENDS ParallelCopy, Induction

\* The destinations are sound from the moment the copies are accepted.
Checked == /\ status \in {"sweep", "done"} => WellFormed
           /\ status = "refused" => ~WellFormed
           /\ status = "check" => /\ pending = DOMAIN cps
                                  /\ src = [k \in DOMAIN cps |-> cps[k].src]
                                  /\ mem = [l \in Cells |-> l]
                                  /\ i = 1
                                  /\ progress = FALSE

\* A sweep that has emitted nothing has met only copies that are blocked.
Swept == status = "sweep" /\ ~progress =>
           \A k \in pending : k < i => IsPendingSource(k)

IInv == /\ TypeOK
        /\ Checked
        /\ NothingLost
        /\ Swept
        /\ status = "done" => pending = {}
        /\ NeverFails

-----------------------------------------------------------------------------

\* The copies, with their types.
LEMMA CopyFacts ==
  ASSUME TypeOK
  PROVE  /\ DOMAIN cps = 1 .. Len(cps) /\ Len(cps) \in Nat
         /\ DOMAIN src = DOMAIN cps
         /\ pending \subseteq DOMAIN cps
         /\ \A k \in DOMAIN cps : /\ cps[k].dst \in Locs \cup {NoLoc}
                                  /\ cps[k].src \in Locs \cup {NoLoc}
                                  /\ cps[k].class \in Classes
                                  /\ src[k] \in {cps[k].src} \cup Temps
                                  /\ src[k] \in Cells \cup {NoLoc}
                                  /\ TempOf(k) \in Temps
<1>1. DOMAIN cps = 1 .. Len(cps) /\ Len(cps) \in Nat
  BY DEF TypeOK
<1>2. \A k \in DOMAIN cps : cps[k] \in Copy
  BY <1>1 DEF TypeOK
<1>3. \A k \in DOMAIN cps : /\ cps[k].dst \in Locs \cup {NoLoc}
                            /\ cps[k].src \in Locs \cup {NoLoc}
                            /\ cps[k].class \in Classes
  BY <1>2 DEF Copy
<1>4. \A k \in DOMAIN cps : TempOf(k) \in Temps
  BY <1>3 DEF TempOf, Temps
<1>5. QED BY <1>1, <1>3, <1>4 DEF TypeOK, Cells

\* When nothing can be emitted, every source left is the destination of a copy
\* left, so none is a temporary and none is recomputed.
LEMMA OnlyCycles ==
  ASSUME TypeOK, WellFormed, \A k \in pending : IsPendingSource(k)
  PROVE  \A k \in pending : \E j \in pending : src[k] = cps[j].dst
<1> DEFINE reader == [k \in pending |-> CHOOSE j \in pending : src[j] = cps[k].dst]
<1>1. \A k \in pending : reader[k] \in pending /\ src[reader[k]] = cps[k].dst
  BY DEF IsPendingSource
<1>2. reader \in [pending -> pending]
  BY <1>1
<1> HIDE DEF reader
<1>3. \A j, k \in pending : reader[j] = reader[k] => j = k
  BY <1>1, CopyFacts DEF WellFormed
<1>4. reader \in Injection(pending, pending)
  BY <1>2, <1>3 DEF Injection, IsInjective
<1>5. IsFiniteSet(pending)
  <2>1. DOMAIN cps = 1 .. Len(cps) /\ Len(cps) \in Int /\ pending \in SUBSET DOMAIN cps
    BY CopyFacts
  <2>2. IsFiniteSet(1 .. Len(cps))
    BY <2>1, FS_Interval
  <2>3. QED BY <2>1, <2>2, FS_Subset
<1>6. reader \in Surjection(pending, pending)
  BY <1>4, <1>5, FS_Injection
<1>7. \A k \in pending : \E j \in pending : reader[j] = k
  BY <1>6 DEF Surjection
<1>8. QED BY <1>1, <1>7

-----------------------------------------------------------------------------
(* The inductive invariant *)

\* Before the copies are checked nothing is moved.
LEMMA InitIInv == Init => IInv
<1> SUFFICES ASSUME Init PROVE IInv
  OBVIOUS
<1> USE DEF Init, InitCopy
<1>1. Len(cps) \in Nat /\ DOMAIN cps = 1 .. Len(cps)
  OBVIOUS
<1>2. TypeOK
  <2>1. mem \in [Cells -> Cells \cup {Remat}]
    OBVIOUS
  <2>2. i \in 1 .. Len(cps) + 1
    BY <1>1
  <2>3. QED BY <2>1, <2>2 DEF TypeOK
<1>3. Checked /\ NothingLost /\ Swept /\ NeverFails
  BY DEF Checked, NothingLost, Swept, NeverFails
<1>4. QED BY <1>2, <1>3 DEF IInv

\* An accepted set of copies starts with every location as it was.
LEMMA CheckIInv == IInv /\ (Accept \/ Refuse) => IInv'
<1> SUFFICES ASSUME IInv, Accept \/ Refuse PROVE IInv'
  OBVIOUS
<1>1. /\ cps' = cps /\ src' = src /\ pending' = pending /\ i' = i
      /\ progress' = progress /\ mem' = mem /\ moves' = moves
      /\ pending = DOMAIN cps /\ src = [k \in DOMAIN cps |-> cps[k].src]
      /\ mem = [l \in Cells |-> l] /\ i = 1 /\ TypeOK
      /\ status' \in {"sweep", "refused"}
      /\ status' = "sweep" <=> WellFormed
  BY DEF IInv, Checked, Accept, Refuse
<1>2. TypeOK'
  BY <1>1 DEF TypeOK
<1>3. Checked' /\ NeverFails'
  BY <1>1 DEF Checked, NeverFails, WellFormed
<1>4. NothingLost'
  <2>1. \A k \in DOMAIN cps : Value(src[k]) = Wanted(k)
    BY <1>1, CopyFacts DEF Value, Wanted, Cells
  <2>2. \A l \in Locs : mem[l] = l
    BY <1>1 DEF Cells
  <2>3. QED BY <1>1, <2>1, <2>2 DEF NothingLost, Value, Wanted
<1>5. Swept'
  BY <1>1, CopyFacts DEF Swept
<1>6. QED BY <1>1, <1>2, <1>3, <1>4, <1>5 DEF IInv

\* A copy that is done or blocked is passed over.
LEMMA SkipIInv == IInv /\ Skip => IInv'
<1> SUFFICES ASSUME IInv, Skip PROVE IInv'
  OBVIOUS
<1>1. /\ cps' = cps /\ src' = src /\ pending' = pending /\ i' = i + 1
      /\ progress' = progress /\ mem' = mem /\ moves' = moves /\ status' = status
      /\ status = "sweep" /\ i \in DOMAIN cps /\ TypeOK
  BY DEF Skip, IInv
<1>2. TypeOK'
  BY <1>1, CopyFacts DEF TypeOK
<1>3. Checked' /\ NeverFails' /\ NothingLost'
  BY <1>1 DEF IInv, Checked, NeverFails, NothingLost, WellFormed, Value, Wanted
<1>4. Swept'
  <2>1. \A k \in pending : k < i + 1 => k < i \/ k = i
    BY <1>1, CopyFacts
  <2>2. QED BY <1>1, <2>1 DEF IInv, Swept, Skip, IsPendingSource
<1>5. QED BY <1>1, <1>2, <1>3, <1>4 DEF IInv

\* A copy nobody waits for is emitted.
LEMMA EmitIInv == IInv /\ Emit => IInv'
<1> SUFFICES ASSUME IInv, Emit PROVE IInv'
  OBVIOUS
<1>1. /\ cps' = cps /\ src' = src /\ pending' = pending \ {i} /\ i' = i + 1
      /\ progress' = TRUE /\ status' = status
      /\ status = "sweep" /\ i \in DOMAIN cps /\ i \in pending /\ TypeOK /\ WellFormed
      /\ mem' = [mem EXCEPT ![cps[i].dst] = Value(src[i])] /\ moves' = moves + 1
      /\ ~IsPendingSource(i) /\ NothingLost
  BY DEF Emit, IInv, Checked
<1>2. /\ cps[i].dst \in Locs /\ cps[i].dst \in Cells
      /\ mem \in [Cells -> Cells \cup {Remat}]
  BY <1>1, CopyFacts DEF WellFormed, Cells, TypeOK
<1>3. \A k \in pending \ {i} : src[k] # cps[i].dst
  BY <1>1 DEF IsPendingSource
<1>4. Value(src[i]) \in Cells \cup {Remat}
  BY <1>1, <1>2, CopyFacts DEF Value
<1>5. mem'[cps[i].dst] = Value(src[i]) /\ \A l \in Cells : l # cps[i].dst => mem'[l] = mem[l]
  BY <1>1, <1>2
<1>6. TypeOK'
  BY <1>1, <1>2, <1>4, CopyFacts DEF TypeOK
<1>7. Checked' /\ NeverFails' /\ Swept'
  BY <1>1 DEF Checked, NeverFails, Swept, WellFormed
<1>8. NothingLost'
  <2>1. ASSUME NEW k \in pending' PROVE Value(src[k])' = Wanted(k)'
    <3>1. k \in pending /\ k # i /\ k \in DOMAIN cps
      BY <1>1, <2>1, CopyFacts
    <3>2. Value(src[k]) = Wanted(k)
      BY <1>1, <3>1 DEF NothingLost
    <3>3. Value(src[k])' = Value(src[k])
      BY <1>1, <1>3, <1>5, <3>1, CopyFacts DEF Value
    <3>4. QED BY <1>1, <3>2, <3>3 DEF Wanted
  <2>2. ASSUME NEW k \in DOMAIN cps, k \notin pending' PROVE mem'[cps[k].dst] = Wanted(k)'
    <3>1. CASE k = i
      BY <1>1, <1>5, <3>1 DEF NothingLost, Wanted
    <3>2. CASE k # i
      <4>1. k \notin pending /\ cps[k].dst # cps[i].dst /\ cps[k].dst \in Cells
        BY <1>1, <2>2, <3>2, CopyFacts DEF WellFormed, Cells
      <4>2. mem[cps[k].dst] = Wanted(k)
        BY <1>1, <4>1 DEF NothingLost
      <4>3. QED BY <1>1, <1>5, <4>1, <4>2 DEF Wanted
    <3>3. QED BY <3>1, <3>2
  <2>3. ASSUME NEW l \in Locs, \A k \in DOMAIN cps : cps[k].dst # l PROVE mem'[l] = l
    BY <1>1, <1>5, <2>3 DEF NothingLost, Cells
  <2>4. QED BY <1>1, <2>1, <2>2, <2>3 DEF NothingLost
<1>9. QED BY <1>1, <1>6, <1>7, <1>8 DEF IInv

\* A sweep that emitted something is followed by another.
LEMMA SweepAgainIInv == IInv /\ SweepAgain => IInv'
<1> SUFFICES ASSUME IInv, SweepAgain PROVE IInv'
  OBVIOUS
<1>1. /\ cps' = cps /\ src' = src /\ pending' = pending /\ i' = 1
      /\ progress' = FALSE /\ mem' = mem /\ moves' = moves /\ status' = status
      /\ status = "sweep" /\ TypeOK
  BY DEF SweepAgain, IInv
<1>2. TypeOK'
  <2>1. i' \in 1 .. Len(cps) + 1
    BY <1>1, CopyFacts
  <2>2. QED BY <1>1, <2>1 DEF TypeOK
<1>3. Checked' /\ NeverFails' /\ NothingLost'
  BY <1>1 DEF IInv, Checked, NeverFails, NothingLost, WellFormed, Value, Wanted
<1>4. Swept'
  BY <1>1, CopyFacts DEF Swept
<1>5. QED BY <1>1, <1>2, <1>3, <1>4 DEF IInv

\* The end of the sequence.
LEMMA FinishIInv == IInv /\ Finish => IInv'
<1> SUFFICES ASSUME IInv, Finish PROVE IInv'
  OBVIOUS
<1>1. /\ cps' = cps /\ src' = src /\ pending' = pending /\ i' = i
      /\ progress' = progress /\ mem' = mem /\ moves' = moves /\ status' = "done"
      /\ status = "sweep" /\ pending = {}
  BY DEF Finish
<1>2. TypeOK' /\ Checked' /\ NeverFails' /\ NothingLost' /\ Swept'
  BY <1>1 DEF IInv, TypeOK, Checked, NeverFails, NothingLost, Swept, WellFormed, Value, Wanted
<1>3. QED BY <1>1, <1>2 DEF IInv

\* A cycle is broken: no copy left reads the temporary, so that writing it
\* destroys nothing, and the saved value is where its readers now look.
LEMMA BreakIInv == IInv /\ BreakCycle => IInv'
<1> SUFFICES ASSUME IInv, BreakCycle PROVE IInv'
  OBVIOUS
<1>1. PICK f \in pending : Save(f)
  BY DEF BreakCycle
<1>2. /\ cps' = cps /\ pending' = pending /\ progress' = progress
      /\ status = "sweep" /\ ~progress /\ TypeOK /\ WellFormed /\ NothingLost
      /\ i \notin DOMAIN cps
  BY DEF BreakCycle, IInv, Checked
<1>3. \A k \in pending : IsPendingSource(k)
  <2>1. \A k \in pending : k < i
    BY <1>2, CopyFacts DEF TypeOK
  <2>2. QED BY <1>2, <2>1 DEF IInv, Swept
<1>4. \A k \in pending : src[k] \in Locs
  <2> TAKE k \in pending
  <2>1. PICK j \in pending : src[k] = cps[j].dst
    BY <1>2, <1>3, OnlyCycles
  <2>2. j \in DOMAIN cps /\ cps[j].dst \in Locs \cup {NoLoc}
    BY <1>2, CopyFacts
  <2>3. cps[j].dst # NoLoc
    BY ONLY <1>2, <2>2 DEF WellFormed
  <2> QED BY ONLY <2>1, <2>2, <2>3
<1>5. src[f] # NoLoc /\ \A k \in pending : src[k] # TempOf(f)
  BY <1>1, <1>2, <1>4, CopyFacts, NoLocAssumption, TempAssumption DEF Cells
<1>6. /\ mem' = [mem EXCEPT ![TempOf(f)] = Value(src[f])] /\ moves' = moves + 1
      /\ src' = Redirect(f) /\ i' = 1 /\ status' = status
  BY <1>1, <1>5 DEF Save
<1>7. f \in DOMAIN cps /\ TempOf(f) \in Temps /\ TempOf(f) \in Cells /\ TempOf(f) \notin Locs
  BY <1>1, <1>2, CopyFacts, TempAssumption DEF Cells
<1>8. /\ mem \in [Cells -> Cells \cup {Remat}]
      /\ Value(src[f]) \in Cells \cup {Remat}
  BY <1>1, <1>2, <1>4 DEF TypeOK, Value, Cells
<1>9. mem'[TempOf(f)] = Value(src[f]) /\ \A l \in Cells : l # TempOf(f) => mem'[l] = mem[l]
  BY <1>6, <1>7, <1>8
<1>10. TypeOK'
  <2>1. \A k \in DOMAIN cps : src'[k] \in {cps[k].src} \cup Temps
    BY <1>2, <1>6, <1>7, CopyFacts DEF Redirect
  <2>2. DOMAIN src' = DOMAIN cps
    BY <1>6 DEF Redirect
  <2>3. mem' \in [Cells -> Cells \cup {Remat}]
    BY <1>6, <1>8
  <2>4. i' \in 1 .. Len(cps) + 1
    BY <1>2, <1>6, CopyFacts
  <2>5. QED BY <1>2, <1>6, <2>1, <2>2, <2>3, <2>4 DEF TypeOK
<1>11. Checked' /\ NeverFails'
  BY <1>2, <1>6 DEF Checked, NeverFails, WellFormed, IInv
<1>12. Swept'
  BY <1>2, <1>6, CopyFacts DEF Swept
<1>13. NothingLost'
  <2>1. ASSUME NEW k \in pending PROVE Value(src[k])' = Wanted(k)'
    <3>1. Value(src[k]) = Wanted(k) /\ k \in DOMAIN cps
      BY <1>2, CopyFacts DEF NothingLost
    <3>2. CASE src[k] = src[f]
      <4>1. src'[k] = TempOf(f)
        BY <1>6, <3>1, <3>2 DEF Redirect
      <4>2. TempOf(f) # NoLoc
        BY <1>7, NoLocAssumption
      <4>3. QED BY <1>2, <1>9, <3>1, <3>2, <4>1, <4>2 DEF Value, Wanted
    <3>3. CASE src[k] # src[f]
      <4>1. src'[k] = src[k]
        BY <1>6, <3>1, <3>3 DEF Redirect
      <4>2. src[k] \in Cells /\ src[k] # TempOf(f)
        BY <1>4, <1>5 DEF Cells
      <4>3. QED BY <1>2, <1>9, <3>1, <4>1, <4>2 DEF Value, Wanted
    <3>4. QED BY <3>2, <3>3
  <2>2. ASSUME NEW k \in DOMAIN cps, k \notin pending PROVE mem'[cps[k].dst] = Wanted(k)'
    <3>1. cps[k].dst \in Cells /\ cps[k].dst # TempOf(f)
      BY <1>2, <1>7, CopyFacts DEF WellFormed, Cells
    <3>2. QED BY <1>2, <1>9, <2>2, <3>1 DEF NothingLost, Wanted
  <2>3. ASSUME NEW l \in Locs, \A k \in DOMAIN cps : cps[k].dst # l PROVE mem'[l] = l
    BY <1>2, <1>7, <1>9, <2>3 DEF NothingLost, Cells
  <2>4. QED BY <1>2, <1>6, <2>1, <2>2, <2>3 DEF NothingLost
<1>14. QED BY <1>2, <1>6, <1>10, <1>11, <1>12, <1>13 DEF IInv

-----------------------------------------------------------------------------
(* The theorems *)

\* A step that leaves the state alone preserves the invariant.
LEMMA StutterIInv == IInv /\ UNCHANGED vars => IInv'
BY DEF vars, IInv, TypeOK, Checked, NeverFails, NothingLost, Swept, WellFormed, Value, Wanted,
       IsPendingSource

\* Every action preserves the invariant.
LEMMA StepIInv == IInv /\ [Next]_vars => IInv'
BY CheckIInv, SkipIInv, EmitIInv, SweepAgainIInv, BreakIInv, FinishIInv, StutterIInv DEF Next

\* The inductive invariant of ParallelCopy (src/ssa/regalloc.go).
THEOREM Invariance == Spec => []IInv
BY InitIInv, StepIInv, PTL DEF Spec

\* No copy overwrites what another copy, or a broken cycle, still needs, and
\* every copy emitted delivers what its source held at the start.
THEOREM NothingIsLost == Spec => []NothingLost
<1>1. IInv => NothingLost
  BY DEF IInv
<1>2. QED BY <1>1, Invariance, PTL

\* The state has its type: a source is redirected to a temporary or not at all.
THEOREM TypeCorrect == Spec => []TypeOK
<1>1. IInv => TypeOK
  BY DEF IInv
<1>2. QED BY <1>1, Invariance, PTL

\* The internal error of ParallelCopy is unreachable: a recomputed source is
\* never in a cycle.
THEOREM NoInternalError == Spec => []NeverFails
<1>1. IInv => NeverFails
  BY DEF IInv
<1>2. QED BY <1>1, Invariance, PTL

-----------------------------------------------------------------------------
(* The parallel copy is one assignment *)

\* At the end every location holds what the instantaneous copy gives it.
LEMMA EndIsMoved ==
  ASSUME IInv, status = "sweep", pending = {}, NEW l \in Locs
  PROVE  mem[l] = Simultaneous!Moved(cps)[l]
<1>1. WellFormed /\ TypeOK /\ NothingLost
  BY DEF IInv, Checked
<1>2. CASE \E k \in DOMAIN cps : cps[k].dst = l
  <2>1. PICK k \in DOMAIN cps : cps[k].dst = l
    BY <1>2
  <2>2. \A j \in DOMAIN cps : cps[j].dst = l => j = k
    BY <1>1, <2>1 DEF WellFormed
  <2>3. (CHOOSE j \in DOMAIN cps : cps[j].dst = l) = k
    BY <2>1, <2>2
  <2>4. mem[l] = Wanted(k)
    BY <1>1, <2>1 DEF NothingLost
  <2>5. Simultaneous!Moved(cps)[l] = Simultaneous!Source(cps[k])
    BY <1>2, <2>3 DEF Simultaneous!Moved
  <2>6. QED BY <2>4, <2>5 DEF Wanted, Simultaneous!Source
<1>3. CASE ~ \E k \in DOMAIN cps : cps[k].dst = l
  BY <1>1, <1>3 DEF NothingLost, Simultaneous!Moved
<1>4. QED BY <1>2, <1>3

\* Only the last step moves, seen from outside.
LEMMA StepMaps == IInv /\ [Next]_vars => [Simultaneous!Next]_(Simultaneous!vars)
<1> SUFFICES ASSUME IInv, [Next]_vars PROVE [Simultaneous!Next]_(Simultaneous!vars)
  OBVIOUS
<1> DEFINE cells == [l \in Locs |-> IF status = "done" THEN mem[l] ELSE l]
<1> DEFINE outcome == CASE status = "done" -> "moved"
                        [] status = "refused" -> "refused"
                        [] OTHER -> "pending"
<1>1. CASE Refuse
  <2>1. /\ cps' = cps /\ outcome = "pending" /\ outcome' = "refused" /\ cells' = cells
        /\ ~Simultaneous!Sound(cps)
    BY <1>1 DEF Refuse, WellFormed, Simultaneous!Sound
  <2>2. QED BY <2>1 DEF Simultaneous!Next, Simultaneous!Refuse
<1>2. CASE Finish
  <2>1. /\ cps' = cps /\ mem' = mem /\ status = "sweep" /\ status' = "done" /\ pending = {}
        /\ WellFormed
    BY <1>2 DEF Finish, IInv, Checked
  <2>2. cells' = Simultaneous!Moved(cps)
    BY <2>1, EndIsMoved DEF Simultaneous!Moved
  <2>3. outcome = "pending" /\ outcome' = "moved" /\ Simultaneous!Sound(cps)
    BY <2>1 DEF WellFormed, Simultaneous!Sound
  <2>4. QED BY <2>1, <2>2, <2>3 DEF Simultaneous!Next, Simultaneous!Move
<1>3. CASE Accept \/ Skip \/ Emit \/ SweepAgain \/ BreakCycle
  <2>1. NeverFails'
    BY StepIInv DEF IInv
  <2>2. cps' = cps /\ status \in {"check", "sweep"} /\ status' \in {"check", "sweep"}
    BY <1>3, <2>1 DEF Accept, Skip, Emit, SweepAgain, BreakCycle, Save, NeverFails
  <2>3. cells' = cells /\ outcome' = outcome
    BY <2>2
  <2>4. QED BY <2>2, <2>3 DEF Simultaneous!vars
<1>4. CASE UNCHANGED vars
  BY <1>4 DEF vars, Simultaneous!vars
<1>5. QED BY <1>1, <1>2, <1>3, <1>4 DEF Next

\* The sequence emitted, cycles broken through temporaries and all, is the one
\* instantaneous assignment that the phis of an edge mean.
THEOREM ImplementsAtomicCopy == Spec => Simultaneous!Safety
<1>1. Init => Simultaneous!Init
  BY DEF Init, InitCopy, Simultaneous!Init
<1>2. QED
  BY <1>1, StepMaps, Invariance, PTL DEF Spec, Simultaneous!Safety

-----------------------------------------------------------------------------
(* Cycles *)

\* Copies no two of which write one location.
Distinct(c) == /\ c \in Seq(Copy)
               /\ \A k \in DOMAIN c : c[k].dst # NoLoc
               /\ \A j, k \in DOMAIN c : c[j].dst = c[k].dst => j = k

Written(c) == {c[k].dst : k \in DOMAIN c}

\* The copies have their types.
LEMMA CopyType ==
  ASSUME NEW c \in Seq(Copy), NEW k \in DOMAIN c
  PROVE  c[k].dst \in Locs \cup {NoLoc} /\ c[k].src \in Locs \cup {NoLoc}
<1>1. c[k] \in Copy
  OBVIOUS
<1> QED
  BY <1>1 DEF Copy

\* The copy that writes a location reads one.
LEMMA StepFacts ==
  ASSUME NEW c, Distinct(c)
  PROVE  /\ \A k \in DOMAIN c : Step(c, {c[k].dst}) = {c[k].src} /\ c[k].dst \in Locs
         /\ \A S : \A k \in DOMAIN c : c[k].dst \in S => c[k].src \in Step(c, S)
         /\ \A S : \A y \in Step(c, S) : \E k \in DOMAIN c : c[k].dst \in S /\ y = c[k].src
<1>1. \A k \in DOMAIN c : c[k].dst \in Locs
  BY CopyType DEF Distinct
<1>2. \A k \in DOMAIN c : Step(c, {c[k].dst}) = {c[k].src}
  BY DEF Distinct, Step
<1>3. \A S : \A k \in DOMAIN c : c[k].dst \in S => c[k].src \in Step(c, S)
  BY DEF Step
<1>4. \A S : \A y \in Step(c, S) : \E k \in DOMAIN c : c[k].dst \in S /\ y = c[k].src
  BY DEF Step
<1> QED
  BY <1>1, <1>2, <1>3, <1>4

\* Copies are finitely many, and so is where they go.
LEMMA FiniteCopies ==
  ASSUME NEW c \in Seq(Copy)
  PROVE  /\ IsFiniteSet(DOMAIN c) /\ Cardinality(DOMAIN c) = Len(c) /\ Len(c) \in Nat
         /\ IsFiniteSet(Step(c, Locs \cup {NoLoc})) /\ Cardinality(Step(c, Locs \cup {NoLoc})) <= Len(c)
         /\ IsFiniteSet(Written(c))
         /\ \A S : Step(c, S) \subseteq Step(c, Locs \cup {NoLoc})
<1>1. DOMAIN c = 1 .. Len(c) /\ Len(c) \in Nat
  OBVIOUS
<1>2. IsFiniteSet(DOMAIN c) /\ Cardinality(DOMAIN c) = Len(c)
  BY <1>1, FS_Interval
<1>3. \A k \in DOMAIN c : c[k].dst \in Locs \cup {NoLoc}
  BY CopyType
<1>4. IsFiniteSet(Step(c, Locs \cup {NoLoc})) /\ Cardinality(Step(c, Locs \cup {NoLoc})) <= Cardinality(DOMAIN c)
  <2> DEFINE f == [k \in DOMAIN c |-> c[k].src]
  <2>1. f \in Surjection(DOMAIN c, Step(c, Locs \cup {NoLoc}))
    BY <1>3 DEF Surjection, Step
  <2> QED BY <1>2, <2>1, FS_Surjection
<1>5. IsFiniteSet(Written(c))
  <2> DEFINE f == [k \in DOMAIN c |-> c[k].dst]
  <2>1. f \in Surjection(DOMAIN c, Written(c))
    BY DEF Surjection, Written
  <2> QED BY <1>2, <2>1, FS_Surjection
<1>6. \A S : Step(c, S) \subseteq Step(c, Locs \cup {NoLoc})
  BY <1>3 DEF Step
<1> QED
  BY <1>1, <1>2, <1>4, <1>5, <1>6

\* As many steps as there are copies are enough: what the sources lead to is the
\* least set that holds the source of l and the sources of what it holds.
LEMMA ReachIsLeast ==
  ASSUME NEW c \in Seq(Copy), NEW l
  PROVE  /\ IsFiniteSet(Reach(c, l))
         /\ Step(c, {l}) \subseteq Reach(c, l) /\ Step(c, Reach(c, l)) \subseteq Reach(c, l)
         /\ \A T : Step(c, {l}) \subseteq T /\ Step(c, T) \subseteq T => Reach(c, l) \subseteq T
<1> DEFINE S == Step(c, Locs \cup {NoLoc})
           N == Len(c)
           base == Step(c, {l})
           g == [X \in SUBSET S |-> X \cup Step(c, X)]
           f == CHOOSE f : f = [n \in 0 .. N |-> IF n = 0 THEN base ELSE f[n - 1] \cup Step(c, f[n - 1])]
<1>1. Reach(c, l) = f[N]
  BY DEF Reach
<1>2. IsFiniteSet(S) /\ N \in Nat /\ Cardinality(S) <= N /\ base \in SUBSET S /\ \A X : Step(c, X) \subseteq S
  BY FiniteCopies
<1> HIDE DEF S, N, base
<1>3. \A X \in SUBSET S : g[X] = X \cup Step(c, X) /\ g[X] \in SUBSET S
  BY <1>2
<1>4. \A X, Y : X \subseteq Y => Step(c, X) \subseteq Step(c, Y)
  BY DEF Step
<1> HIDE DEF g
<1>5. Repeats(N, SUBSET S, base, g) /\ Grows(S, N, base, g)
  <2>1. \A X, Y \in SUBSET S : X \subseteq Y => g[X] \subseteq g[Y] /\ g[Y] \subseteq S
    BY <1>3, <1>4
  <2>2. base \subseteq g[base]
    BY <1>2, <1>3
  <2> QED BY <1>2, <1>3, <2>1, <2>2 DEF Repeats, Grows
<1>6. PICK it : IterationOf(it, N, SUBSET S, base, g)
  BY <1>5, IterationExists
<1>7. it \in [0 .. N -> SUBSET S] /\ \A n \in 0 .. N : it[n] = IF n = 0 THEN base ELSE g[it[n - 1]]
  BY <1>6 DEF IterationOf
<1>8. it = [n \in 0 .. N |-> IF n = 0 THEN base ELSE it[n - 1] \cup Step(c, it[n - 1])]
  <2>1. \A n \in 0 .. N : n # 0 => it[n - 1] \in SUBSET S
    BY <1>2, <1>7
  <2>2. \A n \in 0 .. N : it[n] = IF n = 0 THEN base ELSE it[n - 1] \cup Step(c, it[n - 1])
    BY <1>3, <1>7, <2>1
  <2> QED BY <1>7, <2>2
<1>9. f = [n \in 0 .. N |-> IF n = 0 THEN base ELSE f[n - 1] \cup Step(c, f[n - 1])]
  BY <1>8
<1> HIDE DEF f
<1>10. IterationOf(f, N, SUBSET S, base, g)
  <2> DEFINE P == {n \in Nat : n \in 0 .. N => f[n] \in SUBSET S}
  <2>1. 0 \in P
    BY <1>2, <1>9
  <2>2. ASSUME NEW n \in Nat, n \in P PROVE n + 1 \in P
    <3> SUFFICES ASSUME n + 1 \in 0 .. N PROVE f[n + 1] \in SUBSET S
      OBVIOUS
    <3>1. n \in 0 .. N /\ n + 1 # 0 /\ (n + 1) - 1 = n
      BY <1>2
    <3>2. f[n] \in SUBSET S /\ f[n + 1] = f[n] \cup Step(c, f[n])
      BY <1>9, <2>2, <3>1
    <3> QED BY <1>2, <3>2
  <2> HIDE DEF P
  <2>3. \A n \in Nat : n \in P
    BY <2>1, <2>2, NumberInduction
  <2>4. \A n \in 0 .. N : f[n] \in SUBSET S
    BY <1>2, <2>3 DEF P
  <2>5. \A n \in 0 .. N : f[n] = IF n = 0 THEN base ELSE g[f[n - 1]]
    <3> TAKE n \in 0 .. N
    <3>1. n # 0 => f[n - 1] \in SUBSET S
      BY <1>2, <2>4
    <3> QED BY <1>3, <1>9, <3>1
  <2>6. f \in [0 .. N -> SUBSET S]
    BY <1>9, <2>4
  <2> QED BY <2>5, <2>6 DEF IterationOf
<1>11. Rests(S, base, g, f[N])
  BY <1>5, <1>10, IterationSettles
<1>12. /\ f[N] \in SUBSET S /\ base \subseteq f[N] /\ g[f[N]] = f[N]
       /\ \A T \in SUBSET S : base \subseteq T /\ g[T] \subseteq T => f[N] \subseteq T
  BY <1>11 DEF Rests
<1>13. ASSUME NEW T, base \subseteq T, Step(c, T) \subseteq T PROVE f[N] \subseteq T
  <2>1. T \cap S \in SUBSET S /\ base \subseteq T \cap S
    BY <1>2, <1>13
  <2>2. Step(c, T \cap S) \subseteq T \cap S
    <3>1. Step(c, T \cap S) \subseteq Step(c, T)
      BY <1>4
    <3> QED BY <1>2, <1>13, <3>1
  <2>3. g[T \cap S] \subseteq T \cap S
    BY <1>3, <2>1, <2>2
  <2> QED BY <1>12, <2>1, <2>3
<1>14. IsFiniteSet(f[N])
  BY <1>2, <1>12, FS_Subset
<1>15. Step(c, f[N]) \subseteq f[N]
  BY <1>3, <1>12
<1>16. base = Step(c, {l})
  BY DEF base
<1> QED
  BY <1>1, <1>12, <1>13, <1>14, <1>15, <1>16

\* What an injection of a set into itself takes into a finite part that it does
\* not leave comes from that part.
LEMMA Returns ==
  ASSUME NEW D, NEW s \in [D -> D], \A x, y \in D : s[x] = s[y] => x = y,
         NEW R, R \subseteq D, IsFiniteSet(R), \A x \in R : s[x] \in R,
         NEW l \in D, s[l] \in R
  PROVE  l \in R
<1> DEFINE h == [x \in R |-> s[x]]
<1>1. h \in Injection(R, R)
  BY DEF Injection, IsInjective
<1>2. h \in Surjection(R, R)
  BY <1>1, FS_Injection
<1>3. PICK y \in R : h[y] = s[l]
  BY <1>2 DEF Surjection
<1> QED
  BY <1>3

\* The source of the copy that writes l.
Source(c) == [l \in Written(c) |-> c[CHOOSE k \in DOMAIN c : c[k].dst = l].src]

\* With one copy for each destination, Source says what each of them is to hold.
LEMMA SourceFacts ==
  ASSUME NEW c, Distinct(c)
  PROVE  /\ \A k \in DOMAIN c : c[k].dst \in Written(c) /\ Source(c)[c[k].dst] = c[k].src
         /\ \A l \in Written(c) : Step(c, {l}) = {Source(c)[l]} /\ \E k \in DOMAIN c : c[k].dst = l
         /\ \A S : Step(c, S) = {Source(c)[l] : l \in S \cap Written(c)}
<1>1. ASSUME NEW k \in DOMAIN c PROVE c[k].dst \in Written(c) /\ Source(c)[c[k].dst] = c[k].src
  <2>1. (CHOOSE j \in DOMAIN c : c[j].dst = c[k].dst) = k
    BY DEF Distinct
  <2> QED BY <2>1 DEF Source, Written
<1>2. \A l \in Written(c) : \E k \in DOMAIN c : c[k].dst = l
  BY DEF Written
<1>3. \A l \in Written(c) : Step(c, {l}) = {Source(c)[l]}
  BY <1>1, <1>2, StepFacts
<1>4. ASSUME NEW S PROVE Step(c, S) = {Source(c)[l] : l \in S \cap Written(c)}
  <2>1. \A y \in Step(c, S) : y \in {Source(c)[l] : l \in S \cap Written(c)}
    BY <1>1, StepFacts
  <2>2. \A l \in S \cap Written(c) : Source(c)[l] \in Step(c, S)
    BY <1>1, <1>2, StepFacts
  <2> QED BY <2>1, <2>2
<1> QED
  BY <1>1, <1>2, <1>3, <1>4

\* Where the sources lead back to l, they lead to from somewhere, one from one.
LEMMA Rotates ==
  ASSUME NEW c, Distinct(c), NEW l, l \in Reach(c, l)
  PROVE  /\ Reach(c, l) \subseteq Written(c)
         /\ \A x \in Reach(c, l) : Source(c)[x] \in Reach(c, l)
         /\ \A x, y \in Reach(c, l) : Source(c)[x] = Source(c)[y] => x = y
         /\ \A x \in Reach(c, l) : \E y \in Reach(c, l) : Source(c)[y] = x
<1> DEFINE D == Reach(c, l)
           E == D \cap Written(c)
           s == [x \in E |-> Source(c)[x]]
<1>0. c \in Seq(Copy)
  BY DEF Distinct
<1>1. /\ IsFiniteSet(D) /\ l \in D
      /\ Step(c, {l}) \subseteq D /\ Step(c, D) \subseteq D
      /\ \A T : Step(c, {l}) \subseteq T /\ Step(c, T) \subseteq T => D \subseteq T
  BY <1>0, ReachIsLeast
<1> HIDE DEF D
<1>2. \A S : Step(c, S) = {Source(c)[x] : x \in S \cap Written(c)}
  BY SourceFacts
<1>3. s \in [E -> D]
  BY <1>1, <1>2
<1>4. \A y \in D : \E x \in E : s[x] = y
  <2> DEFINE T == {s[x] : x \in E}
  <2>1. Step(c, D) = T
    BY <1>2
  <2>2. Step(c, {l}) \subseteq T /\ T \subseteq D
    BY <1>1, <1>2, <2>1
  <2>3. Step(c, T) \subseteq T
    BY <1>2, <2>1, <2>2
  <2>4. D \subseteq T
    BY <1>1, <2>2, <2>3
  <2> QED BY <2>4
<1>5. s \in Surjection(E, D)
  BY <1>3, <1>4 DEF Surjection
<1>6. IsFiniteSet(E) /\ Cardinality(E) <= Cardinality(D) /\ (Cardinality(E) = Cardinality(D) => E = D)
      /\ Cardinality(E) \in Nat /\ Cardinality(D) \in Nat
  BY <1>1, FS_Subset, FS_CardinalityType
<1>7. Cardinality(D) <= Cardinality(E) /\ (Cardinality(D) = Cardinality(E) <=> s \in Injection(E, D))
  BY <1>5, <1>6, FS_Surjection
<1>8. E = D /\ s \in Injection(E, D)
  BY <1>6, <1>7
<1>9. \A x, y \in D : s[x] = s[y] => x = y
  BY <1>8 DEF Injection, IsInjective
<1>10. D \subseteq Written(c) /\ \A x \in D : s[x] = Source(c)[x]
  BY <1>8
<1>11. /\ \A x \in D : Source(c)[x] \in D
       /\ \A x, y \in D : Source(c)[x] = Source(c)[y] => x = y
       /\ \A x \in D : \E y \in D : Source(c)[y] = x
  BY <1>3, <1>4, <1>8, <1>9, <1>10
<1> QED
  BY <1>10, <1>11 DEF D

\* What the sources lead to from a location of a cycle is what they lead to from
\* any other.
LEMMA SameCycle ==
  ASSUME NEW c, Distinct(c), NEW l, l \in Reach(c, l), NEW m \in Reach(c, l)
  PROVE  Reach(c, m) = Reach(c, l)
<1> DEFINE D == Reach(c, l)
           R == Reach(c, m)
           s == [x \in D |-> Source(c)[x]]
<1>0. c \in Seq(Copy)
  BY DEF Distinct
<1>1. /\ D \subseteq Written(c)
      /\ s \in [D -> D]
      /\ \A x, y \in D : s[x] = s[y] => x = y
  BY Rotates
<1>2. /\ l \in D /\ m \in D
      /\ \A T : Step(c, {l}) \subseteq T /\ Step(c, T) \subseteq T => D \subseteq T
      /\ IsFiniteSet(R) /\ Step(c, {m}) \subseteq R /\ Step(c, R) \subseteq R
      /\ \A T : Step(c, {m}) \subseteq T /\ Step(c, T) \subseteq T => R \subseteq T
  BY <1>0, ReachIsLeast
<1> HIDE DEF D, R
<1>3. \A S : S \subseteq D => Step(c, S) = {s[x] : x \in S}
  <2> TAKE S
  <2> HAVE S \subseteq D
  <2>1. S \cap Written(c) = S /\ \A x \in S : s[x] = Source(c)[x]
    BY <1>1
  <2>2. Step(c, S) = {Source(c)[x] : x \in S \cap Written(c)}
    BY SourceFacts
  <2> QED BY <2>1, <2>2
<1> HIDE DEF s
<1>9. \A S : S \subseteq D => (\A x \in S : s[x] \in Step(c, S)) /\ (\A y \in Step(c, S) : \E x \in S : y = s[x])
  BY <1>3
<1>4. R \subseteq D
  <2>1. {m} \subseteq D /\ D \subseteq D
    BY <1>2
  <2>2. Step(c, {m}) \subseteq D /\ Step(c, D) \subseteq D
    BY <1>1, <1>9, <2>1
  <2> QED BY <1>2, <2>2
<1>5. \A x \in R : s[x] \in R
  BY <1>2, <1>4, <1>9
<1>6. \A x \in D : s[x] \in R => x \in R
  BY <1>1, <1>2, <1>4, <1>5, Returns
<1>7. l \in R
  <2> SUFFICES ASSUME l \notin R PROVE FALSE
    OBVIOUS
  <2> DEFINE T == D \ R
  <2>0. {l} \subseteq D /\ T \subseteq D /\ {m} \subseteq D
    BY <1>2
  <2>1. Step(c, {l}) \subseteq T /\ Step(c, T) \subseteq T
    BY <1>1, <1>2, <1>6, <1>9, <2>0
  <2>2. D \subseteq T
    BY <1>2, <2>1
  <2>3. s[m] \in R /\ s[m] \in D
    BY <1>1, <1>2, <1>9, <2>0
  <2> QED BY <2>2, <2>3
<1>8. D \subseteq R
  <2>1. Step(c, {l}) \subseteq Step(c, R)
    BY <1>7 DEF Step
  <2> QED BY <1>2, <2>1
<1> QED
  BY <1>4, <1>8 DEF D, R

\* Cycles have no location in common, and in each the location that another is
\* read from is a different one.
LEMMA CycleFacts ==
  ASSUME NEW c, Distinct(c)
  PROVE  /\ IsFiniteSet(Cycles(c))
         /\ \A C \in Cycles(c) : \A l \in C : l \in Cyclic(c) /\ C = CycleOf(c, l)
         /\ \A l \in Cyclic(c) : l \in CycleOf(c, l) /\ CycleOf(c, l) \in Cycles(c)
         /\ \A C \in Cycles(c) : C # {}
         /\ \A C \in Cycles(c) : \A l \in C : l \in Written(c)
         /\ \A C \in Cycles(c) : \A l \in C : \E m \in C : m # l /\ Source(c)[m] = l
<1>1. \A C \in Cycles(c) : \E l \in Cyclic(c) : C = CycleOf(c, l)
  BY DEF Cycles
<1>2. \A l \in Cyclic(c) : l \in Locs /\ l \in Reach(c, l) /\ Step(c, {l}) # {l}
  BY DEF Cyclic
<1>3. \A l \in Cyclic(c) : l \in CycleOf(c, l) /\ CycleOf(c, l) \in Cycles(c)
  BY <1>2 DEF CycleOf, Cycles
<1>4. \A C \in Cycles(c) : \A l \in C : l \in Cyclic(c) /\ C = CycleOf(c, l)
  <2> TAKE C \in Cycles(c)
  <2> TAKE l \in C
  <2>1. PICK m \in Cyclic(c) : C = CycleOf(c, m)
    BY <1>1
  <2>2. l \in Cyclic(c) /\ l \in Reach(c, m)
    BY <2>1 DEF CycleOf
  <2>3. Reach(c, l) = Reach(c, m)
    BY <1>2, <2>2, SameCycle
  <2> QED BY <2>1, <2>2, <2>3 DEF CycleOf
<1>5. \A l \in Cyclic(c) : l \in Written(c)
  BY <1>2, Rotates
<1>6. ASSUME NEW C \in Cycles(c), NEW l \in C PROVE \E m \in C : m # l /\ Source(c)[m] = l
  <2>1. l \in Cyclic(c) /\ C = CycleOf(c, l) /\ l \in Reach(c, l)
    BY <1>2, <1>4
  <2>2. PICK m \in Reach(c, l) : Source(c)[m] = l
    BY <2>1, Rotates
  <2>3. m \in Written(c) /\ Step(c, {m}) = {l} /\ l \in Written(c) /\ Step(c, {l}) = {Source(c)[l]} /\ Step(c, {l}) # {l}
    BY <1>2, <2>1, <2>2, Rotates, SourceFacts
  <2>4. m # l
    BY <2>2, <2>3
  <2>5. m \in Reach(c, m)
    BY <2>1, <2>2, SameCycle
  <2>6. m \in Locs
    <3>1. PICK k \in DOMAIN c : c[k].dst = m
      BY <2>3 DEF Written
    <3> QED BY <3>1, StepFacts
  <2>7. m \in Cyclic(c)
    BY <2>3, <2>4, <2>5, <2>6 DEF Cyclic
  <2>8. m \in C
    BY <2>1, <2>2, <2>7 DEF CycleOf
  <2> QED BY <2>2, <2>4, <2>8
<1>7. IsFiniteSet(Cycles(c))
  <2>1. IsFiniteSet(Cyclic(c))
    <3>1. IsFiniteSet(Written(c))
      BY FiniteCopies DEF Distinct
    <3>2. Cyclic(c) \subseteq Written(c)
      BY <1>5
    <3> QED BY <3>1, <3>2, FS_Subset
  <2> DEFINE f == [l \in Cyclic(c) |-> CycleOf(c, l)]
  <2>2. f \in Surjection(Cyclic(c), Cycles(c))
    BY DEF Surjection, Cycles
  <2> QED BY <2>1, <2>2, FS_Surjection
<1> QED
  BY <1>1, <1>3, <1>4, <1>5, <1>6, <1>7

-----------------------------------------------------------------------------
(* What the copies cost *)

\* The copies of C are left, and read what they did at the start.
Whole(C) == \A k \in DOMAIN cps : cps[k].dst \in C => k \in pending /\ src[k] = cps[k].src

\* The cycles that were broken.
Broken == {C \in Cycles(cps) : ~Whole(C)}

\* Each copy emitted and each cycle broken took one move.
Paid == status \in {"check", "sweep", "done"} =>
          moves = Len(cps) - Cardinality(pending) + Cardinality(Broken)

\* The copies that are left are finitely many, as many as are not emitted.
LEMMA FinitePending ==
  ASSUME TypeOK
  PROVE  /\ IsFiniteSet(pending) /\ Cardinality(pending) \in Nat /\ Len(cps) \in Nat
         /\ Cardinality(DOMAIN cps) = Len(cps)
<1>1. IsFiniteSet(DOMAIN cps) /\ Cardinality(DOMAIN cps) = Len(cps) /\ Len(cps) \in Nat /\ pending \subseteq DOMAIN cps
  BY FiniteCopies DEF TypeOK
<1> QED
  BY <1>1, FS_Subset, FS_CardinalityType

\* In the beginning nothing is emitted and nothing is paid.
LEMMA InitPaid == Init => Paid
<1> SUFFICES ASSUME Init PROVE moves = Len(cps) - Cardinality(pending) + Cardinality(Broken)
  BY DEF Paid
<1>1. /\ cps \in Seq(Copy) /\ moves = 0 /\ pending = DOMAIN cps
      /\ \A k \in DOMAIN cps : src[k] = cps[k].src
  BY DEF Init, InitCopy
<1>2. Broken = {}
  BY <1>1 DEF Broken, Whole
<1>3. Cardinality(Broken) = 0 /\ Cardinality(pending) = Len(cps) /\ Len(cps) \in Nat
  BY <1>1, <1>2, FS_EmptySet, FiniteCopies
<1> QED
  BY <1>1, <1>3

\* No copy of a cycle is emitted before the cycle is broken: the next one still
\* reads what it writes.
LEMMA EmitPaid == IInv /\ Paid /\ Emit => Paid'
<1> SUFFICES ASSUME IInv, Paid, Emit PROVE Paid'
  OBVIOUS
<1>1. /\ cps' = cps /\ src' = src /\ pending' = pending \ {i} /\ moves' = moves + 1
      /\ status = "sweep" /\ i \in DOMAIN cps /\ i \in pending /\ TypeOK /\ WellFormed
      /\ \A j \in pending : j # i => src[j] # cps[i].dst
  BY DEF Emit, IInv, Checked, IsPendingSource
<1>2. Distinct(cps)
  BY <1>1 DEF Distinct, WellFormed, TypeOK
<1>3. ASSUME NEW C \in Cycles(cps), Whole(C) PROVE cps[i].dst \notin C
  <2> SUFFICES ASSUME cps[i].dst \in C PROVE FALSE
    OBVIOUS
  <2>1. PICK m \in C : m # cps[i].dst /\ Source(cps)[m] = cps[i].dst
    BY <1>2, CycleFacts
  <2>2. PICK j \in DOMAIN cps : cps[j].dst = m /\ cps[j].src = cps[i].dst
    <3>1. m \in Written(cps)
      BY <1>2, <2>1, CycleFacts
    <3>2. PICK j \in DOMAIN cps : cps[j].dst = m
      BY <3>1 DEF Written
    <3>3. Source(cps)[cps[j].dst] = cps[j].src
      BY <1>2, SourceFacts
    <3> QED BY <2>1, <3>2, <3>3
  <2>3. j \in pending /\ src[j] = cps[i].dst
    BY <1>3, <2>1, <2>2 DEF Whole
  <2> QED BY <1>1, <2>1, <2>2, <2>3
<1>4. Broken' = Broken
  <2>1. \A C \in Cycles(cps) : Whole(C)' <=> Whole(C)
    BY <1>1, <1>3 DEF Whole
  <2>2. Cycles(cps)' = Cycles(cps)
    BY <1>1
  <2> QED BY <2>1, <2>2 DEF Broken
<1>5. Cardinality(pending \ {i}) = Cardinality(pending) - 1 /\ Cardinality(pending) \in Nat /\ Len(cps) \in Nat
  BY <1>1, FinitePending, FS_RemoveElement
<1>6. IsFiniteSet(Broken) /\ Cardinality(Broken) \in Nat
  <2>1. Broken \subseteq Cycles(cps)
    BY DEF Broken
  <2> QED BY <1>2, <2>1, CycleFacts, FS_Subset, FS_CardinalityType
<1>7. moves = Len(cps) - Cardinality(pending) + Cardinality(Broken)
  BY <1>1 DEF Paid
<1>8. moves' = Len(cps)' - Cardinality(pending') + Cardinality(Broken')
  BY <1>1, <1>4, <1>5, <1>6, <1>7
<1> QED
  BY <1>8 DEF Paid

\* When nothing can be emitted, the copies left read what copies left write, one
\* from one, and none reads what it writes.
LEMMA LeftRotate ==
  ASSUME TypeOK, WellFormed, \A k \in pending : IsPendingSource(k)
  PROVE  /\ \A k \in pending : src[k] = cps[k].src /\ \E j \in pending : cps[k].src = cps[j].dst
         /\ \A j, k \in pending : cps[j].src = cps[k].src => j = k
         /\ \A k \in pending : cps[k].src # cps[k].dst
<1> DEFINE reader == [k \in pending |-> CHOOSE j \in pending \ {k} : src[j] = cps[k].dst]
<1>1. \A k \in pending : reader[k] \in pending /\ reader[k] # k /\ src[reader[k]] = cps[k].dst
  BY DEF IsPendingSource
<1>2. reader \in [pending -> pending]
  BY <1>1
<1> HIDE DEF reader
<1>3. \A j, k \in pending : reader[j] = reader[k] => j = k
  BY <1>1, CopyFacts DEF WellFormed
<1>4. reader \in Injection(pending, pending)
  BY <1>2, <1>3 DEF Injection, IsInjective
<1>5. reader \in Surjection(pending, pending)
  BY <1>4, FinitePending, FS_Injection
<1>6. \A k \in pending : \E j \in pending : reader[j] = k
  BY <1>5 DEF Surjection
<1>7. \A k \in pending : src[k] = cps[k].src /\ \E j \in pending : cps[k].src = cps[j].dst
  <2> TAKE k \in pending
  <2>1. PICK j \in pending : src[k] = cps[j].dst
    BY <1>1, <1>6
  <2>2. cps[j].dst \in Locs /\ src[k] \in {cps[k].src} \cup Temps
    BY CopyFacts DEF WellFormed
  <2>3. src[k] = cps[k].src
    BY <2>1, <2>2, TempAssumption
  <2> QED BY <2>1, <2>3
<1>8. \A j, k \in pending : src[j] = src[k] => j = k
  <2> TAKE j, k \in pending
  <2> HAVE src[j] = src[k]
  <2>1. PICK a \in pending, b \in pending : reader[a] = j /\ reader[b] = k
    BY <1>6
  <2>2. cps[a].dst = cps[b].dst
    BY <1>1, <2>1
  <2>3. a = b
    BY <2>2, CopyFacts DEF WellFormed
  <2> QED BY <2>1, <2>3
<1>9. \A k \in pending : src[k] # cps[k].dst
  <2> TAKE k \in pending
  <2>1. PICK a \in pending : reader[a] = k
    BY <1>6
  <2>2. src[k] = cps[a].dst /\ a # k
    BY <1>1, <2>1
  <2> QED BY <2>2, CopyFacts DEF WellFormed
<1> QED
  BY <1>7, <1>8, <1>9

\* Then each location a copy left writes is in a cycle that was not broken.
LEMMA LeftInCycle ==
  ASSUME TypeOK, WellFormed, \A k \in pending : IsPendingSource(k), NEW f \in pending
  PROVE  cps[f].dst \in Cyclic(cps) /\ Whole(CycleOf(cps, cps[f].dst))
<1> DEFINE D == {cps[k].dst : k \in pending}
           l == cps[f].dst
           s == [x \in D |-> Source(cps)[x]]
           R == Reach(cps, l)
<1>1. Distinct(cps) /\ cps \in Seq(Copy) /\ pending \subseteq DOMAIN cps
  BY DEF Distinct, WellFormed, TypeOK
<1>2. \A k \in pending : cps[k].dst \in D /\ cps[k].dst \in Written(cps) /\ s[cps[k].dst] = cps[k].src
  BY <1>1, SourceFacts
<1>3. \A x \in D : \E k \in pending : x = cps[k].dst
  OBVIOUS
<1>4. l \in D
  OBVIOUS
<1> HIDE DEF D
<1>5. s \in [D -> D]
  <2>1. \A x \in D : s[x] \in D
    <3> HIDE DEF s
    <3> TAKE x \in D
    <3>1. PICK k \in pending : x = cps[k].dst
      BY <1>3
    <3>2. PICK j \in pending : cps[k].src = cps[j].dst
      BY LeftRotate
    <3> QED BY <1>2, <3>1, <3>2
  <2> QED BY <2>1
<1>6. \A x, y \in D : s[x] = s[y] => x = y
  <2> HIDE DEF s
  <2> TAKE x, y \in D
  <2> HAVE s[x] = s[y]
  <2>1. PICK j \in pending, k \in pending : x = cps[j].dst /\ y = cps[k].dst
    BY <1>3
  <2>2. cps[j].src = cps[k].src
    BY <1>2, <2>1
  <2>3. j = k
    BY <2>2, LeftRotate
  <2> QED BY <2>1, <2>3
<1>7. /\ IsFiniteSet(R) /\ Step(cps, {l}) \subseteq R /\ Step(cps, R) \subseteq R
      /\ \A T : Step(cps, {l}) \subseteq T /\ Step(cps, T) \subseteq T => R \subseteq T
  BY <1>1, ReachIsLeast
<1> HIDE DEF R
<1>8. \A S : S \subseteq D => (\A x \in S : s[x] \in Step(cps, S)) /\ (\A y \in Step(cps, S) : \E x \in S : y = s[x])
  <2> TAKE S
  <2> HAVE S \subseteq D
  <2>1. S \cap Written(cps) = S /\ \A x \in S : s[x] = Source(cps)[x]
    BY <1>2, <1>3
  <2>2. Step(cps, S) = {Source(cps)[x] : x \in S \cap Written(cps)}
    BY <1>1, SourceFacts
  <2> QED BY <2>1, <2>2
<1>9. s[l] \in R
  <2>1. {l} \subseteq D
    BY <1>4
  <2> QED BY <1>7, <1>8, <2>1
<1> HIDE DEF s
<1>10. R \subseteq D
  <2>1. {l} \subseteq D /\ D \subseteq D
    BY <1>4
  <2>2. Step(cps, {l}) \subseteq D /\ Step(cps, D) \subseteq D
    BY <1>5, <1>8, <2>1
  <2> QED BY <1>7, <2>2
<1>11. \A x \in R : s[x] \in R
  BY <1>7, <1>8, <1>10
<1>12. l \in R
  BY <1>4, <1>5, <1>6, <1>7, <1>9, <1>10, <1>11, Returns
<1>13. Step(cps, {l}) # {l} /\ l \in Locs
  <2>1. Step(cps, {l}) = {cps[f].src} /\ l \in Locs
    BY <1>1, StepFacts
  <2> QED BY <2>1, LeftRotate
<1>14. l \in Cyclic(cps)
  BY <1>12, <1>13 DEF Cyclic, R
<1>15. CycleOf(cps, l) \subseteq D
  BY <1>10 DEF CycleOf, R
<1>16. Whole(CycleOf(cps, l))
  <2> SUFFICES ASSUME NEW k \in DOMAIN cps, cps[k].dst \in CycleOf(cps, l)
               PROVE  k \in pending /\ src[k] = cps[k].src
    BY DEF Whole
  <2>1. PICK j \in pending : cps[j].dst = cps[k].dst
    BY <1>3, <1>15
  <2>2. j = k
    BY <1>1, <2>1 DEF Distinct
  <2> QED BY <2>2, LeftRotate
<1> QED
  BY <1>14, <1>16

\* One more move breaks one more cycle, and no other.
LEMMA BreakPaid == IInv /\ Paid /\ BreakCycle => Paid'
<1> SUFFICES ASSUME IInv, Paid, BreakCycle PROVE Paid'
  OBVIOUS
<1>1. PICK f \in pending : Save(f)
  BY DEF BreakCycle
<1>2. /\ cps' = cps /\ pending' = pending
      /\ status = "sweep" /\ ~progress /\ TypeOK /\ WellFormed /\ i \notin DOMAIN cps
  BY DEF BreakCycle, IInv, Checked
<1>3. \A k \in pending : IsPendingSource(k)
  <2>1. \A k \in pending : k < i
    BY <1>2, CopyFacts DEF TypeOK
  <2> QED BY <1>2, <2>1 DEF IInv, Swept
<1>4. Distinct(cps) /\ f \in DOMAIN cps
  BY <1>2 DEF Distinct, WellFormed, TypeOK
<1>5. /\ \A k \in pending : src[k] = cps[k].src
      /\ \A j, k \in pending : cps[j].src = cps[k].src => j = k
      /\ \A k \in pending : cps[k].src \in Locs
  <2>1. \A k \in pending : cps[k].src \in Locs
    <3> TAKE k \in pending
    <3>1. PICK j \in pending : cps[k].src = cps[j].dst
      BY <1>2, <1>3, LeftRotate
    <3>2. j \in DOMAIN cps /\ cps[j].dst \in Locs \cup {NoLoc}
      BY <1>2, CopyFacts
    <3>3. cps[j].dst # NoLoc
      BY ONLY <1>2, <3>2 DEF WellFormed
    <3> QED BY ONLY <3>1, <3>2, <3>3
  <2> QED BY <1>2, <1>3, <2>1, LeftRotate
<1>6. src[f] # NoLoc
  BY <1>5, NoLocAssumption DEF Cells
<1>7. moves' = moves + 1 /\ src' = Redirect(f) /\ status' = "sweep"
  BY <1>1, <1>2, <1>6 DEF Save
<1>8. /\ src'[f] # cps[f].src
      /\ \A k \in DOMAIN cps : k # f => src'[k] = src[k]
  <2>1. src'[f] = TempOf(f) /\ TempOf(f) \in Temps
    BY <1>2, <1>4, <1>7, CopyFacts DEF Redirect
  <2>2. cps[f].src \notin Temps
    BY <1>5, TempAssumption
  <2>3. \A k \in DOMAIN cps : k # f => src'[k] = src[k]
    BY <1>5, <1>7 DEF Redirect
  <2> QED BY <2>1, <2>2, <2>3
<1>9. PICK F \in Cycles(cps) : /\ cps[f].dst \in F /\ Whole(F)
                               /\ \A C \in Cycles(cps) : cps[f].dst \in C => C = F
  BY <1>2, <1>3, <1>4, LeftInCycle, CycleFacts
<1>10. ~Whole(F)'
  BY <1>2, <1>4, <1>8, <1>9 DEF Whole
<1>11. \A C \in Cycles(cps) : C # F => (Whole(C)' <=> Whole(C))
  <2> SUFFICES ASSUME NEW C \in Cycles(cps), C # F PROVE Whole(C)' <=> Whole(C)
    OBVIOUS
  <2>1. \A k \in DOMAIN cps : cps[k].dst \in C => k # f
    BY <1>9
  <2> QED BY <1>2, <1>8, <2>1 DEF Whole
<1>12. Broken' = Broken \cup {F} /\ F \notin Broken
  <2>1. Cycles(cps)' = Cycles(cps)
    BY <1>2
  <2> QED BY <1>9, <1>10, <1>11, <2>1 DEF Broken
<1>13. IsFiniteSet(Broken) /\ Cardinality(Broken) \in Nat
  <2>1. Broken \subseteq Cycles(cps)
    BY DEF Broken
  <2> QED BY <1>4, <2>1, CycleFacts, FS_Subset, FS_CardinalityType
<1>14. Cardinality(Broken') = Cardinality(Broken) + 1
  BY <1>12, <1>13, FS_AddElement
<1>15. moves = Len(cps) - Cardinality(pending) + Cardinality(Broken)
  BY <1>2 DEF Paid
<1>16. moves' = Len(cps)' - Cardinality(pending') + Cardinality(Broken')
  BY <1>2, <1>7, <1>13, <1>14, <1>15, FinitePending
<1> QED
  BY <1>16 DEF Paid

\* The other steps cost nothing.
LEMMA OtherPaid == IInv /\ Paid /\ (Accept \/ Refuse \/ Skip \/ SweepAgain \/ Finish \/ UNCHANGED vars) => Paid'
<1> SUFFICES ASSUME IInv, Paid, Accept \/ Refuse \/ Skip \/ SweepAgain \/ Finish \/ UNCHANGED vars PROVE Paid'
  OBVIOUS
<1>1. /\ cps' = cps /\ src' = src /\ pending' = pending /\ moves' = moves
      /\ status' \in {"check", "sweep", "done"} => status \in {"check", "sweep", "done"}
  BY DEF Accept, Refuse, Skip, SweepAgain, Finish, vars
<1>2. Broken' = Broken
  BY <1>1 DEF Broken, Whole
<1> QED
  BY <1>1, <1>2 DEF Paid

\* Whatever the copies, the sequence has one move for each, and one more for
\* each cycle of two or more.
THEOREM CyclesCostOneMove == Spec => []Economical
<1>1. Init => IInv /\ Paid
  BY InitIInv, InitPaid
<1>2. (IInv /\ Paid) /\ [Next]_vars => (IInv /\ Paid)'
  BY StepIInv, EmitPaid, BreakPaid, OtherPaid DEF Next
<1>3. ASSUME IInv, Paid PROVE Economical
  <2> SUFFICES ASSUME status = "done" PROVE moves = Len(cps) + Cardinality(Cycles(cps))
    BY DEF Economical
  <2>1. pending = {} /\ TypeOK /\ WellFormed
    BY <1>3 DEF IInv, Checked
  <2>2. Distinct(cps)
    BY <2>1 DEF Distinct, WellFormed, TypeOK
  <2>3. \A C \in Cycles(cps) : ~Whole(C)
    <3> TAKE C \in Cycles(cps)
    <3>1. PICK l \in C : l \in Written(cps)
      BY <2>2, CycleFacts
    <3>2. PICK k \in DOMAIN cps : cps[k].dst = l
      BY <3>1 DEF Written
    <3> QED BY <2>1, <3>2 DEF Whole
  <2>4. Broken = Cycles(cps)
    BY <2>3 DEF Broken
  <2>5. Cardinality(pending) = 0 /\ Len(cps) \in Nat /\ Cardinality(Broken) \in Nat
    BY <2>1, <2>2, <2>4, CycleFacts, FinitePending, FS_EmptySet, FS_CardinalityType
  <2> QED BY <1>3, <2>4, <2>5 DEF Paid
<1> QED
  BY <1>1, <1>2, <1>3, PTL DEF Spec
=============================================================================
