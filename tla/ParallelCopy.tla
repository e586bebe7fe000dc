---------------------------- MODULE ParallelCopy ----------------------------
(***************************************************************************)
(* Sequentialising the copies of one edge (src/ssa/regalloc.go,            *)
(* ParallelCopy and isPendingSource).                                      *)
(*                                                                         *)
(* A sweep goes over the copies in order and emits each one whose          *)
(* destination no other unemitted copy still reads.  A sweep that emits    *)
(* nothing has only cycles before it: it saves the source of the first     *)
(* copy left in the temporary of its class and sweeps again.               *)
(*                                                                         *)
(* mem is what the machine holds after the copies emitted so far, each     *)
(* value named by the location that held it at the start.                  *)
(***************************************************************************)
EXTENDS Integers, Sequences, FiniteSets

CONSTANTS Locs,     \* the locations values live in
          Classes,  \* register classes
          Temp,     \* the temporary of each class
          NoLoc,    \* Loc{}: no destination, or a source that is recomputed
          Remat     \* what a recomputed source yields

Temps == {Temp[c] : c \in Classes}
Cells == Locs \cup Temps

\* The temporaries are scratch registers, outside the allocatable set, so that
\* no value lives there.
ASSUME TempAssumption == DOMAIN Temp = Classes /\ Temps \cap Locs = {}
ASSUME NoLocAssumption == NoLoc \notin Cells /\ Remat \notin Cells

Copy == [dst : Locs \cup {NoLoc}, src : Locs \cup {NoLoc}, class : Classes]

VARIABLES cps,      \* the parameter, which is not modified
          status,   \* "check", "sweep", "done", "refused" or "failed"
          src,      \* work[i].Src
          pending,  \* the copies that are not done
          i,        \* where the sweep is
          progress, \* whether this sweep emitted a copy
          mem,      \* the effect of the copies emitted so far
          moves     \* the number of copies emitted so far

vars == <<cps, status, src, pending, i, progress, mem, moves>>

Value(l) == IF l = NoLoc THEN Remat ELSE mem[l]

\* The two refusals: a copy to nowhere, two copies to one place.
WellFormed == /\ \A k \in DOMAIN cps : cps[k].dst # NoLoc
              /\ \A j, k \in DOMAIN cps : cps[j].dst = cps[k].dst => j = k

\* Mutants: the copy itself is asked too; only the copies after it are asked;
\* the copies that are done are asked too.
IsPendingSource_Self(k)  == \E j \in pending : src[j] = cps[k].dst
IsPendingSource_Later(k) == \E j \in pending : j > k /\ src[j] = cps[k].dst
IsPendingSource_Done(k)  == \E j \in DOMAIN cps \ {k} : src[j] = cps[k].dst

\* An unemitted copy other than k reads the destination of k.
IsPendingSource(k) == \E j \in pending \ {k} : src[j] = cps[k].dst

InitCopy == /\ status = "check"
            /\ src = [k \in DOMAIN cps |-> cps[k].src]
            /\ pending = DOMAIN cps
            /\ i = 1
            /\ progress = FALSE
            /\ mem = [l \in Cells |-> l]
            /\ moves = 0

Init == cps \in Seq(Copy) /\ InitCopy

Refuse == /\ status = "check"
          /\ ~WellFormed
          /\ status' = "refused"
          /\ UNCHANGED <<cps, src, pending, i, progress, mem, moves>>

Accept == /\ status = "check"
          /\ WellFormed
          /\ status' = "sweep"
          /\ UNCHANGED <<cps, src, pending, i, progress, mem, moves>>

Skip == /\ status = "sweep"
        /\ i \in DOMAIN cps
        /\ i \notin pending \/ IsPendingSource(i)
        /\ i' = i + 1
        /\ UNCHANGED <<cps, status, src, pending, progress, mem, moves>>

Emit == /\ status = "sweep"
        /\ i \in DOMAIN cps
        /\ i \in pending /\ ~IsPendingSource(i)
        /\ mem' = [mem EXCEPT ![cps[i].dst] = Value(src[i])]
        /\ moves' = moves + 1
        /\ pending' = pending \ {i}
        /\ progress' = TRUE
        /\ i' = i + 1
        /\ UNCHANGED <<cps, status, src>>

\* left > 0 and the sweep emitted something.
SweepAgain == /\ status = "sweep"
              /\ i \notin DOMAIN cps
              /\ pending # {} /\ progress
              /\ i' = 1
              /\ progress' = FALSE
              /\ UNCHANGED <<cps, status, src, pending, mem, moves>>

\* The temporary of the class of the value copy k moves.
TempOf(k) == Temp[cps[k].class]

\* Mutants: every copy left is pointed at the temporary; the readers are
\* pointed at the destination of the copy the cycle is broken at.
Redirect_All(k) == [j \in DOMAIN cps |-> IF j \in pending THEN TempOf(k) ELSE src[j]]
Redirect_Dst(k) == [j \in DOMAIN cps |->
                      IF j \in pending /\ src[j] = src[k] THEN cps[k].dst ELSE src[j]]

\* Every unemitted copy that reads what copy k reads now reads the temporary.
Redirect(k) == [j \in DOMAIN cps |->
                  IF j \in pending /\ src[j] = src[k] THEN TempOf(k) ELSE src[j]]

\* Copy k's source is saved.  A recomputed source reads nothing and cannot be
\* in a cycle: the code reports the copy if it is.
Save(k) ==
  IF src[k] = NoLoc
  THEN status' = "failed" /\ UNCHANGED <<src, i, mem, moves>>
  ELSE /\ mem' = [mem EXCEPT ![TempOf(k)] = Value(src[k])]
       /\ moves' = moves + 1
       /\ src' = Redirect(k)
       /\ i' = 1
       /\ UNCHANGED status

\* Only cycles are left: break one at the first copy left.
BreakCycle == /\ status = "sweep"
              /\ i \notin DOMAIN cps
              /\ pending # {} /\ ~progress
              /\ \E k \in pending : (\A j \in pending : k <= j) /\ Save(k)
              /\ UNCHANGED <<cps, pending, progress>>

Finish == /\ status = "sweep"
          /\ i \notin DOMAIN cps
          /\ pending = {}
          /\ status' = "done"
          /\ UNCHANGED <<cps, src, pending, i, progress, mem, moves>>

Next == Refuse \/ Accept \/ Skip \/ Emit \/ SweepAgain \/ BreakCycle \/ Finish

Spec == Init /\ [][Next]_vars /\ WF_vars(Next)

-----------------------------------------------------------------------------
(* Properties *)

\* The type of the state.  A source that changed is a temporary.
TypeOK == /\ cps \in Seq(Copy)
          /\ status \in {"check", "sweep", "done", "refused", "failed"}
          /\ DOMAIN src = DOMAIN cps
          /\ \A k \in DOMAIN cps : src[k] \in {cps[k].src} \cup Temps
          /\ pending \subseteq DOMAIN cps
          /\ i \in 1 .. Len(cps) + 1
          /\ progress \in BOOLEAN
          /\ mem \in [Cells -> Cells \cup {Remat}]
          /\ moves \in Nat

\* What copy k is to deliver: what its source held before any copy.
Wanted(k) == IF cps[k].src = NoLoc THEN Remat ELSE cps[k].src

\* An emitted copy delivered what its source held at the start, an unemitted
\* one still finds it, and a location no copy writes keeps what it holds: no
\* copy and no temporary, of any class, is overwritten while it is needed.
NothingLost ==
  status \in {"sweep", "done"} =>
    /\ \A k \in pending : Value(src[k]) = Wanted(k)
    /\ \A k \in DOMAIN cps \ pending : mem[cps[k].dst] = Wanted(k)
    /\ \A l \in Locs : (\A k \in DOMAIN cps : cps[k].dst # l) => mem[l] = l

\* The error for a recomputed source in a cycle is never reported.
NeverFails == status # "failed"

\* What the locations of S are read from by the copies c, and what the sources
\* lead to from l.
Step(c, S)  == {c[k].src : k \in {m \in DOMAIN c : c[m].dst \in S}}
Reach(c, l) == LET f[n \in 0 .. Len(c)] == IF n = 0 THEN Step(c, {l})
                                           ELSE f[n - 1] \cup Step(c, f[n - 1])
               IN  f[Len(c)]

\* The locations in a cycle of two or more copies, and the cycles.
Cyclic(c)     == {l \in Locs : l \in Reach(c, l) /\ Step(c, {l}) # {l}}
CycleOf(c, l) == {m \in Cyclic(c) : m \in Reach(c, l)}
Cycles(c)     == {CycleOf(c, l) : l \in Cyclic(c)}

\* "A cycle of length n becomes n+1 moves": no copy is emitted twice and each
\* cycle of two or more costs exactly one move more.
Economical == status = "done" => moves = Len(cps) + Cardinality(Cycles(cps))

\* The parallel copy is one instantaneous assignment.
Simultaneous == INSTANCE AtomicCopy WITH
  cells   <- [l \in Locs |-> IF status = "done" THEN mem[l] ELSE l],
  outcome <- CASE status = "done" -> "moved"
               [] status = "refused" -> "refused"
               [] OTHER -> "pending"

AtomicSpec == Simultaneous!Spec
=============================================================================
