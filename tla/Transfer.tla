------------------------------ MODULE Transfer ------------------------------
(***************************************************************************)
(* The moves of one instant as the code generator makes them               *)
(* (src/ssagen/ssagen.go, transfer, permute and permuteFile): first out of *)
(* registers into the frame, then the registers among themselves, one file *)
(* after the other, then into registers from the frame or recomputed.      *)
(*                                                                         *)
(* mem is what the machine holds after the moves made so far, each value   *)
(* named by the location that held it at the start.                        *)
(***************************************************************************)
EXTENDS Integers, Sequences, FiniteSets

CONSTANTS Regs,      \* the registers a move may name
          Slots,     \* the slots of the frame
          Float,     \* the registers of the floating-point file
          IntScratch, FloatScratch,   \* moveScratch and fmoveScratch
          NoLoc,     \* a source that is recomputed
          Remat      \* what a recomputed source yields

Locs  == Regs \cup Slots
Cells == Locs \cup {IntScratch, FloatScratch}

ASSUME LocsAssumption == /\ Regs \cap Slots = {}
                         /\ Float \subseteq Regs
                         /\ IntScratch \notin Locs /\ FloatScratch \notin Locs
                         /\ IntScratch # FloatScratch
                         /\ NoLoc \notin Cells /\ Remat \notin Cells

VARIABLES x,         \* the moves, a sequence of records with dst and src
          stage,     \* "out", "int", "float", "in", "done" or "failed"
          src,       \* what each move reads, once cycles are broken
          pending,   \* the moves of the file that are left
          k,         \* where the loop is
          progress,  \* the sweep made a move
          mem        \* the effect of the moves made so far

vars == <<x, stage, src, pending, k, progress, mem>>

Move == [dst : Locs, src : Locs \cup {NoLoc}]

\* The moves of one file that move something.
OfFile(file) == {i \in DOMAIN x : /\ x[i].dst \in Regs /\ x[i].src \in Regs
                                  /\ x[i].dst \in Float <=> file = "float"
                                  /\ x[i].dst # x[i].src}

\* What the callers hand over: one move to a place, each within a file, and all
\* of them out of registers (the arguments at the entry, the results of a call)
\* or all of them into registers (the arguments of a call, a return).
WellFormed(s) ==
  /\ \A i, j \in DOMAIN s : s[i].dst = s[j].dst => i = j
  /\ \A i \in DOMAIN s : s[i].dst \in Regs /\ s[i].src \in Regs => (s[i].dst \in Float <=> s[i].src \in Float)
  /\ (\A i \in DOMAIN s : s[i].src \in Regs) \/ (\A i \in DOMAIN s : s[i].dst \in Regs)

InitMoves == /\ stage = "out"
             /\ src = [i \in DOMAIN x |-> x[i].src]
             /\ pending = {}
             /\ k = 1
             /\ progress = FALSE
             /\ mem = [l \in Cells |-> l]

Init == x \in Seq(Move) /\ WellFormed(x) /\ InitMoves

Value(l) == IF l = NoLoc THEN Remat ELSE mem[l]

-----------------------------------------------------------------------------
(* Out of registers, and into registers *)

\* One turn of a loop over the moves, which makes the moves of the stage.
Turn(mine) == /\ k \in DOMAIN x
              /\ mem' = IF mine THEN [mem EXCEPT ![x[k].dst] = Value(x[k].src)] ELSE mem
              /\ k' = k + 1
              /\ UNCHANGED <<x, stage, src, pending, progress>>

Out == stage = "out" /\ Turn(x[k].src \in Regs /\ x[k].dst \notin Regs)
In  == stage = "in" /\ Turn(x[k].src \notin Regs)

OutDone == /\ stage = "out"
           /\ k \notin DOMAIN x
           /\ stage' = "int"
           /\ pending' = OfFile("int")
           /\ k' = 1
           /\ progress' = FALSE
           /\ UNCHANGED <<x, src, mem>>

InDone == /\ stage = "in"
          /\ k \notin DOMAIN x
          /\ stage' = "done"
          /\ UNCHANGED <<x, src, pending, k, progress, mem>>

-----------------------------------------------------------------------------
(* permuteFile *)

Permuting == stage \in {"int", "float"}
\* Mutant: one scratch register serves both files.
Scratch_Int == IntScratch

Scratch == IF stage = "int" THEN IntScratch ELSE FloatScratch

\* Mutants: only the moves after it in the list block a move; the moves that
\* were made block it as well.
Blocked_Later(i) == \E j \in pending : j > i /\ src[j] = x[i].dst
Blocked_Made(i)  == \E j \in OfFile(stage) \ {i} : src[j] = x[i].dst

Blocked(i) == \E j \in pending \ {i} : src[j] = x[i].dst

Skip == /\ Permuting /\ k \in DOMAIN x
        /\ k \notin pending \/ Blocked(k)
        /\ k' = k + 1
        /\ UNCHANGED <<x, stage, src, pending, progress, mem>>

Make == /\ Permuting /\ k \in DOMAIN x
        /\ k \in pending /\ ~Blocked(k)
        /\ mem' = [mem EXCEPT ![x[k].dst] = mem[src[k]]]
        /\ pending' = pending \ {k}
        /\ progress' = TRUE
        /\ k' = k + 1
        /\ UNCHANGED <<x, stage, src>>

SweepAgain == /\ Permuting /\ k \notin DOMAIN x
              /\ pending # {} /\ progress
              /\ k' = 1 /\ progress' = FALSE
              /\ UNCHANGED <<x, stage, src, pending, mem>>

\* Mutant: every move that is left reads the scratch register.
Redirect_All(i, scratch) == [j \in DOMAIN src |-> IF j \in pending THEN scratch ELSE src[j]]

Redirect(i, scratch) == [j \in DOMAIN src |-> IF j \in pending /\ src[j] = src[i] THEN scratch ELSE src[j]]

\* The first move left that does not read the scratch register already gives
\* its source up to it.  When every move left reads it no order exists, which
\* the code reports.
FreeOne(i) ==
  /\ \A j \in pending : j < i => src[j] = Scratch
  /\ mem' = [mem EXCEPT ![Scratch] = mem[src[i]]]
  /\ src' = Redirect(i, Scratch)
  /\ k' = 1
  /\ UNCHANGED stage

BreakCycle ==
  /\ Permuting /\ k \notin DOMAIN x
  /\ pending # {} /\ ~progress
  /\ IF \A i \in pending : src[i] = Scratch
     THEN stage' = "failed" /\ UNCHANGED <<src, k, mem>>
     ELSE \E i \in pending : src[i] # Scratch /\ FreeOne(i)
  /\ UNCHANGED <<x, pending, progress>>

FileDone == /\ Permuting /\ k \notin DOMAIN x
            /\ pending = {}
            /\ stage' = IF stage = "int" THEN "float" ELSE "in"
            /\ pending' = IF stage = "int" THEN OfFile("float") ELSE {}
            /\ k' = 1
            /\ progress' = FALSE
            /\ UNCHANGED <<x, src, mem>>

-----------------------------------------------------------------------------
Next == Out \/ OutDone \/ Skip \/ Make \/ SweepAgain \/ BreakCycle \/ FileDone \/ In \/ InDone

Spec == Init /\ [][Next]_vars /\ WF_vars(Next)

-----------------------------------------------------------------------------
(* Properties *)

\* The type of the state.  A move that was redirected reads the scratch register
\* of its own file.
TypeOK == /\ x \in Seq(Move)
          /\ stage \in {"out", "int", "float", "in", "done", "failed"}
          /\ DOMAIN src = DOMAIN x
          /\ \A i \in DOMAIN x : \/ src[i] = x[i].src
                                 \/ src[i] = FloatScratch /\ i \in OfFile("float")
                                 \/ src[i] = IntScratch /\ i \in OfFile("int")
          /\ pending \subseteq DOMAIN x
          /\ k \in 1 .. Len(x) + 1
          /\ progress \in BOOLEAN
          /\ mem \in [Cells -> Cells \cup {Remat}]

\* The moves that are still to be made.
OutMoves == {i \in DOMAIN x : x[i].src \in Regs /\ x[i].dst \notin Regs}
InMoves  == {i \in DOMAIN x : x[i].src \notin Regs}
Left ==
  {i \in DOMAIN x :
     \/ i \in OutMoves /\ stage = "out" /\ i >= k
     \/ i \in OfFile("int") /\ stage = "out"
     \/ i \in OfFile("int") /\ stage = "int" /\ i \in pending
     \/ i \in OfFile("float") /\ stage \in {"out", "int"}
     \/ i \in OfFile("float") /\ stage = "float" /\ i \in pending
     \/ i \in InMoves /\ stage \in {"out", "int", "float"}
     \/ i \in InMoves /\ stage = "in" /\ i >= k}

\* What move i is to deliver: what its source held before any move.
Wanted(i) == IF x[i].src = NoLoc THEN Remat ELSE x[i].src

\* "A move that writes a register another move still has to read destroys it":
\* none does.  A move that is left still finds what it is to deliver, a move
\* that was made delivered it, and nothing else is written but the scratch
\* registers.
NothingLost ==
  stage # "failed" =>
    /\ \A i \in Left : Value(src[i]) = Wanted(i)
    /\ \A i \in DOMAIN x \ Left : mem[x[i].dst] = Wanted(i)
    /\ \A l \in Locs : (\A i \in DOMAIN x : x[i].dst # l) => mem[l] = l

\* "A parallel move of n registers has no order" is never reported.
NeverFails == stage # "failed"

\* The moves are one instantaneous assignment.
Simultaneous == INSTANCE AtomicCopy WITH
  cps     <- x,
  cells   <- [l \in Locs |-> IF stage = "done" THEN mem[l] ELSE l],
  outcome <- IF stage = "done" THEN "moved" ELSE "pending"

AtomicSpec == Simultaneous!Spec
=============================================================================
