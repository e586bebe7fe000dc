--------------------------- MODULE Transfer_proofs ---------------------------
(***************************************************************************)
(* Proofs about the moves of one instant: for any number of moves, the     *)
(* three stages and the permutations of the two files have the effect of   *)
(* making all the moves at once.                                           *)
(*                                                                         *)
(* Between the stages the argument is about who writes what: a move out of *)
(* registers writes a slot, a permutation the registers and the scratch    *)
(* register of its file, and the callers' moves never both write and read  *)
(* slots.  Within a permutation it is the one of ParallelCopy_proofs: when *)
(* every move left is blocked, the destinations left are exactly the       *)
(* sources left, so that nothing left reads the scratch register.          *)
(***************************************************************************)
EXTENDS Transfer, FiniteSetTheorems, TLAPS

\* What is pending belongs to the file of the stage, and a file that is not
\* permuted yet reads what the callers said.
Phase == /\ ~Permuting => pending = {}
         /\ Permuting => pending \subseteq OfFile(stage)
         /\ stage = "out" => \A i \in OfFile("int") : src[i] = x[i].src
         /\ stage \in {"out", "int"} => \A i \in OfFile("float") : src[i] = x[i].src

\* A sweep that has made nothing has met only moves that are blocked.
Swept == Permuting /\ ~progress => \A i \in pending : i < k => Blocked(i)

IInv == /\ TypeOK
        /\ WellFormed(x)
        /\ Phase
        /\ Swept
        /\ NothingLost
        /\ NeverFails

-----------------------------------------------------------------------------
(* The moves *)

\* The moves, with their types, and where each file reads and writes.
LEMMA MoveFacts ==
  ASSUME TypeOK
  PROVE  /\ DOMAIN x = 1 .. Len(x) /\ Len(x) \in Nat
         /\ DOMAIN src = DOMAIN x
         /\ pending \subseteq DOMAIN x
         /\ \A i \in DOMAIN x : /\ x[i].dst \in Locs
                                /\ x[i].src \in Locs \cup {NoLoc}
                                /\ src[i] \in Cells \cup {NoLoc}
                                /\ x[i].src \notin Regs => src[i] = x[i].src
                                /\ i \notin OfFile("int") \cup OfFile("float") => src[i] = x[i].src
<1>1. DOMAIN x = 1 .. Len(x) /\ Len(x) \in Nat
  BY DEF TypeOK
<1>2. \A i \in DOMAIN x : x[i] \in Move
  BY <1>1 DEF TypeOK
<1>3. \A i \in DOMAIN x : x[i].dst \in Locs /\ x[i].src \in Locs \cup {NoLoc}
  BY <1>2 DEF Move
<1>4. QED BY <1>1, <1>3 DEF TypeOK, Cells, OfFile

\* A register and a slot are different places, and neither is a scratch register.
LEMMA PlaceFacts ==
  /\ \A r \in Regs, s \in Slots : r # s
  /\ \A l \in Locs : l # IntScratch /\ l # FloatScratch /\ l # NoLoc
  /\ \A l \in Locs : l \in Regs <=> l \notin Slots
  /\ Scratch \in Cells /\ Scratch \notin Locs /\ Scratch # NoLoc
BY LocsAssumption DEF Locs, Cells, Scratch

\* When nothing can be made, every source left is the destination of a move
\* left, so none is a scratch register.
LEMMA OnlyCycles ==
  ASSUME TypeOK, WellFormed(x), \A i \in pending : Blocked(i)
  PROVE  \A i \in pending : \E j \in pending : src[i] = x[j].dst
<1> DEFINE reader == [i \in pending |-> CHOOSE j \in pending : src[j] = x[i].dst]
<1>1. \A i \in pending : reader[i] \in pending /\ src[reader[i]] = x[i].dst
  BY DEF Blocked
<1>2. reader \in [pending -> pending]
  BY <1>1
<1> HIDE DEF reader
<1>3. \A i, j \in pending : reader[i] = reader[j] => i = j
  BY <1>1, MoveFacts DEF WellFormed
<1>4. reader \in Injection(pending, pending)
  BY <1>2, <1>3 DEF Injection, IsInjective
<1>5. IsFiniteSet(pending)
  <2>1. Len(x) \in Int /\ pending \in SUBSET (1 .. Len(x))
    BY MoveFacts
  <2>2. IsFiniteSet(1 .. Len(x))
    BY <2>1, FS_Interval
  <2>3. QED BY <2>1, <2>2, FS_Subset
<1>6. reader \in Surjection(pending, pending)
  BY <1>4, <1>5, FS_Injection
<1>7. \A i \in pending : \E j \in pending : reader[j] = i
  BY <1>6 DEF Surjection
<1>8. QED BY <1>1, <1>7

\* Making one of the moves left, when no other move left reads its destination,
\* loses nothing.
LEMMA MakingLosesNothing ==
  ASSUME IInv, NEW i \in Left, x' = x, src' = src, stage' \in {"out", "int", "float", "in"},
         Left' = Left \ {i}, \A j \in Left \ {i} : src[j] # x[i].dst,
         mem' = [mem EXCEPT ![x[i].dst] = Value(src[i])], Left \subseteq DOMAIN x
  PROVE  NothingLost' /\ mem' \in [Cells -> Cells \cup {Remat}]
<1>1. /\ TypeOK /\ WellFormed(x) /\ NothingLost /\ stage # "failed" /\ i \in DOMAIN x
      /\ mem \in [Cells -> Cells \cup {Remat}]
  BY DEF IInv, NeverFails, TypeOK
<1>2. x[i].dst \in Cells /\ x[i].dst \in Locs
  BY <1>1, MoveFacts DEF Cells
<1>3. Value(src[i]) \in Cells \cup {Remat}
  BY <1>1, MoveFacts DEF Value
<1>4. mem'[x[i].dst] = Value(src[i]) /\ \A l \in Cells : l # x[i].dst => mem'[l] = mem[l]
  BY <1>1, <1>2
<1>5. mem' \in [Cells -> Cells \cup {Remat}]
  BY <1>1, <1>2, <1>3
<1>6. ASSUME NEW j \in Left' PROVE Value(src[j])' = Wanted(j)'
  <2>1. j \in Left /\ j # i /\ j \in DOMAIN x /\ src[j] # x[i].dst
    BY <1>6
  <2>2. Value(src[j]) = Wanted(j)
    BY <1>1, <2>1 DEF NothingLost
  <2>3. Value(src[j])' = Value(src[j])
    BY <1>1, <1>4, <2>1, MoveFacts DEF Value
  <2>4. QED BY <2>2, <2>3 DEF Wanted
<1>7. ASSUME NEW j \in DOMAIN x, j \notin Left' PROVE mem'[x[j].dst] = Wanted(j)'
  <2>1. CASE j = i
    BY <1>1, <1>4, <2>1 DEF NothingLost, Wanted
  <2>2. CASE j # i
    <3>1. j \notin Left /\ x[j].dst # x[i].dst /\ x[j].dst \in Cells
      BY <1>1, <1>7, <2>2, MoveFacts DEF WellFormed, Cells
    <3>2. mem[x[j].dst] = Wanted(j)
      BY <1>1, <3>1 DEF NothingLost
    <3>3. QED BY <1>4, <3>1, <3>2 DEF Wanted
  <2>3. QED BY <2>1, <2>2
<1>8. ASSUME NEW l \in Locs, \A j \in DOMAIN x : x[j].dst # l PROVE mem'[l] = l
  BY <1>1, <1>4, <1>8 DEF NothingLost, Cells
<1>9. QED BY <1>5, <1>6, <1>7, <1>8 DEF NothingLost

\* A step that neither moves nor forgets a move loses nothing.
LEMMA IdlingLosesNothing ==
  ASSUME NothingLost, stage # "failed", x' = x, src' = src, mem' = mem, Left' = Left
  PROVE  NothingLost'
BY DEF NothingLost, Value, Wanted

-----------------------------------------------------------------------------
(* The inductive invariant *)

\* Before the first move everything is where it was.
LEMMA InitIInv == Init => IInv
<1> SUFFICES ASSUME Init PROVE IInv
  OBVIOUS
<1> USE DEF Init, InitMoves
<1>1. Len(x) \in Nat /\ DOMAIN x = 1 .. Len(x)
  OBVIOUS
<1>2. TypeOK
  <2>1. k \in 1 .. Len(x) + 1 /\ mem \in [Cells -> Cells \cup {Remat}]
    BY <1>1
  <2>2. QED BY <2>1 DEF TypeOK
<1>3. \A l \in Locs : mem[l] = l
  BY DEF Cells
<1>4. \A i \in DOMAIN x : /\ x[i].dst \in Locs /\ x[i].src \in Locs \cup {NoLoc}
                          /\ src[i] = x[i].src
  BY <1>2, MoveFacts
<1>5. \A i \in DOMAIN x : Value(src[i]) = Wanted(i)
  BY <1>3, <1>4, PlaceFacts DEF Value, Wanted
<1>6. Left \subseteq DOMAIN x
  BY DEF Left, OutMoves, InMoves, OfFile
<1>7. \A i \in DOMAIN x \ Left : mem[x[i].dst] = Wanted(i)
  <2>1. SUFFICES ASSUME NEW i \in DOMAIN x, i \notin Left PROVE x[i].dst = x[i].src
    BY <1>3, <1>4, PlaceFacts DEF Wanted
  <2>2. x[i].src \in Regs /\ x[i].dst \in Regs
    BY <1>1, <2>1, <1>4 DEF Left, OutMoves, InMoves
  <2>3. QED BY <2>1, <2>2 DEF Left, OfFile
<1>8. Phase /\ Swept /\ NeverFails
  BY DEF Phase, Swept, NeverFails, Permuting, OfFile
<1>9. QED BY <1>2, <1>3, <1>5, <1>6, <1>7, <1>8 DEF IInv, NothingLost

\* A turn of the loop that moves registers into the frame.
LEMMA OutIInv == IInv /\ Out => IInv'
<1> SUFFICES ASSUME IInv, Out PROVE IInv'
  OBVIOUS
<1> DEFINE mine == x[k].src \in Regs /\ x[k].dst \notin Regs
<1>1. /\ x' = x /\ stage' = stage /\ src' = src /\ pending' = pending /\ progress' = progress
      /\ stage = "out" /\ k \in DOMAIN x /\ k' = k + 1
      /\ mem' = IF mine THEN [mem EXCEPT ![x[k].dst] = Value(x[k].src)] ELSE mem
  BY DEF Out, Turn
<1>2. TypeOK /\ WellFormed(x) /\ Phase /\ NothingLost
  BY DEF IInv
<1>3. Left \subseteq DOMAIN x
  BY <1>1 DEF Left, OutMoves, InMoves, OfFile
<1>4. Phase' /\ Swept' /\ NeverFails'
  BY <1>1, <1>2 DEF Phase, Swept, NeverFails, Permuting, OfFile
<1>5. k' \in 1 .. Len(x) + 1
  BY <1>1, <1>2, MoveFacts
<1>6. CASE mine
  <2>1. k \in Left /\ src[k] = x[k].src
    BY <1>1, <1>2, <1>6, MoveFacts DEF Left, OutMoves, OfFile
  <2>2. Left' = Left \ {k}
    BY <1>1, <1>2, <1>6, MoveFacts DEF Left, OutMoves, InMoves, OfFile
  <2>3. ASSUME NEW j \in Left \ {k} PROVE src[j] # x[k].dst
    <3>1. j \in DOMAIN x /\ x[j].src \in Regs /\ x[k].dst \in Slots /\ x[k].dst \in Locs
      BY <1>1, <1>2, <1>3, <1>6, MoveFacts, PlaceFacts DEF WellFormed
    <3>2. src[j] = x[j].src
      BY <1>1, <1>2, <3>1, MoveFacts DEF Phase
    <3>3. QED BY <3>1, <3>2, PlaceFacts
  <2>4. NothingLost' /\ mem' \in [Cells -> Cells \cup {Remat}]
    BY <1>1, <1>3, <1>6, <2>1, <2>2, <2>3, MakingLosesNothing
  <2>5. TypeOK'
    BY <1>1, <1>2, <1>5, <2>4 DEF TypeOK, OfFile
  <2>6. QED BY <1>1, <1>2, <1>4, <2>4, <2>5 DEF IInv, WellFormed
<1>7. CASE ~mine
  <2>1. Left' = Left
    BY <1>1, <1>2, <1>7, MoveFacts DEF Left, OutMoves, InMoves, OfFile
  <2>2. NothingLost'
    BY <1>1, <1>2, <1>7, <2>1, IdlingLosesNothing
  <2>3. TypeOK'
    BY <1>1, <1>2, <1>5, <1>7 DEF TypeOK, OfFile
  <2>4. QED BY <1>1, <1>2, <1>4, <2>2, <2>3 DEF IInv, WellFormed
<1>8. QED BY <1>6, <1>7

\* A turn of the loop that moves into registers what is not in one.
LEMMA InIInv == IInv /\ In => IInv'
<1> SUFFICES ASSUME IInv, In PROVE IInv'
  OBVIOUS
<1> DEFINE mine == x[k].src \notin Regs
<1>1. /\ x' = x /\ stage' = stage /\ src' = src /\ pending' = pending /\ progress' = progress
      /\ stage = "in" /\ k \in DOMAIN x /\ k' = k + 1
      /\ mem' = IF mine THEN [mem EXCEPT ![x[k].dst] = Value(x[k].src)] ELSE mem
  BY DEF In, Turn
<1>2. TypeOK /\ WellFormed(x) /\ Phase /\ NothingLost
  BY DEF IInv
<1>3. Left \subseteq DOMAIN x
  BY <1>1 DEF Left, InMoves
<1>4. Phase' /\ Swept' /\ NeverFails'
  BY <1>1, <1>2 DEF Phase, Swept, NeverFails, Permuting, OfFile
<1>5. k' \in 1 .. Len(x) + 1
  BY <1>1, <1>2, MoveFacts
<1>6. CASE mine
  <2>1. k \in Left /\ src[k] = x[k].src
    BY <1>1, <1>2, <1>6, MoveFacts DEF Left, InMoves
  <2>2. Left' = Left \ {k}
    BY <1>1, <1>2, <1>6, MoveFacts DEF Left, InMoves
  <2>3. ASSUME NEW j \in Left \ {k} PROVE src[j] # x[k].dst
    <3>1. j \in DOMAIN x /\ x[j].src \notin Regs /\ x[k].dst \in Regs
      BY <1>1, <1>2, <1>6, <2>3 DEF Left, InMoves, WellFormed
    <3>2. src[j] = x[j].src
      BY <1>2, <3>1, MoveFacts
    <3>3. QED BY <3>1, <3>2
  <2>4. NothingLost' /\ mem' \in [Cells -> Cells \cup {Remat}]
    BY <1>1, <1>3, <1>6, <2>1, <2>2, <2>3, MakingLosesNothing
  <2>5. TypeOK'
    BY <1>1, <1>2, <1>5, <2>4 DEF TypeOK, OfFile
  <2>6. QED BY <1>1, <1>2, <1>4, <2>4, <2>5 DEF IInv, WellFormed
<1>7. CASE ~mine
  <2>1. Left' = Left
    BY <1>1, <1>2, <1>7, MoveFacts DEF Left, InMoves
  <2>2. NothingLost'
    BY <1>1, <1>2, <1>7, <2>1, IdlingLosesNothing
  <2>3. TypeOK'
    BY <1>1, <1>2, <1>5, <1>7 DEF TypeOK, OfFile
  <2>4. QED BY <1>1, <1>2, <1>4, <2>2, <2>3 DEF IInv, WellFormed
<1>8. QED BY <1>6, <1>7

\* One stage ends and the next begins: what is left stays the same.
LEMMA StageIInv == IInv /\ (OutDone \/ FileDone \/ InDone) => IInv'
<1> SUFFICES ASSUME IInv, OutDone \/ FileDone \/ InDone PROVE IInv'
  OBVIOUS
<1>1. TypeOK /\ WellFormed(x) /\ Phase /\ NothingLost /\ stage # "failed"
  BY DEF IInv, NeverFails
<1>2. /\ x' = x /\ src' = src /\ mem' = mem /\ k' \in {1, k}
      /\ k \notin DOMAIN x /\ progress' \in {FALSE, progress}
      /\ \/ stage = "out" /\ stage' = "int" /\ pending' = OfFile("int") /\ k' = 1
         \/ stage = "int" /\ stage' = "float" /\ pending = {} /\ pending' = OfFile("float") /\ k' = 1
         \/ stage = "float" /\ stage' = "in" /\ pending = {} /\ pending' = {} /\ k' = 1
         \/ stage = "in" /\ stage' = "done" /\ pending' = pending
  BY DEF OutDone, FileDone, InDone, Permuting
<1>3. \A i \in DOMAIN x : i < k /\ ~(i >= k) /\ i >= 1
  BY <1>1, <1>2, MoveFacts DEF TypeOK
<1>4. Left' = Left
  BY <1>2, <1>3 DEF Left, OutMoves, InMoves, OfFile
<1>5. NothingLost'
  BY <1>1, <1>2, <1>4, IdlingLosesNothing
<1>6. TypeOK'
  <2>1. k' \in 1 .. Len(x) + 1
    BY <1>1, <1>2, MoveFacts DEF TypeOK
  <2>2. pending' \subseteq DOMAIN x
    BY <1>1, <1>2, MoveFacts DEF OfFile
  <2>3. QED BY <1>1, <1>2, <2>1, <2>2 DEF TypeOK, OfFile
<1>7. Phase'
  BY <1>1, <1>2 DEF Phase, Permuting, OfFile
<1>8. Swept'
  <2>1. pending' \subseteq DOMAIN x
    BY <1>6, <1>2 DEF TypeOK
  <2>2. k' = 1 => \A i \in pending' : ~(i < k')
    BY <1>1, <2>1, MoveFacts
  <2>3. QED BY <1>2, <2>2 DEF Swept, Permuting
<1>9. QED BY <1>1, <1>2, <1>5, <1>6, <1>7, <1>8 DEF IInv, NeverFails, WellFormed

\* A move that is made or blocked is passed over, and a sweep that made
\* something is followed by another.
LEMMA SweepIInv == IInv /\ (Skip \/ SweepAgain) => IInv'
<1> SUFFICES ASSUME IInv, Skip \/ SweepAgain PROVE IInv'
  OBVIOUS
<1>1. /\ x' = x /\ src' = src /\ mem' = mem /\ stage' = stage /\ pending' = pending
      /\ stage \in {"int", "float"}
      /\ \/ k \in DOMAIN x /\ (k \in pending => Blocked(k)) /\ k' = k + 1 /\ progress' = progress
         \/ k' = 1 /\ progress' = FALSE
  BY DEF Skip, SweepAgain, Permuting
<1>2. TypeOK /\ WellFormed(x) /\ Phase /\ NothingLost /\ stage # "failed" /\ Swept
  BY DEF IInv, NeverFails
<1>3. k' \in 1 .. Len(x) + 1
  BY <1>1, <1>2, MoveFacts
<1>4. TypeOK'
  BY <1>1, <1>2, <1>3 DEF TypeOK, OfFile
<1>5. Left' = Left
  BY <1>1 DEF Left, OutMoves, InMoves, OfFile
<1>6. NothingLost'
  BY <1>1, <1>2, <1>5, IdlingLosesNothing
<1>7. Phase'
  BY <1>1, <1>2 DEF Phase, Permuting, OfFile
<1>8. Swept'
  <2>1. \A i \in pending : i \in 1 .. Len(x) /\ k \in 1 .. Len(x) + 1
    BY <1>2, MoveFacts DEF TypeOK
  <2>2. CASE k' = k + 1 /\ progress' = progress /\ (k \in pending => Blocked(k))
    BY <1>1, <1>2, <2>1, <2>2 DEF Swept, Permuting, Blocked
  <2>3. CASE k' = 1
    BY <1>1, <1>2, <2>1, <2>3, MoveFacts DEF Swept
  <2>4. QED BY <1>1, <2>2, <2>3
<1>9. QED BY <1>1, <1>2, <1>4, <1>6, <1>7, <1>8 DEF IInv, NeverFails, WellFormed

\* A move nobody blocks is made.
LEMMA MakeIInv == IInv /\ Make => IInv'
<1> SUFFICES ASSUME IInv, Make PROVE IInv'
  OBVIOUS
<1>1. /\ x' = x /\ src' = src /\ stage' = stage /\ progress' = TRUE /\ k' = k + 1
      /\ k \in DOMAIN x /\ k \in pending /\ pending' = pending \ {k}
      /\ stage \in {"int", "float"} /\ ~Blocked(k)
      /\ mem' = [mem EXCEPT ![x[k].dst] = mem[src[k]]]
  BY DEF Make, Permuting
<1>2. TypeOK /\ WellFormed(x) /\ Phase /\ NothingLost
  BY DEF IInv
<1>3. k \in OfFile(stage) /\ k \in Left /\ Left \subseteq DOMAIN x
  BY <1>1, <1>2 DEF Phase, Permuting, Left, OfFile
<1>4. Left' = Left \ {k}
  BY <1>1, <1>3 DEF Left, OutMoves, InMoves, OfFile
<1>5. src[k] # NoLoc /\ x[k].dst \in Regs /\ x[k].dst \in Locs
  BY <1>1, <1>2, <1>3, MoveFacts, PlaceFacts, LocsAssumption DEF OfFile, TypeOK, Cells, Locs
<1>6. mem' = [mem EXCEPT ![x[k].dst] = Value(src[k])]
  BY <1>1, <1>5 DEF Value
<1>7. ASSUME NEW j \in Left \ {k} PROVE src[j] # x[k].dst
  <2>1. CASE j \in pending
    BY <1>1, <1>7, <2>1 DEF Blocked
  <2>2. CASE j \in InMoves
    BY <1>2, <1>5, <2>2, MoveFacts DEF InMoves
  <2>3. CASE stage = "int" /\ j \in OfFile("float")
    <3>1. src[j] = x[j].src /\ x[j].src \in Float /\ x[k].dst \notin Float
      BY <1>1, <1>2, <1>3, <2>3 DEF Phase, OfFile, WellFormed
    <3>2. QED BY <3>1
  <2>4. QED BY <1>1, <1>7, <2>1, <2>2, <2>3 DEF Left
<1>8. NothingLost' /\ mem' \in [Cells -> Cells \cup {Remat}]
  BY <1>1, <1>3, <1>4, <1>6, <1>7, MakingLosesNothing
<1>9. TypeOK'
  <2>1. k' \in 1 .. Len(x) + 1
    BY <1>1, <1>2, MoveFacts
  <2>2. QED BY <1>1, <1>2, <1>8, <2>1 DEF TypeOK, OfFile
<1>10. Phase' /\ Swept' /\ NeverFails'
  BY <1>1, <1>2 DEF Phase, Swept, NeverFails, Permuting, OfFile
<1>11. QED BY <1>1, <1>2, <1>8, <1>9, <1>10 DEF IInv, WellFormed

\* A cycle is broken: no move left reads the scratch register of the file, so
\* that writing it destroys nothing, and its value is where its readers look.
LEMMA BreakIInv == IInv /\ BreakCycle => IInv'
<1> SUFFICES ASSUME IInv, BreakCycle PROVE IInv'
  OBVIOUS
<1>1. /\ TypeOK /\ WellFormed(x) /\ Phase /\ NothingLost /\ Swept
      /\ stage \in {"int", "float"} /\ k \notin DOMAIN x /\ pending # {} /\ ~progress
      /\ x' = x /\ pending' = pending /\ progress' = progress
  BY DEF IInv, BreakCycle, Permuting
<1>2. \A i \in pending : Blocked(i)
  <2>1. \A i \in pending : i < k
    BY <1>1, MoveFacts DEF TypeOK
  <2>2. QED BY <1>1, <2>1 DEF Swept, Permuting
<1>3. pending \subseteq OfFile(stage) /\ pending \subseteq DOMAIN x
  BY <1>1 DEF Phase, Permuting, OfFile
<1>4. \A i \in pending : src[i] \in Regs /\ src[i] \in Locs /\ src[i] # Scratch /\ src[i] # NoLoc
  <2>1. \A i \in pending : src[i] \in Regs
    BY <1>1, <1>2, <1>3, OnlyCycles DEF OfFile
  <2>2. QED BY <2>1, PlaceFacts DEF Locs
<1>5. PICK f \in pending : FreeOne(f)
  BY <1>1, <1>4 DEF BreakCycle
<1>6. /\ mem' = [mem EXCEPT ![Scratch] = mem[src[f]]] /\ src' = Redirect(f, Scratch)
      /\ k' = 1 /\ stage' = stage
  BY <1>5 DEF FreeOne
<1>7. /\ mem \in [Cells -> Cells \cup {Remat}] /\ src[f] \in Cells
      /\ Scratch \in Cells /\ Scratch \notin Locs /\ Scratch # NoLoc
  BY <1>1, <1>4, PlaceFacts DEF TypeOK, Cells
<1>8. mem'[Scratch] = mem[src[f]] /\ \A l \in Cells : l # Scratch => mem'[l] = mem[l]
  BY <1>6, <1>7
<1>9. Left' = Left /\ Left \subseteq DOMAIN x
  BY <1>1, <1>6 DEF Left, OutMoves, InMoves, OfFile
<1>10. TypeOK'
  <2>1. mem' \in [Cells -> Cells \cup {Remat}]
    BY <1>6, <1>7
  <2>2. DOMAIN src' = DOMAIN x
    BY <1>1, <1>6, MoveFacts DEF Redirect
  <2>3. \A i \in DOMAIN x : \/ src'[i] = x[i].src
                            \/ src'[i] = FloatScratch /\ i \in OfFile("float")
                            \/ src'[i] = IntScratch /\ i \in OfFile("int")
    BY <1>1, <1>3, <1>6, MoveFacts DEF Redirect, TypeOK, Scratch
  <2>4. k' \in 1 .. Len(x) + 1
    BY <1>1, <1>6, MoveFacts
  <2>5. QED BY <1>1, <1>6, <2>1, <2>2, <2>3, <2>4 DEF TypeOK, OfFile
<1>11. Phase'
  <2>1. \A i \in DOMAIN x : i \notin pending => src'[i] = src[i]
    BY <1>1, <1>6, MoveFacts DEF Redirect
  <2>2. stage = "int" => \A i \in OfFile("float") : i \notin pending /\ i \in DOMAIN x
    BY <1>3 DEF OfFile
  <2>3. QED BY <1>1, <1>6, <2>1, <2>2 DEF Phase, Permuting, OfFile
<1>12. Swept' /\ NeverFails'
  BY <1>1, <1>6, MoveFacts DEF Swept, NeverFails
<1>13. NothingLost'
  <2>1. ASSUME NEW i \in Left PROVE Value(src[i])' = Wanted(i)'
    <3>1. Value(src[i]) = Wanted(i) /\ i \in DOMAIN x
      BY <1>1, <1>9 DEF NothingLost
    <3>2. CASE i \in pending /\ src[i] = src[f]
      <4>1. src'[i] = Scratch
        BY <1>1, <1>6, <3>1, <3>2, MoveFacts DEF Redirect
      <4>2. Value(src[i])' = mem[src[i]]
        BY <1>7, <1>8, <3>2, <4>1 DEF Value
      <4>3. Value(src[i]) = mem[src[i]]
        BY <1>4, <3>2 DEF Value
      <4>4. QED BY <1>1, <3>1, <4>2, <4>3 DEF Wanted
    <3>3. CASE ~(i \in pending /\ src[i] = src[f])
      <4>1. src'[i] = src[i]
        BY <1>1, <1>6, <3>1, <3>3, MoveFacts DEF Redirect
      <4>2. src[i] # Scratch
        <5>1. CASE i \in pending
          BY <1>4, <5>1
        <5>2. CASE i \in InMoves
          BY <1>1, <1>7, <5>2, MoveFacts, PlaceFacts DEF InMoves
        <5>3. CASE stage = "int" /\ i \in OfFile("float")
          BY <1>1, <1>7, <3>1, <5>3, MoveFacts, PlaceFacts DEF Phase
        <5>4. QED BY <1>1, <2>1, <5>1, <5>2, <5>3 DEF Left
      <4>3. src[i] \in Cells \cup {NoLoc}
        BY <1>1, <3>1, MoveFacts
      <4>4. Value(src[i])' = Value(src[i])
        BY <1>8, <4>1, <4>2, <4>3 DEF Value
      <4>5. QED BY <1>1, <3>1, <4>4 DEF Wanted
    <3>4. QED BY <3>2, <3>3
  <2>2. ASSUME NEW i \in DOMAIN x, i \notin Left PROVE mem'[x[i].dst] = Wanted(i)'
    <3>1. x[i].dst \in Cells /\ x[i].dst # Scratch
      BY <1>1, <1>7, MoveFacts DEF Cells
    <3>2. mem[x[i].dst] = Wanted(i)
      BY <1>1, <2>2 DEF NothingLost
    <3>3. QED BY <1>1, <1>8, <3>1, <3>2 DEF Wanted
  <2>3. ASSUME NEW l \in Locs, \A i \in DOMAIN x : x[i].dst # l PROVE mem'[l] = l
    BY <1>1, <1>7, <1>8, <2>3 DEF NothingLost, Cells
  <2>4. QED BY <1>1, <1>9, <2>1, <2>2, <2>3 DEF NothingLost
<1>14. QED BY <1>1, <1>10, <1>11, <1>12, <1>13 DEF IInv, WellFormed

-----------------------------------------------------------------------------
(* The theorems *)

\* A step that leaves the state alone preserves the invariant.
LEMMA StutterIInv == IInv /\ UNCHANGED vars => IInv'
BY DEF vars, IInv, TypeOK, WellFormed, Phase, Swept, NothingLost, NeverFails, Permuting,
       OfFile, Left, OutMoves, InMoves, Value, Wanted, Blocked

\* Every action preserves the invariant.
LEMMA StepIInv == IInv /\ [Next]_vars => IInv'
BY OutIInv, StageIInv, SweepIInv, MakeIInv, BreakIInv, InIInv, StutterIInv DEF Next

\* The inductive invariant of transfer (src/ssagen/ssagen.go).
THEOREM Invariance == Spec => []IInv
BY InitIInv, StepIInv, PTL DEF Spec

\* The state has its type: a move is redirected to the scratch register of its
\* own file or not at all.
THEOREM TypeCorrect == Spec => []TypeOK
<1>1. IInv => TypeOK
  BY DEF IInv
<1>2. QED BY <1>1, Invariance, PTL

\* No move destroys what another move still has to read, in any stage.
THEOREM NothingIsLost == Spec => []NothingLost
<1>1. IInv => NothingLost
  BY DEF IInv
<1>2. QED BY <1>1, Invariance, PTL

\* "A parallel move of n registers has no order" is never reported for the moves
\* the callers hand over.
THEOREM AlwaysAnOrder == Spec => []NeverFails
<1>1. IInv => NeverFails
  BY DEF IInv
<1>2. QED BY <1>1, Invariance, PTL

-----------------------------------------------------------------------------
(* The moves are one assignment *)

\* After the last stage every location holds what the instantaneous assignment
\* gives it.
LEMMA EndIsMoved ==
  ASSUME IInv, stage = "in", k \notin DOMAIN x, NEW l \in Locs
  PROVE  mem[l] = Simultaneous!Moved(x)[l]
<1>1. WellFormed(x) /\ TypeOK /\ NothingLost
  BY DEF IInv
<1>2. Left = {}
  <2>1. \A i \in DOMAIN x : ~(i >= k)
    BY <1>1, MoveFacts DEF TypeOK
  <2>2. QED BY <2>1 DEF Left
<1>3. CASE \E i \in DOMAIN x : x[i].dst = l
  <2>1. PICK i \in DOMAIN x : x[i].dst = l
    BY <1>3
  <2>2. \A j \in DOMAIN x : x[j].dst = l => j = i
    BY <1>1, <2>1 DEF WellFormed
  <2>3. (CHOOSE j \in DOMAIN x : x[j].dst = l) = i
    BY <2>1, <2>2
  <2>4. mem[l] = Wanted(i)
    BY <1>1, <1>2, <2>1 DEF NothingLost
  <2>5. Simultaneous!Moved(x)[l] = Simultaneous!Source(x[i])
    BY <1>3, <2>3 DEF Simultaneous!Moved
  <2>6. QED BY <2>4, <2>5 DEF Wanted, Simultaneous!Source
<1>4. CASE ~ \E i \in DOMAIN x : x[i].dst = l
  BY <1>1, <1>4 DEF NothingLost, Simultaneous!Moved
<1>5. QED BY <1>3, <1>4

\* Only the end of the last stage moves, seen from outside.
LEMMA StepMaps == IInv /\ [Next]_vars => [Simultaneous!Next]_(Simultaneous!vars)
<1> SUFFICES ASSUME IInv, [Next]_vars PROVE [Simultaneous!Next]_(Simultaneous!vars)
  OBVIOUS
<1> DEFINE cells == [l \in Locs |-> IF stage = "done" THEN mem[l] ELSE l]
<1> DEFINE outcome == IF stage = "done" THEN "moved" ELSE "pending"
<1>1. CASE InDone
  <2>1. x' = x /\ mem' = mem /\ stage = "in" /\ stage' = "done" /\ k \notin DOMAIN x
    BY <1>1 DEF InDone
  <2>2. cells' = Simultaneous!Moved(x)
    BY <2>1, EndIsMoved DEF Simultaneous!Moved
  <2>3. WellFormed(x) /\ TypeOK
    BY DEF IInv
  <2>4. outcome = "pending" /\ outcome' = "moved" /\ Simultaneous!Sound(x)
    BY <2>1, <2>3, MoveFacts, PlaceFacts DEF WellFormed, Simultaneous!Sound
  <2>5. QED BY <2>1, <2>2, <2>4 DEF Simultaneous!Next, Simultaneous!Move
<1>2. CASE Out \/ OutDone \/ Skip \/ Make \/ SweepAgain \/ BreakCycle \/ FileDone \/ In
  <2>1. x' = x /\ stage # "done" /\ stage' # "done"
    BY <1>2 DEF Out, In, Turn, OutDone, Skip, Make, SweepAgain, BreakCycle, FreeOne, FileDone, Permuting
  <2>2. cells' = cells /\ outcome' = outcome
    BY <2>1
  <2>3. QED BY <2>1, <2>2 DEF Simultaneous!vars
<1>3. CASE UNCHANGED vars
  BY <1>3 DEF vars, Simultaneous!vars
<1>4. QED BY <1>1, <1>2, <1>3 DEF Next

\* The moves out of registers, the two permutations with their broken cycles and
\* the moves into registers are the one instantaneous assignment transfer's
\* callers ask for.
THEOREM ImplementsAtomicCopy == Spec => Simultaneous!Safety
<1>1. Init => Simultaneous!Init
  BY DEF Init, InitMoves, Simultaneous!Init
<1>2. QED
  BY <1>1, StepMaps, Invariance, PTL DEF Spec, Simultaneous!Safety
=============================================================================
