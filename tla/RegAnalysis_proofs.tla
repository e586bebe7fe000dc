------------------------- MODULE RegAnalysis_proofs -------------------------
(***************************************************************************)
(* Proofs about the first half of the allocator, for every function the    *)
(* assumptions of AllocRun admit, any number of blocks and values and any  *)
(* register file.                                                          *)
(*                                                                         *)
(* The linear scan: for every analysis that satisfies WellFormed, two      *)
(* values that are live at the same time never have one register.          *)
(* NoSharedRegister alone is not inductive: a value that lost its register *)
(* to an expiry keeps its home, and only the order of the visits says that *)
(* no later value meets it.  ScanIInv adds that order (Ordered), what it   *)
(* implies for the values given up (Retired), the agreement of the books   *)
(* (BooksAgree), and what pre-colouring established.  With nothing         *)
(* pre-coloured, a value that is sent to the frame meets as many of its    *)
(* class as there are registers, which meet each other: PInv.              *)
(*                                                                         *)
(* Liveness: as long as no live-in set grew in the round, every block      *)
(* already visited in it is closed, for a visit that does not grow a       *)
(* live-in set leaves what every other block asks for as it was.  No visit *)
(* adds what no path asks for, and the blocks into which a value is not    *)
(* live at the fixed point hold every path from them that does not write   *)
(* it.                                                                     *)
(*                                                                         *)
(* What the allocator hands to the scan: splitting keeps every edge, or    *)
(* puts one block on it with its slot; the walk lays every block out once  *)
(* and the positions number its values; a value is live only after it      *)
(* stands; so the ranges are intervals from the definition to the last     *)
(* read, and the analysis is what the scan asks for (AllocIInv).           *)
(***************************************************************************)
EXTENDS AllocVerifier, Induction, SequenceTheorems

-----------------------------------------------------------------------------
(* The linear scan *)

Visited == an.tracked \ todo

\* The values are visited by the start of their interval.
Ordered == \A u \in Visited, v \in todo : an.start[u] <= an.start[v]

\* A value that gave its register back meets nothing the scan has yet to visit.
Retired == \A u \in Visited \ active, v \in todo :
             home[u] \in Regs => ~Conflicts(u, v)

Homeless == \A v \in todo : home[v] = None

\* What pre-colouring established and the placements respect.
FixedApart == \A u, v \in an.tracked :
                u # v /\ fixed[u] # NoReg /\ fixed[u] = fixed[v] => ~Conflicts(u, v)
FixedHome == \A v \in an.tracked :
                home[v] \in Regs /\ fixed[v] # NoReg => home[v] = fixed[v]
Unreserved == \A v \in an.tracked :
                home[v] \in Regs /\ fixed[v] = NoReg => home[v] \notin Reserved(v)

ScanIInv == /\ ScanTypeOK
            /\ WellFormed(an)
            /\ phase = "precolour" => todo = an.tracked
            /\ Ordered
            /\ Retired
            /\ Homeless
            /\ BooksAgree
            /\ FixedApart
            /\ FixedHome
            /\ Unreserved
            /\ NoSharedRegister

-----------------------------------------------------------------------------
(* Intervals *)

\* The parts of the analysis the proofs use, with their types.
LEMMA ScanParts ==
  ASSUME WellFormed(an)
  PROVE  /\ an.tracked \subseteq Ids
         /\ an.start \in [Ids -> Positions]
         /\ an.end \in [Ids -> Positions]
         /\ Positions \subseteq Int
         /\ an.defReg \in [Ids -> Regs \cup {NoReg}]
         /\ \A v \in Ids : an.start[v] \in Int /\ an.end[v] \in Int
<1>1. an \in Analysis
  BY DEF WellFormed
<1>2. /\ an.tracked \subseteq Ids
      /\ an.start \in [Ids -> Positions]
      /\ an.end \in [Ids -> Positions]
      /\ an.defReg \in [Ids -> Regs \cup {NoReg}]
  BY <1>1 DEF Analysis
<1>3. Positions \subseteq Int
  BY PositionsAssumption
<1>4. QED BY <1>2, <1>3

\* conflicts does not depend on the order of its arguments: two intervals that
\* start together always conflict, because neither start frees the other.
LEMMA ConflictsSymmetric ==
  ASSUME WellFormed(an), NEW u \in an.tracked, NEW v \in an.tracked, u # v
  PROVE  Conflicts(u, v) <=> Conflicts(v, u)
<1>1. /\ an.start[u] \in Int /\ an.end[u] \in Int
      /\ an.start[v] \in Int /\ an.end[v] \in Int
      /\ an.start[u] <= an.end[u] /\ an.start[v] <= an.end[v]
  BY ScanParts DEF WellFormed
<1>2. CASE an.start[u] = an.start[v]
  <2>1. ~FreesAt(an.start[v], v) /\ ~FreesAt(an.start[u], u)
    BY <1>2 DEF WellFormed, FreesAt
  <2>2. QED BY <1>1, <1>2, <2>1 DEF Conflicts, Reaches
<1>3. CASE an.start[u] < an.start[v]
  BY <1>1, <1>3 DEF Conflicts
<1>4. CASE an.start[v] < an.start[u]
  BY <1>1, <1>4 DEF Conflicts
<1>5. QED BY <1>1, <1>2, <1>3, <1>4

\* A value that is over when x is written is over for every value visited
\* after x: an interval that ends where x frees it meets no other start.
LEMMA OverStaysOver ==
  ASSUME WellFormed(an), NEW u \in an.tracked, NEW x \in an.tracked, NEW v \in an.tracked,
         an.start[u] <= an.start[x], an.start[x] <= an.start[v],
         \/ an.end[u] < an.start[x]
         \/ an.end[u] = an.start[x] /\ FreesAt(an.start[x], x)
  PROVE  ~Conflicts(u, v)
<1>1. /\ an.start[u] \in Int /\ an.end[u] \in Int
      /\ an.start[v] \in Int /\ an.start[x] \in Int
  BY ScanParts
<1>2. ~(an.start[u] > an.start[v])
  BY <1>1
<1>3. CASE an.end[u] < an.start[v]
  BY <1>1, <1>2, <1>3 DEF Conflicts, Reaches
<1>4. CASE an.end[u] = an.start[v]
  <2>1. an.start[x] = an.start[v] /\ FreesAt(an.start[x], x)
    BY <1>1, <1>4
  <2>2. x = v
    BY <2>1 DEF WellFormed, FreesAt
  <2>3. QED BY <1>2, <1>4, <2>1, <2>2 DEF Conflicts, Reaches
<1>5. QED BY <1>1, <1>3, <1>4

-----------------------------------------------------------------------------
(* The inductive invariant *)

\* Before the scan nothing is placed.
LEMMA ScanInitIInv == ScanInit => ScanIInv
<1> SUFFICES ASSUME ScanInit PROVE ScanIInv
  OBVIOUS
<1> USE DEF ScanInit, InitScan
<1>1. WellFormed(an)
  OBVIOUS
<1>2. ScanTypeOK
  BY DEF ScanTypeOK
<1>3. \A v \in an.tracked : v \in Ids /\ home[v] = None /\ fixed[v] = NoReg
  BY <1>1, ScanParts
<1>4. Ordered /\ Retired
  <2>1. Visited = {}
    BY DEF Visited
  <2>2. QED BY <2>1 DEF Ordered, Retired
<1>5. BooksAgree
  BY DEF BooksAgree
<1>6. FixedApart /\ FixedHome /\ Homeless
  BY <1>3 DEF FixedApart, FixedHome, Homeless
<1>7. Unreserved /\ NoSharedRegister
  BY <1>3, FrameAssumption DEF Unreserved, NoSharedRegister
<1>8. QED BY <1>1, <1>2, <1>4, <1>5, <1>6, <1>7 DEF ScanIInv

\* Pre-colouring keeps only registers that fit and pairs that do not meet.
LEMMA PrecolourIInv == ScanIInv /\ Precolour => ScanIInv'
<1> SUFFICES ASSUME ScanIInv, Precolour PROVE ScanIInv'
  OBVIOUS
<1>1. /\ todo = an.tracked /\ todo' = todo /\ an' = an /\ home' = home
      /\ owner' = owner /\ active' = active /\ phase' = "scan"
      /\ fixed' = [v \in Ids |-> IF v \in an.tracked THEN an.defReg[v] ELSE NoReg]
      /\ ScanTypeOK /\ WellFormed(an)
  BY DEF ScanIInv, Precolour
<1>2. \A v \in an.tracked : v \in Ids /\ home[v] = None /\ fixed'[v] = an.defReg[v]
  BY <1>1, ScanParts DEF ScanIInv, Homeless
<1>3. \A v \in an.tracked : an.defReg[v] \in Allocatable \cup {NoReg}
  BY <1>1 DEF Precolour, Unfit
<1>4. ScanTypeOK'
  <2>1. fixed' \in [Ids -> Allocatable \cup {NoReg}]
    BY <1>1, <1>3
  <2>2. QED BY <1>1, <2>1 DEF ScanTypeOK
<1>5. Ordered' /\ Retired' /\ Homeless' /\ BooksAgree' /\ WellFormed(an)'
  BY <1>1 DEF ScanIInv, Ordered, Retired, Homeless, BooksAgree, Visited, Conflicts, Reaches,
            FreesAt, WellFormed
<1>6. FixedApart'
  <2> SUFFICES ASSUME NEW u \in an.tracked, NEW v \in an.tracked,
                      u # v, fixed'[u] # NoReg, fixed'[u] = fixed'[v]
               PROVE  ~Conflicts(u, v)'
    BY <1>1 DEF FixedApart
  <2>1. ~Clash(u, v)
    BY DEF Precolour
  <2>2. ~Conflicts(u, v)
    BY <2>1, <1>2 DEF Clash
  <2>3. QED BY <2>2, <1>1 DEF Conflicts, Reaches, FreesAt
<1>7. FixedHome' /\ Unreserved' /\ NoSharedRegister'
  BY <1>1, <1>2, FrameAssumption DEF FixedHome, Unreserved, NoSharedRegister
<1>8. QED BY <1>1, <1>4, <1>5, <1>6, <1>7 DEF ScanIInv

-----------------------------------------------------------------------------
(* One visit *)

\* The value visited has no home and starts no later than the rest.
LEMMA NextFacts ==
  ASSUME ScanIInv, NEW v \in Ids, IsNext(v)
  PROVE  /\ v \in todo /\ v \in an.tracked /\ home[v] = None /\ v \notin active
         /\ an.start[v] \in Int
         /\ \A u \in todo : an.start[v] <= an.start[u]
         /\ \A u \in Visited : an.start[u] <= an.start[v]
         /\ active \subseteq Visited
<1>1. v \in todo /\ todo \subseteq an.tracked /\ active \subseteq Visited /\ home[v] = None
  BY DEF IsNext, ScanIInv, ScanTypeOK, Visited, Homeless
<1>2. \A u \in an.tracked : an.start[u] \in Int
  BY ScanParts DEF ScanIInv
<1>3. \A u \in todo : an.start[v] <= an.start[u]
  BY <1>1, <1>2 DEF IsNext, Earlier
<1>4. \A u \in Visited : an.start[u] <= an.start[v]
  BY <1>1 DEF ScanIInv, Ordered
<1>5. QED BY <1>1, <1>2, <1>3, <1>4 DEF Visited

\* Once the expired intervals are gone the books still agree, and what expired
\* meets nothing that is left.
LEMMA ExpireFacts ==
  ASSUME ScanIInv, NEW v \in Ids, IsNext(v)
  PROVE  /\ OwnerKept(v) \in [Regs -> Ids \cup {NoId}]
         /\ \A r \in Regs : OwnerKept(v)[r] # NoId =>
               OwnerKept(v)[r] = owner[r] /\ owner[r] \in Kept(v) /\ home[owner[r]] = r
         /\ \A x \in Kept(v) : home[x] \in Regs /\ OwnerKept(v)[home[x]] = x
         /\ \A x \in Expired(v), y \in todo : ~Conflicts(x, y)
         /\ \A x \in Kept(v) : Conflicts(x, v)
<1>1. BooksAgree /\ ScanTypeOK /\ WellFormed(an)
  BY DEF ScanIInv
<1>2. OwnerKept(v) \in [Regs -> Ids \cup {NoId}]
  BY <1>1 DEF OwnerKept, ScanTypeOK
<1>3. ASSUME NEW r \in Regs, OwnerKept(v)[r] # NoId
      PROVE  OwnerKept(v)[r] = owner[r] /\ owner[r] \in Kept(v) /\ home[owner[r]] = r
  <2>1. OwnerKept(v)[r] = owner[r] /\ ~ \E w \in Expired(v) : home[w] = r
    BY <1>3 DEF OwnerKept
  <2>2. QED BY <2>1, <1>1, <1>3 DEF BooksAgree, Kept
<1>4. ASSUME NEW x \in Kept(v)
      PROVE  home[x] \in Regs /\ OwnerKept(v)[home[x]] = x
  <2>1. x \in active /\ x \notin Expired(v) /\ home[x] \in Regs /\ owner[home[x]] = x
    BY <1>1 DEF BooksAgree, Kept
  <2>2. ASSUME NEW w \in Expired(v), home[w] = home[x] PROVE FALSE
    BY <2>1, <2>2, <1>1 DEF BooksAgree, Expired
  <2>3. QED BY <2>1, <2>2 DEF OwnerKept
<1>5. ASSUME NEW x \in Expired(v), NEW y \in todo PROVE ~Conflicts(x, y)
  <2>1. /\ x \in an.tracked /\ y \in an.tracked /\ v \in an.tracked
        /\ an.start[x] <= an.start[v] /\ an.start[v] <= an.start[y]
    BY NextFacts, <1>1 DEF Expired, Visited, ScanTypeOK
  <2>2. \/ an.end[x] < an.start[v]
        \/ an.end[x] = an.start[v] /\ FreesAt(an.start[v], v)
    BY DEF Expired
  <2>3. QED BY <2>1, <2>2, <1>1, OverStaysOver
<1>6. ASSUME NEW x \in Kept(v) PROVE Conflicts(x, v)
  <2>1. x \in Visited /\ x \in an.tracked /\ an.start[x] <= an.start[v]
    BY NextFacts DEF Kept, Visited
  <2>2. an.start[x] \in Int /\ an.end[x] \in Int /\ an.start[v] \in Int
    BY <2>1, <1>1, ScanParts
  <2>3. ~(an.end[x] < an.start[v])
    BY DEF Kept, Expired
  <2>4. ~(an.end[x] = an.start[v] /\ FreesAt(an.start[v], v))
    BY DEF Kept, Expired
  <2>5. QED BY <2>1, <2>2, <2>3, <2>4 DEF Conflicts, Reaches
<1>7. QED BY <1>2, <1>3, <1>4, <1>5, <1>6

\* Conflicts and Reserved read only what a visit leaves alone.
LEMMA VisitKeeps ==
  ASSUME NEW v \in Ids, Visit(v)
  PROVE  /\ an' = an /\ fixed' = fixed /\ todo' = todo \ {v} /\ IsNext(v)
         /\ phase' \in {"scan", "scanned"}
         /\ \A x, y \in Ids : Conflicts(x, y)' <=> Conflicts(x, y)
         /\ \A x \in Ids : Reserved(x)' = Reserved(x)
<1>1. /\ an' = an /\ fixed' = fixed /\ todo' = todo \ {v} /\ IsNext(v)
      /\ phase' \in {"scan", "scanned"}
  BY DEF Visit
<1>2. \A x, y : Conflicts(x, y)' <=> Conflicts(x, y)
  BY <1>1 DEF Conflicts, Reaches, FreesAt
<1>3. ASSUME NEW x \in Ids PROVE Reserved(x)' = Reserved(x)
  BY <1>1 DEF Reserved, Conflicts, Reaches, FreesAt
<1>4. QED BY <1>1, <1>2, <1>3

\* What every placement preserves, whichever home v takes: the order of the
\* visits, and that the values given up meet nothing still to come.
LEMMA OrderIInv ==
  ASSUME ScanIInv, NEW v \in Ids, Visit(v),
         \A u \in Ids \ {v} : home'[u] = home[u] \/ home'[u] \notin Regs,
         \A u \in todo \ {v} : home'[u] = home[u],
         active' \subseteq active \cup {v},
         \A u \in active \ active' : u \in Expired(v) \/ home'[u] \notin Regs,
         v \in active' \/ home'[v] \notin Regs
  PROVE  Ordered' /\ Retired' /\ Homeless'
<1>1. /\ WellFormed(an) /\ ScanTypeOK /\ an' = an /\ todo' = todo \ {v} /\ IsNext(v)
      /\ an.tracked \subseteq Ids /\ todo \subseteq an.tracked
  BY VisitKeeps, ScanParts DEF ScanIInv, ScanTypeOK
<1>2. v \in todo /\ Visited' = Visited \cup {v}
  BY <1>1, NextFacts DEF Visited
<1>3. Ordered'
  BY <1>1, <1>2, NextFacts DEF ScanIInv, Ordered
<1>4. Retired'
  <2> SUFFICES ASSUME NEW u \in Visited', u \notin active', NEW y \in todo', home'[u] \in Regs
               PROVE  ~Conflicts(u, y)
    BY <1>1, <1>2, VisitKeeps DEF Retired, Visited
  <2>1. u # v /\ u \in Visited /\ u \in Ids /\ home'[u] = home[u] /\ y \in todo
    BY <1>1, <1>2 DEF Visited
  <2>2. CASE u \in active
    BY <2>1, <2>2, ExpireFacts, <1>1
  <2>3. CASE u \notin active
    BY <2>1, <2>3 DEF ScanIInv, Retired
  <2>4. QED BY <2>2, <2>3
<1>5. Homeless'
  BY <1>1 DEF ScanIInv, Homeless
<1>6. QED BY <1>3, <1>4, <1>5

\* A value sent to the frame takes nothing from anybody.
LEMMA ToFrameIInv ==
  ASSUME ScanIInv, NEW v \in Ids, Visit(v), ToFrame(v)
  PROVE  ScanIInv'
<1>1. /\ an' = an /\ fixed' = fixed /\ todo' = todo \ {v} /\ IsNext(v)
      /\ ScanTypeOK /\ WellFormed(an)
      /\ an.tracked \subseteq Ids
  BY VisitKeeps, ScanParts DEF ScanIInv
<1>2. /\ home' = [home EXCEPT ![v] = Frame]
      /\ owner' = OwnerKept(v)
      /\ active' = Kept(v)
  BY DEF ToFrame
<1>3. /\ v \in todo /\ v \in an.tracked /\ v \notin active /\ Kept(v) \subseteq active
      /\ home'[v] = Frame /\ Frame \notin Regs
      /\ \A u \in Ids \ {v} : home'[u] = home[u]
  BY <1>1, <1>2, NextFacts, FrameAssumption DEF Kept, ScanTypeOK
<1>4. ScanTypeOK'
  BY <1>1, <1>2, <1>3, ExpireFacts, VisitKeeps DEF ScanTypeOK, Kept
<1>5. Ordered' /\ Retired' /\ Homeless'
  <2>1. /\ \A u \in Ids \ {v} : home'[u] = home[u] \/ home'[u] \notin Regs
        /\ \A u \in todo \ {v} : home'[u] = home[u]
        /\ active' \subseteq active \cup {v}
        /\ v \in active' \/ home'[v] \notin Regs
    BY <1>1, <1>2, <1>3 DEF ScanTypeOK
  <2>2. \A u \in active \ active' : u \in Expired(v) \/ home'[u] \notin Regs
    BY <1>2 DEF Kept
  <2>3. QED BY <2>1, <2>2, OrderIInv
<1>6. BooksAgree'
  <2>1. active \subseteq Ids
    BY <1>1 DEF ScanTypeOK
  <2>2. \A w \in active' : home'[w] \in Regs /\ owner'[home'[w]] = w
    BY <1>1, <1>2, <1>3, <2>1, ExpireFacts
  <2>3. \A r \in Regs : owner'[r] # NoId => owner'[r] \in active' /\ home'[owner'[r]] = r
    BY <1>1, <1>2, <1>3, <2>1, ExpireFacts
  <2>4. QED BY <2>2, <2>3 DEF BooksAgree
<1>7. FixedApart' /\ FixedHome' /\ Unreserved' /\ NoSharedRegister'
  BY <1>1, <1>3, VisitKeeps DEF ScanIInv, FixedApart, FixedHome, Unreserved, NoSharedRegister
<1>8. QED
  BY <1>1, <1>4, <1>5, <1>6, <1>7, VisitKeeps DEF ScanIInv, WellFormed

\* Pre-coloured values and reserved registers keep whoever holds the register
\* of a fixed value out of its way, so that the scan never evicts for one.
LEMMA FixedRegisterFree ==
  ASSUME ScanIInv, NEW v \in Ids, Visit(v), fixed[v] # NoReg
  PROVE  OwnerKept(v)[fixed[v]] = NoId
<1>1. /\ IsNext(v) /\ v \in an.tracked /\ ScanTypeOK /\ WellFormed(an)
      /\ an.tracked \subseteq Ids
      /\ fixed[v] \in Regs
  BY VisitKeeps, NextFacts, ScanParts, RegsAssumption DEF ScanIInv, ScanTypeOK
<1> SUFFICES ASSUME OwnerKept(v)[fixed[v]] # NoId PROVE FALSE
  OBVIOUS
<1> DEFINE w == owner[fixed[v]]
<1>2. w \in Kept(v) /\ home[w] = fixed[v] /\ Conflicts(w, v)
  BY <1>1, ExpireFacts
<1>3. w \in an.tracked /\ w # v
  BY <1>1, <1>2, NextFacts DEF Kept, ScanTypeOK
<1>4. Conflicts(v, w)
  BY <1>1, <1>2, <1>3, ConflictsSymmetric
<1>5. CASE fixed[w] = NoReg
  <2>1. home[w] \notin Reserved(w)
    BY <1>1, <1>2, <1>3, <1>5 DEF ScanIInv, Unreserved
  <2>2. QED BY <1>1, <1>2, <1>3, <1>4, <2>1 DEF Reserved
<1>6. CASE fixed[w] # NoReg
  BY <1>1, <1>2, <1>3, <1>6 DEF ScanIInv, FixedHome, FixedApart
<1>7. QED BY <1>5, <1>6

\* A value that takes a register takes it from at most one value, which goes to
\* the frame; whoever else has the register as its home is over.
LEMMA TakeIInv ==
  ASSUME ScanIInv, NEW v \in Ids, Visit(v), NEW r \in Allocatable, Take(v, r),
         fixed[v] = r \/ (fixed[v] = NoReg /\ r \notin Reserved(v))
  PROVE  ScanIInv'
<1> DEFINE w == OwnerKept(v)[r]
<1>1. /\ an' = an /\ fixed' = fixed /\ todo' = todo \ {v} /\ IsNext(v)
      /\ ScanTypeOK /\ WellFormed(an) /\ BooksAgree
      /\ an.tracked \subseteq Ids
      /\ r \in Regs /\ r # NoReg
  BY VisitKeeps, ScanParts, RegsAssumption DEF ScanIInv
<1>2. /\ home' = [u \in Ids |-> IF u = v THEN r ELSE IF u = w THEN Frame ELSE home[u]]
      /\ owner' = [OwnerKept(v) EXCEPT ![r] = v]
      /\ active' = (Kept(v) \ {w}) \cup {v}
  BY DEF Take
<1>3. /\ v \in todo /\ v \in an.tracked /\ v \notin active /\ Kept(v) \subseteq active
      /\ active \subseteq Ids /\ Frame \notin Regs /\ active \cap todo = {}
  BY <1>1, NextFacts, FrameAssumption DEF Kept, ScanTypeOK
<1>4. /\ home'[v] = r
      /\ \A u \in Ids \ {v} : home'[u] = IF u = w THEN Frame ELSE home[u]
  BY <1>2
<1>5. w # NoId => w = owner[r] /\ w \in Kept(v) /\ home[w] = r
  BY <1>1, ExpireFacts
<1>6. NoId \notin Ids
  BY IdsAssumption
<1>7. ScanTypeOK'
  <2>1. home' \in [Ids -> Allocatable \cup {Frame, None}]
    BY <1>1, <1>2 DEF ScanTypeOK
  <2>2. owner' \in [Regs -> Ids \cup {NoId}]
    BY <1>1, <1>2, ExpireFacts
  <2>3. active' \subseteq an.tracked \ todo'
    BY <1>1, <1>2, <1>3 DEF ScanTypeOK
  <2>4. QED BY <1>1, <2>1, <2>2, <2>3, VisitKeeps DEF ScanTypeOK
<1>8. Ordered' /\ Retired' /\ Homeless'
  <2>1. /\ \A u \in Ids \ {v} : home'[u] = home[u] \/ home'[u] \notin Regs
        /\ active' \subseteq active \cup {v}
        /\ v \in active' \/ home'[v] \notin Regs
    BY <1>2, <1>3, <1>4
  <2>2. \A u \in todo \ {v} : home'[u] = home[u]
    BY <1>1, <1>3, <1>4, <1>5, <1>6 DEF ScanTypeOK
  <2>3. \A u \in active \ active' : u \in Expired(v) \/ home'[u] \notin Regs
    BY <1>2, <1>3, <1>4 DEF Kept
  <2>4. QED BY <2>1, <2>2, <2>3, OrderIInv
<1>9. BooksAgree'
  <2>1. ASSUME NEW x \in active' PROVE home'[x] \in Regs /\ owner'[home'[x]] = x
    <3>1. CASE x = v
      BY <1>1, <1>2, <1>4, <3>1, ExpireFacts
    <3>2. CASE x # v
      <4>1. /\ x \in Kept(v) /\ x # w /\ x \in Ids /\ home'[x] = home[x]
            /\ home[x] \in Regs /\ OwnerKept(v)[home[x]] = x
        BY <1>1, <1>2, <1>3, <1>4, <3>2, ExpireFacts
      <4>2. home[x] # r
        BY <4>1
      <4>3. QED BY <1>1, <1>2, <4>1, <4>2, ExpireFacts
    <3>3. QED BY <3>1, <3>2
  <2>2. ASSUME NEW q \in Regs, owner'[q] # NoId
        PROVE  owner'[q] \in active' /\ home'[owner'[q]] = q
    <3>1. CASE q = r
      BY <1>1, <1>2, <1>4, <3>1, ExpireFacts
    <3>2. CASE q # r
      <4>1. owner'[q] = OwnerKept(v)[q]
        BY <1>1, <1>2, <3>2, ExpireFacts
      <4>2. owner'[q] = owner[q] /\ owner[q] \in Kept(v) /\ home[owner[q]] = q
        BY <1>1, <2>2, <4>1, ExpireFacts
      <4>3. owner[q] # w /\ owner[q] # v /\ owner[q] \in Ids
        BY <1>3, <1>5, <1>6, <3>2, <4>2
      <4>4. QED BY <1>2, <1>4, <4>2, <4>3
    <3>3. QED BY <3>1, <3>2
  <2>3. QED BY <2>1, <2>2 DEF BooksAgree
<1>10. FixedApart'
  BY <1>1, VisitKeeps DEF ScanIInv, FixedApart
<1>11. FixedHome'
  BY <1>1, <1>3, <1>4 DEF ScanIInv, FixedHome
<1>12. Unreserved'
  <2> SUFFICES ASSUME NEW u \in an.tracked, home'[u] \in Regs, fixed[u] = NoReg
               PROVE  home'[u] \notin Reserved(u)
    BY <1>1, VisitKeeps DEF Unreserved
  <2>1. CASE u = v
    BY <1>1, <1>4, <2>1
  <2>2. CASE u # v
    BY <1>1, <1>3, <1>4, <2>2 DEF ScanIInv, Unreserved
  <2>3. QED BY <2>1, <2>2
<1>13. NoSharedRegister'
  <2>1. ASSUME NEW u \in an.tracked, u # v, home'[u] = r
        PROVE  ~Conflicts(u, v)
    <3>1. u \in Ids /\ u # w /\ home[u] = r
      BY <1>1, <1>3, <1>4, <2>1
    <3>2. u \notin Kept(v)
      BY <1>1, <3>1, ExpireFacts
    <3>3. u \notin todo
      BY <1>1, <3>1, FrameAssumption DEF ScanIInv, Homeless
    <3>4. CASE u \in Expired(v)
      BY <1>1, <1>3, <3>4, ExpireFacts
    <3>5. CASE u \notin active
      BY <1>1, <1>3, <3>1, <3>3, <3>5 DEF ScanIInv, Retired, Visited
    <3>6. QED BY <3>2, <3>4, <3>5 DEF Kept
  <2> SUFFICES ASSUME NEW x \in an.tracked, NEW y \in an.tracked, x # y,
                      home'[x] \in Regs, home'[x] = home'[y]
               PROVE  ~Conflicts(x, y)
    BY <1>1, VisitKeeps DEF NoSharedRegister
  <2>2. CASE y = v
    BY <1>4, <2>1, <2>2
  <2>3. CASE x = v
    BY <1>1, <1>3, <1>4, <2>1, <2>3, ConflictsSymmetric
  <2>4. CASE x # v /\ y # v
    <3>1. home[x] = home'[x] /\ home[y] = home'[y]
      BY <1>1, <1>3, <1>4, <2>4
    <3>2. QED BY <3>1 DEF ScanIInv, NoSharedRegister
  <2>5. QED BY <2>2, <2>3, <2>4
<1>14. QED
  BY <1>1, <1>7, <1>8, <1>9, <1>10, <1>11, <1>12, <1>13, VisitKeeps DEF ScanIInv, WellFormed

-----------------------------------------------------------------------------
(* The theorems *)

\* Every placement a visit may choose preserves the invariant.
LEMMA VisitIInv ==
  ASSUME ScanIInv, NEW v \in Ids, Visit(v)
  PROVE  ScanIInv'
<1>1. ScanTypeOK /\ Allocatable \subseteq Regs
  BY RegsAssumption DEF ScanIInv
<1>2. CASE VisitFrame(v)
  BY <1>2, ToFrameIInv DEF VisitFrame
<1>3. CASE VisitFixed(v)
  <2>1. PICK r \in Allocatable : fixed[v] = r /\ Take(v, r)
    BY <1>1, <1>3 DEF VisitFixed, ScanTypeOK
  <2>2. QED BY <2>1, TakeIInv
<1>4. CASE VisitFree(v)
  <2>1. PICK r \in Free(v) : Take(v, r)
    BY <1>4 DEF VisitFree
  <2>2. r \in Allocatable /\ fixed[v] = NoReg /\ r \notin Reserved(v)
    BY <1>4, <2>1 DEF VisitFree, Free
  <2>3. QED BY <2>1, <2>2, TakeIInv
<1>5. CASE VisitEvict(v)
  <2>1. PICK c \in Candidates(v) : Take(v, home[c])
    BY <1>5 DEF VisitEvict
  <2>2. c \in active /\ home[c] \in Regs /\ home[c] \notin Reserved(v) /\ fixed[v] = NoReg
    BY <1>5, <2>1 DEF VisitEvict, Candidates, Kept
  <2>3. c \in Ids
    BY <1>1, <2>2, ScanParts DEF ScanIInv, ScanTypeOK
  <2>4. home[c] \in Allocatable
    BY <1>1, <2>2, <2>3, FrameAssumption DEF ScanTypeOK
  <2>5. QED BY <2>1, <2>2, <2>4, TakeIInv
<1>6. CASE VisitSpill(v)
  BY <1>6, ToFrameIInv DEF VisitSpill
<1>7. QED BY <1>2, <1>3, <1>4, <1>5, <1>6 DEF Visit

\* A step that leaves the state alone preserves the invariant.
LEMMA ScanStutterIInv == ScanIInv /\ UNCHANGED scanVars => ScanIInv'
BY DEF scanVars, ScanIInv, ScanTypeOK, WellFormed, Ordered, Retired, Homeless, BooksAgree, FixedApart,
       FixedHome, Unreserved, NoSharedRegister, Visited, Reserved, Conflicts, Reaches, FreesAt

\* A refused function keeps its state.
LEMMA RefuseIInv == ScanIInv /\ Refuse => ScanIInv'
BY DEF Refuse, ScanIInv, ScanTypeOK, WellFormed, Ordered, Retired, Homeless, BooksAgree, FixedApart,
       FixedHome, Unreserved, NoSharedRegister, Visited, Reserved, Conflicts, Reaches, FreesAt

\* The inductive invariant of the scan (scan in src/ssa/regalloc.go).
THEOREM ScanInvariance == ScanSpec => []ScanIInv
<1>1. ScanIInv /\ [ScanNext]_scanVars => ScanIInv'
  BY PrecolourIInv, RefuseIInv, VisitIInv, ScanStutterIInv DEF ScanNext
<1>2. QED BY <1>1, ScanInitIInv, PTL DEF ScanSpec

\* No two values that are live at the same time have the same register as
\* their home, whatever the scan expires, evicts or pre-colours.
THEOREM NoRegisterShared == ScanSpec => []NoSharedRegister
<1>1. ScanIInv => NoSharedRegister
  BY DEF ScanIInv
<1>2. QED BY <1>1, ScanInvariance, PTL

\* The state has its type: in particular every register home is a register the
\* target lets the allocator use.
THEOREM ScanTypeCorrect == ScanSpec => []ScanTypeOK
<1>1. ScanIInv => ScanTypeOK
  BY DEF ScanIInv
<1>2. QED BY <1>1, ScanInvariance, PTL

\* The register table and the active set agree between two visits.
THEOREM RegisterTableExact == ScanSpec => []BooksAgree
<1>1. ScanIInv => BooksAgree
  BY DEF ScanIInv
<1>2. QED BY <1>1, ScanInvariance, PTL

\* A visit moves another value out of its register only to hand the register
\* to a value that is needed sooner, with every register of the class taken or
\* reserved: in particular the eviction for a pre-coloured value never happens.
LEMMA VisitPays ==
  ASSUME ScanIInv, NEW v \in Ids, Visit(v), NEW w \in Ids, home[w] \in Regs, home'[w] # home[w]
  PROVE  /\ home'[w] = Frame
         /\ v \in todo
         /\ home'[v] = home[w]
         /\ NextUse(v, an.start[v]) < NextUse(w, an.start[v])
         /\ \A r \in OfClass(an.class[v]) : owner'[r] # NoId \/ r \in Reserved(v)
<1>1. /\ IsNext(v) /\ ScanTypeOK /\ v \in todo /\ home[v] = None /\ NoId \notin Ids
      /\ Allocatable \subseteq Regs
  BY VisitKeeps, NextFacts, IdsAssumption, RegsAssumption DEF ScanIInv
<1>2. w # v
  BY <1>1, FrameAssumption
<1>3. ASSUME NEW r \in Regs, Take(v, r) PROVE OwnerKept(v)[r] = w /\ home'[w] = Frame
  BY <1>2, <1>3 DEF Take
<1>4. ~ToFrame(v)
  BY <1>1, <1>2 DEF ToFrame, ScanTypeOK
<1>5. ~VisitFixed(v)
  <2> SUFFICES ASSUME VisitFixed(v) PROVE FALSE
    OBVIOUS
  <2>1. fixed[v] \in Regs /\ fixed[v] # NoReg /\ Take(v, fixed[v])
    BY <1>1 DEF VisitFixed, ScanTypeOK
  <2>2. OwnerKept(v)[fixed[v]] = NoId
    BY <2>1, FixedRegisterFree
  <2>3. QED BY <1>1, <1>3, <2>1, <2>2
<1>6. ~VisitFree(v)
  BY <1>1, <1>3 DEF VisitFree, Free
<1>7. VisitEvict(v)
  BY <1>4, <1>5, <1>6 DEF Visit, VisitFrame, VisitSpill
<1>8. PICK c \in Candidates(v) : Further(c, v) /\ Take(v, home[c])
  BY <1>7 DEF VisitEvict
<1>9. home[c] \in Regs /\ c \in Kept(v) /\ OwnerKept(v)[home[c]] = c
  BY <1>1, <1>8, ExpireFacts DEF Candidates
<1>10. c = w /\ home'[w] = Frame
  BY <1>3, <1>8, <1>9
<1>11. home'[v] = home[w]
  BY <1>8, <1>10 DEF Take
<1>12. ASSUME NEW r \in OfClass(an.class[v]) PROVE owner'[r] # NoId \/ r \in Reserved(v)
  <2>1. r \notin Free(v) /\ r \in Regs
    BY <1>1, <1>7 DEF VisitEvict, OfClass
  <2>2. OwnerKept(v)[r] # NoId \/ r \in Reserved(v)
    BY <2>1 DEF Free, OfClass
  <2>3. owner' = [OwnerKept(v) EXCEPT ![home[c]] = v]
    BY <1>8 DEF Take
  <2>4. QED BY <1>1, <2>1, <2>2, <2>3, ExpireFacts
<1>13. QED BY <1>1, <1>8, <1>10, <1>11, <1>12 DEF Further

\* The furthest-next-use rule as an action property: a value leaves a register
\* only under pressure and only for one that is needed sooner, and never comes
\* back from the frame.
THEOREM EvictionsPayTheorem == ScanSpec => EvictionsPay
<1> DEFINE Pays == \A w \in Ids : home[w] \in Regs /\ home'[w] # home[w] =>
        /\ home'[w] = Frame
        /\ \E v \in todo : /\ home'[v] = home[w]
                           /\ NextUse(v, an.start[v]) < NextUse(w, an.start[v])
                           /\ \A r \in OfClass(an.class[v]) : owner'[r] # NoId \/ r \in Reserved(v)
<1>1. ScanIInv /\ ScanNext => Pays
  BY VisitPays DEF ScanNext, Precolour, Refuse
<1>2. ScanIInv /\ [ScanNext]_scanVars => [Pays]_scanVars
  BY <1>1
<1>3. QED BY <1>2, ScanInvariance, PTL DEF ScanSpec, EvictionsPay

-----------------------------------------------------------------------------
(* Pressure *)

\* More values of v's class than it has registers, all live at one time.
Crowd(v) == {S \in SUBSET {w \in Eligible : an.class[w] = an.class[v]} :
               /\ Cardinality(S) > Cardinality(OfClass(an.class[v]))
               /\ \A u, w \in S : u # w => Conflicts(u, w)}

\* With nothing pre-coloured, what is in a register may be there, and what was
\* sent to the frame met a crowd: SpillsOnlyUnderPressure at every moment.
Unfixed   == \A v \in an.tracked : fixed[v] = NoReg
Belongs   == \A v \in an.tracked : home[v] \in Regs =>
               v \in Eligible /\ home[v] \in OfClass(an.class[v])
Pressed   == \A v \in Eligible : home[v] = Frame => Crowd(v) # {}
PInv      == phase \in {"scan", "scanned"} /\ Unfixed => Belongs /\ Pressed

\* Two values that are both live where v is written meet each other.
LEMMA KeptConflict ==
  ASSUME ScanIInv, NEW v \in Ids, IsNext(v), NEW x \in Kept(v), NEW y \in Kept(v), x # y
  PROVE  Conflicts(x, y)
<1>1. WellFormed(an) /\ ScanTypeOK /\ an.tracked \subseteq Ids
  BY ScanParts DEF ScanIInv
<1>2. x \in an.tracked /\ y \in an.tracked /\ v \in an.tracked
  BY <1>1, NextFacts DEF Kept, ScanTypeOK
<1>3. /\ an.start[x] \in Int /\ an.end[x] \in Int /\ an.start[y] \in Int /\ an.end[y] \in Int
      /\ an.start[v] \in Int
  BY <1>1, <1>2, ScanParts
<1>4. an.start[x] <= an.start[v] /\ an.start[y] <= an.start[v]
  BY <1>1, <1>2, NextFacts DEF Kept, Visited
<1>5. ASSUME NEW a \in {x, y}, NEW b \in {x, y}, a # b, an.start[a] <= an.start[b]
      PROVE  Reaches(a, b)
  <2>1. a \in active /\ a \notin Expired(v)
    BY DEF Kept
  <2>2. an.end[a] >= an.start[v]
    BY <1>3, <2>1 DEF Expired
  <2>3. an.end[a] >= an.start[b]
    BY <1>3, <1>4, <2>2
  <2>4. ~(an.end[a] = an.start[b] /\ FreesAt(an.start[b], b))
    <3> SUFFICES ASSUME an.end[a] = an.start[b], FreesAt(an.start[b], b) PROVE FALSE
      OBVIOUS
    <3>1. an.start[b] = an.start[v]
      BY <1>3, <1>4, <2>2
    <3>2. b # v
      BY NextFacts DEF Kept
    <3>3. QED BY <1>1, <1>2, <3>1, <3>2 DEF WellFormed, FreesAt
  <2>5. QED BY <2>3, <2>4 DEF Reaches
<1>6. QED BY <1>3, <1>5 DEF Conflicts

\* Where no register is free, what holds the registers and v are a crowd.
LEMMA NoneFree ==
  ASSUME ScanIInv, NEW v \in Ids, IsNext(v), Unfixed, Belongs, v \in Eligible, Free(v) = {}
  PROVE  Crowd(v) # {}
<1> DEFINE c == an.class[v]
           R == OfClass(c)
           holder == [r \in R |-> OwnerKept(v)[r]]
           H == {holder[r] : r \in R}
           S == H \cup {v}
<1>1. /\ IsFiniteSet(R) /\ R \subseteq Regs /\ R \subseteq Allocatable
      /\ \A r \in R : ClassOf[r] = c
  <2>1. R \in SUBSET Allocatable
    BY DEF OfClass
  <2>2. QED BY <2>1, RegsAssumption, FS_Subset DEF OfClass
<1>2. WellFormed(an) /\ ScanTypeOK /\ v \in an.tracked /\ NoId \notin Ids
  BY NextFacts, IdsAssumption DEF ScanIInv
<1>3. Reserved(v) = {}
  BY <1>2, RegsAssumption DEF Reserved, Unfixed
<1>4. ASSUME NEW r \in R
      PROVE  /\ OwnerKept(v)[r] = owner[r] /\ owner[r] \in Kept(v) /\ home[owner[r]] = r
             /\ Conflicts(owner[r], v) /\ owner[r] # v
  <2>1. OwnerKept(v)[r] # NoId
    BY <1>1, <1>3 DEF Free
  <2>2. OwnerKept(v)[r] = owner[r] /\ owner[r] \in Kept(v) /\ home[owner[r]] = r
    BY <1>1, <2>1, ExpireFacts
  <2>3. QED BY <2>2, ExpireFacts, NextFacts DEF Kept
<1>5. \A x \in H : /\ x \in Kept(v) /\ x # v /\ Conflicts(x, v)
                   /\ x \in Eligible /\ an.class[x] = c
  <2> TAKE x \in H
  <2>1. PICK r \in R : x = holder[r]
    OBVIOUS
  <2>2. x \in Kept(v) /\ x # v /\ Conflicts(x, v) /\ home[x] = r
    BY <1>4, <2>1
  <2>3. x \in an.tracked /\ r \in Regs /\ r \in Allocatable
    BY <1>1, <1>2, <2>2 DEF Kept, ScanTypeOK
  <2>4. x \in Eligible /\ r \in OfClass(an.class[x])
    BY <2>2, <2>3 DEF Belongs
  <2>5. ClassOf[r] = c /\ ClassOf[r] = an.class[x]
    BY <1>1, <2>4 DEF OfClass
  <2>6. QED BY <2>2, <2>4, <2>5
<1>6. IsFiniteSet(H) /\ Cardinality(H) = Cardinality(R)
  <2>1. holder \in Bijection(R, H)
    <3>1. holder \in [R -> H]
      OBVIOUS
    <3>2. \A a, b \in R : holder[a] = holder[b] => a = b
      BY <1>4
    <3>3. \A h \in H : \E r \in R : holder[r] = h
      OBVIOUS
    <3>4. QED BY <3>1, <3>2, <3>3 DEF Bijection, Injection, Surjection, IsInjective
  <2>2. ExistsBijection(R, H)
    BY <2>1 DEF ExistsBijection
  <2>3. QED BY <1>1, <2>2, FS_Bijection
<1>7. Cardinality(S) > Cardinality(R)
  <2>1. v \notin H
    BY <1>5
  <2>2. Cardinality(S) = Cardinality(H) + 1
    BY <1>6, <2>1, FS_AddElement
  <2>3. Cardinality(R) \in Nat
    BY <1>1, FS_CardinalityType
  <2>4. QED BY <1>6, <2>2, <2>3
<1>8. S \in SUBSET {w \in Eligible : an.class[w] = c}
  BY <1>5
<1>9. ASSUME NEW x \in S, NEW y \in S, x # y PROVE Conflicts(x, y)
  <2>1. CASE x = v
    <3>1. y \in H
      BY <1>9, <2>1
    <3>2. Conflicts(y, v) /\ y \in Kept(v) /\ y # v
      BY <1>5, <3>1
    <3>3. y \in an.tracked
      BY <1>2, <3>2 DEF Kept, ScanTypeOK
    <3>4. QED BY <1>2, <2>1, <3>2, <3>3, ConflictsSymmetric
  <2>2. CASE y = v
    BY <1>5, <1>9, <2>2
  <2>3. CASE x # v /\ y # v
    BY <1>5, <1>9, <2>3, KeptConflict
  <2>4. QED BY <2>1, <2>2, <2>3
<1>10. S \in Crowd(v)
  BY <1>7, <1>8, <1>9 DEF Crowd
<1>11. QED BY <1>10

\* A crowd is a fact of the analysis alone.
LEMMA CrowdKept ==
  ASSUME an' = an, NEW v
  PROVE  Crowd(v)' = Crowd(v) /\ Eligible' = Eligible /\ OfClass(an.class[v])' = OfClass(an.class[v])
BY DEF Crowd, Eligible, OfClass, Conflicts, Reaches, FreesAt

\* A visit sends a value to the frame only where no register is free.
LEMMA VisitPInv ==
  ASSUME ScanIInv, PInv, NEW v \in Ids, Visit(v)
  PROVE  PInv'
<1>1. /\ an' = an /\ fixed' = fixed /\ IsNext(v) /\ phase = "scan"
      /\ ScanTypeOK /\ WellFormed(an) /\ v \in an.tracked /\ an.tracked \subseteq Ids
      /\ Frame \notin Regs /\ Allocatable \subseteq Regs /\ NoReg \notin Regs /\ home[v] = None
  BY VisitKeeps, NextFacts, ScanParts, FrameAssumption, RegsAssumption DEF ScanIInv, Visit
<1> SUFFICES ASSUME Unfixed PROVE Belongs' /\ Pressed'
  BY <1>1 DEF PInv, Unfixed
<1>2. Belongs /\ Pressed /\ fixed[v] = NoReg
  BY <1>1 DEF PInv, Unfixed
<1>3. ASSUME ToFrame(v), v \in Eligible => Crowd(v) # {}
      PROVE  Belongs' /\ Pressed'
  <2>1. /\ home'[v] = Frame
        /\ \A u \in Ids \ {v} : home'[u] = home[u]
    BY <1>1, <1>3 DEF ToFrame, ScanTypeOK
  <2>2. Belongs'
    BY <1>1, <1>2, <2>1, CrowdKept DEF Belongs
  <2>3. Pressed'
    <3> SUFFICES ASSUME NEW u \in Eligible, home'[u] = Frame PROVE Crowd(u) # {}
      BY <1>1, CrowdKept DEF Pressed
    <3>1. u \in Ids
      BY <1>1 DEF Eligible
    <3>2. QED BY <1>2, <1>3, <2>1, <3>1 DEF Pressed
  <2>4. QED BY <2>2, <2>3
<1>4. ASSUME NEW r \in OfClass(an.class[v]), Take(v, r), v \in Eligible,
             OwnerKept(v)[r] = NoId \/ Free(v) = {}
      PROVE  Belongs' /\ Pressed'
  <2> DEFINE w == OwnerKept(v)[r]
  <2>1. /\ r \in Regs
        /\ home'[v] = r
        /\ \A u \in Ids \ {v} : home'[u] = IF u = w THEN Frame ELSE home[u]
    BY <1>1, <1>4 DEF Take, OfClass
  <2>2. Belongs'
    <3> SUFFICES ASSUME NEW u \in an.tracked, home'[u] \in Regs
                 PROVE  u \in Eligible /\ home'[u] \in OfClass(an.class[u])
      BY <1>1, CrowdKept DEF Belongs
    <3>1. CASE u = v
      BY <1>4, <2>1, <3>1
    <3>2. CASE u # v
      BY <1>1, <1>2, <2>1, <3>2 DEF Belongs
    <3>3. QED BY <3>1, <3>2
  <2>3. Pressed'
    <3> SUFFICES ASSUME NEW u \in Eligible, home'[u] = Frame PROVE Crowd(u) # {}
      BY <1>1, CrowdKept DEF Pressed
    <3>1. u \in Ids /\ u # v
      BY <1>1, <2>1 DEF Eligible
    <3>2. CASE u # w
      BY <1>2, <2>1, <3>1, <3>2 DEF Pressed
    <3>3. CASE u = w
      <4>1. w # NoId
        BY <3>1, <3>3, IdsAssumption
      <4>2. Crowd(v) # {}
        BY <1>1, <1>2, <1>4, <4>1, NoneFree
      <4>3. home[u] = r
        BY <1>1, <2>1, <3>3, <4>1, ExpireFacts
      <4>4. r \in OfClass(an.class[u])
        BY <1>2, <2>1, <4>3 DEF Belongs, Eligible
      <4>5. an.class[u] = an.class[v]
        BY <1>4, <4>4 DEF OfClass
      <4>6. QED BY <4>2, <4>5 DEF Crowd
    <3>4. QED BY <3>2, <3>3
  <2>4. QED BY <2>2, <2>3
<1>5. CASE VisitFrame(v)
  BY <1>3, <1>5 DEF VisitFrame, Eligible
<1>6. CASE VisitFixed(v)
  BY <1>2, <1>6 DEF VisitFixed
<1>7. CASE VisitFree(v)
  <2>1. PICK r \in Free(v) : Take(v, r)
    BY <1>7 DEF VisitFree
  <2>2. r \in OfClass(an.class[v]) /\ OwnerKept(v)[r] = NoId
    BY <2>1 DEF Free, OfClass
  <2>3. v \in Eligible
    BY <1>1, <1>7 DEF VisitFree, Eligible
  <2>4. QED BY <1>4, <2>1, <2>2, <2>3
<1>8. CASE VisitEvict(v)
  <2>1. PICK c \in Candidates(v) : Take(v, home[c])
    BY <1>8 DEF VisitEvict
  <2>2. c \in an.tracked /\ home[c] \in Regs /\ ClassOf[home[c]] = an.class[v]
    BY <1>1, <2>1 DEF Candidates, Kept, ScanTypeOK
  <2>3. home[c] \in OfClass(an.class[v])
    BY <1>2, <2>2 DEF Belongs, OfClass
  <2>4. v \in Eligible /\ Free(v) = {}
    BY <1>1, <1>8 DEF VisitEvict, Eligible
  <2>5. QED BY <1>4, <2>1, <2>3, <2>4
<1>9. CASE VisitSpill(v)
  <2>1. ToFrame(v) /\ Free(v) = {}
    BY <1>9 DEF VisitSpill
  <2>2. v \in Eligible => Crowd(v) # {}
    BY <1>1, <1>2, <2>1, NoneFree
  <2>3. QED BY <1>3, <2>1, <2>2
<1>10. QED BY <1>5, <1>6, <1>7, <1>8, <1>9 DEF Visit

\* Before the scan nothing has a home.
LEMMA PrecolourPInv == ScanIInv /\ Precolour => PInv'
<1> SUFFICES ASSUME ScanIInv, Precolour PROVE Belongs' /\ Pressed'
  BY DEF PInv
<1>1. /\ an' = an /\ home' = home /\ \A v \in an.tracked : home[v] = None
      /\ None \notin Regs
  BY FrameAssumption DEF Precolour, ScanIInv, Homeless
<1>2. Belongs'
  BY <1>1 DEF Belongs
<1>3. Pressed'
  BY <1>1, FrameAssumption DEF Pressed, Eligible
<1>4. QED BY <1>2, <1>3

\* A value goes to the frame only if more values of its class than there are
\* registers are live at one time: the scan never spills out of carelessness,
\* through a register it forgot to give back or an eviction for nothing.
THEOREM SpillsNeedPressure == ScanSpec => []SpillsOnlyUnderPressure
<1>1. ScanInit => PInv
  BY DEF ScanInit, InitScan, PInv
<1>2. ScanIInv /\ PInv /\ [ScanNext]_scanVars => PInv'
  <2> SUFFICES ASSUME ScanIInv, PInv, [ScanNext]_scanVars PROVE PInv'
    OBVIOUS
  <2>1. CASE Precolour
    BY <2>1, PrecolourPInv
  <2>2. CASE Refuse
    BY <2>2 DEF Refuse, PInv
  <2>3. CASE \E v \in Ids : Visit(v)
    BY <2>3, VisitPInv
  <2>4. CASE UNCHANGED scanVars
    <3>1. an' = an /\ phase' = phase /\ home' = home /\ fixed' = fixed
      BY <2>4 DEF scanVars
    <3>2. Belongs' = Belongs /\ Pressed' = Pressed /\ Unfixed' = Unfixed
      BY <3>1, CrowdKept DEF Belongs, Pressed, Unfixed
    <3>3. QED BY <3>1, <3>2 DEF PInv
  <2>5. QED BY <2>1, <2>2, <2>3, <2>4 DEF ScanNext
<1>3. PInv => SpillsOnlyUnderPressure
  <2> SUFFICES ASSUME PInv, phase = "scanned", Unfixed, NEW v \in Eligible, home[v] = Frame
               PROVE  \E S \in SUBSET {w \in Eligible : an.class[w] = an.class[v]} :
                        /\ Cardinality(S) > Cardinality(OfClass(an.class[v]))
                        /\ \A u, w \in S : u # w => Conflicts(u, w)
    BY DEF SpillsOnlyUnderPressure, Unfixed
  <2>1. Crowd(v) # {}
    BY DEF PInv, Pressed
  <2>2. QED BY <2>1 DEF Crowd
<1>4. QED BY <1>1, <1>2, <1>3, ScanInvariance, PTL DEF ScanSpec

-----------------------------------------------------------------------------
(* Liveness *)

Sets == /\ liveIn = [b \in Blocks(fn) |-> liveIn[b]]
        /\ liveOut = [b \in Blocks(fn) |-> liveOut[b]]
        /\ order \in Seq(Blocks(fn))
        /\ next \in 0 .. Len(order)
        /\ grew \in BOOLEAN /\ settled \in BOOLEAN

EveryBlock == \A b \in Blocks(fn) : \E k \in 1 .. Len(order) : order[k] = b

\* What a round has shown so far.
VisitedClosed == ~grew => \A k \in next + 1 .. Len(order) : Closed(order[k])

StopsClean == settled => next = 0 /\ ~grew

LivenessIInv == Sets /\ EveryBlock /\ VisitedClosed /\ StopsClean

\* A visit that grows no live-in set leaves all of them as they were
\* (src/ssa/regalloc.go, the union that reports growth).
LEMMA NoGrowthNoChange ==
  ASSUME LivenessIInv, VisitBlock, ~grew'
  PROVE  /\ ~grew
         /\ order[next] \in Blocks(fn)
         /\ liveIn' = liveIn
         /\ liveOut' = [liveOut EXCEPT ![order[next]] = @ \cup LiveOutOf(order[next])]
         /\ LiveBefore(fn, fn.vals[order[next]], liveOut[order[next]] \cup LiveOutOf(order[next]))
              \subseteq liveIn[order[next]]
<1> DEFINE b   == order[next]
           out == liveOut[b] \cup LiveOutOf(b)
           in  == LiveBefore(fn, fn.vals[b], out)
<1>1. b \in Blocks(fn)
  BY DEF LivenessIInv, Sets, VisitBlock
<1>2. /\ liveOut' = [liveOut EXCEPT ![b] = out]
      /\ liveIn' = [liveIn EXCEPT ![b] = @ \cup in]
      /\ grew' = (grew \/ ~(in \subseteq liveIn[b]))
  BY DEF VisitBlock
<1>3. ~grew /\ in \subseteq liveIn[b]
  BY <1>2
<1> HIDE DEF in, out, b
<1>4. liveIn[b] \cup in = liveIn[b]
  BY <1>3
<1>5. liveIn' = liveIn
  BY <1>1, <1>2, <1>4 DEF LivenessIInv, Sets
<1>6. liveOut' = [liveOut EXCEPT ![b] = @ \cup LiveOutOf(b)]
  BY <1>2 DEF out
<1> QED
  BY <1>1, <1>3, <1>5, <1>6 DEF b, in, out

\* The loop starts with nothing visited.
LEMMA LivenessInitIInv == LivenessInit => LivenessIInv
<1> SUFFICES ASSUME LivenessInit PROVE LivenessIInv
  OBVIOUS
<1>1. Sets
  <2>1. Len(order) \in Nat /\ next \in 0 .. Len(order)
    BY DEF LivenessInit, InitLiveness
  <2>2. liveIn = [b \in Blocks(fn) |-> liveIn[b]] /\ liveOut = [b \in Blocks(fn) |-> liveOut[b]]
    BY DEF LivenessInit, InitLiveness
  <2>3. grew \in BOOLEAN /\ settled \in BOOLEAN /\ order \in Seq(Blocks(fn))
    BY Zenon DEF LivenessInit, InitLiveness
  <2> QED
    BY <2>1, <2>2, <2>3, Zenon DEF Sets
<1>2. EveryBlock
  BY DEF LivenessInit, EveryBlock, ToSet
<1>3. VisitedClosed /\ StopsClean
  BY <1>1 DEF LivenessInit, InitLiveness, VisitedClosed, StopsClean, Sets
<1> QED
  BY <1>1, <1>2, <1>3 DEF LivenessIInv

\* One block's visit, growing or not, keeps what the round has shown.
LEMMA VisitKeepsIInv == LivenessIInv /\ VisitBlock => LivenessIInv'
<1> SUFFICES ASSUME LivenessIInv, VisitBlock PROVE LivenessIInv'
  OBVIOUS
<1>0. next \in 1 .. Len(order) /\ next' = next - 1 /\ fn' = fn /\ order' = order /\ settled' = settled
      /\ ~settled
  BY DEF LivenessIInv, Sets, VisitBlock
<1>1. Sets'
  <2>1. /\ liveIn' = [b \in Blocks(fn) |-> liveIn'[b]]
        /\ liveOut' = [b \in Blocks(fn) |-> liveOut'[b]]
        /\ grew' \in BOOLEAN
    BY DEF LivenessIInv, Sets, VisitBlock
  <2> QED
    BY <1>0, <2>1 DEF LivenessIInv, Sets, Blocks
<1>2. EveryBlock'
  BY <1>0 DEF LivenessIInv, EveryBlock, Blocks
<1>3. VisitedClosed'
  <2> SUFFICES ASSUME ~grew', NEW k \in next .. Len(order)
               PROVE  Closed(order[k])'
    BY <1>0 DEF VisitedClosed
  <2> DEFINE b == order[next]
  <2>1. /\ b \in Blocks(fn) /\ liveIn' = liveIn /\ ~grew
        /\ liveOut' = [liveOut EXCEPT ![b] = @ \cup LiveOutOf(b)]
        /\ LiveBefore(fn, fn.vals[b], liveOut[b] \cup LiveOutOf(b)) \subseteq liveIn[b]
    BY NoGrowthNoChange
  <2>2. \A c : LiveOutOf(c)' = LiveOutOf(c)
    BY <1>0, <2>1 DEF LiveOutOf, ReadAtEnd
  <2> DEFINE c == order[k]
  <2>3. c \in Blocks(fn)
    BY <1>0 DEF LivenessIInv, Sets
  <2>4. CASE c = b
    <3>1. liveOut'[c] = liveOut[c] \cup LiveOutOf(c)
      BY <2>1, <2>3, <2>4 DEF LivenessIInv, Sets
    <3> QED
      BY <1>0, <2>1, <2>2, <2>4, <3>1 DEF Closed
  <2>5. CASE c # b
    <3>1. liveOut'[c] = liveOut[c]
      BY <2>1, <2>3, <2>5 DEF LivenessIInv, Sets
    <3>2. k \in next + 1 .. Len(order)
      BY <1>0, <2>5
    <3>3. Closed(c)
      BY <2>1, <3>2 DEF LivenessIInv, VisitedClosed
    <3> QED
      BY <1>0, <2>1, <2>2, <3>1, <3>3 DEF Closed
  <2> QED
    BY <1>0, <2>4, <2>5
<1>4. StopsClean'
  BY <1>0 DEF StopsClean
<1> QED
  BY <1>1, <1>2, <1>3, <1>4 DEF LivenessIInv

\* The end of a round starts another with nothing visited, or stops with every
\* block visited.
LEMMA EndKeepsIInv == LivenessIInv /\ EndRound => LivenessIInv'
<1> SUFFICES ASSUME LivenessIInv, EndRound PROVE LivenessIInv'
  OBVIOUS
<1>1. fn' = fn /\ order' = order /\ liveIn' = liveIn /\ liveOut' = liveOut /\ next = 0
  BY DEF EndRound
<1>2. CASE grew
  <2>1. next' = Len(order) /\ grew' = FALSE /\ settled' = settled /\ ~settled
    BY <1>2 DEF EndRound
  <2>2. next' \in 0 .. Len(order') /\ next' + 1 .. Len(order') = {}
    BY <1>1, <2>1 DEF LivenessIInv, Sets
  <2>3. liveIn' = [b \in Blocks(fn) |-> liveIn[b]] /\ liveOut' = [b \in Blocks(fn) |-> liveOut[b]]
    BY <1>1 DEF LivenessIInv, Sets
  <2>4. Sets'
    BY <1>1, <2>1, <2>2, <2>3, Zenon DEF LivenessIInv, Sets, Blocks
  <2>5. EveryBlock' /\ VisitedClosed' /\ StopsClean'
    BY <1>1, <2>1, <2>2, Zenon DEF LivenessIInv, EveryBlock, VisitedClosed, StopsClean, Blocks
  <2> QED
    BY <2>4, <2>5 DEF LivenessIInv
<1>3. CASE ~grew
  <2>1. settled' = TRUE /\ next' = next /\ grew' = grew
    BY <1>3 DEF EndRound
  <2>2. Sets' /\ EveryBlock' /\ StopsClean'
    BY <1>1, <1>3, <2>1 DEF LivenessIInv, Sets, EveryBlock, StopsClean, Blocks
  <2>3. \A c : Closed(c)' <=> Closed(c)
    BY <1>1 DEF Closed, LiveOutOf, ReadAtEnd
  <2>4. VisitedClosed'
    BY <1>1, <2>1, <2>3 DEF LivenessIInv, VisitedClosed
  <2> QED
    BY <2>2, <2>4 DEF LivenessIInv
<1> QED
  BY <1>2, <1>3

\* Every step keeps the invariant.
LEMMA LivenessStepIInv == LivenessIInv /\ [LivenessNext]_livenessVars => LivenessIInv'
<1>1. LivenessIInv /\ UNCHANGED livenessVars => LivenessIInv'
  <2> SUFFICES ASSUME LivenessIInv, UNCHANGED livenessVars PROVE LivenessIInv'
    OBVIOUS
  <2>1. \A c : Closed(c)' <=> Closed(c)
    BY DEF Closed, LiveOutOf, ReadAtEnd, livenessVars
  <2>2. VisitedClosed'
    BY <2>1 DEF LivenessIInv, VisitedClosed, livenessVars
  <2>3. Sets' /\ EveryBlock' /\ StopsClean'
    BY DEF LivenessIInv, Sets, EveryBlock, StopsClean, Blocks, livenessVars
  <2> QED
    BY <2>2, <2>3 DEF LivenessIInv
<1> QED
  BY <1>1, VisitKeepsIInv, EndKeepsIInv DEF LivenessNext

\* The invariant holds throughout.
THEOREM LivenessInvariance == LivenessSpec => []LivenessIInv
BY LivenessInitIInv, LivenessStepIInv, PTL DEF LivenessSpec

\* A loop that stopped has visited every block in a round without growth.
LEMMA StopsClosed == LivenessIInv => FixedPoint
<1> SUFFICES ASSUME LivenessIInv, settled, NEW b \in Blocks(fn) PROVE Closed(b)
  BY DEF FixedPoint
<1>1. PICK k \in 1 .. Len(order) : order[k] = b
  BY DEF LivenessIInv, EveryBlock
<1> QED
  BY <1>1 DEF LivenessIInv, StopsClean, VisitedClosed

\* When the loop stops, every block's sets hold all that its successors, its
\* phis' operands and its own values ask for, whatever the order of the blocks.
THEOREM StopsAtFixedPoint == LivenessSpec => []FixedPoint
BY LivenessInvariance, StopsClosed, PTL

-----------------------------------------------------------------------------
(* What a block leaves live *)

\* it computes, for the places of vs that are left, what is live before them
\* when A is live after them.
Steps(f, vs, A, it) ==
  /\ LiveBefore(f, vs, A) = it[DOMAIN vs]
  /\ it[{}] = A
  /\ \A s \in SUBSET DOMAIN vs :
        s # {} => Min(s) \in s /\ it[s] = (it[s \ {Min(s)}] \ {vs[Min(s)]}) \cup Reads(f, vs[Min(s)])

\* The fold over a block's values is computed that way.
LEMMA LiveBeforeFolds ==
  ASSUME NEW f, NEW vs \in Seq(DOMAIN f.op), NEW A
  PROVE  \E it : Steps(f, vs, A, it)
<1> DEFINE S == DOMAIN vs
           V == SUBSET (Tracked(f) \cup A)
           c == [s \in SUBSET S |-> Min(s)]
           g == [s \in SUBSET S |-> [l \in V |-> (l \ {vs[Min(s)]}) \cup Reads(f, vs[Min(s)])]]
           it == CHOOSE it : it = [s \in SUBSET S |->
                    IF s = {} THEN A ELSE (it[s \ {Min(s)}] \ {vs[Min(s)]}) \cup Reads(f, vs[Min(s)])]
<1>1. LiveBefore(f, vs, A) = it[S]
  BY DEF LiveBefore, FoldRight, MapThenFoldSet
<1>2. IsFiniteSet(S) /\ S \subseteq Nat
  BY FS_Interval
<1> HIDE DEF S
<1>3. \A s \in SUBSET S : s # {} => Min(s) \in s
  BY <1>2, MinFacts
<1>4. A \in V /\ \A v : Reads(f, v) \subseteq Tracked(f)
  BY DEF Reads
<1>0. PICK h : FoldOf(h, S, V, A, c, g)
  <2>1. \A s \in SUBSET S : s # {} => c[s] \in s
    BY <1>3
  <2>2. \A s \in SUBSET S, v \in V : g[s][v] \in V
    BY <1>4
  <2> HIDE DEF c, g, V
  <2>3. Folds(S, V, A, c, g)
    BY <1>2, <1>4, <2>1, <2>2 DEF Folds
  <2> QED BY <2>3, FoldExists
<1>5. h \in [SUBSET S -> V] /\ \A s \in SUBSET S : h[s] = IF s = {} THEN A ELSE g[s][h[s \ {c[s]}]]
  BY <1>0 DEF FoldOf
<1>6. ASSUME NEW s \in SUBSET S, s # {}
      PROVE  h[s] = (h[s \ {Min(s)}] \ {vs[Min(s)]}) \cup Reads(f, vs[Min(s)])
  <2>1. h[s \ {Min(s)}] \in V
    BY <1>5
  <2> HIDE DEF V
  <2> QED BY <1>5, <1>6, <2>1
<1>7. h = [s \in SUBSET S |-> IF s = {} THEN A ELSE (h[s \ {Min(s)}] \ {vs[Min(s)]}) \cup Reads(f, vs[Min(s)])]
  <2> HIDE DEF V
  <2>1. h[{}] = A
    BY <1>5
  <2> QED BY <1>5, <1>6, <2>1
<1>8. it = [s \in SUBSET S |-> IF s = {} THEN A ELSE (it[s \ {Min(s)}] \ {vs[Min(s)]}) \cup Reads(f, vs[Min(s)])]
  BY <1>7
<1> HIDE DEF it
<1> QED
  BY <1>1, <1>3, <1>8 DEF S, Steps

\* What is live before a block's values is what they ask for themselves, which
\* occupies storage, and what is live after them that they do not write.
LEMMA LiveBeforeSplits ==
  ASSUME NEW f, NEW vs \in Seq(DOMAIN f.op)
  PROVE  /\ LiveBefore(f, vs, {}) \subseteq Tracked(f)
         /\ \A A : LiveBefore(f, vs, A) = LiveBefore(f, vs, {}) \cup (A \ ToSet(vs))
<1> DEFINE S == DOMAIN vs
<1>1. IsFiniteSet(S)
  BY FS_Interval
<1>2. \A v : Reads(f, v) \subseteq Tracked(f)
  BY DEF Reads
<1>3. PICK none : Steps(f, vs, {}, none)
  BY LiveBeforeFolds
<1>0. /\ LiveBefore(f, vs, {}) = none[S] /\ none[{}] = {}
      /\ \A s \in SUBSET S :
            s # {} => Min(s) \in s /\ none[s] = (none[s \ {Min(s)}] \ {vs[Min(s)]}) \cup Reads(f, vs[Min(s)])
  BY <1>3 DEF Steps
<1> HIDE DEF S
<1>4. none[S] \subseteq Tracked(f)
  <2> DEFINE P == {s \in SUBSET S : none[s] \subseteq Tracked(f)}
  <2>1. {} \in P
    BY <1>0
  <2>2. ASSUME NEW s \in SUBSET S, s # {}, \A x \in s : s \ {x} \in P PROVE s \in P
    BY <1>2, <1>0, <2>2
  <2> HIDE DEF P
  <2>3. S \in P
    BY <1>1, <2>1, <2>2, SetInduction
  <2> QED BY <2>3 DEF P
<1>5. ASSUME NEW A PROVE LiveBefore(f, vs, A) = LiveBefore(f, vs, {}) \cup (A \ ToSet(vs))
  <2>0. PICK it : Steps(f, vs, A, it)
    BY LiveBeforeFolds
  <2>1. /\ LiveBefore(f, vs, A) = it[S] /\ it[{}] = A
        /\ \A s \in SUBSET S :
              s # {} => Min(s) \in s /\ it[s] = (it[s \ {Min(s)}] \ {vs[Min(s)]}) \cup Reads(f, vs[Min(s)])
    BY <2>0 DEF Steps, S
  <2> DEFINE P == {s \in SUBSET S : it[s] = none[s] \cup (A \ {vs[k] : k \in s})}
  <2>2. {} \in P
    BY <1>0, <2>1
  <2>3. ASSUME NEW s \in SUBSET S, s # {}, \A x \in s : s \ {x} \in P PROVE s \in P
    <3> DEFINE m == Min(s)
    <3>1. m \in s
      BY <2>1, <2>3
    <3> HIDE DEF m
    <3>2. it[s \ {m}] = none[s \ {m}] \cup (A \ {vs[k] : k \in s \ {m}})
      BY <2>3, <3>1
    <3>3. it[s] = (it[s \ {m}] \ {vs[m]}) \cup Reads(f, vs[m]) /\ none[s] = (none[s \ {m}] \ {vs[m]}) \cup Reads(f, vs[m])
      BY <1>0, <2>1, <2>3 DEF m
    <3>4. {vs[k] : k \in s} = {vs[k] : k \in s \ {m}} \cup {vs[m]}
      BY <3>1
    <3>5. it[s] = none[s] \cup (A \ {vs[k] : k \in s})
      <4> DEFINE W == {vs[k] : k \in s \ {m}}
      <4> HIDE DEF W
      <4>1. ((none[s \ {m}] \cup (A \ W)) \ {vs[m]}) \cup Reads(f, vs[m])
            = ((none[s \ {m}] \ {vs[m]}) \cup Reads(f, vs[m])) \cup (A \ (W \cup {vs[m]}))
            \/ \E x : x \in A /\ x \notin W /\ x # vs[m]
        OBVIOUS
      <4> QED BY <3>2, <3>3, <3>4 DEF W
    <3> QED BY <3>5
  <2> HIDE DEF P
  <2>4. S \in P
    BY <1>1, <2>2, <2>3, SetInduction
  <2>5. it[S] = none[S] \cup (A \ {vs[k] : k \in S})
    BY <2>4 DEF P
  <2> QED BY <1>0, <2>1, <2>5 DEF ToSet, S
<1> QED
  BY <1>0, <1>4, <1>5

-----------------------------------------------------------------------------
(* Paths *)

\* What a path from the blocks of X reaches in one step without writing v.
Onward(f, X, v) == UNION {ToSet(f.succs[c]) : c \in {d \in X : ~Contains(f.vals[d], v)}}

\* A set of blocks that no path leaves without writing v.
Keeps(f, T, v) == \A d \in T : ~Contains(f.vals[d], v) => ToSet(f.succs[d]) \subseteq T

\* The blocks that a path reaches without writing v are the least set that the
\* path does not leave: counting as many steps as there are blocks is enough.
LEMMA UnwrittenIsLeast ==
  ASSUME NEW f, FlowGraph(f), NEW b \in Blocks(f), NEW v
  PROVE  /\ b \in Unwritten(f, b, v) /\ Unwritten(f, b, v) \subseteq Blocks(f)
         /\ Keeps(f, Unwritten(f, b, v), v)
         /\ \A T \in SUBSET Blocks(f) : b \in T /\ Keeps(f, T, v) => Unwritten(f, b, v) \subseteq T
<1> DEFINE S == Blocks(f)
           N == Len(f.vals)
           g == [X \in SUBSET S |-> {b} \cup Onward(f, X, v)]
           reach == CHOOSE reach : reach = [n \in 0 .. N |->
                       {b} \cup (IF n = 0 THEN {} ELSE Onward(f, reach[n - 1], v))]
<1>1. Unwritten(f, b, v) = reach[N]
  BY DEF Unwritten, Onward
<1>2. N \in Nat /\ S = 1 .. N /\ IsFiniteSet(S) /\ Cardinality(S) <= N
  BY FS_Interval DEF FlowGraph, Blocks
<1>3. \A d \in S : ToSet(f.succs[d]) \subseteq S
  BY DEF FlowGraph, ToSet
<1> HIDE DEF S, N
<1>4. \A X \in SUBSET S : g[X] = {b} \cup Onward(f, X, v) /\ Onward(f, X, v) \subseteq S
  BY <1>3 DEF Onward
<1>5. b \in S
  BY DEF S
<1>6. \A X, Y \in SUBSET S : X \subseteq Y => Onward(f, X, v) \subseteq Onward(f, Y, v)
  BY DEF Onward
<1> HIDE DEF g
<1>7. Repeats(N, SUBSET S, {b}, g) /\ Grows(S, N, {b}, g)
  <2>1. \A X \in SUBSET S : g[X] \subseteq S /\ {b} \subseteq g[X]
    BY <1>4, <1>5
  <2>2. \A X, Y \in SUBSET S : X \subseteq Y => g[X] \subseteq g[Y] /\ g[Y] \subseteq S
    BY <1>4, <1>6, <2>1
  <2> QED BY <1>2, <1>5, <2>1, <2>2 DEF Repeats, Grows
<1>8. PICK it : IterationOf(it, N, SUBSET S, {b}, g)
  BY <1>7, IterationExists
<1>9. \A n \in 0 .. N : it[n] = {b} \cup (IF n = 0 THEN {} ELSE Onward(f, it[n - 1], v))
  <2> TAKE n \in 0 .. N
  <2>1. CASE n = 0
    BY <1>8, <2>1 DEF IterationOf
  <2>2. CASE n # 0
    <3>1. n - 1 \in 0 .. N
      BY <1>2, <2>2
    <3>2. it[n] = g[it[n - 1]] /\ it[n - 1] \in SUBSET S
      BY <1>8, <2>2, <3>1 DEF IterationOf
    <3> QED BY <1>4, <2>2, <3>2
  <2> QED BY <2>1, <2>2
<1>10. it = [n \in 0 .. N |-> {b} \cup (IF n = 0 THEN {} ELSE Onward(f, it[n - 1], v))]
  BY <1>8, <1>9 DEF IterationOf
<1>11. reach = [n \in 0 .. N |-> {b} \cup (IF n = 0 THEN {} ELSE Onward(f, reach[n - 1], v))]
  BY <1>10
<1> HIDE DEF reach
<1>12. IterationOf(reach, N, SUBSET S, {b}, g)
  <2> DEFINE P == {n \in Nat : n \in 0 .. N => reach[n] = it[n]}
  <2>1. \A n \in 0 .. N : reach[n] = {b} \cup (IF n = 0 THEN {} ELSE Onward(f, reach[n - 1], v))
    BY <1>11
  <2>2. 0 \in P
    BY <1>2, <1>9, <2>1
  <2>3. ASSUME NEW n \in Nat, n \in P PROVE n + 1 \in P
    <3> SUFFICES ASSUME n + 1 \in 0 .. N PROVE reach[n + 1] = it[n + 1]
      OBVIOUS
    <3>1. n \in 0 .. N /\ (n + 1) - 1 = n /\ n + 1 # 0
      BY <1>2
    <3> QED BY <1>9, <2>1, <2>3, <3>1
  <2> HIDE DEF P
  <2>4. \A n \in Nat : n \in P
    BY <2>2, <2>3, NumberInduction
  <2>5. \A n \in 0 .. N : reach[n] = it[n]
    BY <1>2, <2>4 DEF P
  <2>6. reach = it
    BY <1>8, <1>11, <2>5 DEF IterationOf
  <2> QED BY <1>8, <2>6
<1>13. Rests(S, {b}, g, reach[N])
  BY <1>7, <1>12, IterationSettles
<1>14. /\ reach[N] \in SUBSET S /\ {b} \subseteq reach[N] /\ g[reach[N]] = reach[N]
       /\ \A T \in SUBSET S : {b} \subseteq T /\ g[T] \subseteq T => reach[N] \subseteq T
  BY <1>13 DEF Rests
<1>15. b \in reach[N] /\ Onward(f, reach[N], v) \subseteq reach[N]
  BY <1>4, <1>14
<1>16. Keeps(f, reach[N], v)
  BY <1>15 DEF Keeps, Onward
<1>17. ASSUME NEW T \in SUBSET S, b \in T, Keeps(f, T, v) PROVE reach[N] \subseteq T
  <2>1. Onward(f, T, v) \subseteq T
    BY <1>17 DEF Keeps, Onward
  <2> QED BY <1>4, <1>14, <1>17, <2>1
<1> QED
  BY <1>1, <1>14, <1>15, <1>16, <1>17 DEF S

-----------------------------------------------------------------------------
(* The sets and the paths *)

\* Nothing is in the sets that no path asks for.
Wanted == /\ FlowGraph(fn)
          /\ \A b \in Blocks(fn) : liveIn[b] \subseteq LiveAtStart(fn, b) /\ liveOut[b] \subseteq LiveAtEnd(fn, b)

\* What is live at the end of a block and not written in it is live at its start.
LEMMA CarriedBack ==
  ASSUME NEW f, FlowGraph(f), NEW b \in Blocks(f)
  PROVE  LiveBefore(f, f.vals[b], LiveAtEnd(f, b)) \subseteq LiveAtStart(f, b)
<1> SUFFICES ASSUME NEW v \in LiveBefore(f, f.vals[b], LiveAtEnd(f, b)) PROVE v \in LiveAtStart(f, b)
  OBVIOUS
<1>1. f.vals[b] \in Seq(DOMAIN f.op)
  BY DEF FlowGraph, Blocks
<1>2. /\ LiveBefore(f, f.vals[b], {}) \subseteq Tracked(f)
      /\ LiveBefore(f, f.vals[b], LiveAtEnd(f, b)) = LiveBefore(f, f.vals[b], {}) \cup (LiveAtEnd(f, b) \ ToSet(f.vals[b]))
  BY <1>1, LiveBeforeSplits
<1>3. b \in Unwritten(f, b, v)
  BY UnwrittenIsLeast
<1>4. CASE v \in LiveBefore(f, f.vals[b], {})
  BY <1>2, <1>3, <1>4 DEF LiveAtStart, Demands
<1>5. CASE v \in LiveAtEnd(f, b) \ ToSet(f.vals[b])
  <2>1. ~Contains(f.vals[b], v)
    BY <1>1, <1>5 DEF Contains, ToSet
  <2>2. CASE v \in ReadAtEnd(f, b)
    <3>1. v \in Tracked(f)
      BY <2>2 DEF ReadAtEnd
    <3> QED BY <1>3, <2>1, <2>2, <3>1 DEF LiveAtStart, Demands
  <2>3. CASE \E s \in ToSet(f.succs[b]) : v \in LiveAtStart(f, s)
    <3>1. PICK s \in ToSet(f.succs[b]) : v \in LiveAtStart(f, s)
      BY <2>3
    <3>2. PICK c \in Unwritten(f, s, v) : v \in Tracked(f) /\ Demands(f, c, v)
      BY <3>1 DEF LiveAtStart
    <3>3. s \in Unwritten(f, b, v) /\ Unwritten(f, b, v) \in SUBSET Blocks(f) /\ Keeps(f, Unwritten(f, b, v), v)
      BY <1>3, <2>1, <3>1, UnwrittenIsLeast DEF Keeps
    <3>4. Unwritten(f, s, v) \subseteq Unwritten(f, b, v)
      BY <3>3, UnwrittenIsLeast
    <3> QED BY <3>2, <3>4 DEF LiveAtStart
  <2> QED BY <1>5, <2>2, <2>3 DEF LiveAtEnd
<1> QED
  BY <1>2, <1>4, <1>5

\* A block's visit adds what a path asks for.
LEMMA VisitWanted == LivenessIInv /\ Wanted /\ VisitBlock => Wanted'
<1> SUFFICES ASSUME LivenessIInv, Wanted, VisitBlock PROVE Wanted'
  OBVIOUS
<1> DEFINE b   == order[next]
           out == liveOut[b] \cup LiveOutOf(b)
           in  == LiveBefore(fn, fn.vals[b], out)
<1>1. b \in Blocks(fn) /\ fn' = fn /\ FlowGraph(fn)
  BY DEF LivenessIInv, Sets, VisitBlock, Wanted
<1>2. liveOut' = [liveOut EXCEPT ![b] = out] /\ liveIn' = [liveIn EXCEPT ![b] = @ \cup in]
  BY DEF VisitBlock
<1>3. out \subseteq LiveAtEnd(fn, b)
  <2>1. \A s \in ToSet(fn.succs[b]) : s \in Blocks(fn)
    BY <1>1 DEF FlowGraph, ToSet
  <2>2. LiveOutOf(b) \subseteq LiveAtEnd(fn, b)
    BY <2>1 DEF LiveOutOf, LiveAtEnd, Wanted
  <2> HIDE DEF b
  <2> QED BY <1>1, <2>2 DEF Wanted
<1>4. in \subseteq LiveAtStart(fn, b)
  <2> HIDE DEF out, b
  <2>1. fn.vals[b] \in Seq(DOMAIN fn.op)
    BY <1>1 DEF FlowGraph, Blocks
  <2>2. in \subseteq LiveBefore(fn, fn.vals[b], LiveAtEnd(fn, b))
    <3>1. \A A : LiveBefore(fn, fn.vals[b], A) = LiveBefore(fn, fn.vals[b], {}) \cup (A \ ToSet(fn.vals[b]))
      BY <2>1, LiveBeforeSplits
    <3>2. in = LiveBefore(fn, fn.vals[b], {}) \cup (out \ ToSet(fn.vals[b]))
      BY <3>1
    <3>3. LiveBefore(fn, fn.vals[b], LiveAtEnd(fn, b)) = LiveBefore(fn, fn.vals[b], {}) \cup (LiveAtEnd(fn, b) \ ToSet(fn.vals[b]))
      BY <3>1
    <3> QED BY <1>3, <3>2, <3>3
  <2> QED BY <1>1, <2>2, CarriedBack
<1>5. \A c : LiveAtStart(fn, c)' = LiveAtStart(fn, c) /\ LiveAtEnd(fn, c)' = LiveAtEnd(fn, c)
  BY <1>1 DEF LiveAtStart, LiveAtEnd, Unwritten, Demands
<1> HIDE DEF b, in, out
<1>6. ASSUME NEW c \in Blocks(fn) PROVE liveIn'[c] \subseteq LiveAtStart(fn, c) /\ liveOut'[c] \subseteq LiveAtEnd(fn, c)
  BY <1>1, <1>2, <1>3, <1>4 DEF LivenessIInv, Sets, Wanted
<1> QED
  BY <1>1, <1>5, <1>6 DEF Wanted, FlowGraph, Blocks

\* Every step keeps to what some path asks for.
LEMMA WantedStep == LivenessIInv /\ Wanted /\ [LivenessNext]_livenessVars => Wanted'
<1>1. ASSUME Wanted, fn' = fn, liveIn' = liveIn, liveOut' = liveOut PROVE Wanted'
  <2>1. \A c : LiveAtStart(fn, c)' = LiveAtStart(fn, c) /\ LiveAtEnd(fn, c)' = LiveAtEnd(fn, c)
    BY <1>1 DEF LiveAtStart, LiveAtEnd, Unwritten, Demands
  <2> QED BY <1>1, <2>1 DEF Wanted, FlowGraph, Blocks
<1> QED
  BY <1>1, VisitWanted DEF LivenessNext, EndRound, livenessVars

\* So does the loop.
LEMMA WantedHolds == LivenessSpec => []Wanted
<1>1. LivenessInit => Wanted
  BY DEF LivenessInit, InitLiveness, Wanted
<1> QED
  BY LivenessInvariance, WantedStep, <1>1, PTL DEF LivenessSpec

\* At a fixed point nothing that a path asks for is missing: the blocks into
\* which v is not live are a set that no path leaves without writing v.
LEMMA NothingMissing ==
  ASSUME FlowGraph(fn), \A b \in Blocks(fn) : Closed(b), NEW b \in Blocks(fn)
  PROVE  LiveAtStart(fn, b) \subseteq liveIn[b]
<1> SUFFICES ASSUME NEW v \in LiveAtStart(fn, b), v \notin liveIn[b] PROVE FALSE
  OBVIOUS
<1> DEFINE T == {d \in Blocks(fn) : v \notin liveIn[d]}
<1>1. \A d \in Blocks(fn) : LiveBefore(fn, fn.vals[d], {}) \cup (liveOut[d] \ ToSet(fn.vals[d])) \subseteq liveIn[d]
  <2> TAKE d \in Blocks(fn)
  <2>1. fn.vals[d] \in Seq(DOMAIN fn.op)
    BY DEF FlowGraph, Blocks
  <2>2. LiveBefore(fn, fn.vals[d], liveOut[d]) = LiveBefore(fn, fn.vals[d], {}) \cup (liveOut[d] \ ToSet(fn.vals[d]))
    BY <2>1, LiveBeforeSplits
  <2> QED BY <2>2 DEF Closed
<1>2. \A d \in Blocks(fn) : v \notin ToSet(fn.vals[d]) <=> ~Contains(fn.vals[d], v)
  <2> TAKE d \in Blocks(fn)
  <2>1. fn.vals[d] \in Seq(DOMAIN fn.op)
    BY DEF FlowGraph, Blocks
  <2> QED BY <2>1 DEF Contains, ToSet
<1>3. \A d \in Blocks(fn) : ReadAtEnd(fn, d) \subseteq liveOut[d] /\ \A s \in ToSet(fn.succs[d]) : liveIn[s] \subseteq liveOut[d]
  BY DEF Closed, LiveOutOf
<1>4. \A d \in Blocks(fn) : ToSet(fn.succs[d]) \subseteq Blocks(fn)
  BY DEF FlowGraph, ToSet
<1>5. Keeps(fn, T, v)
  BY <1>1, <1>2, <1>3, <1>4 DEF Keeps
<1>6. Unwritten(fn, b, v) \subseteq T
  BY <1>5, UnwrittenIsLeast
<1>7. PICK c \in T : Demands(fn, c, v)
  BY <1>6 DEF LiveAtStart
<1> QED
  BY <1>1, <1>2, <1>3, <1>7 DEF Demands

\* At a fixed point that keeps to what the paths ask for, the sets are exact.
LEMMA ExactWhenClosed == FixedPoint /\ Wanted => LivenessExact
<1> SUFFICES ASSUME FixedPoint, Wanted, settled, NEW b \in Blocks(fn)
             PROVE  liveIn[b] = LiveAtStart(fn, b) /\ liveOut[b] = LiveAtEnd(fn, b)
  BY DEF LivenessExact
<1>1. FlowGraph(fn) /\ \A c \in Blocks(fn) : Closed(c)
  BY DEF FixedPoint, Wanted
<1>2. \A c \in Blocks(fn) : LiveAtStart(fn, c) \subseteq liveIn[c]
  BY <1>1, NothingMissing
<1>3. \A s \in ToSet(fn.succs[b]) : s \in Blocks(fn)
  BY <1>1 DEF FlowGraph, ToSet
<1>4. LiveAtEnd(fn, b) \subseteq liveOut[b]
  BY <1>1, <1>2, <1>3 DEF LiveAtEnd, Closed, LiveOutOf
<1> QED BY <1>2, <1>4 DEF Wanted

\* When the loop stops its sets are the definition by paths: a value is in the
\* set of a block exactly when some path from there reads it before writing it,
\* whatever the graph and the order of its blocks (src/ssa/regalloc.go, liveness).
THEOREM LivenessIsExact == LivenessSpec => []LivenessExact /\ LivenessFound
<1>1. LivenessExact' => [~settled /\ settled' => LivenessExact']_livenessVars
  OBVIOUS
<1> QED
  BY StopsAtFixedPoint, WantedHolds, ExactWhenClosed, <1>1, PTL DEF LivenessFound

-----------------------------------------------------------------------------
(* Edges and their slots *)

\* How often x is among the first n - 1 of q.
Before(q, x, n) == Cardinality({k \in 1 .. n - 1 : q[k] = x})

\* The count grows with every x, and never falls.
LEMMA CountGrows ==
  ASSUME NEW q, NEW x, NEW m \in Nat, NEW n \in Nat, m <= n
  PROVE  /\ Before(q, x, m) \in Nat /\ Before(q, x, m) <= Before(q, x, n)
         /\ 1 <= m /\ m < n /\ q[m] = x => Before(q, x, m) < Before(q, x, n)
<1> DEFINE Hits(k) == {j \in 1 .. k - 1 : q[j] = x}
<1>1. \A k \in Nat : IsFiniteSet(Hits(k)) /\ Cardinality(Hits(k)) \in Nat
  <2> TAKE k \in Nat
  <2>1. IsFiniteSet(1 .. k - 1) /\ Hits(k) \subseteq 1 .. k - 1
    BY FS_Interval
  <2> QED BY <2>1, FS_Subset, FS_CardinalityType
<1>2. Hits(m) \subseteq Hits(n)
  OBVIOUS
<1>3. Cardinality(Hits(m)) <= Cardinality(Hits(n)) /\ (Cardinality(Hits(m)) = Cardinality(Hits(n)) => Hits(m) = Hits(n))
  BY <1>1, <1>2, FS_Subset
<1>4. 1 <= m /\ m < n /\ q[m] = x => m \in Hits(n) /\ m \notin Hits(m)
  OBVIOUS
<1> HIDE DEF Hits
<1>5. Before(q, x, m) = Cardinality(Hits(m)) /\ Before(q, x, n) = Cardinality(Hits(n))
  BY DEF Before, Hits
<1> QED BY <1>1, <1>3, <1>4, <1>5

\* A sequence over a set.
LEMMA SequenceTypes ==
  ASSUME NEW S, NEW s \in Seq(S)
  PROVE  Len(s) \in Nat /\ DOMAIN s = 1 .. Len(s) /\ \A i \in DOMAIN s : s[i] \in S
OBVIOUS

\* Blocks and edges, typed.
IsGraph(f) == /\ f \in Functions
              /\ f.succs \in [Blocks(f) -> Seq(Blocks(f))] /\ f.preds \in [Blocks(f) -> Seq(Blocks(f))]

\* The type of a graph, in parts.
LEMMA GraphTypes ==
  ASSUME NEW f, IsGraph(f)
  PROVE  /\ Blocks(f) = 1 .. Len(f.vals) /\ Len(f.vals) \in Nat
         /\ \A b \in Blocks(f) : /\ f.vals[b] \in Seq(Ids) /\ f.succs[b] \in Seq(Blocks(f)) /\ f.preds[b] \in Seq(Blocks(f))
                                 /\ Len(f.vals[b]) \in Nat /\ Len(f.succs[b]) \in Nat /\ Len(f.preds[b]) \in Nat
                                 /\ DOMAIN f.vals[b] = 1 .. Len(f.vals[b]) /\ DOMAIN f.succs[b] = 1 .. Len(f.succs[b])
                                 /\ DOMAIN f.preds[b] = 1 .. Len(f.preds[b])
                                 /\ \A i \in DOMAIN f.succs[b] : f.succs[b][i] \in Blocks(f)
                                 /\ \A i \in DOMAIN f.preds[b] : f.preds[b][i] \in Blocks(f)
<1>1. f.vals \in Seq(Seq(Ids))
  BY DEF IsGraph, Functions
<1>2. Blocks(f) = 1 .. Len(f.vals) /\ Len(f.vals) \in Nat
  BY <1>1 DEF Blocks
<1>3. ASSUME NEW b \in Blocks(f)
      PROVE  f.vals[b] \in Seq(Ids) /\ f.succs[b] \in Seq(Blocks(f)) /\ f.preds[b] \in Seq(Blocks(f))
  BY <1>1, <1>2 DEF IsGraph
<1>4. ASSUME NEW b \in Blocks(f)
      PROVE  /\ f.vals[b] \in Seq(Ids) /\ f.succs[b] \in Seq(Blocks(f)) /\ f.preds[b] \in Seq(Blocks(f))
             /\ Len(f.vals[b]) \in Nat /\ Len(f.succs[b]) \in Nat /\ Len(f.preds[b]) \in Nat
             /\ DOMAIN f.vals[b] = 1 .. Len(f.vals[b]) /\ DOMAIN f.succs[b] = 1 .. Len(f.succs[b])
             /\ DOMAIN f.preds[b] = 1 .. Len(f.preds[b])
             /\ \A i \in DOMAIN f.succs[b] : f.succs[b][i] \in Blocks(f)
             /\ \A i \in DOMAIN f.preds[b] : f.preds[b][i] \in Blocks(f)
  <2>1. f.vals[b] \in Seq(Ids) /\ f.succs[b] \in Seq(Blocks(f)) /\ f.preds[b] \in Seq(Blocks(f))
    BY <1>3
  <2> QED BY ONLY <2>1, SequenceTypes
<1> QED BY <1>2, <1>4

\* Two edges of one block to one block have two slots, in the order of the edges,
\* and an edge has one slot.
LEMMA SlotsInOrder ==
  ASSUME NEW f, IsGraph(f), NEW b \in Blocks(f), NEW i \in DOMAIN f.succs[b], NEW k \in DOMAIN f.succs[b],
         NEW j, NEW m, IsSlot(f, b, i, j), IsSlot(f, b, k, m), f.succs[b][i] = f.succs[b][k]
  PROVE  /\ j \in Nat /\ m \in Nat /\ j >= 1 /\ m >= 1
         /\ i < k <=> j < m
         /\ i = k <=> j = m
<1> DEFINE s == f.succs[b][i]
<1>1. /\ s \in Blocks(f) /\ j \in DOMAIN f.preds[s] /\ m \in DOMAIN f.preds[s]
      /\ f.preds[s][j] = b /\ f.preds[s][m] = b /\ f.succs[b][i] = s /\ f.succs[b][k] = s
      /\ Before(f.preds[s], b, j) = Before(f.succs[b], s, i)
      /\ Before(f.preds[s], b, m) = Before(f.succs[b], s, k)
  BY GraphTypes DEF IsSlot, Before
<1>2. i \in Nat /\ k \in Nat /\ j \in Nat /\ m \in Nat /\ i >= 1 /\ k >= 1 /\ j >= 1 /\ m >= 1
  BY <1>1, GraphTypes
<1> HIDE DEF s
<1> DEFINE p == f.preds[s]
           q == f.succs[b]
           ni == Before(q, s, i)
           nk == Before(q, s, k)
           nj == Before(p, b, j)
           nm == Before(p, b, m)
<1>3. q[i] = s /\ q[k] = s /\ p[j] = b /\ p[m] = b /\ nj = ni /\ nm = nk
  BY <1>1
<1> HIDE DEF p, q
<1>4. (i < k => ni < nk) /\ (k < i => nk < ni) /\ ni \in Nat /\ nk \in Nat
  BY <1>2, <1>3, CountGrows
<1>5. (j < m => nj < nm) /\ (m < j => nm < nj) /\ nj \in Nat /\ nm \in Nat
  BY <1>2, <1>3, CountGrows
<1>6. (i = k => ni = nk) /\ (j = m => nj = nm)
  OBVIOUS
<1> HIDE DEF ni, nk, nj, nm
<1> QED BY <1>2, <1>3, <1>4, <1>5, <1>6

\* An edge has one slot.
LEMMA OneSlot ==
  ASSUME NEW f, IsGraph(f), NEW b \in Blocks(f), NEW i \in DOMAIN f.succs[b], NEW j, NEW h, IsSlot(f, b, i, j), IsSlot(f, b, i, h)
  PROVE  j = h
<1>1. i = i <=> j = h
  BY SlotsInOrder
<1> QED BY <1>1

\* PredIndex is the slot of an edge.
LEMMA PredIndexIsSlot ==
  ASSUME NEW f, IsGraph(f), NEW b \in Blocks(f), NEW i \in DOMAIN f.succs[b], NEW j, IsSlot(f, b, i, j)
  PROVE  PredIndex(f, b, i) = j
<1>1. PredIndex(f, b, i) = CHOOSE k \in DOMAIN f.preds[f.succs[b][i]] : IsSlot(f, b, i, k)
  BY DEF PredIndex, IsSlot
<1>2. j \in DOMAIN f.preds[f.succs[b][i]]
  BY DEF IsSlot
<1> DEFINE p == PredIndex(f, b, i)
<1>3. IsSlot(f, b, i, p)
  BY <1>1, <1>2
<1> HIDE DEF p
<1>4. \A k : IsSlot(f, b, i, k) => k = j
  <2> TAKE k
  <2> HAVE IsSlot(f, b, i, k)
  <2>1. k = j
    BY OneSlot
  <2> QED BY <2>1
<1> QED BY <1>3, <1>4 DEF p

-----------------------------------------------------------------------------
(* Splitting one edge *)

\* What SplitEdge makes of a graph, block by block.
IsSplitEdge(h, g, b, i, j) ==
  LET s == g.succs[b][i]
      d == Len(g.vals) + 1
  IN  /\ IsGraph(h) /\ Len(h.vals) = d /\ Blocks(h) = Blocks(g) \cup {d} /\ d \notin Blocks(g)
      /\ h.op = g.op /\ h.args = g.args /\ h.place = g.place /\ h.ptr = g.ptr
      /\ h.vals[d] = <<>> /\ h.succs[d] = <<s>> /\ h.preds[d] = <<b>>
      /\ \A c \in Blocks(g) : /\ h.vals[c] = g.vals[c]
                              /\ Len(h.succs[c]) = Len(g.succs[c]) /\ Len(h.preds[c]) = Len(g.preds[c])
                              /\ \A k \in DOMAIN g.succs[c] : h.succs[c][k] = IF c = b /\ k = i THEN d ELSE g.succs[c][k]
                              /\ \A k \in DOMAIN g.preds[c] : h.preds[c][k] = IF c = s /\ k = j THEN d ELSE g.preds[c][k]

\* One element more at the end of a sequence of sequences, and one changed inside.
LEMMA ChangedAndAppended ==
  ASSUME NEW D, NEW E, D \subseteq E, NEW q \in Seq(Seq(D)), NEW c \in DOMAIN q, NEW k \in DOMAIN q[c], NEW x \in E, NEW t \in Seq(E),
         NEW r, r = Append([q EXCEPT ![c][k] = x], t)
  PROVE  /\ r \in Seq(Seq(E)) /\ Len(r) = Len(q) + 1 /\ r[Len(q) + 1] = t
         /\ \A a \in DOMAIN q : /\ Len(r[a]) = Len(q[a])
                                /\ \A m \in DOMAIN q[a] : r[a][m] = IF a = c /\ m = k THEN x ELSE q[a][m]
<1> DEFINE p == [q EXCEPT ![c][k] = x]
<1>1. Len(q) \in Nat /\ DOMAIN q = 1 .. Len(q) /\ \A a \in DOMAIN q : q[a] \in Seq(D)
  BY SequenceTypes
<1>2. ASSUME NEW a \in DOMAIN q
      PROVE  /\ p[a] \in Seq(E) /\ Len(p[a]) = Len(q[a])
             /\ \A m \in DOMAIN q[a] : p[a][m] = IF a = c /\ m = k THEN x ELSE q[a][m]
  <2>1. q[a] \in Seq(D) /\ q[a] \in Seq(E)
    BY <1>1
  <2>2. CASE a # c
    BY <2>1, <2>2
  <2>3. CASE a = c
    <3>1. p[a] = [q[a] EXCEPT ![k] = x]
      BY <2>3
    <3> DEFINE o == q[a]
    <3>2. o \in Seq(E) /\ k \in DOMAIN o /\ p[a] = [o EXCEPT ![k] = x]
      BY <2>1, <2>3, <3>1
    <3> HIDE DEF o, p
    <3>3. p[a] \in Seq(E) /\ Len(p[a]) = Len(o) /\ \A m \in DOMAIN o : p[a][m] = IF m = k THEN x ELSE o[m]
      BY <3>2
    <3> QED BY <2>3, <3>3 DEF o
  <2> QED BY <2>2, <2>3
<1>3. p \in Seq(Seq(E)) /\ Len(p) = Len(q) /\ DOMAIN p = DOMAIN q
  <2>1. DOMAIN p = DOMAIN q
    OBVIOUS
  <2> HIDE DEF p
  <2>2. p = [a \in 1 .. Len(q) |-> p[a]]
    <3>1. p = [a \in DOMAIN p |-> p[a]]
      BY DEF p
    <3> QED BY <1>1, <2>1, <3>1
  <2> QED BY <1>1, <1>2, <2>1, <2>2
<1> HIDE DEF p
<1>4. r = Append(p, t)
  BY DEF p
<1>5. r \in Seq(Seq(E)) /\ Len(r) = Len(q) + 1 /\ r[Len(q) + 1] = t /\ \A a \in DOMAIN q : r[a] = p[a]
  BY <1>1, <1>3, <1>4
<1> QED BY <1>2, <1>5

\* A function over the first n numbers is a sequence, and the other way round.
LEMMA FunctionIsSequence ==
  ASSUME NEW n \in Nat, NEW S
  PROVE  \A q : (q \in [1 .. n -> S] <=> q \in Seq(S) /\ Len(q) = n)
OBVIOUS

\* SplitEdge gives a graph whose only difference is the block on the edge.
LEMMA SplitEdgeGives ==
  ASSUME NEW g, IsGraph(g), NEW b \in Blocks(g), NEW i \in DOMAIN g.succs[b], NEW j, IsSlot(g, b, i, j)
  PROVE  IsSplitEdge(SplitEdge(g, b, i), g, b, i, j)
<1> DEFINE s == g.succs[b][i]
           d == Len(g.vals) + 1
           h == SplitEdge(g, b, i)
           B == Blocks(g)
           C == Blocks(g) \cup {d}
<1>1. s \in B /\ Len(g.vals) \in Nat /\ B = 1 .. Len(g.vals) /\ j \in DOMAIN g.preds[s] /\ PredIndex(g, b, i) = j
  <2>1. s \in B /\ Len(g.vals) \in Nat /\ B = 1 .. Len(g.vals)
    BY GraphTypes
  <2>2. j \in DOMAIN g.preds[s]
    BY DEF IsSlot
  <2>3. PredIndex(g, b, i) = j
    BY PredIndexIsSlot
  <2> QED BY <2>1, <2>2, <2>3
<1> HIDE DEF B
<1>2. C = 1 .. d /\ d \in C /\ d \notin B /\ B \subseteq C /\ d \in Nat /\ C \subseteq Nat
  BY <1>1 DEF B
<1>3. g.vals \in Seq(Seq(Ids)) /\ g.op \in [Ids -> Ops] /\ g.args \in [Ids -> Seq(Ids)] /\ g.place \in [Ids -> Regs \cup {NoReg}]
      /\ g.ptr \in SUBSET Ids
      /\ g = [vals |-> g.vals, succs |-> g.succs, preds |-> g.preds, op |-> g.op, args |-> g.args, place |-> g.place, ptr |-> g.ptr]
  BY DEF IsGraph, Functions
<1>4. /\ g.succs \in Seq(Seq(B)) /\ Len(g.succs) = Len(g.vals) /\ DOMAIN g.succs = B
      /\ g.preds \in Seq(Seq(B)) /\ Len(g.preds) = Len(g.vals) /\ DOMAIN g.preds = B
      /\ DOMAIN g.vals = B
  <2>1. g.succs \in [B -> Seq(B)] /\ g.preds \in [B -> Seq(B)] /\ DOMAIN g.vals = B
    BY DEF IsGraph, B, Blocks
  <2>2. g.succs \in [1 .. Len(g.vals) -> Seq(B)] /\ g.preds \in [1 .. Len(g.vals) -> Seq(B)]
    BY <1>1, <2>1
  <2> QED BY <1>1, <2>1, <2>2, FunctionIsSequence
<1> HIDE DEF C
<1>5. /\ h.vals = Append(g.vals, <<>>)
      /\ h.succs = Append([g.succs EXCEPT ![b][i] = d], <<s>>)
      /\ h.preds = Append([g.preds EXCEPT ![s][j] = d], <<b>>)
      /\ h.op = g.op /\ h.args = g.args /\ h.place = g.place /\ h.ptr = g.ptr
      /\ h = [vals |-> h.vals, succs |-> h.succs, preds |-> h.preds, op |-> h.op, args |-> h.args, place |-> h.place, ptr |-> h.ptr]
  <2>1. h = [g EXCEPT !.vals  = Append(@, <<>>),
                      !.succs = Append([@ EXCEPT ![b][i] = d], <<s>>),
                      !.preds = Append([@ EXCEPT ![s][j] = d], <<b>>)]
    BY <1>1 DEF SplitEdge
  <2> HIDE DEF h, s, d
  <2> DEFINE gv == g.vals
             gs == g.succs
             gp == g.preds
  <2>2. g = [vals |-> gv, succs |-> gs, preds |-> gp, op |-> g.op, args |-> g.args, place |-> g.place, ptr |-> g.ptr]
    BY <1>3
  <2>3. h = [vals |-> Append(gv, <<>>), succs |-> Append([gs EXCEPT ![b][i] = d], <<s>>),
             preds |-> Append([gp EXCEPT ![s][j] = d], <<b>>), op |-> g.op, args |-> g.args, place |-> g.place, ptr |-> g.ptr]
    BY <2>1, <2>2
  <2> QED BY <2>3
<1> DEFINE vs == h.vals
           ss == h.succs
           ps == h.preds
<1>6. ss \in Seq(Seq(C)) /\ Len(ss) = d /\ ss[d] = <<s>>
      /\ \A a \in B : /\ Len(ss[a]) = Len(g.succs[a])
                      /\ \A m \in DOMAIN g.succs[a] : ss[a][m] = IF a = b /\ m = i THEN d ELSE g.succs[a][m]
  <2> DEFINE q == g.succs
  <2>0. s \in C /\ b \in B
    BY <1>1, <1>2 DEF B
  <2>1. <<s>> \in Seq(C) /\ ss = Append([q EXCEPT ![b][i] = d], <<s>>) /\ b \in DOMAIN q /\ d \in C
    <3> HIDE DEF s, d, h
    <3>1. <<s>> \in Seq(C)
      BY ONLY <2>0
    <3> QED BY ONLY <1>2, <1>4, <1>5, <2>0, <3>1
  <2>2. i \in DOMAIN q[b] /\ q \in Seq(Seq(B)) /\ B \subseteq C /\ Len(q) = Len(g.vals) /\ DOMAIN q = B
    BY <1>2, <1>4
  <2> DEFINE t == <<s>>
  <2> HIDE DEF q, s, t, h
  <2>3. /\ ss \in Seq(Seq(C)) /\ Len(ss) = Len(q) + 1 /\ ss[Len(q) + 1] = t
        /\ \A a \in DOMAIN q : /\ Len(ss[a]) = Len(q[a])
                               /\ \A m \in DOMAIN q[a] : ss[a][m] = IF a = b /\ m = i THEN d ELSE q[a][m]
    <3>1. /\ B \subseteq C /\ q \in Seq(Seq(B)) /\ b \in DOMAIN q /\ i \in DOMAIN q[b] /\ d \in C /\ t \in Seq(C)
          /\ ss = Append([q EXCEPT ![b][i] = d], t)
      BY <2>1, <2>2 DEF t
    <3> HIDE DEF d, ss
    <3> QED BY ONLY <3>1, ChangedAndAppended
  <2>4. Len(ss) = d /\ ss[d] = <<s>>
    BY ONLY <2>2, <2>3 DEF t, d
  <2>5. \A a \in B : Len(ss[a]) = Len(q[a]) /\ \A m \in DOMAIN q[a] : ss[a][m] = IF a = b /\ m = i THEN d ELSE q[a][m]
    BY ONLY <2>2, <2>3
  <2> QED BY ONLY <2>3, <2>4, <2>5 DEF q
<1>7. ps \in Seq(Seq(C)) /\ Len(ps) = d /\ ps[d] = <<b>>
      /\ \A a \in B : /\ Len(ps[a]) = Len(g.preds[a])
                      /\ \A m \in DOMAIN g.preds[a] : ps[a][m] = IF a = s /\ m = j THEN d ELSE g.preds[a][m]
  <2> DEFINE q == g.preds
  <2>0. s \in B /\ b \in C
    BY <1>1, <1>2 DEF B
  <2>1. <<b>> \in Seq(C) /\ ps = Append([q EXCEPT ![s][j] = d], <<b>>) /\ s \in DOMAIN q /\ d \in C
    <3> HIDE DEF s, d, h
    <3>1. <<b>> \in Seq(C)
      BY ONLY <2>0
    <3> QED BY ONLY <1>2, <1>4, <1>5, <2>0, <3>1
  <2>2. j \in DOMAIN q[s] /\ q \in Seq(Seq(B)) /\ B \subseteq C /\ Len(q) = Len(g.vals) /\ DOMAIN q = B
    BY <1>1, <1>2, <1>4
  <2> DEFINE t == <<b>>
  <2> HIDE DEF q, s, t, h
  <2>3. /\ ps \in Seq(Seq(C)) /\ Len(ps) = Len(q) + 1 /\ ps[Len(q) + 1] = t
        /\ \A a \in DOMAIN q : /\ Len(ps[a]) = Len(q[a])
                               /\ \A m \in DOMAIN q[a] : ps[a][m] = IF a = s /\ m = j THEN d ELSE q[a][m]
    <3>1. /\ B \subseteq C /\ q \in Seq(Seq(B)) /\ s \in DOMAIN q /\ j \in DOMAIN q[s] /\ d \in C /\ t \in Seq(C)
          /\ ps = Append([q EXCEPT ![s][j] = d], t)
      BY <2>1, <2>2 DEF t
    <3> HIDE DEF d, ps
    <3> QED BY ONLY <3>1, ChangedAndAppended
  <2>4. Len(ps) = d /\ ps[d] = <<b>>
    BY ONLY <2>2, <2>3 DEF t, d
  <2>5. \A a \in B : Len(ps[a]) = Len(q[a]) /\ \A m \in DOMAIN q[a] : ps[a][m] = IF a = s /\ m = j THEN d ELSE q[a][m]
    BY ONLY <2>2, <2>3
  <2> QED BY ONLY <2>3, <2>4, <2>5 DEF q
<1>8. vs \in Seq(Seq(Ids)) /\ Len(vs) = d /\ vs[d] = <<>> /\ \A a \in B : vs[a] = g.vals[a]
  <2>1. <<>> \in Seq(Ids) /\ vs = Append(g.vals, <<>>)
    BY <1>5
  <2> HIDE DEF vs
  <2> DEFINE q == g.vals
             t == <<>>
  <2>2. q \in Seq(Seq(Ids)) /\ t \in Seq(Ids) /\ vs = Append(q, t) /\ DOMAIN q = B /\ d = Len(q) + 1 /\ Len(q) \in Nat
    BY <1>1, <1>3, <1>4, <2>1
  <2> HIDE DEF q, t, d
  <2>3. vs \in Seq(Seq(Ids)) /\ Len(vs) = d /\ vs[d] = t /\ \A a \in DOMAIN q : vs[a] = q[a]
    BY <2>2
  <2> QED BY <2>2, <2>3 DEF q, t
<1> HIDE DEF h
<1>9. Blocks(h) = C
  <2>1. DOMAIN vs = 1 .. d
    BY <1>8
  <2> QED BY <1>2, <2>1 DEF Blocks
<1> HIDE DEF s, d, vs, ss, ps
<1>10. h \in Functions
  <2>1. Seq(C) \subseteq Seq(Nat)
    BY <1>2
  <2> DEFINE T == Seq(C)
             U == Seq(Nat)
  <2>2. T \subseteq U /\ ss \in Seq(T) /\ ps \in Seq(T)
    BY <1>6, <1>7, <2>1
  <2> HIDE DEF T, U
  <2>3. ss \in Seq(U) /\ ps \in Seq(U)
    BY <2>2
  <2>4. vs \in Seq(Seq(Ids)) /\ ss \in Seq(Seq(Nat)) /\ ps \in Seq(Seq(Nat)) /\ h.op \in [Ids -> Ops]
        /\ h.args \in [Ids -> Seq(Ids)] /\ h.place \in [Ids -> Regs \cup {NoReg}] /\ h.ptr \in SUBSET Ids
    BY <1>3, <1>5, <1>8, <2>3 DEF U
  <2>5. h = [vals |-> vs, succs |-> ss, preds |-> ps, op |-> h.op, args |-> h.args, place |-> h.place, ptr |-> h.ptr]
    BY <1>5 DEF vs, ss, ps
  <2> HIDE DEF Ops
  <2> QED BY ONLY <2>4, <2>5 DEF Functions
<1>11. h.succs \in [Blocks(h) -> Seq(Blocks(h))] /\ h.preds \in [Blocks(h) -> Seq(Blocks(h))]
  <2>1. ss \in [1 .. d -> Seq(C)] /\ ps \in [1 .. d -> Seq(C)]
    BY <1>2, <1>6, <1>7, FunctionIsSequence
  <2> QED BY <1>2, <1>9, <2>1 DEF ss, ps
<1>12. IsGraph(h) /\ Blocks(h) = Blocks(g) \cup {d} /\ d \notin Blocks(g) /\ Len(h.vals) = d
  BY <1>2, <1>8, <1>9, <1>10, <1>11 DEF IsGraph, C, B, vs
<1> QED BY <1>5, <1>6, <1>7, <1>8, <1>12 DEF IsSplitEdge, h, s, d, B, vs, ss, ps

\* An x fewer: the count after the place that lost it is one less.
LEMMA CountChanges ==
  ASSUME NEW q, NEW r, NEW x, NEW k \in Nat, k >= 1, NEW n \in Nat, q[k] = x, r[k] # x,
         \A m \in 1 .. n - 1 : m # k => r[m] = q[m]
  PROVE  Before(q, x, n) \in Nat /\ Before(r, x, n) = Before(q, x, n) - (IF k < n THEN 1 ELSE 0)
<1> DEFINE Q == {m \in 1 .. n - 1 : q[m] = x}
           R == {m \in 1 .. n - 1 : r[m] = x}
<1>1. IsFiniteSet(Q) /\ Cardinality(Q) \in Nat
  <2>1. IsFiniteSet(1 .. n - 1) /\ Q \subseteq 1 .. n - 1
    BY FS_Interval
  <2> QED BY <2>1, FS_Subset, FS_CardinalityType
<1>2. CASE k < n
  <2>1. k \in Q /\ R = Q \ {k}
    BY <1>2
  <2> HIDE DEF Q, R
  <2>2. Cardinality(R) = Cardinality(Q) - 1
    BY <1>1, <2>1, FS_RemoveElement
  <2> QED BY <1>1, <1>2, <2>2 DEF Before, Q, R
<1>3. CASE ~(k < n)
  <2>1. R = Q
    BY <1>3
  <2> HIDE DEF Q, R
  <2> QED BY <1>1, <1>3, <2>1 DEF Before, Q, R
<1> QED BY <1>2, <1>3

\* Nothing changes in the count where the elements equal to x are the same.
LEMMA CountSame ==
  ASSUME NEW q, NEW r, NEW x, NEW n \in Nat, \A m \in 1 .. n - 1 : (q[m] = x <=> r[m] = x)
  PROVE  Before(q, x, n) = Before(r, x, n)
BY DEF Before

\* What is not there is counted zero times.
LEMMA CountNone ==
  ASSUME NEW q, NEW x, NEW n \in Nat, \A m \in 1 .. n - 1 : q[m] # x
  PROVE  Before(q, x, n) = 0
<1>1. {m \in 1 .. n - 1 : q[m] = x} = {}
  OBVIOUS
<1> QED BY <1>1, FS_EmptySet DEF Before

\* The slot of an edge, by counting.
LEMMA SlotCounts ==
  ASSUME NEW f, NEW b, NEW i, NEW j
  PROVE  IsSlot(f, b, i, j) <=> /\ j \in DOMAIN f.preds[f.succs[b][i]] /\ f.preds[f.succs[b][i]][j] = b
                                /\ Before(f.preds[f.succs[b][i]], b, j) = Before(f.succs[b], f.succs[b][i], i)
BY DEF IsSlot, Before

\* An edge and its slot, typed.
LEMMA EdgeTypes ==
  ASSUME NEW f, IsGraph(f), NEW b \in Blocks(f), NEW i \in DOMAIN f.succs[b]
  PROVE  /\ f.succs[b][i] \in Blocks(f)
         /\ i \in Nat /\ i >= 1 /\ i <= Len(f.succs[b]) /\ Len(f.succs[b]) \in Nat /\ DOMAIN f.succs[b] = 1 .. Len(f.succs[b])
         /\ Len(f.preds[f.succs[b][i]]) \in Nat /\ DOMAIN f.preds[f.succs[b][i]] = 1 .. Len(f.preds[f.succs[b][i]])
         /\ \A j : IsSlot(f, b, i, j) =>
               /\ j \in DOMAIN f.preds[f.succs[b][i]] /\ f.preds[f.succs[b][i]][j] = b
               /\ j \in Nat /\ j >= 1 /\ j <= Len(f.preds[f.succs[b][i]])
               /\ Before(f.preds[f.succs[b][i]], b, j) = Before(f.succs[b], f.succs[b][i], i)
<1> DEFINE t == f.succs[b][i]
<1>1. DOMAIN f.succs[b] = 1 .. Len(f.succs[b]) /\ Len(f.succs[b]) \in Nat /\ t \in Blocks(f)
  BY GraphTypes
<1>2. DOMAIN f.preds[t] = 1 .. Len(f.preds[t]) /\ Len(f.preds[t]) \in Nat
  BY <1>1, GraphTypes
<1>3. \A j : IsSlot(f, b, i, j) => j \in DOMAIN f.preds[t] /\ f.preds[t][j] = b /\ Before(f.preds[t], b, j) = Before(f.succs[b], t, i)
  BY SlotCounts
<1> HIDE DEF t
<1>4. \A j : j \in DOMAIN f.preds[t] => j \in Nat /\ j >= 1 /\ j <= Len(f.preds[t])
  BY <1>2
<1>5. i \in Nat /\ i >= 1 /\ i <= Len(f.succs[b])
  BY <1>1
<1> QED BY <1>1, <1>2, <1>3, <1>4, <1>5 DEF t

\* What a split edge changes at one block.
LEMMA SplitEdgeAt ==
  ASSUME NEW g, IsGraph(g), NEW b, NEW i, NEW j, NEW h, IsSplitEdge(h, g, b, i, j), NEW c \in Blocks(g)
  PROVE  LET s == g.succs[b][i]
             d == Len(g.vals) + 1
         IN  /\ c # d /\ h.vals[c] = g.vals[c] /\ c \in Blocks(h)
             /\ Len(h.succs[c]) = Len(g.succs[c]) /\ Len(h.preds[c]) = Len(g.preds[c])
             /\ DOMAIN h.succs[c] = DOMAIN g.succs[c] /\ DOMAIN h.preds[c] = DOMAIN g.preds[c]
             /\ \A k \in DOMAIN g.succs[c] : h.succs[c][k] = IF c = b /\ k = i THEN d ELSE g.succs[c][k]
             /\ \A k \in DOMAIN g.preds[c] : h.preds[c][k] = IF c = s /\ k = j THEN d ELSE g.preds[c][k]
<1> DEFINE s == g.succs[b][i]
           d == Len(g.vals) + 1
<1>1. IsGraph(h) /\ Blocks(h) = Blocks(g) \cup {d} /\ d \notin Blocks(g)
      /\ \A a \in Blocks(g) : /\ h.vals[a] = g.vals[a]
                              /\ Len(h.succs[a]) = Len(g.succs[a]) /\ Len(h.preds[a]) = Len(g.preds[a])
                              /\ \A k \in DOMAIN g.succs[a] : h.succs[a][k] = IF a = b /\ k = i THEN d ELSE g.succs[a][k]
                              /\ \A k \in DOMAIN g.preds[a] : h.preds[a][k] = IF a = s /\ k = j THEN d ELSE g.preds[a][k]
  BY DEF IsSplitEdge
<1> HIDE DEF s, d
<1>2. c \in Blocks(h) /\ c # d
  BY <1>1
<1>3. DOMAIN h.succs[c] = 1 .. Len(h.succs[c]) /\ DOMAIN h.preds[c] = 1 .. Len(h.preds[c])
  BY <1>1, <1>2, GraphTypes
<1>4. DOMAIN g.succs[c] = 1 .. Len(g.succs[c]) /\ DOMAIN g.preds[c] = 1 .. Len(g.preds[c])
  BY GraphTypes
<1> QED BY <1>1, <1>2, <1>3, <1>4 DEF s, d

\* The other edges keep their slots when one is split.
LEMMA OtherSlots ==
  ASSUME NEW g, IsGraph(g), NEW b \in Blocks(g), NEW i \in DOMAIN g.succs[b], NEW j, IsSlot(g, b, i, j),
         NEW h, IsSplitEdge(h, g, b, i, j),
         NEW c \in Blocks(g), NEW k \in DOMAIN g.succs[c], NEW m, IsSlot(g, c, k, m), c # b \/ k # i
  PROVE  h.succs[c][k] = g.succs[c][k] /\ IsSlot(h, c, k, m)
<1> DEFINE s == g.succs[b][i]
           t == g.succs[c][k]
           d == Len(g.vals) + 1
<1>1. /\ s \in Blocks(g) /\ t \in Blocks(g) /\ d \notin Blocks(g) /\ h.succs[c][k] = t
      /\ i \in Nat /\ k \in Nat /\ i >= 1 /\ k >= 1
  <2>1. s \in Blocks(g) /\ i \in Nat /\ i >= 1 /\ t \in Blocks(g) /\ k \in Nat /\ k >= 1
    BY EdgeTypes
  <2>2. d \notin Blocks(g)
    BY DEF IsSplitEdge
  <2>3. h.succs[c][k] = t
    BY SplitEdgeAt
  <2> QED BY <2>1, <2>2, <2>3
<1>2. /\ j \in DOMAIN g.preds[s] /\ g.preds[s][j] = b /\ Before(g.preds[s], b, j) = Before(g.succs[b], s, i)
      /\ m \in DOMAIN g.preds[t] /\ g.preds[t][m] = c /\ Before(g.preds[t], c, m) = Before(g.succs[c], t, k)
      /\ j \in Nat /\ j >= 1 /\ m \in Nat /\ m >= 1
  <2>1. /\ j \in DOMAIN g.preds[s] /\ g.preds[s][j] = b /\ Before(g.preds[s], b, j) = Before(g.succs[b], s, i)
        /\ j \in Nat /\ j >= 1
    BY EdgeTypes
  <2>2. /\ m \in DOMAIN g.preds[t] /\ g.preds[t][m] = c /\ Before(g.preds[t], c, m) = Before(g.succs[c], t, k)
        /\ m \in Nat /\ m >= 1
    BY EdgeTypes
  <2> QED BY <2>1, <2>2
<1>3. t = s /\ c = b => (i < k <=> j < m) /\ j # m
  BY SlotsInOrder
<1>4. DOMAIN h.preds[t] = DOMAIN g.preds[t]
  BY <1>1, SplitEdgeAt
<1>5. \A x \in DOMAIN g.preds[t] : h.preds[t][x] = IF t = s /\ x = j THEN d ELSE g.preds[t][x]
  BY <1>1, SplitEdgeAt
<1>6. \A x \in DOMAIN g.succs[c] : h.succs[c][x] = IF c = b /\ x = i THEN d ELSE g.succs[c][x]
  BY SplitEdgeAt
<1>7. DOMAIN g.preds[t] = 1 .. Len(g.preds[t]) /\ DOMAIN g.succs[c] = 1 .. Len(g.succs[c]) /\ Len(g.preds[t]) \in Nat /\ Len(g.succs[c]) \in Nat
  BY EdgeTypes
<1>8. h.preds[t][m] = c
  BY <1>1, <1>2, <1>3, <1>5
<1> DEFINE p == g.preds[t]
           q == g.succs[c]
           p2 == h.preds[t]
           q2 == h.succs[c]
<1>9. Before(p2, c, m) = Before(q2, t, k)
  <2>1. (\A x \in 1 .. m - 1 : x \in DOMAIN p) /\ (\A x \in 1 .. k - 1 : x \in DOMAIN q)
    BY <1>1, <1>2, <1>7
  <2>2. /\ \A x \in 1 .. m - 1 : p2[x] = IF t = s /\ x = j THEN d ELSE p[x]
        /\ \A x \in 1 .. k - 1 : q2[x] = IF c = b /\ x = i THEN d ELSE q[x]
    BY <1>5, <1>6, <2>1
  <2>3. c # d /\ t # d /\ (t = s => p[j] = b /\ p2[j] = d) /\ (c = b => q[i] = s /\ q2[i] = d) /\ Before(p, c, m) = Before(q, t, k)
    BY <1>1, <1>2, <1>5, <1>6
  <2> HIDE DEF p, q, p2, q2, d, s, t
  <2>4. CASE t = s /\ c = b
    <3>1. Before(p, c, m) \in Nat /\ Before(p2, c, m) = Before(p, c, m) - (IF j < m THEN 1 ELSE 0)
      <4>1. p[j] = c /\ p2[j] # c /\ \A x \in 1 .. m - 1 : x # j => p2[x] = p[x]
        BY <2>2, <2>3, <2>4
      <4>2. j \in Nat /\ j >= 1 /\ m \in Nat
        BY <1>2
      <4> QED BY ONLY <4>1, <4>2, CountChanges
    <3>2. Before(q, t, k) \in Nat /\ Before(q2, t, k) = Before(q, t, k) - (IF i < k THEN 1 ELSE 0)
      <4>1. q[i] = t /\ q2[i] # t /\ \A x \in 1 .. k - 1 : x # i => q2[x] = q[x]
        BY <2>2, <2>3, <2>4
      <4>2. i \in Nat /\ i >= 1 /\ k \in Nat
        BY <1>1
      <4> QED BY ONLY <4>1, <4>2, CountChanges
    <3> QED BY <1>3, <2>3, <2>4, <3>1, <3>2
  <2>5. CASE ~(t = s /\ c = b)
    <3>1. \A x \in 1 .. m - 1 : (p[x] = c <=> p2[x] = c)
      BY <2>2, <2>3, <2>5
    <3>2. \A x \in 1 .. k - 1 : (q[x] = t <=> q2[x] = t)
      BY <2>2, <2>3, <2>5
    <3>3. Before(p, c, m) = Before(p2, c, m)
      BY <1>2, <3>1, CountSame
    <3>4. Before(q, t, k) = Before(q2, t, k)
      BY <1>1, <3>2, CountSame
    <3> QED BY <2>3, <3>3, <3>4
  <2> QED BY <2>4, <2>5
<1> QED BY <1>1, <1>2, <1>4, <1>8, <1>9, SlotCounts

\* The two halves of the split edge.
LEMMA HalvesSlots ==
  ASSUME NEW g, IsGraph(g), NEW b \in Blocks(g), NEW i \in DOMAIN g.succs[b], NEW j, IsSlot(g, b, i, j),
         NEW h, IsSplitEdge(h, g, b, i, j)
  PROVE  LET d == Len(g.vals) + 1
         IN  /\ h.succs[b][i] = d /\ IsSlot(h, b, i, 1)
             /\ h.succs[d] = <<g.succs[b][i]>> /\ IsSlot(h, d, 1, j)
<1> DEFINE s == g.succs[b][i]
           d == Len(g.vals) + 1
<1>1. /\ s \in Blocks(g) /\ d \notin Blocks(g) /\ h.succs[b][i] = d /\ h.succs[d] = <<s>> /\ h.preds[d] = <<b>>
      /\ i \in Nat /\ i >= 1 /\ j \in DOMAIN g.preds[s] /\ h.preds[s][j] = d /\ j \in Nat /\ j >= 1
      /\ i <= Len(g.succs[b]) /\ Len(g.succs[b]) \in Nat /\ DOMAIN g.succs[b] = 1 .. Len(g.succs[b])
      /\ j <= Len(g.preds[s]) /\ Len(g.preds[s]) \in Nat /\ DOMAIN h.preds[s] = DOMAIN g.preds[s]
      /\ DOMAIN g.preds[s] = 1 .. Len(g.preds[s])
  <2>1. /\ s \in Blocks(g) /\ i \in Nat /\ i >= 1 /\ j \in DOMAIN g.preds[s] /\ j \in Nat /\ j >= 1
        /\ i <= Len(g.succs[b]) /\ Len(g.succs[b]) \in Nat /\ j <= Len(g.preds[s]) /\ Len(g.preds[s]) \in Nat
        /\ DOMAIN g.preds[s] = 1 .. Len(g.preds[s]) /\ DOMAIN g.succs[b] = 1 .. Len(g.succs[b])
    BY EdgeTypes
  <2>2. d \notin Blocks(g) /\ h.succs[d] = <<s>> /\ h.preds[d] = <<b>>
    BY DEF IsSplitEdge
  <2>3. h.succs[b][i] = d
    BY SplitEdgeAt
  <2>4. h.preds[s][j] = d /\ DOMAIN h.preds[s] = DOMAIN g.preds[s]
    BY <2>1, SplitEdgeAt
  <2> QED BY <2>1, <2>2, <2>3, <2>4
<1>2. \A x \in 1 .. i - 1 : h.succs[b][x] # d
  <2> TAKE x \in 1 .. i - 1
  <2>1. x \in DOMAIN g.succs[b] /\ x # i
    BY <1>1
  <2>2. h.succs[b][x] = g.succs[b][x] /\ g.succs[b][x] \in Blocks(g)
    BY <2>1, GraphTypes, SplitEdgeAt
  <2> QED BY <1>1, <2>2
<1>3. \A x \in 1 .. j - 1 : h.preds[s][x] # d
  <2> TAKE x \in 1 .. j - 1
  <2>1. x \in DOMAIN g.preds[s] /\ x # j
    BY <1>1
  <2>2. h.preds[s][x] = g.preds[s][x]
    <3>1. s \in Blocks(g)
      BY ONLY <1>1
    <3>2. \A y \in DOMAIN g.preds[s] : h.preds[s][y] = IF s = s /\ y = j THEN d ELSE g.preds[s][y]
      BY <3>1, SplitEdgeAt
    <3>3. x \in DOMAIN g.preds[s] /\ x # j
      BY <2>1
    <3> QED BY ONLY <3>2, <3>3
  <2>3. g.preds[s][x] \in Blocks(g)
    BY <1>1, <2>1, GraphTypes
  <2> QED BY <1>1, <2>2, <2>3
<1>4. Before(h.succs[b], d, i) = 0 /\ Before(h.preds[s], d, j) = 0 /\ Before(h.preds[d], b, 1) = 0 /\ Before(h.succs[d], s, 1) = 0
  <2>1. i \in Nat /\ j \in Nat /\ 1 \in Nat /\ \A q, x : \A m \in 1 .. 1 - 1 : q[m] # x
    BY ONLY <1>1
  <2>2. Before(h.succs[b], d, i) = 0
    BY ONLY <1>2, <2>1, CountNone
  <2>3. Before(h.preds[s], d, j) = 0
    BY ONLY <1>3, <2>1, CountNone
  <2>4. Before(h.preds[d], b, 1) = 0
    BY ONLY <2>1, CountNone
  <2>5. Before(h.succs[d], s, 1) = 0
    BY ONLY <2>1, CountNone
  <2> QED BY ONLY <2>2, <2>3, <2>4, <2>5
<1>5. IsSlot(h, b, i, 1)
  <2>1. 1 \in DOMAIN h.preds[d] /\ h.preds[d][1] = b
    BY <1>1
  <2> QED BY <1>1, <1>4, <2>1, SlotCounts
<1>6. IsSlot(h, d, 1, j)
  <2>1. h.succs[d][1] = s
    BY <1>1
  <2> QED BY <1>1, <1>4, <2>1, SlotCounts
<1> QED BY <1>1, <1>5, <1>6

\* Edges and slots still match when an edge is split.
LEMMA SplitMatched ==
  ASSUME NEW g, IsGraph(g), Matched(g), NEW b \in Blocks(g), NEW i \in DOMAIN g.succs[b], NEW j, IsSlot(g, b, i, j),
         NEW h, IsSplitEdge(h, g, b, i, j)
  PROVE  Matched(h)
<1> DEFINE s == g.succs[b][i]
           d == Len(g.vals) + 1
<1>1. /\ IsGraph(h) /\ Blocks(h) = Blocks(g) \cup {d} /\ d \notin Blocks(g) /\ s \in Blocks(g)
      /\ h.succs[b][i] = d /\ IsSlot(h, b, i, 1) /\ h.succs[d] = <<s>> /\ h.preds[d] = <<b>> /\ IsSlot(h, d, 1, j)
      /\ \A c \in Blocks(g) : DOMAIN h.succs[c] = DOMAIN g.succs[c] /\ DOMAIN h.preds[c] = DOMAIN g.preds[c]
  <2>1. IsGraph(h) /\ Blocks(h) = Blocks(g) \cup {d} /\ d \notin Blocks(g) /\ h.preds[d] = <<b>>
        /\ \A c \in Blocks(g) : Len(h.succs[c]) = Len(g.succs[c]) /\ Len(h.preds[c]) = Len(g.preds[c])
    BY DEF IsSplitEdge
  <2>2. \A c \in Blocks(g) : DOMAIN h.succs[c] = DOMAIN g.succs[c] /\ DOMAIN h.preds[c] = DOMAIN g.preds[c]
    BY SplitEdgeAt
  <2>3. s \in Blocks(g)
    BY GraphTypes
  <2> QED BY <2>1, <2>2, <2>3, HalvesSlots
<1> HIDE DEF d
<1>2. ASSUME NEW c \in Blocks(h), NEW k \in DOMAIN h.succs[c]
      PROVE  \E m \in DOMAIN h.preds[h.succs[c][k]] : IsSlot(h, c, k, m)
  <2>1. \A m : IsSlot(h, c, k, m) => m \in DOMAIN h.preds[h.succs[c][k]]
    BY DEF IsSlot
  <2> SUFFICES \E m : IsSlot(h, c, k, m)
    BY <2>1
  <2>2. CASE c = d
    <3>1. k = 1
      BY <1>1, <2>2
    <3> QED BY <1>1, <2>2, <3>1
  <2>3. CASE c = b /\ k = i
    BY <1>1, <2>3
  <2>4. CASE c # d /\ ~(c = b /\ k = i)
    <3>1. c \in Blocks(g) /\ k \in DOMAIN g.succs[c]
      BY <1>1, <2>4
    <3>2. PICK m : IsSlot(g, c, k, m)
      BY <3>1 DEF Matched
    <3> QED BY <2>4, <3>1, <3>2, OtherSlots
  <2> QED BY <2>2, <2>3, <2>4
<1>3. ASSUME NEW t \in Blocks(h), NEW m \in DOMAIN h.preds[t]
      PROVE  \E k \in DOMAIN h.succs[h.preds[t][m]] : h.succs[h.preds[t][m]][k] = t /\ IsSlot(h, h.preds[t][m], k, m)
  <2>2. CASE t = d
    <3>1. m = 1 /\ h.preds[t][m] = b
      BY <1>1, <2>2
    <3>2. i \in DOMAIN h.succs[b]
      BY <1>1
    <3> QED BY <1>1, <2>2, <3>1, <3>2
  <2>3. CASE t = s /\ m = j
    <3>1. h.preds[s][j] = d /\ 1 \in DOMAIN h.succs[d] /\ h.succs[d][1] = s
      BY <1>1 DEF IsSlot
    <3> QED BY <1>1, <2>3, <3>1
  <2>4. CASE t # d /\ ~(t = s /\ m = j)
    <3>1. t \in Blocks(g) /\ m \in DOMAIN g.preds[t]
      BY <1>1, <2>4
    <3>2. h.preds[t][m] = g.preds[t][m] /\ g.preds[t][m] \in Blocks(g)
      BY <2>4, <3>1, GraphTypes, SplitEdgeAt
    <3> DEFINE c == g.preds[t][m]
    <3>3. PICK k \in DOMAIN g.succs[c] : g.succs[c][k] = t /\ IsSlot(g, c, k, m)
      BY <3>1, <3>2 DEF Matched
    <3>4. c # b \/ k # i
      <4> SUFFICES ASSUME c = b, k = i PROVE FALSE
        OBVIOUS
      <4>1. t = s /\ IsSlot(g, b, i, m)
        BY <3>3
      <4>2. PredIndex(g, b, i) = m /\ PredIndex(g, b, i) = j
        BY <4>1, PredIndexIsSlot
      <4> QED BY <2>4, <4>1, <4>2
    <3>5. h.succs[c][k] = t /\ IsSlot(h, c, k, m)
      BY <3>2, <3>3, <3>4, OtherSlots
    <3>6. k \in DOMAIN h.succs[c]
      BY <1>1, <3>2, <3>3
    <3> QED BY <3>2, <3>5, <3>6
  <2> QED BY <2>2, <2>3, <2>4
<1> QED BY <1>2, <1>3 DEF Matched

-----------------------------------------------------------------------------
(* Splitting every critical edge *)

\* The edge (c, k) with slot m is in h as it was in f, or goes through a block of
\* its own that has its slot.
EdgeKept(h, f, c, k, m)   == h.succs[c][k] = f.succs[c][k] /\ IsSlot(h, c, k, m)
EdgeHalved(h, f, c, k, m) == LET d == h.succs[c][k]
                             IN  /\ d \in Blocks(h) \ Blocks(f) /\ h.succs[d][1] = f.succs[c][k] /\ h.preds[d][1] = c
                                 /\ IsSlot(h, d, 1, m)

\* A block on an edge.
IsMiddle(h, f, d) == /\ h.vals[d] = <<>> /\ Len(h.succs[d]) = 1 /\ h.succs[d][1] \in Blocks(f)
                     /\ Len(h.preds[d]) = 1 /\ h.preds[d][1] \in Blocks(f)

\* h is f with some edges split.
SplitFrom(h, f) ==
  /\ IsGraph(h) /\ Matched(h)
  /\ h.op = f.op /\ h.args = f.args /\ h.place = f.place /\ h.ptr = f.ptr
  /\ Blocks(f) \subseteq Blocks(h)
  /\ \A c \in Blocks(f) : h.vals[c] = f.vals[c] /\ Len(h.succs[c]) = Len(f.succs[c]) /\ Len(h.preds[c]) = Len(f.preds[c])
  /\ \A d \in Blocks(h) \ Blocks(f) : IsMiddle(h, f, d)
  /\ \A c \in Blocks(f) : \A k \in DOMAIN f.succs[c] : \A m : IsSlot(f, c, k, m) => EdgeKept(h, f, c, k, m) \/ EdgeHalved(h, f, c, k, m)

\* The edges of the blocks before b and the first n of b are done, the others as
\* they were.
Upto(h, f, b, n) ==
  \A c \in Blocks(f) : \A k \in DOMAIN f.succs[c] :
    IF c < b \/ (c = b /\ k <= n) THEN ~IsCritical(h, c, k) ELSE h.succs[c][k] = f.succs[c][k]

\* What remains of a graph at an old block.
LEMMA SplitFromAt ==
  ASSUME NEW f, IsGraph(f), NEW h, SplitFrom(h, f), NEW c \in Blocks(f)
  PROVE  /\ c \in Blocks(h) /\ h.vals[c] = f.vals[c]
         /\ DOMAIN h.succs[c] = DOMAIN f.succs[c] /\ DOMAIN h.preds[c] = DOMAIN f.preds[c]
         /\ Len(h.succs[c]) = Len(f.succs[c]) /\ Len(h.preds[c]) = Len(f.preds[c])
<1>1. IsGraph(h) /\ c \in Blocks(h) /\ h.vals[c] = f.vals[c] /\ Len(h.succs[c]) = Len(f.succs[c]) /\ Len(h.preds[c]) = Len(f.preds[c])
  BY DEF SplitFrom
<1>2. DOMAIN h.succs[c] = 1 .. Len(h.succs[c]) /\ DOMAIN h.preds[c] = 1 .. Len(h.preds[c])
  BY <1>1, GraphTypes
<1>3. DOMAIN f.succs[c] = 1 .. Len(f.succs[c]) /\ DOMAIN f.preds[c] = 1 .. Len(f.preds[c])
  BY GraphTypes
<1> QED BY <1>1, <1>2, <1>3

\* A sequence of one.
LEMMA SingleFacts ==
  ASSUME NEW x
  PROVE  \A q : q = <<x>> => Len(q) = 1 /\ q[1] = x /\ DOMAIN q = {1}
OBVIOUS

\* One more edge is looked at.
LEMMA SplitStep ==
  ASSUME NEW f, IsGraph(f), Matched(f), NEW b \in Blocks(f), NEW i \in DOMAIN f.succs[b],
         NEW g, SplitFrom(g, f), Upto(g, f, b, i - 1),
         NEW h, h = IF IsCritical(g, b, i) THEN SplitEdge(g, b, i) ELSE g
  PROVE  SplitFrom(h, f) /\ Upto(h, f, b, i)
<1>1. i \in Nat /\ i >= 1 /\ b \in Nat /\ Blocks(f) \subseteq Nat /\ f.succs[b][i] \in Blocks(f)
      /\ \A c \in Blocks(f) : \A k \in DOMAIN f.succs[c] : k \in Nat /\ c \in Nat
  <2>1. Blocks(f) \subseteq Nat
    BY GraphTypes
  <2>2. i \in Nat /\ i >= 1 /\ f.succs[b][i] \in Blocks(f)
    BY EdgeTypes
  <2>3. \A c \in Blocks(f) : \A k \in DOMAIN f.succs[c] : k \in Nat
    BY EdgeTypes
  <2>4. b \in Blocks(f)
    OBVIOUS
  <2> QED BY ONLY <2>1, <2>2, <2>3, <2>4
<1>2. CASE ~IsCritical(g, b, i)
  <2>1. h = g
    BY <1>2
  <2>2. ASSUME NEW c \in Blocks(f), NEW k \in DOMAIN f.succs[c]
        PROVE  IF c < b \/ (c = b /\ k <= i) THEN ~IsCritical(g, c, k) ELSE g.succs[c][k] = f.succs[c][k]
    <3>1. CASE c = b /\ k = i
      BY <1>2, <1>1, <3>1
    <3>2. CASE ~(c = b /\ k = i)
      <4>0. k \in Nat /\ c \in Nat
        BY <1>1
      <4>a. k # i => (k <= i <=> k <= i - 1)
        BY <1>1, <4>0
      <4>1. (c < b \/ (c = b /\ k <= i)) <=> (c < b \/ (c = b /\ k <= i - 1))
        BY <3>2, <4>a
      <4>2. IF c < b \/ (c = b /\ k <= i - 1) THEN ~IsCritical(g, c, k) ELSE g.succs[c][k] = f.succs[c][k]
        BY DEF Upto
      <4> QED BY <4>1, <4>2
    <3> QED BY <3>1, <3>2
  <2> QED BY <2>1, <2>2 DEF Upto
<1>3. CASE IsCritical(g, b, i)
  <2> DEFINE s == g.succs[b][i]
             d == Len(g.vals) + 1
  <2>1. IsGraph(g) /\ Matched(g) /\ b \in Blocks(g) /\ i \in DOMAIN g.succs[b] /\ s = f.succs[b][i] /\ h = SplitEdge(g, b, i)
    <3>1. IsGraph(g) /\ Matched(g) /\ b \in Blocks(g) /\ i \in DOMAIN g.succs[b]
      BY SplitFromAt DEF SplitFrom
    <3>2. s = f.succs[b][i]
      BY <1>1 DEF Upto
    <3> QED BY <1>3, <3>1, <3>2
  <2>2. PICK j : IsSlot(f, b, i, j)
    BY DEF Matched
  <2>3. IsSlot(g, b, i, j)
    <3>1. EdgeKept(g, f, b, i, j) \/ EdgeHalved(g, f, b, i, j)
      BY <2>2 DEF SplitFrom
    <3> QED BY <1>1, <2>1, <3>1 DEF EdgeKept, EdgeHalved
  <2>4. IsSplitEdge(h, g, b, i, j)
    BY <2>1, <2>3, SplitEdgeGives
  <2>5. Matched(h) /\ IsGraph(h)
    <3>1. IsGraph(h)
      BY <2>4 DEF IsSplitEdge
    <3>2. Matched(h)
      BY <2>1, <2>3, <2>4, SplitMatched
    <3> QED BY <3>1, <3>2
  <2>6. h.op = f.op /\ h.args = f.args /\ h.place = f.place /\ h.ptr = f.ptr
    BY <2>4 DEF IsSplitEdge, SplitFrom
  <2>7. /\ Blocks(h) = Blocks(g) \cup {d} /\ d \notin Blocks(g) /\ Blocks(f) \subseteq Blocks(g)
        /\ h.vals[d] = <<>> /\ h.succs[d][1] = s /\ Len(h.succs[d]) = 1 /\ h.preds[d][1] = b /\ Len(h.preds[d]) = 1
    <3>1. /\ Blocks(h) = Blocks(g) \cup {d} /\ d \notin Blocks(g) /\ Blocks(f) \subseteq Blocks(g)
          /\ h.vals[d] = <<>> /\ h.succs[d] = <<s>> /\ h.preds[d] = <<b>>
      BY <2>4 DEF IsSplitEdge, SplitFrom
    <3> HIDE DEF d, s
    <3>2. h.succs[d][1] = s /\ Len(h.succs[d]) = 1
      BY ONLY <3>1, SingleFacts
    <3>3. h.preds[d][1] = b /\ Len(h.preds[d]) = 1
      BY ONLY <3>1, SingleFacts
    <3> QED BY <3>1, <3>2, <3>3
  <2>8. \A c \in Blocks(g) : /\ h.vals[c] = g.vals[c] /\ Len(h.succs[c]) = Len(g.succs[c]) /\ Len(h.preds[c]) = Len(g.preds[c])
                             /\ \A k \in DOMAIN g.succs[c] : h.succs[c][k] = IF c = b /\ k = i THEN d ELSE g.succs[c][k]
                             /\ \A k \in DOMAIN g.preds[c] : h.preds[c][k] = IF c = s /\ k = j THEN d ELSE g.preds[c][k]
    BY <2>4 DEF IsSplitEdge
  <2> HIDE DEF d, s
  <2>9. \A c \in Blocks(f) : h.vals[c] = f.vals[c] /\ Len(h.succs[c]) = Len(f.succs[c]) /\ Len(h.preds[c]) = Len(f.preds[c])
    <3> TAKE c \in Blocks(f)
    <3>1. g.vals[c] = f.vals[c] /\ Len(g.succs[c]) = Len(f.succs[c]) /\ Len(g.preds[c]) = Len(f.preds[c]) /\ c \in Blocks(g)
      BY SplitFromAt
    <3> QED BY <2>8, <3>1
  <2>10. ASSUME NEW e \in Blocks(g), e \notin Blocks(f)
         PROVE  /\ IsMiddle(g, f, e) /\ h.vals[e] = <<>> /\ h.succs[e][1] = g.succs[e][1] /\ h.preds[e][1] = g.preds[e][1]
                /\ Len(h.succs[e]) = 1 /\ Len(h.preds[e]) = 1 /\ 1 \in DOMAIN g.succs[e]
    <3>1. IsMiddle(g, f, e)
      BY <2>10 DEF SplitFrom
    <3>2. DOMAIN g.succs[e] = 1 .. Len(g.succs[e]) /\ DOMAIN g.preds[e] = 1 .. Len(g.preds[e])
      BY <2>1, GraphTypes
    <3>3. 1 \in DOMAIN g.succs[e] /\ 1 \in DOMAIN g.preds[e]
      BY <3>1, <3>2 DEF IsMiddle
    <3>4. e # b /\ e # s
      BY <1>1, <2>1, <2>10
    <3>5. h.succs[e][1] = g.succs[e][1] /\ h.preds[e][1] = g.preds[e][1] /\ Len(h.succs[e]) = Len(g.succs[e]) /\ Len(h.preds[e]) = Len(g.preds[e])
          /\ h.vals[e] = g.vals[e]
      BY <2>8, <3>3, <3>4
    <3> QED BY <3>1, <3>3, <3>5 DEF IsMiddle
  <2>11. ASSUME NEW e \in Blocks(h) \ Blocks(f) PROVE IsMiddle(h, f, e)
    <3>1. CASE e = d
      <4>1. s \in Blocks(f)
        BY <1>1, <2>1
      <4> QED BY <2>7, <3>1, <4>1 DEF IsMiddle
    <3>2. CASE e # d
      <4>1. e \in Blocks(g) /\ e \notin Blocks(f)
        BY <2>7, <3>2
      <4> QED BY <2>10, <4>1 DEF IsMiddle
    <3> QED BY <3>1, <3>2
  <2>12. ASSUME NEW c \in Blocks(f), NEW k \in DOMAIN f.succs[c], NEW m, IsSlot(f, c, k, m)
         PROVE  EdgeKept(h, f, c, k, m) \/ EdgeHalved(h, f, c, k, m)
    <3>1. c \in Blocks(g) /\ k \in DOMAIN g.succs[c]
      BY SplitFromAt
    <3>2. EdgeKept(g, f, c, k, m) \/ EdgeHalved(g, f, c, k, m)
      BY <2>12 DEF SplitFrom
    <3>3. CASE c = b /\ k = i
      <4>1. m = j
        <5>1. PredIndex(f, b, i) = m /\ PredIndex(f, b, i) = j
          BY <2>2, <2>12, <3>3, PredIndexIsSlot
        <5> QED BY <5>1
      <4>2. h.succs[b][i] = d /\ IsSlot(h, d, 1, j)
        <5>1. LET e == Len(g.vals) + 1
              IN  h.succs[b][i] = e /\ IsSlot(h, e, 1, j)
          BY <2>1, <2>3, <2>4, HalvesSlots
        <5> QED BY <5>1 DEF d
      <4>3. d \in Blocks(h) \ Blocks(f) /\ h.preds[d][1] = b /\ h.succs[d][1] = f.succs[b][i]
        BY <2>1, <2>7
      <4> QED BY <3>3, <4>1, <4>2, <4>3 DEF EdgeHalved
    <3>4. CASE (c # b \/ k # i) /\ EdgeKept(g, f, c, k, m)
      <4>1. h.succs[c][k] = g.succs[c][k] /\ IsSlot(h, c, k, m)
        BY <2>1, <2>3, <2>4, <3>1, <3>4, OtherSlots DEF EdgeKept
      <4> QED BY <3>4, <4>1 DEF EdgeKept
    <3>5. CASE (c # b \/ k # i) /\ EdgeHalved(g, f, c, k, m)
      <4> DEFINE e == g.succs[c][k]
      <4>1. e \in Blocks(g) /\ e \notin Blocks(f) /\ g.succs[e][1] = f.succs[c][k] /\ g.preds[e][1] = c /\ IsSlot(g, e, 1, m)
        BY <3>5 DEF EdgeHalved
      <4>2. h.succs[c][k] = e
        BY <2>8, <3>1, <3>5
      <4> HIDE DEF e
      <4>3. h.succs[e][1] = g.succs[e][1] /\ h.preds[e][1] = g.preds[e][1] /\ 1 \in DOMAIN g.succs[e] /\ e # b
        BY <2>10, <4>1
      <4>4. IsSlot(h, e, 1, m)
        BY <2>1, <2>3, <2>4, <4>1, <4>3, OtherSlots
      <4>5. e \in Blocks(h) \ Blocks(f)
        BY <2>7, <4>1
      <4> QED BY <4>1, <4>2, <4>3, <4>4, <4>5 DEF EdgeHalved
    <3> QED BY <3>2, <3>3, <3>4, <3>5
  <2>13. Blocks(f) \subseteq Blocks(h)
    BY <2>7
  <2>14. SplitFrom(h, f)
    BY <2>5, <2>6, <2>9, <2>11, <2>12, <2>13 DEF SplitFrom
  <2>15. ASSUME NEW c \in Blocks(f), NEW k \in DOMAIN f.succs[c]
         PROVE  IF c < b \/ (c = b /\ k <= i) THEN ~IsCritical(h, c, k) ELSE h.succs[c][k] = f.succs[c][k]
    <3>1. CASE c = b /\ k = i
      <4>1. h.succs[b][i] = d /\ Len(h.preds[d]) = 1
        BY <2>1, <2>7, <2>8
      <4>2. ~IsCritical(h, c, k)
        BY ONLY <3>1, <4>1 DEF IsCritical
      <4> QED BY <1>1, <3>1, <4>2
    <3>2. CASE ~(c = b /\ k = i)
      <4>0. k \in Nat /\ c \in Nat
        BY <1>1
      <4>a. k # i => (k <= i <=> k <= i - 1)
        BY <1>1, <4>0
      <4>1. (c < b \/ (c = b /\ k <= i)) <=> (c < b \/ (c = b /\ k <= i - 1))
        BY <3>2, <4>a
      <4>2. IF c < b \/ (c = b /\ k <= i - 1) THEN ~IsCritical(g, c, k) ELSE g.succs[c][k] = f.succs[c][k]
        BY DEF Upto
      <4>3. c \in Blocks(g) /\ k \in DOMAIN g.succs[c]
        BY SplitFromAt
      <4>4. h.succs[c][k] = g.succs[c][k] /\ Len(h.succs[c]) = Len(g.succs[c]) /\ g.succs[c][k] \in Blocks(g)
        BY <2>1, <2>8, <3>2, <4>3, GraphTypes
      <4>5. Len(h.preds[g.succs[c][k]]) = Len(g.preds[g.succs[c][k]])
        BY <2>8, <4>4
      <4>6. IsCritical(h, c, k) <=> IsCritical(g, c, k)
        BY <4>4, <4>5 DEF IsCritical
      <4> QED BY <4>1, <4>2, <4>4, <4>6
    <3> QED BY <3>1, <3>2
  <2>16. Upto(h, f, b, i)
    BY <2>15 DEF Upto
  <2> QED BY <2>14, <2>16
<1> QED BY <1>2, <1>3

\* The graphs that are left when the edges of the blocks before b and the first n
\* of b are done.
SplitUpto(f, b, n) == {h \in Functions : SplitFrom(h, f) /\ Upto(h, f, b, n)}

\* The edges of one block are looked at one after the other.
LEMMA SplitBlock ==
  ASSUME NEW f, IsGraph(f), Matched(f), NEW b \in Blocks(f), NEW g \in SplitUpto(f, b, 0)
  PROVE  SplitEdgesOf(g, b) \in SplitUpto(f, b, Len(f.succs[b]))
<1> DEFINE N == Len(f.succs[b])
           T == [n \in 0 .. N |-> SplitUpto(f, b, n)]
           SplitAt(h, i) == IF IsCritical(h, b, i) THEN SplitEdge(h, b, i) ELSE h
           step == [n \in 1 .. N |-> [h \in Functions |-> SplitAt(h, n)]]
           IsChain(it) == it = [n \in 0 .. N |-> IF n = 0 THEN g ELSE SplitAt(it[n - 1], n)]
           chain == CHOOSE it : IsChain(it)
<1>1. N \in Nat /\ DOMAIN f.succs[b] = 1 .. N /\ Len(g.succs[b]) = N
  <2>1. SplitFrom(g, f)
    BY DEF SplitUpto
  <2> QED BY <2>1, GraphTypes, SplitFromAt
<1>2. ASSUME NEW n \in 1 .. N, NEW h \in T[n - 1] PROVE h \in Functions /\ SplitAt(h, n) \in T[n]
  <2>1. n - 1 \in 0 .. N /\ n \in 0 .. N /\ n \in DOMAIN f.succs[b]
    BY <1>1
  <2>2. T[n - 1] = SplitUpto(f, b, n - 1) /\ T[n] = SplitUpto(f, b, n)
    BY <2>1
  <2>3. h \in Functions /\ SplitFrom(h, f) /\ Upto(h, f, b, n - 1)
    BY <2>2 DEF SplitUpto
  <2> HIDE DEF T
  <2>4. SplitFrom(SplitAt(h, n), f) /\ Upto(SplitAt(h, n), f, b, n)
    BY <2>1, <2>3, SplitStep
  <2>5. SplitAt(h, n) \in Functions
    BY <2>4 DEF SplitFrom, IsGraph
  <2> QED BY <2>2, <2>4, <2>5 DEF SplitUpto
<1>3. g \in T[0]
  BY <1>1
<1> HIDE DEF T, SplitAt, N
<1>4. \E it : ChainOf(it, N, g, step) /\ \A n \in 0 .. N : it[n] \in T[n]
  <2>1. \A n \in 1 .. N : \A h \in T[n - 1] : step[n][h] \in T[n]
    BY <1>2
  <2> HIDE DEF step
  <2> QED BY <1>1, <1>3, <2>1, ChainExists DEF Chained
<1>5. \E it : IsChain(it)
  <2>1. PICK it : ChainOf(it, N, g, step) /\ \A n \in 0 .. N : it[n] \in T[n]
    BY <1>4
  <2>2. ASSUME NEW n \in 0 .. N PROVE (IF n = 0 THEN g ELSE step[n][it[n - 1]]) = IF n = 0 THEN g ELSE SplitAt(it[n - 1], n)
    <3> SUFFICES ASSUME n # 0 PROVE step[n][it[n - 1]] = SplitAt(it[n - 1], n)
      OBVIOUS
    <3>1. n \in 1 .. N /\ n - 1 \in 0 .. N
      BY <1>1
    <3>2. it[n - 1] \in Functions
      BY <1>2, <2>1, <3>1
    <3> QED BY <3>1, <3>2
  <2>3. [n \in 0 .. N |-> IF n = 0 THEN g ELSE step[n][it[n - 1]]] = [n \in 0 .. N |-> IF n = 0 THEN g ELSE SplitAt(it[n - 1], n)]
    BY <2>2
  <2>4. IsChain(it)
    BY <2>1, <2>3 DEF ChainOf
  <2> QED BY <2>4
<1>6. IsChain(chain)
  BY <1>5
<1>7. SplitEdgesOf(g, b) = chain[N]
  BY <1>1 DEF SplitEdgesOf, SplitAt
<1> HIDE DEF chain
<1>8. chain[0] = g /\ \A n \in 1 .. N : chain[n] = SplitAt(chain[n - 1], n)
  BY <1>1, <1>6
<1>9. \A n \in 0 .. N : chain[n] \in T[n]
  <2>1. chain[0] \in T[0] /\ \A n \in 1 .. N : chain[n - 1] \in T[n - 1] => chain[n] \in T[n]
    BY <1>2, <1>3, <1>8
  <2> QED BY <1>1, <2>1, ChainKeeps
<1>10. chain[N] \in T[N] /\ T[N] = SplitUpto(f, b, N)
  BY <1>1, <1>9 DEF T
<1> QED BY <1>7, <1>10 DEF N

\* What SplitCriticalEdges gives: the graph with some edges split, and none of its
\* edges is critical.
LEMMA SplitCriticalEdgesGives ==
  ASSUME NEW f, IsGraph(f), Matched(f)
  PROVE  /\ SplitFrom(SplitCriticalEdges(f), f)
         /\ \A b \in Blocks(SplitCriticalEdges(f)) : \A i \in DOMAIN SplitCriticalEdges(f).succs[b] :
               ~IsCritical(SplitCriticalEdges(f), b, i)
<1> DEFINE N == Len(f.vals)
           T == [n \in 0 .. N |-> SplitUpto(f, n + 1, 0)]
           step == [n \in 1 .. N |-> [h \in Functions |-> SplitEdgesOf(h, n)]]
           IsChain(it) == it = [n \in 0 .. N |-> IF n = 0 THEN f ELSE SplitEdgesOf(it[n - 1], n)]
           chain == CHOOSE it : IsChain(it)
           g == SplitCriticalEdges(f)
<1>1. N \in Nat /\ Blocks(f) = 1 .. N /\ \A b \in Blocks(f) : Len(f.succs[b]) \in Nat /\ DOMAIN f.succs[b] = 1 .. Len(f.succs[b])
  BY GraphTypes
<1>2. ASSUME NEW n \in 1 .. N, NEW h \in T[n - 1] PROVE h \in Functions /\ SplitEdgesOf(h, n) \in T[n]
  <2>1. n - 1 \in 0 .. N /\ n \in 0 .. N /\ n \in Blocks(f) /\ (n - 1) + 1 = n
    BY <1>1
  <2>2. T[n - 1] = SplitUpto(f, n, 0) /\ T[n] = SplitUpto(f, n + 1, 0)
    BY <2>1
  <2> HIDE DEF T
  <2>3. SplitEdgesOf(h, n) \in SplitUpto(f, n, Len(f.succs[n]))
    BY <2>1, <2>2, SplitBlock
  <2> DEFINE k == SplitEdgesOf(h, n)
  <2> HIDE DEF k
  <2>4. k \in Functions /\ SplitFrom(k, f) /\ Upto(k, f, n, Len(f.succs[n]))
    BY <2>3 DEF SplitUpto, k
  <2>5. Upto(k, f, n + 1, 0)
    <3>1. ASSUME NEW c \in Blocks(f), NEW e \in DOMAIN f.succs[c]
          PROVE  IF c < n + 1 \/ (c = n + 1 /\ e <= 0) THEN ~IsCritical(k, c, e) ELSE k.succs[c][e] = f.succs[c][e]
      <4>1. c \in Nat /\ e \in Nat /\ e >= 1 /\ e <= Len(f.succs[c])
        BY <1>1
      <4>2. IF c < n \/ (c = n /\ e <= Len(f.succs[n])) THEN ~IsCritical(k, c, e) ELSE k.succs[c][e] = f.succs[c][e]
        BY <2>4 DEF Upto
      <4>3. c < n + 1 \/ (c = n + 1 /\ e <= 0) <=> c < n \/ c = n
        BY <2>1, <4>1
      <4>4. c < n \/ (c = n /\ e <= Len(f.succs[n])) <=> c < n \/ c = n
        BY <4>1
      <4> QED BY <4>2, <4>3, <4>4
    <3> QED BY <3>1 DEF Upto
  <2> QED BY <2>2, <2>4, <2>5 DEF SplitUpto, k
<1>3. f \in T[0]
  <2>1. SplitFrom(f, f)
    BY DEF SplitFrom, EdgeKept
  <2>2. Upto(f, f, 1, 0)
    <3> SUFFICES ASSUME NEW c \in Blocks(f), NEW e \in DOMAIN f.succs[c] PROVE ~(c < 1 \/ (c = 1 /\ e <= 0))
      BY DEF Upto
    <3>1. c \in 1 .. N /\ e \in 1 .. Len(f.succs[c]) /\ Len(f.succs[c]) \in Nat
      BY <1>1
    <3> QED BY <1>1, <3>1
  <2>3. f \in Functions
    BY DEF IsGraph
  <2>4. T[0] = SplitUpto(f, 1, 0)
    BY <1>1
  <2> QED BY <2>1, <2>2, <2>3, <2>4 DEF SplitUpto
<1> HIDE DEF T, N
<1>4. \E it : ChainOf(it, N, f, step) /\ \A n \in 0 .. N : it[n] \in T[n]
  <2>1. \A n \in 1 .. N : \A h \in T[n - 1] : step[n][h] \in T[n]
    BY <1>2
  <2> HIDE DEF step
  <2> QED BY <1>1, <1>3, <2>1, ChainExists DEF Chained
<1>5. \E it : IsChain(it)
  <2>1. PICK it : ChainOf(it, N, f, step) /\ \A n \in 0 .. N : it[n] \in T[n]
    BY <1>4
  <2>2. ASSUME NEW n \in 0 .. N PROVE (IF n = 0 THEN f ELSE step[n][it[n - 1]]) = IF n = 0 THEN f ELSE SplitEdgesOf(it[n - 1], n)
    <3> SUFFICES ASSUME n # 0 PROVE step[n][it[n - 1]] = SplitEdgesOf(it[n - 1], n)
      OBVIOUS
    <3>1. n \in 1 .. N /\ n - 1 \in 0 .. N
      BY <1>1
    <3>2. it[n - 1] \in Functions
      BY <1>2, <2>1, <3>1
    <3> QED BY <3>1, <3>2
  <2>3. [n \in 0 .. N |-> IF n = 0 THEN f ELSE step[n][it[n - 1]]] = [n \in 0 .. N |-> IF n = 0 THEN f ELSE SplitEdgesOf(it[n - 1], n)]
    BY <2>2
  <2>4. IsChain(it)
    BY <2>1, <2>3 DEF ChainOf
  <2> QED BY <2>4
<1>6. IsChain(chain)
  BY <1>5
<1>7. g = chain[N]
  BY DEF SplitCriticalEdges, N
<1> HIDE DEF chain
<1>8. chain[0] = f /\ \A n \in 1 .. N : chain[n] = SplitEdgesOf(chain[n - 1], n)
  BY <1>1, <1>6
<1>9. \A n \in 0 .. N : chain[n] \in T[n]
  <2>1. chain[0] \in T[0] /\ \A n \in 1 .. N : chain[n - 1] \in T[n - 1] => chain[n] \in T[n]
    BY <1>2, <1>3, <1>8
  <2> QED BY <1>1, <2>1, ChainKeeps
<1>10. g \in SplitUpto(f, N + 1, 0)
  BY <1>1, <1>7, <1>9 DEF T
<1>11. SplitFrom(g, f) /\ Upto(g, f, N + 1, 0)
  BY <1>10 DEF SplitUpto
<1> HIDE DEF g
<1>12. ASSUME NEW b \in Blocks(g), NEW i \in DOMAIN g.succs[b] PROVE ~IsCritical(g, b, i)
  <2>1. CASE b \in Blocks(f)
    <3>1. i \in DOMAIN f.succs[b]
      BY <1>11, <2>1, SplitFromAt
    <3>2. b < N + 1
      BY <1>1, <2>1
    <3> QED BY <1>11, <2>1, <3>1, <3>2 DEF Upto
  <2>2. CASE b \notin Blocks(f)
    <3>1. Len(g.succs[b]) = 1
      BY <1>11, <2>2 DEF SplitFrom, IsMiddle
    <3> QED BY <3>1 DEF IsCritical
  <2> QED BY <2>1, <2>2
<1> QED BY <1>11, <1>12 DEF g

-----------------------------------------------------------------------------
(* What is left of the function *)

\* A function ready to be allocated: nothing is lost by the splitting, and no edge
\* is critical.
Ready(h) ==
  /\ IsFunction(h) /\ Matched(h) /\ Reached(h) /\ Conventional(h)
  /\ \A b \in Blocks(h) : \A i \in DOMAIN h.vals[b] : WellPlaced(h, b, i)
  /\ LiveAtStart(h, 1) = {}
  /\ \A b \in Blocks(h) : \A i \in DOMAIN h.succs[b] : ~IsCritical(h, b, i)

\* A function is a graph with an entry.
LEMMA FunctionFacts ==
  ASSUME NEW f, IsFunction(f)
  PROVE  /\ IsGraph(f) /\ 1 \in Blocks(f) /\ FlowGraph(f) /\ DOMAIN f.op = Ids /\ DOMAIN f.args = Ids
         /\ Tracked(f) \subseteq Ids /\ Remats(f) \subseteq Ids
         /\ \A v \in Ids : f.args[v] \in Seq(Ids)
<1>1. IsGraph(f) /\ f.vals # <<>>
  BY DEF IsFunction, IsGraph
<1>2. Blocks(f) = 1 .. Len(f.vals) /\ Len(f.vals) \in Nat
  BY <1>1, GraphTypes
<1>3. f.vals \in Seq(Seq(Ids)) /\ f.op \in [Ids -> Ops] /\ f.args \in [Ids -> Seq(Ids)]
  BY DEF IsFunction, Functions
<1>4. 1 \in Blocks(f)
  <2>1. Len(f.vals) # 0
    BY <1>1, <1>3
  <2> QED BY <1>2, <2>1
<1>5. DOMAIN f.op = Ids /\ Tracked(f) \subseteq Ids /\ Remats(f) \subseteq Ids
  BY <1>3 DEF Tracked, Remats
<1>6. FlowGraph(f)
  BY <1>3, <1>5 DEF FlowGraph, IsFunction
<1> QED BY <1>1, <1>3, <1>4, <1>5, <1>6

\* The blocks an edge goes through.
LEMMA EdgeThrough ==
  ASSUME NEW f, IsGraph(f), Matched(f), NEW h, SplitFrom(h, f), NEW c \in Blocks(f), NEW k \in DOMAIN f.succs[c]
  PROVE  \E m : IsSlot(f, c, k, m) /\ (EdgeKept(h, f, c, k, m) \/ EdgeHalved(h, f, c, k, m))
<1>1. PICK m : IsSlot(f, c, k, m)
  BY DEF Matched
<1> QED BY <1>1 DEF SplitFrom

\* The block an edge was split with stands between the ends of one edge.
LEMMA MiddleEdge ==
  ASSUME NEW f, IsGraph(f), Matched(f), NEW h, SplitFrom(h, f), NEW d \in Blocks(h), d \notin Blocks(f)
  PROVE  \E c \in Blocks(f) : \E k \in DOMAIN f.succs[c] : \E m :
            /\ c = h.preds[d][1] /\ d = h.succs[c][k] /\ IsSlot(f, c, k, m)
            /\ h.succs[d][1] = f.succs[c][k] /\ IsSlot(h, d, 1, m)
<1> DEFINE c == h.preds[d][1]
<1>1. IsMiddle(h, f, d) /\ Matched(h) /\ IsGraph(h)
  BY DEF SplitFrom
<1>2. c \in Blocks(f) /\ 1 \in DOMAIN h.preds[d]
  BY <1>1, GraphTypes DEF IsMiddle
<1>3. PICK k \in DOMAIN h.succs[c] : h.succs[c][k] = d
  BY <1>1, <1>2 DEF Matched
<1>4. k \in DOMAIN f.succs[c]
  BY <1>2, SplitFromAt
<1>5. PICK m : IsSlot(f, c, k, m) /\ (EdgeKept(h, f, c, k, m) \/ EdgeHalved(h, f, c, k, m))
  BY <1>2, <1>4, EdgeThrough
<1>6. f.succs[c][k] \in Blocks(f)
  BY <1>2, <1>4, EdgeTypes
<1>7. ~EdgeKept(h, f, c, k, m)
  BY <1>3, <1>6 DEF EdgeKept
<1>8. EdgeHalved(h, f, c, k, m)
  BY <1>5, <1>7
<1>9. h.succs[d][1] = f.succs[c][k] /\ IsSlot(h, d, 1, m)
  BY <1>3, <1>8 DEF EdgeHalved
<1> QED BY <1>2, <1>3, <1>4, <1>5, <1>9

\* Elements of a sequence, by index.
LEMMA InSequence ==
  ASSUME NEW q, NEW x, x \in ToSet(q)
  PROVE  \E i \in DOMAIN q : q[i] = x
BY DEF ToSet

\* The entry still leads everywhere.
LEMMA SplitReached ==
  ASSUME NEW f, IsGraph(f), Matched(f), Reached(f), 1 \in Blocks(f), NEW h, SplitFrom(h, f)
  PROVE  Reached(h)
<1>1. h.preds[1] = <<>>
  <2>1. h.preds[1] \in Seq(Blocks(h)) /\ Len(h.preds[1]) = Len(f.preds[1]) /\ f.preds[1] = <<>>
    BY GraphTypes DEF SplitFrom, Reached
  <2>2. Len(h.preds[1]) = 0
    BY <2>1
  <2> QED BY <2>1, <2>2
<1>2. ASSUME NEW S \in SUBSET Blocks(h), 1 \in S, \A b \in S : ToSet(h.succs[b]) \subseteq S
      PROVE  Blocks(h) \subseteq S
  <2> DEFINE R == S \cap Blocks(f)
  <2>0. IsGraph(h)
    BY DEF SplitFrom
  <2>1. \A c \in S : \A k \in DOMAIN h.succs[c] : h.succs[c][k] \in S
    BY <1>2 DEF ToSet
  <2>2. ASSUME NEW c \in R, NEW x \in ToSet(f.succs[c]) PROVE x \in R
    <3>1. PICK k \in DOMAIN f.succs[c] : f.succs[c][k] = x
      BY InSequence
    <3>2. PICK m : IsSlot(f, c, k, m) /\ (EdgeKept(h, f, c, k, m) \/ EdgeHalved(h, f, c, k, m))
      BY <3>1, EdgeThrough
    <3>3. x \in Blocks(f) /\ k \in DOMAIN h.succs[c]
      BY <3>1, EdgeTypes, SplitFromAt
    <3>4. h.succs[c][k] \in S
      BY <2>1, <3>3
    <3>5. CASE EdgeKept(h, f, c, k, m)
      BY <3>1, <3>3, <3>4, <3>5 DEF EdgeKept
    <3>6. CASE EdgeHalved(h, f, c, k, m)
      <4> DEFINE d == h.succs[c][k]
      <4>1. d \in Blocks(h) \ Blocks(f) /\ h.succs[d][1] = x
        BY <3>1, <3>6 DEF EdgeHalved
      <4>2. IsMiddle(h, f, d)
        BY <4>1 DEF SplitFrom
      <4>3. 1 \in DOMAIN h.succs[d]
        BY <2>0, <4>1, <4>2, GraphTypes DEF IsMiddle
      <4>4. h.succs[d][1] \in S
        BY <2>1, <3>4, <4>3
      <4> QED BY <3>3, <4>1, <4>4
    <3> QED BY <3>2, <3>5, <3>6
  <2>3. R = Blocks(f)
    <3>1. R \in SUBSET Blocks(f) /\ 1 \in R /\ \A b \in R : ToSet(f.succs[b]) \subseteq R
      BY <1>2, <2>2
    <3> HIDE DEF R
    <3> QED BY <3>1 DEF Reached
  <2>4. ASSUME NEW d \in Blocks(h), d \notin Blocks(f) PROVE d \in S
    <3>1. PICK c \in Blocks(f) : \E k \in DOMAIN f.succs[c] : d = h.succs[c][k]
      BY <2>4, MiddleEdge
    <3>2. PICK k \in DOMAIN f.succs[c] : d = h.succs[c][k]
      BY <3>1
    <3>3. k \in DOMAIN h.succs[c]
      BY SplitFromAt
    <3> QED BY <2>1, <2>3, <3>2, <3>3
  <2> QED BY <2>3, <2>4
<1> QED BY <1>1, <1>2 DEF Reached

\* What is read at the end of a block is read at the end of the edges it had.
LEMMA SplitReads ==
  ASSUME NEW f, IsGraph(f), Matched(f), NEW h, SplitFrom(h, f)
  PROVE  /\ Tracked(h) = Tracked(f)
         /\ \A c \in Blocks(f) : ReadAtEnd(h, c) \subseteq ReadAtEnd(f, c)
         /\ \A d \in Blocks(h) \ Blocks(f) : ReadAtEnd(h, d) \subseteq ReadAtEnd(f, h.preds[d][1])
<1>0. h.op = f.op /\ h.args = f.args /\ IsGraph(h)
  BY DEF SplitFrom
<1>1. Tracked(h) = Tracked(f)
  BY <1>0 DEF Tracked
<1>2. ASSUME NEW c \in Blocks(f) PROVE Phis(h, c) = Phis(f, c)
  <2>1. h.vals[c] = f.vals[c]
    BY SplitFromAt
  <2> QED BY <1>0, <2>1 DEF Phis
<1>3. ASSUME NEW c \in Blocks(f), NEW v \in ReadAtEnd(h, c) PROVE v \in ReadAtEnd(f, c)
  <2>1. v \in Tracked(f)
    BY <1>1 DEF ReadAtEnd
  <2>2. PICK k \in DOMAIN h.succs[c] : \E phi \in Phis(h, h.succs[c][k]) : v = EdgeArg(h, c, k, phi)
    BY DEF ReadAtEnd
  <2>3. PICK phi \in Phis(h, h.succs[c][k]) : v = EdgeArg(h, c, k, phi)
    BY <2>2
  <2>4. k \in DOMAIN f.succs[c] /\ c \in Blocks(h)
    BY <2>2, SplitFromAt
  <2>5. PICK m : IsSlot(f, c, k, m) /\ (EdgeKept(h, f, c, k, m) \/ EdgeHalved(h, f, c, k, m))
    BY <2>4, EdgeThrough
  <2>6. CASE EdgeHalved(h, f, c, k, m)
    <3>1. h.vals[h.succs[c][k]] = <<>>
      BY <2>6 DEF EdgeHalved, SplitFrom, IsMiddle
    <3>2. FALSE
      BY <2>3, <3>1 DEF Phis
    <3> QED BY <3>2
  <2>7. CASE EdgeKept(h, f, c, k, m)
    <3>1. h.succs[c][k] = f.succs[c][k] /\ IsSlot(h, c, k, m) /\ f.succs[c][k] \in Blocks(f)
      BY <2>4, <2>7, EdgeTypes DEF EdgeKept
    <3>2. PredIndex(h, c, k) = m
      BY <1>0, <2>4, <3>1, PredIndexIsSlot
    <3>3. PredIndex(f, c, k) = m
      BY <2>4, <2>5, PredIndexIsSlot
    <3>4. v = EdgeArg(f, c, k, phi) /\ phi \in Phis(f, f.succs[c][k])
      BY <1>0, <1>2, <2>3, <3>1, <3>2, <3>3 DEF EdgeArg
    <3> QED BY <2>1, <2>4, <3>4 DEF ReadAtEnd
  <2> QED BY <2>5, <2>6, <2>7
<1>4. ASSUME NEW d \in Blocks(h) \ Blocks(f), NEW v \in ReadAtEnd(h, d) PROVE v \in ReadAtEnd(f, h.preds[d][1])
  <2>1. v \in Tracked(f)
    BY <1>1 DEF ReadAtEnd
  <2>2. PICK k \in DOMAIN h.succs[d] : \E phi \in Phis(h, h.succs[d][k]) : v = EdgeArg(h, d, k, phi)
    BY DEF ReadAtEnd
  <2>3. PICK phi \in Phis(h, h.succs[d][k]) : v = EdgeArg(h, d, k, phi)
    BY <2>2
  <2>4. k = 1
    <3>1. Len(h.succs[d]) = 1 /\ DOMAIN h.succs[d] = 1 .. Len(h.succs[d])
      BY <1>0, GraphTypes DEF SplitFrom, IsMiddle
    <3> QED BY <2>2, <3>1
  <2>5. PICK c \in Blocks(f) : \E e \in DOMAIN f.succs[c] : \E m :
            /\ c = h.preds[d][1] /\ d = h.succs[c][e] /\ IsSlot(f, c, e, m)
            /\ h.succs[d][1] = f.succs[c][e] /\ IsSlot(h, d, 1, m)
    BY MiddleEdge
  <2>6. PICK e \in DOMAIN f.succs[c] : \E m :
            /\ c = h.preds[d][1] /\ d = h.succs[c][e] /\ IsSlot(f, c, e, m)
            /\ h.succs[d][1] = f.succs[c][e] /\ IsSlot(h, d, 1, m)
    BY <2>5
  <2>7. PICK m : /\ c = h.preds[d][1] /\ d = h.succs[c][e] /\ IsSlot(f, c, e, m)
                 /\ h.succs[d][1] = f.succs[c][e] /\ IsSlot(h, d, 1, m)
    BY <2>6
  <2>8. PredIndex(h, d, 1) = m /\ PredIndex(f, c, e) = m
    <3>1. PredIndex(h, d, 1) = m
      BY <1>0, <2>2, <2>4, <2>7, PredIndexIsSlot
    <3>2. PredIndex(f, c, e) = m
      BY <2>7, PredIndexIsSlot
    <3> QED BY <3>1, <3>2
  <2>9. f.succs[c][e] \in Blocks(f)
    BY EdgeTypes
  <2>10. v = EdgeArg(f, c, e, phi) /\ phi \in Phis(f, f.succs[c][e])
    BY <1>0, <1>2, <2>3, <2>4, <2>7, <2>8, <2>9 DEF EdgeArg
  <2>11. v \in ReadAtEnd(f, c)
    BY <2>1, <2>10 DEF ReadAtEnd
  <2> QED BY <2>7, <2>11
<1> QED BY <1>1, <1>3, <1>4

\* What is live before some values depends on the function's values alone.
LEMMA SameLiveBefore ==
  ASSUME NEW f, NEW h, h.op = f.op, h.args = f.args, NEW vs \in Seq(DOMAIN f.op), NEW A
  PROVE  LiveBefore(h, vs, A) = LiveBefore(f, vs, A)
<1> DEFINE S == DOMAIN vs
<1>1. IsFiniteSet(S)
  BY FS_Interval
<1>2. \A v : Reads(f, v) = Reads(h, v)
  BY DEF Reads, Tracked
<1>3. PICK it : Steps(f, vs, A, it)
  BY LiveBeforeFolds
<1>4. PICK jt : Steps(h, vs, A, jt)
  BY LiveBeforeFolds
<1>5. /\ LiveBefore(f, vs, A) = it[S] /\ it[{}] = A
      /\ \A s \in SUBSET S : s # {} => Min(s) \in s /\ it[s] = (it[s \ {Min(s)}] \ {vs[Min(s)]}) \cup Reads(f, vs[Min(s)])
  BY <1>3 DEF Steps
<1>6. /\ LiveBefore(h, vs, A) = jt[S] /\ jt[{}] = A
      /\ \A s \in SUBSET S : s # {} => Min(s) \in s /\ jt[s] = (jt[s \ {Min(s)}] \ {vs[Min(s)]}) \cup Reads(h, vs[Min(s)])
  BY <1>4 DEF Steps
<1> HIDE DEF S
<1> DEFINE P == {s \in SUBSET S : it[s] = jt[s]}
<1>7. {} \in P
  BY <1>5, <1>6
<1>8. ASSUME NEW s \in SUBSET S, s # {}, \A x \in s : s \ {x} \in P PROVE s \in P
  <2>1. Min(s) \in s /\ it[s \ {Min(s)}] = jt[s \ {Min(s)}]
    BY <1>5, <1>8
  <2> QED BY <1>2, <1>5, <1>6, <1>8, <2>1
<1> HIDE DEF P
<1>9. S \in P
  BY <1>1, <1>7, <1>8, SetInduction
<1> QED BY <1>5, <1>6, <1>9 DEF P

\* Nothing is live at the entry that was not.
LEMMA SplitStrict ==
  ASSUME NEW f, IsFunction(f), Matched(f), NEW h, SplitFrom(h, f), FlowGraph(h)
  PROVE  LiveAtStart(h, 1) \subseteq LiveAtStart(f, 1)
<1> SUFFICES ASSUME NEW v \in LiveAtStart(h, 1) PROVE v \in LiveAtStart(f, 1)
  OBVIOUS
<1> DEFINE U == Unwritten(f, 1, v)
           M == {d \in Blocks(h) \ Blocks(f) : h.preds[d][1] \in U /\ ~Contains(f.vals[h.preds[d][1]], v)}
<1>0. IsGraph(f) /\ 1 \in Blocks(f) /\ FlowGraph(f) /\ IsGraph(h) /\ h.op = f.op /\ h.args = f.args /\ 1 \in Blocks(h)
      /\ Blocks(f) \subseteq Blocks(h)
  BY FunctionFacts DEF SplitFrom
<1>1. 1 \in U /\ U \subseteq Blocks(f) /\ Keeps(f, U, v)
  BY <1>0, UnwrittenIsLeast
<1> HIDE DEF U
<1>2. ASSUME NEW d \in U \cup M, ~Contains(h.vals[d], v), NEW x \in ToSet(h.succs[d]) PROVE x \in U \cup M
  <2>0. d \in Blocks(h)
    BY <1>0, <1>1
  <2>1. PICK k \in DOMAIN h.succs[d] : h.succs[d][k] = x
    BY InSequence
  <2>2. CASE d \in U
    <3>1. d \in Blocks(f) /\ h.vals[d] = f.vals[d] /\ k \in DOMAIN f.succs[d]
      BY <1>1, <2>1, <2>2, SplitFromAt, <1>0
    <3>2. PICK m : IsSlot(f, d, k, m) /\ (EdgeKept(h, f, d, k, m) \/ EdgeHalved(h, f, d, k, m))
      BY <1>0, <3>1, EdgeThrough
    <3>3. CASE EdgeKept(h, f, d, k, m)
      <4>1. x = f.succs[d][k]
        BY <2>1, <3>3 DEF EdgeKept
      <4>2. x \in ToSet(f.succs[d])
        BY <3>1, <4>1 DEF ToSet
      <4> QED BY <1>1, <1>2, <2>2, <3>1, <4>2 DEF Keeps
    <3>4. CASE EdgeHalved(h, f, d, k, m)
      <4>1. x \in Blocks(h) \ Blocks(f) /\ h.preds[x][1] = d
        BY <2>1, <3>4 DEF EdgeHalved
      <4> QED BY <1>2, <2>2, <3>1, <4>1
    <3> QED BY <3>2, <3>3, <3>4
  <2>3. CASE d \in M
    <3>1. d \in Blocks(h) /\ d \notin Blocks(f)
      BY <2>3
    <3>2. PICK c \in Blocks(f) : \E e \in DOMAIN f.succs[c] : c = h.preds[d][1] /\ h.succs[d][1] = f.succs[c][e]
      BY <1>0, <3>1, MiddleEdge
    <3>3. PICK e \in DOMAIN f.succs[c] : c = h.preds[d][1] /\ h.succs[d][1] = f.succs[c][e]
      BY <3>2
    <3>4. k = 1
      <4>1. Len(h.succs[d]) = 1 /\ DOMAIN h.succs[d] = 1 .. Len(h.succs[d])
        BY <1>0, <3>1, GraphTypes DEF SplitFrom, IsMiddle
      <4> QED BY <2>1, <4>1
    <3>5. x \in ToSet(f.succs[c])
      BY <2>1, <3>3, <3>4 DEF ToSet
    <3>6. c \in U /\ ~Contains(f.vals[c], v)
      BY <2>3, <3>3
    <3> QED BY <1>1, <3>5, <3>6 DEF Keeps
  <2> QED BY <2>2, <2>3
<1>3. Unwritten(h, 1, v) \subseteq U \cup M
  <2> DEFINE W == U \cup M
  <2>1. W \in SUBSET Blocks(h) /\ 1 \in W
    BY <1>0, <1>1
  <2> HIDE DEF M
  <2>2. Keeps(h, W, v)
    BY <1>2 DEF Keeps
  <2> HIDE DEF W
  <2>3. Unwritten(h, 1, v) \subseteq W
    BY <1>0, <2>1, <2>2, UnwrittenIsLeast
  <2> QED BY <2>3 DEF W
<1>4. PICK c \in Unwritten(h, 1, v) : Demands(h, c, v)
  BY DEF LiveAtStart
<1>5. v \in Tracked(f)
  BY <1>0 DEF LiveAtStart, Tracked
<1>6. CASE c \in U
  <2>1. c \in Blocks(f) /\ h.vals[c] = f.vals[c]
    BY <1>0, <1>1, <1>6, SplitFromAt
  <2>2. LiveBefore(h, h.vals[c], {}) = LiveBefore(f, f.vals[c], {})
    <3>1. f.vals[c] \in Seq(DOMAIN f.op)
      BY <1>0, <2>1 DEF FlowGraph, Blocks
    <3> QED BY <1>0, <2>1, <3>1, SameLiveBefore
  <2>3. ReadAtEnd(h, c) \subseteq ReadAtEnd(f, c)
    BY <1>0, <2>1, SplitReads
  <2>4. Demands(f, c, v)
    BY <1>4, <2>1, <2>2, <2>3 DEF Demands
  <2> QED BY <1>5, <1>6, <2>4 DEF LiveAtStart, U
<1>7. CASE c \in M
  <2>1. c \in Blocks(h) \ Blocks(f) /\ h.vals[c] = <<>>
    BY <1>7 DEF SplitFrom, IsMiddle
  <2>2. LiveBefore(h, h.vals[c], {}) = {}
    <3>1. <<>> \in Seq(DOMAIN h.op)
      OBVIOUS
    <3>2. PICK it : Steps(h, <<>>, {}, it)
      BY <3>1, LiveBeforeFolds
    <3>3. LiveBefore(h, <<>>, {}) = it[DOMAIN <<>>] /\ it[{}] = {}
      BY <3>2 DEF Steps
    <3>4. DOMAIN <<>> = {}
      OBVIOUS
    <3> QED BY <2>1, <3>3, <3>4
  <2>3. v \in ReadAtEnd(h, c)
    BY <1>4, <2>2 DEF Demands
  <2>4. v \in ReadAtEnd(f, h.preds[c][1]) /\ h.preds[c][1] \in U /\ ~Contains(f.vals[h.preds[c][1]], v)
    BY <1>0, <1>7, <2>1, <2>3, SplitReads
  <2>5. Demands(f, h.preds[c][1], v)
    BY <2>4 DEF Demands
  <2> QED BY <1>5, <2>4, <2>5 DEF LiveAtStart, U
<1> QED BY <1>3, <1>4, <1>6, <1>7

\* A function whose critical edges are split is ready.
LEMMA SplitReady ==
  ASSUME NEW f, Compilable(f)
  PROVE  Ready(SplitCriticalEdges(f)) /\ SplitFrom(SplitCriticalEdges(f), f)
<1> DEFINE h == SplitCriticalEdges(f)
<1>1. /\ IsFunction(f) /\ Matched(f) /\ Reached(f) /\ Conventional(f) /\ LiveAtStart(f, 1) = {}
      /\ \A b \in Blocks(f) : \A i \in DOMAIN f.vals[b] : WellPlaced(f, b, i)
  BY DEF Compilable
<1>2. IsGraph(f) /\ 1 \in Blocks(f) /\ FlowGraph(f)
  BY <1>1, FunctionFacts
<1>3. SplitFrom(h, f) /\ \A b \in Blocks(h) : \A i \in DOMAIN h.succs[b] : ~IsCritical(h, b, i)
  BY <1>1, <1>2, SplitCriticalEdgesGives
<1> HIDE DEF h
<1>4. IsGraph(h) /\ h.op = f.op /\ h.args = f.args /\ h.place = f.place /\ Blocks(f) \subseteq Blocks(h) /\ Matched(h)
      /\ \A c \in Blocks(f) : h.vals[c] = f.vals[c] /\ Len(h.preds[c]) = Len(f.preds[c])
      /\ \A d \in Blocks(h) \ Blocks(f) : h.vals[d] = <<>>
  BY <1>3 DEF SplitFrom, IsMiddle
<1>5. \A b \in Blocks(h) : \A i \in DOMAIN h.vals[b] : b \in Blocks(f) /\ i \in DOMAIN f.vals[b] /\ h.vals[b][i] = f.vals[b][i]
  <2> TAKE b \in Blocks(h)
  <2> TAKE i \in DOMAIN h.vals[b]
  <2>1. h.vals[b] # <<>>
    <3> DEFINE q == h.vals[b]
    <3>1. i \in DOMAIN q
      OBVIOUS
    <3> HIDE DEF q
    <3>2. q # <<>>
      BY ONLY <3>1
    <3> QED BY <3>2 DEF q
  <2>2. b \in Blocks(f)
    <3> SUFFICES ASSUME b \in Blocks(h) \ Blocks(f) PROVE FALSE
      OBVIOUS
    <3>1. IsMiddle(h, f, b)
      BY <1>3 DEF SplitFrom
    <3> QED BY <2>1, <3>1 DEF IsMiddle
  <2>3. h.vals[b] = f.vals[b]
    BY <1>4, <2>2
  <2>4. i \in DOMAIN f.vals[b] /\ h.vals[b][i] = f.vals[b][i]
    BY ONLY <2>3, i \in DOMAIN h.vals[b]
  <2> QED BY <2>2, <2>4
<1>6. Values(h) = Values(f)
  <2>1. ASSUME NEW v \in Values(h) PROVE v \in Values(f)
    <3>1. PICK b \in Blocks(h) : v \in ToSet(h.vals[b])
      BY DEF Values
    <3>2. PICK i \in DOMAIN h.vals[b] : h.vals[b][i] = v
      BY <3>1, InSequence
    <3>3. b \in Blocks(f) /\ v \in ToSet(f.vals[b])
      BY <1>5, <3>2 DEF ToSet
    <3> QED BY <3>3 DEF Values
  <2>2. ASSUME NEW v \in Values(f) PROVE v \in Values(h)
    <3>1. PICK b \in Blocks(f) : v \in ToSet(f.vals[b])
      BY DEF Values
    <3>2. v \in ToSet(h.vals[b]) /\ b \in Blocks(h)
      BY <1>4, <3>1
    <3> QED BY <3>2 DEF Values
  <2> QED BY <2>1, <2>2
<1>7. Calls(h) = Calls(f) /\ Tracked(h) = Tracked(f) /\ Remats(h) = Remats(f)
  BY <1>4, <1>6 DEF Calls, Tracked, Remats
<1>8. IsFunction(h)
  <2>1. h.vals # <<>>
    <3>1. 1 \in DOMAIN h.vals
      BY <1>2, <1>4 DEF Blocks
    <3>2. DOMAIN <<>> = {}
      OBVIOUS
    <3> QED BY <3>1, <3>2
  <2>2. ASSUME NEW b \in Blocks(h), NEW c \in Blocks(h), NEW i \in DOMAIN h.vals[b], NEW j \in DOMAIN h.vals[c], h.vals[b][i] = h.vals[c][j]
        PROVE  b = c /\ i = j
    <3>1. b \in Blocks(f) /\ c \in Blocks(f) /\ i \in DOMAIN f.vals[b] /\ j \in DOMAIN f.vals[c] /\ f.vals[b][i] = f.vals[c][j]
      BY <1>5, <2>2
    <3> QED BY <1>1, <3>1 DEF IsFunction
  <2>3. Tracked(h) \cup Calls(h) \subseteq Values(h)
    BY <1>1, <1>6, <1>7 DEF IsFunction
  <2>4. h \in Functions /\ h.succs \in [Blocks(h) -> Seq(Blocks(h))] /\ h.preds \in [Blocks(h) -> Seq(Blocks(h))]
    BY <1>4 DEF IsGraph
  <2> QED BY <2>1, <2>2, <2>3, <2>4 DEF IsFunction
<1>9. Conventional(h)
  BY <1>1, <1>4, <1>6, <1>7 DEF Conventional
<1>10. ASSUME NEW b \in Blocks(h), NEW i \in DOMAIN h.vals[b] PROVE WellPlaced(h, b, i)
  <2>1. b \in Blocks(f) /\ i \in DOMAIN f.vals[b]
    BY <1>5
  <2>2. h.vals[b] = f.vals[b] /\ Len(h.preds[b]) = Len(f.preds[b])
    BY <1>4, <2>1
  <2>3. WellPlaced(f, b, i)
    BY <1>1, <2>1
  <2>4. Tracked(h) = Tracked(f) /\ Remats(h) = Remats(f) /\ h.op = f.op /\ h.args = f.args /\ h.place = f.place
    BY <1>4, <1>7
  <2> DEFINE P(row, n, kind, from, reg, homes) ==
               LET v  == row[i]
                   is == kind[v]
               IN  /\ is = "arg" => b = 1 /\ from[v] = <<>>
                   /\ is = "arg" /\ reg[v] # NoReg => \A k \in 1 .. i : kind[row[k]] = "arg" /\ reg[row[k]] # NoReg
                   /\ is = "phi" => (\A k \in 1 .. i : kind[row[k]] = "phi") /\ Len(from[v]) = n
                   /\ is = "select" => /\ Len(from[v]) = 1
                                       /\ \E c \in 1 .. i - 1 : /\ row[c] = from[v][1] /\ kind[from[v][1]] = "call"
                                                               /\ \A k \in c + 1 .. i : /\ kind[row[k]] = "select"
                                                                                        /\ from[row[k]] = from[v]
                   /\ is \in {"op", "call", "branch", "ret", "phi"} => ToSet(from[v]) \subseteq homes
                   /\ is = "branch" => i = Len(row)
  <2>5. WellPlaced(f, b, i) = P(f.vals[b], Len(f.preds[b]), f.op, f.args, f.place, Tracked(f) \cup Remats(f))
    BY ONLY DEF WellPlaced
  <2>6. WellPlaced(h, b, i) = P(h.vals[b], Len(h.preds[b]), h.op, h.args, h.place, Tracked(h) \cup Remats(h))
    BY ONLY DEF WellPlaced
  <2> HIDE DEF P
  <2> QED BY ONLY <2>2, <2>3, <2>4, <2>5, <2>6
<1>11. Reached(h)
  BY <1>1, <1>2, <1>3, SplitReached
<1>12. LiveAtStart(h, 1) = {}
  <2>1. FlowGraph(h)
    BY <1>8, FunctionFacts
  <2>2. LiveAtStart(h, 1) \subseteq LiveAtStart(f, 1)
    BY <1>1, <1>3, <2>1, SplitStrict
  <2> QED BY <1>1, <2>2
<1> QED BY <1>3, <1>4, <1>8, <1>9, <1>10, <1>11, <1>12 DEF Ready, h

-----------------------------------------------------------------------------
(* The walk *)

\* There is an edge from a to b.
Leads(f, a, b) == \E i \in DOMAIN f.succs[a] : f.succs[a][i] = b

\* What the walk keeps, with the stack q, the blocks left behind p and the seen
\* ones s: on the stack is a path from the entry, and what is left behind has all
\* its successors seen and a predecessor that is left later.
WalkTypes(f, q, p) ==
  /\ q \in Seq(Blocks(f) \X Nat) /\ p \in Seq(Blocks(f))
  /\ \A k \in DOMAIN q : q[k][2] >= 1 /\ q[k][2] <= Len(f.succs[q[k][1]]) + 1
WalkApart(q, p) ==
  /\ \A k, m \in DOMAIN q : q[k][1] = q[m][1] => k = m
  /\ \A k, m \in DOMAIN p : p[k] = p[m] => k = m
  /\ \A k \in DOMAIN q, m \in DOMAIN p : q[k][1] # p[m]
WalkSeen(f, q, p, s) ==
  /\ \A k \in DOMAIN q : q[k][1] \in s
  /\ \A m \in DOMAIN p : p[m] \in s
  /\ \A b \in s : (\E k \in DOMAIN q : q[k][1] = b) \/ (\E m \in DOMAIN p : p[m] = b)
  /\ \A k \in DOMAIN q : \A i \in 1 .. q[k][2] - 1 : f.succs[q[k][1]][i] \in s
  /\ \A m \in DOMAIN p : \A i \in DOMAIN f.succs[p[m]] : f.succs[p[m]][i] \in s
WalkPath(f, q, p) ==
  /\ IF Len(q) = 0 THEN Len(p) >= 1 /\ p[Len(p)] = 1 ELSE q[1][1] = 1
  /\ \A k \in 1 .. Len(q) - 1 : Leads(f, q[k][1], q[k + 1][1])
  /\ \A m \in DOMAIN p : p[m] # 1 => \E b : /\ Leads(f, b, p[m])
                                            /\ (\E n \in DOMAIN p : n > m /\ p[n] = b) \/ (\E k \in DOMAIN q : q[k][1] = b)
WalkOK(f, q, p, s) == WalkTypes(f, q, p) /\ WalkApart(q, p) /\ WalkSeen(f, q, p, s) /\ WalkPath(f, q, p)

\* The turns that were taken.
Taken(f, q, p) == {x \in Visits(f) : (\E m \in DOMAIN p : p[m] = x[1]) \/ (\E k \in DOMAIN q : q[k][1] = x[1] /\ x[2] < q[k][2])}

\* One more than there were.
OneMore(A, B, x) == A = B \cup {x}

\* e is the visit of b about to look at its i-th edge.
IsVisit(e, b, i) == e = <<b, i>>

\* The next turn is one of the visits and was not taken.
LEMMA TopIsNew ==
  ASSUME NEW f, IsGraph(f), NEW q, NEW p, NEW s, WalkOK(f, q, p, s), Len(q) # 0
  PROVE  /\ Len(q) \in Nat /\ Len(q) >= 1 /\ DOMAIN q = 1 .. Len(q) /\ Len(q) \in DOMAIN q
         /\ q[Len(q)][1] \in Blocks(f) /\ q[Len(q)][2] \in Nat
         /\ q[Len(q)] \in Visits(f) /\ q[Len(q)] \notin Taken(f, q, p) /\ q[Len(q)] = <<q[Len(q)][1], q[Len(q)][2]>>
<1> DEFINE L == Len(q)
           b == q[L][1]
           i == q[L][2]
<1>1. q \in Seq(Blocks(f) \X Nat) /\ \A k \in DOMAIN q : q[k][2] >= 1 /\ q[k][2] <= Len(f.succs[q[k][1]]) + 1
  BY DEF WalkOK, WalkTypes
<1>2. L \in Nat /\ L >= 1 /\ DOMAIN q = 1 .. L /\ L \in DOMAIN q
  BY <1>1
<1>3. q[L] \in Blocks(f) \X Nat
  BY <1>1, <1>2, SequenceTypes
<1>4. b \in Blocks(f) /\ i \in Nat /\ q[L] = <<b, i>> /\ i >= 1 /\ i <= Len(f.succs[b]) + 1
  <2>1. i >= 1 /\ i <= Len(f.succs[b]) + 1
    BY ONLY <1>1, <1>2
  <2>2. b \in Blocks(f) /\ i \in Nat /\ q[L] = <<b, i>>
    BY ONLY <1>3
  <2> QED BY ONLY <2>1, <2>2
<1>5. Len(f.succs[b]) \in Nat
  BY <1>4, GraphTypes
<1>6. q[L] \in Visits(f)
  <2>1. <<b, i>> \in {b} \X (1 .. Len(f.succs[b]) + 1)
    BY <1>4, <1>5
  <2> QED BY <1>4, <2>1 DEF Visits
<1>7. q[L] \notin Taken(f, q, p)
  <2>1. \A m \in DOMAIN p : p[m] # b
    BY <1>2 DEF WalkOK, WalkApart
  <2>2. \A k \in DOMAIN q : q[k][1] = b => k = L
    BY <1>2 DEF WalkOK, WalkApart
  <2> HIDE DEF L
  <2> QED BY <1>4, <2>1, <2>2 DEF Taken
<1> QED BY <1>2, <1>4, <1>6, <1>7

\* The top of the stack is left behind.
LEMMA PopKeeps ==
  ASSUME NEW f, IsGraph(f), NEW q, NEW p, NEW s, WalkOK(f, q, p, s), Len(q) # 0, q[Len(q)][2] \notin DOMAIN f.succs[q[Len(q)][1]],
         NEW r \in Seq(Blocks(f) \X Nat), Len(r) = Len(q) - 1, \A k \in DOMAIN r : r[k] = q[k],
         NEW o, o = Append(p, q[Len(q)][1])
  PROVE  WalkOK(f, r, o, s) /\ OneMore(Taken(f, r, o), Taken(f, q, p), q[Len(q)])
<1> DEFINE L == Len(q)
           M == Len(p)
           b == q[L][1]
           i == q[L][2]
<1>1. L \in Nat /\ L >= 1 /\ DOMAIN q = 1 .. L /\ b \in Blocks(f) /\ i \in Nat /\ q[L] = <<b, i>> /\ L \in DOMAIN q
  BY TopIsNew
<1>2. p \in Seq(Blocks(f)) /\ M \in Nat /\ DOMAIN p = 1 .. M /\ q \in Seq(Blocks(f) \X Nat)
  BY DEF WalkOK, WalkTypes
<1>3. Len(f.succs[b]) \in Nat /\ DOMAIN f.succs[b] = 1 .. Len(f.succs[b]) /\ i = Len(f.succs[b]) + 1
  <2>1. Len(f.succs[b]) \in Nat /\ DOMAIN f.succs[b] = 1 .. Len(f.succs[b])
    BY <1>1, GraphTypes
  <2>2. i >= 1 /\ i <= Len(f.succs[b]) + 1
    BY <1>1 DEF WalkOK, WalkTypes
  <2> QED BY <1>1, <2>1, <2>2
<1>4. DOMAIN r = 1 .. L - 1 /\ Len(r) = L - 1 /\ (\A k \in DOMAIN r : r[k] = q[k] /\ k \in DOMAIN q)
  BY <1>1
<1>5. o \in Seq(Blocks(f)) /\ Len(o) = M + 1 /\ DOMAIN o = 1 .. M + 1 /\ o[M + 1] = b /\ \A m \in DOMAIN p : o[m] = p[m] /\ m \in DOMAIN o
  BY <1>1, <1>2
<1> HIDE DEF L, M, b, i
<1>6. WalkTypes(f, r, o)
  <2>1. \A k \in DOMAIN r : r[k][2] >= 1 /\ r[k][2] <= Len(f.succs[r[k][1]]) + 1
    BY <1>4 DEF WalkOK, WalkTypes
  <2> QED BY <1>5, <2>1 DEF WalkTypes
<1>7. WalkApart(r, o)
  <2>1. /\ \A k, m \in DOMAIN q : q[k][1] = q[m][1] => k = m
        /\ \A k, m \in DOMAIN p : p[k] = p[m] => k = m
        /\ \A k \in DOMAIN q, m \in DOMAIN p : q[k][1] # p[m]
    BY DEF WalkOK, WalkApart
  <2>2. \A k, m \in DOMAIN r : r[k][1] = r[m][1] => k = m
    BY <1>4, <2>1
  <2>3. \A k \in DOMAIN r : r[k][1] # b
    <3> SUFFICES ASSUME NEW k \in DOMAIN r, r[k][1] = b PROVE FALSE
      OBVIOUS
    <3>1. k # L
      BY <1>1, <1>4
    <3>2. k \in DOMAIN q /\ q[k][1] = q[L][1]
      BY <1>4 DEF b
    <3> QED BY <1>1, <2>1, <3>1, <3>2
  <2>4. \A m \in DOMAIN o : m \in DOMAIN p \/ m = M + 1
    BY <1>2, <1>5
  <2>5. \A k, m \in DOMAIN o : o[k] = o[m] => k = m
    BY <1>1, <1>5, <2>1, <2>4 DEF b
  <2>6. \A k \in DOMAIN r, m \in DOMAIN o : r[k][1] # o[m]
    BY <1>4, <1>5, <2>1, <2>3, <2>4
  <2> QED BY <2>2, <2>5, <2>6 DEF WalkApart
<1>8. WalkSeen(f, r, o, s)
  <2>1. /\ \A k \in DOMAIN q : q[k][1] \in s
        /\ \A m \in DOMAIN p : p[m] \in s
        /\ \A c \in s : (\E k \in DOMAIN q : q[k][1] = c) \/ (\E m \in DOMAIN p : p[m] = c)
        /\ \A k \in DOMAIN q : \A e \in 1 .. q[k][2] - 1 : f.succs[q[k][1]][e] \in s
        /\ \A m \in DOMAIN p : \A e \in DOMAIN f.succs[p[m]] : f.succs[p[m]][e] \in s
    BY DEF WalkOK, WalkSeen
  <2>2. \A m \in DOMAIN o : m \in DOMAIN p \/ m = M + 1
    BY <1>2, <1>5
  <2>3. \A k \in DOMAIN q : k \in DOMAIN r \/ k = L
    BY <1>1, <1>4
  <2>4. M + 1 \in DOMAIN o
    BY <1>2, <1>5
  <2>5. \A c \in s : (\E k \in DOMAIN r : r[k][1] = c) \/ (\E m \in DOMAIN o : o[m] = c)
    <3> TAKE c \in s
    <3>1. (\E k \in DOMAIN q : q[k][1] = c) \/ (\E m \in DOMAIN p : p[m] = c)
      BY ONLY <2>1, c \in s
    <3>2. CASE \E m \in DOMAIN p : p[m] = c
      BY ONLY <1>5, <3>2
    <3>3. CASE \E k \in DOMAIN q : q[k][1] = c
      <4>1. PICK k \in DOMAIN q : q[k][1] = c
        BY ONLY <3>3
      <4>2. CASE k \in DOMAIN r
        BY ONLY <1>4, <4>1, <4>2
      <4>3. CASE k = L
        <5>1. o[M + 1] = c
          BY <1>5, <4>1, <4>3 DEF b
        <5> QED BY ONLY <2>4, <5>1
      <4> QED BY ONLY <2>3, <4>1, <4>2, <4>3
    <3> QED BY ONLY <3>1, <3>2, <3>3
  <2>6. \A e \in DOMAIN f.succs[b] : f.succs[b][e] \in s
    <3>1. \A e \in 1 .. i - 1 : f.succs[b][e] \in s
      BY <1>1, <2>1 DEF b, i
    <3> QED BY <1>3, <3>1
  <2>7. \A m \in DOMAIN o : o[m] \in s /\ \A e \in DOMAIN f.succs[o[m]] : f.succs[o[m]][e] \in s
    BY <1>1, <1>5, <2>1, <2>2, <2>6 DEF b
  <2>8. \A k \in DOMAIN r : r[k][1] \in s /\ \A e \in 1 .. r[k][2] - 1 : f.succs[r[k][1]][e] \in s
    BY <1>4, <2>1
  <2> QED BY <2>5, <2>7, <2>8 DEF WalkSeen
<1>9. WalkPath(f, r, o)
  <2>1. /\ q[1][1] = 1
        /\ \A k \in 1 .. Len(q) - 1 : Leads(f, q[k][1], q[k + 1][1])
        /\ \A m \in DOMAIN p : p[m] # 1 => \E c : /\ Leads(f, c, p[m])
                                                  /\ (\E n \in DOMAIN p : n > m /\ p[n] = c) \/ (\E k \in DOMAIN q : q[k][1] = c)
    BY DEF WalkOK, WalkPath
  <2>2. IF Len(r) = 0 THEN Len(o) >= 1 /\ o[Len(o)] = 1 ELSE r[1][1] = 1
    <3>1. CASE L = 1
      BY <1>1, <1>2, <1>4, <1>5, <2>1, <3>1 DEF b
    <3>2. CASE L # 1
      <4>1. 1 \in DOMAIN r /\ Len(r) # 0
        BY <1>1, <1>4, <3>2
      <4> QED BY <1>4, <2>1, <4>1
    <3> QED BY <3>1, <3>2
  <2>3. \A k \in 1 .. Len(r) - 1 : Leads(f, r[k][1], r[k + 1][1])
    <3> TAKE k \in 1 .. Len(r) - 1
    <3>1. k \in DOMAIN r /\ k + 1 \in DOMAIN r /\ k \in 1 .. Len(q) - 1
      BY <1>1, <1>4
    <3> QED BY <1>4, <2>1, <3>1
  <2>4. \A k \in DOMAIN q : k \in DOMAIN r \/ k = L
    BY <1>1, <1>4
  <2>5. M + 1 \in DOMAIN o /\ \A m \in DOMAIN p : M + 1 > m
    BY <1>2, <1>5
  <2>6. ASSUME NEW m \in DOMAIN o, o[m] # 1
        PROVE  \E c : /\ Leads(f, c, o[m])
                      /\ (\E n \in DOMAIN o : n > m /\ o[n] = c) \/ (\E k \in DOMAIN r : r[k][1] = c)
    <3>1. CASE m \in DOMAIN p
      <4>1. PICK c : /\ Leads(f, c, p[m])
                     /\ (\E n \in DOMAIN p : n > m /\ p[n] = c) \/ (\E k \in DOMAIN q : q[k][1] = c)
        BY <1>5, <2>1, <2>6, <3>1
      <4>2. CASE \E n \in DOMAIN p : n > m /\ p[n] = c
        BY <1>5, <3>1, <4>1, <4>2
      <4>3. CASE \E k \in DOMAIN q : q[k][1] = c
        <5>1. PICK k \in DOMAIN q : q[k][1] = c
          BY <4>3
        <5>2. CASE k = L
          BY <1>5, <2>5, <3>1, <4>1, <5>1, <5>2 DEF b
        <5>3. CASE k \in DOMAIN r
          BY <1>4, <1>5, <3>1, <4>1, <5>1, <5>3
        <5> QED BY <2>4, <5>2, <5>3
      <4> QED BY <4>1, <4>2, <4>3
    <3>2. CASE m = M + 1
      <4>1. b # 1
        BY <1>5, <2>6, <3>2
      <4>2. L # 1
        BY <2>1, <4>1 DEF b
      <4>3. L - 1 \in 1 .. Len(q) - 1 /\ (L - 1) + 1 = L /\ L - 1 \in DOMAIN r
        BY <1>1, <1>4, <4>2 DEF L
      <4>4. Leads(f, q[L - 1][1], b)
        BY <2>1, <4>3 DEF b
      <4> QED BY <1>4, <1>5, <3>2, <4>3, <4>4
    <3>3. m \in DOMAIN p \/ m = M + 1
      BY <1>2, <1>5
    <3> QED BY <3>1, <3>2, <3>3
  <2> QED BY <2>2, <2>3, <2>6 DEF WalkPath
<1>10. Taken(f, r, o) = Taken(f, q, p) \cup {q[L]}
  <2>1. q[L] \in Visits(f)
    BY TopIsNew DEF L
  <2>2. ASSUME NEW x \in Visits(f)
        PROVE  x \in Taken(f, r, o) <=> x \in Taken(f, q, p) \/ x = q[L]
    <3>0. x = <<x[1], x[2]>> /\ x[1] \in Blocks(f) /\ x[2] \in 1 .. Len(f.succs[x[1]]) + 1
      BY DEF Visits
    <3>1. CASE x[1] = b
      <4>1. x \in Taken(f, r, o)
        <5>1. M + 1 \in DOMAIN o /\ o[M + 1] = b
          BY <1>2, <1>5
        <5> QED BY <3>1, <5>1 DEF Taken
      <4>2. x[2] < i \/ x[2] = i
        BY <1>3, <3>0, <3>1
      <4>3. x[2] < i => x \in Taken(f, q, p)
        BY <1>1, <3>1 DEF Taken, b, i
      <4>4. x[2] = i => x = q[L]
        BY <1>1, <3>0, <3>1
      <4> QED BY <4>1, <4>2, <4>3, <4>4
    <3>2. CASE x[1] # b
      <4>1. x # q[L]
        BY <1>1, <3>2
      <4>2. (\E m \in DOMAIN o : o[m] = x[1]) <=> (\E m \in DOMAIN p : p[m] = x[1])
        <5>1. \A m \in DOMAIN o : m \in DOMAIN p \/ m = M + 1
          BY <1>2, <1>5
        <5> QED BY <1>5, <3>2, <5>1
      <4>3. (\E k \in DOMAIN q : q[k][1] = x[1] /\ x[2] < q[k][2]) <=> (\E k \in DOMAIN r : r[k][1] = x[1] /\ x[2] < r[k][2])
        <5>1. \A k \in DOMAIN q : k \in DOMAIN r \/ k = L
          BY <1>1, <1>4
        <5> QED BY <1>4, <3>2, <5>1 DEF b
      <4> QED BY <4>1, <4>2, <4>3 DEF Taken
    <3> QED BY <3>1, <3>2
  <2>3. Taken(f, r, o) \subseteq Visits(f) /\ Taken(f, q, p) \subseteq Visits(f)
    BY DEF Taken
  <2> QED BY <2>1, <2>2, <2>3
<1> QED BY <1>6, <1>7, <1>8, <1>9, <1>10 DEF WalkOK, OneMore, L

\* r is the stack after the top of q looked at its edge to t, s the blocks seen.
IsLook(q, r, s, t) ==
  /\ \A k \in 1 .. Len(q) - 1 : r[k] = q[k]
  /\ IsVisit(r[Len(q)], q[Len(q)][1], q[Len(q)][2] + 1)
  /\ \/ t \in s /\ Len(r) = Len(q)
     \/ t \notin s /\ Len(r) = Len(q) + 1 /\ IsVisit(r[Len(q) + 1], t, 1)

\* The top of the stack looks at an edge, and at the block it leads to if that was
\* not seen.
LEMMA LookKeeps ==
  ASSUME NEW f, IsGraph(f), NEW q, NEW p, NEW s, WalkOK(f, q, p, s), Len(q) # 0, q[Len(q)][2] \in DOMAIN f.succs[q[Len(q)][1]],
         NEW t, t = f.succs[q[Len(q)][1]][q[Len(q)][2]],
         NEW r \in Seq(Blocks(f) \X Nat), IsLook(q, r, s, t)
  PROVE  WalkOK(f, r, p, s \cup {t}) /\ OneMore(Taken(f, r, p), Taken(f, q, p), q[Len(q)])
<1> DEFINE L == Len(q)
           b == q[L][1]
           i == q[L][2]
           z == s \cup {t}
<1>1. L \in Nat /\ L >= 1 /\ DOMAIN q = 1 .. L /\ b \in Blocks(f) /\ i \in Nat /\ q[L] = <<b, i>> /\ L \in DOMAIN q
  BY TopIsNew
<1>2. p \in Seq(Blocks(f)) /\ q \in Seq(Blocks(f) \X Nat) /\ i >= 1
  BY <1>1 DEF WalkOK, WalkTypes
<1>3. Len(f.succs[b]) \in Nat /\ DOMAIN f.succs[b] = 1 .. Len(f.succs[b]) /\ i <= Len(f.succs[b]) /\ t \in Blocks(f) /\ i \in DOMAIN f.succs[b]
      /\ f.succs[b][i] = t
  <2>1. Len(f.succs[b]) \in Nat /\ DOMAIN f.succs[b] = 1 .. Len(f.succs[b]) /\ t \in Blocks(f)
    BY <1>1, GraphTypes
  <2> QED BY <1>1, <2>1
<1>4. \/ t \in s /\ Len(r) = L
      \/ t \notin s /\ Len(r) = L + 1 /\ r[L + 1] = <<t, 1>>
  BY DEF IsLook, IsVisit
<1>5. r[L] = <<b, i + 1>> /\ \A k \in 1 .. L - 1 : r[k] = q[k]
  BY DEF IsLook, IsVisit
<1>6. DOMAIN r = 1 .. Len(r) /\ Len(r) \in Nat
  OBVIOUS
<1> HIDE DEF L, b, i, z
<1>7. \A k \in DOMAIN q : k \in DOMAIN r /\ r[k][1] = q[k][1] /\ (k # L => r[k] = q[k])
  <2> TAKE k \in DOMAIN q
  <2>0. k \in 1 .. L
    BY <1>1
  <2>5. Len(r) >= L
    <3>1. L \in Nat /\ (Len(r) = L \/ Len(r) = L + 1)
      BY <1>1, <1>4
    <3> QED BY ONLY <3>1
  <2>1. k \in DOMAIN r
    BY ONLY <1>1, <1>6, <2>0, <2>5
  <2>2. k # L => k \in 1 .. L - 1
    BY <1>1
  <2>3. CASE k = L
    BY <1>5, <2>1, <2>3 DEF b
  <2>4. CASE k # L
    BY <1>5, <2>1, <2>2, <2>4
  <2> QED BY <2>3, <2>4
<1>8. \A k \in DOMAIN r : k \in DOMAIN q \/ (k = L + 1 /\ r[k] = <<t, 1>> /\ t \notin s /\ Len(r) = L + 1)
  <2> TAKE k \in DOMAIN r
  <2>1. k \in 1 .. Len(r)
    BY <1>6
  <2>2. k \in 1 .. L \/ (k = L + 1 /\ Len(r) = L + 1)
    <3>1. L \in Nat /\ (Len(r) = L \/ Len(r) = L + 1)
      BY ONLY <1>1, <1>4
    <3> QED BY ONLY <2>1, <3>1
  <2> QED BY <1>1, <1>4, <2>2
<1>9. WalkTypes(f, r, p)
  <2> SUFFICES ASSUME NEW k \in DOMAIN r PROVE r[k][2] >= 1 /\ r[k][2] <= Len(f.succs[r[k][1]]) + 1
    BY <1>2 DEF WalkTypes
  <2>1. CASE k = L
    BY <1>1, <1>3, <1>5, <2>1
  <2>2. CASE k # L /\ k \in DOMAIN q
    BY <1>7, <2>2 DEF WalkOK, WalkTypes
  <2>3. CASE k \notin DOMAIN q
    <3>1. r[k] = <<t, 1>>
      BY <1>8, <2>3
    <3>2. Len(f.succs[t]) \in Nat
      BY <1>3, GraphTypes
    <3>3. r[k][1] = t /\ r[k][2] = 1
      BY <3>1
    <3> QED BY ONLY <3>2, <3>3
  <2> QED BY <2>1, <2>2, <2>3
<1>a. /\ \A k \in DOMAIN q : q[k][1] \in s
      /\ \A m \in DOMAIN p : p[m] \in s
      /\ \A c \in s : (\E k \in DOMAIN q : q[k][1] = c) \/ (\E m \in DOMAIN p : p[m] = c)
      /\ \A k \in DOMAIN q : \A e \in 1 .. q[k][2] - 1 : f.succs[q[k][1]][e] \in s
      /\ \A m \in DOMAIN p : \A e \in DOMAIN f.succs[p[m]] : f.succs[p[m]][e] \in s
  BY DEF WalkOK, WalkSeen
<1>9b. \A k \in DOMAIN r : \/ k \in DOMAIN q /\ r[k][1] = q[k][1] /\ q[k][1] \in s
                           \/ k = L + 1 /\ r[k][1] = t /\ t \notin s
  <2> TAKE k \in DOMAIN r
  <2>1. CASE k \in DOMAIN q
    <3>1. r[k][1] = q[k][1]
      BY ONLY <1>7, <2>1
    <3>2. q[k][1] \in s
      BY ONLY <1>a, <2>1
    <3> QED BY ONLY <2>1, <3>1, <3>2
  <2>2. CASE k \notin DOMAIN q
    <3>1. k = L + 1 /\ r[k] = <<t, 1>> /\ t \notin s
      BY <1>8, <2>2
    <3> QED BY ONLY <3>1
  <2> QED BY ONLY <2>1, <2>2
<1>10. WalkApart(r, p)
  <2>1. /\ \A k, m \in DOMAIN q : q[k][1] = q[m][1] => k = m
        /\ \A k, m \in DOMAIN p : p[k] = p[m] => k = m
        /\ \A k \in DOMAIN q, m \in DOMAIN p : q[k][1] # p[m]
    BY DEF WalkOK, WalkApart
  <2>2. ASSUME NEW k \in DOMAIN r, NEW m \in DOMAIN r, r[k][1] = r[m][1] PROVE k = m
    <3>0. k \in DOMAIN r /\ m \in DOMAIN r
      OBVIOUS
    <3>k. (k \in DOMAIN q /\ r[k][1] = q[k][1] /\ q[k][1] \in s) \/ (k = L + 1 /\ r[k][1] = t /\ t \notin s)
      BY ONLY <1>9b, <3>0
    <3>m. (m \in DOMAIN q /\ r[m][1] = q[m][1] /\ q[m][1] \in s) \/ (m = L + 1 /\ r[m][1] = t /\ t \notin s)
      BY ONLY <1>9b, <3>0
    <3>1. CASE k \in DOMAIN q /\ m \in DOMAIN q
      <4>1. r[k][1] = q[k][1] /\ r[m][1] = q[m][1]
        BY ONLY <1>7, <3>1
      <4>2. q[k][1] = q[m][1]
        BY ONLY <2>2, <4>1
      <4> QED BY ONLY <2>1, <3>1, <4>2
    <3>2. CASE ~(k \in DOMAIN q /\ m \in DOMAIN q)
      BY ONLY <2>2, <3>k, <3>m, <3>2
    <3> QED BY ONLY <3>1, <3>2
  <2>3. ASSUME NEW k \in DOMAIN r, NEW m \in DOMAIN p PROVE r[k][1] # p[m]
    <3>0. k \in DOMAIN r /\ m \in DOMAIN p /\ p[m] \in s
      BY ONLY <1>a, <2>3
    <3>1. (k \in DOMAIN q /\ r[k][1] = q[k][1]) \/ (r[k][1] = t /\ t \notin s)
      BY ONLY <1>9b, <3>0
    <3>2. k \in DOMAIN q => q[k][1] # p[m]
      BY ONLY <2>1, <3>0
    <3> QED BY ONLY <3>0, <3>1, <3>2
  <2> QED BY ONLY <2>1, <2>2, <2>3 DEF WalkApart
<1>11. WalkSeen(f, r, p, z)
  <2>1. s \subseteq z /\ t \in z /\ \A c \in z : c \in s \/ c = t
    BY DEF z
  <2>2. \A k \in DOMAIN r : r[k][1] \in z
    BY ONLY <1>9b, <2>1
  <2>3. \A c \in z : (\E k \in DOMAIN r : r[k][1] = c) \/ (\E m \in DOMAIN p : p[m] = c)
    <3> TAKE c \in z
    <3>1. CASE c \in s
      <4>1. (\E k \in DOMAIN q : q[k][1] = c) \/ (\E m \in DOMAIN p : p[m] = c)
        BY ONLY <1>a, <3>1
      <4> QED BY ONLY <1>7, <4>1
    <3>2. CASE c \notin s
      <4>0. c = t /\ Len(r) = L + 1 /\ r[L + 1] = <<t, 1>>
        BY <1>4, <2>1, <3>2
      <4>1. c = t /\ L + 1 \in DOMAIN r /\ r[L + 1] = <<t, 1>>
        BY ONLY <1>1, <1>6, <4>0
      <4>2. r[L + 1][1] = c
        BY ONLY <4>1
      <4> QED BY ONLY <4>1, <4>2
    <3> QED BY <3>1, <3>2
  <2>4. ASSUME NEW k \in DOMAIN r, NEW e \in 1 .. r[k][2] - 1 PROVE f.succs[r[k][1]][e] \in z
    <3>1. CASE k = L
      <4>1. r[k][1] = b /\ r[k][2] = i + 1
        BY <1>5, <3>1
      <4>2. e \in 1 .. i
        BY <1>1, <4>1
      <4>3. e \in 1 .. i - 1 \/ e = i
        BY <1>1, <4>2
      <4>4. \A g \in 1 .. i - 1 : f.succs[b][g] \in s
        BY <1>1, <1>a DEF b, i
      <4> QED BY <1>3, <2>1, <4>1, <4>3, <4>4
    <3>2. CASE k # L /\ k \in DOMAIN q
      <4>1. r[k] = q[k]
        BY ONLY <1>7, <3>2
      <4>2. e \in 1 .. q[k][2] - 1
        BY <4>1
      <4>3. f.succs[q[k][1]][e] \in s
        BY ONLY <1>a, <3>2, <4>2
      <4> QED BY ONLY <2>1, <4>1, <4>3
    <3>3. CASE k \notin DOMAIN q
      <4>1. r[k] = <<t, 1>>
        BY ONLY <1>8, <3>3, <2>4
      <4>2. r[k][2] = 1
        BY ONLY <4>1
      <4> QED BY <4>2
    <3> QED BY <1>1, <3>1, <3>2, <3>3
  <2> QED BY <1>a, <2>1, <2>2, <2>3, <2>4 DEF WalkSeen
<1>12. WalkPath(f, r, p)
  <2>1. /\ q[1][1] = 1
        /\ \A k \in 1 .. L - 1 : Leads(f, q[k][1], q[k + 1][1])
        /\ \A m \in DOMAIN p : p[m] # 1 => \E c : /\ Leads(f, c, p[m])
                                                  /\ (\E n \in DOMAIN p : n > m /\ p[n] = c) \/ (\E k \in DOMAIN q : q[k][1] = c)
    BY DEF WalkOK, WalkPath, L
  <2>2. Len(r) # 0 /\ r[1][1] = 1
    <3>1. 1 \in DOMAIN q
      BY <1>1
    <3>2. Len(r) # 0
      BY ONLY <1>1, <1>4
    <3>3. r[1][1] = q[1][1]
      BY <1>7, <3>1
    <3> QED BY <2>1, <3>2, <3>3
  <2>3. ASSUME NEW k \in 1 .. Len(r) - 1 PROVE Leads(f, r[k][1], r[k + 1][1])
    <3>1. CASE k \in 1 .. L - 1
      <4>1. k \in DOMAIN q /\ k + 1 \in DOMAIN q
        BY <1>1, <3>1
      <4>2. r[k][1] = q[k][1] /\ r[k + 1][1] = q[k + 1][1]
        BY ONLY <1>7, <4>1
      <4>3. Leads(f, q[k][1], q[k + 1][1])
        BY ONLY <2>1, <3>1
      <4> QED BY ONLY <4>2, <4>3
    <3>2. CASE k \notin 1 .. L - 1
      <4>1. k = L /\ Len(r) = L + 1
        <5>1. L \in Nat /\ (Len(r) = L \/ Len(r) = L + 1)
          BY ONLY <1>1, <1>4
        <5>2. k \in 1 .. Len(r) - 1
          OBVIOUS
        <5> QED BY ONLY <3>2, <5>1, <5>2
      <4>2. r[k][1] = b /\ r[k + 1][1] = t
        <5>1. L \in Nat
          BY ONLY <1>1
        <5>2. r[L + 1] = <<t, 1>>
          BY ONLY <1>4, <4>1, <5>1
        <5>3. r[L] = <<b, i + 1>>
          BY ONLY <1>5
        <5>4. r[L + 1][1] = t /\ r[L][1] = b
          BY ONLY <5>2, <5>3
        <5> QED BY ONLY <4>1, <5>4
      <4> QED BY <1>3, <4>2 DEF Leads
    <3> QED BY <3>1, <3>2
  <2>4. ASSUME NEW m \in DOMAIN p, p[m] # 1
        PROVE  \E c : /\ Leads(f, c, p[m])
                      /\ (\E n \in DOMAIN p : n > m /\ p[n] = c) \/ (\E k \in DOMAIN r : r[k][1] = c)
    <3>1. PICK c : /\ Leads(f, c, p[m])
                   /\ (\E n \in DOMAIN p : n > m /\ p[n] = c) \/ (\E k \in DOMAIN q : q[k][1] = c)
      BY <2>1, <2>4
    <3> QED BY <1>7, <3>1
  <2> QED BY <2>2, <2>3, <2>4 DEF WalkPath
<1>13. Taken(f, r, p) = Taken(f, q, p) \cup {q[L]}
  <2>1. q[L] \in Visits(f)
    BY TopIsNew DEF L
  <2>2. ASSUME NEW x \in Visits(f)
        PROVE  x \in Taken(f, r, p) <=> x \in Taken(f, q, p) \/ x = q[L]
    <3>0. x = <<x[1], x[2]>> /\ x[1] \in Blocks(f) /\ x[2] \in Nat /\ x[2] >= 1
      <4>1. PICK c \in Blocks(f) : x \in {c} \X (1 .. Len(f.succs[c]) + 1)
        BY DEF Visits
      <4>2. Len(f.succs[c]) \in Nat
        BY GraphTypes
      <4> QED BY <4>1, <4>2
    <3>1. \A k \in DOMAIN q : q[k][1] = b => k = L
      BY <1>1 DEF WalkOK, WalkApart, b
    <3>2. \A k \in DOMAIN r : k \notin DOMAIN q => ~(r[k][1] = x[1] /\ x[2] < r[k][2])
      <4>1. \A k \in DOMAIN r : k \notin DOMAIN q => r[k][2] = 1
        <5> TAKE k \in DOMAIN r
        <5>1. k \in DOMAIN q \/ r[k] = <<t, 1>>
          BY <1>8
        <5> QED BY ONLY <5>1
      <4>2. ~(x[2] < 1)
        BY <3>0
      <4> QED BY <4>1, <4>2
    <3>3. (\E k \in DOMAIN r : r[k][1] = x[1] /\ x[2] < r[k][2]) <=> (\E k \in DOMAIN q : q[k][1] = x[1] /\ x[2] < q[k][2]) \/ x = q[L]
      <4>1. CASE x[1] = b
        <5>1. (\E k \in DOMAIN r : r[k][1] = x[1] /\ x[2] < r[k][2]) <=> x[2] < i + 1
          <6>1. \A k \in DOMAIN r : r[k][1] = x[1] /\ x[2] < r[k][2] => k = L
            BY <1>7, <3>1, <3>2, <4>1
          <6>2. L \in DOMAIN r /\ r[L][1] = b /\ r[L][2] = i + 1
            BY <1>1, <1>5, <1>7
          <6> QED BY <4>1, <6>1, <6>2
        <5>2. (\E k \in DOMAIN q : q[k][1] = x[1] /\ x[2] < q[k][2]) <=> x[2] < i
          BY <1>1, <3>1, <4>1 DEF b, i
        <5>3. x = q[L] <=> x[2] = i
          BY <1>1, <3>0, <4>1
        <5>4. x[2] < i + 1 <=> x[2] < i \/ x[2] = i
          BY <1>1, <3>0
        <5> QED BY <5>1, <5>2, <5>3, <5>4
      <4>2. CASE x[1] # b
        <5>1. x # q[L]
          BY <1>1, <4>2
        <5>2. \A k \in DOMAIN q : q[k][1] = x[1] => r[k] = q[k]
          BY <1>7, <4>2 DEF b
        <5>3. \A k \in DOMAIN r : r[k][1] = x[1] /\ x[2] < r[k][2] => k \in DOMAIN q /\ q[k][1] = x[1]
          BY <1>7, <3>2
        <5>4. \A k \in DOMAIN q : k \in DOMAIN r
          BY <1>7
        <5> QED BY <5>1, <5>2, <5>3, <5>4
      <4> QED BY <4>1, <4>2
    <3> QED BY <3>3 DEF Taken
  <2>3. Taken(f, r, p) \subseteq Visits(f) /\ Taken(f, q, p) \subseteq Visits(f)
    BY DEF Taken
  <2> QED BY <2>1, <2>2, <2>3
<1> QED BY <1>9, <1>10, <1>11, <1>12, <1>13 DEF WalkOK, OneMore, L, z

\* The state of a walk.
WalkStates(f) == [stack : Seq(Blocks(f) \X Nat), seen : SUBSET Blocks(f), post : Seq(Blocks(f))]

\* What is in front of the last element, and an element more.
LEMMA FrontAndMore ==
  ASSUME NEW S, NEW q \in Seq(S), Len(q) # 0
  PROVE  /\ Front(q) \in Seq(S) /\ Len(Front(q)) = Len(q) - 1 /\ \A k \in 1 .. Len(q) - 1 : Front(q)[k] = q[k]
         /\ Last(q) = q[Len(q)] /\ Last(q) \in S
         /\ \A x \in S : /\ Append(Front(q), x) \in Seq(S) /\ Len(Append(Front(q), x)) = Len(q)
                         /\ Append(Front(q), x)[Len(q)] = x /\ \A k \in 1 .. Len(q) - 1 : Append(Front(q), x)[k] = q[k]
<1>1. Len(q) \in Nat /\ Len(q) >= 1
  OBVIOUS
<1>2. Front(q) \in Seq(S) /\ Len(Front(q)) = Len(q) - 1 /\ \A k \in 1 .. Len(q) - 1 : Front(q)[k] = q[k]
  <2> DEFINE n == Len(q) - 1
  <2>1. n \in Nat /\ n <= Len(q) /\ Front(q) = SubSeq(q, 1, n)
    BY <1>1 DEF Front
  <2> HIDE DEF n
  <2>2. SubSeq(q, 1, n) \in Seq(S) /\ Len(SubSeq(q, 1, n)) = n /\ \A k \in 1 .. n : SubSeq(q, 1, n)[k] = q[k]
    BY <1>1, <2>1
  <2> QED BY <2>1, <2>2 DEF n
<1>3. Last(q) = q[Len(q)] /\ Last(q) \in S
  BY <1>1 DEF Last
<1> DEFINE r == Front(q)
<1> HIDE DEF r
<1>4. r \in Seq(S) /\ Len(r) = Len(q) - 1 /\ \A k \in 1 .. Len(q) - 1 : r[k] = q[k]
  BY <1>2 DEF r
<1>5. \A x \in S : /\ Append(r, x) \in Seq(S) /\ Len(Append(r, x)) = Len(q)
                   /\ Append(r, x)[Len(q)] = x /\ \A k \in 1 .. Len(q) - 1 : Append(r, x)[k] = q[k]
  BY <1>1, <1>4
<1> QED BY <1>2, <1>3, <1>5 DEF r

\* One turn takes one visit more, and keeps the rest.
LEMMA WalkTurn ==
  ASSUME NEW f, IsGraph(f), NEW q, NEW p, NEW s \in SUBSET Blocks(f), WalkOK(f, q, p, s), Len(q) # 0
  PROVE  LET nx == WalkStep(f, [stack |-> q, seen |-> s, post |-> p])
         IN  /\ nx \in WalkStates(f) /\ WalkOK(f, nx.stack, nx.post, nx.seen) /\ s \subseteq nx.seen
             /\ \E x \in Visits(f) \ Taken(f, q, p) : OneMore(Taken(f, nx.stack, nx.post), Taken(f, q, p), x)
<1> DEFINE L == Len(q)
           b == q[L][1]
           i == q[L][2]
           t == f.succs[b][i]
           st == [stack |-> q, seen |-> s, post |-> p]
           nx == WalkStep(f, st)
           rest == Append(Front(q), <<b, i + 1>>)
<1>1. q \in Seq(Blocks(f) \X Nat) /\ p \in Seq(Blocks(f))
  BY DEF WalkOK, WalkTypes
<1>2. /\ L \in Nat /\ L >= 1 /\ DOMAIN q = 1 .. L /\ b \in Blocks(f) /\ i \in Nat
      /\ q[L] \in Visits(f) /\ q[L] \notin Taken(f, q, p)
  BY TopIsNew
<1>3. Last(q) = q[L]
  BY DEF Last
<1>4. q # <<>>
  BY <1>2
<1>5. st.stack = q /\ st.seen = s /\ st.post = p
  OBVIOUS
<1>6. CASE i \notin DOMAIN f.succs[b]
  <2> DEFINE r == Front(q)
             o == Append(p, b)
  <2>1. r \in Seq(Blocks(f) \X Nat) /\ Len(r) = L - 1 /\ \A k \in 1 .. L - 1 : r[k] = q[k]
    BY <1>1, FrontAndMore
  <2>2. nx = [stack |-> r, seen |-> s, post |-> o]
    <3>1. nx = [st EXCEPT !.stack = Front(@), !.post = Append(@, b)]
      BY <1>3, <1>4, <1>5, <1>6 DEF WalkStep
    <3> HIDE DEF nx
    <3> QED BY <3>1
  <2>3. o \in Seq(Blocks(f)) /\ o = Append(p, q[Len(q)][1])
    BY <1>1, <1>2
  <2>4. q[Len(q)][2] \notin DOMAIN f.succs[q[Len(q)][1]]
    BY <1>6
  <2> HIDE DEF r, o
  <2>5. Len(r) = Len(q) - 1 /\ \A k \in DOMAIN r : r[k] = q[k]
    BY <2>1
  <2>6. WalkOK(f, r, o, s) /\ OneMore(Taken(f, r, o), Taken(f, q, p), q[Len(q)])
    <3>1. r \in Seq(Blocks(f) \X Nat) /\ IsGraph(f) /\ WalkOK(f, q, p, s) /\ Len(q) # 0
      BY <2>1
    <3> QED BY ONLY <2>3, <2>4, <2>5, <3>1, PopKeeps
  <2> HIDE DEF nx, L
  <2>7. nx.stack = r /\ nx.seen = s /\ nx.post = o /\ nx \in WalkStates(f)
    BY <2>1, <2>2, <2>3 DEF WalkStates
  <2> QED BY <1>2, <2>6, <2>7 DEF nx
<1>7. CASE i \in DOMAIN f.succs[b]
  <2> DEFINE r == IF t \in s THEN rest ELSE Append(rest, <<t, 1>>)
             e == <<b, i + 1>>
             w == <<t, 1>>
             z == s \cup {t}
  <2>1. e \in Blocks(f) \X Nat
    BY <1>2
  <2>2. t \in Blocks(f)
    BY <1>2, <1>7, EdgeTypes
  <2>3. w \in Blocks(f) \X Nat
    BY <2>2
  <2>4. nx = [stack |-> r, seen |-> z, post |-> p]
    <3>1. nx = [st EXCEPT !.stack = r, !.seen = @ \cup {t}]
      BY <1>3, <1>4, <1>5, <1>7 DEF WalkStep
    <3> HIDE DEF nx, r
    <3> QED BY <3>1
  <2>5. e = <<q[Len(q)][1], q[Len(q)][2] + 1>> /\ w = <<t, 1>> /\ t = f.succs[q[Len(q)][1]][q[Len(q)][2]]
        /\ z = s \cup {t} /\ rest = Append(Front(q), e) /\ (r = IF t \in s THEN rest ELSE Append(rest, w))
        /\ q[Len(q)][2] \in DOMAIN f.succs[q[Len(q)][1]]
    BY <1>7
  <2> HIDE DEF rest, e, w, r, z
  <2>6. rest \in Seq(Blocks(f) \X Nat) /\ Len(rest) = L /\ rest[L] = e /\ \A k \in 1 .. L - 1 : rest[k] = q[k]
    <3>1. /\ Append(Front(q), e) \in Seq(Blocks(f) \X Nat) /\ Len(Append(Front(q), e)) = Len(q)
          /\ Append(Front(q), e)[Len(q)] = e /\ \A k \in 1 .. Len(q) - 1 : Append(Front(q), e)[k] = q[k]
      <4> DEFINE D == Blocks(f) \X Nat
      <4>1. q \in Seq(D) /\ e \in D /\ Len(q) # 0
        BY <1>1, <1>2, <2>1
      <4> HIDE DEF D
      <4>2. /\ Append(Front(q), e) \in Seq(D) /\ Len(Append(Front(q), e)) = Len(q)
            /\ Append(Front(q), e)[Len(q)] = e /\ \A k \in 1 .. Len(q) - 1 : Append(Front(q), e)[k] = q[k]
        BY <4>1, FrontAndMore
      <4> QED BY <4>2 DEF D
    <3> QED BY <2>5, <3>1
  <2>7. /\ Append(rest, w) \in Seq(Blocks(f) \X Nat) /\ Len(Append(rest, w)) = L + 1 /\ Append(rest, w)[L + 1] = w
        /\ \A k \in 1 .. L : Append(rest, w)[k] = rest[k]
    BY ONLY <1>2, <2>3, <2>6
  <2>8. r \in Seq(Blocks(f) \X Nat) /\ \A k \in 1 .. L : r[k] = rest[k]
    BY <2>5, <2>6, <2>7
  <2>9. (\A k \in 1 .. Len(q) - 1 : r[k] = q[k]) /\ IsVisit(r[Len(q)], q[Len(q)][1], q[Len(q)][2] + 1)
    <3>1. L \in 1 .. L /\ \A k \in 1 .. L - 1 : k \in 1 .. L
      BY ONLY <1>2
    <3>2. r[L] = e
      BY ONLY <2>6, <2>8, <3>1
    <3>3. r[Len(q)] = e /\ \A k \in 1 .. Len(q) - 1 : r[k] = q[k]
      BY ONLY <2>6, <2>8, <3>1, <3>2
    <3> QED BY <2>5, <3>3 DEF IsVisit
  <2>10. \/ t \in s /\ Len(r) = Len(q)
         \/ t \notin s /\ Len(r) = Len(q) + 1 /\ IsVisit(r[Len(q) + 1], t, 1)
    BY <2>5, <2>6, <2>7 DEF IsVisit
  <2> HIDE DEF t
  <2>11. WalkOK(f, r, p, s \cup {t}) /\ OneMore(Taken(f, r, p), Taken(f, q, p), q[Len(q)])
    <3>1. r \in Seq(Blocks(f) \X Nat) /\ IsGraph(f) /\ WalkOK(f, q, p, s) /\ Len(q) # 0
          /\ t = f.succs[q[Len(q)][1]][q[Len(q)][2]] /\ q[Len(q)][2] \in DOMAIN f.succs[q[Len(q)][1]]
      BY <2>5, <2>8
    <3>2. IsLook(q, r, s, t)
      BY ONLY <2>9, <2>10 DEF IsLook
    <3> QED BY ONLY <3>1, <3>2, LookKeeps
  <2>12. z \in SUBSET Blocks(f) /\ s \subseteq z
    BY <2>2, <2>5
  <2> HIDE DEF nx, L
  <2>13. nx.stack = r /\ nx.seen = z /\ nx.post = p /\ nx \in WalkStates(f)
    BY <1>1, <2>4, <2>8, <2>12 DEF WalkStates
  <2> QED BY <1>2, <2>5, <2>11, <2>12, <2>13 DEF nx, L
<1> QED BY <1>6, <1>7

\* There are finitely many visits.
LEMMA VisitsFinite ==
  ASSUME NEW f, IsGraph(f)
  PROVE  IsFiniteSet(Visits(f)) /\ Cardinality(Visits(f)) \in Nat
<1> DEFINE D == [b \in Blocks(f) |-> {b} \X (1 .. Len(f.succs[b]) + 1)]
           E == {D[b] : b \in Blocks(f)}
<1>1. IsFiniteSet(Blocks(f))
  <2>1. Blocks(f) = 1 .. Len(f.vals) /\ Len(f.vals) \in Nat
    BY GraphTypes
  <2> QED BY <2>1, FS_Interval
<1>2. IsFiniteSet(E)
  <2> HIDE DEF D
  <2> DEFINE e == [b \in Blocks(f) |-> D[b]]
  <2>1. e \in Surjection(Blocks(f), E)
    BY DEF Surjection
  <2> QED BY <1>1, <2>1, FS_Surjection
<1>3. ASSUME NEW b \in Blocks(f) PROVE IsFiniteSet(D[b])
  <2>1. Len(f.succs[b]) \in Nat
    BY GraphTypes
  <2>2. IsFiniteSet(1 .. Len(f.succs[b]) + 1)
    BY <2>1, FS_Interval
  <2>3. IsFiniteSet({b})
    BY FS_Singleton
  <2>4. IsFiniteSet({b} \X (1 .. Len(f.succs[b]) + 1))
    BY <2>2, <2>3, FS_Product
  <2> QED BY <2>4
<1>4. Visits(f) = UNION E
  BY DEF Visits
<1> HIDE DEF D
<1>5. IsFiniteSet(UNION E)
  BY <1>2, <1>3, FS_UNION
<1> QED BY <1>4, <1>5, FS_CardinalityType

\* The walk is over when it has made all its visits.
LEMMA WalkEnds ==
  ASSUME NEW f, IsGraph(f), 1 \in Blocks(f)
  PROVE  LET w == Walk(f, 1) IN w \in WalkStates(f) /\ WalkOK(f, w.stack, w.post, w.seen) /\ Len(w.stack) = 0 /\ 1 \in w.seen
<1> DEFINE N == Cardinality(Visits(f))
           base == [stack |-> <<<<1, 1>>>>, seen |-> {1}, post |-> <<>>]
           Enough(st, n) == Len(st.stack) = 0 \/ Cardinality(Taken(f, st.stack, st.post)) >= n
           T == [n \in Nat |-> {st \in WalkStates(f) : WalkOK(f, st.stack, st.post, st.seen) /\ 1 \in st.seen /\ Enough(st, n)}]
           step == [n \in 1 .. N |-> [st \in WalkStates(f) |-> WalkStep(f, st)]]
           IsChain(c) == c = [n \in 0 .. N |-> IF n = 0 THEN base ELSE WalkStep(f, c[n - 1])]
           chain == CHOOSE c : IsChain(c)
<1>1. N \in Nat /\ IsFiniteSet(Visits(f))
  BY VisitsFinite
<1>2. ASSUME NEW q, NEW p PROVE IsFiniteSet(Taken(f, q, p)) /\ Cardinality(Taken(f, q, p)) \in Nat
  <2>1. Taken(f, q, p) \subseteq Visits(f)
    BY DEF Taken
  <2> QED BY <1>1, <2>1, FS_Subset, FS_CardinalityType
<1>3. ASSUME NEW n \in 1 .. N, NEW st \in T[n - 1] PROVE WalkStep(f, st) \in T[n] /\ st \in WalkStates(f)
  <2> DEFINE nx == WalkStep(f, st)
  <2>0. n \in Nat /\ n - 1 \in Nat
    BY <1>1
  <2>1. st \in WalkStates(f) /\ WalkOK(f, st.stack, st.post, st.seen) /\ 1 \in st.seen /\ Enough(st, n - 1)
    BY <2>0
  <2>2. CASE Len(st.stack) = 0
    <3>1. st.stack = <<>>
      BY <2>1, <2>2 DEF WalkStates
    <3>2. nx = st
      BY <3>1 DEF WalkStep
    <3>3. Enough(st, n)
      BY <2>2
    <3> HIDE DEF nx, Enough
    <3> QED BY <2>0, <2>1, <3>2, <3>3 DEF nx
  <2>3. CASE Len(st.stack) # 0
    <3>0. st = [stack |-> st.stack, seen |-> st.seen, post |-> st.post] /\ st.seen \in SUBSET Blocks(f)
      BY <2>1 DEF WalkStates
    <3>1. nx \in WalkStates(f) /\ WalkOK(f, nx.stack, nx.post, nx.seen) /\ st.seen \subseteq nx.seen
      BY <2>1, <2>3, <3>0, WalkTurn
    <3>2. PICK x \in Visits(f) \ Taken(f, st.stack, st.post) : OneMore(Taken(f, nx.stack, nx.post), Taken(f, st.stack, st.post), x)
      BY <2>1, <2>3, <3>0, WalkTurn
    <3> DEFINE K == Taken(f, st.stack, st.post)
    <3>3. Cardinality(K) >= n - 1 /\ IsFiniteSet(K) /\ Cardinality(K) \in Nat
      BY <1>2, <2>1, <2>3
    <3>4. x \notin K
      BY <3>2
    <3> HIDE DEF K
    <3>5. Cardinality(K \cup {x}) = Cardinality(K) + 1
      BY <3>3, <3>4, FS_AddElement
    <3>6. Cardinality(K \cup {x}) >= n
      BY <2>0, <3>3, <3>5
    <3>7. Enough(nx, n)
      BY <3>2, <3>6 DEF K, OneMore
    <3>8. 1 \in nx.seen
      BY <2>1, <3>1
    <3> HIDE DEF nx, Enough
    <3> QED BY <2>0, <2>1, <3>1, <3>7, <3>8 DEF nx
  <2> QED BY <2>2, <2>3
<1>4. base \in T[0]
  <2> DEFINE q == <<<<1, 1>>>>
             e == <<1, 1>>
  <2>1. Len(q) = 1 /\ q[1] = e /\ DOMAIN q = {1}
    OBVIOUS
  <2>2. e[1] = 1 /\ e[2] = 1 /\ e \in Blocks(f) \X Nat
    OBVIOUS
  <2>3. q \in Seq(Blocks(f) \X Nat)
    <3> HIDE DEF e
    <3>1. <<e>> \in Seq(Blocks(f) \X Nat)
      BY <2>2
    <3> QED BY <3>1 DEF e
  <2>4. base.stack = q /\ base.post = <<>> /\ base.seen = {1} /\ base \in WalkStates(f)
    <3> HIDE DEF q
    <3>1. [stack |-> q, seen |-> {1}, post |-> <<>>] \in WalkStates(f)
      BY <2>3 DEF WalkStates
    <3> QED BY <3>1 DEF q
  <2>5. Len(f.succs[1]) \in Nat
    BY GraphTypes
  <2> HIDE DEF q, e, base
  <2>6. WalkTypes(f, q, <<>>)
    <3>1. \A k \in DOMAIN q : q[k][2] >= 1 /\ q[k][2] <= Len(f.succs[q[k][1]]) + 1
      BY <2>1, <2>2, <2>5
    <3> QED BY <2>3, <3>1 DEF WalkTypes
  <2>7. WalkApart(q, <<>>)
    BY <2>1 DEF WalkApart
  <2>8. WalkSeen(f, q, <<>>, {1})
    BY <2>1, <2>2 DEF WalkSeen
  <2>9. WalkPath(f, q, <<>>)
    BY <2>1, <2>2 DEF WalkPath
  <2>10. Enough(base, 0)
    BY <1>2
  <2> HIDE DEF Enough
  <2> QED BY <2>4, <2>6, <2>7, <2>8, <2>9, <2>10 DEF WalkOK
<1>5. ASSUME NEW st \in T[N] PROVE Len(st.stack) = 0
  <2> SUFFICES ASSUME Len(st.stack) # 0 PROVE FALSE
    OBVIOUS
  <2> DEFINE K == Taken(f, st.stack, st.post)
  <2>1. WalkOK(f, st.stack, st.post, st.seen) /\ Cardinality(K) >= N /\ IsFiniteSet(K) /\ Cardinality(K) \in Nat
    BY <1>1, <1>2
  <2>2. \E x \in Visits(f) : x \notin K
    BY <2>1, TopIsNew
  <2>3. K \in SUBSET Visits(f)
    BY DEF Taken
  <2> HIDE DEF K
  <2>4. Cardinality(K) <= N /\ (N = Cardinality(K) => Visits(f) = K)
    BY <1>1, <2>3, FS_Subset
  <2>5. N = Cardinality(K)
    BY <1>1, <2>1, <2>4
  <2> QED BY <2>2, <2>4, <2>5
<1>6. T[N] \subseteq {st \in WalkStates(f) : WalkOK(f, st.stack, st.post, st.seen) /\ 1 \in st.seen}
  BY <1>1
<1> HIDE DEF T, N, base, Enough
<1>7. \A n \in 1 .. N : \A st \in T[n - 1] : step[n][st] \in T[n] /\ step[n][st] = WalkStep(f, st)
  BY <1>3
<1> HIDE DEF step
<1>8. \E it : ChainOf(it, N, base, step) /\ \A n \in 0 .. N : it[n] \in T[n]
  BY <1>1, <1>4, <1>7, ChainExists DEF Chained
<1>9. \E it : IsChain(it)
  <2>1. PICK it : ChainOf(it, N, base, step) /\ \A n \in 0 .. N : it[n] \in T[n]
    BY <1>8
  <2>2. ASSUME NEW n \in 0 .. N PROVE (IF n = 0 THEN base ELSE step[n][it[n - 1]]) = IF n = 0 THEN base ELSE WalkStep(f, it[n - 1])
    <3> SUFFICES ASSUME n # 0 PROVE step[n][it[n - 1]] = WalkStep(f, it[n - 1])
      OBVIOUS
    <3>1. n \in 1 .. N /\ n - 1 \in 0 .. N
      BY <1>1
    <3> QED BY <1>7, <2>1, <3>1
  <2>3. [n \in 0 .. N |-> IF n = 0 THEN base ELSE step[n][it[n - 1]]] = [n \in 0 .. N |-> IF n = 0 THEN base ELSE WalkStep(f, it[n - 1])]
    BY <2>2
  <2>4. IsChain(it)
    BY <2>1, <2>3 DEF ChainOf
  <2> QED BY <2>4
<1>10. IsChain(chain)
  BY <1>9
<1>11. Walk(f, 1) = chain[N]
  BY DEF Walk, N, base
<1> HIDE DEF chain
<1>12. chain[0] = base /\ \A n \in 1 .. N : chain[n] = WalkStep(f, chain[n - 1])
  BY <1>1, <1>10
<1>13. \A n \in 0 .. N : chain[n] \in T[n]
  <2>1. chain[0] \in T[0] /\ \A n \in 1 .. N : chain[n - 1] \in T[n - 1] => chain[n] \in T[n]
    BY <1>3, <1>4, <1>12
  <2> QED BY <1>1, <2>1, ChainKeeps
<1>14. chain[N] \in T[N]
  BY <1>1, <1>13
<1> QED BY <1>5, <1>6, <1>11, <1>14

\* An order of the blocks: each in one place, the entry first, and every other
\* block after one that leads to it.
IsOrder(f, o) ==
  /\ o \in Seq(Blocks(f)) /\ Len(o) >= 1 /\ o[1] = 1
  /\ \A b \in Blocks(f) : \E k \in DOMAIN o : o[k] = b
  /\ \A k, m \in DOMAIN o : o[k] = o[m] => k = m
  /\ \A k \in DOMAIN o : k # 1 => \E n \in DOMAIN o : n < k /\ Leads(f, o[n], o[k])

\* The reverse postorder of a graph whose blocks are all reached.
LEMMA PostorderIsOrder ==
  ASSUME NEW f, IsGraph(f), 1 \in Blocks(f), Reached(f)
  PROVE  IsOrder(f, ReversePostorder(f))
<1> DEFINE w == Walk(f, 1)
           p == w.post
           o == ReversePostorder(f)
           q == w.stack
           s == w.seen
<1>1. w \in WalkStates(f) /\ WalkOK(f, q, p, s) /\ Len(q) = 0 /\ 1 \in s
  BY WalkEnds
<1>2. o = Reverse(p)
  BY DEF ReversePostorder
<1> HIDE DEF w, o
<1>3. p \in Seq(Blocks(f)) /\ Len(p) \in Nat /\ DOMAIN p = 1 .. Len(p) /\ DOMAIN q = {} /\ s \subseteq Blocks(f)
  BY <1>1 DEF WalkStates
<1> HIDE DEF p, q, s
<1>4. /\ Len(p) >= 1 /\ p[Len(p)] = 1
      /\ \A m \in DOMAIN p : p[m] # 1 => \E b : Leads(f, b, p[m]) /\ \E n \in DOMAIN p : n > m /\ p[n] = b
  BY <1>1, <1>3 DEF WalkOK, WalkPath
<1>5. /\ \A b \in s : \E m \in DOMAIN p : p[m] = b
      /\ \A m \in DOMAIN p : p[m] \in s /\ \A i \in DOMAIN f.succs[p[m]] : f.succs[p[m]][i] \in s
  BY <1>1, <1>3 DEF WalkOK, WalkSeen
<1>6. \A k, m \in DOMAIN p : p[k] = p[m] => k = m
  BY <1>1 DEF WalkOK, WalkApart
<1>7. s = Blocks(f)
  <2>1. \A b \in s : ToSet(f.succs[b]) \subseteq s
    <3> SUFFICES ASSUME NEW b \in s, NEW c \in ToSet(f.succs[b]) PROVE c \in s
      OBVIOUS
    <3>1. PICK i \in DOMAIN f.succs[b] : f.succs[b][i] = c
      BY InSequence
    <3> QED BY <1>5, <3>1
  <2> QED BY <1>1, <1>3, <2>1 DEF Reached
<1> DEFINE n == Len(p)
<1>8. DOMAIN o = 1 .. n /\ o \in Seq(Blocks(f)) /\ Len(o) = n /\ \A k \in 1 .. n : o[k] = p[n - k + 1] /\ n - k + 1 \in DOMAIN p
  <2>1. o = [k \in 1 .. n |-> p[n - k + 1]]
    BY <1>2 DEF Reverse
  <2>2. \A k \in 1 .. n : n - k + 1 \in DOMAIN p
    BY <1>3
  <2>3. \A k \in DOMAIN p : p[k] \in Blocks(f)
    BY <1>3
  <2>4. o \in [1 .. n -> Blocks(f)]
    BY <2>1, <2>2, <2>3
  <2> QED BY <1>3, <2>1, <2>2, <2>4, FunctionIsSequence
<1>9. \A m \in DOMAIN p : n - m + 1 \in 1 .. n /\ o[n - m + 1] = p[m]
  <2> TAKE m \in DOMAIN p
  <2>1. m \in Nat /\ n - m + 1 \in 1 .. n /\ n - (n - m + 1) + 1 = m
    BY <1>3
  <2> QED BY <1>8, <2>1
<1> HIDE DEF n
<1>10. Len(o) >= 1 /\ o[1] = 1
  <2>1. n \in DOMAIN p /\ n - n + 1 = 1
    BY <1>3, <1>4 DEF n
  <2> QED BY <1>4, <1>8, <1>9, <2>1 DEF n
<1>11. \A b \in Blocks(f) : \E k \in DOMAIN o : o[k] = b
  BY <1>5, <1>7, <1>8, <1>9
<1>12. \A k, m \in DOMAIN o : o[k] = o[m] => k = m
  <2> SUFFICES ASSUME NEW k \in 1 .. n, NEW m \in 1 .. n, o[k] = o[m] PROVE k = m
    BY <1>8
  <2>1. n - k + 1 = n - m + 1
    BY <1>6, <1>8
  <2> QED BY <1>3, <2>1 DEF n
<1>13. ASSUME NEW k \in DOMAIN o, k # 1 PROVE \E m \in DOMAIN o : m < k /\ Leads(f, o[m], o[k])
  <2> DEFINE j == n - k + 1
  <2>1. j \in DOMAIN p /\ p[j] = o[k] /\ k \in 1 .. n
    BY <1>8
  <2>2. j # n /\ n \in DOMAIN p
    BY <1>3, <1>4, <1>13, <2>1 DEF n
  <2>3. p[j] # 1
    BY <1>4, <1>6, <2>1, <2>2 DEF n
  <2>4. PICK m \in DOMAIN p : m > j /\ Leads(f, p[m], p[j])
    BY <1>4, <2>1, <2>3
  <2>5. n - m + 1 \in 1 .. n /\ o[n - m + 1] = p[m]
    BY <1>9
  <2>6. n - m + 1 < k
    BY <1>3, <2>1, <2>4 DEF n
  <2> QED BY <1>8, <2>1, <2>4, <2>5, <2>6
<1> QED BY <1>8, <1>10, <1>11, <1>12, <1>13 DEF IsOrder, o

-----------------------------------------------------------------------------
(* The positions *)

\* Where the rows of an order begin: the k-th ends at sums[k].
IsSums(f, o, sums) ==
  /\ sums[0] = 0 /\ \A k \in 0 .. Len(o) : sums[k] \in Nat
  /\ \A k \in 1 .. Len(o) : sums[k] = sums[k - 1] + Len(f.vals[o[k]]) + 1

\* The lengths of rows add up.
LEMMA SumsExist ==
  ASSUME NEW f, IsGraph(f), NEW o, o \in Seq(Blocks(f))
  PROVE  LET before[k \in 0 .. Len(o)] == IF k = 0 THEN 0 ELSE before[k - 1] + Len(Row(f, o[k]))
         IN  IsSums(f, o, before)
<1> DEFINE N == Len(o)
           T == [n \in Nat |-> Nat]
           step == [n \in 1 .. N |-> [x \in Nat |-> x + Len(Row(f, o[n]))]]
           IsChain(c) == c = [k \in 0 .. N |-> IF k = 0 THEN 0 ELSE c[k - 1] + Len(Row(f, o[k]))]
           chain == CHOOSE c : IsChain(c)
<1>1. N \in Nat /\ DOMAIN o = 1 .. N
  OBVIOUS
<1>2. ASSUME NEW n \in 1 .. N PROVE Len(Row(f, o[n])) = Len(f.vals[o[n]]) + 1 /\ Len(f.vals[o[n]]) \in Nat
  <2>1. o[n] \in Blocks(f)
    BY <1>1
  <2>2. f.vals[o[n]] \in Seq(Ids) /\ Len(f.vals[o[n]]) \in Nat
    BY <2>1, GraphTypes
  <2> QED BY <2>2 DEF Row
<1>3. \A n \in 1 .. N : \A x \in T[n - 1] : step[n][x] \in T[n]
  <2> TAKE n \in 1 .. N
  <2>1. T[n - 1] = Nat /\ T[n] = Nat /\ Len(Row(f, o[n])) \in Nat
    BY <1>1, <1>2
  <2> QED BY <2>1
<1>4. 0 \in T[0] /\ \A n \in 0 .. N : T[n] = Nat
  BY <1>1
<1>5. \A n \in 1 .. N : \A x \in Nat : step[n][x] = x + Len(Row(f, o[n]))
  OBVIOUS
<1> HIDE DEF T, step
<1>6. \E it : ChainOf(it, N, 0, step) /\ \A n \in 0 .. N : it[n] \in T[n]
  BY <1>1, <1>3, <1>4, ChainExists DEF Chained
<1>7. \E it : IsChain(it)
  <2>1. PICK it : ChainOf(it, N, 0, step) /\ \A n \in 0 .. N : it[n] \in T[n]
    BY <1>6
  <2>2. ASSUME NEW n \in 0 .. N PROVE (IF n = 0 THEN 0 ELSE step[n][it[n - 1]]) = IF n = 0 THEN 0 ELSE it[n - 1] + Len(Row(f, o[n]))
    <3> SUFFICES ASSUME n # 0 PROVE step[n][it[n - 1]] = it[n - 1] + Len(Row(f, o[n]))
      OBVIOUS
    <3>1. n \in 1 .. N /\ n - 1 \in 0 .. N
      BY <1>1
    <3>2. it[n - 1] \in Nat
      BY <1>4, <2>1, <3>1
    <3> QED BY <1>5, <3>1, <3>2
  <2>3. [n \in 0 .. N |-> IF n = 0 THEN 0 ELSE step[n][it[n - 1]]] = [n \in 0 .. N |-> IF n = 0 THEN 0 ELSE it[n - 1] + Len(Row(f, o[n]))]
    BY <2>2
  <2>4. IsChain(it)
    BY <2>1, <2>3 DEF ChainOf
  <2> QED BY <2>4
<1>8. IsChain(chain)
  BY <1>7
<1> HIDE DEF chain
<1>9. chain[0] = 0 /\ \A n \in 1 .. N : chain[n] = chain[n - 1] + Len(Row(f, o[n]))
  <2>1. chain = [k \in 0 .. N |-> IF k = 0 THEN 0 ELSE chain[k - 1] + Len(Row(f, o[k]))]
    BY ONLY <1>8
  <2> HIDE DEF N
  <2>2. \A k \in 0 .. N : chain[k] = IF k = 0 THEN 0 ELSE chain[k - 1] + Len(Row(f, o[k]))
    BY ONLY <2>1
  <2>3. 0 \in 0 .. N /\ \A n \in 1 .. N : n \in 0 .. N /\ n # 0
    BY ONLY <1>1
  <2> QED BY ONLY <2>2, <2>3
<1>10. \A n \in 0 .. N : chain[n] \in T[n]
  <2>1. chain[0] \in T[0] /\ \A n \in 1 .. N : chain[n - 1] \in T[n - 1] => chain[n] \in T[n]
    <3> SUFFICES ASSUME NEW n \in 1 .. N, chain[n - 1] \in T[n - 1] PROVE chain[n] \in T[n]
      BY <1>4, <1>9
    <3>1. chain[n] = chain[n - 1] + Len(Row(f, o[n])) /\ chain[n - 1] \in Nat /\ T[n] = Nat /\ Len(Row(f, o[n])) \in Nat
      BY <1>1, <1>2, <1>4, <1>9
    <3> QED BY <3>1
  <2> QED BY <1>1, <2>1, ChainKeeps
<1>11. IsSums(f, o, chain)
  <2>1. \A n \in 1 .. N : chain[n] = chain[n - 1] + Len(f.vals[o[n]]) + 1
    <3> TAKE n \in 1 .. N
    <3>1. chain[n - 1] \in Nat
      <4>1. n - 1 \in 0 .. N
        BY <1>1
      <4> QED BY <1>4, <1>10, <4>1
    <3>2. chain[n] = chain[n - 1] + Len(Row(f, o[n])) /\ Len(Row(f, o[n])) = Len(f.vals[o[n]]) + 1 /\ Len(f.vals[o[n]]) \in Nat
      BY <1>2, <1>9
    <3> DEFINE a == chain[n]
               c == chain[n - 1]
               d == Len(Row(f, o[n]))
               e == Len(f.vals[o[n]])
    <3>3. c \in Nat /\ a = c + d /\ d = e + 1 /\ e \in Nat
      BY <3>1, <3>2
    <3> HIDE DEF a, c, d, e
    <3>4. a = c + e + 1
      BY <3>3
    <3> QED BY <3>4 DEF a, c, e
  <2>2. \A n \in 0 .. N : chain[n] \in Nat
    BY <1>4, <1>10
  <2> HIDE DEF IsChain
  <2> QED BY <1>9, <2>1, <2>2 DEF IsSums
<1> QED BY <1>11 DEF chain

\* The rows of an order follow each other.
LEMMA SumsGrow ==
  ASSUME NEW f, IsGraph(f), NEW o, o \in Seq(Blocks(f)), NEW sums, IsSums(f, o, sums)
  PROVE  \A k, m \in 0 .. Len(o) : k <= m => sums[k] <= sums[m]
<1> DEFINE N == Len(o)
           P == {m \in Nat : m <= N => \A k \in 0 .. m : sums[k] <= sums[m]}
<1>1. N \in Nat /\ sums[0] = 0 /\ \A k \in 0 .. N : sums[k] \in Nat
  BY DEF IsSums
<1>2. 0 \in P
  BY <1>1
<1>3. ASSUME NEW m \in Nat, m \in P PROVE m + 1 \in P
  <2> SUFFICES ASSUME m + 1 <= N, NEW k \in 0 .. m + 1 PROVE sums[k] <= sums[m + 1]
    OBVIOUS
  <2>1. m + 1 \in 1 .. Len(o) /\ (m + 1) - 1 = m /\ m \in 0 .. N /\ m + 1 \in 0 .. N
    BY <1>1
  <2>2. o[m + 1] \in Blocks(f)
    BY <2>1
  <2>3. Len(f.vals[o[m + 1]]) \in Nat
    BY <2>2, GraphTypes
  <2>4. sums[m + 1] = sums[m] + Len(f.vals[o[m + 1]]) + 1
    BY <2>1 DEF IsSums
  <2>5. sums[m] \in Nat /\ sums[m + 1] \in Nat
    BY <1>1, <2>1
  <2>6. sums[m] <= sums[m + 1]
    BY ONLY <2>3, <2>4, <2>5
  <2>7. CASE k = m + 1
    BY <2>5, <2>7
  <2>8. CASE k # m + 1
    <3>1. k \in 0 .. m /\ k \in 0 .. N
      BY <1>1, <2>1, <2>8
    <3>2. sums[k] <= sums[m] /\ sums[k] \in Nat
      BY <1>1, <1>3, <2>1, <3>1
    <3> QED BY ONLY <2>5, <2>6, <3>2
  <2> QED BY <2>7, <2>8
<1> HIDE DEF P
<1>4. \A m \in Nat : m \in P
  BY <1>2, <1>3, NumberInduction
<1> QED BY <1>1, <1>4 DEF P

\* The layout of a function: every value and every end of a block has a position
\* of its own, by the order of the blocks and in each by the order of its values.
IsLayout(f, l) ==
  /\ IsOrder(f, l.order)
  /\ \A b \in Blocks(f) : l.first[b] \in Nat /\ l.last[b] = l.first[b] + Len(f.vals[b])
  /\ \A k, m \in DOMAIN l.order : k < m => l.last[l.order[k]] < l.first[l.order[m]]
  /\ \A b \in Blocks(f) : \A i \in DOMAIN f.vals[b] : l.pos[f.vals[b][i]] = l.first[b] + i - 1
  /\ l.at \in [Positions -> Ids \cup {NoId}]
  /\ \A p \in Positions : l.at[p] # NoId => l.at[p] \in Values(f) /\ l.pos[l.at[p]] = p
  /\ \A v \in Values(f) : l.pos[v] \in Positions => l.at[l.pos[v]] = v

\* Where a value stands.
LEMMA Stands ==
  ASSUME NEW f, IsFunction(f), NEW b \in Blocks(f), NEW i \in DOMAIN f.vals[b]
  PROVE  /\ f.vals[b][i] \in Values(f) /\ f.vals[b][i] \in Ids /\ i \in Nat /\ i >= 1 /\ i <= Len(f.vals[b]) /\ Len(f.vals[b]) \in Nat
         /\ BlockOf(f, f.vals[b][i]) = b
         /\ (CHOOSE k \in DOMAIN f.vals[b] : f.vals[b][k] = f.vals[b][i]) = i
         /\ \A c \in Blocks(f) : \A k \in DOMAIN f.vals[c] : f.vals[c][k] = f.vals[b][i] => c = b /\ k = i
<1> DEFINE v == f.vals[b][i]
<1>1. IsGraph(f)
  BY FunctionFacts
<1>2. f.vals[b] \in Seq(Ids) /\ Len(f.vals[b]) \in Nat /\ DOMAIN f.vals[b] = 1 .. Len(f.vals[b])
  BY <1>1, GraphTypes
<1>3. v \in Ids /\ i \in Nat /\ i >= 1 /\ i <= Len(f.vals[b])
  BY <1>2
<1>4. \A c \in Blocks(f) : \A k \in DOMAIN f.vals[c] : f.vals[c][k] = v => c = b /\ k = i
  BY DEF IsFunction
<1>5. v \in ToSet(f.vals[b]) /\ Contains(f.vals[b], v)
  BY DEF ToSet, Contains
<1>6. v \in Values(f)
  BY <1>5 DEF Values
<1>7. \A c \in Blocks(f) : Contains(f.vals[c], v) => c = b
  <2> SUFFICES ASSUME NEW c \in Blocks(f), Contains(f.vals[c], v) PROVE c = b
    OBVIOUS
  <2>1. \E k \in DOMAIN f.vals[c] : f.vals[c][k] = v
    BY DEF Contains
  <2> QED BY <1>4, <2>1
<1> HIDE DEF v
<1>8. BlockOf(f, v) = b
  BY <1>5, <1>7 DEF BlockOf
<1>9. (CHOOSE k \in DOMAIN f.vals[b] : f.vals[b][k] = v) = i
  BY <1>4 DEF v
<1> QED BY <1>2, <1>3, <1>4, <1>6, <1>8, <1>9 DEF v

\* Every value stands somewhere.
LEMMA HasPlace ==
  ASSUME NEW f, NEW v \in Values(f)
  PROVE  \E b \in Blocks(f) : \E i \in DOMAIN f.vals[b] : f.vals[b][i] = v
BY InSequence DEF Values

\* Two rows that follow each other have no position in common.
LEMMA RowsApart ==
  ASSUME NEW a \in Nat, NEW m \in Nat, NEW c \in Nat, NEW n \in Nat, NEW i \in Nat, NEW j \in Nat,
         i >= 1, i <= m, j >= 1, j <= n, a + i - 1 = c + j - 1
  PROVE  ~(a + m < c) /\ ~(c + n < a) /\ (a = c => i = j)
OBVIOUS

\* Linearise lays a function out.
LEMMA LineariseLaysOut ==
  ASSUME NEW f, IsFunction(f), Reached(f)
  PROVE  IsLayout(f, Linearise(f)) /\ Linearise(f).order = ReversePostorder(f)
<1> DEFINE o == ReversePostorder(f)
           N == Len(o)
           before[k \in 0 .. Len(o)] == IF k = 0 THEN 0 ELSE before[k - 1] + Len(Row(f, o[k]))
           place(b)  == CHOOSE k \in DOMAIN o : o[k] = b
           first     == [b \in Blocks(f) |-> before[place(b) - 1]]
           placed    == {v \in Values(f) : BlockOf(f, v) \in ToSet(o)}
           index(v)  == CHOOSE i \in DOMAIN f.vals[BlockOf(f, v)] : f.vals[BlockOf(f, v)][i] = v
           pos       == [v \in Ids |-> IF v \in placed THEN first[BlockOf(f, v)] + index(v) - 1 ELSE -1]
           at        == [p \in Positions |-> IF \E v \in placed : pos[v] = p
                                             THEN CHOOSE v \in placed : pos[v] = p ELSE NoId]
           last      == [b \in Blocks(f) |-> before[place(b)] - 1]
           l         == Linearise(f)
<1>1. IsGraph(f) /\ 1 \in Blocks(f)
  BY FunctionFacts
<1>2. IsOrder(f, o)
  BY <1>1, PostorderIsOrder
<1>3. l.order = o /\ l.at = at /\ l.pos = pos /\ l.first = first /\ l.last = last
  BY DEF Linearise
<1> HIDE DEF o, l
<1>4. o \in Seq(Blocks(f)) /\ N \in Nat /\ DOMAIN o = 1 .. N
  BY <1>2 DEF IsOrder
<1>5. IsSums(f, o, before)
  BY <1>1, <1>4, SumsExist
<1> HIDE DEF before
<1>6. \A b \in Blocks(f) : place(b) \in 1 .. N /\ o[place(b)] = b
  BY <1>2, <1>4 DEF IsOrder
<1>7. \A k \in 1 .. N : o[k] \in Blocks(f) /\ place(o[k]) = k
  BY <1>2, <1>4, <1>6 DEF IsOrder
<1> HIDE DEF place
<1>8. ASSUME NEW b \in Blocks(f)
      PROVE  /\ first[b] \in Nat /\ last[b] = first[b] + Len(f.vals[b]) /\ Len(f.vals[b]) \in Nat
             /\ first[b] = before[place(b) - 1] /\ last[b] + 1 = before[place(b)]
  <2>1. Len(f.vals[b]) \in Nat
    BY <1>1, GraphTypes
  <2>2. place(b) \in 1 .. N /\ place(b) - 1 \in 0 .. N /\ place(b) \in 0 .. N
    BY <1>4, <1>6
  <2>3. before[place(b)] = before[place(b) - 1] + Len(f.vals[o[place(b)]]) + 1
    BY <1>5, <2>2 DEF IsSums
  <2>4. before[place(b)] \in Nat /\ before[place(b) - 1] \in Nat
    BY <1>5, <2>2 DEF IsSums
  <2>5. o[place(b)] = b
    BY <1>6
  <2>6. first[b] = before[place(b) - 1] /\ last[b] = before[place(b)] - 1
    OBVIOUS
  <2> HIDE DEF first, last
  <2> QED BY <2>1, <2>3, <2>4, <2>5, <2>6
<1>9. \A k, m \in 1 .. N : k < m => last[o[k]] < first[o[m]]
  <2> SUFFICES ASSUME NEW k \in 1 .. N, NEW m \in 1 .. N, k < m PROVE last[o[k]] < first[o[m]]
    OBVIOUS
  <2> HIDE DEF first, last, before
  <2>1. o[k] \in Blocks(f) /\ place(o[k]) = k /\ o[m] \in Blocks(f) /\ place(o[m]) = m
    BY <1>7
  <2>2. last[o[k]] + 1 = before[k] /\ first[o[m]] = before[m - 1]
    BY <1>8, <2>1
  <2>3. k \in 0 .. N /\ m - 1 \in 0 .. N /\ k <= m - 1
    BY <1>4
  <2>4. before[k] <= before[m - 1] /\ before[k] \in Nat /\ before[m - 1] \in Nat
    BY <1>1, <1>4, <1>5, <2>3, SumsGrow DEF IsSums
  <2>5. last[o[k]] \in Int
    <3>1. first[o[k]] \in Nat /\ last[o[k]] = first[o[k]] + Len(f.vals[o[k]]) /\ Len(f.vals[o[k]]) \in Nat
      BY ONLY <1>8, <2>1
    <3> QED BY ONLY <3>1
  <2> DEFINE x == last[o[k]]
             y == before[k]
             z == before[m - 1]
  <2>6. x + 1 = y /\ y <= z /\ y \in Nat /\ z \in Nat /\ x \in Int
    BY ONLY <2>2, <2>4, <2>5
  <2> HIDE DEF x, y, z
  <2>7. x < z
    BY ONLY <2>6
  <2> QED BY ONLY <2>2, <2>7 DEF x, z
<1> HIDE DEF last
<1>10. placed = Values(f)
  <2> SUFFICES ASSUME NEW v \in Values(f) PROVE BlockOf(f, v) \in ToSet(o)
    OBVIOUS
  <2>1. PICK b \in Blocks(f) : \E i \in DOMAIN f.vals[b] : f.vals[b][i] = v
    BY HasPlace
  <2>2. BlockOf(f, v) = b
    BY <2>1, Stands
  <2>3. place(b) \in DOMAIN o /\ o[place(b)] = b
    BY <1>4, <1>6
  <2> QED BY <2>2, <2>3 DEF ToSet
<1> HIDE DEF first, placed
<1>11. ASSUME NEW b \in Blocks(f), NEW i \in DOMAIN f.vals[b] PROVE pos[f.vals[b][i]] = first[b] + i - 1
  <2> DEFINE v == f.vals[b][i]
  <2>1. v \in Values(f) /\ v \in Ids /\ BlockOf(f, v) = b /\ index(v) = i
    BY Stands
  <2> QED BY <1>10, <2>1
<1>12. \A v \in Values(f) : v \in Ids
  <2> SUFFICES ASSUME NEW v \in Values(f) PROVE v \in Ids
    OBVIOUS
  <2>1. PICK b \in Blocks(f) : \E i \in DOMAIN f.vals[b] : f.vals[b][i] = v
    BY HasPlace
  <2> QED BY <2>1, Stands
<1> HIDE DEF pos
<1>13. ASSUME NEW u \in Values(f), NEW v \in Values(f), pos[u] = pos[v] PROVE u = v
  <2>1. PICK b \in Blocks(f) : \E i \in DOMAIN f.vals[b] : f.vals[b][i] = u
    BY HasPlace
  <2>2. PICK i \in DOMAIN f.vals[b] : f.vals[b][i] = u
    BY <2>1
  <2>3. PICK c \in Blocks(f) : \E j \in DOMAIN f.vals[c] : f.vals[c][j] = v
    BY HasPlace
  <2>4. PICK j \in DOMAIN f.vals[c] : f.vals[c][j] = v
    BY <2>3
  <2>5. pos[u] = first[b] + i - 1 /\ pos[v] = first[c] + j - 1
    BY <1>11, <2>2, <2>4
  <2>6. i \in Nat /\ i >= 1 /\ i <= Len(f.vals[b]) /\ j \in Nat /\ j >= 1 /\ j <= Len(f.vals[c])
    BY Stands
  <2>7. /\ first[b] \in Nat /\ last[b] = first[b] + Len(f.vals[b]) /\ Len(f.vals[b]) \in Nat
        /\ first[c] \in Nat /\ last[c] = first[c] + Len(f.vals[c]) /\ Len(f.vals[c]) \in Nat
    BY <1>8
  <2>8. place(b) = place(c) \/ last[b] < first[c] \/ last[c] < first[b]
    <3>1. place(b) \in 1 .. N /\ place(c) \in 1 .. N /\ o[place(b)] = b /\ o[place(c)] = c
      BY <1>6
    <3>2. place(b) < place(c) \/ place(c) < place(b) \/ place(b) = place(c)
      BY <1>4, <3>1
    <3> QED BY <1>9, <3>1, <3>2
  <2> DEFINE x == pos[u]
             y == pos[v]
  <2>12. x = y /\ x = first[b] + i - 1 /\ y = first[c] + j - 1
    BY <1>13, <2>5
  <2> HIDE DEF x, y
  <2>13. first[b] + i - 1 = first[c] + j - 1
    BY ONLY <2>12
  <2>14. ~(first[b] + Len(f.vals[b]) < first[c]) /\ ~(first[c] + Len(f.vals[c]) < first[b]) /\ (first[b] = first[c] => i = j)
    <3> DEFINE fb == first[b]
               nb == Len(f.vals[b])
               fc == first[c]
               nc == Len(f.vals[c])
    <3>1. /\ fb \in Nat /\ nb \in Nat /\ fc \in Nat /\ nc \in Nat /\ i \in Nat /\ j \in Nat
          /\ i >= 1 /\ i <= nb /\ j >= 1 /\ j <= nc /\ fb + i - 1 = fc + j - 1
      BY <2>6, <2>7, <2>13
    <3> HIDE DEF fb, nb, fc, nc
    <3>2. ~(fb + nb < fc) /\ ~(fc + nc < fb) /\ (fb = fc => i = j)
      BY ONLY <3>1, RowsApart
    <3> QED BY <3>2 DEF fb, nb, fc, nc
  <2>9. place(b) = place(c)
    BY <2>7, <2>8, <2>14
  <2>10. b = c
    BY <1>6, <2>9
  <2>11. i = j
    BY <2>10, <2>14
  <2> QED BY <2>2, <2>4, <2>10, <2>11
<1>14. at \in [Positions -> Ids \cup {NoId}]
  BY <1>10, <1>12
<1>15. \A p \in Positions : at[p] # NoId => at[p] \in Values(f) /\ pos[at[p]] = p
  BY <1>10
<1>16. \A v \in Values(f) : pos[v] \in Positions => at[pos[v]] = v
  BY <1>10, <1>13
<1> HIDE DEF at
<1>17. IsLayout(f, l)
  BY <1>2, <1>3, <1>4, <1>8, <1>9, <1>11, <1>14, <1>15, <1>16 DEF IsLayout
<1> QED BY <1>3, <1>17 DEF l, o

-----------------------------------------------------------------------------
(* What is live inside a block *)

\* An interval loses its least number.
LEMMA IntervalFacts ==
  ASSUME NEW a \in Nat, NEW b \in Nat, a <= b
  PROVE  Min(a .. b) = a /\ (a .. b) \ {a} = (a + 1) .. b
<1>1. a .. b \subseteq Nat /\ a .. b # {} /\ a \in a .. b
  OBVIOUS
<1>2. Min(a .. b) \in a .. b /\ \A k \in a .. b : Min(a .. b) <= k
  BY <1>1, MinFacts
<1>3. Min(a .. b) = a
  BY <1>1, <1>2
<1> QED BY <1>3

\* The values from the i-th on are folded as the whole is folded.
LEMMA FoldsFrom ==
  ASSUME NEW f, NEW vs \in Seq(DOMAIN f.op), NEW A, NEW it, Steps(f, vs, A, it), NEW i \in 1 .. Len(vs) + 1
  PROVE  LiveBefore(f, SubSeq(vs, i, Len(vs)), A) = it[i .. Len(vs)]
<1> DEFINE n == Len(vs)
           q == SubSeq(vs, i, Len(vs))
           len == (n - i) + 1
<1>1. n \in Nat /\ len \in Nat /\ i \in Nat /\ len <= n /\ DOMAIN vs = 1 .. n
  OBVIOUS
<1>2. q \in Seq(DOMAIN f.op) /\ DOMAIN q = 1 .. len /\ \A k \in 1 .. len : q[k] = vs[(k + i) - 1]
  <2>0. \A k \in i .. n : k \in DOMAIN vs /\ vs[k] \in DOMAIN f.op
    OBVIOUS
  <2> DEFINE S == DOMAIN f.op
  <2>5. \A k \in i .. n : vs[k] \in S
    BY <2>0
  <2> HIDE DEF S
  <2>6. SubSeq(vs, i, n) \in Seq(S)
    BY ONLY <1>1, <2>5, n \in Int, i \in Int, SubSeqProperties
  <2>1. q \in Seq(DOMAIN f.op)
    BY <2>6 DEF S
  <2>2. Len(q) = len
    BY <1>1
  <2>3. DOMAIN q = 1 .. len
    BY <2>1, <2>2
  <2>4. ASSUME NEW k \in 1 .. len PROVE q[k] = vs[(k + i) - 1]
    <3>1. q[k] = vs[i + k - 1] /\ i + k - 1 = (k + i) - 1
      BY <1>1
    <3> QED BY <3>1
  <2> QED BY <2>1, <2>3, <2>4
<1> HIDE DEF n, q, len
<1>3. PICK jt : Steps(f, q, A, jt)
  BY <1>2, LiveBeforeFolds
<1>4. LiveBefore(f, q, A) = jt[1 .. len] /\ jt[{}] = A /\ it[{}] = A
  BY <1>2, <1>3 DEF Steps
<1>5. ASSUME NEW a \in 1 .. len
      PROVE  jt[a .. len] = (jt[(a + 1) .. len] \ {q[a]}) \cup Reads(f, q[a])
  <2>1. a .. len \in SUBSET DOMAIN q /\ a .. len # {} /\ a \in Nat /\ a <= len
    BY <1>1, <1>2
  <2>2. Min(a .. len) = a /\ (a .. len) \ {a} = (a + 1) .. len
    BY <1>1, <2>1, IntervalFacts
  <2> DEFINE s == a .. len
  <2>3. s \in SUBSET DOMAIN q /\ s # {} /\ Min(s) = a /\ s \ {a} = (a + 1) .. len
    BY <2>1, <2>2
  <2> HIDE DEF s
  <2>4. jt[s] = (jt[s \ {Min(s)}] \ {q[Min(s)]}) \cup Reads(f, q[Min(s)])
    BY <1>3, <2>3 DEF Steps
  <2>5. jt[s] = (jt[(a + 1) .. len] \ {q[a]}) \cup Reads(f, q[a])
    BY <2>3, <2>4
  <2> QED BY <2>5 DEF s
<1>6. ASSUME NEW a \in 1 .. n
      PROVE  it[a .. n] = (it[(a + 1) .. n] \ {vs[a]}) \cup Reads(f, vs[a])
  <2>1. a .. n \in SUBSET DOMAIN vs /\ a .. n # {} /\ a \in Nat /\ a <= n
    BY <1>1
  <2>2. Min(a .. n) = a /\ (a .. n) \ {a} = (a + 1) .. n
    BY <1>1, <2>1, IntervalFacts
  <2> DEFINE s == a .. n
  <2>3. s \in SUBSET DOMAIN vs /\ s # {} /\ Min(s) = a /\ s \ {a} = (a + 1) .. n
    BY <2>1, <2>2
  <2> HIDE DEF s
  <2>4. it[s] = (it[s \ {Min(s)}] \ {vs[Min(s)]}) \cup Reads(f, vs[Min(s)])
    BY <2>3 DEF Steps
  <2>5. it[s] = (it[(a + 1) .. n] \ {vs[a]}) \cup Reads(f, vs[a])
    BY <2>3, <2>4
  <2> QED BY <2>5 DEF s
<1> DEFINE P == {m \in Nat : m <= len => jt[((len - m) + 1) .. len] = it[((n - m) + 1) .. n]}
<1>7. 0 \in P
  <2>1. ((len - 0) + 1) .. len = {} /\ ((n - 0) + 1) .. n = {}
    BY <1>1
  <2> QED BY <1>4, <2>1
<1>8. ASSUME NEW m \in Nat, m \in P PROVE m + 1 \in P
  <2> SUFFICES ASSUME m + 1 <= len PROVE jt[((len - (m + 1)) + 1) .. len] = it[((n - (m + 1)) + 1) .. n]
    OBVIOUS
  <2> DEFINE a == len - m
             c == n - m
  <2>1. /\ a \in 1 .. len /\ c \in 1 .. n /\ (len - (m + 1)) + 1 = a /\ (n - (m + 1)) + 1 = c
        /\ (len - m) + 1 = a + 1 /\ (n - m) + 1 = c + 1
    BY <1>1
  <2>2. (a + i) - 1 = c
    BY <1>1 DEF len
  <2>3. q[a] = vs[c]
    BY <1>2, <2>1, <2>2
  <2>4. jt[(a + 1) .. len] = it[(c + 1) .. n]
    BY <1>1, <1>8, <2>1
  <2> HIDE DEF a, c
  <2>5. jt[a .. len] = it[c .. n]
    BY <1>5, <1>6, <2>1, <2>3, <2>4
  <2> QED BY <2>1, <2>5
<1> HIDE DEF P
<1>9. len \in P
  BY <1>1, <1>7, <1>8, NumberInduction
<1>10. jt[((len - len) + 1) .. len] = it[((n - len) + 1) .. n]
  BY <1>1, <1>9 DEF P
<1>11. (len - len) + 1 = 1 /\ (n - len) + 1 = i
  BY <1>1 DEF len
<1>12. jt[1 .. len] = it[i .. n]
  BY <1>10, <1>11
<1> QED BY <1>4, <1>12 DEF n, q

\* What is live at the start of a block's values is what their first reads, and
\* what is live after it and is not written by it.
Rest(f, b, i) == SubSeq(f.vals[b], i, Len(f.vals[b]))
LiveAt(f, b, i) == LiveBefore(f, Rest(f, b, i), LiveAtEnd(f, b))

\* Step by step through a block, from its start to its end.
LEMMA LiveSteps ==
  ASSUME NEW f, FlowGraph(f), NEW b \in Blocks(f)
  PROVE  /\ LiveAt(f, b, 1) \subseteq LiveAtStart(f, b)
         /\ LiveAt(f, b, Len(f.vals[b]) + 1) = LiveAtEnd(f, b)
         /\ \A i \in DOMAIN f.vals[b] :
              LiveAt(f, b, i) = (LiveAt(f, b, i + 1) \ {f.vals[b][i]}) \cup Reads(f, f.vals[b][i])
<1> DEFINE vs == f.vals[b]
           n  == Len(vs)
           A  == LiveAtEnd(f, b)
<1>1. vs \in Seq(DOMAIN f.op) /\ n \in Nat /\ DOMAIN vs = 1 .. n
  BY DEF FlowGraph, Blocks
<1>0. PICK it : Steps(f, vs, A, it)
  <2> HIDE DEF A, vs
  <2> QED BY <1>1, LiveBeforeFolds
<1>2. \A i \in 1 .. n + 1 : LiveAt(f, b, i) = it[i .. n]
  <2> TAKE i \in 1 .. n + 1
  <2>1. LiveBefore(f, SubSeq(vs, i, n), A) = it[i .. n]
    <3> HIDE DEF A, vs
    <3> QED BY <1>0, <1>1, FoldsFrom
  <2> QED BY <2>1 DEF LiveAt, Rest
<1>3. LiveAt(f, b, n + 1) = A
  <2>1. (n + 1) .. n = {} /\ n + 1 \in 1 .. n + 1
    BY <1>1
  <2>2. it[{}] = A
    BY <1>0 DEF Steps
  <2> QED BY <1>2, <2>1, <2>2
<1>4. LiveAt(f, b, 1) \subseteq LiveAtStart(f, b)
  <2>1. SubSeq(vs, 1, n) = vs
    BY <1>1
  <2>2. LiveAt(f, b, 1) = LiveBefore(f, f.vals[b], LiveAtEnd(f, b))
    BY <2>1 DEF LiveAt, Rest
  <2> QED BY <2>2, CarriedBack
<1>5. ASSUME NEW i \in 1 .. n PROVE LiveAt(f, b, i) = (LiveAt(f, b, i + 1) \ {vs[i]}) \cup Reads(f, vs[i])
  <2> HIDE DEF vs, A
  <2> DEFINE s == i .. n
  <2>1. s \in SUBSET DOMAIN vs /\ s # {} /\ i \in Nat /\ i <= n /\ i \in 1 .. n + 1 /\ i + 1 \in 1 .. n + 1
    BY <1>1
  <2>2. Min(s) = i /\ s \ {i} = (i + 1) .. n
    BY <1>1, <2>1, IntervalFacts
  <2>3. LiveAt(f, b, i) = it[s] /\ LiveAt(f, b, i + 1) = it[(i + 1) .. n]
    BY <1>2, <2>1
  <2> HIDE DEF s, n
  <2>4. it[s] = (it[s \ {Min(s)}] \ {vs[Min(s)]}) \cup Reads(f, vs[Min(s)])
    BY <1>0, <2>1 DEF Steps
  <2>5. it[s] = (it[(i + 1) .. n] \ {vs[i]}) \cup Reads(f, vs[i])
    BY <2>2, <2>4
  <2> QED BY <2>3, <2>5
<1> QED BY <1>1, <1>3, <1>4, <1>5

\* The layout leaves room for every position.
Fits(f, l) == IsLayout(f, l) /\ \A b \in Blocks(f) : 0 .. l.last[b] \subseteq Positions

\* The position of the i-th value of b.
LEMMA PositionOf ==
  ASSUME NEW f, IsFunction(f), NEW l, Fits(f, l), NEW b \in Blocks(f), NEW i \in DOMAIN f.vals[b]
  PROVE  /\ l.pos[f.vals[b][i]] = l.first[b] + i - 1
         /\ l.first[b] \in Nat /\ l.last[b] \in Nat /\ l.pos[f.vals[b][i]] \in Nat /\ l.pos[f.vals[b][i]] \in Positions
         /\ l.first[b] <= l.pos[f.vals[b][i]] /\ l.pos[f.vals[b][i]] < l.last[b]
         /\ l.at[l.pos[f.vals[b][i]]] = f.vals[b][i]
<1> DEFINE v == f.vals[b][i]
           p == l.pos[v]
           fb == l.first[b]
           lb == l.last[b]
           nb == Len(f.vals[b])
<1>1. v \in Values(f) /\ i \in Nat /\ i >= 1 /\ i <= nb /\ nb \in Nat
  BY Stands
<1>2. fb \in Nat /\ lb = fb + nb /\ p = fb + i - 1 /\ 0 .. lb \subseteq Positions /\ (p \in Positions => l.at[p] = v)
  BY <1>1 DEF Fits, IsLayout
<1> HIDE DEF p, v, fb, lb, nb
<1>3. p \in Nat /\ fb <= p /\ p < lb /\ p \in 0 .. lb /\ lb \in Nat
  BY <1>1, <1>2
<1>4. p \in Positions
  BY <1>2, <1>3
<1> QED BY <1>2, <1>3, <1>4 DEF p, v, fb, lb, nb

\* The ends of a block have positions too, which are no value's.
LEMMA EndPosition ==
  ASSUME NEW f, IsFunction(f), NEW l, Fits(f, l), NEW b \in Blocks(f)
  PROVE  /\ l.first[b] \in Nat /\ l.last[b] \in Nat /\ l.first[b] \in Positions /\ l.last[b] \in Positions
         /\ l.last[b] = l.first[b] + Len(f.vals[b]) /\ Len(f.vals[b]) \in Nat
         /\ \A v \in Values(f) : l.pos[v] # l.last[b]
<1>1. Len(f.vals[b]) \in Nat
  BY FunctionFacts, GraphTypes
<1>2. l.first[b] \in Nat /\ l.last[b] = l.first[b] + Len(f.vals[b]) /\ 0 .. l.last[b] \subseteq Positions
  BY DEF Fits, IsLayout
<1>3. l.last[b] \in Nat /\ l.first[b] <= l.last[b]
  BY <1>1, <1>2
<1>4. l.first[b] \in Positions /\ l.last[b] \in Positions
  <2> DEFINE x == l.first[b]
             y == l.last[b]
  <2>1. x \in Nat /\ y \in Nat /\ x <= y /\ 0 .. y \subseteq Positions
    BY <1>2, <1>3
  <2> HIDE DEF x, y
  <2>2. x \in Positions /\ y \in Positions
    BY <2>1
  <2> QED BY <2>2 DEF x, y
<1>5. ASSUME NEW v \in Values(f) PROVE l.pos[v] # l.last[b]
  <2>1. PICK c \in Blocks(f) : \E i \in DOMAIN f.vals[c] : f.vals[c][i] = v
    BY HasPlace
  <2>2. l.first[c] \in Nat /\ l.last[c] \in Nat /\ l.pos[v] \in Nat /\ l.first[c] <= l.pos[v] /\ l.pos[v] < l.last[c]
    BY <2>1, PositionOf
  <2>3. IsOrder(f, l.order) /\ \A k, m \in DOMAIN l.order : k < m => l.last[l.order[k]] < l.first[l.order[m]]
    BY DEF Fits, IsLayout
  <2>4. c = b \/ l.last[b] < l.first[c] \/ l.last[c] < l.first[b]
    <3>1. l.order \in Seq(Blocks(f)) /\ \E k \in DOMAIN l.order : l.order[k] = b
      BY <2>3 DEF IsOrder
    <3>2. \E m \in DOMAIN l.order : l.order[m] = c
      BY <2>3 DEF IsOrder
    <3>3. PICK k \in DOMAIN l.order : l.order[k] = b
      BY <3>1
    <3>4. PICK m \in DOMAIN l.order : l.order[m] = c
      BY <3>2
    <3>5. k < m \/ m < k \/ k = m
      BY <3>1
    <3> QED BY <2>3, <3>3, <3>4, <3>5
  <2> QED BY <1>2, <1>3, <2>2, <2>4
<1> QED BY <1>1, <1>2, <1>3, <1>4, <1>5

-----------------------------------------------------------------------------
(* A value is live only after it stands *)

\* A block in place k of the order.
IsPlace(l, k, b) == k \in DOMAIN l.order /\ l.order[k] = b

\* In a block into which only values that stand before it are live, a value is
\* live or read only after it stands.
LEMMA LiveAfterInBlock ==
  ASSUME NEW f, IsFunction(f), NEW l, Fits(f, l), NEW b \in Blocks(f),
         \A u \in LiveAtStart(f, b) : l.pos[u] < l.first[b]
  PROVE  \A i \in 1 .. Len(f.vals[b]) + 1 : \A u \in LiveAt(f, b, i) : l.pos[u] < l.first[b] + i - 1
<1> DEFINE n == Len(f.vals[b])
           fb == l.first[b]
           P == {i \in Nat : i + 1 <= n + 1 => \A u \in LiveAt(f, b, i + 1) : l.pos[u] < fb + i}
<1>1. n \in Nat /\ DOMAIN f.vals[b] = 1 .. n /\ fb \in Nat /\ FlowGraph(f)
  BY FunctionFacts, GraphTypes, EndPosition
<1>2. /\ LiveAt(f, b, 1) \subseteq LiveAtStart(f, b)
      /\ \A i \in DOMAIN f.vals[b] :
              LiveAt(f, b, i) = (LiveAt(f, b, i + 1) \ {f.vals[b][i]}) \cup Reads(f, f.vals[b][i])
  BY <1>1, LiveSteps
<1>3. 0 \in P
  <2>1. \A u \in LiveAt(f, b, 0 + 1) : l.pos[u] < fb + 0
    BY <1>1, <1>2
  <2> QED BY <2>1
<1>4. ASSUME NEW i \in Nat, i \in P PROVE i + 1 \in P
  <2> SUFFICES ASSUME (i + 1) + 1 <= n + 1, NEW u \in LiveAt(f, b, (i + 1) + 1) PROVE l.pos[u] < fb + (i + 1)
    OBVIOUS
  <2>1. i + 1 \in 1 .. n
    BY <1>1
  <2>2. LiveAt(f, b, (i + 1) + 1) \subseteq LiveAt(f, b, i + 1) \cup {f.vals[b][i + 1]}
    BY <1>1, <1>2, <2>1
  <2>3. CASE u \in LiveAt(f, b, i + 1)
    <3>1. l.pos[u] < fb + i
      BY <1>4, <2>1, <2>3
    <3>2. u \in Tracked(f)
      <4>1. f.vals[b] \in Seq(DOMAIN f.op)
        BY <1>1 DEF FlowGraph, Blocks
      <4>2. LiveAtEnd(f, b) \subseteq Tracked(f)
        BY DEF LiveAtEnd, LiveAtStart, ReadAtEnd
      <4>3. Rest(f, b, i + 1) \in Seq(DOMAIN f.op)
        <5>1. \A k \in i + 1 .. n : f.vals[b][k] \in DOMAIN f.op
          BY <1>1, <4>1
        <5> DEFINE S == DOMAIN f.op
        <5>2. \A k \in i + 1 .. n : f.vals[b][k] \in S
          BY <5>1
        <5> HIDE DEF S
        <5>3. SubSeq(f.vals[b], i + 1, n) \in Seq(S)
          BY ONLY <1>1, <5>2, i + 1 \in Int, n \in Int, SubSeqProperties
        <5> QED BY <5>3 DEF S, Rest
      <4>4. LiveAt(f, b, i + 1) \subseteq Tracked(f)
        BY <4>2, <4>3, LiveBeforeSplits DEF LiveAt
      <4> QED BY <2>3, <4>4
    <3>3. u \in Values(f)
      BY <3>2 DEF IsFunction
    <3>4. l.pos[u] \in Nat
      BY <3>3, HasPlace, PositionOf
    <3> HIDE DEF fb
    <3> QED BY <1>1, <3>1, <3>4
  <2>4. CASE u = f.vals[b][i + 1]
    <3>1. l.pos[f.vals[b][i + 1]] = fb + (i + 1) - 1
      BY <1>1, <2>1, PositionOf
    <3> HIDE DEF fb
    <3> QED BY <1>1, <2>4, <3>1
  <2> QED BY <2>2, <2>3, <2>4
<1> HIDE DEF P
<1>5. \A i \in Nat : i \in P
  BY <1>3, <1>4, NumberInduction
<1>6. ASSUME NEW i \in 1 .. n + 1, NEW u \in LiveAt(f, b, i) PROVE l.pos[u] < fb + i - 1
  <2>1. i - 1 \in Nat /\ (i - 1) + 1 = i /\ fb + (i - 1) = fb + i - 1 /\ (i - 1) + 1 <= n + 1
    BY <1>1
  <2>2. i - 1 \in P
    BY <1>5, <2>1
  <2>3. \A w \in LiveAt(f, b, (i - 1) + 1) : l.pos[w] < fb + (i - 1)
    BY <2>1, <2>2 DEF P
  <2> QED BY <2>1, <2>3
<1> QED BY <1>6

\* What is live into a block stands before it: by the order of the blocks, along
\* one that leads there from earlier.
LEMMA LiveAfter ==
  ASSUME NEW f, IsFunction(f), LiveAtStart(f, 1) = {}, NEW l, Fits(f, l)
  PROVE  \A b \in Blocks(f) : \A u \in LiveAtStart(f, b) : l.pos[u] < l.first[b]
<1> DEFINE o == l.order
           N == Len(o)
           Good(b) == \A u \in LiveAtStart(f, b) : l.pos[u] < l.first[b]
           P == {m \in Nat : \A k \in 1 .. N : k <= m => Good(o[k])}
<1>1. o \in Seq(Blocks(f)) /\ N \in Nat /\ N >= 1 /\ o[1] = 1 /\ DOMAIN o = 1 .. N
      /\ \A b \in Blocks(f) : \E k \in DOMAIN o : o[k] = b
  BY DEF Fits, IsLayout, IsOrder
<1>2. \A k \in DOMAIN o : k # 1 => \E n \in DOMAIN o : n < k /\ Leads(f, o[n], o[k])
  BY DEF Fits, IsLayout, IsOrder
<1>3. \A k, m \in DOMAIN o : k < m => l.last[o[k]] < l.first[o[m]]
  BY DEF Fits, IsLayout
<1> HIDE DEF o
<1>4. 0 \in P
  BY <1>1
<1>5. ASSUME NEW m \in Nat, m \in P PROVE m + 1 \in P
  <2> SUFFICES ASSUME NEW k \in 1 .. N, k <= m + 1 PROVE Good(o[k])
    OBVIOUS
  <2>1. CASE k # m + 1
    <3>1. k <= m
      BY <1>1, <2>1
    <3> QED BY <1>5, <3>1
  <2>2. CASE k = 1
    <3>1. LiveAtStart(f, o[k]) = {}
      BY <1>1, <2>2
    <3> QED BY <3>1
  <2>3. CASE k = m + 1 /\ k # 1
    <3>1. PICK n \in 1 .. N : n < k /\ Leads(f, o[n], o[k])
      BY <1>1, <1>2, <2>3
    <3> DEFINE b == o[k]
               c == o[n]
    <3>2. b \in Blocks(f) /\ c \in Blocks(f)
      BY <1>1
    <3>3. Good(c)
      BY <1>1, <1>5, <2>3, <3>1
    <3>4. l.last[c] < l.first[b]
      BY <1>1, <1>3, <3>1
    <3>5. b \in ToSet(f.succs[c])
      BY <3>1 DEF Leads, ToSet
    <3> HIDE DEF b, c
    <3>6. LiveAtStart(f, b) \subseteq LiveAtEnd(f, c)
      BY <3>5 DEF LiveAtEnd
    <3>7. /\ l.first[c] \in Nat /\ l.last[c] = l.first[c] + Len(f.vals[c]) /\ Len(f.vals[c]) \in Nat
          /\ l.first[b] \in Nat
      BY <3>2, EndPosition
    <3>8. LiveAt(f, c, Len(f.vals[c]) + 1) = LiveAtEnd(f, c)
      BY <3>2, FunctionFacts, LiveSteps
    <3>9. \A i \in 1 .. Len(f.vals[c]) + 1 : \A u \in LiveAt(f, c, i) : l.pos[u] < l.first[c] + i - 1
      BY <3>2, <3>3, LiveAfterInBlock
    <3>10. \A u \in LiveAtEnd(f, c) : l.pos[u] < l.first[c] + (Len(f.vals[c]) + 1) - 1
      <4>1. Len(f.vals[c]) + 1 \in 1 .. Len(f.vals[c]) + 1
        BY <3>7
      <4> QED BY <3>8, <3>9, <4>1
    <3>11. ASSUME NEW u \in LiveAtStart(f, b) PROVE l.pos[u] < l.first[b]
      <4>1. u \in Tracked(f) /\ u \in Values(f)
        BY DEF LiveAtStart, IsFunction
      <4>2. l.pos[u] \in Nat
        BY <4>1, HasPlace, PositionOf
      <4>3. l.pos[u] < l.first[c] + (Len(f.vals[c]) + 1) - 1
        BY <3>6, <3>10
      <4> DEFINE x == l.pos[u]
                 y == l.first[c]
                 z == Len(f.vals[c])
                 w == l.first[b]
      <4>4. x \in Nat /\ y \in Nat /\ z \in Nat /\ w \in Nat /\ x < y + (z + 1) - 1 /\ y + z < w
        BY <3>4, <3>7, <4>2, <4>3
      <4> HIDE DEF x, y, z, w
      <4>5. x < w
        BY <4>4
      <4> QED BY <4>5 DEF x, w
    <3> QED BY <3>11 DEF b
  <2> QED BY <2>1, <2>2, <2>3
<1> HIDE DEF P
<1>6. \A m \in Nat : m \in P
  BY <1>4, <1>5, NumberInduction
<1>7. ASSUME NEW b \in Blocks(f) PROVE Good(b)
  <2>1. PICK k \in 1 .. N : o[k] = b
    BY <1>1
  <2>2. k \in P /\ k <= k /\ k \in Nat
    BY <1>1, <1>6
  <2>3. Good(o[k])
    BY <2>2 DEF P
  <2> QED BY <2>1, <2>3
<1> QED BY <1>7

\* What the i-th value of a block reads stands before it.
LEMMA ReadsAfter ==
  ASSUME NEW f, IsFunction(f), LiveAtStart(f, 1) = {}, NEW l, Fits(f, l), NEW v \in Values(f), NEW u \in Reads(f, v)
  PROVE  l.pos[u] < l.pos[v]
<1>1. PICK b \in Blocks(f) : \E i \in DOMAIN f.vals[b] : f.vals[b][i] = v
  BY HasPlace
<1>2. PICK i \in DOMAIN f.vals[b] : f.vals[b][i] = v
  BY <1>1
<1>3. \A w \in LiveAtStart(f, b) : l.pos[w] < l.first[b]
  BY LiveAfter
<1>4. \A k \in 1 .. Len(f.vals[b]) + 1 : \A w \in LiveAt(f, b, k) : l.pos[w] < l.first[b] + k - 1
  BY <1>3, LiveAfterInBlock
<1>5. i \in 1 .. Len(f.vals[b]) + 1
  BY Stands
<1>6. u \in LiveAt(f, b, i)
  BY <1>2, FunctionFacts, LiveSteps
<1>7. l.pos[v] = l.first[b] + i - 1
  BY <1>2, PositionOf
<1> QED BY <1>4, <1>5, <1>6, <1>7

-----------------------------------------------------------------------------
(* The ranges *)

\* Where a range is.
IsRange(f, l, li, lo, an0) ==
  /\ an0.tracked = Tracked(f)
  /\ \A v \in Tracked(f) : /\ Covers(f, l, li, lo, v) \subseteq Positions
                           /\ an0.start[v] \in Covers(f, l, li, lo, v) /\ an0.end[v] \in Covers(f, l, li, lo, v)
                           /\ \A p \in Covers(f, l, li, lo, v) : an0.start[v] <= p /\ p <= an0.end[v]

\* The positions a range covers are positions.
LEMMA CoversPositions ==
  ASSUME NEW f, Ready(f), NEW l, Fits(f, l), NEW li, NEW lo, NEW v \in Tracked(f)
  PROVE  Covers(f, l, li, lo, v) \subseteq Positions /\ l.pos[v] \in Covers(f, l, li, lo, v) /\ Uses(f, l, v) \subseteq Positions
<1>1. IsFunction(f) /\ v \in Values(f) /\ \A b \in Blocks(f) : \A i \in DOMAIN f.vals[b] : WellPlaced(f, b, i)
  BY DEF Ready, IsFunction
<1>2. \A w \in Values(f) : l.pos[w] \in Positions
  BY <1>1, HasPlace, PositionOf
<1>3. \A b \in Blocks(f) : l.first[b] \in Positions /\ l.last[b] \in Positions
  BY <1>1, EndPosition
<1>4. PICK b \in Blocks(f) : \E i \in DOMAIN f.vals[b] : f.vals[b][i] = v
  BY <1>1, HasPlace
<1>5. PICK i \in DOMAIN f.vals[b] : f.vals[b][i] = v
  BY <1>4
<1>6. BlockOf(f, v) = b
  BY <1>1, <1>5, Stands
<1>7. Writes(f, l, v) \subseteq Positions
  <2>1. CASE f.op[v] = "select"
    <3>1. PICK c \in 1 .. i - 1 : f.vals[b][c] = f.args[v][1]
      <4>1. WellPlaced(f, b, i)
        BY ONLY <1>1, <1>5
      <4>2. f.op[f.vals[b][i]] = "select"
        BY ONLY <1>5, <2>1
      <4>3. \E c \in 1 .. i - 1 : f.vals[b][c] = f.args[f.vals[b][i]][1]
        BY ONLY <4>1, <4>2 DEF WellPlaced
      <4> QED BY ONLY <1>5, <4>3
    <3>2. c \in DOMAIN f.vals[b]
      BY <1>1, <1>5, FunctionFacts, GraphTypes
    <3>3. f.args[v][1] \in Values(f)
      BY <1>1, <3>1, <3>2, Stands
    <3> QED BY <1>1, <1>2, <2>1, <3>3 DEF Writes
  <2>2. CASE f.op[v] = "phi"
    <3>1. \A p \in ToSet(f.preds[b]) : p \in Blocks(f)
      BY <1>1, FunctionFacts, GraphTypes, InSequence
    <3>2. Writes(f, l, v) = {l.pos[v]} \cup {l.last[p] : p \in ToSet(f.preds[b])}
      BY <1>6, <2>2 DEF Writes
    <3> QED BY <1>1, <1>2, <1>3, <3>1, <3>2
  <2>3. CASE f.op[v] # "select" /\ f.op[v] # "phi"
    BY <1>1, <1>2, <2>3 DEF Writes
  <2> QED BY <2>1, <2>2, <2>3
<1>8. Uses(f, l, v) \subseteq Positions
  BY <1>2, <1>3 DEF Uses
<1>9. l.pos[v] \in Writes(f, l, v)
  BY DEF Writes
<1> QED BY <1>3, <1>7, <1>8, <1>9 DEF Covers

\* What the analysis says, from the linearisation and the liveness.
IsAnalysis(f, l, li, lo, a) ==
  /\ IsRange(f, l, li, lo, a)
  /\ a.at = l.at /\ a.phi = {v \in Tracked(f) : f.op[v] = "phi"} /\ a.twoAddr = {} /\ a.wide = {}
  /\ a.across = {v \in Tracked(f) : \E c \in Calls(f) :
                   v \in LiveAcross(f, lo, c) /\ a.start[v] < l.pos[c] /\ l.pos[c] < a.end[v]}
  /\ \A v \in Ids : a.defReg[v] = IF v \in Tracked(f) /\ f.op[v] = "arg" THEN f.place[v] ELSE NoReg
  /\ a \in Analysis

\* The least and the greatest of a set of positions.
LEMMA PositionEnds ==
  ASSUME NEW s, s \subseteq Positions, s # {}
  PROVE  Min(s) \in s /\ Max(s) \in s /\ \A p \in s : Min(s) <= p /\ p <= Max(s)
<1>0. NoUse \in Nat
  BY SMT DEF NoUse
<1>1. s \subseteq Nat /\ s \subseteq 0 .. NoUse
  BY <1>0, PositionsAssumption
<1> QED BY <1>0, <1>1, MinFacts, MaxFacts

\* The analysis of a function that is ready.
LEMMA AnalyseGives ==
  ASSUME NEW f, Ready(f), NEW l, Fits(f, l), NEW li, NEW lo
  PROVE  IsAnalysis(f, l, li, lo, Analyse(f, l, li, lo).an)
<1> DEFINE tracked == Tracked(f)
           covers  == [v \in tracked |-> Covers(f, l, li, lo, v)]
           start   == [v \in Ids |-> IF v \in tracked THEN Min(covers[v]) ELSE 0]
           end     == [v \in Ids |-> IF v \in tracked THEN Max(covers[v]) ELSE 0]
           sf      == [c \in Calls(f) |-> LiveAcross(f, lo, c)]
           across  == {v \in tracked : \E c \in Calls(f) :
                         v \in sf[c] /\ start[v] < l.pos[c] /\ l.pos[c] < end[v]}
           uses    == [v \in Ids |-> IF v \in tracked THEN Uses(f, l, v) ELSE {}]
           class   == [v \in Ids |-> "int"]
           defReg  == [v \in Ids |-> IF v \in tracked /\ f.op[v] = "arg" THEN f.place[v] ELSE NoReg]
           a       == Analyse(f, l, li, lo).an
<1>1. /\ a.tracked = tracked /\ a.start = start /\ a.end = end /\ a.at = l.at /\ a.uses = uses
      /\ a.phi = {v \in tracked : f.op[v] = "phi"} /\ a.twoAddr = {} /\ a.wide = {} /\ a.across = across
      /\ a.class = class /\ a.defReg = defReg
  BY DEF Analyse
<1>2. a = [tracked |-> a.tracked, start |-> a.start, end |-> a.end, at |-> a.at, uses |-> a.uses, phi |-> a.phi,
           twoAddr |-> a.twoAddr, class |-> a.class, wide |-> a.wide, across |-> a.across, defReg |-> a.defReg]
  BY DEF Analyse
<1> HIDE DEF a
<1>3. IsFunction(f) /\ tracked \subseteq Ids /\ 1 \in Blocks(f)
  BY FunctionFacts DEF Ready
<1>4. ASSUME NEW v \in tracked
      PROVE  /\ Covers(f, l, li, lo, v) \subseteq Positions /\ Uses(f, l, v) \subseteq Positions
             /\ start[v] \in Covers(f, l, li, lo, v) /\ end[v] \in Covers(f, l, li, lo, v)
             /\ \A p \in Covers(f, l, li, lo, v) : start[v] <= p /\ p <= end[v]
  <2> DEFINE s == Covers(f, l, li, lo, v)
  <2>1. s \subseteq Positions /\ s # {} /\ Uses(f, l, v) \subseteq Positions
    BY CoversPositions
  <2>2. start[v] = Min(s) /\ end[v] = Max(s)
    BY <1>3
  <2> HIDE DEF s, start, end
  <2>3. start[v] \in s /\ end[v] \in s /\ \A p \in s : start[v] <= p /\ p <= end[v]
    BY <2>1, <2>2, PositionEnds
  <2> QED BY <2>1, <2>3 DEF s
<1>5. 0 \in Positions
  <2>1. l.last[1] \in Nat
    BY <1>3, EndPosition
  <2>2. 0 .. l.last[1] \subseteq Positions
    BY <1>3 DEF Fits
  <2> QED BY <2>1, <2>2
<1>6. start \in [Ids -> Positions] /\ end \in [Ids -> Positions]
  <2>1. \A v \in Ids : v \notin tracked => start[v] = 0 /\ end[v] = 0
    OBVIOUS
  <2>2. DOMAIN start = Ids /\ DOMAIN end = Ids /\ start = [v \in Ids |-> start[v]] /\ end = [v \in Ids |-> end[v]]
    OBVIOUS
  <2> HIDE DEF start, end, tracked
  <2>3. \A v \in Ids : start[v] \in Positions /\ end[v] \in Positions
    BY <1>4, <1>5, <2>1
  <2> QED BY <2>2, <2>3
<1>7. uses \in [Ids -> SUBSET Positions]
  <2> HIDE DEF start, end
  <2> QED BY <1>4
<1>8. class \in [Ids -> Classes] /\ defReg \in [Ids -> Regs \cup {NoReg}]
  <2>1. f.place \in [Ids -> Regs \cup {NoReg}]
    BY <1>3 DEF IsFunction, Functions
  <2> QED BY <2>1, MachineAssumption
<1>9. l.at \in [Positions -> Ids \cup {NoId}]
  BY DEF Fits, IsLayout
<1>10. across \subseteq Ids
  BY <1>3
<1>11. across = {v \in tracked : \E c \in Calls(f) : v \in LiveAcross(f, lo, c) /\ start[v] < l.pos[c] /\ l.pos[c] < end[v]}
  <2>1. \A c \in Calls(f) : sf[c] = LiveAcross(f, lo, c)
    OBVIOUS
  <2> HIDE DEF sf, start, end
  <2> QED BY <2>1
<1>12. \A v \in Ids : defReg[v] = IF v \in tracked /\ f.op[v] = "arg" THEN f.place[v] ELSE NoReg
  OBVIOUS
<1> HIDE DEF start, end, uses, class, defReg, across
<1>13. a \in Analysis
  <2>1. /\ a.tracked \in SUBSET Ids /\ a.start \in [Ids -> Positions] /\ a.end \in [Ids -> Positions]
        /\ a.at \in [Positions -> Ids \cup {NoId}] /\ a.uses \in [Ids -> SUBSET Positions] /\ a.phi \in SUBSET Ids
        /\ a.twoAddr \in SUBSET Ids /\ a.class \in [Ids -> Classes] /\ a.wide \in SUBSET Ids /\ a.across \in SUBSET Ids
        /\ a.defReg \in [Ids -> Regs \cup {NoReg}]
    BY <1>1, <1>3, <1>6, <1>7, <1>8, <1>9, <1>10
  <2> QED BY ONLY <1>2, <2>1 DEF Analysis
<1>14. IsRange(f, l, li, lo, a)
  BY <1>1, <1>4 DEF IsRange
<1>15. IsAnalysis(f, l, li, lo, a)
  BY <1>1, <1>11, <1>12, <1>13, <1>14 DEF IsAnalysis
<1> QED BY <1>15 DEF a

\* Where no value but the one that stands there starts: at a value that reads its
\* operands before it writes its result.
LEMMA StartsAlone ==
  ASSUME NEW f, Ready(f), NEW l, Fits(f, l), NEW li, NEW lo, NEW a, IsAnalysis(f, l, li, lo, a),
         \A b \in Blocks(f) : li[b] = LiveAtStart(f, b),
         NEW u \in Tracked(f), NEW v \in Tracked(f), u # v, a.start[u] = a.start[v], a.at[a.start[v]] = v, f.op[v] # "phi"
  PROVE  FALSE
<1> DEFINE p == a.start[v]
<1>1. IsFunction(f) /\ LiveAtStart(f, 1) = {} /\ u \in Values(f) /\ v \in Values(f)
      /\ \A b \in Blocks(f) : \A i \in DOMAIN f.vals[b] : WellPlaced(f, b, i)
  BY DEF Ready, IsFunction
<1>2. IsRange(f, l, li, lo, a) /\ a.at = l.at /\ v # NoId
  BY <1>1, FunctionFacts, IdsAssumption DEF IsAnalysis
<1>3. p \in Positions /\ p \in Covers(f, l, li, lo, u) /\ \A q \in Covers(f, l, li, lo, u) : p <= q
  BY <1>2 DEF IsRange
<1>4. l.pos[v] = p
  BY <1>2, <1>3 DEF Fits, IsLayout
<1>5. \A w \in Values(f) : l.pos[w] \in Nat /\ l.at[l.pos[w]] = w
  BY <1>1, HasPlace, PositionOf
<1>6. \A w \in Values(f) : l.pos[w] = l.pos[v] => w = v
  BY <1>1, <1>5
<1>7. \A b \in Blocks(f) : l.last[b] # l.pos[v]
  BY <1>1, EndPosition
<1>8. l.pos[u] \in Covers(f, l, li, lo, u)
  BY CoversPositions
<1>9. l.pos[v] < l.pos[u]
  <2>1. p <= l.pos[u] /\ l.pos[u] # l.pos[v]
    BY <1>1, <1>3, <1>6, <1>8
  <2> QED BY <1>1, <1>4, <1>5, <2>1
<1> HIDE DEF p
<1>10. p \notin {l.first[b] : b \in {c \in Blocks(f) : u \in li[c]}}
  <2> SUFFICES ASSUME NEW b \in Blocks(f), u \in li[b], p = l.first[b] PROVE FALSE
    OBVIOUS
  <2>1. l.pos[u] < l.first[b]
    BY <1>1, LiveAfter
  <2>2. l.first[b] \in Nat /\ l.pos[u] \in Nat /\ l.pos[v] \in Nat
    BY <1>1, <1>5, EndPosition
  <2>3. l.pos[v] = l.first[b]
    BY <1>4
  <2> QED BY <1>9, <2>1, <2>2, <2>3
<1>11. p \notin {l.last[b] : b \in {c \in Blocks(f) : u \in lo[c]}}
  BY <1>4, <1>7
<1>12. p \notin Uses(f, l, u)
  <2> SUFFICES ASSUME NEW w \in Values(f), u \in Reads(f, w), p = l.pos[w] PROVE FALSE
    BY <1>4, <1>7 DEF Uses
  <2>1. w = v
    BY <1>4, <1>6
  <2>2. l.pos[u] < l.pos[v]
    BY <1>1, <2>1, ReadsAfter
  <2>3. l.pos[u] \in Nat /\ l.pos[v] \in Nat
    BY <1>1, <1>5
  <2> QED BY <1>9, <2>2, <2>3
<1>13. p \notin Writes(f, l, u)
  <2>0. p # l.pos[u]
    BY <1>1, <1>4, <1>6
  <2>1. CASE f.op[u] = "select"
    <3>1. PICK b \in Blocks(f) : \E i \in DOMAIN f.vals[b] : f.vals[b][i] = u
      BY <1>1, HasPlace
    <3>2. PICK i \in DOMAIN f.vals[b] : f.vals[b][i] = u
      BY <3>1
    <3>a. WellPlaced(f, b, i) /\ IsGraph(f) /\ IsFunction(f)
      BY <1>1, FunctionFacts
    <3>3. PICK c \in 1 .. i - 1 : f.vals[b][c] = f.args[u][1] /\ f.op[f.args[u][1]] = "call"
      <4>1. f.op[f.vals[b][i]] = "select"
        BY ONLY <2>1, <3>2
      <4>2. \E c \in 1 .. i - 1 : f.vals[b][c] = f.args[f.vals[b][i]][1] /\ f.op[f.args[f.vals[b][i]][1]] = "call"
        BY ONLY <3>a, <4>1 DEF WellPlaced
      <4> QED BY ONLY <3>2, <4>2
    <3>4. c \in DOMAIN f.vals[b]
      <4>1. DOMAIN f.vals[b] = 1 .. Len(f.vals[b]) /\ Len(f.vals[b]) \in Nat
        BY <3>a, GraphTypes
      <4> QED BY <4>1
    <3>5. f.args[u][1] \in Values(f)
      BY <3>a, <3>3, <3>4, Stands
    <3>6. f.args[u][1] # v
      BY <3>3 DEF Tracked
    <3>7. p # l.pos[f.args[u][1]]
      BY <1>4, <1>6, <3>5, <3>6
    <3> QED BY <2>0, <2>1, <3>7 DEF Writes
  <2>2. CASE f.op[u] = "phi"
    <3>1. PICK b \in Blocks(f) : \E i \in DOMAIN f.vals[b] : f.vals[b][i] = u
      BY <1>1, HasPlace
    <3>2. BlockOf(f, u) = b
      BY <1>1, <3>1, Stands
    <3>3. \A c \in ToSet(f.preds[b]) : c \in Blocks(f)
      BY <1>1, FunctionFacts, GraphTypes, InSequence
    <3>4. Writes(f, l, u) = {l.pos[u]} \cup {l.last[c] : c \in ToSet(f.preds[b])}
      BY <2>2, <3>2 DEF Writes
    <3> QED BY <1>4, <1>7, <2>0, <3>3, <3>4
  <2>3. CASE f.op[u] # "select" /\ f.op[u] # "phi"
    BY <2>0, <2>3 DEF Writes
  <2> QED BY <2>1, <2>2, <2>3
<1> QED BY <1>3, <1>10, <1>11, <1>12, <1>13 DEF Covers

\* The analysis is what the scan relies on.
LEMMA AnalysisWellFormed ==
  ASSUME NEW f, Ready(f), NEW l, Fits(f, l), NEW li, NEW lo, NEW a, IsAnalysis(f, l, li, lo, a),
         \A b \in Blocks(f) : li[b] = LiveAtStart(f, b), a.tracked # {}
  PROVE  WellFormed(a)
<1>1. a.tracked = Tracked(f) /\ a \in Analysis /\ a.phi = {v \in Tracked(f) : f.op[v] = "phi"}
  BY DEF IsAnalysis, IsRange
<1>2. \A v \in Tracked(f) : a.start[v] <= a.end[v]
  BY DEF IsAnalysis, IsRange
<1>3. ASSUME NEW u \in Tracked(f), NEW v \in Tracked(f), u # v, a.start[u] = a.start[v], a.at[a.start[v]] = v, v \notin a.phi
      PROVE  FALSE
  BY <1>1, <1>3, StartsAlone
<1> QED BY <1>1, <1>2, <1>3 DEF WellFormed

-----------------------------------------------------------------------------
(* The allocator up to the scan *)

\* The function once its critical edges are split, laid out.
Shaped == Ready(fn) /\ SplitFrom(fn, src) /\ Fits(fn, lay) /\ order = lay.order

\* The analysis, made from exact sets.
AnalysedAs ==
  /\ IsAnalysis(fn, lay, liveIn, liveOut, an)
  /\ \A b \in Blocks(fn) : liveIn[b] = LiveAtStart(fn, b) /\ liveOut[b] = LiveAtEnd(fn, b)
  /\ \A c \in Calls(fn) : safe[c] = LiveAcross(fn, liveOut, c)

AllocIInv ==
  /\ Compilable(src)
  /\ phase # "split" => Shaped
  /\ phase = "liveness" => LivenessIInv /\ Wanted
  /\ phase \notin {"split", "liveness"} => AnalysedAs
  /\ phase = "precolour" => an.tracked # {}

\* SplitCriticalEdges and Linearise make what the loop of liveness starts from.
LEMMA SplitIInv == AllocIInv /\ Split => AllocIInv'
<1> SUFFICES ASSUME AllocIInv, Split PROVE AllocIInv'
  OBVIOUS
<1> DEFINE f == fn'
           l == lay'
<1>1. f = SplitCriticalEdges(src) /\ l = Linearise(f) /\ order' = l.order /\ src' = src /\ phase' = "liveness"
  BY DEF Split
<1>2. Ready(f) /\ SplitFrom(f, src)
  BY <1>1, SplitReady DEF AllocIInv
<1>3. IsLayout(f, l)
  BY <1>1, <1>2, LineariseLaysOut DEF Ready
<1>4. Fits(f, l)
  BY <1>1, <1>3 DEF AllocIInv, Compilable, Fits
<1>5. Shaped'
  BY <1>1, <1>2, <1>4 DEF Shaped
<1>6. Compilable(src)'
  BY <1>1 DEF AllocIInv
<1>7. LivenessInit'
  <2>1. FlowGraph(f)
    BY <1>2, FunctionFacts DEF Ready
  <2>2. IsOrder(f, order')
    BY <1>1, <1>3 DEF IsLayout
  <2>3. order' \in Seq(Blocks(f)) /\ ToSet(order') = Blocks(f)
    BY <2>2 DEF IsOrder, ToSet
  <2>4. InitLiveness'
    BY DEF Split, InitLiveness
  <2> QED BY <2>1, <2>3, <2>4 DEF LivenessInit
<1>8. LivenessIInv'
  BY <1>7, LivenessInitIInv, PTL
<1>9. Wanted'
  BY <1>7 DEF LivenessInit, InitLiveness, Wanted
<1> QED BY <1>1, <1>5, <1>6, <1>8, <1>9 DEF AllocIInv

\* The loop of liveness.
LEMMA LivenessKeepsIInv == AllocIInv /\ Liveness => AllocIInv'
<1> SUFFICES ASSUME AllocIInv, Liveness PROVE AllocIInv'
  OBVIOUS
<1>1. phase = "liveness" /\ phase' = phase /\ LivenessNext /\ src' = src /\ lay' = lay /\ fn' = fn /\ order' = order
  BY DEF Liveness, LivenessNext, VisitBlock, EndRound
<1>2. Shaped' /\ Compilable(src)'
  BY <1>1 DEF AllocIInv, Shaped
<1>3. LivenessIInv' /\ Wanted'
  BY <1>1, LivenessStepIInv, WantedStep DEF AllocIInv
<1> QED BY <1>1, <1>2, <1>3 DEF AllocIInv

\* The ranges and the safepoints.
LEMMA AnalysedIInv == AllocIInv /\ Analysed => AllocIInv'
<1> SUFFICES ASSUME AllocIInv, Analysed PROVE AllocIInv'
  OBVIOUS
<1>1. /\ phase = "liveness" /\ settled /\ src' = src /\ fn' = fn /\ order' = order /\ lay' = lay
      /\ liveIn' = liveIn /\ liveOut' = liveOut
      /\ an' = Analyse(fn, lay, liveIn, liveOut).an /\ safe' = Analyse(fn, lay, liveIn, liveOut).safe
      /\ phase' = IF an'.tracked = {} THEN "scanned" ELSE "precolour"
  BY DEF Analysed, liveness
<1>2. Shaped' /\ Compilable(src)'
  BY <1>1 DEF AllocIInv, Shaped
<1>3. \A b \in Blocks(fn) : liveIn[b] = LiveAtStart(fn, b) /\ liveOut[b] = LiveAtEnd(fn, b)
  BY <1>1, StopsClosed, ExactWhenClosed DEF AllocIInv, LivenessExact
<1>4. IsAnalysis(fn, lay, liveIn, liveOut, an')
  BY <1>1, AnalyseGives DEF AllocIInv, Shaped
<1>5. \A c \in Calls(fn) : safe'[c] = LiveAcross(fn, liveOut, c)
  BY <1>1 DEF Analyse
<1>6. AnalysedAs'
  BY <1>1, <1>3, <1>4, <1>5 DEF AnalysedAs
<1>7. phase' = "precolour" => an'.tracked # {}
  BY <1>1
<1> QED BY <1>1, <1>2, <1>6, <1>7 DEF AllocIInv

\* Everything after it leaves the function and the analysis as they are.
LEMMA KeepsIInv ==
  ASSUME AllocIInv, UNCHANGED <<src, fn, order, lay, liveIn, liveOut, an, safe>>, phase' # "precolour" \/ phase' = phase,
         phase \in {"split", "liveness"} \/ phase' \in {"split", "liveness"} => phase' = phase /\ UNCHANGED livenessVars
  PROVE  AllocIInv'
<1>1. Compilable(src)' /\ (phase' # "split" => Shaped')
  BY DEF AllocIInv, Shaped
<1>2. phase' = "liveness" => LivenessIInv' /\ Wanted'
  BY LivenessStepIInv, WantedStep DEF AllocIInv
<1>3. phase' \notin {"split", "liveness"} => AnalysedAs'
  BY DEF AllocIInv, AnalysedAs
<1> QED BY <1>1, <1>2, <1>3 DEF AllocIInv

\* The whole of it.
LEMMA AllocStepIInv == AllocIInv /\ [VerifiedNext]_verifiedVars => AllocIInv'
<1> SUFFICES ASSUME AllocIInv, [VerifiedNext]_verifiedVars PROVE AllocIInv'
  OBVIOUS
<1> USE DEF liveness, scanning, alloc, runVars, livenessVars
<1>1. CASE Split
  BY <1>1, SplitIInv
<1>2. CASE Liveness
  BY <1>2, LivenessKeepsIInv
<1>3. CASE Analysed
  BY <1>3, AnalysedIInv
<1>4. CASE ScanStep
  BY <1>4, KeepsIInv DEF ScanStep, ScanNext, Precolour, Refuse, Visit
<1>5. CASE Slots
  BY <1>5, KeepsIInv DEF Slots
<1>6. CASE Enter
  BY <1>6, KeepsIInv DEF Enter
<1>7. CASE Compute
  BY <1>7, KeepsIInv DEF Compute
<1>8. CASE \E i \in DOMAIN fn.succs[pc[1]] : TakeEdge(i)
  BY <1>8, KeepsIInv DEF TakeEdge
<1>9. CASE VerifyAllocation
  BY <1>9, KeepsIInv DEF VerifyAllocation, scanVars
<1>10. CASE UNCHANGED verifiedVars
  BY <1>10, KeepsIInv DEF verifiedVars, vars
<1> QED BY <1>1, <1>2, <1>3, <1>4, <1>5, <1>6, <1>7, <1>8, <1>9, <1>10 DEF VerifiedNext, Next

\* What the allocator knows so far holds in every state.
LEMMA AllocInvariance == VerifiedSpec => []AllocIInv
<1>1. VerifiedInit => AllocIInv
  BY DEF VerifiedInit, InitAlloc, AllocIInv
<1> QED BY <1>1, AllocStepIInv, PTL DEF VerifiedSpec

\* For every function the compiler may be given, what the analysis hands the scan
\* is what the scan relies on (src/ssa/regalloc.go, ranges): no interval is empty,
\* and none starts where another value is written that reads its operands first.
THEOREM AnalysisHandsOver == VerifiedSpec => []HandsOverWellFormed
<1>1. AllocIInv => HandsOverWellFormed
  BY AnalysisWellFormed DEF AllocIInv, Shaped, AnalysedAs, HandsOverWellFormed
<1> QED BY <1>1, AllocInvariance, PTL

-----------------------------------------------------------------------------
(* What the scan leaves to the stages after it *)

\* A value the scan has visited has a home.
AllPlaced == \A v \in Visited : home[v] # None

\* A value that fits no register, or is live across a call, is never in one.
AcrossFramed == \A v \in an.wide \cup an.across : home[v] \notin Regs

\* What the convention names is fixed.
FixedAsNamed == \A v \in an.tracked : fixed[v] = an.defReg[v]

\* A value whose register the convention fixes leaves it only for one whose register
\* it does not fix, and that starts while the first is still to end.
Displaced == \A v \in Visited :
               home[v] = Frame /\ fixed[v] # NoReg /\ v \notin an.wide \cup an.across =>
                 \E x \in Visited : fixed[x] = NoReg /\ an.start[x] <= an.end[v]

PlacedIInv == AllPlaced /\ AcrossFramed /\ Displaced /\ (phase \in {"scan", "scanned"} => FixedAsNamed)

\* A visit that sends the value to the frame, ...
LEMMA ToFramePlaced ==
  ASSUME ScanIInv, PlacedIInv, NEW v \in Ids, Visit(v), ToFrame(v), v \in an.wide \cup an.across \/ fixed[v] = NoReg
  PROVE  AllPlaced' /\ AcrossFramed' /\ Displaced'
<1>1. /\ an' = an /\ fixed' = fixed /\ todo' = todo \ {v} /\ v \in an.tracked /\ v \in todo /\ an.tracked \subseteq Ids
      /\ Frame \notin Regs /\ Frame # None /\ home \in [Ids -> Allocatable \cup {Frame, None}] /\ todo \subseteq an.tracked
      /\ an.wide \cup an.across \subseteq Ids
  BY VisitKeeps, NextFacts, ScanParts, FrameAssumption DEF ScanIInv, ScanTypeOK, WellFormed, Analysis
<1>2. home'[v] = Frame /\ \A u \in Ids \ {v} : home'[u] = home[u]
  BY <1>1 DEF ToFrame
<1>3. Visited' = Visited \cup {v} /\ Visited \subseteq Ids
  BY <1>1 DEF Visited
<1>4. AllPlaced'
  BY <1>1, <1>2, <1>3 DEF PlacedIInv, AllPlaced
<1>5. AcrossFramed'
  BY <1>1, <1>2 DEF PlacedIInv, AcrossFramed
<1>6. Displaced'
  <2> SUFFICES ASSUME NEW u \in Visited', home'[u] = Frame, fixed[u] # NoReg, u \notin an.wide \cup an.across
               PROVE  \E x \in Visited' : fixed[x] = NoReg /\ an.start[x] <= an.end[u]
    BY <1>1 DEF Displaced
  <2>1. u # v
    OBVIOUS
  <2>2. u \in Visited /\ home[u] = Frame
    BY <1>2, <1>3, <2>1
  <2> QED BY <1>3, <2>2 DEF PlacedIInv, Displaced
<1> QED BY <1>4, <1>5, <1>6

\* ... and one that gives it a register.
LEMMA TakePlaced ==
  ASSUME ScanIInv, PlacedIInv, NEW v \in Ids, Visit(v), NEW r \in Allocatable, Take(v, r), v \notin an.wide \cup an.across,
         fixed[v] = NoReg \/ OwnerKept(v)[r] = NoId
  PROVE  AllPlaced' /\ AcrossFramed' /\ Displaced'
<1> DEFINE w == OwnerKept(v)[r]
<1>1. /\ an' = an /\ fixed' = fixed /\ todo' = todo \ {v} /\ v \in an.tracked /\ v \in todo /\ an.tracked \subseteq Ids
      /\ Frame \notin Regs /\ Frame # None /\ None \notin Regs /\ home \in [Ids -> Allocatable \cup {Frame, None}] /\ todo \subseteq an.tracked
      /\ an.wide \cup an.across \subseteq Ids /\ r \in Regs /\ r # Frame /\ r # None /\ NoId \notin Ids
  BY VisitKeeps, NextFacts, ScanParts, FrameAssumption, RegsAssumption, IdsAssumption DEF ScanIInv, ScanTypeOK, WellFormed, Analysis
<1>2. home'[v] = r /\ \A u \in Ids \ {v} : home'[u] = IF u = w THEN Frame ELSE home[u]
  BY <1>1 DEF Take
<1>3. Visited' = Visited \cup {v} /\ Visited \subseteq Ids
  BY <1>1 DEF Visited
<1>4. AllPlaced'
  BY <1>1, <1>2, <1>3 DEF PlacedIInv, AllPlaced
<1>5. AcrossFramed'
  BY <1>1, <1>2 DEF PlacedIInv, AcrossFramed
<1>6. Displaced'
  <2> SUFFICES ASSUME NEW u \in Visited', home'[u] = Frame, fixed[u] # NoReg, u \notin an.wide \cup an.across
               PROVE  \E x \in Visited' : fixed[x] = NoReg /\ an.start[x] <= an.end[u]
    BY <1>1 DEF Displaced
  <2>1. u # v /\ u \in Visited /\ u \in Ids
    BY <1>1, <1>2, <1>3
  <2>2. CASE u # w
    BY <1>2, <1>3, <2>1, <2>2 DEF PlacedIInv, Displaced
  <2>3. CASE u = w
    <3>1. w # NoId
      BY <1>1, <2>1, <2>3
    <3>2. w \in Kept(v)
      BY <1>1, <3>1, ExpireFacts DEF Visit
    <3>3. ~(an.end[w] < an.start[v]) /\ an.end[w] \in Int /\ an.start[v] \in Int
      BY <2>1, <2>3, <3>2, ScanParts DEF Kept, Expired, ScanIInv
    <3>4. an.start[v] <= an.end[w]
      BY <3>3
    <3> QED BY <1>3, <2>3, <3>1, <3>4
  <2> QED BY <2>2, <2>3
<1> QED BY <1>4, <1>5, <1>6

\* What a visit does.
LEMMA VisitPlaced ==
  ASSUME ScanIInv, PlacedIInv, NEW v \in Ids, Visit(v)
  PROVE  PlacedIInv'
<1>1. /\ an' = an /\ fixed' = fixed /\ phase = "scan" /\ ScanTypeOK /\ an.tracked \subseteq Ids /\ IsNext(v)
      /\ NoReg \notin Regs /\ NoReg \notin Allocatable
  BY VisitKeeps, ScanParts, RegsAssumption DEF ScanIInv, Visit
<1>2. phase' \in {"scan", "scanned"} => FixedAsNamed'
  BY <1>1 DEF PlacedIInv, FixedAsNamed
<1>3. CASE VisitFrame(v)
  BY <1>2, <1>3, ToFramePlaced DEF VisitFrame, PlacedIInv
<1>4. CASE VisitFixed(v)
  <2>1. fixed[v] \in Allocatable /\ Take(v, fixed[v]) /\ v \notin an.wide \cup an.across
    BY <1>1, <1>4 DEF VisitFixed, ScanTypeOK
  <2>2. OwnerKept(v)[fixed[v]] = NoId
    BY <1>4, FixedRegisterFree DEF VisitFixed
  <2> QED BY <1>2, <2>1, <2>2, TakePlaced DEF PlacedIInv
<1>5. CASE VisitFree(v)
  <2>1. PICK r \in Free(v) : Take(v, r)
    BY <1>5 DEF VisitFree
  <2>2. r \in Allocatable /\ fixed[v] = NoReg /\ v \notin an.wide \cup an.across
    BY <1>5, <2>1 DEF VisitFree, Free
  <2> QED BY <1>2, <2>1, <2>2, TakePlaced DEF PlacedIInv
<1>6. CASE VisitEvict(v)
  <2>1. PICK c \in Candidates(v) : Take(v, home[c])
    BY <1>6 DEF VisitEvict
  <2>2. c \in active /\ home[c] \in Regs /\ fixed[v] = NoReg /\ v \notin an.wide \cup an.across
    BY <1>6, <2>1 DEF VisitEvict, Candidates, Kept
  <2>3. c \in Ids
    BY <1>1, <2>2, ScanParts DEF ScanIInv, ScanTypeOK
  <2>4. home[c] \in Allocatable
    BY <1>1, <2>2, <2>3, FrameAssumption DEF ScanTypeOK
  <2> QED BY <1>2, <2>1, <2>2, <2>4, TakePlaced DEF PlacedIInv
<1>7. CASE VisitSpill(v)
  BY <1>2, <1>7, ToFramePlaced DEF VisitSpill, PlacedIInv
<1> QED BY <1>3, <1>4, <1>5, <1>6, <1>7 DEF Visit

\* Pre-colouring fixes what the convention names.
LEMMA PrecolourPlaced == ScanIInv /\ PlacedIInv /\ Precolour => PlacedIInv'
<1> SUFFICES ASSUME ScanIInv, PlacedIInv, Precolour PROVE PlacedIInv'
  OBVIOUS
<1>1. /\ an' = an /\ home' = home /\ todo' = todo /\ an.tracked \subseteq Ids /\ phase' = "scan" /\ Visited = {}
  BY ScanParts DEF Precolour, ScanIInv, Visited
<1>2. Visited' = {}
  BY <1>1 DEF Visited
<1>3. FixedAsNamed'
  BY <1>1 DEF Precolour, FixedAsNamed
<1> QED BY <1>1, <1>2, <1>3 DEF PlacedIInv, AllPlaced, AcrossFramed, Displaced

LEMMA ScanStepPlaced == ScanIInv /\ PlacedIInv /\ ScanNext => ScanIInv' /\ PlacedIInv'
<1> SUFFICES ASSUME ScanIInv, PlacedIInv, ScanNext PROVE ScanIInv' /\ PlacedIInv'
  OBVIOUS
<1>1. CASE Precolour
  BY <1>1, PrecolourIInv, PrecolourPlaced
<1>2. CASE Refuse
  <2>1. PlacedIInv'
    BY <1>2 DEF Refuse, PlacedIInv, AllPlaced, AcrossFramed, Displaced, Visited
  <2> QED BY <1>2, <2>1, RefuseIInv
<1>3. CASE \E v \in Ids : Visit(v)
  BY <1>3, VisitIInv, VisitPlaced
<1> QED BY <1>1, <1>2, <1>3 DEF ScanNext

-----------------------------------------------------------------------------
(* The scan as a stage of the allocator *)

\* What the scan leaves.
Scanned == /\ todo = {} /\ home \in [Ids -> Allocatable \cup {Frame, None}]
           /\ NoSharedRegister /\ FixedHome /\ AllPlaced /\ AcrossFramed /\ Displaced /\ FixedAsNamed

HomesIInv == /\ AllocIInv
             /\ phase \in {"precolour", "scan"} => ScanIInv /\ PlacedIInv
             /\ phase \in {"scanned", "allocated", "run", "failed"} => Scanned

\* With no value there is nothing to scan.
LEMMA AnalysedHomes == HomesIInv /\ Analysed => HomesIInv'
<1> SUFFICES ASSUME HomesIInv, Analysed PROVE HomesIInv'
  OBVIOUS
<1>1. AllocIInv'
  BY AnalysedIInv DEF HomesIInv
<1>2. /\ todo' = an'.tracked /\ home' = [v \in Ids |-> None] /\ fixed' = [v \in Ids |-> NoReg] /\ owner' = [r \in Regs |-> NoId] /\ active' = {}
      /\ phase' = IF an'.tracked = {} THEN "scanned" ELSE "precolour"
  BY DEF Analysed
<1>3. CASE an'.tracked # {}
  <2>1. phase' = "precolour" /\ WellFormed(an')
    BY <1>1, <1>2, <1>3, AnalysisWellFormed DEF AllocIInv, Shaped, AnalysedAs
  <2>2. ScanInit'
    BY <1>2, <2>1 DEF ScanInit, InitScan
  <2>3. ScanIInv'
    BY <2>2, ScanInitIInv, PTL
  <2>4. PlacedIInv'
    <3>1. Visited' = {} /\ an'.wide \cup an'.across \subseteq Ids
      BY <1>2, <2>1 DEF Visited, WellFormed, Analysis
    <3> QED BY <1>2, <2>1, <3>1, FrameAssumption DEF PlacedIInv, AllPlaced, AcrossFramed, Displaced
  <2> QED BY <1>1, <2>1, <2>3, <2>4 DEF HomesIInv
<1>4. CASE an'.tracked = {}
  <2>1. phase' = "scanned" /\ todo' = {} /\ Visited' = {}
    BY <1>2, <1>4 DEF Visited
  <2>2. an'.wide \cup an'.across \subseteq Ids
    BY <1>1, <2>1 DEF AllocIInv, AnalysedAs, IsAnalysis, Analysis
  <2>3. Scanned'
    BY <1>2, <1>4, <2>1, <2>2, FrameAssumption
    DEF Scanned, NoSharedRegister, FixedHome, AllPlaced, AcrossFramed, Displaced, FixedAsNamed
  <2> QED BY <1>1, <2>1, <2>3 DEF HomesIInv
<1> QED BY <1>3, <1>4

\* The scan.
LEMMA ScanHomes == HomesIInv /\ ScanStep => HomesIInv'
<1> SUFFICES ASSUME HomesIInv, ScanStep PROVE HomesIInv'
  OBVIOUS
<1>1. phase \in {"precolour", "scan"} /\ phase' \in {"scan", "scanned", "refused"}
      /\ UNCHANGED <<src, fn, order, lay, liveIn, liveOut, an, safe>>
  BY DEF ScanStep, ScanNext, Precolour, Refuse, Visit, liveness
<1>2. AllocIInv'
  BY <1>1, KeepsIInv DEF HomesIInv
<1>3. ScanIInv' /\ PlacedIInv'
  BY <1>1, ScanStepPlaced DEF HomesIInv, ScanStep
<1>4. phase' = "scanned" => todo' = {}
  BY <1>1 DEF ScanStep, ScanNext, Precolour, Refuse, Visit
<1>5. phase' = "scanned" => Scanned'
  BY <1>3, <1>4 DEF Scanned, ScanIInv, ScanTypeOK, PlacedIInv
<1> QED BY <1>1, <1>2, <1>3, <1>5 DEF HomesIInv

\* No other step touches what the scan reads or writes.
LEMMA HomesKept ==
  ASSUME HomesIInv, AllocIInv', UNCHANGED scanning,
         phase' = phase \/ (phase \in {"scanned", "allocated"} /\ phase' \in {"allocated", "run", "failed"})
  PROVE  HomesIInv'
<1>1. UNCHANGED <<an, todo, home, fixed, owner, active>>
  BY DEF scanning
<1>2. phase \in {"scanned", "allocated", "run", "failed"} => Scanned'
  BY <1>1 DEF HomesIInv, Scanned, NoSharedRegister, Conflicts, Reaches, FreesAt, FixedHome, AllPlaced, AcrossFramed, Displaced, FixedAsNamed, Visited
<1>3. phase \in {"precolour", "scan"} => phase' = phase /\ UNCHANGED scanVars
  BY <1>1 DEF scanVars
<1>4. phase \in {"precolour", "scan"} => ScanIInv'
  BY <1>3, ScanStutterIInv DEF HomesIInv
<1>5. phase \in {"precolour", "scan"} => PlacedIInv'
  BY <1>1, <1>3 DEF HomesIInv, PlacedIInv, AllPlaced, AcrossFramed, Displaced, FixedAsNamed, Visited
<1>6. phase' \in {"precolour", "scan"} => phase \in {"precolour", "scan"}
  OBVIOUS
<1>7. phase' \in {"scanned", "allocated", "run", "failed"} => phase \in {"scanned", "allocated", "run", "failed"}
  OBVIOUS
<1> QED BY <1>2, <1>4, <1>5, <1>6, <1>7 DEF HomesIInv

LEMMA HomesStep == HomesIInv /\ [VerifiedNext]_verifiedVars => HomesIInv'
<1> SUFFICES ASSUME HomesIInv, [VerifiedNext]_verifiedVars PROVE HomesIInv'
  OBVIOUS
<1>0. AllocIInv'
  BY AllocStepIInv DEF HomesIInv
<1>1. CASE Split
  BY <1>0, <1>1 DEF Split, HomesIInv
<1>2. CASE Liveness
  BY <1>0, <1>2, HomesKept DEF Liveness
<1>3. CASE Analysed
  BY <1>3, AnalysedHomes
<1>4. CASE ScanStep
  BY <1>4, ScanHomes
<1>5. CASE Slots
  BY <1>0, <1>5, HomesKept DEF Slots
<1>6. CASE Enter
  BY <1>0, <1>6, HomesKept DEF Enter
<1>7. CASE Compute
  BY <1>0, <1>7, HomesKept DEF Compute
<1>8. CASE \E i \in DOMAIN fn.succs[pc[1]] : TakeEdge(i)
  BY <1>0, <1>8, HomesKept DEF TakeEdge
<1>9. CASE VerifyAllocation
  BY <1>0, <1>9, HomesKept DEF VerifyAllocation, scanVars, scanning
<1>10. CASE UNCHANGED verifiedVars
  BY <1>0, <1>10, HomesKept DEF verifiedVars, vars
<1> QED BY <1>1, <1>2, <1>3, <1>4, <1>5, <1>6, <1>7, <1>8, <1>9, <1>10 DEF VerifiedNext, Next

LEMMA HomesInvariance == VerifiedSpec => []HomesIInv
<1>1. VerifiedInit => HomesIInv
  BY DEF VerifiedInit, InitAlloc, AllocIInv, HomesIInv
<1> QED BY <1>1, HomesStep, PTL DEF VerifiedSpec
=============================================================================
