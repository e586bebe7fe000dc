----------------------------- MODULE LinearScan -----------------------------
(***************************************************************************)
(* The linear scan of the register allocator (src/ssa/regalloc.go, scan,   *)
(* with freesAt, conflicts, overlaps and nextUse).                         *)
(*                                                                         *)
(* The input is an analysis of one function: a live interval and the use   *)
(* positions of every value, the registers the calling convention fixes,   *)
(* and which values cannot be in a register at all.  The scan visits the   *)
(* values by the start of their interval; one action is one visit: expire  *)
(* the intervals that ended, then place the value.                         *)
(*                                                                         *)
(* The module is written for proofs: the analysis is an arbitrary record   *)
(* that satisfies WellFormed, which RegAnalysis establishes for the        *)
(* functions the compiler builds.                                          *)
(***************************************************************************)
EXTENDS RegAnalysis

CONSTANTS Regs,         \* register numbers
          Classes,      \* register classes
          ClassOf,      \* the class of each register
          Allocatable,  \* the registers that may hold a value
          Frame,        \* a home in the frame; the slot comes later
          None          \* no home yet

NoUse == 1073741824     \* 1 << 30, past the end of any function

ASSUME IdsAssumption   == Ids \subseteq Nat /\ NoId \notin Ids
ASSUME RegsAssumption  == /\ Regs \subseteq Nat
                          /\ NoReg \notin Regs
                          /\ Allocatable \subseteq Regs /\ IsFiniteSet(Allocatable)
                          /\ ClassOf \in [Regs -> Classes]
ASSUME PositionsAssumption == Positions \subseteq Nat /\ \A p \in Positions : p < NoUse

ASSUME FrameAssumption == Frame \notin Regs /\ None \notin Regs /\ Frame # None

\* What the scan is given.  at[p] is the value at position p and NoId at the
\* end of a block; phi and twoAddr hold the values whose definition does not
\* read its operands before it writes its result.
Analysis == [tracked : SUBSET Ids,
             start   : [Ids -> Positions],
             end     : [Ids -> Positions],
             at      : [Positions -> Ids \cup {NoId}],
             uses    : [Ids -> SUBSET Positions],
             phi     : SUBSET Ids,
             twoAddr : SUBSET Ids,
             class   : [Ids -> Classes],
             wide    : SUBSET Ids,
             across  : SUBSET Ids,
             defReg  : [Ids -> Regs \cup {NoReg}]]

VARIABLES an,       \* the analysis, which does not change
          phase,    \* "precolour", "scan", "scanned" or "refused"
          todo,     \* the values the scan has not visited
          home,     \* a register, Frame, or None
          fixed,    \* the register the convention fixes, once accepted
          owner,    \* the value that holds each register now
          active    \* the visited values that still hold their register

scanVars == <<an, phase, todo, home, fixed, owner, active>>

-----------------------------------------------------------------------------
(* Intervals *)

\* An interval that ends where v is defined is over when v writes its result.
FreesAt(p, v) == an.at[p] = v /\ v \notin an.phi /\ v \notin an.twoAddr

\* u starts no later than v and is not over when v is written.
Reaches(u, v) == /\ an.end[u] >= an.start[v]
                 /\ ~(an.end[u] = an.start[v] /\ FreesAt(an.start[v], v))

\* conflicts(u, v): the two values may not share a register.
Conflicts(u, v) == IF an.start[u] > an.start[v] THEN Reaches(v, u) ELSE Reaches(u, v)

\* The first use at or after p.
NextUse(v, p) == LET later == {q \in an.uses[v] : q >= p}
                 IN  IF later = {} THEN NoUse
                     ELSE CHOOSE q \in later : \A r \in later : q <= r

\* Registers whose pre-coloured values meet v.
Reserved(v) == {r \in Regs : \E u \in an.tracked :
                               u # v /\ fixed[u] = r /\ Conflicts(u, v)}

-----------------------------------------------------------------------------
(* Pre-colouring *)

\* Mutant: the register the convention names is not looked up.
Unfit_AnyRegister(v) == /\ an.defReg[v] # NoReg
                        /\ an.defReg[v] \in Allocatable
                        /\ ClassOf[an.defReg[v]] # an.class[v]

\* The convention fixes r for v and the target cannot honour it.
Unfit(v) == /\ an.defReg[v] # NoReg
            /\ \/ an.defReg[v] \notin Allocatable
               \/ ClassOf[an.defReg[v]] # an.class[v]

Clash(u, v) == /\ u # v
               /\ an.defReg[u] # NoReg
               /\ an.defReg[u] = an.defReg[v]
               /\ Conflicts(u, v)

Precolour ==
  /\ phase = "precolour"
  /\ \A v \in an.tracked : ~Unfit(v) /\ \A u \in an.tracked : ~Clash(u, v)
  /\ fixed' = [v \in Ids |-> IF v \in an.tracked THEN an.defReg[v] ELSE NoReg]
  /\ phase' = "scan"
  /\ UNCHANGED <<an, todo, home, owner, active>>

Refuse ==
  /\ phase = "precolour"
  /\ \E v \in an.tracked : Unfit(v) \/ \E u \in an.tracked : Clash(u, v)
  /\ phase' = "refused"
  /\ UNCHANGED <<an, todo, home, fixed, owner, active>>

-----------------------------------------------------------------------------
(* One visit *)

\* By the start of the interval, then by identifier.
Earlier(u, v) == \/ an.start[u] < an.start[v]
                 \/ an.start[u] = an.start[v] /\ u <= v

IsNext(v) == v \in todo /\ \A u \in todo : Earlier(v, u)

\* Mutants: an interval that ends here is over whatever is defined here, and
\* an operand that dies here is never over.
Expired_Closed(v) == {w \in active : an.end[w] <= an.start[v]}
Expired_Open(v)   == {w \in active : an.end[w] < an.start[v]}

Expired(v) == {w \in active : \/ an.end[w] < an.start[v]
                              \/ an.end[w] = an.start[v] /\ FreesAt(an.start[v], v)}

Kept(v) == active \ Expired(v)

\* Mutant: the expiry leaves the register table alone.
OwnerKept_Stale(v) == owner

\* The owners once the expired intervals gave their registers back.
OwnerKept(v) == [r \in Regs |-> IF \E w \in Expired(v) : home[w] = r THEN NoId ELSE owner[r]]

\* Mutant: the spill is not recorded as the value's home.
ToFrame_Unrecorded(v) == /\ home' = home
                         /\ owner' = OwnerKept(v)
                         /\ active' = Kept(v)

\* v goes to the frame; nothing else moves.
ToFrame(v) == /\ home' = [home EXCEPT ![v] = Frame]
              /\ owner' = OwnerKept(v)
              /\ active' = Kept(v)

\* v takes r, and whoever holds r goes to the frame for its whole interval.
Take(v, r) ==
  LET w == OwnerKept(v)[r]
  IN  /\ home' = [u \in Ids |-> IF u = v THEN r ELSE IF u = w THEN Frame ELSE home[u]]
      /\ owner' = [OwnerKept(v) EXCEPT ![r] = v]
      /\ active' = (Kept(v) \ {w}) \cup {v}

\* The registers of v's class that are free for the whole of its interval.
Free(v) == {r \in Allocatable : /\ ClassOf[r] = an.class[v]
                               /\ OwnerKept(v)[r] = NoId
                               /\ r \notin Reserved(v)}

\* The values v could take a register from.
Candidates(v) == {w \in Kept(v) : /\ home[w] \in Regs
                                  /\ ClassOf[home[w]] = an.class[v]
                                  /\ home[w] \notin Reserved(v)}

\* Mutant: a tie evicts.
Further_OrEqual(w, v) == NextUse(v, an.start[v]) <= NextUse(w, an.start[v])

\* w is needed again later than v is.
Further(w, v) == NextUse(v, an.start[v]) < NextUse(w, an.start[v])

\* The candidate whose next use is furthest, the smallest identifier among
\* equals.
IsVictim(w, v) ==
  /\ w \in Candidates(v)
  /\ \A u \in Candidates(v) \ {w} :
        \/ NextUse(u, an.start[v]) < NextUse(w, an.start[v])
        \/ NextUse(u, an.start[v]) = NextUse(w, an.start[v]) /\ w < u

\* A value that fits no register, or that a call would destroy in one.
VisitFrame(v) == /\ v \in an.wide \cup an.across
                 /\ ToFrame(v)

\* The convention wins: whoever holds the register leaves it.
VisitFixed(v) == /\ v \notin an.wide \cup an.across
                 /\ fixed[v] # NoReg
                 /\ Take(v, fixed[v])

\* The first free register.
VisitFree(v) == /\ v \notin an.wide \cup an.across
                /\ fixed[v] = NoReg
                /\ \E r \in Free(v) : (\A q \in Free(v) : r <= q) /\ Take(v, r)

\* No register is free: whoever is needed last goes to the frame.
VisitEvict(v) == /\ v \notin an.wide \cup an.across
                 /\ fixed[v] = NoReg
                 /\ Free(v) = {}
                 /\ \E w \in Candidates(v) :
                       IsVictim(w, v) /\ Further(w, v) /\ Take(v, home[w])

VisitSpill(v) == /\ v \notin an.wide \cup an.across
                 /\ fixed[v] = NoReg
                 /\ Free(v) = {}
                 /\ \A w \in Candidates(v) : ~Further(w, v)
                 /\ ToFrame(v)

Visit(v) == /\ phase = "scan"
            /\ IsNext(v)
            /\ VisitFrame(v) \/ VisitFixed(v) \/ VisitFree(v) \/ VisitEvict(v) \/ VisitSpill(v)
            /\ todo' = todo \ {v}
            /\ phase' = IF todo = {v} THEN "scanned" ELSE "scan"
            /\ UNCHANGED <<an, fixed>>

-----------------------------------------------------------------------------
(* What the analysis hands over *)

\* An interval is not empty; and no other interval starts where a value that
\* frees its operands' registers is defined, so the value that expires an
\* interval ending there is the one that is written there.
WellFormed(a) ==
  /\ a \in Analysis
  /\ a.tracked # {}
  /\ \A v \in a.tracked : a.start[v] <= a.end[v]
  /\ \A u, v \in a.tracked :
        u # v /\ a.start[u] = a.start[v] =>
          a.at[a.start[v]] # v \/ v \in a.phi \cup a.twoAddr

InitScan == /\ phase = "precolour"
            /\ todo = an.tracked
            /\ home = [v \in Ids |-> None]
            /\ fixed = [v \in Ids |-> NoReg]
            /\ owner = [r \in Regs |-> NoId]
            /\ active = {}

ScanInit == WellFormed(an) /\ InitScan

ScanNext == Precolour \/ Refuse \/ \E v \in Ids : Visit(v)

ScanSpec == ScanInit /\ [][ScanNext]_scanVars /\ WF_scanVars(ScanNext)

-----------------------------------------------------------------------------
(* Properties *)

\* The type of the state.
ScanTypeOK == /\ phase \in {"precolour", "scan", "scanned", "refused"}
              /\ todo \subseteq an.tracked
              /\ home \in [Ids -> Allocatable \cup {Frame, None}]
              /\ fixed \in [Ids -> Allocatable \cup {NoReg}]
              /\ owner \in [Regs -> Ids \cup {NoId}]
              /\ active \subseteq an.tracked \ todo

\* Two values that are live at the same time are never in one register, at any
\* moment of the scan: not through an expiry, an eviction or a fixed register.
NoSharedRegister ==
  \A u, v \in an.tracked : u # v /\ home[u] \in Regs /\ home[u] = home[v] => ~Conflicts(u, v)

\* The scan's books agree: an active value owns its register, a register's
\* owner is active, and a register given back is held by nobody still to end.
BooksAgree ==
  /\ \A w \in active : home[w] \in Regs /\ owner[home[w]] = w
  /\ \A r \in Regs : owner[r] # NoId => owner[r] \in active /\ home[owner[r]] = r

Eligible == an.tracked \ (an.wide \cup an.across)
OfClass(c) == {r \in Allocatable : ClassOf[r] = c}

\* When nothing is pre-coloured, a value that could be in a register is sent
\* to the frame only if more values of its class than there are registers are
\* live at one time.
SpillsOnlyUnderPressure ==
  phase = "scanned" /\ (\A v \in an.tracked : fixed[v] = NoReg) =>
    \A v \in Eligible : home[v] = Frame =>
      \E S \in SUBSET {w \in Eligible : an.class[w] = an.class[v]} :
         /\ Cardinality(S) > Cardinality(OfClass(an.class[v]))
         /\ \A u, w \in S : u # w => Conflicts(u, w)

\* A value leaves a register only for one whose next use is nearer, and only
\* when every register of the class is taken or reserved; once in the frame
\* it never comes back.
EvictionsPay ==
  [][ \A w \in Ids : home[w] \in Regs /\ home'[w] # home[w] =>
        /\ home'[w] = Frame
        /\ \E v \in todo : /\ home'[v] = home[w]
                           /\ NextUse(v, an.start[v]) < NextUse(w, an.start[v])
                           /\ \A r \in OfClass(an.class[v]) : owner'[r] # NoId \/ r \in Reserved(v)
    ]_scanVars

\* The scan ends, with every value placed or the function refused.
Ends == <>(\/ phase = "refused"
           \/ phase = "scanned" /\ \A v \in an.tracked : home[v] # None)
=============================================================================
