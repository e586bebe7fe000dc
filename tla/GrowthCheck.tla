----------------------------- MODULE GrowthCheck -----------------------------
(***************************************************************************)
(* The check a prologue makes of the room its frame has                    *)
(* (src/ssagen/prologue.go, prologue and skipsCheck).  The stack may be    *)
(* used down to StackSmall bytes below the guard, so a small frame compares*)
(* the stack pointer itself; a larger one compares where its frame would   *)
(* leave it, in words that wrap around; and one for which that difference  *)
(* may wrap looks at the borrow first.                                     *)
(***************************************************************************)
EXTENDS Integers

CONSTANTS StackSmall, StackBig,
          Space             \* addresses are computed modulo Space

ASSUME GrowthAssumption ==
  /\ StackSmall \in Nat /\ StackBig \in Nat /\ Space \in Nat \ {0}
  /\ StackSmall <= StackBig /\ StackBig < Space

\* Mutant: the difference is compared without a look at the borrow.
NeedsMore_NoBorrow(size, sp, guard) ==
  IF size <= StackSmall THEN sp <= guard ELSE (sp - (size - StackSmall)) % Space <= guard

\* Mutant: the comparison the wrong way round.
NeedsMore_Above(size, sp, guard) == sp > guard

\* The prologue goes to the tail that grows the stack.
NeedsMore(size, sp, guard) ==
  \/ size <= StackSmall /\ sp <= guard
  \/ size > StackSmall /\ (sp - (size - StackSmall)) % Space <= guard
  \/ size > StackBig /\ sp < size - StackSmall

\* No check is made of an empty frame, or of a small one that calls nothing.
SkipsCheck(size, leaf, nosplit) == nosplit \/ size = 0 \/ (leaf /\ size < StackSmall)
=============================================================================
