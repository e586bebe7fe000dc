--------------------------- MODULE MCParallelCopy ---------------------------
(* Up to four copies over five locations: copy k writes location k (which    *)
(* names are used is of no account), and every choice of sources is tried.   *)
(* The locations are of one class, or alternate between two.                 *)
EXTENDS ParallelCopy

MCLocs == 1 .. 5
MCTemp == [c \in {"int", "float"} |-> IF c = "int" THEN 6 ELSE 7]

\* A copy moves a value within its class; what is recomputed has no class.
ClassOf(alternate, l) == IF alternate /\ l \in {3, 4} THEN "float" ELSE "int"

Inputs(n) ==
  {[k \in 1 .. n |-> [dst |-> k, src |-> from[k], class |-> ClassOf(alternate, k)]] :
     <<from, alternate>> \in {<<f, a>> \in [1 .. n -> MCLocs \cup {NoLoc}] \X BOOLEAN :
        \A k \in 1 .. n : f[k] = NoLoc \/ ClassOf(a, f[k]) = ClassOf(a, k)}}

Bad == {<<[dst |-> NoLoc, src |-> 1, class |-> "int"]>>,
        <<[dst |-> 1, src |-> 2, class |-> "int"], [dst |-> 1, src |-> 3, class |-> "int"]>>}

MCInit == /\ \/ cps \in Bad
             \/ \E n \in 1 .. 4 : cps \in Inputs(n)
          /\ InitCopy

MCSpec == MCInit /\ [][Next]_vars /\ WF_vars(Next)
=============================================================================
