----------------------------- MODULE MCTransfer -----------------------------
(* Up to four moves among three integer registers, two floating-point ones    *)
(* and a slot.  The destinations are in order, which names them; the sources  *)
(* are any that the callers hand over.                                        *)
EXTENDS Transfer

MCRegs  == 1 .. 5
MCFloat == {4, 5}
MCSlots == {6}

Inputs(n) ==
  {s \in {[i \in 1 .. n |-> [dst |-> dst[i], src |-> from[i]]] :
             dst \in {d \in [1 .. n -> 1 .. 6] : \A i \in 1 .. n - 1 : d[i] < d[i + 1]},
             from \in [1 .. n -> 1 .. 6 \cup {NoLoc}]} : WellFormed(s)}

MCInit == /\ \E n \in 0 .. 4 : x \in Inputs(n)
          /\ InitMoves

MCSpec == MCInit /\ [][Next]_vars /\ WF_vars(Next)
=============================================================================
