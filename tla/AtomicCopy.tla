----------------------------- MODULE AtomicCopy -----------------------------
(***************************************************************************)
(* What a parallel copy promises: every destination receives what its      *)
(* source held before any of the copies, at one instant, and nothing else  *)
(* changes.  A set of copies with a nameless or repeated destination is    *)
(* refused.                                                                *)
(*                                                                         *)
(* A value is named by the location that held it at the start.             *)
(***************************************************************************)
EXTENDS Integers, Sequences

CONSTANTS Locs,     \* the locations values live in
          NoLoc,    \* no location: a source that is recomputed
          Remat     \* what a recomputed source yields

VARIABLES cps,      \* the copies, a sequence of records with dst and src
          cells,    \* what each location holds
          outcome   \* "pending", "moved" or "refused"

Source(c) == IF c.src = NoLoc THEN Remat ELSE c.src

Sound(s) == /\ \A i \in DOMAIN s : s[i].dst # NoLoc
            /\ \A i, j \in DOMAIN s : s[i].dst = s[j].dst => i = j

Moved(s) == [l \in Locs |-> IF \E i \in DOMAIN s : s[i].dst = l
                            THEN Source(s[CHOOSE i \in DOMAIN s : s[i].dst = l])
                            ELSE l]

Init == cells = [l \in Locs |-> l] /\ outcome = "pending"

Move == /\ outcome = "pending"
        /\ Sound(cps)
        /\ cells' = Moved(cps)
        /\ outcome' = "moved"
        /\ UNCHANGED cps

Refuse == /\ outcome = "pending"
          /\ ~Sound(cps)
          /\ outcome' = "refused"
          /\ UNCHANGED <<cps, cells>>

Next == Move \/ Refuse

vars == <<cps, cells, outcome>>

Safety == Init /\ [][Next]_vars

Spec == Safety /\ WF_vars(Next)
=============================================================================
