---------------------------- MODULE MCLinearScan ----------------------------
(* Four values over two allocatable registers and one that is not: value v   *)
(* is defined at position v, and position 4 is the end of the block.  A      *)
(* shape says what is special about the values; every combination of         *)
(* interval ends is tried with every shape.                                  *)
EXTENDS LinearScan

MCIds == 0 .. 3
MCPositions == 0 .. 4
MCClassOf == [r \in 0 .. 2 |-> "int"]

NoneFixed == <<>>

Plain == [phi |-> {}, early |-> {}, two |-> {}, across |-> {}, unread |-> {}, mid |-> {},
          pre |-> NoneFixed]

\* A value in unread has no use, one in mid has a use nearer than the end of
\* its interval (the interval of a value that is live around a loop).  phi and
\* early values start at the end of an earlier block and at the call that
\* produces them; position 0 is both here.
Shapes ==
  {Plain} \cup {[Plain EXCEPT !.two = t, !.across = a] : t \in {{}, {2}}, a \in {{1}, {3}}}
  \cup {[Plain EXCEPT !.phi = p, !.unread = u] : p \in {{1}, {1, 2}}, u \in {{}, {0}, {1}}}
  \cup {[Plain EXCEPT !.mid = m] : m \in {{0}, {1}, {0, 1, 2}}}
  \cup {[Plain EXCEPT !.pre = [v \in {1} |-> 2]]}
  \cup {[Plain EXCEPT !.pre = p, !.early = e, !.two = t] :
          p \in {[v \in {0} |-> 0], [v \in {2} |-> 0], [v \in {0, 3} |-> 0], [v \in {1, 2} |-> v - 1]},
          e \in {{}, {2}}, t \in {{}, {1}, {2}}}

AnalysisOf(end, s) ==
  [tracked |-> MCIds,
   start   |-> [v \in MCIds |-> IF v \in s.phi \cup s.early THEN 0 ELSE v],
   end     |-> end,
   at      |-> [p \in MCPositions |-> IF p \in 1 .. 3 THEN p ELSE NoId],
   uses    |-> [v \in MCIds |-> IF v \in s.unread THEN {}
                             ELSE IF v \in s.mid /\ v < end[v] THEN {v + 1}
                             ELSE {end[v]}],
   phi     |-> s.phi,
   twoAddr |-> s.two,
   class   |-> [v \in MCIds |-> "int"],
   wide    |-> {},
   across  |-> s.across,
   defReg  |-> [v \in MCIds |-> IF v \in DOMAIN s.pre THEN s.pre[v] ELSE NoReg]]

MCInit == /\ \E end \in [MCIds -> MCPositions], s \in Shapes :
               /\ \A v \in MCIds : v <= end[v]
               /\ an = AnalysisOf(end, s)
          /\ WellFormed(an)
          /\ InitScan

MCSpec == MCInit /\ [][ScanNext]_scanVars /\ WF_scanVars(ScanNext)
=============================================================================
