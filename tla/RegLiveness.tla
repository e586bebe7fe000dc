---------------------------- MODULE RegLiveness ----------------------------
(***************************************************************************)
(* The liveness of values the register allocator computes                  *)
(* (src/ssa/regalloc.go, liveness, liveOutOf and transfer): a backward     *)
(* dataflow to a fixed point.  One action visits one block; a round visits *)
(* every block in reverse of the linearisation, and another round follows  *)
(* while some live-in set grew.                                            *)
(***************************************************************************)
EXTENDS SSAFunc

VARIABLES fn,       \* the function
          order,    \* its blocks in the order of the linearisation
          liveIn,   \* what is live at the start of each block, so far
          liveOut,  \* what is live at the end of each block, so far
          next,     \* the place in order of the block to visit, 0 at the end of a round
          grew,     \* some live-in set grew in this round
          settled   \* the fixed point is reached

livenessVars == <<fn, order, liveIn, liveOut, next, grew, settled>>

InitLiveness == /\ liveIn = [b \in Blocks(fn) |-> {}]
                /\ liveOut = [b \in Blocks(fn) |-> {}]
                /\ next = Len(order)
                /\ grew = FALSE
                /\ settled = FALSE

\* Mutant: what a phi reads is not read at the end of its predecessor.
LiveOutOf_NoPhi(b) == UNION {liveIn[s] : s \in ToSet(fn.succs[b])}

LiveOutOf(b) == ReadAtEnd(fn, b) \cup UNION {liveIn[s] : s \in ToSet(fn.succs[b])}

\* Mutant: only the growth of the block visited last counts.
VisitBlock_Last == /\ ~settled
                   /\ next > 0
                   /\ LET b   == order[next]
                          out == liveOut[b] \cup LiveOutOf(b)
                          in  == LiveBefore(fn, fn.vals[b], out)
                      IN  /\ liveOut' = [liveOut EXCEPT ![b] = out]
                          /\ liveIn' = [liveIn EXCEPT ![b] = @ \cup in]
                          /\ grew' = ~(in \subseteq liveIn[b])
                   /\ next' = next - 1
                   /\ UNCHANGED <<fn, order, settled>>

VisitBlock == /\ ~settled
              /\ next > 0
              /\ LET b   == order[next]
                     out == liveOut[b] \cup LiveOutOf(b)
                     in  == LiveBefore(fn, fn.vals[b], out)
                 IN  /\ liveOut' = [liveOut EXCEPT ![b] = out]
                     /\ liveIn' = [liveIn EXCEPT ![b] = @ \cup in]
                     /\ grew' = (grew \/ ~(in \subseteq liveIn[b]))
              /\ next' = next - 1
              /\ UNCHANGED <<fn, order, settled>>

\* Mutant: a new round does not forget the growth of the one before it.
EndRound_NoReset == /\ ~settled
                    /\ next = 0
                    /\ IF grew THEN next' = Len(order) /\ UNCHANGED settled
                               ELSE settled' = TRUE /\ UNCHANGED next
                    /\ UNCHANGED <<fn, order, liveIn, liveOut, grew>>

EndRound == /\ ~settled
            /\ next = 0
            /\ IF grew THEN next' = Len(order) /\ grew' = FALSE /\ UNCHANGED settled
                       ELSE settled' = TRUE /\ UNCHANGED <<next, grew>>
            /\ UNCHANGED <<fn, order, liveIn, liveOut>>

LivenessNext == VisitBlock \/ EndRound

\* Blocks of the function's values, with edges to its blocks.
FlowGraph(f) == /\ f.vals \in Seq(Seq(DOMAIN f.op))
                /\ f.succs \in [Blocks(f) -> Seq(Blocks(f))]

\* order is any order of the blocks that leaves none out.
LivenessInit == /\ FlowGraph(fn)
                /\ order \in Seq(Blocks(fn)) /\ ToSet(order) = Blocks(fn)
                /\ InitLiveness

\* The rounds are one loop of a sequential program, which runs on.
LivenessSpec == LivenessInit /\ [][LivenessNext]_livenessVars /\ WF_livenessVars(LivenessNext)

-----------------------------------------------------------------------------

\* The type of the state: only what occupies storage is ever live.
LivenessTypeOK == /\ \A b \in Blocks(fn) : liveIn[b] \subseteq Tracked(fn) /\ liveOut[b] \subseteq Tracked(fn)
                  /\ next \in 0 .. Len(order)
                  /\ grew \in BOOLEAN /\ settled \in BOOLEAN

\* Nothing is missing from the sets of b: they hold what the sets of its
\* successors, its phis' operands and its own values ask for.
Closed(b) == /\ LiveOutOf(b) \subseteq liveOut[b]
             /\ LiveBefore(fn, fn.vals[b], liveOut[b]) \subseteq liveIn[b]

\* The loop looks for growth in the live-in sets alone and in one round only:
\* when it stops, no block would add anything to its sets.
FixedPoint == settled => \A b \in Blocks(fn) : Closed(b)

\* At the fixed point the sets are the path definition, loops, phis and
\* irreducible graphs included: nothing live is missed, nothing dead is kept.
LivenessExact == settled => \A b \in Blocks(fn) : /\ liveIn[b] = LiveAtStart(fn, b)
                                                  /\ liveOut[b] = LiveAtEnd(fn, b)

\* The same, asked where the loop stops; the sets do not change after it.
LivenessFound == [][~settled /\ settled' => LivenessExact']_livenessVars

\* The rounds come to an end on every graph.
Settles == <>settled
=============================================================================
