----------------------------- MODULE SSAMachine -----------------------------
(***************************************************************************)
(* What an SSA function means (specs/021-ssa-construction.md): values are  *)
(* computed in order, an edge gives every phi of its successor the operand *)
(* of that edge at one instant, and what can be observed from outside is   *)
(* the operands of calls, of branches and of the return.                   *)
(*                                                                         *)
(* A result is the term that computes it, <<value, operand terms>>.        *)
(***************************************************************************)
EXTENDS SSAFunc

CONSTANTS Junk      \* what a value that was not computed holds

VARIABLES fn,       \* the function
          env,      \* the result of each value
          at,       \* <<block, index of the next value>>; index 0 is the end
          obs       \* the last observed value and the operands it read

Observed(v) == fn.op[v] \in {"call", "branch", "ret"}

InitEnv == [v \in DOMAIN fn.op |-> IF v \in Remats(fn) THEN <<v, <<>>>> ELSE Junk]

Init == env = InitEnv /\ at = <<1, 1>> /\ obs = <<>>

Operands(v) == [i \in DOMAIN fn.args[v] |-> env[fn.args[v][i]]]

\* A result of a call depends on what the call read.
Result(v) == IF fn.op[v] = "select" THEN <<v, Operands(fn.args[v][1])>> ELSE <<v, Operands(v)>>

\* The value at the program counter, which must be in b.
Here == fn.vals[at[1]][at[2]]

AtValue == at[2] \in DOMAIN fn.vals[at[1]] /\ fn.op[Here] # "branch"

\* After the value at the program counter; a return is the end.
After == IF fn.op[Here] = "ret" THEN <<at[1], 0>> ELSE <<at[1], at[2] + 1>>

\* The results once the value at the program counter is computed.
EnvAfter == IF Here \in Tracked(fn) /\ fn.op[Here] # "phi"
            THEN [env EXCEPT ![Here] = Result(Here)] ELSE env

Compute == /\ AtValue
           /\ env' = EnvAfter
           /\ obs' = IF Observed(Here) THEN <<Here, Operands(Here)>> ELSE obs
           /\ at' = After
           /\ UNCHANGED fn

\* The results once the i-th edge out of the block is taken.
EnvOnEdge(i) ==
  LET b == at[1]
      s == fn.succs[b][i]
  IN  [v \in DOMAIN env |-> IF v \in Phis(fn, s) THEN env[EdgeArg(fn, b, i, v)] ELSE env[v]]

AtEnd == at[2] = Len(fn.vals[at[1]]) + 1 \/ (at[2] \in DOMAIN fn.vals[at[1]] /\ fn.op[Here] = "branch")

TakeEdge(i) == /\ AtEnd
               /\ env' = EnvOnEdge(i)
               /\ obs' = IF at[2] \in DOMAIN fn.vals[at[1]] THEN <<Here, Operands(Here)>> ELSE obs
               /\ at' = <<fn.succs[at[1]][i], 1>>
               /\ UNCHANGED fn

Next == Compute \/ (\E i \in DOMAIN fn.succs[at[1]] : TakeEdge(i))

vars == <<fn, env, at, obs>>

Spec == Init /\ [][Next]_vars
=============================================================================
