------------------------------ MODULE PosTable ------------------------------
(***************************************************************************)
(* What the position table of nanogo promises (src/syntax/pos.go, FileSet, *)
(* and specs/010-scanner-and-positions.md): files are registered one at a  *)
(* time, each with a range of positions no other file has, and a position  *)
(* of a registered file resolves to that file.  Both operations are atomic *)
(* here.  FileSet.tla implements them with a lock and a published snapshot.*)
(***************************************************************************)
EXTENDS Integers

CONSTANTS Readers,    \* the goroutines that resolve positions
          NoFile      \* the answer for a position that has no owner

VARIABLES table,      \* the set of registered files, records [base, size]
          answer      \* what each reader was last told, [pos, file]

vars == <<table, answer>>

\* The positions file f owns: one per byte, and the one past its last byte.
Owned(f) == f.base .. f.base + f.size

File == [base : Nat \ {0}, size : Nat]

NoAnswer == [pos |-> 0, file |-> NoFile]

Init == table = {} /\ answer = [r \in Readers |-> NoAnswer]

\* The one new file is anywhere no registered file is.
Add == /\ \E f \in table' \ table :
             /\ f \in File
             /\ \A g \in table : Owned(f) \cap Owned(g) = {}
             /\ table' = table \cup {f}
       /\ UNCHANGED answer

\* Position 0 (NoPos) belongs to no file.
Resolve(r) == /\ \/ answer' = [answer EXCEPT ![r] = NoAnswer]
                 \/ \E f \in table : \E p \in Owned(f) :
                       answer' = [answer EXCEPT ![r] = [pos |-> p, file |-> f]]
              /\ UNCHANGED table

Next == Add \/ \E r \in Readers : Resolve(r)

Spec == Init /\ [][Next]_vars
=============================================================================
