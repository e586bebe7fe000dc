------------------------------ MODULE FileSet ------------------------------
(***************************************************************************)
(* The shared table of source files of src/syntax/pos.go.  Parsers running *)
(* in goroutines of their own call AddFile, and anything that holds a      *)
(* position calls SrcFile at any moment.  Adding is done under a mutex;    *)
(* resolving reads an atomically published slice and takes no lock.        *)
(*                                                                         *)
(* One action is one access to shared memory, so a reader may run between  *)
(* any two of the accesses AddFile makes.                                  *)
(***************************************************************************)
EXTENDS Integers, Sequences

CONSTANTS Adders,     \* goroutines that add files
          Readers,    \* goroutines that resolve positions
          Sizes,      \* the sizes AddFile is called with, negative ones too
          MaxCalls,   \* bound: the number of AddFile calls of one adder
          NoOne,      \* the mutex is free
          NoFile      \* SrcFile's nil

ASSUME SizesAssumption    == Sizes \subseteq Int
ASSUME MaxCallsAssumption == MaxCalls \in Nat
ASSUME ApartAssumption    == Adders \cap Readers = {}
ASSUME NoOneAssumption    == NoOne \notin Adders
ASSUME NoFileAssumption   == NoFile \notin [base : Nat \ {0}, size : Nat]

VARIABLES mu,         \* the adder that holds the mutex, or NoOne
          base,       \* the first position no file has yet
          files,      \* the published slice, sorted by base
          pc,         \* where each goroutine is
          file,       \* the file an adder is adding
          next,       \* the copy an adder is about to publish
          calls,      \* how many calls each adder has made
          returned,   \* the files AddFile has returned: whose positions exist
          pos,        \* the position a reader is resolving
          snap,       \* the slice a reader has loaded
          answer      \* what SrcFile last returned to each reader

vars == <<mu, base, files, pc, file, next, calls, returned, pos, snap, answer>>
adderVars == <<mu, base, files, file, next, calls, returned>>
readerVars == <<pos, snap, answer>>

File     == [base : Nat \ {0}, size : Nat]
Owned(f) == f.base .. f.base + f.size
Image(s) == {s[i] : i \in DOMAIN s}
Max0_Unclipped(n) == n

Max0(n)  == IF n < 0 THEN 0 ELSE n
NoAnswer == [pos |-> 0, file |-> NoFile]

\* NewFileSet starts at 1; the zero value of FileSet is used as well.
Init == /\ mu = NoOne
        /\ base \in {0, 1}
        /\ files = <<>>
        /\ pc = [g \in Adders \cup Readers |-> "idle"]
        /\ file = [a \in Adders |-> NoFile]
        /\ next = [a \in Adders |-> <<>>]
        /\ calls = [a \in Adders |-> 0]
        /\ returned = {}
        /\ pos = [r \in Readers |-> 0]
        /\ snap = [r \in Readers |-> <<>>]
        /\ answer = [r \in Readers |-> NoAnswer]

-----------------------------------------------------------------------------
(* AddFile *)

Lock_NoMutex(a) == /\ pc[a] = "idle"
                   /\ calls[a] < MaxCalls
                   /\ mu' = a
                   /\ calls' = [calls EXCEPT ![a] = @ + 1]
                   /\ pc' = [pc EXCEPT ![a] = "reserve"]
                   /\ UNCHANGED <<base, files, file, next, returned, readerVars>>

Lock(a) == /\ pc[a] = "idle"
           /\ calls[a] < MaxCalls
           /\ mu = NoOne
           /\ mu' = a
           /\ calls' = [calls EXCEPT ![a] = @ + 1]
           /\ pc' = [pc EXCEPT ![a] = "reserve"]
           /\ UNCHANGED <<base, files, file, next, returned, readerVars>>

\* A file takes n positions from the base it finds, a zero base included.
Reserve_Tight(a) ==
  /\ pc[a] = "reserve"
  /\ \E size \in Sizes :
       /\ file' = [file EXCEPT ![a] = [base |-> base, size |-> Max0(size)]]
       /\ base' = base + Max0(size)
  /\ pc' = [pc EXCEPT ![a] = "copy"]
  /\ UNCHANGED <<mu, files, next, calls, returned, readerVars>>

\* A file of size n takes n + 1 positions; position 0 is never given out.
Reserve(a) ==
  /\ pc[a] = "reserve"
  /\ \E size \in Sizes :
       LET from == IF base = 0 THEN 1 ELSE base
           f    == [base |-> from, size |-> Max0(size)]
       IN  /\ file' = [file EXCEPT ![a] = f]
           /\ base' = from + Max0(size) + 1
  /\ pc' = [pc EXCEPT ![a] = "copy"]
  /\ UNCHANGED <<mu, files, next, calls, returned, readerVars>>

CopySlice(a) == /\ pc[a] = "copy"
                /\ next' = [next EXCEPT ![a] = Append(files, file[a])]
                /\ pc' = [pc EXCEPT ![a] = "store"]
                /\ UNCHANGED <<mu, base, files, file, calls, returned, readerVars>>

\* The file is handed out with the lock, before the slice that has it is stored.
Publish_Late(a) == /\ pc[a] = "store"
                   /\ files' = files
                   /\ pc' = [pc EXCEPT ![a] = "unlock"]
                   /\ UNCHANGED <<mu, base, file, next, calls, returned, readerVars>>

Publish(a) == /\ pc[a] = "store"
              /\ files' = next[a]
              /\ pc' = [pc EXCEPT ![a] = "unlock"]
              /\ UNCHANGED <<mu, base, file, next, calls, returned, readerVars>>

Unlock(a) == /\ pc[a] = "unlock"
             /\ mu' = NoOne
             /\ returned' = returned \cup {file[a]}
             /\ pc' = [pc EXCEPT ![a] = "idle"]
             /\ UNCHANGED <<base, files, file, next, calls, readerVars>>

AddFile(a) == Lock(a) \/ Reserve(a) \/ CopySlice(a) \/ Publish(a) \/ Unlock(a)

-----------------------------------------------------------------------------
(* SrcFile *)

\* A goroutine holds a position only of a file AddFile has returned, or NoPos.
Ask(r) == /\ pc[r] = "idle"
          /\ \/ pos' = [pos EXCEPT ![r] = 0]
             \/ \E f \in returned : \E p \in Owned(f) : pos' = [pos EXCEPT ![r] = p]
          /\ pc' = [pc EXCEPT ![r] = "load"]
          /\ UNCHANGED <<adderVars, snap, answer>>

Load_Locked(r) == /\ pc[r] = "load"
                  /\ mu = NoOne
                  /\ snap' = [snap EXCEPT ![r] = files]
                  /\ pc' = [pc EXCEPT ![r] = "search"]
                  /\ UNCHANGED <<adderVars, pos, answer>>

Load(r) == /\ pc[r] = "load"
           /\ snap' = [snap EXCEPT ![r] = files]
           /\ pc' = [pc EXCEPT ![r] = "search"]
           /\ UNCHANGED <<adderVars, pos, answer>>

\* sort.Search(len(s), base > p): the number of leading files that start at or
\* before p, which the search finds by bisection and so needs s to be sorted.
Before_Strict(s, p) == {i \in DOMAIN s : s[i].base < p}

Before(s, p) == {i \in DOMAIN s : s[i].base <= p}

SrcFile(s, p) ==
  IF p = 0 \/ Before(s, p) = {} THEN NoFile
  ELSE LET i == CHOOSE i \in Before(s, p) : \A j \in Before(s, p) : j <= i
       IN  IF p - s[i].base > s[i].size THEN NoFile ELSE s[i]

Search(r) ==
  /\ pc[r] = "search"
  /\ answer' = [answer EXCEPT ![r] = [pos |-> pos[r], file |-> SrcFile(snap[r], pos[r])]]
  /\ pc' = [pc EXCEPT ![r] = "idle"]
  /\ UNCHANGED <<adderVars, pos, snap>>

Resolve(r) == Ask(r) \/ Load(r) \/ Search(r)

-----------------------------------------------------------------------------
Next == (\E a \in Adders : AddFile(a)) \/ (\E r \in Readers : Resolve(r))

\* A goroutine in SrcFile is eventually run.  Nothing is assumed of the adders:
\* one may be descheduled for ever while it holds the mutex.
Fairness == \A r \in Readers : WF_vars(Load(r) \/ Search(r))

Spec == Init /\ [][Next]_vars /\ Fairness

-----------------------------------------------------------------------------
(* Properties *)

PC(g) == IF g \in Adders THEN {"idle", "reserve", "copy", "store", "unlock"}
                         ELSE {"idle", "load", "search"}

\* The type of the state.
TypeOK ==
  /\ mu \in Adders \cup {NoOne}
  /\ base \in Nat
  /\ files \in Seq(File)
  /\ pc = [g \in Adders \cup Readers |-> pc[g]]
  /\ \A g \in Adders \cup Readers : pc[g] \in PC(g)
  /\ file \in [Adders -> File \cup {NoFile}]
  /\ next \in [Adders -> Seq(File)]
  /\ calls \in [Adders -> Nat]
  /\ returned \subseteq File
  /\ pos \in [Readers -> Nat]
  /\ snap \in [Readers -> Seq(File)]
  /\ answer \in [Readers -> [pos : Nat, file : File \cup {NoFile}]]

\* Two published files never share a position, in particular the position one
\* past the end of a file is not the first of the next one.
Disjoint == \A i, j \in DOMAIN files :
               i # j => Owned(files[i]) \cap Owned(files[j]) = {}

\* A file AddFile has returned is in every snapshot a reader takes afterwards:
\* a position that exists can be resolved.
ReturnedPublished == returned \subseteq Image(files)

\* A position resolves to the file that owns it, whatever other files were
\* added between the reader's load and its search; NoPos resolves to none.
AnswersOwner == \A r \in Readers :
  IF answer[r].pos = 0 THEN answer[r].file = NoFile
  ELSE answer[r].file # NoFile /\ answer[r].pos \in Owned(answer[r].file)

\* A published slice is only ever extended: a reader that holds an older
\* snapshot holds a prefix of the truth.
AppendOnly == [][ /\ Len(files) <= Len(files')
                  /\ SubSeq(files', 1, Len(files)) = files ]_files

\* A lookup is answered even when the adder that holds the mutex never runs
\* again: the read side takes no lock.
LookupsAnswered == \A r \in Readers : (pc[r] = "load") ~> (pc[r] = "idle")

\* FileSet behaves as the table whose two operations are atomic: an AddFile
\* takes effect when it publishes, a lookup when it ends.
Table == INSTANCE PosTable WITH table <- Image(files)

TableSpec == Table!Spec
=============================================================================
