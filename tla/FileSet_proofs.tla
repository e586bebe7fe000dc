--------------------------- MODULE FileSet_proofs ---------------------------
(***************************************************************************)
(* Proofs about FileSet for any number of goroutines, any file sizes and   *)
(* any number of calls: the positions of published files are disjoint, a   *)
(* returned file is published, a lookup names the owner of its position,   *)
(* the published slice only grows, and the whole implements PosTable.      *)
(***************************************************************************)
EXTENDS FileSet, TLAPS, SequenceTheorems

\* Only the adder that holds the mutex is inside AddFile.
Exclusive == \A a \in Adders : pc[a] # "idle" <=> mu = a

Ends(f) == f.base + f.size

\* The published files lie one after the other below base.
Sorted == /\ \A i \in DOMAIN files : Ends(files[i]) < base
          /\ \A i, j \in DOMAIN files : i < j => Ends(files[i]) < files[j].base

\* The file being added lies after all of them, and what will be published is
\* the current slice and that file.
Adding == \A a \in Adders :
  /\ pc[a] \in {"copy", "store"} =>
       /\ file[a] \in File
       /\ Ends(file[a]) < base
       /\ \A i \in DOMAIN files : Ends(files[i]) < file[a].base
  /\ pc[a] = "store" => next[a] = Append(files, file[a])
  /\ pc[a] = "unlock" => file[a] \in Image(files)

\* A reader's snapshot is a prefix of what is published, and the position it
\* resolves belongs to a file of its snapshot.
Reading == \A r \in Readers :
  /\ Len(snap[r]) <= Len(files)
  /\ \A i \in 1 .. Len(snap[r]) : snap[r][i] = files[i]
  /\ pc[r] = "load" /\ pos[r] # 0 => \E f \in returned : pos[r] \in Owned(f)
  /\ pc[r] = "search" /\ pos[r] # 0 =>
        \E i \in 1 .. Len(snap[r]) : pos[r] \in Owned(snap[r][i])

IInv == /\ TypeOK
        /\ Exclusive
        /\ Sorted
        /\ Adding
        /\ ReturnedPublished
        /\ Reading
        /\ AnswersOwner

-----------------------------------------------------------------------------
(* Facts about the published slice *)

\* In a sorted slice the file that owns a position is the last one that starts
\* at or before it, which is the one the bisection of SrcFile ends at.
LEMMA OwnerIsFound ==
  ASSUME NEW s \in Seq(File),
         \A i, j \in DOMAIN s : i < j => Ends(s[i]) < s[j].base,
         NEW k \in DOMAIN s, NEW p \in Nat, p # 0, p \in Owned(s[k])
  PROVE  SrcFile(s, p) = s[k]
<1> DEFINE Last(i) == i \in Before(s, p) /\ \A j \in Before(s, p) : j <= i
<1>0. DOMAIN s = 1 .. Len(s) /\ Len(s) \in Nat /\ \A i \in DOMAIN s : s[i] \in File
  OBVIOUS
<1>1. s[k].base <= p /\ p <= Ends(s[k]) /\ s[k].base \in Nat /\ s[k].size \in Nat
  BY <1>0 DEF Owned, Ends, File
<1>2. k \in Before(s, p)
  BY <1>1 DEF Before
<1>3. ASSUME NEW j \in Before(s, p) PROVE j <= k
  <2>1. j \in DOMAIN s /\ s[j].base <= p /\ s[j].base \in Nat
    BY <1>3, <1>0 DEF Before, File
  <2>2. CASE k < j
    <3>1. Ends(s[k]) < s[j].base
      BY <2>1, <2>2
    <3>2. QED BY <3>1, <2>1, <1>1 DEF Ends
  <2>3. QED BY <2>1, <2>2, <1>0
<1>4. Last(k)
  BY <1>2, <1>3
<1>5. ASSUME NEW i, Last(i) PROVE i = k
  <2>1. i \in DOMAIN s /\ i <= k /\ k <= i
    BY <1>5, <1>2, <1>3 DEF Before
  <2>2. QED BY <2>1, <1>0
<1>6. (CHOOSE i \in Before(s, p) : \A j \in Before(s, p) : j <= i) = k
  BY <1>4, <1>5
<1>7. ~(p - s[k].base > s[k].size)
  BY <1>1 DEF Ends
<1>8. QED BY <1>2, <1>6, <1>7 DEF SrcFile

\* What appending one file does to a slice (src/syntax/pos.go, the copy in AddFile).
LEMMA AppendFacts ==
  ASSUME NEW s \in Seq(File), NEW f \in File
  PROVE  /\ Append(s, f) \in Seq(File)
         /\ Len(Append(s, f)) = Len(s) + 1
         /\ DOMAIN Append(s, f) = 1 .. Len(s) + 1
         /\ \A i \in 1 .. Len(s) : Append(s, f)[i] = s[i]
         /\ Append(s, f)[Len(s) + 1] = f
         /\ Image(Append(s, f)) = Image(s) \cup {f}
<1>1. /\ Append(s, f) \in Seq(File)
      /\ Len(Append(s, f)) = Len(s) + 1
      /\ DOMAIN Append(s, f) = 1 .. Len(s) + 1
      /\ \A i \in 1 .. Len(s) : Append(s, f)[i] = s[i]
      /\ Append(s, f)[Len(s) + 1] = f
  OBVIOUS
<1>2. DOMAIN s = 1 .. Len(s) /\ Len(s) \in Nat
  OBVIOUS
<1>3. 1 .. Len(s) + 1 = (1 .. Len(s)) \cup {Len(s) + 1}
  BY <1>2
<1>4. ASSUME NEW x \in Image(Append(s, f)) PROVE x \in Image(s) \cup {f}
  <2>1. PICK i \in 1 .. Len(s) + 1 : x = Append(s, f)[i]
    BY <1>4, <1>1 DEF Image
  <2>2. QED BY <2>1, <1>1, <1>2, <1>3 DEF Image
<1>5. ASSUME NEW x \in Image(s) PROVE x \in Image(Append(s, f))
  <2>1. PICK i \in 1 .. Len(s) : x = s[i]
    BY <1>5, <1>2 DEF Image
  <2>2. QED BY <2>1, <1>1, <1>3 DEF Image
<1>6. f \in Image(Append(s, f))
  BY <1>1, <1>2, <1>3 DEF Image
<1>7. QED BY <1>1, <1>4, <1>5, <1>6

-----------------------------------------------------------------------------
(* The inductive invariant *)

\* A new FileSet, and the zero value, have no file and no adder inside AddFile.
LEMMA InitIInv == Init => IInv
<1> SUFFICES ASSUME Init PROVE IInv
  OBVIOUS
<1> USE SizesAssumption, MaxCallsAssumption, ApartAssumption, NoOneAssumption,
        NoFileAssumption DEF Init
<1>1. TypeOK
  BY DEF TypeOK, PC, File, NoAnswer
<1>2. Exclusive
  BY DEF Exclusive
<1>3. Sorted /\ Adding /\ ReturnedPublished
  BY DEF Sorted, Adding, ReturnedPublished
<1>4. Reading /\ AnswersOwner
  BY DEF Reading, AnswersOwner, NoAnswer
<1>5. QED BY <1>1, <1>2, <1>3, <1>4 DEF IInv

\* An adder's own step.
LEMMA AdderKeepsIInv ==
  ASSUME IInv, NEW a \in Adders, AddFile(a)
  PROVE  IInv'
<1> USE ApartAssumption, NoOneAssumption, SizesAssumption DEF IInv
<1>0. UNCHANGED readerVars /\ a \notin Readers /\ a # NoOne
  BY DEF AddFile, Lock, Reserve, CopySlice, Publish, Unlock, readerVars
<1>a. \A r \in Readers : pc'[r] = pc[r]
  BY <1>0 DEF AddFile, Lock, Reserve, CopySlice, Publish, Unlock, TypeOK
<1>b. AnswersOwner'
  BY <1>0 DEF AnswersOwner, readerVars
<1>1. CASE Lock(a)
  <2> USE <1>1 DEF Lock
  <2>0. calls' \in [Adders -> Nat] /\ mu' \in Adders \cup {NoOne}
    BY DEF TypeOK
  <2>1. TypeOK'
    BY <2>0, <1>0 DEF TypeOK, PC, readerVars
  <2>2. Exclusive'
    BY DEF Exclusive, TypeOK
  <2>3. Sorted' /\ ReturnedPublished'
    BY DEF Sorted, ReturnedPublished
  <2>4. Adding'
    BY DEF Adding, TypeOK
  <2>5. Reading'
    BY <1>0, <1>a DEF Reading, readerVars
  <2>6. QED BY <2>1, <2>2, <2>3, <2>4, <2>5, <1>b
<1>2. CASE Reserve(a)
  <2>1. PICK size \in Sizes :
           /\ file' = [file EXCEPT ![a] = [base |-> IF base = 0 THEN 1 ELSE base, size |-> Max0(size)]]
           /\ base' = (IF base = 0 THEN 1 ELSE base) + Max0(size) + 1
    BY <1>2 DEF Reserve
  <2> DEFINE f == [base |-> IF base = 0 THEN 1 ELSE base, size |-> Max0(size)]
  <2>2. /\ f \in File /\ Ends(f) < base' /\ base' \in Nat /\ base <= f.base
        /\ base < base' /\ file' = [file EXCEPT ![a] = f]
    BY <2>1 DEF File, Ends, Max0, TypeOK
  <2> HIDE DEF f
  <2> USE <1>2 DEF Reserve
  <2>3. TypeOK'
    BY <2>2, <1>0 DEF TypeOK, PC, readerVars
  <2>4. Exclusive' /\ ReturnedPublished'
    BY DEF Exclusive, TypeOK, ReturnedPublished
  <2>5. \A i \in DOMAIN files : files[i] \in File /\ Ends(files[i]) \in Nat
    <3>1. \A i \in DOMAIN files : files[i] \in File
      BY DEF TypeOK
    <3>2. QED BY <3>1 DEF File, Ends
  <2>6. Sorted'
    BY <2>2, <2>5 DEF Sorted, TypeOK
  <2>7. Adding'
    <3> SUFFICES ASSUME NEW b \in Adders PROVE Adding!(b)'
      BY DEF Adding
    <3>1. CASE b = a
      BY <3>1, <2>2, <2>5 DEF Adding, TypeOK, Sorted, File
    <3>2. CASE b # a
      <4>1. pc[b] = "idle" /\ pc'[b] = pc[b]
        BY <3>2 DEF Exclusive, TypeOK
      <4>2. QED BY <4>1
    <3>3. QED BY <3>1, <3>2
  <2>8. Reading'
    BY <1>0, <1>a DEF Reading, readerVars
  <2>9. QED BY <2>3, <2>4, <2>6, <2>7, <2>8, <1>b
<1>3. CASE CopySlice(a)
  <2> USE <1>3 DEF CopySlice
  <2>1. file[a] \in File /\ files \in Seq(File)
    BY DEF Adding, TypeOK
  <2>2. TypeOK'
    BY <2>1, <1>0, AppendFacts DEF TypeOK, PC, readerVars
  <2>3. Exclusive' /\ Sorted' /\ ReturnedPublished'
    BY DEF Exclusive, TypeOK, Sorted, ReturnedPublished
  <2>4. Adding'
    BY DEF Adding, TypeOK
  <2>5. Reading'
    BY <1>0, <1>a DEF Reading, readerVars
  <2>6. QED BY <2>2, <2>3, <2>4, <2>5, <1>b
<1>4. CASE Publish(a)
  <2> USE <1>4 DEF Publish
  <2> DEFINE f == file[a]
             n == Len(files)
  <2>1. /\ f \in File /\ files \in Seq(File) /\ files' = Append(files, f)
        /\ Ends(f) < base
        /\ \A i \in DOMAIN files : Ends(files[i]) < f.base
    BY DEF Adding, TypeOK
  <2>2. /\ files' \in Seq(File) /\ n \in Nat /\ DOMAIN files = 1 .. n
        /\ Len(files') = n + 1
        /\ DOMAIN files' = 1 .. n + 1
        /\ \A i \in 1 .. n : files'[i] = files[i]
        /\ files'[n + 1] = f
        /\ Image(files') = Image(files) \cup {f}
    BY <2>1, AppendFacts
  <2> HIDE DEF f, n
  <2>3. TypeOK'
    BY <2>2, <1>0 DEF TypeOK, PC, readerVars
  <2>4. Exclusive'
    BY DEF Exclusive, TypeOK
  <2>5. Sorted'
    <3>1. ASSUME NEW i \in 1 .. n + 1 PROVE Ends(files'[i]) < base'
      <4>1. CASE i = n + 1
        BY <4>1, <2>1, <2>2
      <4>2. CASE i # n + 1
        <5>1. i \in 1 .. n
          BY <4>2, <2>2
        <5>2. QED BY <5>1, <2>2 DEF Sorted
      <4>3. QED BY <4>1, <4>2
    <3>2. ASSUME NEW i \in 1 .. n + 1, NEW j \in 1 .. n + 1, i < j
          PROVE  Ends(files'[i]) < (files'[j]).base
      <4>1. i \in 1 .. n
        BY <3>2, <2>2
      <4>2. CASE j = n + 1
        BY <4>1, <4>2, <2>1, <2>2
      <4>3. CASE j # n + 1
        <5>1. j \in 1 .. n
          BY <4>3, <2>2
        <5>2. QED BY <5>1, <4>1, <3>2, <2>2 DEF Sorted
      <4>4. QED BY <4>2, <4>3
    <3>3. QED BY <3>1, <3>2, <2>2 DEF Sorted
  <2>6. Adding'
    <3> SUFFICES ASSUME NEW b \in Adders PROVE Adding!(b)'
      BY DEF Adding
    <3>1. CASE b = a
      BY <3>1, <2>2 DEF Adding, TypeOK, f
    <3>2. CASE b # a
      <4>1. pc[b] = "idle" /\ pc'[b] = pc[b]
        BY <3>2 DEF Exclusive, TypeOK
      <4>2. QED BY <4>1
    <3>3. QED BY <3>1, <3>2
  <2>7. ReturnedPublished'
    BY <2>2 DEF ReturnedPublished
  <2>8. Reading'
    <3> SUFFICES ASSUME NEW r \in Readers PROVE Reading!(r)'
      BY DEF Reading
    <3>1. snap'[r] = snap[r] /\ pos'[r] = pos[r] /\ pc'[r] = pc[r] /\ returned' = returned
      BY <1>0, <1>a DEF readerVars
    <3>2. snap[r] \in Seq(File) /\ Len(snap[r]) \in Nat
      BY DEF TypeOK
    <3>3. Len(snap'[r]) <= Len(files')
      BY <3>1, <3>2, <2>2 DEF Reading, n
    <3>4. ASSUME NEW i \in 1 .. Len(snap[r]) PROVE snap'[r][i] = files'[i]
      <4>1. i \in 1 .. n
        BY <3>2, <2>2 DEF Reading, n
      <4>2. QED BY <4>1, <3>1, <2>2 DEF Reading
    <3>5. QED BY <3>1, <3>3, <3>4 DEF Reading
  <2>9. QED BY <2>3, <2>4, <2>5, <2>6, <2>7, <2>8, <1>b
<1>5. CASE Unlock(a)
  <2> USE <1>5 DEF Unlock
  <2>1. file[a] \in Image(files)
    BY DEF Adding
  <2>2. file[a] \in File
    BY <2>1 DEF Image, TypeOK
  <2>3. TypeOK'
    BY <2>2, <1>0 DEF TypeOK, PC, readerVars
  <2>4. Exclusive'
    BY DEF Exclusive, TypeOK
  <2>5. Sorted' /\ ReturnedPublished'
    BY <2>1 DEF Sorted, ReturnedPublished
  <2>6. Adding'
    BY DEF Adding, TypeOK
  <2>7. Reading'
    BY <1>0, <1>a DEF Reading, readerVars
  <2>8. QED BY <2>3, <2>4, <2>5, <2>6, <2>7, <1>b
<1>6. QED BY <1>1, <1>2, <1>3, <1>4, <1>5 DEF AddFile

\* What a search finds: a published file that owns the position.
LEMMA SearchFinds ==
  ASSUME IInv, NEW r \in Readers, pc[r] = "search", pos[r] # 0
  PROVE  \E k \in DOMAIN files : /\ SrcFile(snap[r], pos[r]) = files[k]
                                /\ pos[r] \in Owned(files[k])
<1>1. files \in Seq(File) /\ snap[r] \in Seq(File) /\ pos[r] \in Nat
  BY DEF IInv, TypeOK
<1>2. PICK k \in 1 .. Len(snap[r]) : pos[r] \in Owned(snap[r][k])
  BY DEF IInv, Reading
<1>3. DOMAIN snap[r] = 1 .. Len(snap[r]) /\ Len(snap[r]) \in Nat
      /\ \A i \in DOMAIN snap[r] : i \in DOMAIN files /\ snap[r][i] = files[i]
  BY <1>1 DEF IInv, Reading
<1>4. \A i, j \in DOMAIN snap[r] : i < j => Ends(snap[r][i]) < snap[r][j].base
  BY <1>3 DEF IInv, Sorted
<1>5. SrcFile(snap[r], pos[r]) = snap[r][k]
  BY <1>1, <1>2, <1>3, <1>4, OwnerIsFound
<1>6. QED BY <1>2, <1>3, <1>5

\* A reader's own step.
LEMMA ReaderKeepsIInv ==
  ASSUME IInv, NEW r \in Readers, Resolve(r)
  PROVE  IInv'
<1> USE ApartAssumption, NoOneAssumption DEF IInv
<1>0. UNCHANGED adderVars /\ r \notin Adders
  BY DEF Resolve, Ask, Load, Search, adderVars
<1>a. \A a \in Adders : pc'[a] = pc[a]
  BY <1>0 DEF Resolve, Ask, Load, Search, TypeOK
<1>b. \A q \in Readers : q # r =>
        pc'[q] = pc[q] /\ pos'[q] = pos[q] /\ snap'[q] = snap[q] /\ answer'[q] = answer[q]
  BY DEF Resolve, Ask, Load, Search, TypeOK
<1>c. Exclusive' /\ Sorted' /\ Adding' /\ ReturnedPublished'
  BY <1>0, <1>a DEF Exclusive, Sorted, Adding, ReturnedPublished, adderVars
<1>d. /\ files' = files /\ returned' = returned /\ files \in Seq(File)
      /\ returned \subseteq File /\ snap[r] \in Seq(File) /\ pos[r] \in Nat
  BY <1>0 DEF adderVars, TypeOK
<1>1. CASE Ask(r)
  <2> USE <1>1 DEF Ask
  <2>1. \/ pos' = [pos EXCEPT ![r] = 0]
        \/ \E f \in returned : \E p \in Owned(f) : pos' = [pos EXCEPT ![r] = p]
    OBVIOUS
  <2>2. pos' \in [Readers -> Nat] /\ (pos'[r] # 0 => \E f \in returned : pos'[r] \in Owned(f))
    <3>1. \A f \in returned : Owned(f) \subseteq Nat
      BY <1>d DEF File, Owned
    <3>2. QED BY <2>1, <3>1 DEF TypeOK
  <2>3. TypeOK'
    BY <2>2, <1>0 DEF TypeOK, PC, adderVars
  <2>4. Reading'
    BY <2>2, <1>b, <1>d DEF Reading, TypeOK
  <2>5. AnswersOwner'
    BY DEF AnswersOwner
  <2>6. QED BY <2>3, <2>4, <2>5, <1>c
<1>2. CASE Load(r)
  <2> USE <1>2 DEF Load
  <2>1. TypeOK'
    BY <1>0 DEF TypeOK, PC, adderVars
  <2>2. pos[r] # 0 => \E i \in 1 .. Len(files) : pos[r] \in Owned(files[i])
    BY <1>d DEF Reading, ReturnedPublished, Image
  <2>3. Reading'
    <3> SUFFICES ASSUME NEW q \in Readers PROVE Reading!(q)'
      BY DEF Reading
    <3>1. CASE q = r
      <4>1. snap'[r] = files /\ pc'[r] = "search" /\ pos'[r] = pos[r]
        BY DEF TypeOK
      <4>2. QED BY <3>1, <4>1, <2>2, <1>d
    <3>2. CASE q # r
      BY <3>2, <1>b, <1>d DEF Reading
    <3>3. QED BY <3>1, <3>2
  <2>4. AnswersOwner'
    BY DEF AnswersOwner
  <2>5. QED BY <2>1, <2>3, <2>4, <1>c
<1>3. CASE Search(r)
  <2> USE <1>3 DEF Search
  <2> DEFINE f == SrcFile(snap[r], pos[r])
  <2>1. IF pos[r] = 0 THEN f = NoFile ELSE f \in File /\ pos[r] \in Owned(f)
    <3>1. CASE pos[r] = 0
      BY <3>1 DEF SrcFile
    <3>2. CASE pos[r] # 0
      BY <3>2, <1>d, SearchFinds
    <3>3. QED BY <3>1, <3>2
  <2>2. answer' = [answer EXCEPT ![r] = [pos |-> pos[r], file |-> f]]
    OBVIOUS
  <2> HIDE DEF f
  <2>3. TypeOK'
    <3>1. answer' \in [Readers -> [pos : Nat, file : File \cup {NoFile}]]
      BY <2>1, <2>2, <1>d DEF TypeOK
    <3>2. QED BY <3>1, <1>0 DEF TypeOK, PC, adderVars
  <2>4. Reading'
    BY <1>b, <1>d DEF Reading, TypeOK
  <2>5. AnswersOwner'
    <3> SUFFICES ASSUME NEW q \in Readers PROVE AnswersOwner!(q)'
      BY DEF AnswersOwner
    <3>1. CASE q = r
      BY <3>1, <2>1, <2>2, NoFileAssumption DEF TypeOK, File
    <3>2. CASE q # r
      BY <3>2, <1>b DEF AnswersOwner
    <3>3. QED BY <3>1, <3>2
  <2>6. QED BY <2>3, <2>4, <2>5, <1>c
<1>4. QED BY <1>1, <1>2, <1>3 DEF Resolve

\* A step that leaves the state alone preserves the invariant.
LEMMA StutterKeepsIInv == IInv /\ UNCHANGED vars => IInv'
<1> SUFFICES ASSUME IInv, UNCHANGED vars PROVE IInv'
  OBVIOUS
<1>1. TypeOK'
  BY DEF IInv, vars, TypeOK
<1>2. Exclusive' /\ Sorted' /\ Adding' /\ ReturnedPublished' /\ AnswersOwner'
  BY DEF IInv, vars, Exclusive, Sorted, Adding, ReturnedPublished, AnswersOwner
<1>3. Reading'
  BY DEF IInv, vars, Reading
<1>4. QED BY <1>1, <1>2, <1>3 DEF IInv

\* Every access to shared memory preserves the invariant.
LEMMA NextKeepsIInv == IInv /\ [Next]_vars => IInv'
BY AdderKeepsIInv, ReaderKeepsIInv, StutterKeepsIInv DEF Next

\* The inductive invariant of FileSet, whatever the goroutines interleave.
THEOREM Invariance == Spec => []IInv
<1>1. Init => IInv BY InitIInv
<1>2. IInv /\ [Next]_vars => IInv' BY NextKeepsIInv
<1>3. QED BY <1>1, <1>2, PTL DEF Spec

-----------------------------------------------------------------------------
(* The results *)

\* The state of FileSet has its type, for every set of goroutines and sizes.
THEOREM TypeCorrect == Spec => []TypeOK
<1>1. IInv => TypeOK BY DEF IInv
<1>2. QED BY <1>1, Invariance, PTL

\* Files that lie one after the other share no position, the one past the end
\* of each included.
LEMMA SortedDisjoint == IInv => Disjoint
<1> SUFFICES ASSUME IInv, NEW i \in DOMAIN files, NEW j \in DOMAIN files, i # j
             PROVE  Owned(files[i]) \cap Owned(files[j]) = {}
  BY DEF Disjoint
<1>0. files \in Seq(File)
  BY DEF IInv, TypeOK
<1>1. /\ files[i] \in File /\ files[j] \in File /\ i \in Nat /\ j \in Nat
  BY <1>0
<1>2. Ends(files[i]) < files[j].base \/ Ends(files[j]) < files[i].base
  <2>1. i < j \/ j < i
    BY <1>1
  <2>2. Sorted
    BY DEF IInv
  <2>3. QED BY <2>1, <2>2 DEF Sorted
<1>3. ASSUME NEW p \in Owned(files[i]), p \in Owned(files[j]) PROVE FALSE
  BY <1>1, <1>2, <1>3 DEF Owned, Ends, File
<1>4. QED BY <1>3

\* AddFile's ranges never overlap, whatever the order the adders run in.
THEOREM RangesDisjoint == Spec => []Disjoint
<1>1. IInv => Disjoint BY SortedDisjoint
<1>2. QED BY <1>1, Invariance, PTL

\* What AddFile returned, every later snapshot holds.
THEOREM PublishedBeforeReturned == Spec => []ReturnedPublished
<1>1. IInv => ReturnedPublished BY DEF IInv
<1>2. QED BY <1>1, Invariance, PTL

\* SrcFile names the file that owns the position, with adders running between
\* its load and its search.
THEOREM LookupsNameOwner == Spec => []AnswersOwner
<1>1. IInv => AnswersOwner BY DEF IInv
<1>2. QED BY <1>1, Invariance, PTL

\* What one step does to the published slice: nothing, or one file more.
LEMMA StepExtends ==
  ASSUME IInv, [Next]_vars
  PROVE  \/ files' = files
         \/ \E a \in Adders : /\ pc[a] = "store"
                              /\ files' = Append(files, file[a])
                              /\ UNCHANGED answer
<1>1. ASSUME NEW a \in Adders, AddFile(a)
      PROVE  files' = files \/ (pc[a] = "store" /\ files' = Append(files, file[a]) /\ UNCHANGED answer)
  BY <1>1 DEF AddFile, Lock, Reserve, CopySlice, Publish, Unlock, IInv, Adding, readerVars
<1>2. ASSUME NEW r \in Readers, Resolve(r) PROVE files' = files
  BY <1>2 DEF Resolve, Ask, Load, Search, adderVars
<1>3. QED BY <1>1, <1>2 DEF Next, vars

\* No step rewrites an entry of the published slice.
THEOREM SliceGrows == Spec => AppendOnly
<1>1. ASSUME IInv, [Next]_vars
      PROVE  Len(files) <= Len(files') /\ SubSeq(files', 1, Len(files)) = files
  <2>1. files \in Seq(File)
    BY <1>1 DEF IInv, TypeOK
  <2>2. CASE files' = files
    BY <2>1, <2>2
  <2>3. CASE \E a \in Adders : pc[a] = "store" /\ files' = Append(files, file[a])
    <3>1. PICK a \in Adders : pc[a] = "store" /\ files' = Append(files, file[a])
      BY <2>3
    <3>2. file[a] \in File
      BY <1>1, <3>1 DEF IInv, Adding
    <3>3. QED BY <2>1, <3>1, <3>2, AppendFacts
  <2>4. QED BY <1>1, <2>2, <2>3, StepExtends
<1>2. IInv /\ [Next]_vars => [Len(files) <= Len(files') /\ SubSeq(files', 1, Len(files)) = files]_files
  BY <1>1
<1>3. QED BY <1>2, Invariance, PTL DEF Spec, AppendOnly

\* The lock and the published snapshot implement the table whose operations
\* are atomic.
THEOREM ImplementsTable == Spec => TableSpec
<1> USE DEF Image
<1>1. Init => Table!Init
  BY DEF Init, Table!Init, NoAnswer, Table!NoAnswer
<1>2. ASSUME IInv, [Next]_vars PROVE [Table!Next]_(Table!vars)
  <2> USE <1>2
  <2>1. files \in Seq(File) /\ answer \in [Readers -> [pos : Nat, file : File \cup {NoFile}]]
    BY DEF IInv, TypeOK
  <2>2. CASE \E a \in Adders : pc[a] = "store" /\ files' = Append(files, file[a]) /\ UNCHANGED answer
    <3>1. PICK a \in Adders : pc[a] = "store" /\ files' = Append(files, file[a]) /\ UNCHANGED answer
      BY <2>2
    <3> DEFINE f == file[a]
    <3>2. /\ f \in File /\ f \notin Image(files)
          /\ \A g \in Image(files) : Owned(f) \cap Owned(g) = {}
      <4>1. f \in File /\ \A i \in DOMAIN files : files[i] \in File /\ Ends(files[i]) < f.base
        BY <2>1, <3>1 DEF IInv, Adding
      <4>2. QED BY <4>1 DEF Owned, Ends, File
    <3>3. Image(files') = Image(files) \cup {f}
      BY <2>1, <3>1, <3>2, AppendFacts
    <3>4. Table!Add
      BY <3>1, <3>2, <3>3 DEF Table!Add, Table!File, File, Table!Owned, Owned
    <3>5. QED BY <3>4 DEF Table!Next
  <2>3. CASE files' = files /\ UNCHANGED answer
    BY <2>3 DEF Table!vars
  <2>4. CASE files' = files /\ ~UNCHANGED answer
    <3>1. PICK r \in Readers : Search(r)
      BY <2>4 DEF Next, vars, AddFile, Lock, Reserve, CopySlice, Publish, Unlock,
                  Resolve, Ask, Load, readerVars
    <3>2. answer' = [answer EXCEPT ![r] = [pos |-> pos[r], file |-> SrcFile(snap[r], pos[r])]]
      BY <3>1 DEF Search
    <3>3. IInv'
      BY NextKeepsIInv
    <3>4. answer'[r] = [pos |-> pos[r], file |-> SrcFile(snap[r], pos[r])]
      BY <3>2, <2>1
    <3>5. CASE pos[r] = 0
      BY <3>2, <3>5, <2>4 DEF SrcFile, Table!Next, Table!Resolve, Table!NoAnswer
    <3>6. CASE pos[r] # 0
      <4> DEFINE f == SrcFile(snap[r], pos[r])
      <4>1. f # NoFile /\ pos[r] \in Owned(f)
        BY <3>3, <3>4, <3>6 DEF IInv, AnswersOwner
      <4>2. f \in Image(files)
        BY <3>1, <3>6, SearchFinds DEF Search
      <4>3. QED BY <4>1, <4>2, <3>2, <2>4 DEF Table!Next, Table!Resolve, Table!Owned, Owned
    <3>7. QED BY <3>5, <3>6
  <2>5. QED BY <2>2, <2>3, <2>4, StepExtends
<1>3. QED BY <1>1, <1>2, Invariance, PTL DEF Spec, TableSpec, Table!Spec

=============================================================================
