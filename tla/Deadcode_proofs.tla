--------------------------- MODULE Deadcode_proofs ---------------------------
(***************************************************************************)
(* Proofs about the linker's reachability pass, for every program: however *)
(* many symbols, types and methods, in whatever order they refer to each   *)
(* other, the pass ends with the least set of facts that is closed under   *)
(* the rules of CallsFor.  The initialisation lists that are made first    *)
(* hold the records their roots need, each once.  In front of it the       *)
(* loader gives every reference one meaning, whatever the order of the     *)
(* objects is.                                                             *)
(***************************************************************************)
EXTENDS Link, Induction

-----------------------------------------------------------------------------
(* Sequences as sets *)

\* What is in a sequence after an append.
LEMMA AppendSet ==
  ASSUME NEW S, NEW s \in Seq(S), NEW x \in S
  PROVE  Append(s, x) \in Seq(S) /\ ToSet(Append(s, x)) = ToSet(s) \cup {x}
<1>1. /\ Len(Append(s, x)) = Len(s) + 1 /\ Len(s) \in Nat
      /\ DOMAIN s = 1 .. Len(s) /\ DOMAIN Append(s, x) = 1 .. Len(s) + 1
      /\ \A i \in 1 .. Len(s) : Append(s, x)[i] = s[i]
      /\ Append(s, x)[Len(s) + 1] = x
  OBVIOUS
<1>2. \A y \in ToSet(Append(s, x)) : y \in ToSet(s) \cup {x}
  BY <1>1 DEF ToSet
<1>3. \A y \in ToSet(s) : y \in ToSet(Append(s, x))
  <2> TAKE y \in ToSet(s)
  <2>1. PICK i \in 1 .. Len(s) : y = s[i]
    BY <1>1 DEF ToSet
  <2>2. i \in DOMAIN Append(s, x) /\ Append(s, x)[i] = y
    BY <1>1, <2>1
  <2> QED BY <2>2 DEF ToSet
<1>4. x \in ToSet(Append(s, x))
  <2>1. Len(s) + 1 \in DOMAIN Append(s, x)
    BY <1>1
  <2> QED BY <1>1, <2>1 DEF ToSet
<1> QED
  BY <1>2, <1>3, <1>4

\* What is in a sequence is its last element and what is before it.
LEMMA LastSet ==
  ASSUME NEW S, NEW s \in Seq(S), s # <<>>
  PROVE  /\ Last(s) \in S /\ Front(s) \in Seq(S)
         /\ ToSet(s) = ToSet(Front(s)) \cup {Last(s)}
<1>1. /\ Len(s) \in Nat \ {0} /\ DOMAIN s = 1 .. Len(s)
      /\ Front(s) \in Seq(S) /\ DOMAIN Front(s) = 1 .. Len(s) - 1
      /\ \A i \in 1 .. Len(s) - 1 : Front(s)[i] = s[i]
      /\ Last(s) = s[Len(s)] /\ Last(s) \in S
  BY DEF Front, Last
<1>2. \A y \in ToSet(s) : y \in ToSet(Front(s)) \cup {Last(s)}
  <2> TAKE y \in ToSet(s)
  <2>1. PICK i \in 1 .. Len(s) : y = s[i]
    BY <1>1 DEF ToSet
  <2>2. CASE i = Len(s)
    BY <1>1, <2>1, <2>2
  <2>3. CASE i # Len(s)
    <3>1. i \in 1 .. Len(s) - 1
      <4>1. Len(s) \in Nat
        OBVIOUS
      <4> QED BY <4>1, <2>3
    <3>2. i \in DOMAIN Front(s) /\ Front(s)[i] = y
      BY <1>1, <2>1, <3>1
    <3> QED BY <3>2 DEF ToSet
  <2> QED BY <2>2, <2>3
<1>3. \A y \in ToSet(Front(s)) : y \in ToSet(s)
  <2> TAKE y \in ToSet(Front(s))
  <2>1. PICK i \in 1 .. Len(s) - 1 : y = s[i]
    BY <1>1 DEF ToSet
  <2>2. i \in DOMAIN s
    BY <1>1
  <2> QED BY <2>1, <2>2 DEF ToSet
<1>4. Last(s) \in ToSet(s)
  <2>1. Len(s) \in DOMAIN s
    BY <1>1
  <2> QED BY <1>1, <2>1 DEF ToSet
<1> QED
  BY <1>1, <1>2, <1>3, <1>4

\* What is in one sequence after another.
LEMMA ConcatSet ==
  ASSUME NEW S, NEW s \in Seq(S), NEW t \in Seq(S)
  PROVE  s \o t \in Seq(S) /\ ToSet(s \o t) = ToSet(s) \cup ToSet(t)
<1>1. /\ Len(s) \in Nat /\ Len(t) \in Nat
      /\ DOMAIN s = 1 .. Len(s) /\ DOMAIN t = 1 .. Len(t)
      /\ DOMAIN (s \o t) = 1 .. Len(s) + Len(t)
      /\ \A i \in 1 .. Len(s) : (s \o t)[i] = s[i]
      /\ \A i \in 1 .. Len(t) : (s \o t)[Len(s) + i] = t[i]
  OBVIOUS
<1>2. \A y \in ToSet(s \o t) : y \in ToSet(s) \cup ToSet(t)
  <2> TAKE y \in ToSet(s \o t)
  <2>1. PICK i \in 1 .. Len(s) + Len(t) : y = (s \o t)[i]
    BY <1>1 DEF ToSet
  <2>2. CASE i <= Len(s)
    <3>1. i \in DOMAIN s /\ s[i] = y
      BY <1>1, <2>1, <2>2
    <3> QED BY <3>1 DEF ToSet
  <2>3. CASE ~(i <= Len(s))
    <3>1. i - Len(s) \in 1 .. Len(t) /\ Len(s) + (i - Len(s)) = i
      BY <1>1, <2>3
    <3>2. t[i - Len(s)] = y
      BY <1>1, <2>1, <3>1
    <3> QED BY <1>1, <3>1, <3>2 DEF ToSet
  <2> QED BY <2>2, <2>3
<1>3. \A y \in ToSet(s) : y \in ToSet(s \o t)
  <2> TAKE y \in ToSet(s)
  <2>1. PICK i \in 1 .. Len(s) : y = s[i]
    BY <1>1 DEF ToSet
  <2>2. i \in DOMAIN (s \o t) /\ (s \o t)[i] = y
    BY <1>1, <2>1
  <2> QED BY <2>2 DEF ToSet
<1>4. \A y \in ToSet(t) : y \in ToSet(s \o t)
  <2> TAKE y \in ToSet(t)
  <2>1. PICK i \in 1 .. Len(t) : y = t[i]
    BY <1>1 DEF ToSet
  <2>2. Len(s) + i \in DOMAIN (s \o t) /\ (s \o t)[Len(s) + i] = y
    BY <1>1, <2>1
  <2> QED BY <2>2 DEF ToSet
<1> QED
  BY <1>2, <1>3, <1>4

\* What is in a sequence is of its type.
LEMMA MemberType ==
  ASSUME NEW S, NEW s \in Seq(S)
  PROVE  ToSet(s) \subseteq S /\ \A i \in DOMAIN s : s[i] \in ToSet(s) /\ s[i] \in S
BY DEF ToSet

-----------------------------------------------------------------------------
(* Marks *)

\* A record of marks that is consistent.
Book(k) == /\ k.mark \subseteq Syms
           /\ k.from \in [Syms -> SymOrNone]
           /\ k.n = Cardinality(k.mark)
           /\ k.queue \in Seq(Syms)
           /\ ToSet(k.queue) \subseteq k.mark
           /\ \A g \in k.mark : k.from[g] \in k.mark \cup {NoSym}

Marks == [mark : SUBSET Syms, from : [Syms -> SymOrNone], n : Nat, queue : Seq(Syms)]

\* Nothing marked is lost, and what is new is queued.
Adds(k, l) == /\ k.mark \subseteq l.mark
               /\ ToSet(k.queue) \subseteq ToSet(l.queue)
               /\ l.mark \ k.mark \subseteq ToSet(l.queue)

\* A set of symbols is finite.
LEMMA FiniteMarks ==
  ASSUME NEW S, S \subseteq Syms
  PROVE  IsFiniteSet(S) /\ Cardinality(S) \in Nat
BY SymsAssumption, FS_Subset, FS_CardinalityType

\* One more mark, of a symbol that is not marked.
LEMMA FreshMark ==
  ASSUME NEW k \in Marks, k.mark \subseteq Syms, NEW g \in Syms, g \notin k.mark, NEW p \in SymOrNone,
         k.n = Cardinality(k.mark)
  PROVE  LET l == Mark(k, g, p)
         IN  /\ l \in Marks
             /\ l.mark = k.mark \cup {g}
             /\ l.n = Cardinality(l.mark)
             /\ l.from = [k.from EXCEPT ![g] = p]
             /\ ToSet(l.queue) = ToSet(k.queue) \cup {g}
<1> DEFINE l == Mark(k, g, p)
<1>1. g # NoSym
  BY SymsAssumption
<1>2. l = [mark |-> k.mark \cup {g}, from |-> [k.from EXCEPT ![g] = p],
           n |-> k.n + 1, queue |-> Append(k.queue, g)]
  BY <1>1 DEF Mark
<1>3. Append(k.queue, g) \in Seq(Syms) /\ ToSet(Append(k.queue, g)) = ToSet(k.queue) \cup {g}
  BY AppendSet DEF Marks
<1>4. Cardinality(k.mark \cup {g}) = Cardinality(k.mark) + 1
  BY FiniteMarks, FS_AddElement
<1>5. [k.from EXCEPT ![g] = p] \in [Syms -> SymOrNone] /\ k.mark \cup {g} \subseteq Syms /\ k.n + 1 \in Nat
  BY DEF Marks
<1> HIDE DEF l
<1> QED
  BY <1>2, <1>3, <1>4, <1>5 DEF Marks, l

\* mark keeps the records consistent, and what it is given is marked.
LEMMA MarkBook ==
  ASSUME NEW k \in Marks, Book(k), NEW g \in SymOrNone, NEW p \in k.mark \cup {NoSym}
  PROVE  LET l == Mark(k, g, p)
         IN  /\ l \in Marks /\ Book(l) /\ Adds(k, l)
             /\ l.mark \cup {NoSym} = k.mark \cup {g, NoSym}
<1> DEFINE l == Mark(k, g, p)
<1>1. CASE g = NoSym \/ g \in k.mark
  <2>1. l = k
    BY <1>1 DEF Mark
  <2> QED BY <1>1, <2>1 DEF Adds
<1>2. CASE ~(g = NoSym \/ g \in k.mark)
  <2>1. g \in Syms /\ p \in SymOrNone /\ k.mark \subseteq Syms /\ k.n = Cardinality(k.mark)
    BY <1>2 DEF Book, SymOrNone
  <2>2. /\ l \in Marks
        /\ l.mark = k.mark \cup {g}
        /\ l.n = Cardinality(l.mark)
        /\ l.from = [k.from EXCEPT ![g] = p]
        /\ ToSet(l.queue) = ToSet(k.queue) \cup {g}
    BY <1>2, <2>1, FreshMark
  <2> HIDE DEF l
  <2>3. \A h \in l.mark : l.from[h] \in l.mark \cup {NoSym}
    BY <2>1, <2>2 DEF Book
  <2>4. Book(l) /\ Adds(k, l)
    BY <2>2, <2>3 DEF Book, Adds, Marks
  <2> QED BY <2>2, <2>4 DEF l
<1> QED
  BY <1>1, <1>2

\* A symbol that is unmarked and marked again is queued, and nothing else changes
\* but what reached it.
LEMMA AgainBook ==
  ASSUME NEW k \in Marks, Book(k), NEW g \in Syms, NEW p \in k.mark \cup {NoSym}
  PROVE  LET l == Mark(Unmark(k, g), g, p)
         IN  /\ l \in Marks /\ Book(l) /\ Adds(k, l)
             /\ l.mark = k.mark \cup {g}
             /\ g \in ToSet(l.queue)
<1> DEFINE u == Unmark(k, g)
           l == Mark(u, g, p)
<1>1. /\ u \in Marks /\ u.mark = k.mark \ {g} /\ u.n = Cardinality(u.mark)
      /\ u.from = k.from /\ u.queue = k.queue
  <2>1. CASE g \in k.mark
    <3>1. /\ u.mark = k.mark \ {g} /\ u.n = k.n - 1 /\ u.from = k.from /\ u.queue = k.queue
          /\ u = [mark |-> k.mark \ {g}, from |-> k.from, n |-> k.n - 1, queue |-> k.queue]
      BY <2>1 DEF Unmark, Marks
    <3>2. Cardinality(k.mark \ {g}) = Cardinality(k.mark) - 1 /\ Cardinality(k.mark \ {g}) \in Nat
      BY <2>1, FiniteMarks, FS_RemoveElement DEF Book
    <3> QED BY <3>1, <3>2 DEF Book, Marks
  <2>2. CASE g \notin k.mark
    <3>1. u = k /\ k.mark \ {g} = k.mark
      BY <2>2 DEF Unmark
    <3> QED BY <3>1 DEF Book
  <2> QED BY <2>1, <2>2
<1>2. p \in SymOrNone /\ u.mark \subseteq Syms /\ g \notin u.mark
  BY <1>1 DEF Book, SymOrNone
<1> HIDE DEF u
<1>3. /\ l \in Marks
      /\ l.mark = u.mark \cup {g}
      /\ l.n = Cardinality(l.mark)
      /\ l.from = [u.from EXCEPT ![g] = p]
      /\ ToSet(l.queue) = ToSet(u.queue) \cup {g}
  BY <1>1, <1>2, FreshMark
<1> HIDE DEF l
<1>4. l.mark = k.mark \cup {g} /\ ToSet(l.queue) = ToSet(k.queue) \cup {g}
  BY <1>1, <1>3
<1>5. \A h \in l.mark : l.from[h] \in l.mark \cup {NoSym}
  BY <1>1, <1>3, <1>4 DEF Book
<1>6. Book(l) /\ Adds(k, l)
  BY <1>3, <1>4, <1>5 DEF Book, Adds, Marks
<1> QED
  BY <1>3, <1>4, <1>6 DEF l, u

\* A type that gets the attribute is queued if it is marked.
LEMMA RewalkBook ==
  ASSUME NEW k \in Marks, Book(k), NEW g \in Syms, NEW p \in k.mark \cup {NoSym}
  PROVE  LET l == Rewalk(k, g, p)
         IN  /\ l \in Marks /\ Book(l) /\ Adds(k, l)
             /\ l.mark = k.mark
             /\ g \in k.mark => g \in ToSet(l.queue)
<1>1. CASE g \in k.mark
  <2> DEFINE l == Mark(Unmark(k, g), g, p)
  <2>1. l \in Marks /\ Book(l) /\ Adds(k, l) /\ l.mark = k.mark \cup {g} /\ g \in ToSet(l.queue)
    BY AgainBook
  <2>2. Rewalk(k, g, p) = l
    BY <1>1 DEF Rewalk
  <2> HIDE DEF l
  <2>3. l.mark = k.mark
    BY <1>1, <2>1
  <2> QED BY <2>1, <2>2, <2>3
<1>2. CASE g \notin k.mark
  <2>1. Rewalk(k, g, p) = k
    BY <1>2 DEF Rewalk
  <2> QED BY <1>2, <2>1 DEF Adds
<1> QED
  BY <1>1, <1>2

\* The three symbols of a method.
Three(m) == {m.sym, m.fns[1], m.fns[2]}

\* Marking the three relocations of a method keeps the books, and only adds to them.
LEMMA MarkMethodBook ==
  ASSUME NEW k \in Marks, Book(k), NEW p \in k.mark, NEW m, Three(m) \subseteq SymOrNone
  PROVE  LET l == MarkMethod(k, p, m)
         IN  /\ l \in Marks /\ Book(l) /\ Adds(k, l)
             /\ l.mark \cup {NoSym} = k.mark \cup Three(m) \cup {NoSym}
<1> DEFINE a == Mark(k, m.sym, p)
           b == Mark(a, m.fns[1], p)
           c == Mark(b, m.fns[2], p)
<1>1. m.sym \in SymOrNone /\ m.fns[1] \in SymOrNone /\ m.fns[2] \in SymOrNone
  BY DEF Three
<1>2. a \in Marks /\ Book(a) /\ Adds(k, a) /\ a.mark \cup {NoSym} = k.mark \cup {m.sym, NoSym}
  BY <1>1, MarkBook
<1> HIDE DEF a
<1>3. b \in Marks /\ Book(b) /\ Adds(a, b) /\ b.mark \cup {NoSym} = a.mark \cup {m.fns[1], NoSym}
  BY <1>1, <1>2, MarkBook DEF Adds
<1> HIDE DEF b
<1>4. c \in Marks /\ Book(c) /\ Adds(b, c) /\ c.mark \cup {NoSym} = b.mark \cup {m.fns[2], NoSym}
  BY <1>1, <1>2, <1>3, MarkBook DEF Adds
<1> HIDE DEF c
<1>5. Adds(k, c)
  BY <1>2, <1>3, <1>4 DEF Adds
<1>6. c.mark \cup {NoSym} = k.mark \cup Three(m) \cup {NoSym}
  BY <1>2, <1>3, <1>4 DEF Three
<1>7. MarkMethod(k, p, m) = c
  BY DEF MarkMethod, a, b, c
<1> QED
  BY <1>4, <1>5, <1>6, <1>7

-----------------------------------------------------------------------------
(* The steps of a walk *)

StepRec == [type : Kinds \cup {"KEEP", "DECIDE"}, sym : SymOrNone, sig : Sigs \cup {NoSig},
            fns : SymOrNone \X SymOrNone]

KeepStep(s) == [type |-> "KEEP", sym |-> s, sig |-> NoSig, fns |-> <<NoSym, NoSym>>]
Decision(r) == IF r.type = "METHODOFF" THEN Step("DECIDE", r) ELSE Step("WEAK", r)

\* What the walk of g does, in no order.
AllSteps(g) ==
  {KeepStep(s) : s \in ToSet(extra[g])} \cup
  IF g \in {MainTasks, RuntimeTasks} THEN {KeepStep(s) : s \in ToSet(targets[g])}
  ELSE IF g \in prog.defined
       THEN ToSet(prog.relocs[g]) \cup {KeepStep(s) : s \in ToSet(prog.aux[g])}
            \cup {Decision(r) : r \in ToSet(prog.relocs[g])}
       ELSE {}

\* The parts of a program the proofs use, with their types.
LEMMA Parts ==
  ASSUME IsProgram(prog)
  PROVE  /\ prog.relocs \in [Syms -> Seq(Reloc)] /\ prog.aux \in [Syms -> Seq(SymOrNone)]
         /\ prog.roots \in Seq(SymOrNone)
         /\ prog.types \subseteq prog.defined /\ prog.defined \subseteq Syms
         /\ prog.itabType \in [Syms -> SymOrNone] /\ prog.nameIn \in [Syms -> Names]
         /\ prog.iface \subseteq Syms /\ prog.itabs \subseteq Syms
         /\ prog.tasks \in [{MainTasks, RuntimeTasks} -> SymOrNone]
         /\ prog.noop \in SymOrNone
         /\ MainTasks \notin prog.defined /\ RuntimeTasks \notin prog.defined
         /\ \A g \in prog.decoded \cap Syms : \A r \in ToSet(prog.relocs[g]) :
               r.type = "METHODOFF" => r.sig \in Sigs
         /\ \A g \in Syms : ToSet(prog.relocs[g]) \subseteq Reloc
         /\ \A g \in Syms : ToSet(prog.aux[g]) \subseteq SymOrNone
<1>1. prog \in Program
  BY DEF IsProgram
<1>2. /\ prog.relocs \in [Syms -> Seq(Reloc)] /\ prog.aux \in [Syms -> Seq(SymOrNone)]
      /\ prog.roots \in Seq(SymOrNone)
      /\ prog.defined \subseteq Syms
      /\ prog.itabType \in [Syms -> SymOrNone] /\ prog.nameIn \in [Syms -> Names]
      /\ prog.iface \subseteq Syms /\ prog.itabs \subseteq Syms
      /\ prog.tasks \in [{MainTasks, RuntimeTasks} -> SymOrNone]
      /\ prog.noop \in SymOrNone
  BY <1>1 DEF Program
<1>3. \A g \in Syms : ToSet(prog.relocs[g]) \subseteq Reloc
  BY <1>2, MemberType
<1>4. \A g \in Syms : ToSet(prog.aux[g]) \subseteq SymOrNone
  BY <1>2, MemberType
<1>5. /\ prog.types \subseteq prog.defined
      /\ MainTasks \notin prog.defined /\ RuntimeTasks \notin prog.defined
      /\ \A g \in prog.decoded \cap Syms : \A r \in ToSet(prog.relocs[g]) :
            r.type = "METHODOFF" => r.sig \in Sigs
  BY DEF IsProgram
<1> QED
  BY <1>2, <1>3, <1>4, <1>5

\* Keeping and Deciding turn each element of a sequence into a step.
LEMMA KeepingSet ==
  ASSUME NEW s, NEW S, S \subseteq SymOrNone, s \in Seq(S)
  PROVE  Keeping(s) \in Seq(StepRec) /\ ToSet(Keeping(s)) = {KeepStep(x) : x \in ToSet(s)}
<1>1. /\ Len(s) \in Nat /\ DOMAIN s = 1 .. Len(s)
      /\ \A i \in 1 .. Len(s) : s[i] \in SymOrNone
  OBVIOUS
<1>2. Keeping(s) = [i \in 1 .. Len(s) |-> KeepStep(s[i])]
  BY <1>1 DEF Keeping, KeepStep
<1>3. \A x \in SymOrNone : KeepStep(x) \in StepRec
  BY DEF KeepStep, StepRec, SymOrNone
<1>4. Keeping(s) \in Seq(StepRec)
  BY <1>1, <1>2, <1>3
<1>5. ToSet(Keeping(s)) = {KeepStep(x) : x \in ToSet(s)}
  BY <1>1, <1>2 DEF ToSet
<1> QED
  BY <1>4, <1>5

\* The steps Deciding lists are the decisions of the relocations, each of them.
LEMMA DecidingSet ==
  ASSUME NEW s \in Seq(Reloc)
  PROVE  Deciding(s) \in Seq(StepRec) /\ ToSet(Deciding(s)) = {Decision(r) : r \in ToSet(s)}
<1>1. /\ Len(s) \in Nat /\ DOMAIN s = 1 .. Len(s)
      /\ \A i \in 1 .. Len(s) : s[i] \in Reloc
  OBVIOUS
<1>2. Deciding(s) = [i \in 1 .. Len(s) |-> Decision(s[i])]
  BY <1>1 DEF Deciding, Decision
<1>3. \A r \in Reloc : Decision(r) \in StepRec
  BY DEF Decision, Step, StepRec, Reloc, Kinds
<1>4. Deciding(s) \in Seq(StepRec)
  BY <1>1, <1>2, <1>3
<1>5. ToSet(Deciding(s)) = {Decision(r) : r \in ToSet(s)}
  BY <1>1, <1>2 DEF ToSet
<1> QED
  BY <1>4, <1>5

\* The steps of a walk, as a sequence and as a set.
LEMMA StepsSet ==
  ASSUME IsProgram(prog), extra \in [Syms -> Seq(Syms)], targets \in [Syms -> Seq(Syms)], NEW g \in Syms
  PROVE  Steps(g) \in Seq(StepRec) /\ ToSet(Steps(g)) = AllSteps(g)
<1> DEFINE e == Keeping(extra[g])
           t == Keeping(targets[g])
           a == Keeping(prog.aux[g])
           d == Deciding(prog.relocs[g])
           r == prog.relocs[g]
           ra == r \o a
           all == ra \o d
<1>1. e \in Seq(StepRec) /\ ToSet(e) = {KeepStep(s) : s \in ToSet(extra[g])}
  BY KeepingSet DEF SymOrNone
<1>2. t \in Seq(StepRec) /\ ToSet(t) = {KeepStep(s) : s \in ToSet(targets[g])}
  BY KeepingSet DEF SymOrNone
<1>3. a \in Seq(StepRec) /\ ToSet(a) = {KeepStep(s) : s \in ToSet(prog.aux[g])}
  BY KeepingSet, Parts
<1>4. d \in Seq(StepRec) /\ ToSet(d) = {Decision(s) : s \in ToSet(prog.relocs[g])}
  BY DecidingSet, Parts
<1>5. r \in Seq(StepRec)
  <2>1. r \in Seq(Reloc)
    BY Parts
  <2>2. Reloc \subseteq StepRec
    BY DEF Reloc, StepRec
  <2> HIDE DEF r
  <2> QED BY <2>1, <2>2
<1>6. <<>> \in Seq(StepRec) /\ ToSet(<<>>) = {}
  <2>1. DOMAIN <<>> = {}
    OBVIOUS
  <2> QED BY <2>1 DEF ToSet
<1>7. Steps(g) = e \o IF g \in {MainTasks, RuntimeTasks} THEN t
                      ELSE IF g \in prog.defined THEN all ELSE <<>>
  BY DEF Steps
<1>8. AllSteps(g) = ToSet(e) \cup IF g \in {MainTasks, RuntimeTasks} THEN ToSet(t)
                                  ELSE IF g \in prog.defined THEN ToSet(r) \cup ToSet(a) \cup ToSet(d) ELSE {}
  BY <1>1, <1>2, <1>3, <1>4 DEF AllSteps
<1>9. all \in Seq(StepRec) /\ ToSet(all) = ToSet(r) \cup ToSet(a) \cup ToSet(d)
  <2> HIDE DEF r, a, d
  <2>1. ra \in Seq(StepRec) /\ ToSet(ra) = ToSet(r) \cup ToSet(a)
    BY <1>3, <1>5, ConcatSet
  <2> HIDE DEF ra
  <2>2. all \in Seq(StepRec) /\ ToSet(all) = ToSet(ra) \cup ToSet(d)
    BY <1>4, <2>1, ConcatSet
  <2> QED BY <2>1, <2>2
<1> HIDE DEF e, t, a, d, r, ra, all
<1>10. CASE g \in {MainTasks, RuntimeTasks}
  <2>1. e \o t \in Seq(StepRec) /\ ToSet(e \o t) = ToSet(e) \cup ToSet(t)
    BY <1>1, <1>2, ConcatSet
  <2> QED BY <1>7, <1>8, <1>10, <2>1
<1>11. CASE g \notin {MainTasks, RuntimeTasks} /\ g \in prog.defined
  <2>1. e \o all \in Seq(StepRec) /\ ToSet(e \o all) = ToSet(e) \cup ToSet(all)
    BY <1>1, <1>9, ConcatSet
  <2> QED BY <1>7, <1>8, <1>9, <1>11, <2>1
<1>12. CASE g \notin {MainTasks, RuntimeTasks} /\ g \notin prog.defined
  <2>1. e \o <<>> \in Seq(StepRec) /\ ToSet(e \o <<>>) = ToSet(e) \cup ToSet(<<>>)
    BY <1>1, <1>6, ConcatSet
  <2> QED BY <1>6, <1>7, <1>8, <1>12, <2>1
<1> QED
  BY <1>10, <1>11, <1>12

-----------------------------------------------------------------------------
(* The ledger: what the pass holds is consistent *)

Waiting == [src : Syms, method : StepRec]

Types == /\ TypeOK
         /\ markable \in Seq(Waiting) /\ rem \in Seq(Waiting)
         /\ walks \in [Syms -> Nat]

IsInIface(g) == g \in prog.types /\ g \in usedInIface

\* A method that waits is one of a kept type that reached an interface.
MayWait(w) == /\ w.src \in mark \cap prog.decoded /\ IsInIface(w.src)
              /\ \E r \in ToSet(prog.relocs[w.src]) : r.type = "METHODOFF" /\ w.method = Step("DECIDE", r)

Ledger == /\ Types
          /\ Book(Now)
          /\ cur \in mark \cup {NoWalk}
          /\ phase # "flood" => cur = NoWalk
          /\ used => cur # NoWalk /\ IsInIface(cur)
          /\ ToSet(pkginits) \subseteq mark
          /\ \A w \in ToSet(markable) \cup ToSet(rem) : MayWait(w)
          /\ phase # "round" => rem = <<>>

\* The methods that wait: in a round, those it has not come to and those it
\* left.
Pending == IF phase = "round"
           THEN {markable[i] : i \in {j \in DOMAIN markable : j >= at}} \cup ToSet(rem)
           ELSE ToSet(markable)

\* The step s of a walk of g, with the attribute or not, left nothing to do.
Done(g, s, u) ==
  /\ s.type \in {"KEEP", "ADDR"} => s.sym \in mark \cup {NoSym}
  /\ s.type = "ADDR" /\ u /\ s.sym \in prog.types => s.sym \in usedInIface
  /\ s.type = "USEIFACE" => Marked(s.sym) \in usedInIface \cup {NoSym}
  /\ s.type = "USEIFACEMETHOD" /\ s.sym \in prog.defined /\ s.sig # NoSig => s.sig \in ifaceMethod
  /\ s.type = "USENAMEDMETHOD" /\ s.sym \in prog.defined => prog.nameIn[s.sym] \in genericIfaceMethod
  /\ s.type = "METHODOFF" /\ u => s.sym \in usedInIface \cup {NoSym}
  /\ s.type = "DECIDE" /\ u => \/ g \in prog.decoded /\ [src |-> g, method |-> s] \in Pending
                               \/ Three(s) \subseteq mark \cup {NoSym}

\* What every step of a walk does: it adds to what there is, queues what it
\* marks and what gets the attribute, and does what the step asks for.
Added ==
  /\ Now' \in Marks /\ Book(Now') /\ Adds(Now, Now')
  /\ usedInIface \subseteq usedInIface' /\ usedInIface' \subseteq Syms
  /\ \A g \in usedInIface' \ usedInIface : g \in mark => g \in ToSet(queue')
  /\ ifaceMethod \subseteq ifaceMethod' /\ ifaceMethod' \subseteq Sigs
  /\ genericIfaceMethod \subseteq genericIfaceMethod' /\ genericIfaceMethod' \subseteq Names
  /\ reflectSeen' = reflectSeen
  /\ markable' \in Seq(Waiting)
  /\ ToSet(markable) \subseteq ToSet(markable')
  /\ \A w \in ToSet(markable') \ ToSet(markable) :
        w = [src |-> cur, method |-> Here] /\ used /\ cur \in prog.decoded /\ Here.type = "DECIDE"

AnyStep == Ignore \/ Keep \/ Reference \/ UseIface \/ MethodType \/ UseIfaceMethod \/ UseNamedMethod \/ Decide

\* What an action makes of the marks is what they are after it.
LEMMA BecomesNow ==
  ASSUME NEW k \in Marks
  PROVE  Becomes(k) => Now' = k
<1>1. k = [mark |-> k.mark, from |-> k.from, n |-> k.n, queue |-> k.queue]
  BY DEF Marks
<1> QED
  BY <1>1 DEF Becomes, Now

\* The books are in order as the ledger says, ...
LEMMA NowMarks ==
  ASSUME Ledger
  PROVE  /\ Now \in Marks /\ Book(Now)
         /\ Now.mark = mark /\ Now.queue = queue /\ Now.from = from /\ Now.n = n
BY DEF Ledger, Types, TypeOK, Now, Marks

\* The step at the program counter, with its type.
LEMMA HereFacts ==
  ASSUME Ledger, NEW types, Walking(types)
  PROVE  /\ cur \in Syms /\ cur \in mark
         /\ Here \in StepRec /\ Here \in AllSteps(cur) /\ Here.type \in types
         /\ Here.sym \in SymOrNone /\ Here.sig \in Sigs \cup {NoSig} /\ Three(Here) \subseteq SymOrNone
         /\ UNCHANGED fixed
<1>1. cur \in Syms /\ cur \in mark
  BY DEF Walking, Ledger, Types, TypeOK
<1>2. Steps(cur) \in Seq(StepRec) /\ ToSet(Steps(cur)) = AllSteps(cur)
  BY <1>1, StepsSet DEF Ledger, Types, TypeOK
<1>3. at \in DOMAIN Steps(cur) /\ Here.type \in types /\ UNCHANGED fixed
  BY DEF Walking
<1>4. Here \in ToSet(Steps(cur)) /\ Here \in StepRec
  BY <1>2, <1>3, MemberType DEF Here
<1>5. Here.sym \in SymOrNone /\ Here.sig \in Sigs \cup {NoSig} /\ Three(Here) \subseteq SymOrNone
  BY <1>4 DEF StepRec, Three
<1> QED
  BY <1>1, <1>2, <1>3, <1>4, <1>5

\* setUsedInIface.
LEMMA SetUsed ==
  ASSUME Ledger, cur \in mark, NEW g \in SymOrNone, SetUsedInIface(g)
  PROVE  /\ Now' \in Marks /\ Book(Now') /\ Adds(Now, Now')
         /\ usedInIface \subseteq usedInIface' /\ usedInIface' \subseteq Syms
         /\ \A h \in usedInIface' \ usedInIface : h \in mark => h \in ToSet(queue')
         /\ g \in usedInIface' \cup {NoSym}
         /\ mark' = mark /\ usedInIface' \ usedInIface \subseteq {g} \ {NoSym}
<1>1. usedInIface \subseteq Syms
  BY DEF Ledger, Types, TypeOK
<1>2. CASE g = NoSym \/ g \in usedInIface
  <2>1. UNCHANGED <<usedInIface, marks>>
    BY <1>2 DEF SetUsedInIface
  <2>2. Now' = Now
    BY <2>1 DEF Now, marks
  <2>3. Adds(Now, Now)
    BY DEF Adds
  <2> QED BY <1>1, <1>2, <2>1, <2>2, <2>3, NowMarks DEF marks
<1>3. CASE ~(g = NoSym \/ g \in usedInIface)
  <2> DEFINE k == Rewalk(Now, g, cur)
  <2>1. g \in Syms
    BY <1>3 DEF SymOrNone
  <2>2. usedInIface' = usedInIface \cup {g} /\ Becomes(k)
    BY <1>3 DEF SetUsedInIface
  <2>3. /\ k \in Marks /\ Book(k) /\ Adds(Now, k) /\ k.mark = mark
        /\ g \in mark => g \in ToSet(k.queue)
    BY <2>1, NowMarks, RewalkBook
  <2> HIDE DEF k
  <2>4. Now' = k /\ mark' = k.mark /\ queue' = k.queue
    BY <2>2, <2>3, BecomesNow DEF Becomes
  <2> QED BY <1>1, <1>3, <2>1, <2>2, <2>3, <2>4
<1> QED
  BY <1>2, <1>3

\* Every step of a walk adds, and does what it is for.
LEMMA StepAdds ==
  ASSUME Ledger, AnyStep, NEW g \in {cur}, NEW s \in {Here}, NEW u \in {used}
  PROVE  Added /\ Done(g, s, u)'
<1>1. PICK types : Walking(types)
  BY DEF AnyStep, Ignore, Keep, Reference, UseIface, MethodType, UseIfaceMethod, UseNamedMethod, Decide
<1>2. /\ cur \in Syms /\ cur \in mark
      /\ Here \in StepRec
      /\ Here.sym \in SymOrNone /\ Here.sig \in Sigs \cup {NoSig} /\ Three(Here) \subseteq SymOrNone
      /\ prog' = prog /\ phase = "flood" /\ phase' = "flood"
  BY <1>1, HereFacts DEF fixed, Walking
<1>3. /\ Now \in Marks /\ Book(Now) /\ Now.mark = mark /\ Now.queue = queue
      /\ cur \in Now.mark \cup {NoSym} /\ Adds(Now, Now)
  BY <1>2, NowMarks DEF Adds
<1>4. /\ usedInIface \subseteq Syms /\ ifaceMethod \subseteq Sigs /\ genericIfaceMethod \subseteq Names
      /\ markable \in Seq(Waiting) /\ IsProgram(prog)
  BY DEF Ledger, Types, TypeOK
<1>5. \A x \in SymOrNone : Marked(x)' = Marked(x)
  BY <1>2 DEF Marked
<1>6. UNCHANGED marks => Now' = Now
  BY DEF Now, marks
<1>7. CASE Ignore
  <2>1. /\ UNCHANGED <<marks, usedInIface, calls, markable>>
        /\ Here.type \in {"WEAK", "WEAKCALL", "USETYPE", "INITORDER"} \cup IF used THEN {} ELSE {"METHODOFF", "DECIDE"}
    BY <1>7 DEF Ignore, Walking
  <2>2. Added
    BY <1>3, <1>4, <1>6, <2>1 DEF Added, calls, marks
  <2>3. Done(g, s, u)'
    BY <2>1 DEF Done
  <2> QED BY <2>2, <2>3
<1>8. CASE Keep
  <2> DEFINE k == Mark(Now, Here.sym, cur)
  <2>1. /\ Becomes(k) /\ UNCHANGED <<usedInIface, calls, markable>> /\ Here.type = "KEEP"
    BY <1>8 DEF Keep, Walking
  <2>2. k \in Marks /\ Book(k) /\ Adds(Now, k) /\ k.mark \cup {NoSym} = Now.mark \cup {Here.sym, NoSym}
    BY <1>2, <1>3, MarkBook
  <2> HIDE DEF k
  <2>3. Now' = k /\ mark' = k.mark
    BY <2>1, <2>2, BecomesNow DEF Becomes
  <2>4. Added
    BY <1>3, <1>4, <2>1, <2>2, <2>3 DEF Added, calls
  <2>5. Done(g, s, u)'
    BY <2>1, <2>2, <2>3 DEF Done
  <2> QED BY <2>4, <2>5
<1>9. CASE Reference
  <2> DEFINE rs == Here.sym
             k  == Mark(IF Inherits(rs) THEN Unmark(Now, rs) ELSE Now, rs, cur)
  <2>1. /\ usedInIface' = usedInIface \cup IF Inherits(rs) THEN {rs} ELSE {}
        /\ Becomes(k) /\ UNCHANGED <<calls, markable>> /\ Here.type = "ADDR"
    BY <1>9 DEF Reference, Walking
  <2>2. /\ k \in Marks /\ Book(k) /\ Adds(Now, k) /\ k.mark \cup {NoSym} = Now.mark \cup {rs, NoSym}
        /\ Inherits(rs) => rs \in Syms /\ rs \in ToSet(k.queue)
    <3>1. CASE Inherits(rs)
      <4>1. rs \in Syms
        BY <1>4, <3>1, Parts DEF Inherits
      <4> HIDE DEF rs
      <4>2. k = Mark(Unmark(Now, rs), rs, cur)
        BY <3>1
      <4> QED BY <1>3, <4>1, <4>2, AgainBook
    <3>2. CASE ~Inherits(rs)
      <4>1. rs \in SymOrNone
        BY <1>2
      <4> HIDE DEF rs
      <4>2. k = Mark(Now, rs, cur)
        BY <3>2
      <4> QED BY <1>3, <3>2, <4>1, <4>2, MarkBook
    <3> QED BY <3>1, <3>2
  <2> HIDE DEF k
  <2>3. Now' = k /\ mark' = k.mark /\ queue' = k.queue
    BY <2>1, <2>2, BecomesNow DEF Becomes
  <2>4. Added
    BY <1>3, <1>4, <2>1, <2>2, <2>3 DEF Added, calls
  <2>5. Done(g, s, u)'
    BY <1>2, <1>3, <2>1, <2>2, <2>3 DEF Done, Inherits
  <2> QED BY <2>4, <2>5
<1>10. CASE UseIface
  <2>1. SetUsedInIface(Marked(Here.sym)) /\ UNCHANGED <<calls, markable>> /\ Here.type = "USEIFACE"
    BY <1>10 DEF UseIface, Walking
  <2>2. Marked(Here.sym) \in SymOrNone
    BY <1>2, <1>4, Parts DEF Marked
  <2>3. /\ Now' \in Marks /\ Book(Now') /\ Adds(Now, Now')
        /\ usedInIface \subseteq usedInIface' /\ usedInIface' \subseteq Syms
        /\ \A h \in usedInIface' \ usedInIface : h \in mark => h \in ToSet(queue')
        /\ Marked(Here.sym) \in usedInIface' \cup {NoSym}
    BY <1>2, <2>1, <2>2, SetUsed
  <2>4. Added
    BY <1>3, <1>4, <2>1, <2>3 DEF Added, calls
  <2>5. Done(g, s, u)'
    BY <1>2, <1>5, <2>1, <2>3 DEF Done
  <2> QED BY <2>4, <2>5
<1>11. CASE MethodType
  <2>1. SetUsedInIface(Here.sym) /\ UNCHANGED <<calls, markable>> /\ Here.type = "METHODOFF"
    BY <1>11 DEF MethodType, Walking
  <2>2. /\ Now' \in Marks /\ Book(Now') /\ Adds(Now, Now')
        /\ usedInIface \subseteq usedInIface' /\ usedInIface' \subseteq Syms
        /\ \A h \in usedInIface' \ usedInIface : h \in mark => h \in ToSet(queue')
        /\ Here.sym \in usedInIface' \cup {NoSym}
    BY <1>2, <2>1, SetUsed
  <2>3. Added
    BY <1>3, <1>4, <2>1, <2>2 DEF Added, calls
  <2>4. Done(g, s, u)'
    BY <2>1, <2>2 DEF Done
  <2> QED BY <2>3, <2>4
<1>12. CASE UseIfaceMethod
  <2>1. /\ ifaceMethod' = ifaceMethod \cup IF Here.sym \in prog.defined /\ Here.sig # NoSig THEN {Here.sig} ELSE {}
        /\ UNCHANGED <<marks, usedInIface, genericIfaceMethod, reflectSeen, markable>> /\ Here.type = "USEIFACEMETHOD"
    BY <1>12 DEF UseIfaceMethod, Walking
  <2>2. Added
    BY <1>2, <1>3, <1>4, <1>6, <2>1 DEF Added, marks
  <2>3. Done(g, s, u)'
    BY <1>2, <2>1 DEF Done
  <2> QED BY <2>2, <2>3
<1>13. CASE UseNamedMethod
  <2>1. /\ genericIfaceMethod' = genericIfaceMethod \cup IF Here.sym \in prog.defined THEN {prog.nameIn[Here.sym]} ELSE {}
        /\ UNCHANGED <<marks, usedInIface, ifaceMethod, reflectSeen, markable>> /\ Here.type = "USENAMEDMETHOD"
    BY <1>13 DEF UseNamedMethod, Walking
  <2>2. Here.sym \in prog.defined => prog.nameIn[Here.sym] \in Names
    BY <1>4, Parts
  <2>3. Added
    BY <1>3, <1>4, <1>6, <2>1, <2>2 DEF Added, marks
  <2>4. Done(g, s, u)'
    BY <1>2, <2>1 DEF Done
  <2> QED BY <2>3, <2>4
<1>14. CASE Decide
  <2>1. UNCHANGED <<usedInIface, calls>> /\ Here.type = "DECIDE" /\ used
    BY <1>14 DEF Decide, Walking
  <2>2. CASE cur \in prog.decoded
    <3> DEFINE w == [src |-> cur, method |-> Here]
    <3>1. markable' = Append(markable, w) /\ UNCHANGED marks
      BY <1>14, <2>2 DEF Decide
    <3>2. w \in Waiting
      BY <1>2 DEF Waiting
    <3>3. markable' \in Seq(Waiting) /\ ToSet(markable') = ToSet(markable) \cup {w}
      BY <1>4, <3>1, <3>2, AppendSet
    <3>4. Added
      BY <1>3, <1>4, <1>6, <2>1, <2>2, <3>1, <3>3 DEF Added, calls, marks
    <3>5. Done(g, s, u)'
      BY <1>2, <2>1, <2>2, <3>3 DEF Done, Pending
    <3> QED BY <3>4, <3>5
  <2>3. CASE cur \notin prog.decoded
    <3> DEFINE k == MarkMethod(Now, cur, Here)
    <3>1. Becomes(k) /\ UNCHANGED markable
      BY <1>14, <2>3 DEF Decide
    <3>2. k \in Marks /\ Book(k) /\ Adds(Now, k) /\ k.mark \cup {NoSym} = Now.mark \cup Three(Here) \cup {NoSym}
      BY <1>2, <1>3, MarkMethodBook
    <3> HIDE DEF k
    <3>3. Now' = k /\ mark' = k.mark
      BY <3>1, <3>2, BecomesNow DEF Becomes
    <3>4. Added
      BY <1>3, <1>4, <2>1, <3>1, <3>2, <3>3 DEF Added, calls
    <3>5. Done(g, s, u)'
      BY <2>1, <3>2, <3>3 DEF Done
    <3> QED BY <3>4, <3>5
  <2> QED BY <2>2, <2>3
<1> QED
  BY <1>7, <1>8, <1>9, <1>10, <1>11, <1>12, <1>13, <1>14 DEF AnyStep

\* A decision in a walk is about a method of the type.
LEMMA DecideOrigin ==
  ASSUME IsProgram(prog), NEW g \in Syms, NEW s \in AllSteps(g), s.type = "DECIDE"
  PROVE  \E r \in ToSet(prog.relocs[g]) : r.type = "METHODOFF" /\ s = Step("DECIDE", r)
<1>1. \A x : KeepStep(x).type = "KEEP"
  BY DEF KeepStep
<1>2. \A r \in Reloc : r.type \in Kinds /\ r.type # "DECIDE"
  BY DEF Reloc, Kinds
<1>3. \A r \in Reloc : Decision(r).type = "DECIDE" => r.type = "METHODOFF" /\ Decision(r) = Step("DECIDE", r)
  BY DEF Decision, Step, Reloc
<1>4. ToSet(prog.relocs[g]) \subseteq Reloc
  BY Parts
<1> QED
  BY <1>1, <1>2, <1>3, <1>4 DEF AllSteps

\* A method that may wait may go on waiting as marks and attributes are added.
LEMMA MayWaitStays ==
  ASSUME NEW w, MayWait(w), prog' = prog, mark \subseteq mark', usedInIface \subseteq usedInIface'
  PROVE  MayWait(w)'
BY DEF MayWait, IsInIface

\* ... and after a step it is enough to know that the new ones are marks.
LEMMA NowMarksNext ==
  ASSUME Now' \in Marks
  PROVE  /\ mark' \subseteq Syms /\ from' \in [Syms -> SymOrNone] /\ n' \in Nat /\ queue' \in Seq(Syms)
         /\ Now'.mark = mark' /\ Now'.queue = queue'
BY DEF Now, Marks

\* The imports of a record are symbols.
LEMMA ImportsType ==
  ASSUME IsProgram(prog), NEW g \in Syms
  PROVE  Imports(g) \subseteq Syms
<1>1. \A r \in ToSet(prog.relocs[g]) : r.sym \in SymOrNone
  BY Parts DEF Reloc
<1> QED
  BY <1>1 DEF Imports, SymOrNone

\* The state the pass starts from is consistent.
LEMMA InitLedger == Init => Ledger
<1> SUFFICES ASSUME Init PROVE Ledger
  OBVIOUS
<1>1. prog.tasks \in [{MainTasks, RuntimeTasks} -> SymOrNone] /\ prog.iface \subseteq Syms
  BY Parts DEF Init
<1>2. TypeOK
  <2>1. /\ extra \in [Syms -> Seq(Syms)] /\ targets \in [Syms -> Seq(Syms)]
        /\ from \in [Syms -> SymOrNone]
    BY DEF Init, SymOrNone
  <2>2. prog.tasks[MainTasks] \in SymOrNone
    BY <1>1
  <2>3. records \subseteq Syms
    BY <2>2 DEF Init, SymOrNone
  <2>4. usedInIface \subseteq Syms
    BY <1>1 DEF Init
  <2>5. /\ IsProgram(prog) /\ list = MainTasks /\ seen = {} /\ mark = {} /\ n = 0 /\ queue = <<>>
        /\ rewritten = {} /\ ifaceMethod = {} /\ genericIfaceMethod = {} /\ reflectSeen = FALSE
        /\ pkginits = <<>> /\ phase = "load" /\ cur = NoWalk /\ used = FALSE /\ at = 1
    BY DEF Init
  <2>6. /\ list \in {MainTasks, RuntimeTasks} /\ mark \subseteq Syms /\ n \in Nat /\ queue \in Seq(Syms)
        /\ pkginits \in Seq(Syms) /\ cur \in Syms \cup {NoWalk} /\ at \in Nat
        /\ phase \in {"load", "roots", "flood", "round", "cleanup", "done"}
        /\ seen \subseteq Syms /\ rewritten \subseteq Syms /\ ifaceMethod \subseteq Sigs /\ genericIfaceMethod \subseteq Names
    BY <2>5
  <2>7. reflectSeen \in BOOLEAN /\ used \in BOOLEAN
    BY <2>5
  <2> QED BY <2>1, <2>3, <2>4, <2>5, <2>6, <2>7 DEF TypeOK
<1>3. Types
  BY <1>2 DEF Init, Types
<1>4. ToSet(<<>>) = {}
  <2>1. DOMAIN <<>> = {}
    OBVIOUS
  <2> QED BY <2>1 DEF ToSet
<1>5. Book(Now)
  BY <1>4, FS_EmptySet DEF Init, Book, Now, SymOrNone
<1> QED
  BY <1>3, <1>4, <1>5 DEF Init, Ledger

\* The initialisation lists are made before anything is marked.
LEMMA LoadLedger == Ledger /\ (Listed \/ \E g \in Syms : Schedule(g)) => Ledger'
<1> SUFFICES ASSUME Ledger, Listed \/ \E g \in Syms : Schedule(g)
             PROVE  Ledger'
  OBVIOUS
<1>1. /\ UNCHANGED <<prog, marks, rewritten, usedInIface, calls, markable, pkginits, walk, at, rem, walks>>
      /\ phase = "load" /\ phase' \in {"load", "roots"}
  BY DEF Listed, Schedule
<1>2. TypeOK /\ IsProgram(prog)
  BY DEF Ledger, Types, TypeOK
<1> DEFINE Lists == /\ list' \in {MainTasks, RuntimeTasks} /\ records' \subseteq Syms /\ seen' \subseteq Syms
                    /\ extra' \in [Syms -> Seq(Syms)] /\ targets' \in [Syms -> Seq(Syms)]
<1>3. Lists
  <2>1. CASE Listed
    <3>1. RootOf(RuntimeTasks) \subseteq Syms
      BY <1>2, Parts DEF RootOf, SymOrNone
    <3>2. [g \in Syms |-> IF g = prog.header /\ prog.tasks[RuntimeTasks] # NoSym
                          THEN <<RuntimeTasks>> ELSE <<>>] \in [Syms -> Seq(Syms)]
      BY SymsAssumption
    <3> QED BY <1>2, <2>1, <3>1, <3>2 DEF Listed, TypeOK
  <2>2. ASSUME NEW g \in Syms, Schedule(g) PROVE Lists
    <3>1. Unseen(g) \subseteq Syms
      BY <1>2, ImportsType DEF Unseen
    <3>2. [targets EXCEPT ![list] = IF g \in prog.large \cap prog.defined THEN Append(@, g) ELSE @]
             \in [Syms -> Seq(Syms)]
      <4>1. targets \in [Syms -> Seq(Syms)]
        BY <1>2 DEF TypeOK
      <4>2. \A t \in Seq(Syms) : Append(t, g) \in Seq(Syms)
        OBVIOUS
      <4> QED BY <4>1, <4>2
    <3>3. list \in {MainTasks, RuntimeTasks} /\ records \subseteq Syms /\ seen \subseteq Syms /\ extra \in [Syms -> Seq(Syms)]
      BY <1>2 DEF TypeOK
    <3>4. /\ records' = (records \ {g}) \cup Unseen(g) /\ seen' = seen \cup {g} /\ list' = list /\ extra' = extra
          /\ targets' = [targets EXCEPT ![list] = IF g \in prog.large \cap prog.defined THEN Append(@, g) ELSE @]
      BY <2>2 DEF Schedule
    <3> QED BY <3>1, <3>2, <3>3, <3>4
  <2> QED BY <2>1, <2>2
<1>4. TypeOK'
  BY <1>1, <1>2, <1>3 DEF TypeOK, marks, calls, walk, SymOrNone, IsProgram, Program
<1>5. Types' /\ Book(Now')
  BY <1>1, <1>4 DEF Ledger, Types, Book, Now, marks, SymOrNone
<1>6. \A w \in ToSet(markable') \cup ToSet(rem') : MayWait(w)'
  BY <1>1, MayWaitStays DEF Ledger, marks
<1> QED
  BY <1>1, <1>5, <1>6 DEF Ledger, marks, walk, IsInIface

\* What is left alone keeps its type: the program, the lists and what they add.
LEMMA FixedTypes ==
  ASSUME Ledger, UNCHANGED fixed
  PROVE  /\ IsProgram(prog)' /\ list' \in {MainTasks, RuntimeTasks} /\ records' \subseteq Syms /\ seen' \subseteq Syms
         /\ extra' \in [Syms -> Seq(Syms)] /\ targets' \in [Syms -> Seq(Syms)]
         /\ prog' = prog
<1>1. UNCHANGED <<prog, list, records, seen, extra, targets>>
  BY DEF fixed, tasks
<1> QED
  BY <1>1 DEF Ledger, Types, TypeOK, IsProgram, Program, Reloc, SymOrNone, Kinds

\* The roots.
LEMMA RootsType ==
  ASSUME IsProgram(prog)
  PROVE  Roots \in Seq(SymOrNone) /\ \A i \in DOMAIN Roots : Roots[i] \in SymOrNone
<1>1. prog.roots \in Seq(SymOrNone) /\ (IF prog.tasks[MainTasks] # NoSym THEN MainTasks ELSE NoSym) \in SymOrNone
  BY Parts, SymsAssumption DEF SymOrNone
<1>2. Roots \in Seq(SymOrNone)
  BY <1>1 DEF Roots
<1> QED
  BY <1>2

\* An action that only adds marks, or none, keeps the ledger.
LEMMA MarksLedger ==
  ASSUME Ledger, Now' \in Marks, Book(Now'), Adds(Now, Now'),
         UNCHANGED <<fixed, rewritten, usedInIface, calls, markable, pkginits, walk, walks>>,
         at' \in Nat, phase' \in {"load", "roots", "flood", "round", "cleanup", "done"},
         cur = NoWalk \/ phase' = "flood",
         rem' \in Seq(Waiting), \A w \in ToSet(rem') : MayWait(w), phase' # "round" => rem' = <<>>
  PROVE  Ledger'
<1>1. mark \subseteq mark'
  BY NowMarks, NowMarksNext DEF Adds
<1>2. TypeOK'
  <2>1. TypeOK
    BY DEF Ledger, Types
  <2> QED BY <2>1, FixedTypes, NowMarksNext DEF TypeOK, calls, walk
<1>3. Types'
  BY <1>2 DEF Types, Ledger
<1>4. \A w \in ToSet(markable') \cup ToSet(rem') : MayWait(w)'
  BY <1>1, FixedTypes, MayWaitStays DEF Ledger
<1>5. (cur' # NoWalk => cur' \in mark') /\ ToSet(pkginits') \subseteq mark'
  BY <1>1 DEF Ledger, walk
<1>6. used' => cur' # NoWalk /\ IsInIface(cur)'
  BY FixedTypes DEF Ledger, walk, IsInIface
<1> QED
  BY <1>3, <1>4, <1>5, <1>6 DEF Ledger, walk

\* Each action keeps the ledger: a root, ...
LEMMA RootLedger == Ledger /\ Root => Ledger'
<1> SUFFICES ASSUME Ledger, Root PROVE Ledger'
  OBVIOUS
<1>1. /\ UNCHANGED <<fixed, rewritten, usedInIface, calls, markable, pkginits, walk, rem, walks>>
      /\ phase = "roots" /\ cur = NoWalk /\ rem = <<>> /\ rem \in Seq(Waiting)
      /\ \A w \in ToSet(rem) : MayWait(w)
      /\ at \in Nat /\ Now \in Marks /\ Book(Now) /\ IsProgram(prog)
  BY NowMarks DEF Root, Ledger, Types, TypeOK
<1>2. CASE at \in DOMAIN Roots
  <2> DEFINE k == Mark(Now, Roots[at], NoSym)
  <2>1. Becomes(k) /\ at' = at + 1 /\ phase' = phase
    BY <1>2 DEF Root
  <2>2. k \in Marks /\ Book(k) /\ Adds(Now, k)
    BY <1>1, <1>2, MarkBook, RootsType
  <2> HIDE DEF k
  <2>3. Now' = k
    BY <2>1, <2>2, BecomesNow
  <2> QED BY <1>1, <2>1, <2>2, <2>3, MarksLedger
<1>3. CASE at \notin DOMAIN Roots
  <2>1. UNCHANGED marks /\ at' = 1 /\ phase' = "flood"
    BY <1>3 DEF Root
  <2>2. Now' = Now /\ Adds(Now, Now)
    BY <2>1 DEF Now, marks, Adds
  <2> QED BY <1>1, <2>1, <2>2, MarksLedger
<1> QED
  BY <1>2, <1>3

\* ... the next symbol of the flood, ...
LEMMA PopLedger == Ledger /\ Pop => Ledger'
<1> SUFFICES ASSUME Ledger, Pop PROVE Ledger'
  OBVIOUS
<1>1. /\ UNCHANGED <<fixed, mark, from, n, rewritten, usedInIface, ifaceMethod, genericIfaceMethod,
                     markable, pkginits, phase, rem>>
      /\ phase = "flood" /\ queue # <<>> /\ cur' = Last(queue) /\ queue' = Front(queue) /\ at' = 1
      /\ used' = (cur' \in prog.types /\ cur' \in usedInIface)
      /\ reflectSeen' = (reflectSeen \/ cur' \in prog.reflect \cap prog.defined)
      /\ walks' = [walks EXCEPT ![cur'] = @ + 1]
  BY DEF Pop
<1>2. /\ cur' \in Syms /\ queue' \in Seq(Syms) /\ ToSet(queue') \subseteq ToSet(queue) /\ cur' \in ToSet(queue)
      /\ ToSet(queue) \subseteq mark
  <2>1. queue \in Seq(Syms) /\ ToSet(queue) \subseteq mark
    BY NowMarks DEF Book, Marks
  <2> QED BY <1>1, <2>1, LastSet
<1>3. TypeOK'
  <2>1. TypeOK
    BY DEF Ledger, Types
  <2>2. reflectSeen' \in BOOLEAN /\ used' \in BOOLEAN
    BY <1>1, <2>1 DEF TypeOK
  <2> QED BY <1>1, <1>2, <2>1, <2>2, FixedTypes DEF TypeOK
<1>4. Types'
  BY <1>1, <1>2, <1>3 DEF Types, Ledger
<1>5. Book(Now')
  BY <1>1, <1>2, NowMarks DEF Book, Now
<1>6. \A w \in ToSet(markable') \cup ToSet(rem') : MayWait(w)'
  BY <1>1, FixedTypes, MayWaitStays DEF Ledger
<1>7. used' => cur' # NoWalk /\ IsInIface(cur)'
  BY <1>1, <1>2, FixedTypes, SymsAssumption DEF IsInIface
<1> QED
  BY <1>1, <1>2, <1>4, <1>5, <1>6, <1>7 DEF Ledger

\* ... a step of its walk, ...
LEMMA WalkLedger == Ledger /\ AnyStep => Ledger'
<1> SUFFICES ASSUME Ledger, AnyStep PROVE Ledger'
  OBVIOUS
<1>1. PICK types : Walking(types)
  BY DEF AnyStep, Ignore, Keep, Reference, UseIface, MethodType, UseIfaceMethod, UseNamedMethod, Decide
<1>2. /\ UNCHANGED <<fixed, rewritten, pkginits, phase, walk, rem, walks>> /\ at' = at + 1
      /\ cur \in Syms /\ cur \in mark /\ Here \in AllSteps(cur) /\ prog' = prog
  BY <1>1, HereFacts, FixedTypes DEF Walking
<1>3. Added
  BY StepAdds
<1>4. mark \subseteq mark'
  BY <1>3, NowMarks, NowMarksNext DEF Adds, Added
<1>5. Types'
  <2>1. Types /\ TypeOK
    BY DEF Ledger, Types
  <2>2. TypeOK'
    <3>1. /\ mark' \subseteq Syms /\ from' \in [Syms -> SymOrNone] /\ n' \in Nat /\ queue' \in Seq(Syms)
          /\ usedInIface' \subseteq Syms /\ ifaceMethod' \subseteq Sigs /\ genericIfaceMethod' \subseteq Names
      BY <1>3, NowMarksNext DEF Added
    <3>2. /\ rewritten' \subseteq Syms /\ pkginits' \in Seq(Syms)
          /\ phase' \in {"load", "roots", "flood", "round", "cleanup", "done"}
          /\ cur' \in Syms \cup {NoWalk} /\ at' \in Nat
      BY <1>2, <2>1 DEF TypeOK, walk
    <3>3. used' \in BOOLEAN /\ reflectSeen' \in BOOLEAN
      BY <1>2, <1>3, <2>1 DEF TypeOK, walk, Added
    <3> QED BY <1>2, <3>1, <3>2, <3>3, FixedTypes DEF TypeOK
  <2> QED BY <1>2, <1>3, <2>1, <2>2 DEF Types, Added
<1>6. \A w \in ToSet(markable') \cup ToSet(rem') : MayWait(w)'
  <2>1. \A w \in ToSet(markable) \cup ToSet(rem') : MayWait(w)'
    BY <1>2, <1>3, <1>4, MayWaitStays DEF Ledger, Added
  <2>2. ASSUME NEW w \in ToSet(markable') \ ToSet(markable) PROVE MayWait(w)'
    <3>1. w = [src |-> cur, method |-> Here] /\ used /\ cur \in prog.decoded /\ Here.type = "DECIDE"
      BY <1>3 DEF Added
    <3>2. \E r \in ToSet(prog.relocs[cur]) : r.type = "METHODOFF" /\ Here = Step("DECIDE", r)
      BY <1>2, <3>1, DecideOrigin DEF Ledger, Types, TypeOK
    <3>3. MayWait(w)
      BY <1>2, <3>1, <3>2 DEF MayWait, Ledger
    <3> QED BY <1>2, <1>3, <1>4, <3>3, MayWaitStays DEF Added
  <2> QED BY <2>1, <2>2
<1>7. used' => cur' # NoWalk /\ IsInIface(cur)'
  BY <1>2, <1>3 DEF Ledger, walk, IsInIface, Added
<1> QED
  BY <1>1, <1>2, <1>3, <1>4, <1>5, <1>6, <1>7 DEF Ledger, Walking, walk, Added

\* ... the end of the walk, ...
LEMMA EndWalkLedger == Ledger /\ EndWalk => Ledger'
<1> SUFFICES ASSUME Ledger, EndWalk PROVE Ledger'
  OBVIOUS
<1>1. /\ UNCHANGED <<fixed, marks, rewritten, usedInIface, calls, markable, phase, rem, walks>>
      /\ cur' = NoWalk /\ used' = FALSE /\ at' = 1 /\ cur # NoWalk /\ phase = "flood"
      /\ pkginits' = Append(pkginits, cur) \/ pkginits' = pkginits
  BY DEF EndWalk
<1>2. TypeOK /\ cur \in Syms /\ cur \in mark /\ pkginits \in Seq(Syms) /\ ToSet(pkginits) \subseteq mark
  BY <1>1 DEF Ledger, Types, TypeOK
<1>3. pkginits' \in Seq(Syms) /\ ToSet(pkginits') \subseteq mark'
  <2>1. /\ Append(pkginits, cur) \in Seq(Syms)
        /\ ToSet(Append(pkginits, cur)) = ToSet(pkginits) \cup {cur}
    BY <1>2, AppendSet
  <2>2. mark' = mark
    BY <1>1 DEF marks
  <2> QED BY <1>1, <1>2, <2>1, <2>2
<1>4. TypeOK'
  <2>1. /\ mark' \subseteq Syms /\ from' \in [Syms -> SymOrNone] /\ n' \in Nat /\ queue' \in Seq(Syms)
        /\ rewritten' \subseteq Syms /\ usedInIface' \subseteq Syms
        /\ ifaceMethod' \subseteq Sigs /\ genericIfaceMethod' \subseteq Names
        /\ phase' \in {"load", "roots", "flood", "round", "cleanup", "done"}
    BY <1>1, <1>2 DEF TypeOK, marks, calls
  <2>2. used' \in BOOLEAN /\ reflectSeen' \in BOOLEAN
    BY <1>1, <1>2 DEF TypeOK, calls
  <2> QED BY <1>1, <1>3, <2>1, <2>2, FixedTypes DEF TypeOK
<1>5. Types'
  BY <1>1, <1>4 DEF Types, Ledger
<1>6. Book(Now')
  BY <1>1 DEF Ledger, Book, Now, marks
<1>7. \A w \in ToSet(markable') \cup ToSet(rem') : MayWait(w)'
  BY <1>1, FixedTypes, MayWaitStays DEF Ledger, marks
<1> QED
  BY <1>1, <1>3, <1>5, <1>6, <1>7 DEF Ledger

\* ... the end of the flood, ...
LEMMA FloodDoneLedger == Ledger /\ FloodDone => Ledger'
<1> SUFFICES ASSUME Ledger, FloodDone PROVE Ledger'
  OBVIOUS
<1>1. /\ UNCHANGED <<fixed, marks, rewritten, usedInIface, calls, markable, pkginits, walk, at, rem, walks>>
      /\ phase = "flood" /\ phase' = "round" /\ cur = NoWalk
  BY DEF FloodDone
<1>2. Now' = Now /\ Adds(Now, Now) /\ Now \in Marks /\ Book(Now)
  BY <1>1, NowMarks DEF Now, marks, Adds
<1>3. at' \in Nat /\ rem' \in Seq(Waiting) /\ \A w \in ToSet(rem') : MayWait(w)
  BY <1>1 DEF Ledger, Types, TypeOK
<1> QED
  BY <1>1, <1>2, <1>3, MarksLedger

\* ... a method judged, ...
LEMMA JudgeLedger == Ledger /\ Judge => Ledger'
<1> SUFFICES ASSUME Ledger, Judge PROVE Ledger'
  OBVIOUS
<1> DEFINE m == markable[at]
<1>1. /\ UNCHANGED <<fixed, rewritten, usedInIface, calls, markable, pkginits, phase, walk, walks>>
      /\ phase = "round" /\ at' = at + 1 /\ cur = NoWalk
  BY DEF Judge, Ledger
<1>2. /\ at \in Nat /\ Now \in Marks /\ Book(Now) /\ Now.mark = mark /\ Adds(Now, Now)
      /\ rem \in Seq(Waiting) /\ markable \in Seq(Waiting)
      /\ \A w \in ToSet(markable) \cup ToSet(rem) : MayWait(w)
  BY NowMarks DEF Ledger, Types, TypeOK, Adds
<1>3. m \in Waiting /\ m \in ToSet(markable)
  BY <1>2, MemberType DEF Judge
<1>4. MayWait(m) /\ m.src \in mark /\ Three(m.method) \subseteq SymOrNone
  BY <1>2, <1>3 DEF MayWait, Waiting, StepRec, Three
<1>5. CASE Callable(m.method.sig)
  <2> DEFINE k == MarkMethod(Now, m.src, m.method)
  <2>1. Becomes(k) /\ rem' = rem
    BY <1>5 DEF Judge
  <2>2. k \in Marks /\ Book(k) /\ Adds(Now, k)
    BY <1>2, <1>4, MarkMethodBook
  <2> HIDE DEF k
  <2>3. Now' = k
    BY <2>1, <2>2, BecomesNow
  <2> QED BY <1>1, <1>2, <2>1, <2>2, <2>3, MarksLedger
<1>6. CASE ~Callable(m.method.sig)
  <2>1. rem' = Append(rem, m) /\ UNCHANGED marks
    BY <1>6 DEF Judge
  <2>2. Now' = Now
    BY <2>1 DEF Now, marks
  <2>3. rem' \in Seq(Waiting) /\ \A w \in ToSet(rem') : MayWait(w)
    BY <1>2, <1>3, <1>4, <2>1, AppendSet
  <2> QED BY <1>1, <1>2, <2>2, <2>3, MarksLedger
<1> QED
  BY <1>5, <1>6

\* ... the end of a round, ...
LEMMA RoundDoneLedger == Ledger /\ RoundDone => Ledger'
<1> SUFFICES ASSUME Ledger, RoundDone PROVE Ledger'
  OBVIOUS
<1>1. /\ UNCHANGED <<fixed, marks, rewritten, usedInIface, calls, pkginits, walk, walks>>
      /\ phase = "round" /\ phase' \in {"cleanup", "flood"} /\ cur = NoWalk /\ used = FALSE
      /\ markable' = rem /\ rem' = <<>> /\ at' = 1
  BY DEF RoundDone, NextPhase, Ledger, Types, TypeOK
<1>2. TypeOK
  BY DEF Ledger, Types
<1>3. TypeOK'
  <2>1. /\ mark' \subseteq Syms /\ from' \in [Syms -> SymOrNone] /\ n' \in Nat /\ queue' \in Seq(Syms)
        /\ rewritten' \subseteq Syms /\ usedInIface' \subseteq Syms
        /\ ifaceMethod' \subseteq Sigs /\ genericIfaceMethod' \subseteq Names
        /\ pkginits' \in Seq(Syms) /\ cur' \in Syms \cup {NoWalk} /\ at' \in Nat
    BY <1>1, <1>2 DEF TypeOK, marks, calls, walk
  <2>2. used' \in BOOLEAN /\ reflectSeen' \in BOOLEAN
    BY <1>1, <1>2 DEF TypeOK, calls, walk
  <2>3. phase' \in {"load", "roots", "flood", "round", "cleanup", "done"}
    BY <1>1
  <2> QED BY <2>1, <2>2, <2>3, <1>1, FixedTypes DEF TypeOK
<1>4. Types'
  BY <1>1, <1>3 DEF Types, Ledger
<1>5. Book(Now')
  BY <1>1 DEF Ledger, Book, Now, marks
<1>6. ToSet(<<>>) = {}
  <2>1. DOMAIN <<>> = {}
    OBVIOUS
  <2> QED BY <2>1 DEF ToSet
<1>7. \A w \in ToSet(markable') \cup ToSet(rem') : MayWait(w)'
  BY <1>1, <1>6, FixedTypes, MayWaitStays DEF Ledger, marks
<1> QED
  BY <1>1, <1>4, <1>5, <1>7 DEF Ledger, walk, marks

\* ... the cleanup ...
LEMMA CleanupLedger == Ledger /\ Cleanup => Ledger'
<1> SUFFICES ASSUME Ledger, Cleanup PROVE Ledger'
  OBVIOUS
<1>1. /\ UNCHANGED <<fixed, queue, usedInIface, calls, markable, pkginits, walk, at, rem, walks>>
      /\ phase = "cleanup" /\ phase' = "done" /\ cur = NoWalk
      /\ rewritten' = {pkginits[i] : i \in Redirected}
  BY DEF Cleanup, Ledger
<1>2. /\ TypeOK /\ Now \in Marks /\ Book(Now) /\ Now.mark = mark /\ Now.queue = queue
      /\ pkginits \in Seq(Syms) /\ ToSet(pkginits) \subseteq mark /\ IsProgram(prog)
  BY NowMarks DEF Ledger, Types, TypeOK
<1>3. rewritten' \subseteq mark /\ mark \subseteq Syms
  <2>1. Redirected \subseteq DOMAIN pkginits
    BY DEF Redirected
  <2> QED BY <1>1, <1>2, <2>1, MemberType DEF TypeOK
<1>4. Now' \in Marks /\ Book(Now') /\ mark \subseteq mark'
  <2>1. CASE UNCHANGED <<mark, from, n>>
    BY <1>1, <1>2, <2>1 DEF Now
  <2>2. ASSUME NEW i \in Redirected,
               mark' = Mark(Now, prog.noop, pkginits[i]).mark,
               from' = Mark(Now, prog.noop, pkginits[i]).from,
               n' = Mark(Now, prog.noop, pkginits[i]).n
        PROVE  Now' \in Marks /\ Book(Now') /\ mark \subseteq mark'
    <3> DEFINE k == Mark(Now, prog.noop, pkginits[i])
    <3>1. pkginits[i] \in mark /\ prog.noop \in SymOrNone
      BY <1>2, MemberType, Parts DEF Redirected
    <3>2. k \in Marks /\ Book(k) /\ Adds(Now, k)
      BY <1>2, <3>1, MarkBook
    <3> HIDE DEF k
    <3>3. mark' = k.mark /\ from' = k.from /\ n' = k.n
      BY <2>2 DEF k
    <3>4. Now' = [mark |-> k.mark, from |-> k.from, n |-> k.n, queue |-> queue]
      BY <1>1, <3>3 DEF Now
    <3>5. queue \in Seq(Syms) /\ ToSet(queue) \subseteq k.mark
      BY <1>2, <3>2 DEF Book, Adds
    <3> QED BY <1>2, <3>2, <3>3, <3>4, <3>5 DEF Marks, Book, Adds
  <2> QED BY <2>1, <2>2 DEF Cleanup
<1>5. TypeOK'
  <2>1. /\ usedInIface' \subseteq Syms /\ ifaceMethod' \subseteq Sigs /\ genericIfaceMethod' \subseteq Names
        /\ pkginits' \in Seq(Syms) /\ cur' \in Syms \cup {NoWalk} /\ at' \in Nat /\ rewritten' \subseteq Syms
    BY <1>1, <1>2, <1>3 DEF TypeOK, calls, walk
  <2>2. used' \in BOOLEAN /\ reflectSeen' \in BOOLEAN
    BY <1>1, <1>2 DEF TypeOK, calls, walk
  <2>3. phase' \in {"load", "roots", "flood", "round", "cleanup", "done"}
    BY <1>1
  <2> QED BY <1>1, <1>4, <2>1, <2>2, <2>3, FixedTypes, NowMarksNext DEF TypeOK
<1>6. Types'
  BY <1>1, <1>5 DEF Types, Ledger
<1>7. \A w \in ToSet(markable') \cup ToSet(rem') : MayWait(w)'
  BY <1>1, <1>4, FixedTypes, MayWaitStays DEF Ledger
<1> QED
  BY <1>1, <1>4, <1>6, <1>7, FixedTypes DEF Ledger, walk, IsInIface

\* ... and a step in which nothing happens.
LEMMA StutterLedger == Ledger /\ UNCHANGED vars => Ledger'
<1> SUFFICES ASSUME Ledger, UNCHANGED vars PROVE Ledger'
  OBVIOUS
<1>1. UNCHANGED <<prog, list, records, seen, extra, targets, mark, from, n, queue, rewritten, usedInIface,
                  ifaceMethod, genericIfaceMethod, reflectSeen, markable, pkginits, phase, cur, used, at, rem, walks>>
  BY DEF vars, fixed, tasks, marks, calls, walk
<1>2. Now' = Now
  BY <1>1 DEF Now
<1>3. UNCHANGED fixed
  BY <1>1 DEF fixed, tasks
<1>4. TypeOK'
  BY <1>1, <1>3, FixedTypes DEF TypeOK, Ledger, Types
<1>5. Types'
  BY <1>1, <1>4 DEF Types, Ledger
<1>6. \A w \in ToSet(markable') \cup ToSet(rem') : MayWait(w)'
  BY <1>1, MayWaitStays DEF Ledger
<1> QED
  BY <1>1, <1>2, <1>5, <1>6 DEF Ledger, IsInIface

\* The ledger holds through every step.
LEMMA StepLedger == Ledger /\ [Next]_vars => Ledger'
<1> SUFFICES ASSUME Ledger, [Next]_vars PROVE Ledger'
  OBVIOUS
<1>1. CASE Listed \/ \E g \in Syms : Schedule(g)
  BY <1>1, LoadLedger
<1>2. CASE Root
  BY <1>2, RootLedger
<1>3. CASE Pop
  BY <1>3, PopLedger
<1>4. CASE AnyStep
  BY <1>4, WalkLedger
<1>5. CASE EndWalk
  BY <1>5, EndWalkLedger
<1>6. CASE FloodDone
  BY <1>6, FloodDoneLedger
<1>7. CASE Judge
  BY <1>7, JudgeLedger
<1>8. CASE RoundDone
  BY <1>8, RoundDoneLedger
<1>9. CASE Cleanup
  BY <1>9, CleanupLedger
<1>10. CASE UNCHANGED vars
  BY <1>10, StutterLedger
<1> QED
  BY <1>1, <1>2, <1>3, <1>4, <1>5, <1>6, <1>7, <1>8, <1>9, <1>10 DEF Next, AnyStep

\* Whatever the program, the books of the pass are consistent in every state.
THEOREM LedgerHolds == Spec => []Ledger
<1>1. Init => Ledger
  BY InitLedger
<1>2. Ledger /\ [Next]_vars => Ledger'
  BY StepLedger
<1> QED
  BY <1>1, <1>2, PTL DEF Spec

\* The state keeps its type.
THEOREM TypeCorrect == Spec => []TypeOK
<1>1. Ledger => TypeOK
  BY DEF Ledger, Types
<1> QED
  BY <1>1, LedgerHolds, PTL

\* The count is the number of the symbols kept, through every mark taken back.
THEOREM CountIsExact == Spec => []CountExact
<1>1. Ledger => CountExact
  BY DEF Ledger, Book, Now, CountExact
<1> QED
  BY <1>1, LedgerHolds, PTL

\* What reached a kept symbol is kept.
THEOREM ParentsAreKept == Spec => []ParentsKept
<1>1. Ledger => ParentsKept
  BY DEF Ledger, Book, Now, ParentsKept
<1> QED
  BY <1>1, LedgerHolds, PTL

-----------------------------------------------------------------------------
(* Closure: what a kept symbol calls for is kept *)

\* Nothing is left to do for g.
Walked(g) == /\ \A s \in AllSteps(g) : Done(g, s, IsInIface(g))
             /\ g \in prog.reflect \cap prog.defined => reflectSeen

\* What is kept is queued, being walked, or done with.
Settled == \A g \in mark : g \in ToSet(queue) \/ g = cur \/ Walked(g)

\* The walk has done the steps it is past.  If the attribute came too late for
\* it, there will be another.
WalkSoFar == /\ IsInIface(cur) => used \/ cur \in ToSet(queue)
             /\ \A i \in DOMAIN Steps(cur) : i < at => Done(cur, Steps(cur)[i], used)
             /\ cur \in prog.reflect \cap prog.defined => reflectSeen

\* The inductive invariant, with the ledger.
Cover == /\ at # 0
         /\ phase = "load" \/ (phase = "flood" /\ cur = NoWalk) => at = 1
         /\ prog.iface \subseteq usedInIface
         /\ phase = "load" => mark = {}
         /\ phase # "load" => \A i \in DOMAIN Roots :
                                (phase = "roots" => i < at) => Roots[i] \in mark \cup {NoSym}
         /\ phase # "done" => Settled
         /\ cur # NoWalk => WalkSoFar
         /\ phase = "round" => \A w \in ToSet(rem) : ~Callable(w.method.sig)
         /\ phase = "cleanup" => queue = <<>> /\ \A w \in ToSet(markable) : ~Callable(w.method.sig)

\* What the steps of the flood and of the rounds have in common: facts are
\* added, and a method stops waiting when its symbols are marked.
More == /\ UNCHANGED fixed
        /\ mark \subseteq mark' /\ mark' \ mark \subseteq ToSet(queue')
        /\ usedInIface \subseteq usedInIface'
        /\ ifaceMethod \subseteq ifaceMethod' /\ genericIfaceMethod \subseteq genericIfaceMethod'
        /\ reflectSeen => reflectSeen'
        /\ \A w \in Pending : w \in Pending' \/ Three(w.method) \subseteq mark' \cup {NoSym}

\* A step that was done stays done.
LEMMA DoneStays ==
  ASSUME More, NEW g, NEW s, NEW u, Done(g, s, u)
  PROVE  Done(g, s, u)'
<1>1. /\ prog' = prog /\ mark \subseteq mark' /\ usedInIface \subseteq usedInIface'
      /\ ifaceMethod \subseteq ifaceMethod' /\ genericIfaceMethod \subseteq genericIfaceMethod'
  BY DEF More, fixed
<1>2. Marked(s.sym)' = Marked(s.sym)
  BY <1>1 DEF Marked
<1>3. ASSUME [src |-> g, method |-> s] \in Pending
      PROVE  [src |-> g, method |-> s] \in Pending' \/ Three(s) \subseteq mark' \cup {NoSym}
  <2> DEFINE w == [src |-> g, method |-> s]
  <2>1. w.method = s
    OBVIOUS
  <2>2. w \in Pending
    BY <1>3
  <2> HIDE DEF w
  <2>3. w \in Pending' \/ Three(w.method) \subseteq mark' \cup {NoSym}
    BY <2>2 DEF More
  <2> QED BY <2>1, <2>3 DEF w
<1> QED
  BY <1>1, <1>2, <1>3 DEF Done

\* What was done with stays done with, unless it gets the attribute.
LEMMA WalkedStays ==
  ASSUME More, NEW g, Walked(g), g \in usedInIface' => g \in usedInIface
  PROVE  Walked(g)'
<1>1. prog' = prog /\ extra' = extra /\ targets' = targets /\ usedInIface \subseteq usedInIface'
  BY DEF More, fixed
<1>2. AllSteps(g)' = AllSteps(g)
  BY <1>1 DEF AllSteps
<1>3. IsInIface(g)' <=> IsInIface(g)
  BY <1>1 DEF IsInIface
<1>4. ASSUME NEW s \in AllSteps(g) PROVE Done(g, s, IsInIface(g))'
  <2>1. CASE IsInIface(g)
    <3>1. Done(g, s, TRUE)
      BY <2>1 DEF Walked, Done
    <3>2. Done(g, s, TRUE)'
      BY <3>1, DoneStays
    <3> QED BY <1>3, <2>1, <3>2 DEF Done
  <2>2. CASE ~IsInIface(g)
    <3>1. Done(g, s, FALSE)
      BY <2>2 DEF Walked, Done
    <3>2. Done(g, s, FALSE)'
      BY <3>1, DoneStays
    <3> QED BY <1>3, <2>2, <3>2 DEF Done
  <2> QED BY <2>1, <2>2
<1> QED
  BY <1>1, <1>2, <1>4 DEF Walked, More

\* What is kept is settled after a step that adds.
LEMMA SettledStays ==
  ASSUME More,
         \A g \in mark : \/ g \in ToSet(queue') \/ g = cur'
                         \/ Walked(g) /\ (g \in usedInIface' => g \in usedInIface)
  PROVE  Settled'
<1> SUFFICES ASSUME NEW g \in mark' PROVE g \in ToSet(queue') \/ g = cur' \/ Walked(g)'
  BY DEF Settled
<1>1. CASE g \notin mark
  BY <1>1 DEF More
<1>2. CASE g \in mark
  BY <1>2, WalkedStays
<1> QED
  BY <1>1, <1>2

\* The roots stay marked.
LEMMA RootsStay ==
  ASSUME More, phase # "load", phase' \notin {"load", "roots"} \/ (phase' = phase /\ at' = at),
         \A i \in DOMAIN Roots : (phase' = "roots" => i < at) => Roots[i] \in mark \cup {NoSym}
  PROVE  \A i \in DOMAIN Roots' : (phase' = "roots" => i < at') => Roots'[i] \in mark' \cup {NoSym}
<1>1. Roots' = Roots /\ mark \subseteq mark'
  BY DEF More, fixed, Roots
<1> QED
  BY <1>1

\* In the beginning nothing is kept, and all of it is covered.
LEMMA InitCover == Init => Cover
<1> SUFFICES ASSUME Init PROVE Cover
  OBVIOUS
<1>1. /\ at = 1 /\ phase = "load" /\ mark = {} /\ usedInIface = prog.iface /\ cur = NoWalk
  BY DEF Init
<1> QED
  BY <1>1 DEF Cover, Settled

\* A step that marks nothing, in a phase where nothing is marked.
LEMMA LoadCover == Ledger /\ Cover /\ (Listed \/ \E g \in Syms : Schedule(g)) => Cover'
<1> SUFFICES ASSUME Ledger, Cover, Listed \/ \E g \in Syms : Schedule(g)
             PROVE  Cover'
  OBVIOUS
<1>1. /\ UNCHANGED <<prog, marks, usedInIface, walk, at>>
      /\ phase = "load" /\ phase' \in {"load", "roots"} /\ cur = NoWalk
  BY DEF Listed, Schedule, Ledger
<1>2. at = 1 /\ mark = {} /\ mark' = {} /\ cur' = NoWalk /\ at' = 1 /\ prog' = prog /\ usedInIface' = usedInIface
  BY <1>1 DEF Cover, marks, walk
<1>3. DOMAIN Roots' \subseteq Nat \ {0}
  <2>1. Roots' = Roots
    BY <1>2 DEF Roots
  <2>2. Roots \in Seq(SymOrNone)
    BY RootsType DEF Ledger, Types, TypeOK
  <2> QED BY <2>1, <2>2
<1>4. phase' # "load" => \A i \in DOMAIN Roots' :
                            (phase' = "roots" => i < at') => Roots'[i] \in mark' \cup {NoSym}
  BY <1>1, <1>2, <1>3
<1> QED
  BY <1>1, <1>2, <1>4 DEF Cover, Settled

\* Each action keeps the cover: a root, which is queued, ...
LEMMA RootCover == Ledger /\ Cover /\ Ledger' /\ Root => Cover'
<1> SUFFICES ASSUME Ledger, Cover, Ledger', Root PROVE Cover'
  OBVIOUS
<1>1. /\ UNCHANGED <<fixed, rewritten, usedInIface, calls, markable, pkginits, walk, rem, walks>>
      /\ phase = "roots" /\ cur = NoWalk /\ cur' = NoWalk /\ at \in Nat \ {0} /\ Now \in Marks /\ Book(Now)
      /\ Now.mark = mark /\ Now.queue = queue
      /\ IsProgram(prog) /\ Settled
  BY NowMarks DEF Root, Ledger, Types, TypeOK, Cover, walk
<1>2. /\ prog' = prog /\ Roots' = Roots /\ prog.iface \subseteq usedInIface /\ usedInIface' = usedInIface
      /\ UNCHANGED <<ifaceMethod, genericIfaceMethod, reflectSeen>>
  BY <1>1 DEF fixed, Roots, Cover, calls
<1>3. CASE at \in DOMAIN Roots
  <2> DEFINE k == Mark(Now, Roots[at], NoSym)
  <2>1. Becomes(k) /\ at' = at + 1 /\ phase' = "roots"
    BY <1>1, <1>3 DEF Root
  <2>2. k \in Marks /\ Book(k) /\ Adds(Now, k) /\ k.mark \cup {NoSym} = Now.mark \cup {Roots[at], NoSym}
    BY <1>1, <1>3, MarkBook, RootsType
  <2> HIDE DEF k
  <2>3. mark' = k.mark /\ queue' = k.queue
    BY <2>1 DEF Becomes
  <2>4. Pending' = Pending
    BY <1>1, <2>1 DEF Pending
  <2>5. More
    BY <1>1, <1>2, <2>2, <2>3, <2>4 DEF More, Adds
  <2>6. Settled'
    BY <1>1, <1>2, <2>2, <2>3, <2>5, SettledStays DEF Settled, Adds
  <2>7. \A i \in DOMAIN Roots' : (phase' = "roots" => i < at') => Roots'[i] \in mark' \cup {NoSym}
    <3> SUFFICES ASSUME NEW i \in DOMAIN Roots, i < at + 1 PROVE Roots[i] \in mark' \cup {NoSym}
      BY <1>2, <2>1
    <3>1. i \in Nat
      BY <1>1, RootsType
    <3>2. CASE i < at
      BY <1>1, <2>2, <2>3, <3>2 DEF Cover, Adds
    <3>3. CASE i = at
      BY <2>2, <2>3, <3>3
    <3> QED BY <1>1, <3>1, <3>2, <3>3
  <2> QED BY <1>1, <1>2, <2>1, <2>6, <2>7 DEF Cover
<1>4. CASE at \notin DOMAIN Roots
  <2>1. UNCHANGED marks /\ at' = 1 /\ phase' = "flood"
    BY <1>4 DEF Root
  <2>2. mark' = mark /\ queue' = queue
    BY <2>1 DEF marks
  <2>3. Pending' = Pending
    BY <1>1, <2>1 DEF Pending
  <2>4. More
    BY <1>1, <1>2, <2>2, <2>3 DEF More
  <2>5. Settled'
    BY <1>1, <1>2, <2>2, <2>4, SettledStays DEF Settled
  <2>6. \A i \in DOMAIN Roots' : Roots'[i] \in mark' \cup {NoSym}
    <3> SUFFICES ASSUME NEW i \in DOMAIN Roots PROVE Roots[i] \in mark \cup {NoSym}
      BY <1>2, <2>2
    <3>1. i < at
      <4>1. Roots \in Seq(SymOrNone)
        BY <1>1, RootsType
      <4>2. Len(Roots) \in Nat /\ DOMAIN Roots = 1 .. Len(Roots)
        BY <4>1
      <4> QED BY <1>1, <1>4, <4>2
    <3> QED BY <1>1, <3>1 DEF Cover
  <2> QED BY <1>1, <1>2, <2>1, <2>5, <2>6 DEF Cover
<1> QED
  BY <1>3, <1>4

\* ... the next symbol, whose walk begins, ...
LEMMA PopCover == Ledger /\ Cover /\ Ledger' /\ Pop => Cover'
<1> SUFFICES ASSUME Ledger, Cover, Ledger', Pop PROVE Cover'
  OBVIOUS
<1>1. /\ UNCHANGED <<fixed, mark, from, n, rewritten, usedInIface, ifaceMethod, genericIfaceMethod,
                     markable, pkginits, phase, rem>>
      /\ phase = "flood" /\ queue # <<>> /\ cur' = Last(queue) /\ queue' = Front(queue) /\ at' = 1
      /\ used' = (cur' \in prog.types /\ cur' \in usedInIface) /\ cur = NoWalk
      /\ reflectSeen' = (reflectSeen \/ cur' \in prog.reflect \cap prog.defined)
  BY DEF Pop
<1>2. ToSet(queue) = ToSet(queue') \cup {cur'} /\ cur' \in Syms /\ NoWalk \notin mark
  <2>1. queue \in Seq(Syms) /\ mark \subseteq Syms
    BY DEF Ledger, Types, TypeOK
  <2> QED BY <1>1, <2>1, LastSet, SymsAssumption
<1>3. Pending' = Pending
  BY <1>1 DEF Pending
<1>4. More
  BY <1>1, <1>3 DEF More
<1>5. prog' = prog /\ Roots' = Roots /\ Settled
  BY <1>1 DEF fixed, Roots, Cover
<1>6. Settled'
  BY <1>1, <1>2, <1>4, <1>5, SettledStays DEF Settled
<1>7. WalkSoFar'
  <2>1. DOMAIN Steps(cur)' \subseteq Nat \ {0}
    <3>1. Steps(cur)' \in Seq(StepRec)
      <4>1. \A g \in Syms : Steps(g) \in Seq(StepRec)
        BY StepsSet DEF Ledger, Types, TypeOK
      <4>2. Steps(cur)' = Steps(cur')
        BY <1>1 DEF Steps, fixed
      <4> QED BY <1>2, <4>1, <4>2
    <3> QED BY <3>1
  <2>2. ~(\E i \in DOMAIN Steps(cur)' : i < at')
    BY <1>1, <2>1
  <2>3. IsInIface(cur)' => used'
    BY <1>1, <1>5 DEF IsInIface
  <2>4. cur' \in prog'.reflect \cap prog'.defined => reflectSeen'
    BY <1>1, <1>5
  <2> QED BY <2>2, <2>3, <2>4 DEF WalkSoFar
<1> QED
  BY <1>1, <1>2, <1>5, <1>6, <1>7, SymsAssumption DEF Cover

\* ... a step of the walk, which is done then and stays so, ...
LEMMA WalkCover == Ledger /\ Cover /\ Ledger' /\ AnyStep => Cover'
<1> SUFFICES ASSUME Ledger, Cover, Ledger', AnyStep PROVE Cover'
  OBVIOUS
<1>1. PICK types : Walking(types)
  BY DEF AnyStep, Ignore, Keep, Reference, UseIface, MethodType, UseIfaceMethod, UseNamedMethod, Decide
<1>2. /\ UNCHANGED fixed /\ phase = "flood" /\ phase' = "flood" /\ cur' = cur /\ used' = used
      /\ at' = at + 1 /\ at \in Nat \ {0} /\ cur \in Syms /\ cur \in mark /\ cur # NoWalk
      /\ at \in DOMAIN Steps(cur)
  BY <1>1, HereFacts, SymsAssumption DEF Walking, walk, Ledger, Types, TypeOK, Cover
<1>3. /\ prog' = prog /\ Roots' = Roots /\ Steps(cur)' = Steps(cur)
  BY <1>2 DEF fixed, Roots, Steps
<1>4. Added /\ \A g \in {cur}, s \in {Here}, u \in {used} : Done(g, s, u)'
  BY StepAdds
<1>5. /\ mark \subseteq mark' /\ ToSet(queue) \subseteq ToSet(queue') /\ mark' \ mark \subseteq ToSet(queue')
      /\ \A g \in mark : g \in usedInIface' => g \in usedInIface \/ g \in ToSet(queue')
      /\ usedInIface \subseteq usedInIface' /\ reflectSeen' = reflectSeen
  BY <1>4, NowMarks, NowMarksNext DEF Added, Adds
<1>6. Pending \subseteq Pending'
  BY <1>2, <1>4 DEF Pending, Added
<1>7. More
  BY <1>2, <1>4, <1>5, <1>6 DEF More, Added
<1>8. Settled'
  BY <1>2, <1>5, <1>7, SettledStays DEF Settled, Cover
<1>9. WalkSoFar'
  <2>1. IsInIface(cur)' => used' \/ cur' \in ToSet(queue')
    BY <1>2, <1>3, <1>5 DEF IsInIface, Cover, WalkSoFar
  <2>2. ASSUME NEW i \in DOMAIN Steps(cur), i < at + 1 PROVE Done(cur, Steps(cur)[i], used)'
    <3>1. i \in Nat
      <4>1. Steps(cur) \in Seq(StepRec)
        BY <1>2, StepsSet DEF Ledger, Types, TypeOK
      <4> QED BY <4>1
    <3>2. CASE i < at
      <4>1. Done(cur, Steps(cur)[i], used)
        BY <1>2, <3>2 DEF Cover, WalkSoFar
      <4>2. \A g, s, u : Done(g, s, u) => Done(g, s, u)'
        BY <1>7, DoneStays
      <4> QED BY <1>2, <1>3, <4>1, <4>2 DEF Done
    <3>3. CASE i = at
      <4>1. Steps(cur)[i] = Here
        BY <3>3 DEF Here
      <4> QED BY <1>2, <1>3, <1>4, <4>1 DEF Done
    <3> QED BY <1>2, <2>2, <3>1, <3>2, <3>3
  <2>3. cur' \in prog'.reflect \cap prog'.defined => reflectSeen'
    BY <1>2, <1>3, <1>5 DEF Cover, WalkSoFar
  <2> QED BY <1>2, <1>3, <2>1, <2>2, <2>3 DEF WalkSoFar
<1>10. \A i \in DOMAIN Roots' : Roots'[i] \in mark' \cup {NoSym}
  BY <1>2, <1>3, <1>5 DEF Cover
<1> QED
  BY <1>2, <1>3, <1>5, <1>8, <1>9, <1>10 DEF Cover

\* When a walk ends there is nothing left to do for its symbol, or it is queued.
LEMMA EndWalkCover == Ledger /\ Cover /\ Ledger' /\ EndWalk => Cover'
<1> SUFFICES ASSUME Ledger, Cover, Ledger', EndWalk PROVE Cover'
  OBVIOUS
<1>1. /\ UNCHANGED <<fixed, marks, rewritten, usedInIface, calls, markable, phase, rem, walks>>
      /\ cur' = NoWalk /\ at' = 1 /\ cur # NoWalk /\ phase = "flood" /\ at \notin DOMAIN Steps(cur)
  BY DEF EndWalk
<1>2. /\ mark' = mark /\ queue' = queue /\ prog' = prog /\ Roots' = Roots
      /\ UNCHANGED <<ifaceMethod, genericIfaceMethod, reflectSeen>>
      /\ cur \in Syms /\ at \in Nat \ {0} /\ NoWalk \notin mark
  BY <1>1, SymsAssumption DEF marks, fixed, Roots, calls, Ledger, Types, TypeOK, Cover
<1>3. Pending' = Pending
  BY <1>1 DEF Pending
<1>4. More
  BY <1>1, <1>2, <1>3 DEF More
<1>5. cur \in ToSet(queue) \/ Walked(cur)
  <2> SUFFICES ASSUME cur \notin ToSet(queue) PROVE Walked(cur)
    OBVIOUS
  <2>1. WalkSoFar /\ (IsInIface(cur) => used)
    BY <1>1 DEF Cover, WalkSoFar
  <2>2. used => IsInIface(cur)
    BY DEF Ledger
  <2>3. Steps(cur) \in Seq(StepRec) /\ ToSet(Steps(cur)) = AllSteps(cur)
    BY <1>2, StepsSet DEF Ledger, Types, TypeOK
  <2>4. ASSUME NEW s \in AllSteps(cur) PROVE Done(cur, s, used)
    <3>1. PICK i \in DOMAIN Steps(cur) : s = Steps(cur)[i]
      BY <2>3 DEF ToSet
    <3>2. i < at
      <4>1. Len(Steps(cur)) \in Nat /\ DOMAIN Steps(cur) = 1 .. Len(Steps(cur))
        BY <2>3
      <4> QED BY <1>1, <1>2, <4>1
    <3> QED BY <2>1, <3>1, <3>2 DEF WalkSoFar
  <2>5. \A s \in AllSteps(cur) : Done(cur, s, IsInIface(cur))
    BY <2>1, <2>2, <2>4 DEF Done
  <2> QED BY <2>1, <2>5 DEF Walked, WalkSoFar
<1>6. Settled'
  BY <1>1, <1>2, <1>4, <1>5, SettledStays DEF Settled, Cover
<1> QED
  BY <1>1, <1>2, <1>6 DEF Cover

\* ... the end of the flood, where nothing is queued, ...
LEMMA FloodDoneCover == Ledger /\ Cover /\ Ledger' /\ FloodDone => Cover'
<1> SUFFICES ASSUME Ledger, Cover, Ledger', FloodDone PROVE Cover'
  OBVIOUS
<1>1. /\ UNCHANGED <<fixed, marks, rewritten, usedInIface, calls, markable, pkginits, walk, at, rem, walks>>
      /\ phase = "flood" /\ phase' = "round" /\ cur = NoWalk /\ at = 1
  BY DEF FloodDone, Cover
<1>2. /\ mark' = mark /\ queue' = queue /\ prog' = prog /\ Roots' = Roots /\ cur' = NoWalk
      /\ UNCHANGED <<ifaceMethod, genericIfaceMethod, reflectSeen>>
  BY <1>1 DEF marks, fixed, Roots, calls, walk
<1>3. Pending \subseteq Pending'
  <2>1. DOMAIN markable \subseteq Nat \ {0}
    <3>1. markable \in Seq(Waiting)
      BY DEF Ledger, Types
    <3> QED BY <3>1
  <2>2. \A i \in DOMAIN markable : i >= 1
    BY <2>1
  <2> QED BY <1>1, <2>2 DEF Pending, ToSet
<1>4. More
  BY <1>1, <1>2, <1>3 DEF More
<1>5. Settled'
  BY <1>1, <1>2, <1>4, SettledStays DEF Settled, Cover
<1>6. rem' = <<>> /\ ToSet(<<>>) = {}
  <2>1. DOMAIN <<>> = {}
    OBVIOUS
  <2> QED BY <1>1, <2>1 DEF ToSet, Ledger
<1> QED
  BY <1>1, <1>2, <1>5, <1>6 DEF Cover

\* A method that can be called stops waiting when its symbols are marked.
LEMMA JudgeCover == Ledger /\ Cover /\ Ledger' /\ Judge => Cover'
<1> SUFFICES ASSUME Ledger, Cover, Ledger', Judge PROVE Cover'
  OBVIOUS
<1> DEFINE m == markable[at]
<1>1. /\ UNCHANGED <<fixed, rewritten, usedInIface, calls, markable, pkginits, phase, walk, walks>>
      /\ phase = "round" /\ at' = at + 1 /\ cur = NoWalk /\ at \in DOMAIN markable /\ at \in Nat
  BY DEF Judge, Ledger, Types, TypeOK
<1>2. /\ Now \in Marks /\ Book(Now) /\ Now.mark = mark /\ Now.queue = queue
      /\ rem \in Seq(Waiting) /\ markable \in Seq(Waiting)
      /\ \A w \in ToSet(markable) \cup ToSet(rem) : MayWait(w)
  BY NowMarks DEF Ledger, Types
<1>3. /\ prog' = prog /\ Roots' = Roots /\ cur' = NoWalk
      /\ UNCHANGED <<ifaceMethod, genericIfaceMethod, reflectSeen>>
  BY <1>1 DEF fixed, Roots, calls, walk
<1>4. m \in Waiting /\ m \in ToSet(markable) /\ DOMAIN markable \subseteq Nat
  BY <1>1, <1>2, MemberType
<1>5. m.src \in mark /\ Three(m.method) \subseteq SymOrNone
  BY <1>2, <1>4 DEF MayWait, Waiting, StepRec, Three
<1>6. \A w \in Pending : w = m \/ w \in {markable[i] : i \in {j \in DOMAIN markable : j >= at'}} \cup ToSet(rem)
  <2>1. \A i \in DOMAIN markable : i >= at => i = at \/ i >= at + 1
    BY <1>1, <1>4
  <2> QED BY <1>1, <2>1 DEF Pending
<1>7. \A sig : Callable(sig)' <=> Callable(sig)
  BY <1>3 DEF Callable
<1>8. /\ mark \subseteq mark' /\ ToSet(queue) \subseteq ToSet(queue') /\ mark' \ mark \subseteq ToSet(queue')
      /\ \/ rem' = rem /\ Three(m.method) \subseteq mark' \cup {NoSym}
         \/ /\ ToSet(rem') = ToSet(rem) \cup {m}
            /\ ~Callable(m.method.sig)
  <2>1. CASE Callable(m.method.sig)
    <3> DEFINE k == MarkMethod(Now, m.src, m.method)
    <3>1. Becomes(k) /\ rem' = rem
      BY <2>1 DEF Judge
    <3>2. k \in Marks /\ Book(k) /\ Adds(Now, k) /\ k.mark \cup {NoSym} = Now.mark \cup Three(m.method) \cup {NoSym}
      BY <1>2, <1>5, MarkMethodBook
    <3> HIDE DEF k
    <3>3. mark' = k.mark /\ queue' = k.queue
      BY <3>1 DEF Becomes
    <3> QED BY <1>2, <3>1, <3>2, <3>3 DEF Adds
  <2>2. CASE ~Callable(m.method.sig)
    <3>1. rem' = Append(rem, m) /\ mark' = mark /\ queue' = queue
      BY <2>2 DEF Judge, marks
    <3>2. ToSet(rem') = ToSet(rem) \cup {m}
      BY <1>2, <1>4, <3>1, AppendSet
    <3> QED BY <2>2, <3>1, <3>2
  <2> QED BY <2>1, <2>2
<1> HIDE DEF m
<1>9. \A w \in Pending : w \in Pending' \/ Three(w.method) \subseteq mark' \cup {NoSym}
  <2>1. Pending' = {markable[i] : i \in {j \in DOMAIN markable : j >= at'}} \cup ToSet(rem')
    BY <1>1 DEF Pending
  <2> QED BY <1>6, <1>8, <2>1
<1>10. More
  BY <1>1, <1>3, <1>8, <1>9 DEF More
<1>11. Settled'
  BY <1>1, <1>3, <1>8, <1>10, SettledStays DEF Settled, Cover
<1>12. \A w \in ToSet(rem') : ~Callable(w.method.sig)'
  BY <1>1, <1>7, <1>8 DEF Cover
<1>13. \A i \in DOMAIN Roots' : Roots'[i] \in mark' \cup {NoSym}
  BY <1>1, <1>3, <1>8 DEF Cover
<1> QED
  BY <1>1, <1>3, <1>11, <1>12, <1>13 DEF Cover

\* ... the end of a round ...
LEMMA RoundDoneCover == Ledger /\ Cover /\ Ledger' /\ RoundDone => Cover'
<1> SUFFICES ASSUME Ledger, Cover, Ledger', RoundDone PROVE Cover'
  OBVIOUS
<1>1. /\ UNCHANGED <<fixed, marks, rewritten, usedInIface, calls, pkginits, walk, walks>>
      /\ phase = "round" /\ phase' = NextPhase /\ cur = NoWalk
      /\ markable' = rem /\ rem' = <<>> /\ at' = 1 /\ at \notin DOMAIN markable /\ at \in Nat \ {0}
  BY DEF RoundDone, Ledger, Types, TypeOK, Cover
<1>2. /\ mark' = mark /\ queue' = queue /\ prog' = prog /\ Roots' = Roots /\ cur' = NoWalk
      /\ UNCHANGED <<ifaceMethod, genericIfaceMethod, reflectSeen>>
  BY <1>1 DEF marks, fixed, Roots, calls, walk
<1>3. Pending' = Pending
  <2>1. ~(\E i \in DOMAIN markable : i >= at)
    <3>1. Len(markable) \in Nat /\ DOMAIN markable = 1 .. Len(markable)
      <4>1. markable \in Seq(Waiting)
        BY DEF Ledger, Types
      <4> QED BY <4>1
    <3> QED BY <1>1, <3>1
  <2>2. phase' # "round"
    BY <1>1 DEF NextPhase
  <2>3. Pending = ToSet(rem)
    BY <1>1, <2>1 DEF Pending
  <2> QED BY <1>1, <2>2, <2>3 DEF Pending
<1>4. More
  BY <1>1, <1>2, <1>3 DEF More
<1>5. Settled'
  BY <1>1, <1>2, <1>4, SettledStays DEF Settled, Cover
<1>6. \A sig : Callable(sig)' <=> Callable(sig)
  BY <1>2 DEF Callable
<1>7. phase' \in {"flood", "cleanup"} /\ (phase' = "cleanup" => queue' = <<>>)
  BY <1>1, <1>2 DEF NextPhase
<1> QED
  BY <1>1, <1>2, <1>5, <1>6, <1>7 DEF Cover

\* ... and the cleanup.
LEMMA CleanupCover == Ledger /\ Cover /\ Ledger' /\ Cleanup => Cover'
<1> SUFFICES ASSUME Ledger, Cover, Ledger', Cleanup PROVE Cover'
  OBVIOUS
<1>1. /\ UNCHANGED <<fixed, usedInIface, walk, at>>
      /\ phase = "cleanup" /\ phase' = "done" /\ cur = NoWalk
  BY DEF Cleanup, Ledger
<1>2. prog' = prog /\ Roots' = Roots /\ cur' = NoWalk
  BY <1>1 DEF fixed, Roots, walk
<1>3. mark \subseteq mark'
  BY DEF Cleanup, Mark, Now
<1> QED
  BY <1>1, <1>2, <1>3 DEF Cover

\* So does a step in which nothing happens.
LEMMA StutterCover == Ledger /\ Cover /\ UNCHANGED vars => Cover'
<1> SUFFICES ASSUME Ledger, Cover, UNCHANGED vars PROVE Cover'
  OBVIOUS
<1>1. UNCHANGED <<prog, list, records, seen, extra, targets, mark, from, n, queue, rewritten, usedInIface,
                  ifaceMethod, genericIfaceMethod, reflectSeen, markable, pkginits, phase, cur, used, at, rem, walks>>
  BY DEF vars, fixed, tasks, marks, calls, walk
<1>2. /\ Settled' <=> Settled
      /\ WalkSoFar' <=> WalkSoFar
  BY <1>1 DEF Settled, WalkSoFar, Walked, Done, Pending, AllSteps, Steps, IsInIface, Marked
<1>3. Roots' = Roots /\ \A sig : Callable(sig)' <=> Callable(sig)
  BY <1>1 DEF Roots, Callable
<1> QED
  BY <1>1, <1>2, <1>3 DEF Cover

\* The cover holds through every step.
LEMMA StepCover == Ledger /\ Cover /\ Ledger' /\ [Next]_vars => Cover'
<1> SUFFICES ASSUME Ledger, Cover, Ledger', [Next]_vars PROVE Cover'
  OBVIOUS
<1>1. CASE Listed \/ \E g \in Syms : Schedule(g)
  BY <1>1, LoadCover
<1>2. CASE Root
  BY <1>2, RootCover
<1>3. CASE Pop
  BY <1>3, PopCover
<1>4. CASE AnyStep
  BY <1>4, WalkCover
<1>5. CASE EndWalk
  BY <1>5, EndWalkCover
<1>6. CASE FloodDone
  BY <1>6, FloodDoneCover
<1>7. CASE Judge
  BY <1>7, JudgeCover
<1>8. CASE RoundDone
  BY <1>8, RoundDoneCover
<1>9. CASE Cleanup
  BY <1>9, CleanupCover
<1>10. CASE UNCHANGED vars
  BY <1>10, StutterCover
<1> QED
  BY <1>1, <1>2, <1>3, <1>4, <1>5, <1>6, <1>7, <1>8, <1>9, <1>10 DEF Next, AnyStep

\* Every kept symbol is queued, is being walked or has nothing left to do, in every state.
THEOREM CoverHolds == Spec => [](Ledger /\ Cover)
<1>1. Init => Ledger /\ Cover
  BY InitLedger, InitCover
<1>2. (Ledger /\ Cover) /\ [Next]_vars => (Ledger /\ Cover)'
  BY StepLedger, StepCover
<1> QED
  BY <1>1, <1>2, PTL DEF Spec

\* When the flood and the rounds are over, the facts are closed.
LEMMA ClosedAtCleanup == Ledger /\ Cover => KeepsWhatIsUsed
<1> SUFFICES ASSUME Ledger, Cover, phase = "cleanup" PROVE Closed(Facts)
  BY DEF KeepsWhatIsUsed
<1>1. /\ queue = <<>> /\ cur = NoWalk /\ Settled /\ NoWalk \notin mark /\ mark \subseteq Syms
      /\ IsProgram(prog) /\ extra \in [Syms -> Seq(Syms)] /\ targets \in [Syms -> Seq(Syms)]
      /\ NoSym \notin Syms
  BY SymsAssumption DEF Cover, Ledger, Types, TypeOK
<1>2. \A w \in Pending : ~Callable(w.method.sig)
  BY DEF Cover, Pending
<1>3. \A g \in mark : Walked(g)
  <2>1. ToSet(queue) = {}
    <3>1. DOMAIN <<>> = {}
      OBVIOUS
    <3> QED BY <1>1, <3>1 DEF ToSet
  <2> QED BY <1>1, <2>1 DEF Settled
<1> DEFINE F == Facts
<1>4. /\ F.kept = mark /\ F.iface = usedInIface /\ F.sigs = ifaceMethod /\ F.names = genericIfaceMethod
      /\ F.reflect = reflectSeen
  BY DEF Facts
<1> HIDE DEF F
<1>5. \A sig : CanBeCalled(F, sig) <=> Callable(sig)
  BY <1>4 DEF CanBeCalled, Callable
<1>6. prog.iface \subseteq F.iface
  BY <1>4 DEF Cover
<1>7. ToSet(Roots) \subseteq F.kept \cup {NoSym}
  BY <1>4 DEF Cover, ToSet
<1>8. ASSUME NEW g \in mark
      PROVE  /\ ToSet(extra[g]) \subseteq F.kept
             /\ g \in {MainTasks, RuntimeTasks} => ToSet(targets[g]) \subseteq F.kept
             /\ g \in prog.defined => /\ ToSet(prog.aux[g]) \subseteq F.kept \cup {NoSym}
                                      /\ g \in prog.reflect => F.reflect
                                      /\ \A r \in ToSet(prog.relocs[g]) : Follows(g, r, F, F)
  <2>1. g \in Syms /\ Walked(g)
    BY <1>1, <1>3
  <2>2. \A x : KeepStep(x) \in AllSteps(g) => x \in mark \cup {NoSym}
    BY <2>1 DEF Walked, Done, KeepStep
  <2>3. ToSet(extra[g]) \subseteq Syms /\ ToSet(targets[g]) \subseteq Syms
    BY <1>1, <2>1, MemberType
  <2>4. ToSet(extra[g]) \subseteq mark
    BY <1>1, <2>2, <2>3 DEF AllSteps
  <2>5. g \in {MainTasks, RuntimeTasks} => ToSet(targets[g]) \subseteq mark
    BY <1>1, <2>2, <2>3 DEF AllSteps
  <2>6. ASSUME g \in prog.defined
        PROVE  /\ ToSet(prog.aux[g]) \subseteq mark \cup {NoSym}
               /\ g \in prog.reflect => reflectSeen
               /\ \A r \in ToSet(prog.relocs[g]) : Follows(g, r, F, F)
    <3>1. g \notin {MainTasks, RuntimeTasks}
      BY <1>1, <2>6, Parts
    <3>2. ToSet(prog.aux[g]) \subseteq mark \cup {NoSym}
      BY <2>2, <2>6, <3>1 DEF AllSteps
    <3>3. g \in prog.reflect => reflectSeen
      BY <2>1, <2>6 DEF Walked
    <3>4. ASSUME NEW r \in ToSet(prog.relocs[g]) PROVE Follows(g, r, F, F)
      <4>1. r \in AllSteps(g) /\ Decision(r) \in AllSteps(g)
        BY <2>6, <3>1 DEF AllSteps
      <4>2. Done(g, r, IsInIface(g)) /\ Done(g, Decision(r), IsInIface(g))
        BY <2>1, <4>1 DEF Walked
      <4>3. r \in Reloc
        BY <1>1, <2>1, Parts
      <4>4. IsInIface(g) <=> g \in prog.types /\ g \in F.iface
        BY <1>4 DEF IsInIface
      <4>5. CASE r.type = "METHODOFF"
        <5> DEFINE s == Step("DECIDE", r)
        <5>1. Decision(r) = s
          BY <4>5 DEF Decision
        <5>2. s.type = "DECIDE" /\ s.sig = r.sig /\ Three(s) = Three(r)
          BY <4>3 DEF Step, Reloc, Three
        <5> HIDE DEF s
        <5>3. IsInIface(g) => r.sym \in usedInIface \cup {NoSym}
          BY <4>2, <4>5 DEF Done
        <5>4. IsInIface(g) => \/ g \in prog.decoded /\ [src |-> g, method |-> s] \in Pending
                            \/ Three(r) \subseteq mark \cup {NoSym}
          BY <4>2, <5>1, <5>2 DEF Done
        <5>5. [src |-> g, method |-> s] \in Pending => ~Callable(r.sig)
          <6> DEFINE w == [src |-> g, method |-> s]
          <6>1. w.method = s
            OBVIOUS
          <6> HIDE DEF w
          <6>2. w \in Pending => ~Callable(w.method.sig)
            BY <1>2
          <6> QED BY <5>2, <6>1, <6>2 DEF w
        <5> QED BY <1>4, <1>5, <4>4, <4>5, <5>3, <5>4, <5>5 DEF Follows, Three
      <4>6. CASE r.type = "ADDR"
        BY <1>4, <4>2, <4>4, <4>6 DEF Follows, Done
      <4>7. CASE r.type = "USEIFACE"
        BY <1>4, <4>2, <4>7 DEF Follows, Done
      <4>8. CASE r.type = "USEIFACEMETHOD"
        BY <1>4, <4>2, <4>8 DEF Follows, Done
      <4>9. CASE r.type = "USENAMEDMETHOD"
        BY <1>4, <4>2, <4>9 DEF Follows, Done
      <4>10. CASE r.type \notin {"METHODOFF", "ADDR", "USEIFACE", "USEIFACEMETHOD", "USENAMEDMETHOD"}
        BY <4>10 DEF Follows
      <4> QED BY <4>5, <4>6, <4>7, <4>8, <4>9, <4>10
    <3> QED BY <3>2, <3>3, <3>4
  <2> QED BY <1>4, <2>4, <2>5, <2>6
<1>9. CallsFor(F, F)
  BY <1>4, <1>6, <1>7, <1>8 DEF CallsFor
<1> QED
  BY <1>9 DEF Closed, F

\* Whatever the program, no type that gets the attribute late, no method that
\* can be called late and no child of such a type is missed.
THEOREM KeepsAll == Spec => []KeepsWhatIsUsed
BY CoverHolds, ClosedAtCleanup, PTL

-----------------------------------------------------------------------------
(* Leastness: nothing else is kept *)

FactSpace == [kept : SUBSET Syms, iface : SUBSET Syms, sigs : SUBSET Sigs, names : SUBSET Names,
              reflect : BOOLEAN]

\* The facts of the pass are facts of G.
Within(G) == /\ mark \subseteq G.kept /\ usedInIface \subseteq G.iface
             /\ ifaceMethod \subseteq G.sigs /\ genericIfaceMethod \subseteq G.names
             /\ reflectSeen => G.reflect

\* Until the cleanup the facts are facts of everything that is closed.
NoMore == /\ phase = "load" => /\ mark = {} /\ usedInIface = prog.iface
                               /\ ifaceMethod = {} /\ genericIfaceMethod = {} /\ reflectSeen = FALSE
          /\ phase # "done" => \A G \in FactSpace : Closed(G) => Within(G)

\* When the flood and the rounds end the facts are in every closed set of facts:
\* a symbol the program does not use is dropped.
KeepsOnlyWhatIsUsed == phase = "cleanup" => \A G \in FactSpace : Closed(G) => Within(G)

\* What closed facts say of a step of a walk.
LEMMA StepNeeds ==
  ASSUME IsProgram(prog), extra \in [Syms -> Seq(Syms)], targets \in [Syms -> Seq(Syms)],
         NEW G, Closed(G), NEW g \in G.kept, g \in Syms, NEW s \in AllSteps(g)
  PROVE  /\ s.type = "KEEP" => s.sym \in G.kept \cup {NoSym}
         /\ s.type \in Kinds \ {"WEAK"} => Follows(g, s, G, G)
         /\ s.type = "DECIDE" => \E r \in ToSet(prog.relocs[g]) :
                                   r.type = "METHODOFF" /\ s = Step("DECIDE", r) /\ Follows(g, r, G, G)
<1>1. /\ ToSet(extra[g]) \subseteq G.kept
      /\ g \in {MainTasks, RuntimeTasks} => ToSet(targets[g]) \subseteq G.kept
      /\ g \in prog.defined => /\ ToSet(prog.aux[g]) \subseteq G.kept \cup {NoSym}
                               /\ \A r \in ToSet(prog.relocs[g]) : Follows(g, r, G, G)
  BY DEF Closed, CallsFor
<1>2. ToSet(prog.relocs[g]) \subseteq Reloc
  BY Parts
<1>3. CASE \E x \in G.kept \cup {NoSym} : s = KeepStep(x)
  BY <1>3 DEF KeepStep, Kinds
<1>4. CASE g \in prog.defined /\ s \in ToSet(prog.relocs[g])
  <2>1. s.type \in Kinds /\ Follows(g, s, G, G)
    BY <1>1, <1>2, <1>4 DEF Reloc
  <2> QED BY <2>1 DEF Kinds
<1>5. ASSUME g \in prog.defined, NEW r \in ToSet(prog.relocs[g]), s = Decision(r)
      PROVE  /\ s.type \in {"WEAK", "DECIDE"}
             /\ s.type = "DECIDE" => r.type = "METHODOFF" /\ s = Step("DECIDE", r) /\ Follows(g, r, G, G)
  <2>1. r \in Reloc /\ Follows(g, r, G, G)
    BY <1>1, <1>2, <1>5
  <2>2. Step("WEAK", r).type = "WEAK" /\ Step("DECIDE", r).type = "DECIDE"
    BY <2>1 DEF Step, Reloc
  <2> QED BY <1>5, <2>1, <2>2 DEF Decision
<1>6. \/ \E x \in G.kept \cup {NoSym} : s = KeepStep(x)
      \/ g \in prog.defined /\ s \in ToSet(prog.relocs[g])
      \/ g \in prog.defined /\ \E r \in ToSet(prog.relocs[g]) : s = Decision(r)
  BY <1>1 DEF AllSteps
<1>7. CASE g \in prog.defined /\ \E r \in ToSet(prog.relocs[g]) : s = Decision(r)
  BY <1>5, <1>7 DEF Kinds
<1> QED
  BY <1>3, <1>4, <1>6, <1>7

\* What can be called by the facts of the pass can be called by facts that hold
\* them.
LEMMA CallableWithin ==
  ASSUME NEW G, Within(G), NEW sig, Callable(sig)
  PROVE  CanBeCalled(G, sig)
BY DEF Within, Callable, CanBeCalled

\* The symbols of a method that can be called are kept by closed facts.
LEMMA MethodNeeds ==
  ASSUME NEW G, NEW g, NEW r, r.type = "METHODOFF", Follows(g, r, G, G),
         g \in prog.types, g \in G.iface,
         g \notin prog.decoded \/ CanBeCalled(G, r.sig)
  PROVE  Three(r) \subseteq G.kept \cup {NoSym}
BY DEF Follows, Three

\* A step of a walk adds only what closed facts have.
LEMMA WalkWithin ==
  ASSUME Ledger, AnyStep, NEW G \in FactSpace, Closed(G), Within(G)
  PROVE  Within(G)'
<1>1. PICK types : Walking(types)
  BY DEF AnyStep, Ignore, Keep, Reference, UseIface, MethodType, UseIfaceMethod, UseNamedMethod, Decide
<1>2. /\ cur \in Syms /\ cur \in mark /\ Here \in AllSteps(cur)
      /\ Here.sym \in SymOrNone /\ Three(Here) \subseteq SymOrNone
  BY <1>1, HereFacts
<1>3. /\ Now \in Marks /\ Book(Now) /\ Now.mark = mark /\ cur \in G.kept /\ NoSym \notin Syms
      /\ IsProgram(prog) /\ extra \in [Syms -> Seq(Syms)] /\ targets \in [Syms -> Seq(Syms)]
      /\ used => cur \in prog.types /\ cur \in G.iface
  BY <1>2, NowMarks, SymsAssumption DEF Ledger, Types, TypeOK, Within, IsInIface
<1>4. /\ Here.type = "KEEP" => Here.sym \in G.kept \cup {NoSym}
      /\ Here.type \in Kinds \ {"WEAK"} => Follows(cur, Here, G, G)
      /\ Here.type = "DECIDE" => \E r \in ToSet(prog.relocs[cur]) :
                                   r.type = "METHODOFF" /\ Here = Step("DECIDE", r) /\ Follows(cur, r, G, G)
  BY <1>2, <1>3, StepNeeds
<1>5. CASE Ignore
  BY <1>5 DEF Ignore, Within, marks, calls
<1>6. CASE Keep
  <2> DEFINE k == Mark(Now, Here.sym, cur)
  <2>1. mark' = k.mark /\ UNCHANGED <<usedInIface, calls>> /\ Here.type = "KEEP"
    BY <1>6 DEF Keep, Walking, Becomes
  <2>2. k.mark \cup {NoSym} = mark \cup {Here.sym, NoSym} /\ k.mark \subseteq Syms
    BY <1>2, <1>3, MarkBook DEF Book
  <2> HIDE DEF k
  <2> QED BY <1>3, <1>4, <2>1, <2>2 DEF Within, calls
<1>7. CASE Reference
  <2> DEFINE rs == Here.sym
             k  == Mark(IF Inherits(rs) THEN Unmark(Now, rs) ELSE Now, rs, cur)
  <2>1. /\ usedInIface' = usedInIface \cup IF Inherits(rs) THEN {rs} ELSE {}
        /\ mark' = k.mark /\ UNCHANGED calls /\ Here.type = "ADDR"
    BY <1>7 DEF Reference, Walking, Becomes
  <2>2. k.mark \cup {NoSym} = mark \cup {rs, NoSym} /\ k.mark \subseteq Syms
    <3>1. CASE Inherits(rs)
      <4>1. rs \in Syms
        BY <1>3, <3>1, Parts DEF Inherits
      <4> HIDE DEF rs
      <4>2. k = Mark(Unmark(Now, rs), rs, cur)
        BY <3>1
      <4> DEFINE l == Mark(Unmark(Now, rs), rs, cur)
      <4>3. Book(l) /\ l.mark = Now.mark \cup {rs}
        BY <1>2, <1>3, <4>1, AgainBook
      <4> HIDE DEF l
      <4>4. k = l
        BY <4>2 DEF l
      <4> QED BY <1>3, <4>3, <4>4 DEF Book
    <3>2. CASE ~Inherits(rs)
      <4>1. rs \in SymOrNone
        BY <1>2
      <4> HIDE DEF rs
      <4>2. k = Mark(Now, rs, cur)
        BY <3>2
      <4> QED BY <1>2, <1>3, <3>2, <4>1, <4>2, MarkBook DEF Book
    <3> QED BY <3>1, <3>2
  <2> HIDE DEF k
  <2>3. rs \in G.kept \cup {NoSym} /\ (Inherits(rs) => rs \in G.iface)
    BY <1>3, <1>4, <2>1 DEF Follows, Inherits, Kinds
  <2> QED BY <1>3, <2>1, <2>2, <2>3 DEF Within, calls
<1>8. CASE UseIface
  <2>1. SetUsedInIface(Marked(Here.sym)) /\ UNCHANGED calls /\ Here.type = "USEIFACE"
    BY <1>8 DEF UseIface, Walking
  <2>2. Marked(Here.sym) \in SymOrNone
    BY <1>2, <1>3, Parts DEF Marked
  <2>3. mark' = mark /\ usedInIface' \ usedInIface \subseteq {Marked(Here.sym)} \ {NoSym}
    BY <1>2, <2>1, <2>2, SetUsed
  <2>4. Marked(Here.sym) \in G.iface \cup {NoSym}
    BY <1>4, <2>1 DEF Follows, Kinds
  <2> QED BY <2>1, <2>3, <2>4 DEF Within, calls
<1>9. CASE MethodType
  <2>1. SetUsedInIface(Here.sym) /\ UNCHANGED calls /\ Here.type = "METHODOFF" /\ used
    BY <1>9 DEF MethodType, Walking
  <2>2. mark' = mark /\ usedInIface' \ usedInIface \subseteq {Here.sym} \ {NoSym}
    BY <1>2, <2>1, SetUsed
  <2>3. Here.sym \in G.iface \cup {NoSym}
    BY <1>3, <1>4, <2>1 DEF Follows, Kinds
  <2> QED BY <2>1, <2>2, <2>3 DEF Within, calls
<1>10. CASE UseIfaceMethod
  <2>1. /\ ifaceMethod' = ifaceMethod \cup IF Here.sym \in prog.defined /\ Here.sig # NoSig THEN {Here.sig} ELSE {}
        /\ UNCHANGED <<marks, usedInIface, genericIfaceMethod, reflectSeen>> /\ Here.type = "USEIFACEMETHOD"
    BY <1>10 DEF UseIfaceMethod, Walking
  <2>2. Here.sym \in prog.defined /\ Here.sig # NoSig => Here.sig \in G.sigs
    BY <1>4, <2>1 DEF Follows, Kinds
  <2> QED BY <2>1, <2>2 DEF Within, marks
<1>11. CASE UseNamedMethod
  <2>1. /\ genericIfaceMethod' = genericIfaceMethod \cup IF Here.sym \in prog.defined THEN {prog.nameIn[Here.sym]} ELSE {}
        /\ UNCHANGED <<marks, usedInIface, ifaceMethod, reflectSeen>> /\ Here.type = "USENAMEDMETHOD"
    BY <1>11 DEF UseNamedMethod, Walking
  <2>2. Here.sym \in prog.defined => prog.nameIn[Here.sym] \in G.names
    BY <1>4, <2>1 DEF Follows, Kinds
  <2> QED BY <2>1, <2>2 DEF Within, marks
<1>12. CASE Decide
  <2>1. UNCHANGED <<usedInIface, calls>> /\ Here.type = "DECIDE" /\ used
    BY <1>12 DEF Decide, Walking
  <2>2. CASE cur \in prog.decoded
    <3>1. UNCHANGED marks
      BY <1>12, <2>2 DEF Decide
    <3> QED BY <2>1, <3>1 DEF Within, marks, calls
  <2>3. CASE cur \notin prog.decoded
    <3> DEFINE k == MarkMethod(Now, cur, Here)
    <3>1. mark' = k.mark
      BY <1>12, <2>3 DEF Decide, Becomes
    <3>2. k.mark \cup {NoSym} = mark \cup Three(Here) \cup {NoSym} /\ k.mark \subseteq Syms
      BY <1>2, <1>3, MarkMethodBook DEF Book
    <3> HIDE DEF k
    <3>3. Three(Here) \subseteq G.kept \cup {NoSym}
      <4>1. PICK r \in ToSet(prog.relocs[cur]) : r.type = "METHODOFF" /\ Here = Step("DECIDE", r) /\ Follows(cur, r, G, G)
        BY <1>4, <2>1
      <4>2. r \in Reloc
        BY <1>2, <1>3, Parts
      <4>3. Three(Here) = Three(r)
        BY <4>1, <4>2 DEF Three, Step, Reloc
      <4> QED BY <1>3, <2>1, <2>3, <4>1, <4>3, MethodNeeds
    <3> QED BY <1>3, <2>1, <3>1, <3>2, <3>3 DEF Within, calls
  <2> QED BY <2>2, <2>3
<1> QED
  BY <1>5, <1>6, <1>7, <1>8, <1>9, <1>10, <1>11, <1>12 DEF AnyStep

\* In the beginning there are no facts.
LEMMA InitNoMore == Init => NoMore
<1> SUFFICES ASSUME Init PROVE NoMore
  OBVIOUS
<1>1. /\ phase = "load" /\ mark = {} /\ usedInIface = prog.iface
      /\ ifaceMethod = {} /\ genericIfaceMethod = {} /\ reflectSeen = FALSE
  BY DEF Init
<1>2. \A G \in FactSpace : Closed(G) => prog.iface \subseteq G.iface
  BY DEF Closed, CallsFor
<1> QED
  BY <1>1, <1>2 DEF NoMore, Within

\* Closed facts are closed as long as the program and the lists are the same.
LEMMA ClosedStays ==
  ASSUME UNCHANGED fixed, NEW G
  PROVE  Closed(G)' <=> Closed(G)
<1>1. prog' = prog /\ extra' = extra /\ targets' = targets
  BY DEF fixed
<1> QED
  BY <1>1 DEF Closed, CallsFor, Follows, Marked, CanBeCalled, Roots

\* In every step the facts of the pass stay within closed facts.
LEMMA StepNoMore == Ledger /\ NoMore /\ [Next]_vars => NoMore'
<1> SUFFICES ASSUME Ledger, NoMore, [Next]_vars PROVE NoMore'
  OBVIOUS
<1>1. CASE Listed \/ \E g \in Syms : Schedule(g)
  <2>1. UNCHANGED <<prog, marks, usedInIface, calls>> /\ phase = "load" /\ phase' \in {"load", "roots"}
    BY <1>1 DEF Listed, Schedule
  <2>2. /\ mark' = {} /\ usedInIface' = prog'.iface
        /\ ifaceMethod' = {} /\ genericIfaceMethod' = {} /\ reflectSeen' = FALSE
    BY <2>1 DEF marks, calls, NoMore
  <2>3. \A G \in FactSpace : Closed(G)' => prog'.iface \subseteq G.iface
    BY DEF Closed, CallsFor
  <2> QED BY <2>1, <2>2, <2>3 DEF NoMore, Within, FactSpace
<1>2. CASE Cleanup
  <2>1. phase' = "done"
    BY <1>2 DEF Cleanup
  <2> QED BY <2>1 DEF NoMore
<1>3. CASE UNCHANGED vars
  <2>1. /\ UNCHANGED fixed
        /\ UNCHANGED <<prog, mark, usedInIface, ifaceMethod, genericIfaceMethod, reflectSeen, phase>>
    BY <1>3 DEF vars, fixed, marks, calls
  <2>2. \A G : Closed(G)' <=> Closed(G)
    BY <2>1, ClosedStays
  <2> QED BY <2>1, <2>2 DEF NoMore, Within, FactSpace
<1>4. CASE Root \/ Pop \/ AnyStep \/ EndWalk \/ FloodDone \/ Judge \/ RoundDone
  <2>1. UNCHANGED fixed /\ phase' # "load" /\ phase # "done" /\ phase # "load"
    BY <1>4 DEF Root, Pop, AnyStep, Walking, EndWalk, FloodDone, Judge, RoundDone, NextPhase,
       Ignore, Keep, Reference, UseIface, MethodType, UseIfaceMethod, UseNamedMethod, Decide
  <2> SUFFICES ASSUME NEW G \in FactSpace, Closed(G) PROVE Within(G)'
    BY <2>1, ClosedStays DEF NoMore, FactSpace
  <2>2. Within(G)
    BY <2>1 DEF NoMore
  <2>3. /\ IsProgram(prog) /\ Now \in Marks /\ Book(Now) /\ Now.mark = mark /\ mark \subseteq Syms /\ NoSym \notin Syms
    BY NowMarks, SymsAssumption DEF Ledger, Types, TypeOK
  <2>4. CASE Root
    <3>1. UNCHANGED <<usedInIface, calls>>
      BY <2>4 DEF Root
    <3>2. CASE at \in DOMAIN Roots
      <4> DEFINE k == Mark(Now, Roots[at], NoSym)
      <4>1. mark' = k.mark
        BY <2>4, <3>2 DEF Root, Becomes
      <4>2. k.mark \cup {NoSym} = mark \cup {Roots[at], NoSym} /\ k.mark \subseteq Syms
        BY <2>3, <3>2, MarkBook, RootsType DEF Book
      <4> HIDE DEF k
      <4>3. Roots[at] \in G.kept \cup {NoSym}
        BY <3>2 DEF Closed, CallsFor, ToSet
      <4> QED BY <2>2, <2>3, <3>1, <4>1, <4>2, <4>3 DEF Within, calls
    <3>3. CASE at \notin DOMAIN Roots
      BY <2>2, <2>4, <3>1, <3>3 DEF Root, Within, calls, marks
    <3> QED BY <3>2, <3>3
  <2>5. CASE Pop
    <3>1. /\ UNCHANGED <<mark, usedInIface, ifaceMethod, genericIfaceMethod>>
          /\ reflectSeen' = (reflectSeen \/ cur' \in prog.reflect \cap prog.defined)
          /\ cur' = Last(queue) /\ queue # <<>>
      BY <2>5 DEF Pop
    <3>2. cur' \in mark
      <4>1. queue \in Seq(Syms) /\ ToSet(queue) \subseteq mark
        BY NowMarks DEF Book, Marks
      <4> QED BY <3>1, <4>1, LastSet
    <3>3. cur' \in prog.reflect \cap prog.defined => G.reflect
      BY <2>2, <3>2 DEF Closed, CallsFor, Within
    <3> QED BY <2>2, <3>1, <3>3 DEF Within
  <2>6. CASE AnyStep
    BY <2>2, <2>6, WalkWithin
  <2>7. CASE EndWalk \/ FloodDone \/ RoundDone
    <3>1. UNCHANGED <<marks, usedInIface, calls>>
      BY <2>7 DEF EndWalk, FloodDone, RoundDone
    <3> QED BY <2>2, <3>1 DEF Within, marks, calls
  <2>8. CASE Judge
    <3> DEFINE m == markable[at]
               k == MarkMethod(Now, m.src, m.method)
    <3>1. UNCHANGED <<usedInIface, calls>> /\ at \in DOMAIN markable
      BY <2>8 DEF Judge
    <3>2. m \in Waiting /\ MayWait(m)
      BY <3>1, MemberType DEF Ledger, Types
    <3>3. CASE Callable(m.method.sig)
      <4>1. mark' = k.mark
        BY <2>8, <3>3 DEF Judge, Becomes
      <4>2. m.src \in mark \cap prog.decoded /\ m.src \in Syms /\ IsInIface(m.src) /\ Three(m.method) \subseteq SymOrNone
        BY <3>2 DEF MayWait, Waiting, StepRec, Three
      <4>3. k.mark \cup {NoSym} = mark \cup Three(m.method) \cup {NoSym} /\ k.mark \subseteq Syms
        BY <2>3, <4>2, MarkMethodBook DEF Book
      <4>4. PICK r \in ToSet(prog.relocs[m.src]) : r.type = "METHODOFF" /\ m.method = Step("DECIDE", r)
        BY <3>2 DEF MayWait
      <4>5. r \in Reloc
        BY <2>3, <4>2, Parts
      <4>6. Three(m.method) = Three(r) /\ m.method.sig = r.sig
        BY <4>4, <4>5 DEF Three, Step, Reloc
      <4>7. m.src \in G.kept /\ m.src \in prog.types /\ m.src \in G.iface /\ m.src \in prog.defined
        BY <2>2, <2>3, <4>2, Parts DEF Within, IsInIface
      <4>8. Follows(m.src, r, G, G)
        BY <4>4, <4>7 DEF Closed, CallsFor
      <4>9. CanBeCalled(G, r.sig)
        BY <2>2, <3>3, <4>6, CallableWithin
      <4>10. Three(r) \subseteq G.kept \cup {NoSym}
        BY <4>4, <4>7, <4>8, <4>9, MethodNeeds
      <4> HIDE DEF m, k
      <4> QED BY <2>2, <2>3, <3>1, <4>1, <4>3, <4>6, <4>10 DEF Within, calls
    <3>4. CASE ~Callable(m.method.sig)
      BY <2>2, <2>8, <3>1, <3>4 DEF Judge, Within, marks, calls
    <3> QED BY <3>3, <3>4
  <2> QED BY <1>4, <2>4, <2>5, <2>6, <2>7, <2>8
<1> QED
  BY <1>1, <1>2, <1>3, <1>4 DEF Next, AnyStep

\* Whatever the program, nothing is kept that it does not use.
THEOREM KeepsNoMore == Spec => []KeepsOnlyWhatIsUsed
<1>1. Init => Ledger /\ NoMore
  BY InitLedger, InitNoMore
<1>2. (Ledger /\ NoMore) /\ [Next]_vars => (Ledger /\ NoMore)'
  BY StepLedger, StepNoMore
<1>3. NoMore => KeepsOnlyWhatIsUsed
  BY DEF NoMore, KeepsOnlyWhatIsUsed
<1> QED
  BY <1>1, <1>2, <1>3, PTL DEF Spec

-----------------------------------------------------------------------------
(* Exactness: the rules, followed from nothing, come to the same facts *)

\* The facts F are facts of G.
Below(F, G) == /\ F.kept \subseteq G.kept /\ F.iface \subseteq G.iface
               /\ F.sigs \subseteq G.sigs /\ F.names \subseteq G.names
               /\ F.reflect => G.reflect

\* Fewer facts call for less, and more hold what is called for.
LEMMA FollowsMonotone ==
  ASSUME NEW g, NEW r, NEW F, NEW F2, NEW G, NEW G2, Below(F2, F), Below(G, G2), Follows(g, r, F, G)
  PROVE  Follows(g, r, F2, G2)
<1> USE DEF Below
<1>1. CanBeCalled(F2, r.sig) => CanBeCalled(F, r.sig)
  BY DEF CanBeCalled
<1>2. CASE r.type = "ADDR"
  BY <1>2 DEF Follows
<1>3. CASE r.type = "USEIFACE"
  BY <1>3 DEF Follows
<1>4. CASE r.type = "USEIFACEMETHOD"
  BY <1>4 DEF Follows
<1>5. CASE r.type = "USENAMEDMETHOD"
  BY <1>5 DEF Follows
<1>6. CASE r.type = "METHODOFF"
  BY <1>1, <1>6 DEF Follows
<1>7. CASE r.type \notin {"ADDR", "USEIFACE", "USEIFACEMETHOD", "USENAMEDMETHOD", "METHODOFF"}
  BY <1>7 DEF Follows
<1> QED
  BY <1>2, <1>3, <1>4, <1>5, <1>6, <1>7

\* If F calls for nothing that G lacks, then less than F calls for nothing that
\* more than G lacks.
LEMMA CallsMonotone ==
  ASSUME NEW F, NEW F2, NEW G, NEW G2, Below(F2, F), Below(G, G2), CallsFor(F, G)
  PROVE  CallsFor(F2, G2)
<1>1. /\ prog.iface \subseteq G2.iface
      /\ ToSet(Roots) \subseteq G2.kept \cup {NoSym}
  BY DEF Below, CallsFor
<1>2. ASSUME NEW g \in F2.kept
      PROVE  /\ ToSet(extra[g]) \subseteq G2.kept
             /\ g \in {MainTasks, RuntimeTasks} => ToSet(targets[g]) \subseteq G2.kept
             /\ g \in prog.defined => /\ ToSet(prog.aux[g]) \subseteq G2.kept \cup {NoSym}
                                      /\ g \in prog.reflect => G2.reflect
                                      /\ \A r \in ToSet(prog.relocs[g]) : Follows(g, r, F2, G2)
  <2>1. /\ g \in F.kept /\ ToSet(extra[g]) \subseteq G.kept
        /\ g \in {MainTasks, RuntimeTasks} => ToSet(targets[g]) \subseteq G.kept
        /\ g \in prog.defined => /\ ToSet(prog.aux[g]) \subseteq G.kept \cup {NoSym}
                                 /\ g \in prog.reflect => G.reflect
                                 /\ \A r \in ToSet(prog.relocs[g]) : Follows(g, r, F, G)
    BY DEF Below, CallsFor
  <2>2. G.kept \subseteq G2.kept /\ (G.reflect => G2.reflect)
    BY DEF Below
  <2>3. g \in prog.defined => \A r \in ToSet(prog.relocs[g]) : Follows(g, r, F2, G2)
    BY <2>1, FollowsMonotone
  <2> QED BY <2>1, <2>2, <2>3
<1> QED
  BY <1>1, <1>2 DEF CallsFor

\* A fact that X does not tell is one of those X lacks.
LEMMA Untold ==
  ASSUME NEW X
  PROVE  /\ \A g \in Syms : g \notin Told(X).kept => \E x \in Fact \ X : g \notin Told(Fact \ {x}).kept
         /\ \A g \in Syms : g \notin Told(X).iface => \E x \in Fact \ X : g \notin Told(Fact \ {x}).iface
         /\ \A m \in Sigs : m \notin Told(X).sigs => \E x \in Fact \ X : m \notin Told(Fact \ {x}).sigs
         /\ \A m \in Names : m \notin Told(X).names => \E x \in Fact \ X : m \notin Told(Fact \ {x}).names
         /\ ~Told(X).reflect => \E x \in Fact \ X : ~Told(Fact \ {x}).reflect
<1>1. ASSUME NEW g \in Syms, g \notin Told(X).kept PROVE \E x \in Fact \ X : g \notin Told(Fact \ {x}).kept
  <2>1. <<"kept", g>> \in Fact \ X /\ g \notin Told(Fact \ {<<"kept", g>>}).kept
    BY <1>1 DEF Told, Fact
  <2> QED BY <2>1
<1>2. ASSUME NEW g \in Syms, g \notin Told(X).iface PROVE \E x \in Fact \ X : g \notin Told(Fact \ {x}).iface
  <2>1. <<"iface", g>> \in Fact \ X /\ g \notin Told(Fact \ {<<"iface", g>>}).iface
    BY <1>2 DEF Told, Fact
  <2> QED BY <2>1
<1>3. ASSUME NEW m \in Sigs, m \notin Told(X).sigs PROVE \E x \in Fact \ X : m \notin Told(Fact \ {x}).sigs
  <2>1. <<"sigs", m>> \in Fact \ X /\ m \notin Told(Fact \ {<<"sigs", m>>}).sigs
    BY <1>3 DEF Told, Fact
  <2> QED BY <2>1
<1>4. ASSUME NEW m \in Names, m \notin Told(X).names PROVE \E x \in Fact \ X : m \notin Told(Fact \ {x}).names
  <2>1. <<"names", m>> \in Fact \ X /\ m \notin Told(Fact \ {<<"names", m>>}).names
    BY <1>4 DEF Told, Fact
  <2> QED BY <2>1
<1>5. ASSUME ~Told(X).reflect PROVE \E x \in Fact \ X : ~Told(Fact \ {x}).reflect
  <2>1. <<"reflect", TRUE>> \in Fact \ X /\ ~Told(Fact \ {<<"reflect", TRUE>>}).reflect
    BY <1>5 DEF Told, Fact
  <2> QED BY <2>1
<1> QED
  BY <1>1, <1>2, <1>3, <1>4, <1>5

\* What a relocation calls for can be judged fact by fact.
LEMMA FollowsSplits ==
  ASSUME IsProgram(prog), NEW g, NEW r \in Reloc, NEW F, NEW X,
         \A x \in Fact \ X : Follows(g, r, F, Told(Fact \ {x}))
  PROVE  Follows(g, r, F, Told(X))
<1>0. /\ r.sym \in Syms \cup {NoSym} /\ r.sig \in Sigs \cup {NoSig}
      /\ r.fns[1] \in Syms \cup {NoSym} /\ r.fns[2] \in Syms \cup {NoSym}
  BY DEF Reloc, SymOrNone
<1>1. CASE r.type = "ADDR"
  <2>1. \A x \in Fact \ X : /\ r.sym \in Told(Fact \ {x}).kept \cup {NoSym}
                            /\ (g \in prog.types /\ g \in F.iface) /\ r.sym \in prog.types => r.sym \in Told(Fact \ {x}).iface
    BY <1>1 DEF Follows
  <2>2. r.sym \in Told(X).kept \cup {NoSym}
    BY <1>0, <2>1, Untold
  <2>3. r.sym \in prog.types => r.sym \in Syms
    BY Parts
  <2>4. (g \in prog.types /\ g \in F.iface) /\ r.sym \in prog.types => r.sym \in Told(X).iface
    BY <2>1, <2>3, Untold
  <2> QED BY <1>1, <2>2, <2>4 DEF Follows
<1>2. CASE r.type = "USEIFACE"
  <2>1. \A x \in Fact \ X : Marked(r.sym) \in Told(Fact \ {x}).iface \cup {NoSym}
    BY <1>2 DEF Follows
  <2>2. Marked(r.sym) \in Syms \cup {NoSym}
    BY <1>0, Parts DEF Marked, SymOrNone
  <2>3. Marked(r.sym) \in Told(X).iface \cup {NoSym}
    BY <2>1, <2>2, Untold
  <2> QED BY <1>2, <2>3 DEF Follows
<1>3. CASE r.type = "USEIFACEMETHOD"
  <2>1. \A x \in Fact \ X : r.sym \in prog.defined /\ r.sig # NoSig => r.sig \in Told(Fact \ {x}).sigs
    BY <1>3 DEF Follows
  <2>2. r.sym \in prog.defined /\ r.sig # NoSig => r.sig \in Told(X).sigs
    BY <1>0, <2>1, Untold
  <2> QED BY <1>3, <2>2 DEF Follows
<1>4. CASE r.type = "USENAMEDMETHOD"
  <2>1. \A x \in Fact \ X : r.sym \in prog.defined => prog.nameIn[r.sym] \in Told(Fact \ {x}).names
    BY <1>4 DEF Follows
  <2>2. r.sym \in prog.defined => prog.nameIn[r.sym] \in Names
    BY Parts
  <2>3. r.sym \in prog.defined => prog.nameIn[r.sym] \in Told(X).names
    BY <2>1, <2>2, Untold
  <2> QED BY <1>4, <2>3 DEF Follows
<1>5. CASE r.type = "METHODOFF"
  <2>1. CASE ~(g \in prog.types /\ g \in F.iface)
    BY <1>5, <2>1 DEF Follows
  <2>2. CASE g \in prog.types /\ g \in F.iface
    <3>1. \A x \in Fact \ X : /\ r.sym \in Told(Fact \ {x}).iface \cup {NoSym}
                              /\ g \notin prog.decoded \/ CanBeCalled(F, r.sig) =>
                                   {r.sym, r.fns[1], r.fns[2]} \subseteq Told(Fact \ {x}).kept \cup {NoSym}
      BY <1>5, <2>2 DEF Follows
    <3>2. r.sym \in Told(X).iface \cup {NoSym}
      BY <1>0, <3>1, Untold
    <3>3. ASSUME g \notin prog.decoded \/ CanBeCalled(F, r.sig)
          PROVE  {r.sym, r.fns[1], r.fns[2]} \subseteq Told(X).kept \cup {NoSym}
      <4>1. \A x \in Fact \ X : {r.sym, r.fns[1], r.fns[2]} \subseteq Told(Fact \ {x}).kept \cup {NoSym}
        BY <3>1, <3>3
      <4>2. ASSUME NEW s \in {r.sym, r.fns[1], r.fns[2]} PROVE s \in Told(X).kept \cup {NoSym}
        <5>1. s \in Syms \cup {NoSym}
          BY <1>0
        <5>2. \A x \in Fact \ X : s \in Told(Fact \ {x}).kept \cup {NoSym}
          BY <4>1
        <5> QED BY <5>1, <5>2, Untold
      <4> QED BY <4>2
    <3> QED BY <1>5, <2>2, <3>2, <3>3 DEF Follows
  <2> QED BY <2>1, <2>2
<1>6. CASE r.type \notin {"ADDR", "USEIFACE", "USEIFACEMETHOD", "USENAMEDMETHOD", "METHODOFF"}
  BY <1>6 DEF Follows
<1> QED
  BY <1>1, <1>2, <1>3, <1>4, <1>5, <1>6

\* So can what facts F call for.
LEMMA CallsSplit ==
  ASSUME Types, NEW F \in FactSpace, NEW X,
         \A x \in Fact \ X : CallsFor(F, Told(Fact \ {x}))
  PROVE  CallsFor(F, Told(X))
<1>0. IsProgram(prog) /\ extra \in [Syms -> Seq(Syms)] /\ targets \in [Syms -> Seq(Syms)] /\ F.kept \subseteq Syms
  BY DEF Types, TypeOK, FactSpace
<1>1. prog.iface \subseteq Told(X).iface
  <2>1. \A x \in Fact \ X : prog.iface \subseteq Told(Fact \ {x}).iface
    BY DEF CallsFor
  <2>2. prog.iface \subseteq Syms
    BY <1>0, Parts
  <2> QED BY <2>1, <2>2, Untold
<1>2. ToSet(Roots) \subseteq Told(X).kept \cup {NoSym}
  <2>1. \A x \in Fact \ X : ToSet(Roots) \subseteq Told(Fact \ {x}).kept \cup {NoSym}
    BY DEF CallsFor
  <2>2. ToSet(Roots) \subseteq Syms \cup {NoSym}
    BY <1>0, RootsType, MemberType DEF SymOrNone
  <2> QED BY <2>1, <2>2, Untold
<1>3. ASSUME NEW g \in F.kept
      PROVE  /\ ToSet(extra[g]) \subseteq Told(X).kept
             /\ g \in {MainTasks, RuntimeTasks} => ToSet(targets[g]) \subseteq Told(X).kept
             /\ g \in prog.defined => /\ ToSet(prog.aux[g]) \subseteq Told(X).kept \cup {NoSym}
                                      /\ g \in prog.reflect => Told(X).reflect
                                      /\ \A r \in ToSet(prog.relocs[g]) : Follows(g, r, F, Told(X))
  <2>1. /\ ToSet(extra[g]) \subseteq Syms /\ ToSet(targets[g]) \subseteq Syms
        /\ ToSet(prog.aux[g]) \subseteq Syms \cup {NoSym} /\ ToSet(prog.relocs[g]) \subseteq Reloc
    BY <1>0, Parts, MemberType DEF SymOrNone
  <2>2. \A x \in Fact \ X : ToSet(extra[g]) \subseteq Told(Fact \ {x}).kept
    BY DEF CallsFor
  <2>3. g \in {MainTasks, RuntimeTasks} => \A x \in Fact \ X : ToSet(targets[g]) \subseteq Told(Fact \ {x}).kept
    BY DEF CallsFor
  <2>4. g \in prog.defined => \A x \in Fact \ X : /\ ToSet(prog.aux[g]) \subseteq Told(Fact \ {x}).kept \cup {NoSym}
                                                  /\ g \in prog.reflect => Told(Fact \ {x}).reflect
    BY DEF CallsFor
  <2>5. g \in prog.defined => \A x \in Fact \ X : \A r \in ToSet(prog.relocs[g]) : Follows(g, r, F, Told(Fact \ {x}))
    BY DEF CallsFor
  <2>6. ToSet(extra[g]) \subseteq Told(X).kept
    BY <2>1, <2>2, Untold
  <2>7. g \in {MainTasks, RuntimeTasks} => ToSet(targets[g]) \subseteq Told(X).kept
    BY <2>1, <2>3, Untold
  <2>8. g \in prog.defined => ToSet(prog.aux[g]) \subseteq Told(X).kept \cup {NoSym}
    BY <2>1, <2>4, Untold
  <2>9. g \in prog.defined /\ g \in prog.reflect => Told(X).reflect
    BY <2>4, Untold
  <2>10. g \in prog.defined => \A r \in ToSet(prog.relocs[g]) : Follows(g, r, F, Told(X))
    BY <1>0, <2>1, <2>5, FollowsSplits
  <2> QED BY <2>6, <2>7, <2>8, <2>9, <2>10
<1> QED
  BY <1>1, <1>2, <1>3 DEF CallsFor

\* There are finitely many facts.
Tagged(t, S) == {<<t, x>> : x \in S}

\* There are finitely many facts.
LEMMA FiniteFacts == IsFiniteSet(Fact)
<1>1. ASSUME NEW t, NEW S, IsFiniteSet(S) PROVE IsFiniteSet(Tagged(t, S))
  <2> DEFINE f == [x \in S |-> <<t, x>>]
  <2>1. f \in Surjection(S, Tagged(t, S))
    BY DEF Surjection, Tagged
  <2> QED BY <1>1, <2>1, FS_Surjection
<1>2. /\ IsFiniteSet(Tagged("kept", Syms)) /\ IsFiniteSet(Tagged("iface", Syms))
      /\ IsFiniteSet(Tagged("sigs", Sigs)) /\ IsFiniteSet(Tagged("names", Names))
      /\ IsFiniteSet({<<"reflect", TRUE>>})
  BY <1>1, SymsAssumption, FS_Singleton
<1>3. \A S, T : IsFiniteSet(S) /\ IsFiniteSet(T) => IsFiniteSet(S \cup T)
  BY FS_Union
<1>4. Fact = Tagged("kept", Syms) \cup Tagged("iface", Syms) \cup Tagged("sigs", Sigs) \cup Tagged("names", Names)
             \cup {<<"reflect", TRUE>>}
  BY DEF Fact, Tagged
<1> QED
  BY <1>2, <1>3, <1>4

\* What a set of facts says, and the facts that say it.
Telling(F) == {x \in Fact : Below(Told({x}), F)}

\* Facts as sets of what is told and facts as records say the same, in the same order.
LEMMA ToldFacts ==
  /\ \A X : Told(X) \in FactSpace
  /\ \A X, Y : X \subseteq Y => Below(Told(X), Told(Y))
  /\ \A F \in FactSpace : Told(Telling(F)) = F
<1>1. \A X : Told(X) \in FactSpace
  BY DEF Told, FactSpace
<1>2. \A X, Y : X \subseteq Y => Below(Told(X), Told(Y))
  <2> SUFFICES ASSUME NEW X, NEW Y, X \subseteq Y PROVE Below(Told(X), Told(Y))
    OBVIOUS
  <2>1. Told(X).kept \subseteq Told(Y).kept /\ Told(X).iface \subseteq Told(Y).iface
    BY DEF Told
  <2>2. Told(X).sigs \subseteq Told(Y).sigs /\ Told(X).names \subseteq Told(Y).names
    BY DEF Told
  <2>3. Told(X).reflect => Told(Y).reflect
    BY DEF Told
  <2> QED BY ONLY <2>1, <2>2, <2>3 DEF Below
<1>3. ASSUME NEW F \in FactSpace PROVE Told(Telling(F)) = F
  <2> DEFINE G == Told(Telling(F))
  <2>1. \A g \in Syms : <<"kept", g>> \in Telling(F) <=> g \in F.kept
    BY DEF Telling, Told, Below, Fact
  <2>2. \A g \in Syms : <<"iface", g>> \in Telling(F) <=> g \in F.iface
    BY DEF Telling, Told, Below, Fact
  <2>3. \A m \in Sigs : <<"sigs", m>> \in Telling(F) <=> m \in F.sigs
    BY DEF Telling, Told, Below, Fact
  <2>4. \A m \in Names : <<"names", m>> \in Telling(F) <=> m \in F.names
    BY DEF Telling, Told, Below, Fact
  <2>5. <<"reflect", TRUE>> \in Telling(F) <=> F.reflect
    BY DEF Telling, Told, Below, Fact
  <2>6. F = [kept |-> F.kept, iface |-> F.iface, sigs |-> F.sigs, names |-> F.names, reflect |-> F.reflect]
        /\ F.kept \subseteq Syms /\ F.iface \subseteq Syms /\ F.sigs \subseteq Sigs /\ F.names \subseteq Names /\ F.reflect \in BOOLEAN
    BY DEF FactSpace
  <2>7. /\ {g \in Syms : <<"kept", g>> \in Telling(F)} = F.kept
        /\ {g \in Syms : <<"iface", g>> \in Telling(F)} = F.iface
        /\ {m \in Sigs : <<"sigs", m>> \in Telling(F)} = F.sigs
        /\ {m \in Names : <<"names", m>> \in Telling(F)} = F.names
        /\ (<<"reflect", TRUE>> \in Telling(F)) = F.reflect
    BY <2>1, <2>2, <2>3, <2>4, <2>5, <2>6
  <2> HIDE DEF Telling
  <2>8. G = [kept |-> F.kept, iface |-> F.iface, sigs |-> F.sigs, names |-> F.names,
             reflect |-> <<"reflect", TRUE>> \in Telling(F)]
    BY <2>7 DEF Told
  <2>9. G = [kept |-> F.kept, iface |-> F.iface, sigs |-> F.sigs, names |-> F.names, reflect |-> F.reflect]
    BY <2>7, <2>8, Zenon
  <2> QED BY <2>6, <2>9
<1> QED
  BY <1>1, <1>2, <1>3

\* What is added to facts is added to more of them, and nothing is added only to
\* facts that are closed.
LEMMA FurtherFacts ==
  ASSUME Types
  PROVE  /\ \A X \in SUBSET Fact : X \subseteq Further(X) /\ Further(X) \subseteq Fact
         /\ \A X, Y \in SUBSET Fact : X \subseteq Y => Further(X) \subseteq Further(Y)
         /\ \A X \in SUBSET Fact : Further(X) = X <=> Closed(Told(X))
<1>1. \A X \in SUBSET Fact : X \subseteq Further(X) /\ Further(X) \subseteq Fact
  BY DEF Further, Consequences
<1>2. ASSUME NEW X \in SUBSET Fact, Closed(Told(X)) PROVE Consequences(Told(X)) \subseteq X
  <2> SUFFICES ASSUME NEW x \in Fact, x \notin X PROVE CallsFor(Told(X), Told(Fact \ {x}))
    BY DEF Consequences
  <2>1. Below(Told(X), Told(X)) /\ Below(Told(X), Told(Fact \ {x}))
    BY ToldFacts
  <2> QED BY <1>2, <2>1, CallsMonotone DEF Closed
<1>3. ASSUME NEW X \in SUBSET Fact, NEW Y \in SUBSET Fact, X \subseteq Y PROVE Consequences(Told(X)) \subseteq Consequences(Told(Y))
  <2> SUFFICES ASSUME NEW x \in Fact, CallsFor(Told(Y), Told(Fact \ {x})) PROVE CallsFor(Told(X), Told(Fact \ {x}))
    BY DEF Consequences
  <2>1. Below(Told(X), Told(Y)) /\ Below(Told(Fact \ {x}), Told(Fact \ {x}))
    BY <1>3, ToldFacts
  <2> QED BY <2>1, CallsMonotone
<1>4. ASSUME NEW X \in SUBSET Fact, Consequences(Told(X)) \subseteq X PROVE Closed(Told(X))
  <2>1. \A x \in Fact \ X : CallsFor(Told(X), Told(Fact \ {x}))
    BY <1>4 DEF Consequences
  <2> QED BY <2>1, ToldFacts, CallsSplit DEF Closed
<1>5. \A X \in SUBSET Fact : Further(X) = X <=> Closed(Told(X))
  BY <1>2, <1>4 DEF Further
<1>6. \A X, Y \in SUBSET Fact : X \subseteq Y => Further(X) \subseteq Further(Y)
  BY <1>2, <1>3 DEF Further
<1> QED
  BY <1>1, <1>5, <1>6

\* As many rounds as there are facts are enough: what is needed is closed, and in
\* everything that is closed.
LEMMA NeededIsLeast ==
  ASSUME Types
  PROVE  /\ Needed \in FactSpace /\ Closed(Needed)
         /\ \A F \in FactSpace : Closed(F) => Below(Needed, F)
<1> DEFINE N == Cardinality(Fact)
           g == [X \in SUBSET Fact |-> Further(X)]
           needed == CHOOSE needed : needed = [k \in 0 .. N |-> IF k = 0 THEN {} ELSE Further(needed[k - 1])]
<1>1. Needed = Told(needed[N])
  BY DEF Needed
<1>2. IsFiniteSet(Fact) /\ N \in Nat
  BY FiniteFacts, FS_CardinalityType
<1> HIDE DEF N
<1>3. \A X \in SUBSET Fact : g[X] = Further(X) /\ g[X] \in SUBSET Fact
  BY FurtherFacts
<1>4. Repeats(N, SUBSET Fact, {}, g) /\ Grows(Fact, N, {}, g)
  <2>1. \A X, Y \in SUBSET Fact : X \subseteq Y => g[X] \subseteq g[Y] /\ g[Y] \subseteq Fact
    BY <1>3, FurtherFacts
  <2>2. {} \in SUBSET Fact /\ {} \subseteq g[{}] /\ Cardinality(Fact) <= N
    BY <1>2 DEF N
  <2> QED BY <1>2, <1>3, <2>1, <2>2 DEF Repeats, Grows
<1> HIDE DEF g
<1>5. PICK it : IterationOf(it, N, SUBSET Fact, {}, g)
  BY <1>4, IterationExists
<1>6. it \in [0 .. N -> SUBSET Fact] /\ \A k \in 0 .. N : it[k] = IF k = 0 THEN {} ELSE g[it[k - 1]]
  BY <1>5 DEF IterationOf
<1>7. it = [k \in 0 .. N |-> IF k = 0 THEN {} ELSE Further(it[k - 1])]
  <2>1. \A k \in 0 .. N : k # 0 => it[k - 1] \in SUBSET Fact
    BY <1>2, <1>6
  <2>2. \A k \in 0 .. N : it[k] = IF k = 0 THEN {} ELSE Further(it[k - 1])
    BY <1>3, <1>6, <2>1
  <2> QED BY <1>6, <2>2
<1>8. needed = [k \in 0 .. N |-> IF k = 0 THEN {} ELSE Further(needed[k - 1])]
  BY <1>7
<1> HIDE DEF needed
<1>9. IterationOf(needed, N, SUBSET Fact, {}, g)
  <2> DEFINE P == {k \in Nat : k \in 0 .. N => needed[k] \in SUBSET Fact}
  <2>1. 0 \in P
    BY <1>8
  <2>2. ASSUME NEW k \in Nat, k \in P PROVE k + 1 \in P
    <3> SUFFICES ASSUME k + 1 \in 0 .. N PROVE needed[k + 1] \in SUBSET Fact
      OBVIOUS
    <3>1. k \in 0 .. N /\ k + 1 # 0 /\ (k + 1) - 1 = k
      BY <1>2
    <3>2. needed[k] \in SUBSET Fact /\ needed[k + 1] = Further(needed[k])
      BY <1>8, <2>2, <3>1
    <3> QED BY <3>2, FurtherFacts
  <2> HIDE DEF P
  <2>3. \A k \in Nat : k \in P
    BY <2>1, <2>2, NumberInduction
  <2>4. \A k \in 0 .. N : needed[k] \in SUBSET Fact
    BY <1>2, <2>3 DEF P
  <2>5. \A k \in 0 .. N : needed[k] = IF k = 0 THEN {} ELSE g[needed[k - 1]]
    <3> TAKE k \in 0 .. N
    <3>1. k # 0 => needed[k - 1] \in SUBSET Fact
      BY <1>2, <2>4
    <3> QED BY <1>3, <1>8, <3>1
  <2>6. needed \in [0 .. N -> SUBSET Fact]
    BY <1>8, <2>4
  <2> QED BY <2>5, <2>6 DEF IterationOf
<1>10. Rests(Fact, {}, g, needed[N])
  BY <1>4, <1>9, IterationSettles
<1>11. /\ needed[N] \in SUBSET Fact /\ g[needed[N]] = needed[N]
       /\ \A T \in SUBSET Fact : g[T] \subseteq T => needed[N] \subseteq T
  BY <1>10 DEF Rests
<1>12. Closed(Needed) /\ Needed \in FactSpace
  BY <1>1, <1>3, <1>11, FurtherFacts, ToldFacts
<1>13. ASSUME NEW F \in FactSpace, Closed(F) PROVE Below(Needed, F)
  <2> DEFINE T == Telling(F)
  <2>1. T \in SUBSET Fact /\ Told(T) = F
    BY ToldFacts DEF Telling
  <2> HIDE DEF T
  <2>2. g[T] = T
    BY <1>3, <1>13, <2>1, FurtherFacts
  <2>3. needed[N] \subseteq T
    BY <1>11, <2>1, <2>2
  <2> QED BY <1>1, <2>1, <2>3, ToldFacts
<1> QED
  BY <1>12, <1>13

\* Whatever the program and the order in which the flood comes upon its symbols,
\* the pass keeps what the rules call for and nothing else.
THEOREM KeepsExactlyTheNeeded == Spec => []KeepsExactly
<1>1. ASSUME Ledger, Cover, NoMore PROVE KeepsExactly
  <2> SUFFICES ASSUME phase = "cleanup" PROVE Facts = Needed
    BY DEF KeepsExactly
  <2>1. Types /\ Facts \in FactSpace
    BY <1>1 DEF Ledger, Types, TypeOK, Facts, FactSpace
  <2>2. Closed(Facts)
    BY <1>1, ClosedAtCleanup DEF KeepsWhatIsUsed
  <2>3. /\ Needed \in FactSpace /\ Closed(Needed) /\ Below(Needed, Facts)
    BY <2>1, <2>2, NeededIsLeast
  <2>4. Within(Needed)
    BY <1>1, <2>3 DEF NoMore
  <2>5. Below(Facts, Needed)
    BY <2>4 DEF Below, Within, Facts
  <2>6. \A F, G \in FactSpace : Below(F, G) /\ Below(G, F) => F = G
    BY DEF Below, FactSpace
  <2> QED BY <2>1, <2>3, <2>5, <2>6
<1>2. Init => Ledger /\ NoMore
  BY InitLedger, InitNoMore
<1>3. (Ledger /\ NoMore) /\ [Next]_vars => (Ledger /\ NoMore)'
  BY StepLedger, StepNoMore
<1>4. Spec => []NoMore
  BY <1>2, <1>3, PTL DEF Spec
<1> QED
  BY <1>1, <1>4, CoverHolds, PTL

-----------------------------------------------------------------------------
(* The cleanup *)

\* An initialisation function that was walked is in the list the cleanup reads.
Listing == \A g \in prog.inits \cap prog.defined :
             g \in Syms /\ prog.aux[g] # <<>> /\ walks[g] > 0 => g = cur \/ g \in ToSet(pkginits)

\* Before the first step nothing was walked.
LEMMA InitListing == Init => Listing
<1> SUFFICES ASSUME Init PROVE Listing
  OBVIOUS
<1>1. \A g \in Syms : walks[g] = 0
  BY DEF Init
<1> QED
  BY <1>1 DEF Listing

\* The function being walked is listed when its walk ends, and what is listed stays
\* so.
LEMMA StepListing == Ledger /\ Listing /\ [Next]_vars => Listing'
<1> SUFFICES ASSUME Ledger, Listing, [Next]_vars PROVE Listing'
  OBVIOUS
<1>1. CASE Pop
  <2>1. prog' = prog /\ pkginits' = pkginits /\ walks' = [walks EXCEPT ![cur'] = @ + 1] /\ cur = NoWalk
    BY <1>1 DEF Pop, fixed
  <2>2. walks \in [Syms -> Nat] /\ NoWalk \notin Syms
    BY SymsAssumption DEF Ledger, Types
  <2>3. \A g \in Syms : g = cur' \/ walks'[g] = walks[g]
    BY <2>1, <2>2
  <2> QED BY <2>1, <2>2, <2>3 DEF Listing
<1>2. CASE EndWalk
  <2>1. /\ prog' = prog /\ walks' = walks /\ cur \in Syms /\ pkginits \in Seq(Syms)
        /\ pkginits' = IF cur \in prog.inits \cap prog.defined /\ prog.aux[cur] # <<>>
                       THEN Append(pkginits, cur) ELSE pkginits
    BY <1>2 DEF EndWalk, fixed, Ledger, Types, TypeOK
  <2>2. ToSet(Append(pkginits, cur)) = ToSet(pkginits) \cup {cur}
    BY <2>1, AppendSet
  <2> QED BY <2>1, <2>2 DEF Listing
<1>3. CASE ~(Pop \/ EndWalk)
  <2>1. UNCHANGED <<prog, walks, cur, pkginits>>
    BY <1>3 DEF Next, vars, fixed, walk, Schedule, Listed, Root, Walking, FloodDone, Judge, RoundDone, Cleanup,
       Ignore, Keep, Reference, UseIface, MethodType, UseIfaceMethod, UseNamedMethod, Decide
  <2> QED BY <2>1 DEF Listing
<1> QED
  BY <1>1, <1>2, <1>3

\* The cleanup redirects every call that would have nowhere to go.
LEMMA StepLands == Ledger /\ Listing /\ CallsLand /\ [Next]_vars => CallsLand'
<1> SUFFICES ASSUME Ledger, Listing, CallsLand, [Next]_vars, phase' = "done", prog'.noop # NoSym
             PROVE  \A g \in mark' \cap prog'.inits \cap prog'.defined : \A r \in ToSet(prog'.relocs[g]) :
                      r.type = "WEAKCALL" /\ prog'.aux[g] # <<>> /\ r.sym \notin mark' \cup {NoSym} /\ walks'[g] > 0 =>
                        g \in rewritten' /\ prog'.noop \in mark'
  BY DEF CallsLand
<1>1. CASE Cleanup
  <2>1. /\ UNCHANGED <<prog, walks>> /\ cur = NoWalk /\ rewritten' = {pkginits[i] : i \in Redirected}
    BY <1>1 DEF Cleanup, fixed, Ledger
  <2>2. /\ IsProgram(prog) /\ prog.defined \subseteq Syms /\ NoWalk \notin Syms /\ mark \subseteq mark'
    BY <1>1, Parts, SymsAssumption DEF Ledger, Types, TypeOK, Cleanup, Mark, Now
  <2>3. Redirected # {} => prog.noop \in mark'
    BY <1>1, <2>1 DEF Cleanup, Mark, Now
  <2> TAKE g \in mark' \cap prog'.inits \cap prog'.defined
  <2> TAKE r \in ToSet(prog'.relocs[g])
  <2> HAVE r.type = "WEAKCALL" /\ prog'.aux[g] # <<>> /\ r.sym \notin mark' \cup {NoSym} /\ walks'[g] > 0
  <2>4. g \in ToSet(pkginits)
    BY <2>1, <2>2 DEF Listing
  <2>5. PICK i \in DOMAIN pkginits : g = pkginits[i]
    BY <2>4 DEF ToSet
  <2>6. r \in Pruned(pkginits[i])
    BY <2>1, <2>2, <2>5 DEF Pruned
  <2>7. i \in Redirected
    BY <2>1, <2>5, <2>6 DEF Redirected
  <2> QED BY <2>1, <2>3, <2>5, <2>7
<1>2. CASE ~Cleanup
  <2>1. UNCHANGED vars
    BY <1>2 DEF Next, Schedule, Listed, Root, Pop, Walking, EndWalk, FloodDone, Judge, RoundDone, NextPhase,
       Ignore, Keep, Reference, UseIface, MethodType, UseIfaceMethod, UseNamedMethod, Decide
  <2>2. UNCHANGED <<prog, mark, rewritten, walks, phase>>
    BY <2>1 DEF vars, fixed, marks
  <2> QED BY <2>2 DEF CallsLand
<1> QED
  BY <1>1, <1>2

\* Whatever the program, no kept initialisation function is left with a call to
\* a function that was dropped.
THEOREM CallsAlwaysLand == Spec => []CallsLand
<1>1. Init => Ledger /\ Listing /\ CallsLand
  BY InitLedger, InitListing DEF Init, CallsLand
<1>2. (Ledger /\ Listing /\ CallsLand) /\ [Next]_vars => (Ledger /\ Listing /\ CallsLand)'
  BY StepLedger, StepListing, StepLands
<1> QED
  BY <1>1, <1>2, PTL DEF Spec

-----------------------------------------------------------------------------
(* The lists *)

\* The sets that hold the root record of l and the imports of what they hold,
\* among the records there are.
Records(l) == Ordered \cup RootOf(l) \cup UNION {Imports(g) : g \in Ordered}
Closures(l) == {S \in SUBSET Records(l) : RootOf(l) \subseteq S /\ \A g \in S : Imports(g) \subseteq S}

\* What has something to run.
Running(S) == S \cap prog.large \cap prog.defined

Holds(l, S) == ToSet(targets[l]) = Running(S) /\ Len(targets[l]) = Cardinality(Running(S))

\* The list being made: what was visited and what waits hold the root and the
\* imports of what was visited, and whatever is closed holds both.
Making == /\ RootOf(list) \subseteq seen \cup records
          /\ \A g \in seen : Imports(g) \subseteq seen \cup records
          /\ seen \cap records = {}
          /\ \A S \in Closures(list) : seen \cup records \subseteq S
          /\ Holds(list, seen)

Exact(l) == ToSet(targets[l]) = Needs(l) /\ Len(targets[l]) = Cardinality(Needs(l))

\* One list is made after the other.
Lists == /\ phase = "load" => /\ Making
                              /\ list = MainTasks => targets[RuntimeTasks] = <<>>
                              /\ list = RuntimeTasks => Exact(MainTasks)
         /\ phase # "load" => Exact(MainTasks) /\ Exact(RuntimeTasks)

\* What imports something is a record.
LEMMA ImportsOrdered ==
  ASSUME IsProgram(prog), NEW g, Imports(g) # {}
  PROVE  g \in Ordered
<1>1. g \in prog.defined
  BY DEF Imports
<1>2. PICK r \in ToSet(prog.relocs[g]) : r.type = "INITORDER"
  BY <1>1 DEF Imports
<1>3. g \in Syms
  BY <1>1, Parts
<1> QED
  BY <1>2, <1>3 DEF Ordered

\* The list that was made holds what its root needs.
LEMMA MadeExact ==
  ASSUME Ledger, Making, records = {}
  PROVE  Exact(list)
<1>1. IsProgram(prog)
  BY DEF Ledger, Types, TypeOK
<1>2. Records(list) \in Closures(list)
  BY <1>1, ImportsOrdered DEF Closures, Records
<1>3. seen \subseteq Records(list)
  BY <1>2 DEF Making
<1>4. seen \in Closures(list)
  BY <1>3 DEF Making, Closures
<1>5. Needs(list) = {g \in prog.large \cap prog.defined : \A S \in Closures(list) : g \in S}
  BY DEF Needs, Closures, Records
<1>6. Needs(list) = Running(seen)
  BY <1>4, <1>5 DEF Running, Making
<1> QED
  BY <1>6 DEF Exact, Making, Holds

\* At the start a list holds nothing and its root waits.
LEMMA MakingStarts ==
  ASSUME NEW l \in {MainTasks, RuntimeTasks}, list = l, seen = {}, records = RootOf(l), targets[l] = <<>>
  PROVE  Making
<1>1. \A S \in Closures(l) : RootOf(l) \subseteq S
  BY DEF Closures
<1>2. Running({}) = {} /\ ToSet(<<>>) = {} /\ Len(<<>>) = 0
  BY DEF Running, ToSet
<1>3. Holds(l, {})
  BY <1>2, FS_EmptySet DEF Holds
<1> QED
  BY <1>1, <1>3 DEF Making

\* Before the first visit the lists are empty.
LEMMA InitLists == Init => Lists
<1> SUFFICES ASSUME Init PROVE Lists
  OBVIOUS
<1>1. /\ phase = "load" /\ list = MainTasks /\ seen = {} /\ records = {prog.tasks[MainTasks]} \ {NoSym}
      /\ targets[MainTasks] = <<>> /\ targets[RuntimeTasks] = <<>> /\ MainTasks # RuntimeTasks
  BY SymsAssumption DEF Init
<1>2. records = RootOf(MainTasks)
  BY <1>1 DEF RootOf
<1>3. Making
  BY <1>1, <1>2, MakingStarts
<1> QED
  BY <1>1, <1>3 DEF Lists

\* A record that is visited hands its place to the imports nobody has seen.
LEMMA ScheduleLists ==
  ASSUME Ledger, Lists, NEW g \in Syms, Schedule(g)
  PROVE  Lists'
<1>1. /\ phase = "load" /\ phase' = "load" /\ g \in records /\ UNCHANGED <<prog, list>>
      /\ records' = (records \ {g}) \cup Unseen(g) /\ seen' = seen \cup {g}
      /\ targets' = [targets EXCEPT ![list] = IF g \in prog.large \cap prog.defined THEN Append(@, g) ELSE @]
  BY DEF Schedule
<1>2. /\ Making /\ list \in {MainTasks, RuntimeTasks} /\ list \in Syms /\ seen \subseteq Syms
      /\ targets \in [Syms -> Seq(Syms)] /\ MainTasks # RuntimeTasks
      /\ MainTasks \in Syms /\ RuntimeTasks \in Syms
  BY <1>1, SymsAssumption DEF Lists, Ledger, Types, TypeOK
<1>3. \A x : /\ Imports(x)' = Imports(x) /\ RootOf(x)' = RootOf(x) /\ Closures(x)' = Closures(x)
             /\ Running(x)' = Running(x) /\ Needs(x)' = Needs(x)
  BY <1>1 DEF Imports, RootOf, Closures, Records, Ordered, Running, Needs
<1>4. seen' \cup records' = seen \cup records \cup Imports(g)
  BY <1>1 DEF Unseen
<1>5. seen' \cap records' = {}
  BY <1>1, <1>2 DEF Unseen, Making
<1>6. \A h \in seen' : Imports(h) \subseteq seen' \cup records'
  BY <1>1, <1>2, <1>4 DEF Making
<1>7. \A S \in Closures(list) : seen' \cup records' \subseteq S
  <2> TAKE S \in Closures(list)
  <2>1. seen \cup records \subseteq S
    BY <1>2 DEF Making
  <2>2. Imports(g) \subseteq S
    BY <1>1, <2>1 DEF Closures
  <2> QED BY <1>4, <2>1, <2>2
<1>8. ToSet(targets'[list]) = Running(seen') /\ Len(targets'[list]) = Cardinality(Running(seen'))
  <2>1. g \notin seen /\ targets[list] \in Seq(Syms) /\ Holds(list, seen)
    BY <1>1, <1>2 DEF Making
  <2>2. CASE g \in prog.large \cap prog.defined
    <3>1. targets'[list] = Append(targets[list], g)
      BY <1>1, <1>2, <2>2
    <3>2. Running(seen') = Running(seen) \cup {g} /\ g \notin Running(seen) /\ Running(seen) \subseteq Syms
      BY <1>1, <1>2, <2>1, <2>2 DEF Running
    <3>3. Cardinality(Running(seen')) = Cardinality(Running(seen)) + 1
      BY <3>2, FiniteMarks, FS_AddElement
    <3>4. ToSet(targets'[list]) = ToSet(targets[list]) \cup {g} /\ Len(targets'[list]) = Len(targets[list]) + 1
      BY <2>1, <3>1, AppendSet
    <3> QED BY <2>1, <3>2, <3>3, <3>4 DEF Holds
  <2>3. CASE g \notin prog.large \cap prog.defined
    <3>1. targets'[list] = targets[list]
      BY <1>1, <1>2, <2>3
    <3>2. Running(seen') = Running(seen)
      BY <1>1, <2>3 DEF Running
    <3> QED BY <2>1, <3>1, <3>2 DEF Holds
  <2> QED BY <2>2, <2>3
<1>9. Holds(list, seen)'
  BY <1>1, <1>3, <1>8 DEF Holds
<1>10. RootOf(list) \subseteq seen' \cup records'
  BY <1>2, <1>4 DEF Making
<1>11. Making'
  BY <1>1, <1>3, <1>5, <1>6, <1>7, <1>9, <1>10 DEF Making
<1>12. \A l \in {MainTasks, RuntimeTasks} : l # list => targets'[l] = targets[l]
  BY <1>1, <1>2
<1> QED
  BY <1>1, <1>2, <1>3, <1>11, <1>12 DEF Lists, Exact

\* When nothing waits the list is the one its root needs.
LEMMA ListedLists == Ledger /\ Lists /\ Listed => Lists'
<1> SUFFICES ASSUME Ledger, Lists, Listed PROVE Lists'
  OBVIOUS
<1>1. /\ phase = "load" /\ records = {} /\ UNCHANGED <<prog, targets>> /\ seen' = {}
      /\ list \in {MainTasks, RuntimeTasks} /\ MainTasks # RuntimeTasks
  BY SymsAssumption DEF Listed, Ledger, Types, TypeOK
<1>2. Exact(list)
  BY <1>1, MadeExact DEF Lists
<1>3. \A x : Exact(x)' = Exact(x) /\ RootOf(x)' = RootOf(x)
  BY <1>1 DEF Exact, Needs, Ordered, Imports, RootOf
<1>4. CASE list = MainTasks
  <2>1. list' = RuntimeTasks /\ records' = RootOf(RuntimeTasks) /\ phase' = "load"
    BY <1>1, <1>4 DEF Listed
  <2>2. targets'[RuntimeTasks] = <<>> /\ records' = RootOf(RuntimeTasks)'
    BY <1>1, <1>3, <1>4, <2>1 DEF Lists
  <2>3. Making'
    <3>1. \A S \in Closures(RuntimeTasks)' : RootOf(RuntimeTasks)' \subseteq S
      BY DEF Closures
    <3>2. Running({})' = {} /\ ToSet(<<>>) = {} /\ Len(<<>>) = 0
      BY DEF Running, ToSet
    <3>3. Holds(RuntimeTasks, {})'
      BY <2>2, <3>2, FS_EmptySet DEF Holds
    <3> QED BY <1>1, <2>1, <2>2, <3>1, <3>3 DEF Making
  <2> QED BY <1>1, <1>2, <1>3, <1>4, <2>1, <2>3 DEF Lists
<1>5. CASE list = RuntimeTasks
  <2>1. phase' = "roots"
    BY <1>1, <1>5 DEF Listed
  <2> QED BY <1>1, <1>2, <1>3, <1>5, <2>1 DEF Lists
<1> QED
  BY <1>1, <1>4, <1>5

\* A visit keeps what a list in the making promises, the last one makes it exact,
\* and no later step touches it.
LEMMA StepLists == Ledger /\ Lists /\ [Next]_vars => Lists'
<1> SUFFICES ASSUME Ledger, Lists, [Next]_vars PROVE Lists'
  OBVIOUS
<1>1. CASE \E g \in Syms : Schedule(g)
  BY <1>1, ScheduleLists
<1>2. CASE Listed
  BY <1>2, ListedLists
<1>3. CASE ~(Listed \/ \E g \in Syms : Schedule(g))
  <2>1. UNCHANGED <<prog, list, records, seen, targets>> /\ (phase = "load" <=> phase' = "load")
    BY <1>3 DEF Next, vars, fixed, tasks, walk, Root, Pop, Walking, EndWalk, FloodDone, Judge, RoundDone, NextPhase,
       Cleanup, Ignore, Keep, Reference, UseIface, MethodType, UseIfaceMethod, UseNamedMethod, Decide
  <2>2. \A x : Exact(x)' = Exact(x)
    BY <2>1 DEF Exact, Needs, Ordered, Imports, RootOf
  <2>3. Making' = Making
    BY <2>1 DEF Making, Closures, Records, Ordered, Imports, RootOf, Holds, Running
  <2> QED BY <2>1, <2>2, <2>3 DEF Lists
<1> QED
  BY <1>1, <1>2, <1>3

\* Whatever packages there are and however they import each other, a list holds
\* the records its root needs that have something to run, each once, in
\* whatever order the records are visited.
THEOREM ListsAreExact == Spec => []ListsExact
<1>1. Init => Ledger /\ Lists
  BY InitLedger, InitLists
<1>2. (Ledger /\ Lists) /\ [Next]_vars => (Ledger /\ Lists)'
  BY StepLedger, StepLists
<1>3. Lists => ListsExact
  BY DEF Lists, ListsExact, Exact
<1> QED
  BY <1>1, <1>2, <1>3, PTL DEF Spec

-----------------------------------------------------------------------------
(* The table of the loader *)

Sym(p) == Symbol(objs, p)
Definition(p) == p[2] # "refs"
HasHash(p) == p[2] \in {"hashed64", "hashed"}
Named(p) == ~HasHash(p) /\ Sym(p).name # NoName /\ ~Static(Sym(p))

\* What two places of one symbol have in common.
Key(p) == IF HasHash(p) THEN <<"hash", <<p[2], Sym(p).hash>>>>
          ELSE IF Named(p) THEN <<"name", NameKey(Sym(p))>> ELSE <<"own", p>>

\* 0 for what tolerates others, 1 for what is zero-filled and 2 for what is there.
Level(p) == IF HasHash(p) \/ Sym(p).dupok THEN 0 ELSE IF IsBSS(Sym(p)) THEN 1 ELSE 2

\* q will do where p is.
AtMost(p, q) == \/ Level(p) < Level(q)
                \/ Level(p) = Level(q) /\ (Level(p) = 2 \/ Sym(p).size <= Sym(q).size)

\* The parts of the table that the symbols are in, when the places of D are: a
\* symbol for every place, ...
Numbers(l, D) == /\ DOMAIN l.own = D
                 /\ \A p \in D : l.own[p] \in 1 .. Len(l.syms)

\* one for all that have the key, ...
OneEach(l, D) == \A p, q \in D : l.own[p] = l.own[q] <=> Key(p) = Key(q)

\* which has the definition that wins, if there is any, ...
Best(l, D) == \A p \in D : \/ /\ \A q \in D : Definition(q) => Key(q) # Key(p)
                              /\ l.syms[l.own[p]] = NoDef
                           \/ /\ l.syms[l.own[p]] \in D /\ Definition(l.syms[l.own[p]])
                              /\ Key(l.syms[l.own[p]]) = Key(p)
                              /\ \A q \in D : Definition(q) /\ Key(q) = Key(p) => AtMost(q, l.syms[l.own[p]])

\* and a conflict is reported if two definitions of it are there.
Reported(l, D) == l.dup <=> \E p, q \in D : /\ p # q /\ Definition(p) /\ Definition(q)
                                            /\ Key(p) = Key(q) /\ Level(p) = 2 /\ Level(q) = 2

\* The parts that find symbols.
NamesFound(l, D) == /\ \A p \in D : Named(p) => /\ NameKey(Sym(p)) \in DOMAIN l.byName
                                                /\ l.byName[NameKey(Sym(p))] = l.own[p]
                    /\ \A k \in DOMAIN l.byName : \E p \in D : Named(p) /\ NameKey(Sym(p)) = k
HashesFound(l, D) == /\ \A p \in D : HasHash(p) => /\ <<p[2], Sym(p).hash>> \in DOMAIN l.hashed
                                                   /\ l.hashed[<<p[2], Sym(p).hash>>] = l.own[p]
                     /\ \A k \in DOMAIN l.hashed : \E p \in D : HasHash(p) /\ <<p[2], Sym(p).hash>> = k
BuiltinsFound(l, D) ==
  /\ \A p \in D : Named(p) /\ Definition(p) /\ NameKey(Sym(p)) \in Builtins =>
       NameKey(Sym(p)) \in DOMAIN l.builtin /\ l.builtin[NameKey(Sym(p))] = l.own[p]
  /\ \A k \in DOMAIN l.builtin : \E p \in D : Named(p) /\ Definition(p) /\ NameKey(Sym(p)) = k /\ k \in Builtins

All == Places(objs)

\* The tables there may be.
Partial(A, B) == UNION {[D -> B] : D \in SUBSET A}
NameKeys == {NameKey(Sym(p)) : p \in All}
Hashes == {<<p[2], Sym(p).hash>> : p \in All}
Tables == [syms : Seq(All \cup {NoDef}), own : Partial(All, Nat), byName : Partial(NameKeys, Nat),
           hashed : Partial(Hashes, Nat), builtin : Partial(NameKeys, Nat), dup : BOOLEAN, inIface : {{}}]

Kept(l, D) == Numbers(l, D) /\ OneEach(l, D) /\ Best(l, D) /\ Reported(l, D)
HasAll(l, D) == /\ Kept(l, D)
                /\ NamesFound(l, D) /\ HashesFound(l, D) /\ BuiltinsFound(l, D)

\* Sizes are numbers.
Sizes == \A p \in All : Sym(p).size \in Nat

-----------------------------------------------------------------------------
(* Steps *)

\* A function with one more place.
LEMMA Extended ==
  ASSUME NEW f, NEW a, NEW b
  PROVE  /\ DOMAIN With(f, a, b) = {a} \cup DOMAIN f
         /\ With(f, a, b)[a] = b
         /\ \A x \in DOMAIN f : x # a => With(f, a, b)[x] = f[x]
BY DEF With

\* Of the functions there may be it is one.
LEMMA ExtendedType ==
  ASSUME NEW A, NEW B, NEW f \in Partial(A, B), NEW a \in A, NEW b \in B
  PROVE  With(f, a, b) \in Partial(A, B)
<1>1. PICK D \in SUBSET A : f \in [D -> B]
  BY DEF Partial
<1>2. With(f, a, b) = [x \in {a} \cup D |-> IF x = a THEN b ELSE f[x]]
  BY <1>1 DEF With
<1>3. With(f, a, b) \in [{a} \cup D -> B]
  BY <1>1, <1>2
<1> QED BY <1>3 DEF Partial

\* m is l with a symbol of its own for p, ...
Apart(l, m, p) == /\ m.syms = Append(l.syms, IF Definition(p) THEN p ELSE NoDef)
                  /\ m.own = With(l.own, p, Len(l.syms) + 1) /\ m.dup = l.dup

\* with the definition p of the symbol g, which o has, ...
Joined(l, m, p, o, g) == /\ g = l.own[o] /\ Key(o) = Key(p) /\ Definition(p)
                         /\ m.syms = [l.syms EXCEPT ![g] = IF AtMost(p, l.syms[g]) THEN @ ELSE p]
                         /\ m.own = With(l.own, p, g)
                         /\ m.dup <=> l.dup \/ (Level(p) = 2 /\ Level(l.syms[g]) = 2)

\* and with a name for the symbol of o.
Referred(l, m, p, o) == /\ Key(o) = Key(p) /\ ~Definition(p)
                        /\ m.syms = l.syms /\ m.own = With(l.own, p, l.own[o]) /\ m.dup = l.dup

Keeps(l, m, D, p) == Kept(m, D \cup {p}) /\ m.own[p] \in Nat /\ \A q \in D : m.own[q] = l.own[q]

\* A symbol of its own.
LEMMA FreshKeeps ==
  ASSUME Sizes, NEW D \in SUBSET All, NEW l \in Tables, NEW m, NEW p \in All, p \notin D,
         Kept(l, D), \A q \in D : Key(q) # Key(p), Apart(l, m, p)
  PROVE  Keeps(l, m, D, p)
<1>a. l.syms \in Seq(All \cup {NoDef})
  BY DEF Tables
<1>b. Numbers(l, D) /\ OneEach(l, D) /\ Best(l, D) /\ Reported(l, D)
  BY DEF Kept
<1> DEFINE def == IF Definition(p) THEN p ELSE NoDef
<1>c. m.syms = Append(l.syms, def) /\ m.own = With(l.own, p, Len(l.syms) + 1) /\ m.dup = l.dup
  BY DEF Apart
<1>d. def = IF Definition(p) THEN p ELSE NoDef
  OBVIOUS
<1> HIDE DEF def
<1> USE <1>a, <1>b, <1>c, <1>d
<1> DEFINE len == Len(l.syms)
<1>1. len \in Nat /\ Len(m.syms) = len + 1 /\ m.syms[len + 1] = def /\ \A i \in 1 .. len : m.syms[i] = l.syms[i]
  OBVIOUS
<1>2. DOMAIN m.own = D \cup {p} /\ m.own[p] = len + 1 /\ \A q \in D : m.own[q] = l.own[q]
  <2>1. DOMAIN l.own = D
    BY DEF Numbers
  <2>2. m.own = With(l.own, p, len + 1)
    OBVIOUS
  <2> HIDE DEF len
  <2> QED BY <2>1, <2>2 DEF With
<1>3. \A q \in D : m.own[q] \in 1 .. len
  BY <1>2 DEF Numbers
<1> HIDE DEF len
<1>4. Numbers(m, D \cup {p})
  <2>1. \A q \in D \cup {p} : m.own[q] \in 1 .. len + 1
    BY <1>1, <1>2, <1>3
  <2> QED BY <1>1, <1>2, <2>1 DEF Numbers
<1>5. OneEach(m, D \cup {p})
  <2>1. \A q \in D : m.own[q] # m.own[p]
    BY <1>1, <1>2, <1>3
  <2> QED BY <1>2, <2>1 DEF OneEach
<1>6. Best(m, D \cup {p})
  <2>1. ASSUME NEW q \in D
        PROVE  \/ /\ \A r \in D \cup {p} : Definition(r) => Key(r) # Key(q)
                  /\ m.syms[m.own[q]] = NoDef
               \/ /\ m.syms[m.own[q]] \in D \cup {p} /\ Definition(m.syms[m.own[q]])
                  /\ Key(m.syms[m.own[q]]) = Key(q)
                  /\ \A r \in D \cup {p} : Definition(r) /\ Key(r) = Key(q) => AtMost(r, m.syms[m.own[q]])
    <3>1. m.syms[m.own[q]] = l.syms[l.own[q]]
      BY <1>1, <1>2, <1>3
    <3>2. Key(p) # Key(q)
      OBVIOUS
    <3> QED BY <3>1, <3>2 DEF Best
  <2>2. m.syms[m.own[p]] = def
    BY <1>1, <1>2
  <2>3. Definition(p) => AtMost(p, p)
    BY DEF AtMost, Level, Sizes
  <2>4. \/ /\ \A r \in D \cup {p} : Definition(r) => Key(r) # Key(p)
           /\ m.syms[m.own[p]] = NoDef
        \/ /\ m.syms[m.own[p]] \in D \cup {p} /\ Definition(m.syms[m.own[p]])
           /\ Key(m.syms[m.own[p]]) = Key(p)
           /\ \A r \in D \cup {p} : Definition(r) /\ Key(r) = Key(p) => AtMost(r, m.syms[m.own[p]])
    BY <2>2, <2>3
  <2> QED BY <2>1, <2>4 DEF Best
<1>7. Reported(m, D \cup {p})
  BY DEF Reported
<1>8. m.own[p] \in Nat
  BY <1>1, <1>2
<1> QED BY <1>2, <1>4, <1>5, <1>6, <1>7, <1>8 DEF Kept, Keeps

\* What will do for all will do for less than it.
LEMMA AtMostOrders ==
  ASSUME Sizes
  PROVE  /\ \A p \in All : AtMost(p, p)
         /\ \A p, q \in All : AtMost(p, q) \/ AtMost(q, p)
         /\ \A p, q, r \in All : AtMost(p, q) /\ AtMost(q, r) => AtMost(p, r)
<1>1. \A p : Level(p) \in {0, 1, 2}
  BY DEF Level
<1>2. \A p \in All : Sym(p).size \in Nat
  BY DEF Sizes
<1> QED BY <1>1, <1>2 DEF AtMost

\* A definition of a symbol that is there.
LEMMA MergedKeeps ==
  ASSUME Sizes, NEW D \in SUBSET All, NEW l \in Tables, NEW m, NEW p \in All, p \notin D,
         Kept(l, D), \A q \in D : Definition(q), NEW o \in D, NEW g, Joined(l, m, p, o, g)
  PROVE  Keeps(l, m, D, p)
<1>a. l.syms \in Seq(All \cup {NoDef})
  BY DEF Tables
<1>b. Numbers(l, D) /\ OneEach(l, D) /\ Best(l, D) /\ Reported(l, D)
  BY DEF Kept
<1>c. /\ g = l.own[o] /\ Key(o) = Key(p) /\ Definition(p)
      /\ m.own = With(l.own, p, g)
      /\ m.dup <=> l.dup \/ (Level(p) = 2 /\ Level(l.syms[g]) = 2)
  BY DEF Joined
<1> DEFINE wins == ~AtMost(p, l.syms[g])
<1>d. m.syms = [l.syms EXCEPT ![g] = IF wins THEN p ELSE @]
  BY DEF Joined
<1>e. wins <=> ~AtMost(p, l.syms[g])
  OBVIOUS
<1> HIDE DEF wins
<1> USE <1>a, <1>b, <1>c, <1>d, <1>e
<1> DEFINE old == l.syms[g]
<1>1. DOMAIN m.own = D \cup {p} /\ m.own[p] = g /\ \A q \in D : m.own[q] = l.own[q]
  <2>1. DOMAIN l.own = D
    BY DEF Numbers
  <2> QED BY <2>1 DEF With
<1>2. g \in 1 .. Len(l.syms) /\ \A q \in D : l.own[q] \in 1 .. Len(l.syms)
  BY DEF Numbers
<1>3. Len(m.syms) = Len(l.syms)
  <2>1. DOMAIN m.syms = DOMAIN l.syms /\ Len(l.syms) \in Nat /\ DOMAIN l.syms = 1 .. Len(l.syms)
    OBVIOUS
  <2>2. m.syms \in Seq(All \cup {NoDef})
    BY <1>2
  <2> QED BY <2>1, <2>2
<1>4. /\ m.syms[g] = IF wins THEN p ELSE old
      /\ \A i \in 1 .. Len(l.syms) : i # g => m.syms[i] = l.syms[i]
  BY <1>2
<1>5. /\ old \in D /\ Definition(old) /\ Key(old) = Key(p)
      /\ \A q \in D : Key(q) = Key(p) => AtMost(q, old)
  BY DEF Best
<1>6. \A q \in D : l.own[q] = g <=> Key(q) = Key(p)
  BY DEF OneEach
<1> HIDE DEF old
<1>7. Numbers(m, D \cup {p})
  BY <1>1, <1>2, <1>3 DEF Numbers
<1>8. OneEach(m, D \cup {p})
  BY <1>1, <1>6 DEF OneEach
<1>9. Best(m, D \cup {p})
  <2>1. ASSUME NEW q \in D \cup {p}
        PROVE  /\ m.syms[m.own[q]] \in D \cup {p} /\ Definition(m.syms[m.own[q]])
               /\ Key(m.syms[m.own[q]]) = Key(q)
               /\ \A r \in D \cup {p} : Definition(r) /\ Key(r) = Key(q) => AtMost(r, m.syms[m.own[q]])
    <3>1. CASE Key(q) = Key(p)
      <4>1. m.own[q] = g
        BY <1>1, <1>6, <3>1
      <4>2. AtMost(p, p) /\ (AtMost(p, old) \/ AtMost(old, p))
        BY <1>5, AtMostOrders
      <4>3. AtMost(old, p) => \A r \in D : Key(r) = Key(p) => AtMost(r, p)
        BY <1>5, AtMostOrders
      <4>4. CASE wins
        <5>1. m.syms[m.own[q]] = p
          BY <1>4, <4>1, <4>4
        <5>2. ~AtMost(p, old)
          BY <4>4 DEF old
        <5> QED BY <3>1, <4>2, <4>3, <5>1, <5>2
      <4>5. CASE ~wins
        <5>1. m.syms[m.own[q]] = old
          BY <1>4, <4>1, <4>5
        <5>2. AtMost(p, old)
          BY <4>5 DEF old
        <5> QED BY <1>5, <3>1, <5>1, <5>2
      <4> QED BY <4>4, <4>5
    <3>2. CASE Key(q) # Key(p)
      <4>1. q \in D /\ m.own[q] = l.own[q] /\ l.own[q] # g
        BY <1>1, <1>6, <3>2
      <4>2. m.syms[m.own[q]] = l.syms[l.own[q]]
        BY <1>2, <1>4, <4>1
      <4>3. \A r \in D : Definition(r)
        OBVIOUS
      <4>4. /\ l.syms[l.own[q]] \in D /\ Definition(l.syms[l.own[q]])
            /\ Key(l.syms[l.own[q]]) = Key(q)
            /\ \A r \in D : Definition(r) /\ Key(r) = Key(q) => AtMost(r, l.syms[l.own[q]])
        BY <4>1, <4>3 DEF Best
      <4> QED BY <3>2, <4>2, <4>4
    <3> QED BY <3>1, <3>2
  <2> QED BY <2>1 DEF Best
<1>10. Reported(m, D \cup {p})
  <2>1. ASSUME NEW q \in D, Key(q) = Key(p), Level(p) = 2, Level(q) = 2 PROVE Level(old) = 2
    <3>1. AtMost(q, old) /\ Level(old) \in {0, 1, 2}
      BY <1>5, <2>1 DEF Level
    <3> QED BY <2>1, <3>1 DEF AtMost
  <2>2. (Level(p) = 2 /\ Level(old) = 2) <=> \E q \in D : Key(q) = Key(p) /\ Level(p) = 2 /\ Level(q) = 2
    BY <1>5, <2>1
  <2>3. m.dup <=> l.dup \/ (Level(p) = 2 /\ Level(old) = 2)
    BY DEF old
  <2> QED BY <2>2, <2>3 DEF Reported
<1>11. m.own[p] \in Nat
  <2>1. Len(l.syms) \in Nat
    OBVIOUS
  <2> QED BY <1>1, <1>2, <2>1
<1> QED BY <1>1, <1>7, <1>8, <1>9, <1>10, <1>11 DEF Kept, Keeps

\* A name that an object refers to, of a symbol that is there.
LEMMA FoundKeeps ==
  ASSUME NEW D \in SUBSET All, NEW l \in Tables, NEW m, NEW p \in All, p \notin D,
         Kept(l, D), NEW o \in D, Referred(l, m, p, o)
  PROVE  Keeps(l, m, D, p)
<1>a. l.syms \in Seq(All \cup {NoDef})
  BY DEF Tables
<1>b. Numbers(l, D) /\ OneEach(l, D) /\ Best(l, D) /\ Reported(l, D)
  BY DEF Kept
<1> DEFINE g == l.own[o]
<1>c. /\ g = l.own[o] /\ Key(o) = Key(p) /\ ~Definition(p)
      /\ m.syms = l.syms /\ m.own = With(l.own, p, g) /\ m.dup = l.dup
  BY DEF Referred
<1> HIDE DEF g
<1> USE <1>a, <1>b, <1>c
<1>1. DOMAIN m.own = D \cup {p} /\ m.own[p] = g /\ \A q \in D : m.own[q] = l.own[q]
  <2>1. DOMAIN l.own = D
    BY DEF Numbers
  <2> QED BY <2>1 DEF With
<1>2. Numbers(m, D \cup {p})
  BY <1>1 DEF Numbers
<1>3. OneEach(m, D \cup {p})
  BY <1>1 DEF OneEach
<1>4. Best(m, D \cup {p})
  <2>1. ASSUME NEW q \in D
        PROVE  \/ /\ \A r \in D \cup {p} : Definition(r) => Key(r) # Key(q)
                  /\ m.syms[m.own[q]] = NoDef
               \/ /\ m.syms[m.own[q]] \in D \cup {p} /\ Definition(m.syms[m.own[q]])
                  /\ Key(m.syms[m.own[q]]) = Key(q)
                  /\ \A r \in D \cup {p} : Definition(r) /\ Key(r) = Key(q) => AtMost(r, m.syms[m.own[q]])
    <3>1. m.syms[m.own[q]] = l.syms[l.own[q]]
      BY <1>1
    <3> QED BY <3>1 DEF Best
  <2>2. m.own[p] = m.own[o]
    BY <1>1
  <2>3. \/ /\ \A r \in D \cup {p} : Definition(r) => Key(r) # Key(p)
           /\ m.syms[m.own[p]] = NoDef
        \/ /\ m.syms[m.own[p]] \in D \cup {p} /\ Definition(m.syms[m.own[p]])
           /\ Key(m.syms[m.own[p]]) = Key(p)
           /\ \A r \in D \cup {p} : Definition(r) /\ Key(r) = Key(p) => AtMost(r, m.syms[m.own[p]])
    BY <2>1, <2>2
  <2> QED BY <2>1, <2>3 DEF Best
<1>5. Reported(m, D \cup {p})
  BY DEF Reported
<1>6. m.own[p] \in Nat
  <2>1. Len(l.syms) \in Nat /\ m.own[p] \in 1 .. Len(l.syms)
    BY <1>2 DEF Numbers
  <2> QED BY <2>1
<1> QED BY <1>1, <1>2, <1>3, <1>4, <1>5, <1>6 DEF Kept, Keeps

\* When two keys are one.
LEMMA KeysAgree ==
  ASSUME NEW p
  PROVE  /\ HasHash(p) => \A q : Key(q) = Key(p) <=> HasHash(q) /\ <<q[2], Sym(q).hash>> = <<p[2], Sym(p).hash>>
         /\ Named(p) => \A q : Key(q) = Key(p) <=> Named(q) /\ NameKey(Sym(q)) = NameKey(Sym(p))
         /\ ~HasHash(p) /\ ~Named(p) => \A q : Key(q) = Key(p) <=> q = p
<1>1. "hash" # "name" /\ "hash" # "own" /\ "name" # "own"
  OBVIOUS
<1> DEFINE H(q) == <<q[2], Sym(q).hash>>
           M(q) == NameKey(Sym(q))
<1> HIDE DEF H, M
<1>2. \A q : /\ HasHash(q) => Key(q) = <<"hash", H(q)>>
             /\ Named(q) => Key(q) = <<"name", M(q)>> /\ ~HasHash(q)
             /\ ~HasHash(q) /\ ~Named(q) => Key(q) = <<"own", q>>
  BY DEF Key, Named, H, M
<1>3. HasHash(p) => \A q : Key(q) = Key(p) <=> HasHash(q) /\ H(q) = H(p)
  BY <1>1, <1>2
<1>4. Named(p) => \A q : Key(q) = Key(p) <=> Named(q) /\ M(q) = M(p)
  BY <1>1, <1>2
<1>5. ~HasHash(p) /\ ~Named(p) => \A q : Key(q) = Key(p) <=> q = p
  BY <1>1, <1>2
<1> QED BY <1>3, <1>4, <1>5 DEF H, M

\* The fields of a table.
LEMMA TableFields ==
  ASSUME NEW l \in Tables
  PROVE  /\ l.syms \in Seq(All \cup {NoDef}) /\ l.own \in Partial(All, Nat) /\ l.byName \in Partial(NameKeys, Nat)
         /\ l.hashed \in Partial(Hashes, Nat) /\ l.builtin \in Partial(NameKeys, Nat) /\ l.dup \in BOOLEAN
         /\ l.inIface = {}
BY DEF Tables

\* A table is one again with other fields.
LEMMA TableWith ==
  ASSUME NEW l \in Tables, NEW m, DOMAIN m = DOMAIN l, m = [x \in DOMAIN m |-> m[x]],
         m.syms \in Seq(All \cup {NoDef}), m.own \in Partial(All, Nat), m.byName \in Partial(NameKeys, Nat),
         m.hashed \in Partial(Hashes, Nat), m.builtin \in Partial(NameKeys, Nat), m.dup \in BOOLEAN, m.inIface = {}
  PROVE  m \in Tables
<1> HIDE DEF All, NameKeys, Hashes
<1>1. DOMAIN l = {"syms", "own", "byName", "hashed", "builtin", "dup", "inIface"}
  BY DEF Tables
<1> QED BY <1>1 DEF Tables

\* A symbol of its own.
LEMMA EnteredFields ==
  ASSUME NEW l \in Tables, NEW p \in All, NEW def \in All \cup {NoDef}
  PROVE  /\ Entered(l, p, def) \in Tables
         /\ Entered(l, p, def).syms = Append(l.syms, def)
         /\ Entered(l, p, def).own = With(l.own, p, Len(l.syms) + 1)
         /\ Entered(l, p, def).byName = l.byName /\ Entered(l, p, def).hashed = l.hashed
         /\ Entered(l, p, def).builtin = l.builtin /\ Entered(l, p, def).dup = l.dup
<1> DEFINE m == Entered(l, p, def)
<1>1. /\ m.syms = Append(l.syms, def) /\ m.own = With(l.own, p, Len(l.syms) + 1)
      /\ m.byName = l.byName /\ m.hashed = l.hashed /\ m.builtin = l.builtin /\ m.dup = l.dup /\ m.inIface = l.inIface
      /\ DOMAIN m = DOMAIN l /\ m = [x \in DOMAIN m |-> m[x]]
  BY DEF Entered, Tables
<1>2. m.syms \in Seq(All \cup {NoDef}) /\ Len(l.syms) + 1 \in Nat
  BY <1>1, TableFields
<1>3. m.own \in Partial(All, Nat)
  BY <1>1, <1>2, TableFields, ExtendedType
<1> HIDE DEF m
<1>4. m \in Tables
  BY <1>1, <1>2, <1>3, TableFields, TableWith
<1> QED BY <1>1, <1>4 DEF m

\* A place that is merged.
LEMMA MergedFields ==
  ASSUME NEW l \in Tables, NEW p \in All, NEW g \in Nat, NEW wins
  PROVE  /\ Merged(l, p, g, wins) \in Tables
         /\ Merged(l, p, g, wins).syms = [l.syms EXCEPT ![g] = IF wins THEN p ELSE @]
         /\ Merged(l, p, g, wins).own = With(l.own, p, g)
         /\ Merged(l, p, g, wins).byName = l.byName /\ Merged(l, p, g, wins).hashed = l.hashed
         /\ Merged(l, p, g, wins).builtin = l.builtin /\ Merged(l, p, g, wins).dup = l.dup
<1> DEFINE m == Merged(l, p, g, wins)
<1>1. /\ m.syms = [l.syms EXCEPT ![g] = IF wins THEN p ELSE @] /\ m.own = With(l.own, p, g)
      /\ m.byName = l.byName /\ m.hashed = l.hashed /\ m.builtin = l.builtin /\ m.dup = l.dup /\ m.inIface = l.inIface
      /\ DOMAIN m = DOMAIN l /\ m = [x \in DOMAIN m |-> m[x]]
  BY DEF Merged, Tables
<1>2. m.syms \in Seq(All \cup {NoDef})
  <2>1. l.syms \in Seq(All \cup {NoDef})
    BY TableFields
  <2> DEFINE w == IF wins THEN p ELSE l.syms[g]
             C == All \cup {NoDef}
  <2>2. g \in DOMAIN l.syms => w \in C
    BY <2>1
  <2>3. m.syms = [l.syms EXCEPT ![g] = w]
    BY <1>1
  <2>4. l.syms \in Seq(C)
    BY <2>1
  <2> HIDE DEF m, w, C
  <2>5. g \in DOMAIN l.syms => [l.syms EXCEPT ![g] = w] \in Seq(C)
    BY <2>2, <2>4
  <2>6. g \notin DOMAIN l.syms => [l.syms EXCEPT ![g] = w] = l.syms
    BY <2>4
  <2> QED BY <2>3, <2>4, <2>5, <2>6 DEF C
<1>3. m.own \in Partial(All, Nat)
  BY <1>1, TableFields, ExtendedType
<1> HIDE DEF m
<1>4. m \in Tables
  BY <1>1, <1>2, <1>3, TableFields, TableWith
<1> QED BY <1>1, <1>4 DEF m

\* What well made objects have.
LEMMA SizesAreNumbers ==
  ASSUME WellMade
  PROVE  Sizes
BY DEF WellMade, Checked, All, Sym, Sizes

\* A symbol is code or data, ...
LEMMA KindsAreTwo ==
  ASSUME WellMade
  PROVE  \A p \in All : Sym(p).kind \in {"text", "data"}
BY DEF WellMade, Checked, All, Sym

\* ... what an object refers to has a name, ...
LEMMA ReferencesAreNames ==
  ASSUME WellMade
  PROVE  \A p \in All : p[2] = "refs" => Sym(p).name # NoName
BY DEF WellMade, Checked, All, Sym

\* ... and a place is in one of the five spaces.
LEMMA SpacesAreFive ==
  ASSUME NEW p \in All
  PROVE  p[2] \in Spaces
BY DEF All, Places

\* "A package definition is unique by construction".
LEMMA PackagesNameOnce ==
  ASSUME WellMade, NEW p \in All, NEW q \in All, p # q, p[2] = "defs", q[2] = "defs", Named(p)
  PROVE  NameKey(Sym(p)) # NameKey(Sym(q))
BY DEF WellMade, All, Sym, Named

-----------------------------------------------------------------------------
(* A definition with a hash *)

\* AddHashed leads from table to table, ...
LEMMA AddHashedTyped ==
  ASSUME NEW l \in Tables, NEW p \in All
  PROVE  AddHashed(l, objs, p) \in Tables
<1> DEFINE key == <<p[2], Sym(p).hash>>
           g   == l.hashed[key]
<1>1. CASE key \in DOMAIN l.hashed
  <2>1. g \in Nat
    BY <1>1, TableFields DEF Partial
  <2> DEFINE wins == Sym(p).size > Sym(l.syms[g]).size
  <2>2. AddHashed(l, objs, p) = Merged(l, p, g, wins)
    BY <1>1 DEF AddHashed, Sym
  <2>3. wins \in BOOLEAN
    OBVIOUS
  <2> HIDE DEF wins, g
  <2>4. Merged(l, p, g, wins) \in Tables
    BY <2>1, MergedFields
  <2> QED BY <2>2, <2>4
<1>2. CASE key \notin DOMAIN l.hashed
  <2> DEFINE e == Entered(l, p, p)
             m == [e EXCEPT !.hashed = With(@, key, Len(l.syms) + 1)]
  <2>1. AddHashed(l, objs, p) = m
    BY <1>2 DEF AddHashed, Sym
  <2>2. e \in Tables /\ Len(l.syms) + 1 \in Nat
    BY EnteredFields, TableFields
  <2>3. key \in Hashes
    BY DEF Hashes
  <2>4. With(e.hashed, key, Len(l.syms) + 1) \in Partial(Hashes, Nat)
    BY <2>2, <2>3, TableFields, ExtendedType
  <2> HIDE DEF e, key
  <2>5. m \in Tables
    BY <2>2, <2>4 DEF Tables
  <2> QED BY <2>1, <2>5
<1> QED BY <1>1, <1>2

\* ... and a table with the places of D to one with p as well.
LEMMA AddHashedKeeps ==
  ASSUME WellMade, NEW l \in Tables, NEW D \in SUBSET All, \A q \in D : Definition(q), HasAll(l, D),
         NEW p \in All, p \notin D, HasHash(p)
  PROVE  HasAll(AddHashed(l, objs, p), D \cup {p})
<1> DEFINE key == <<p[2], Sym(p).hash>>
           g   == l.hashed[key]
           m   == AddHashed(l, objs, p)
<1>a. Sizes
  BY SizesAreNumbers
<1>b. \A q : Key(q) = Key(p) <=> HasHash(q) /\ <<q[2], Sym(q).hash>> = key
  BY KeysAgree
<1>c. ~Named(p) /\ Definition(p)
  BY DEF Named, Definition, HasHash
<1>d. l.syms \in Seq(All \cup {NoDef}) /\ l.dup \in BOOLEAN
  BY TableFields
<1>e. /\ \A q \in D : HasHash(q) => <<q[2], Sym(q).hash>> \in DOMAIN l.hashed /\ l.hashed[<<q[2], Sym(q).hash>>] = l.own[q]
      /\ \A k \in DOMAIN l.hashed : \E q \in D : HasHash(q) /\ <<q[2], Sym(q).hash>> = k
  BY DEF HasAll, HashesFound
<1>f. Kept(l, D) /\ NamesFound(l, D) /\ BuiltinsFound(l, D)
  BY DEF HasAll
<1> HIDE DEF key
<1> SUFFICES /\ Keeps(l, m, D, p)
             /\ key \in DOMAIN m.hashed /\ m.hashed[key] = m.own[p] /\ DOMAIN m.hashed = {key} \cup DOMAIN l.hashed
             /\ \A k \in DOMAIN l.hashed : m.hashed[k] = l.hashed[k]
             /\ m.byName = l.byName /\ m.builtin = l.builtin
  <2>0. Kept(m, D \cup {p}) /\ \A q \in D : m.own[q] = l.own[q]
    BY DEF Keeps
  <2>1. NamesFound(m, D \cup {p})
    BY <1>c, <1>f, <2>0 DEF NamesFound
  <2>2. BuiltinsFound(m, D \cup {p})
    BY <1>c, <1>f, <2>0 DEF BuiltinsFound
  <2>3. HashesFound(m, D \cup {p})
    <3>1. \A q \in D \cup {p} : HasHash(q) => <<q[2], Sym(q).hash>> \in DOMAIN m.hashed /\ m.hashed[<<q[2], Sym(q).hash>>] = m.own[q]
      BY <1>e, <2>0 DEF key
    <3>2. \A k \in DOMAIN m.hashed : \E q \in D \cup {p} : HasHash(q) /\ <<q[2], Sym(q).hash>> = k
      BY <1>e DEF key
    <3> QED BY <3>1, <3>2 DEF HashesFound
  <2> QED BY <2>0, <2>1, <2>2, <2>3 DEF HasAll
<1>1. CASE key \in DOMAIN l.hashed
  <2> DEFINE wins == Sym(p).size > Sym(l.syms[g]).size
  <2>1. PICK o \in D : HasHash(o) /\ <<o[2], Sym(o).hash>> = key
    BY <1>1, <1>e
  <2>2. g = l.own[o] /\ Key(o) = Key(p)
    BY <1>b, <1>e, <2>1
  <2>3. g \in Nat
    BY <1>1, TableFields DEF Partial
  <2>4. m = Merged(l, p, g, wins)
    BY <1>1 DEF AddHashed, Sym, key
  <2>5. l.syms[g] \in D /\ Key(l.syms[g]) = Key(p)
    BY <1>c, <1>f, <2>2 DEF Kept, Best
  <2>6. HasHash(l.syms[g])
    BY <1>b, <2>5
  <2>7. Level(p) = 0 /\ Level(l.syms[g]) = 0
    BY <2>6 DEF Level
  <2>8. wins <=> ~AtMost(p, l.syms[g])
    BY <1>a, <2>5, <2>7 DEF AtMost, Sizes
  <2>9. wins \in BOOLEAN
    OBVIOUS
  <2> HIDE DEF wins, m, g
  <2>10. /\ m.syms = [l.syms EXCEPT ![g] = IF wins THEN p ELSE @] /\ m.own = With(l.own, p, g)
         /\ m.byName = l.byName /\ m.hashed = l.hashed /\ m.builtin = l.builtin /\ m.dup = l.dup
    BY <2>3, <2>4, <2>9, MergedFields
  <2>11. m.dup <=> l.dup \/ (Level(p) = 2 /\ Level(l.syms[g]) = 2)
    BY <2>7, <2>10
  <2>12. Keeps(l, m, D, p)
    <3>1. m.syms = [l.syms EXCEPT ![g] = IF AtMost(p, l.syms[g]) THEN @ ELSE p]
      BY <2>8, <2>10
    <3>2. Joined(l, m, p, o, g)
      BY <1>c, <2>2, <2>10, <2>11, <3>1 DEF Joined
    <3> QED BY <1>a, <1>f, <3>2, MergedKeeps
  <2>13. m.own[p] = g
    <3>1. m.own = With(l.own, p, g)
      BY <2>10
    <3> QED BY <3>1 DEF With
  <2>14. m.hashed[key] = m.own[p]
    BY <2>10, <2>13 DEF g
  <2> QED BY <1>1, <2>10, <2>12, <2>14
<1>2. CASE key \notin DOMAIN l.hashed
  <2> DEFINE e == Entered(l, p, p)
  <2>1. m = [e EXCEPT !.hashed = With(@, key, Len(l.syms) + 1)]
    BY <1>2 DEF AddHashed, Sym, key
  <2>2. /\ e \in Tables /\ e.syms = Append(l.syms, p) /\ e.own = With(l.own, p, Len(l.syms) + 1)
        /\ e.byName = l.byName /\ e.hashed = l.hashed /\ e.builtin = l.builtin /\ e.dup = l.dup
    BY EnteredFields
  <2> HIDE DEF e, m
  <2>3. /\ m.syms = e.syms /\ m.own = e.own /\ m.byName = e.byName /\ m.builtin = e.builtin /\ m.dup = e.dup
        /\ m.hashed = With(e.hashed, key, Len(l.syms) + 1)
    BY <2>1, <2>2 DEF Tables
  <2>4. \A q \in D : Key(q) # Key(p)
    BY <1>2, <1>b, <1>e
  <2>5. Keeps(l, m, D, p)
    <3>1. Apart(l, m, p)
      BY <1>c, <2>2, <2>3 DEF Apart
    <3> QED BY <1>a, <1>f, <2>4, <3>1, FreshKeeps
  <2>6. m.own[p] = Len(l.syms) + 1
    BY <2>2, <2>3 DEF With
  <2>7. /\ key \in DOMAIN m.hashed /\ m.hashed[key] = Len(l.syms) + 1 /\ DOMAIN m.hashed = {key} \cup DOMAIN l.hashed
        /\ \A k \in DOMAIN l.hashed : m.hashed[k] = l.hashed[k]
    BY <1>2, <2>2, <2>3 DEF With
  <2> QED BY <2>2, <2>3, <2>5, <2>6, <2>7
<1> QED BY <1>1, <1>2

-----------------------------------------------------------------------------
(* A definition with a name *)

\* AddNamed and registerBuiltin lead from table to table.
LEMMA AddNamedTyped ==
  ASSUME NEW l \in Tables, NEW p \in All
  PROVE  AddNamed(l, objs, p) \in Tables
<1> DEFINE key == NameKey(Sym(p))
           g   == l.byName[key]
           e   == Entered(l, p, p)
<1>a. e \in Tables /\ Len(l.syms) + 1 \in Nat
  BY EnteredFields, TableFields
<1>b. key \in NameKeys
  BY DEF NameKeys
<1>1. CASE Sym(p).name = NoName \/ Static(Sym(p))
  BY <1>1, <1>a DEF AddNamed, Sym
<1>2. CASE ~(Sym(p).name = NoName \/ Static(Sym(p))) /\ (p[2] = "defs" \/ key \notin DOMAIN l.byName)
  <2> DEFINE m == [e EXCEPT !.byName = With(@, key, Len(l.syms) + 1)]
  <2>1. AddNamed(l, objs, p) = m
    BY <1>2 DEF AddNamed, Sym
  <2> HIDE DEF e, key
  <2>2. With(e.byName, key, Len(l.syms) + 1) \in Partial(NameKeys, Nat)
    BY <1>a, <1>b, TableFields, ExtendedType
  <2>3. m \in Tables
    BY <1>a, <2>2 DEF Tables
  <2> QED BY <2>1, <2>3
<1>3. CASE ~(Sym(p).name = NoName \/ Static(Sym(p))) /\ p[2] # "defs" /\ key \in DOMAIN l.byName
  <2> DEFINE wins == Wins(Sym(p), Sym(l.syms[g]))
             c == Conflict(Sym(p), Sym(l.syms[g]))
             m == Merged(l, p, g, wins)
  <2>1. AddNamed(l, objs, p) = [m EXCEPT !.dup = @ \/ c]
    BY <1>3 DEF AddNamed, Sym
  <2>2. g \in Nat
    BY <1>3, TableFields DEF Partial
  <2> HIDE DEF wins, g, c, m
  <2>3. m \in Tables
    BY <2>2, MergedFields DEF m
  <2>4. (m.dup \/ c) \in BOOLEAN
    OBVIOUS
  <2>5. [m EXCEPT !.dup = @ \/ c] \in Tables
    BY <2>3, <2>4 DEF Tables
  <2> QED BY <2>1, <2>5
<1> QED BY <1>1, <1>2, <1>3

\* (The symbol is there already.)
LEMMA RegisterBuiltinTyped ==
  ASSUME NEW l \in Tables, NEW p \in All, l.own[p] \in Nat
  PROVE  RegisterBuiltin(l, objs, p) \in Tables
<1> DEFINE key == NameKey(Sym(p))
           m   == [l EXCEPT !.builtin = With(@, key, l.own[p])]
<1>1. CASE key \in Builtins
  <2>1. RegisterBuiltin(l, objs, p) = m
    BY <1>1 DEF RegisterBuiltin, Sym
  <2>2. key \in NameKeys
    BY DEF NameKeys
  <2> HIDE DEF key
  <2>3. With(l.builtin, key, l.own[p]) \in Partial(NameKeys, Nat)
    BY <2>2, TableFields, ExtendedType
  <2>4. m \in Tables
    BY <2>3 DEF Tables
  <2> QED BY <2>1, <2>4
<1>2. CASE key \notin Builtins
  BY <1>2 DEF RegisterBuiltin, Sym
<1> QED BY <1>1, <1>2

\* A definition is in the table after it was added.
LEMMA AddNamedOwns ==
  ASSUME NEW l \in Tables, NEW p \in All
  PROVE  AddNamed(l, objs, p).own[p] \in Nat
<1> DEFINE key == NameKey(Sym(p))
           g   == l.byName[key]
           e   == Entered(l, p, p)
<1>a. e \in Tables /\ Len(l.syms) + 1 \in Nat /\ e.own = With(l.own, p, Len(l.syms) + 1)
  BY EnteredFields, TableFields
<1>b. e.own[p] \in Nat
  BY <1>a DEF With
<1>1. CASE Sym(p).name = NoName \/ Static(Sym(p))
  BY <1>1, <1>b DEF AddNamed, Sym
<1>2. CASE ~(Sym(p).name = NoName \/ Static(Sym(p))) /\ (p[2] = "defs" \/ key \notin DOMAIN l.byName)
  <2> DEFINE m == [e EXCEPT !.byName = With(@, key, Len(l.syms) + 1)]
  <2>1. AddNamed(l, objs, p) = m
    BY <1>2 DEF AddNamed, Sym
  <2> HIDE DEF e, key
  <2>2. m.own = e.own
    BY <1>a DEF Tables
  <2> QED BY <1>b, <2>1, <2>2
<1>3. CASE ~(Sym(p).name = NoName \/ Static(Sym(p))) /\ p[2] # "defs" /\ key \in DOMAIN l.byName
  <2> DEFINE wins == Wins(Sym(p), Sym(l.syms[g]))
             c == Conflict(Sym(p), Sym(l.syms[g]))
             m == Merged(l, p, g, wins)
  <2>1. AddNamed(l, objs, p) = [m EXCEPT !.dup = @ \/ c]
    BY <1>3 DEF AddNamed, Sym
  <2>2. g \in Nat
    BY <1>3, TableFields DEF Partial
  <2> HIDE DEF wins, g, c
  <2>3. m \in Tables /\ m.own = With(l.own, p, g)
    <3>1. m \in Tables
      BY <2>2, MergedFields
    <3>2. m.own = With(l.own, p, g)
      BY DEF Merged, Tables
    <3> QED BY <3>1, <3>2
  <2> HIDE DEF m
  <2>4. [m EXCEPT !.dup = @ \/ c].own = m.own
    BY <2>3 DEF Tables
  <2>5. m.own[p] = g
    BY <2>3 DEF With
  <2> QED BY <2>1, <2>2, <2>4, <2>5
<1> QED BY <1>1, <1>2, <1>3

\* The rules by which one definition of a name replaces another.
LEMMA WinsIs ==
  ASSUME WellMade, NEW p \in All, NEW q \in All, ~HasHash(p), ~HasHash(q)
  PROVE  /\ Wins(Sym(p), Sym(q)) <=> ~AtMost(p, q)
         /\ Conflict(Sym(p), Sym(q)) <=> Level(p) = 2 /\ Level(q) = 2
<1>1. Sym(p).size \in Nat /\ Sym(q).size \in Nat
  BY SizesAreNumbers DEF Sizes
<1>2. Sym(p).kind = "text" \/ Sym(p).kind = "data"
  BY KindsAreTwo
<1>3. Level(p) = (IF Sym(p).dupok THEN 0 ELSE IF IsBSS(Sym(p)) THEN 1 ELSE 2)
  BY DEF Level
<1>4. Level(q) = (IF Sym(q).dupok THEN 0 ELSE IF IsBSS(Sym(q)) THEN 1 ELSE 2)
  BY DEF Level
<1>5. ~IsBSS(Sym(p)) => Sym(p).kind = "text" \/ Sym(p).content
  BY <1>2 DEF IsBSS
<1>6. IsBSS(Sym(p)) => Sym(p).kind # "text" /\ ~Sym(p).content
  BY DEF IsBSS
<1>7. Wins(Sym(p), Sym(q)) <=> ~AtMost(p, q)
  <2>1. CASE Sym(p).dupok
    <3>1. Level(p) = 0 /\ (Sym(q).dupok <=> Level(q) = 0) /\ Level(q) \in {0, 1, 2}
      BY <1>3, <1>4, <2>1
    <3>2. Wins(Sym(p), Sym(q)) <=> Sym(q).dupok /\ Sym(q).size < Sym(p).size
      BY <2>1 DEF Wins
    <3> QED BY <1>1, <3>1, <3>2 DEF AtMost
  <2>2. CASE ~Sym(p).dupok /\ Sym(q).dupok
    <3>1. Level(p) \in {1, 2} /\ Level(q) = 0
      BY <1>3, <1>4, <2>2
    <3>2. Wins(Sym(p), Sym(q))
      BY <2>2 DEF Wins
    <3> QED BY <1>1, <3>1, <3>2 DEF AtMost
  <2>3. CASE ~Sym(p).dupok /\ ~Sym(q).dupok
    <3>1. Level(p) = (IF IsBSS(Sym(p)) THEN 1 ELSE 2) /\ Level(q) = (IF IsBSS(Sym(q)) THEN 1 ELSE 2)
      BY <1>3, <1>4, <2>3
    <3>2. Wins(Sym(p), Sym(q)) <=> IsBSS(Sym(q)) /\ (Sym(p).kind = "text" \/ Sym(p).content \/ (IsBSS(Sym(p)) /\ Sym(p).size > Sym(q).size))
      BY <2>3 DEF Wins
    <3>3. Wins(Sym(p), Sym(q)) <=> IsBSS(Sym(q)) /\ (~IsBSS(Sym(p)) \/ Sym(p).size > Sym(q).size)
      BY <1>5, <1>6, <3>2
    <3> QED BY <1>1, <3>1, <3>3 DEF AtMost
  <2> QED BY <2>1, <2>2, <2>3
<1>8. Conflict(Sym(p), Sym(q)) <=> Level(p) = 2 /\ Level(q) = 2
  <2>1. Conflict(Sym(p), Sym(q)) <=> ~Sym(p).dupok /\ ~Sym(q).dupok /\ AtMost(p, q) /\ ~IsBSS(Sym(p))
    BY <1>7 DEF Conflict
  <2>2. Level(p) = 2 <=> ~Sym(p).dupok /\ ~IsBSS(Sym(p))
    BY <1>3
  <2>3. Level(q) # 0 <=> ~Sym(q).dupok
    BY <1>4
  <2>4. Level(q) \in {0, 1, 2}
    BY <1>4
  <2>5. Level(p) = 2 => (AtMost(p, q) <=> Level(q) = 2)
    BY <1>1, <2>4 DEF AtMost
  <2> QED BY <2>1, <2>2, <2>3, <2>5
<1> QED BY <1>7, <1>8

\* What is found by hash does not change when a name is added, ...
LEMMA HashesStay ==
  ASSUME NEW D, NEW l, NEW m, NEW p, ~HasHash(p), HashesFound(l, D), Keeps(l, m, D, p), m.hashed = l.hashed
  PROVE  HashesFound(m, D \cup {p})
<1>1. \A q \in D : m.own[q] = l.own[q]
  BY DEF Keeps
<1> QED BY <1>1 DEF HashesFound

\* nor what is found by name when nothing with a name is.
LEMMA NamesStay ==
  ASSUME NEW D, NEW l, NEW m, NEW p, ~Named(p), NamesFound(l, D), Keeps(l, m, D, p), m.byName = l.byName
  PROVE  NamesFound(m, D \cup {p})
<1>1. \A q \in D : m.own[q] = l.own[q]
  BY DEF Keeps
<1> QED BY <1>1 DEF NamesFound

\* A name that was found still is.
LEMMA NamesJoin ==
  ASSUME NEW D, NEW l, NEW m, NEW p, NamesFound(l, D), Keeps(l, m, D, p), m.byName = l.byName,
         NameKey(Sym(p)) \in DOMAIN l.byName, m.own[p] = l.byName[NameKey(Sym(p))]
  PROVE  NamesFound(m, D \cup {p})
<1>1. \A q \in D : m.own[q] = l.own[q]
  BY DEF Keeps
<1>2. \A q \in D \cup {p} : Named(q) => NameKey(Sym(q)) \in DOMAIN m.byName /\ m.byName[NameKey(Sym(q))] = m.own[q]
  BY <1>1 DEF NamesFound
<1>3. \A k \in DOMAIN m.byName : \E q \in D \cup {p} : Named(q) /\ NameKey(Sym(q)) = k
  BY DEF NamesFound
<1> QED BY <1>2, <1>3 DEF NamesFound

\* A name that was not found is from now on.
LEMMA NamesGrow ==
  ASSUME NEW D, NEW l, NEW m, NEW p, NamesFound(l, D), Keeps(l, m, D, p), Named(p),
         \A q \in D : Named(q) => NameKey(Sym(q)) # NameKey(Sym(p)),
         m.byName = With(l.byName, NameKey(Sym(p)), m.own[p])
  PROVE  NamesFound(m, D \cup {p})
<1> DEFINE key == NameKey(Sym(p))
<1>1. \A q \in D : m.own[q] = l.own[q]
  BY DEF Keeps
<1>a. /\ \A q \in D : Named(q) => NameKey(Sym(q)) \in DOMAIN l.byName /\ l.byName[NameKey(Sym(q))] = l.own[q]
      /\ \A k \in DOMAIN l.byName : \E q \in D : Named(q) /\ NameKey(Sym(q)) = k
  BY DEF NamesFound
<1> HIDE DEF key
<1>b. /\ DOMAIN m.byName = {key} \cup DOMAIN l.byName /\ m.byName[key] = m.own[p]
      /\ \A k \in DOMAIN l.byName : k # key => m.byName[k] = l.byName[k]
  BY DEF With, key
<1>2. \A q \in D : Named(q) => NameKey(Sym(q)) \in DOMAIN m.byName /\ m.byName[NameKey(Sym(q))] = m.own[q]
  BY <1>1, <1>a, <1>b DEF key
<1>3. \A k \in DOMAIN m.byName : \E q \in D \cup {p} : Named(q) /\ NameKey(Sym(q)) = k
  BY <1>a, <1>b DEF key
<1>4. NameKey(Sym(p)) \in DOMAIN m.byName /\ m.byName[NameKey(Sym(p))] = m.own[p]
  BY <1>b DEF key
<1> QED BY <1>2, <1>3, <1>4 DEF NamesFound

\* The symbol of a name.
LEMMA NamesFind ==
  ASSUME NEW D, NEW l, NamesFound(l, D), NEW p, Named(p), NameKey(Sym(p)) \in DOMAIN l.byName
  PROVE  \E o \in D : Key(o) = Key(p) /\ l.byName[NameKey(Sym(p))] = l.own[o]
<1>1. PICK o \in D : Named(o) /\ NameKey(Sym(o)) = NameKey(Sym(p))
  BY DEF NamesFound
<1>2. Key(o) = Key(p)
  BY <1>1, KeysAgree
<1>3. l.byName[NameKey(Sym(o))] = l.own[o]
  BY <1>1 DEF NamesFound
<1> QED BY <1>1, <1>2, <1>3

\* AddNamed does, but for the symbols of the predeclared names, ...
LEMMA AddNamedKeeps ==
  ASSUME WellMade, NEW l \in Tables, NEW D \in SUBSET All, \A q \in D : Definition(q), HasAll(l, D),
         NEW p \in All, p \notin D, ~HasHash(p), Definition(p), p[2] = "defs" => \A q \in D : q[2] = "defs"
  PROVE  LET m == AddNamed(l, objs, p)
         IN  Keeps(l, m, D, p) /\ NamesFound(m, D \cup {p}) /\ HashesFound(m, D \cup {p}) /\ m.builtin = l.builtin
<1> DEFINE key == NameKey(Sym(p))
           g   == l.byName[key]
           e   == Entered(l, p, p)
           m   == AddNamed(l, objs, p)
<1>a. Sizes
  BY SizesAreNumbers
<1>b. Kept(l, D) /\ NamesFound(l, D) /\ HashesFound(l, D)
  BY DEF HasAll
<1>c. /\ e \in Tables /\ e.syms = Append(l.syms, p) /\ e.own = With(l.own, p, Len(l.syms) + 1)
      /\ e.byName = l.byName /\ e.hashed = l.hashed /\ e.builtin = l.builtin /\ e.dup = l.dup
  BY EnteredFields
<1>d. Named(p) <=> ~(Sym(p).name = NoName \/ Static(Sym(p)))
  BY DEF Named
<1> SUFFICES Keeps(l, m, D, p) /\ NamesFound(m, D \cup {p}) /\ m.hashed = l.hashed /\ m.builtin = l.builtin
  BY <1>b, HashesStay
<1>1. CASE ~Named(p)
  <2>1. m = e
    BY <1>1, <1>d DEF AddNamed, Sym
  <2> HIDE DEF e, m
  <2>2. Apart(l, m, p)
    BY <1>c, <2>1 DEF Apart
  <2>3. \A q \in D : Key(q) # Key(p)
    BY <1>1, KeysAgree
  <2>4. Keeps(l, m, D, p)
    BY <1>a, <1>b, <2>2, <2>3, FreshKeeps
  <2>5. NamesFound(m, D \cup {p})
    BY <1>1, <1>b, <1>c, <2>1, <2>4, NamesStay
  <2> QED BY <1>c, <2>1, <2>4, <2>5
<1>2. CASE Named(p) /\ (p[2] = "defs" \/ key \notin DOMAIN l.byName)
  <2>1. m = [e EXCEPT !.byName = With(@, key, Len(l.syms) + 1)]
    BY <1>2, <1>d DEF AddNamed, Sym
  <2> HIDE DEF e, m, key
  <2>2. /\ m.syms = e.syms /\ m.own = e.own /\ m.hashed = e.hashed /\ m.builtin = e.builtin /\ m.dup = e.dup
        /\ m.byName = With(e.byName, key, Len(l.syms) + 1)
    BY <1>c, <2>1 DEF Tables
  <2>3. Apart(l, m, p)
    BY <1>c, <2>2 DEF Apart
  <2>4. ASSUME NEW q \in D, Named(q) PROVE NameKey(Sym(q)) # key
    <3>1. CASE p[2] = "defs"
      <4>1. q[2] = "defs" /\ p # q
        BY <3>1
      <4> QED BY <1>2, <3>1, <4>1, PackagesNameOnce DEF key
    <3>2. CASE key \notin DOMAIN l.byName
      BY <1>b, <2>4, <3>2 DEF NamesFound
    <3> QED BY <1>2, <3>1, <3>2
  <2>5. \A q \in D : Key(q) # Key(p)
    BY <1>2, <2>4, KeysAgree DEF key
  <2>6. Keeps(l, m, D, p)
    BY <1>a, <1>b, <2>3, <2>5, FreshKeeps
  <2>7. m.own[p] = Len(l.syms) + 1
    BY <1>c, <2>2 DEF With
  <2>8. m.byName = With(l.byName, NameKey(Sym(p)), m.own[p])
    BY <1>c, <2>2, <2>7 DEF key
  <2>9. NamesFound(m, D \cup {p})
    BY <1>2, <1>b, <2>4, <2>6, <2>8, NamesGrow DEF key
  <2> QED BY <1>c, <2>2, <2>6, <2>9
<1>3. CASE Named(p) /\ p[2] # "defs" /\ key \in DOMAIN l.byName
  <2> DEFINE old == l.syms[g]
             wins == Wins(Sym(p), Sym(old))
             c == Conflict(Sym(p), Sym(old))
             j == Merged(l, p, g, wins)
  <2>1. m = [j EXCEPT !.dup = @ \/ c]
    BY <1>3, <1>d DEF AddNamed, Sym
  <2>2. PICK o \in D : Key(o) = Key(p) /\ g = l.own[o]
    BY <1>3, <1>b, NamesFind
  <2>3. l.syms[l.own[o]] \in D /\ Key(l.syms[l.own[o]]) = Key(p)
    BY <1>b, <2>2 DEF Kept, Best
  <2>4. old \in All /\ ~HasHash(old)
    <3>1. old \in D /\ Key(old) = Key(p)
      BY <2>2, <2>3
    <3>2. HasHash(old) => HasHash(p)
      BY <3>1, KeysAgree
    <3> QED BY <3>1, <3>2
  <2>5. wins <=> ~AtMost(p, old)
    BY <2>4, WinsIs
  <2>6. c <=> Level(p) = 2 /\ Level(old) = 2
    BY <2>4, WinsIs
  <2>7. g \in Nat
    BY <1>3, TableFields DEF Partial
  <2>8. j \in Tables
    BY <2>7, MergedFields
  <2>9. j.syms = [l.syms EXCEPT ![g] = IF wins THEN p ELSE @]
    BY DEF Merged, Tables
  <2>10. j.own = With(l.own, p, g) /\ j.byName = l.byName /\ j.hashed = l.hashed /\ j.builtin = l.builtin /\ j.dup = l.dup
    BY DEF Merged, Tables
  <2> HIDE DEF j, wins, c, m
  <2>11. m.syms = j.syms /\ m.own = j.own /\ m.hashed = j.hashed /\ m.builtin = j.builtin /\ m.byName = j.byName
    BY <2>1, <2>8 DEF Tables
  <2>12. m.dup <=> j.dup \/ c
    BY <2>1, <2>8 DEF Tables
  <2>13. m.syms = [l.syms EXCEPT ![g] = IF AtMost(p, l.syms[g]) THEN @ ELSE p]
    BY <2>5, <2>9, <2>11
  <2>14. Joined(l, m, p, o, g)
    BY <2>2, <2>6, <2>10, <2>11, <2>12, <2>13 DEF Joined
  <2> HIDE DEF g, old, key
  <2>15. Keeps(l, m, D, p)
    BY <1>a, <1>b, <2>14, MergedKeeps
  <2>16. m.own[p] = g
    BY <2>10, <2>11 DEF With
  <2>17. NamesFound(m, D \cup {p})
    BY <1>3, <1>b, <2>10, <2>11, <2>15, <2>16, NamesJoin DEF g, key
  <2> QED BY <2>10, <2>11, <2>15, <2>17
<1> QED BY <1>1, <1>2, <1>3

\* Only what has a name for all is predeclared.
LEMMA BuiltinsAreNamed ==
  ASSUME NEW p, ~HasHash(p), NameKey(Sym(p)) \in Builtins
  PROVE  Named(p)
<1>1. NameKey(Sym(p))[1] = Sym(p).name /\ NameKey(Sym(p))[2] = Sym(p).abi
  BY DEF NameKey
<1>2. Sym(p).name # NoName /\ Sym(p).abi # "static"
  BY <1>1, BuiltinsAssumption
<1> QED BY <1>2 DEF Named, Static

\* ... which registerBuiltin sees to.
LEMMA RegisterBuiltinKeeps ==
  ASSUME NEW D \in SUBSET All, NEW l, NEW m \in Tables, NEW p \in All, ~HasHash(p), Definition(p), p \notin D,
         BuiltinsFound(l, D), Keeps(l, m, D, p), NamesFound(m, D \cup {p}), HashesFound(m, D \cup {p}), m.builtin = l.builtin
  PROVE  HasAll(RegisterBuiltin(m, objs, p), D \cup {p})
<1> DEFINE key == NameKey(Sym(p))
           r   == RegisterBuiltin(m, objs, p)
<1>a. Kept(m, D \cup {p}) /\ \A q \in D : m.own[q] = l.own[q]
  BY DEF Keeps
<1>b. /\ \A q \in D : Named(q) /\ Definition(q) /\ NameKey(Sym(q)) \in Builtins =>
           NameKey(Sym(q)) \in DOMAIN l.builtin /\ l.builtin[NameKey(Sym(q))] = l.own[q]
      /\ \A k \in DOMAIN l.builtin : \E q \in D : Named(q) /\ Definition(q) /\ NameKey(Sym(q)) = k /\ k \in Builtins
  BY DEF BuiltinsFound
<1>1. CASE key \notin Builtins
  <2>1. r = m
    BY <1>1 DEF RegisterBuiltin, Sym
  <2>2. BuiltinsFound(m, D \cup {p})
    BY <1>1, <1>a, <1>b DEF BuiltinsFound
  <2> QED BY <1>a, <2>1, <2>2 DEF HasAll
<1>2. CASE key \in Builtins
  <2>1. r = [m EXCEPT !.builtin = With(@, key, m.own[p])]
    BY <1>2 DEF RegisterBuiltin, Sym
  <2>2. Named(p)
    BY <1>2, BuiltinsAreNamed
  <2> HIDE DEF r
  <2>3. /\ r.syms = m.syms /\ r.own = m.own /\ r.byName = m.byName /\ r.hashed = m.hashed /\ r.dup = m.dup
        /\ r.builtin = With(m.builtin, key, m.own[p])
    BY <2>1 DEF Tables
  <2>4. Kept(r, D \cup {p}) /\ NamesFound(r, D \cup {p}) /\ HashesFound(r, D \cup {p})
    <3>1. Kept(r, D \cup {p})
      <4>1. Numbers(r, D \cup {p})
        BY <1>a, <2>3 DEF Kept, Numbers
      <4>2. OneEach(r, D \cup {p})
        BY <1>a, <2>3 DEF Kept, OneEach
      <4>3. Best(r, D \cup {p})
        BY <1>a, <2>3 DEF Kept, Best
      <4>4. Reported(r, D \cup {p})
        BY <1>a, <2>3 DEF Kept, Reported
      <4> QED BY <4>1, <4>2, <4>3, <4>4 DEF Kept
    <3>2. NamesFound(r, D \cup {p})
      BY <2>3 DEF NamesFound
    <3>3. HashesFound(r, D \cup {p})
      BY <2>3 DEF HashesFound
    <3> QED BY <3>1, <3>2, <3>3
  <2>5. DOMAIN r.builtin = {key} \cup DOMAIN l.builtin /\ r.builtin[key] = m.own[p]
    BY <2>3 DEF With
  <2>6. \A k \in DOMAIN l.builtin : k # key => r.builtin[k] = l.builtin[k]
    BY <2>3 DEF With
  <2>7. ASSUME NEW q \in D \cup {p}, Named(q), Definition(q), NameKey(Sym(q)) \in Builtins
        PROVE  NameKey(Sym(q)) \in DOMAIN r.builtin /\ r.builtin[NameKey(Sym(q))] = r.own[q]
    <3>1. CASE NameKey(Sym(q)) = key
      <4>1. Key(q) = Key(p)
        BY <2>2, <2>7, <3>1, KeysAgree
      <4>2. m.own[q] = m.own[p]
        BY <1>a, <4>1 DEF Kept, OneEach
      <4> QED BY <2>3, <2>5, <3>1, <4>2
    <3>2. CASE NameKey(Sym(q)) # key
      <4>1. q \in D
        BY <3>2
      <4>2. NameKey(Sym(q)) \in DOMAIN l.builtin /\ l.builtin[NameKey(Sym(q))] = l.own[q]
        BY <1>b, <2>7, <4>1
      <4>3. r.own[q] = l.own[q]
        BY <1>a, <2>3, <4>1
      <4>4. NameKey(Sym(q)) \in DOMAIN r.builtin /\ r.builtin[NameKey(Sym(q))] = l.builtin[NameKey(Sym(q))]
        <5> HIDE DEF key
        <5> QED BY <2>5, <2>6, <3>2, <4>2
      <4> QED BY <4>2, <4>3, <4>4
    <3> QED BY <3>1, <3>2
  <2>8. ASSUME NEW k \in DOMAIN r.builtin
        PROVE  \E q \in D \cup {p} : Named(q) /\ Definition(q) /\ NameKey(Sym(q)) = k /\ k \in Builtins
    BY <1>2, <1>b, <2>2, <2>5
  <2>9. BuiltinsFound(r, D \cup {p})
    BY <2>7, <2>8 DEF BuiltinsFound
  <2> QED BY <2>4, <2>9 DEF HasAll, r
<1> QED BY <1>1, <1>2

-----------------------------------------------------------------------------
(* A name that an object refers to *)

\* LookupOrCreate leads from table to table, ...
LEMMA LookupTyped ==
  ASSUME NEW l \in Tables, NEW p \in All
  PROVE  LookupOrCreate(l, Sym(p), p) \in Tables
<1> DEFINE key == NameKey(Sym(p))
           e   == Entered(l, p, NoDef)
<1>a. e \in Tables /\ Len(l.syms) + 1 \in Nat
  BY EnteredFields, TableFields
<1>b. key \in NameKeys
  BY DEF NameKeys
<1>1. CASE ~Static(Sym(p)) /\ key \in DOMAIN l.byName
  <2> DEFINE m == [l EXCEPT !.own = With(@, p, l.byName[key])]
  <2>1. LookupOrCreate(l, Sym(p), p) = m
    BY <1>1 DEF LookupOrCreate
  <2>2. l.byName[key] \in Nat
    BY <1>1, TableFields DEF Partial
  <2> HIDE DEF key
  <2>3. With(l.own, p, l.byName[key]) \in Partial(All, Nat)
    BY <2>2, TableFields, ExtendedType
  <2>4. m \in Tables
    BY <2>3 DEF Tables
  <2> QED BY <2>1, <2>4
<1>2. CASE Static(Sym(p))
  <2>1. LookupOrCreate(l, Sym(p), p) = e
    BY <1>2 DEF LookupOrCreate
  <2> QED BY <1>a, <2>1
<1>3. CASE ~Static(Sym(p)) /\ key \notin DOMAIN l.byName
  <2> DEFINE m == [e EXCEPT !.byName = With(@, key, Len(l.syms) + 1)]
  <2>1. LookupOrCreate(l, Sym(p), p) = m
    BY <1>3 DEF LookupOrCreate
  <2> HIDE DEF e, key
  <2>2. With(e.byName, key, Len(l.syms) + 1) \in Partial(NameKeys, Nat)
    BY <1>a, <1>b, TableFields, ExtendedType
  <2>3. m \in Tables
    BY <1>a, <2>2 DEF Tables
  <2> QED BY <2>1, <2>3
<1> QED BY <1>1, <1>2, <1>3

\* ... and adds the place that refers.
LEMMA LookupKeeps ==
  ASSUME WellMade, NEW l \in Tables, NEW D \in SUBSET All, HasAll(l, D), NEW p \in All, p \notin D, p[2] = "refs"
  PROVE  HasAll(LookupOrCreate(l, Sym(p), p), D \cup {p})
<1> DEFINE key == NameKey(Sym(p))
           e   == Entered(l, p, NoDef)
           m   == LookupOrCreate(l, Sym(p), p)
<1>a. Sizes
  BY SizesAreNumbers
<1>b. Kept(l, D) /\ NamesFound(l, D) /\ HashesFound(l, D) /\ BuiltinsFound(l, D)
  BY DEF HasAll
<1>c. /\ e \in Tables /\ e.syms = Append(l.syms, NoDef) /\ e.own = With(l.own, p, Len(l.syms) + 1)
      /\ e.byName = l.byName /\ e.hashed = l.hashed /\ e.builtin = l.builtin /\ e.dup = l.dup
  BY EnteredFields
<1>d. ~Definition(p) /\ ~HasHash(p)
  BY DEF Definition, HasHash
<1>e. Named(p) <=> ~Static(Sym(p))
  BY <1>d, ReferencesAreNames DEF Named
<1> SUFFICES Keeps(l, m, D, p) /\ NamesFound(m, D \cup {p}) /\ m.hashed = l.hashed /\ m.builtin = l.builtin
  <2>1. HashesFound(m, D \cup {p})
    BY <1>b, <1>d, HashesStay
  <2>2. BuiltinsFound(m, D \cup {p})
    <3>1. \A q \in D : m.own[q] = l.own[q]
      BY DEF Keeps
    <3> QED BY <1>b, <1>d, <3>1 DEF BuiltinsFound
  <2> QED BY <2>1, <2>2 DEF HasAll, Keeps
<1>1. CASE ~Static(Sym(p)) /\ key \in DOMAIN l.byName
  <2>1. m = [l EXCEPT !.own = With(@, p, l.byName[key])]
    BY <1>1 DEF LookupOrCreate
  <2> HIDE DEF m
  <2>2. /\ m.syms = l.syms /\ m.byName = l.byName /\ m.hashed = l.hashed /\ m.builtin = l.builtin /\ m.dup = l.dup
        /\ m.own = With(l.own, p, l.byName[key])
    BY <2>1 DEF Tables
  <2>3. PICK o \in D : Key(o) = Key(p) /\ l.byName[key] = l.own[o]
    BY <1>1, <1>b, <1>e, NamesFind
  <2>4. Referred(l, m, p, o)
    BY <1>d, <2>2, <2>3 DEF Referred
  <2>5. Keeps(l, m, D, p)
    BY <1>b, <2>4, FoundKeeps
  <2>6. m.own[p] = l.byName[key]
    BY <2>2 DEF With
  <2>7. NamesFound(m, D \cup {p})
    BY <1>1, <1>b, <2>2, <2>5, <2>6, NamesJoin
  <2> QED BY <2>2, <2>5, <2>7
<1>2. CASE Static(Sym(p))
  <2>1. m = e
    BY <1>2 DEF LookupOrCreate
  <2> HIDE DEF e, m
  <2>2. Apart(l, m, p)
    BY <1>c, <1>d, <2>1 DEF Apart
  <2>3. \A q \in D : Key(q) # Key(p)
    BY <1>2, <1>d, <1>e, KeysAgree
  <2>4. Keeps(l, m, D, p)
    BY <1>a, <1>b, <2>2, <2>3, FreshKeeps
  <2>5. NamesFound(m, D \cup {p})
    BY <1>2, <1>b, <1>c, <1>e, <2>1, <2>4, NamesStay
  <2> QED BY <1>c, <2>1, <2>4, <2>5
<1>3. CASE ~Static(Sym(p)) /\ key \notin DOMAIN l.byName
  <2>1. m = [e EXCEPT !.byName = With(@, key, Len(l.syms) + 1)]
    BY <1>3 DEF LookupOrCreate
  <2> HIDE DEF e, m, key
  <2>2. /\ m.syms = e.syms /\ m.own = e.own /\ m.hashed = e.hashed /\ m.builtin = e.builtin /\ m.dup = e.dup
        /\ m.byName = With(e.byName, key, Len(l.syms) + 1)
    BY <1>c, <2>1 DEF Tables
  <2>3. Apart(l, m, p)
    BY <1>c, <1>d, <2>2 DEF Apart
  <2>4. \A q \in D : Named(q) => NameKey(Sym(q)) # key
    BY <1>3, <1>b DEF NamesFound
  <2>5. \A q \in D : Key(q) # Key(p)
    BY <1>3, <1>e, <2>4, KeysAgree DEF key
  <2>6. Keeps(l, m, D, p)
    BY <1>a, <1>b, <2>3, <2>5, FreshKeeps
  <2>7. m.own[p] = Len(l.syms) + 1
    BY <1>c, <2>2 DEF With
  <2>8. m.byName = With(l.byName, NameKey(Sym(p)), m.own[p])
    BY <1>c, <2>2, <2>7 DEF key
  <2>9. NamesFound(m, D \cup {p})
    BY <1>3, <1>b, <1>e, <2>4, <2>6, <2>8, NamesGrow DEF key
  <2> QED BY <1>c, <2>2, <2>6, <2>9
<1> QED BY <1>1, <1>2, <1>3

-----------------------------------------------------------------------------
(* Folds from the left *)

\* The first i numbers without the last.
LEMMA UpToLast ==
  ASSUME NEW i \in Nat \ {0}
  PROVE  Max(1 .. i) = i /\ (1 .. i) \ {i} = 1 .. i - 1 /\ 1 .. i # {}
<1>1. i \in 1 .. i /\ \A k \in 1 .. i : i >= k
  OBVIOUS
<1>2. \A k \in 1 .. i : (\A j \in 1 .. i : k >= j) => k = i
  OBVIOUS
<1>3. Max(1 .. i) = i
  BY <1>1, <1>2 DEF Max
<1>4. (1 .. i) \ {i} \subseteq 1 .. i - 1 /\ 1 .. i - 1 \subseteq (1 .. i) \ {i}
  OBVIOUS
<1>5. (1 .. i) \ {i} = 1 .. i - 1
  BY <1>4
<1>6. 1 .. i # {}
  BY <1>1
<1> QED BY <1>3, <1>5, <1>6

\* Step i of a fold from base is g[i]: it leads from V to V, and from T[i - 1] to T[i].
LeftFolds(len, V, base, g, T) == /\ len \in Nat /\ base \in T[0]
                                 /\ \A i \in 0 .. len : T[i] \subseteq V
                                 /\ \A i \in 1 .. len : \A v \in V : g[i][v] \in V
                                 /\ \A i \in 1 .. len : \A v \in T[i - 1] : g[i][v] \in T[i]

\* it is what such a fold makes of the numbers in s, for values of V.
LeftFoldOf(it, len, V, base, g) ==
  \A s \in SUBSET (1 .. len) :
    /\ s = {} => it[s] = base
    /\ s # {} /\ it[s \ {Max(s)}] \in V => it[s] = g[Max(s)][it[s \ {Max(s)}]]

\* There is such a fold, and it leads from T[0] to T[len].
LEMMA LeftFold ==
  ASSUME NEW len, NEW V, NEW base, NEW g, NEW T, LeftFolds(len, V, base, g, T)
  PROVE  /\ \E h \in [SUBSET (1 .. len) -> V] : LeftFoldOf(h, len, V, base, g)
         /\ \A it : LeftFoldOf(it, len, V, base, g) => it[1 .. len] \in T[len]
<1> DEFINE U == 1 .. len
<1>a. len \in Nat /\ base \in T[0] /\ \A i \in 0 .. len : T[i] \subseteq V
  BY DEF LeftFolds
<1>b. \A i \in 1 .. len : \A v \in V : g[i][v] \in V
  BY DEF LeftFolds
<1>c. \A i \in 1 .. len : \A v \in T[i - 1] : g[i][v] \in T[i]
  BY DEF LeftFolds
<1>1. \E h \in [SUBSET U -> V] : LeftFoldOf(h, len, V, base, g)
  <2> DEFINE c == [s \in SUBSET U |-> Max(s)]
             f == [s \in SUBSET U |-> g[Max(s)]]
  <2>1. \A s \in SUBSET U : s # {} => c[s] \in s
    <3> TAKE s \in SUBSET U
    <3> HAVE s # {}
    <3>1. s \subseteq 0 .. len
      BY <1>a
    <3>2. Max(s) \in s
      BY <1>a, <3>1, MaxFacts
    <3> QED BY <3>2
  <2>2. base \in V
    BY <1>a
  <2> DEFINE e == [s \in SUBSET U |-> IF s = {} THEN [v \in V |-> v] ELSE g[Max(s)]]
  <2>3. \A s \in SUBSET U, v \in V : e[s][v] \in V
    BY <1>b, <2>1
  <2>4. IsFiniteSet(U)
    BY <1>a, FS_Interval
  <2>5. \A s \in SUBSET U : s # {} => c[s] = Max(s) /\ e[s] = g[Max(s)]
    OBVIOUS
  <2> HIDE DEF c, e
  <2>6. Folds(U, V, base, c, e)
    BY <2>1, <2>2, <2>3, <2>4 DEF Folds
  <2>7. PICK h : FoldOf(h, U, V, base, c, e)
    BY <2>6, FoldExists
  <2>8. h \in [SUBSET U -> V] /\ \A s \in SUBSET U : h[s] = IF s = {} THEN base ELSE e[s][h[s \ {c[s]}]]
    BY <2>7 DEF FoldOf
  <2>9. LeftFoldOf(h, len, V, base, g)
    BY <2>5, <2>8 DEF LeftFoldOf
  <2> QED BY <2>8, <2>9
<1>2. ASSUME NEW it, LeftFoldOf(it, len, V, base, g) PROVE it[1 .. len] \in T[len]
  <2> DEFINE P == {i \in Nat : i <= len => it[1 .. i] \in T[i]}
  <2>1. 0 \in P
    <3>1. 1 .. 0 = {} /\ {} \in SUBSET (1 .. len)
      OBVIOUS
    <3>2. it[{}] = base
      BY <1>2, <3>1 DEF LeftFoldOf
    <3> QED BY <1>a, <3>1, <3>2
  <2>2. ASSUME NEW i \in Nat, i \in P PROVE i + 1 \in P
    <3> SUFFICES ASSUME i + 1 <= len PROVE it[1 .. i + 1] \in T[i + 1]
      OBVIOUS
    <3> DEFINE s == 1 .. i + 1
    <3>a. i + 1 \in Nat \ {0} /\ (i + 1) - 1 = i
      OBVIOUS
    <3>b. i + 1 \in 1 .. len /\ i \in 0 .. len /\ i <= len
      BY <1>a
    <3>0. i + 1 \in Nat \ {0} /\ (i + 1) - 1 = i /\ i + 1 \in 1 .. len /\ i \in 0 .. len /\ i <= len
      BY <3>a, <3>b
    <3>1. s # {} /\ Max(s) = i + 1 /\ s \ {i + 1} = 1 .. (i + 1) - 1
      BY <3>0, UpToLast
    <3>2. s \in SUBSET (1 .. len)
      BY <1>a
    <3>3. it[1 .. i] \in T[i] /\ it[1 .. i] \in V
      BY <1>a, <2>2, <3>0
    <3> HIDE DEF s
    <3>4. s \ {Max(s)} = 1 .. i
      BY <3>0, <3>1
    <3>5. it[s] = g[i + 1][it[1 .. i]]
      BY <1>2, <3>1, <3>2, <3>3, <3>4 DEF LeftFoldOf
    <3>6. T[(i + 1) - 1] = T[i]
      BY <3>0
    <3>7. g[i + 1][it[1 .. i]] \in T[i + 1]
      BY <1>c, <3>0, <3>3, <3>6
    <3> QED BY <3>5, <3>7 DEF s
  <2> HIDE DEF P
  <2>3. \A i \in Nat : i \in P
    BY <2>1, <2>2, NumberInduction
  <2> QED BY <1>a, <2>3 DEF P
<1> QED BY <1>1, <1>2

\* The last of some of the first numbers.
LEMMA LastOf ==
  ASSUME NEW len \in Nat
  PROVE  \A s \in SUBSET (1 .. len) : s # {} => Max(s) \in s /\ Max(s) \in 1 .. len
<1> TAKE s \in SUBSET (1 .. len)
<1> HAVE s # {}
<1>1. s \subseteq 0 .. len
  OBVIOUS
<1>2. Max(s) \in s
  BY <1>1, MaxFacts
<1> QED BY <1>2

\* It needs no more than that its steps stay in V, ...
LEMMA LeftFoldExists ==
  ASSUME NEW len \in Nat, NEW V, NEW base \in V, NEW g, \A i \in 1 .. len : \A v \in V : g[i][v] \in V
  PROVE  \E h \in [SUBSET (1 .. len) -> V] : LeftFoldOf(h, len, V, base, g)
<1> DEFINE T == [i \in 0 .. len |-> V]
<1>1. \A i \in 0 .. len : T[i] = V
  OBVIOUS
<1>2. \A i \in 1 .. len : i - 1 \in 0 .. len /\ i \in 0 .. len
  OBVIOUS
<1>3. 0 \in 0 .. len
  OBVIOUS
<1> HIDE DEF T
<1>4. LeftFolds(len, V, base, g, T)
  BY <1>1, <1>2, <1>3 DEF LeftFolds
<1> QED BY <1>4, LeftFold

\* ... and does then itself.
LEMMA LeftFoldTyped ==
  ASSUME NEW len \in Nat, NEW V, NEW base \in V, NEW g, \A i \in 1 .. len : \A v \in V : g[i][v] \in V,
         NEW it, LeftFoldOf(it, len, V, base, g)
  PROVE  it[1 .. len] \in V
<1> DEFINE T == [i \in 0 .. len |-> V]
<1>1. \A i \in 0 .. len : T[i] = V
  OBVIOUS
<1>2. \A i \in 1 .. len : i - 1 \in 0 .. len /\ i \in 0 .. len
  OBVIOUS
<1>3. 0 \in 0 .. len /\ len \in 0 .. len
  OBVIOUS
<1> HIDE DEF T
<1>4. LeftFolds(len, V, base, g, T)
  BY <1>1, <1>2, <1>3 DEF LeftFolds
<1>5. it[1 .. len] \in T[len]
  BY <1>4, LeftFold
<1> QED BY <1>1, <1>3, <1>5

-----------------------------------------------------------------------------
(* The definitions of one space of an object *)

\* What is done with one of them.
Preloaded(l, p) == IF p[2] \in {"defs", "nonpkg"} THEN RegisterBuiltin(AddNamed(l, objs, p), objs, p)
                                                  ELSE AddHashed(l, objs, p)

\* It leads from table to table, ...
LEMMA PreloadedTyped ==
  ASSUME NEW l \in Tables, NEW p \in All
  PROVE  Preloaded(l, p) \in Tables
<1>1. AddHashed(l, objs, p) \in Tables
  BY AddHashedTyped
<1>2. AddNamed(l, objs, p) \in Tables /\ AddNamed(l, objs, p).own[p] \in Nat
  BY AddNamedTyped, AddNamedOwns
<1> DEFINE m == AddNamed(l, objs, p)
<1>3. m \in Tables /\ m.own[p] \in Nat
  BY <1>2
<1> HIDE DEF m
<1>4. RegisterBuiltin(m, objs, p) \in Tables
  BY <1>3, RegisterBuiltinTyped
<1> QED BY <1>1, <1>4 DEF Preloaded, m

\* ... and adds its place.
LEMMA PreloadedKeeps ==
  ASSUME WellMade, NEW l \in Tables, NEW D \in SUBSET All, \A q \in D : Definition(q), HasAll(l, D),
         NEW p \in All, p \notin D, Definition(p), p[2] = "defs" => \A q \in D : q[2] = "defs"
  PROVE  HasAll(Preloaded(l, p), D \cup {p})
<1>1. CASE HasHash(p)
  <2>1. p[2] \notin {"defs", "nonpkg"}
    BY <1>1 DEF HasHash
  <2>2. HasAll(AddHashed(l, objs, p), D \cup {p})
    BY <1>1, AddHashedKeeps
  <2> QED BY <2>1, <2>2 DEF Preloaded
<1>2. CASE ~HasHash(p)
  <2>1. p[2] \in {"defs", "nonpkg"}
    BY <1>2, SpacesAreFive DEF Spaces, HasHash, Definition
  <2> DEFINE m == AddNamed(l, objs, p)
  <2>2. Keeps(l, m, D, p) /\ NamesFound(m, D \cup {p}) /\ HashesFound(m, D \cup {p}) /\ m.builtin = l.builtin
    BY <1>2, AddNamedKeeps
  <2>3. m \in Tables
    BY AddNamedTyped
  <2>4. BuiltinsFound(l, D)
    BY DEF HasAll
  <2> HIDE DEF m
  <2>5. HasAll(RegisterBuiltin(m, objs, p), D \cup {p})
    BY <1>2, <2>2, <2>3, <2>4, RegisterBuiltinKeeps
  <2> QED BY <2>1, <2>5 DEF Preloaded, m
<1> QED BY <1>1, <1>2

PlacesIn(k, space) == {<<k, space, i>> : i \in DOMAIN objs[k][space]}

\* The objects are lists of symbols.
LEMMA ObjectsAreLists ==
  ASSUME WellMade
  PROVE  IsList(objs) /\ \A k \in DOMAIN objs, space \in Spaces : IsList(objs[k][space])
BY DEF WellMade, Checked

\* Preload is a fold of this over the indices.
LEMMA PreloadFolds ==
  ASSUME WellMade, NEW l \in Tables, NEW k \in DOMAIN objs, NEW space \in Spaces
  PROVE  LET g == [i \in 1 .. Len(objs[k][space]) |-> [v \in Tables |-> Preloaded(v, <<k, space, i>>)]]
         IN  \E it : LeftFoldOf(it, Len(objs[k][space]), Tables, l, g) /\ Preload(l, objs, k, space) = it[1 .. Len(objs[k][space])]
<1> DEFINE len == Len(objs[k][space])
           g == [i \in 1 .. len |-> [v \in Tables |-> Preloaded(v, <<k, space, i>>)]]
           Add(v, i) == Preloaded(v, <<k, space, i>>)
           seq == [i \in DOMAIN objs[k][space] |-> i]
           it == CHOOSE it : it = [s \in SUBSET DOMAIN seq |->
                    IF s = {} THEN l ELSE Add(it[s \ {Max(s)}], seq[Max(s)])]
<1>1. Preload(l, objs, k, space) = it[DOMAIN seq]
  BY DEF Preload, Preloaded, FoldLeft, MapThenFoldSet
<1>2. len \in Nat /\ DOMAIN seq = 1 .. len
  BY ObjectsAreLists DEF IsList
<1>3. \A i \in 1 .. len : \A v \in Tables : g[i][v] = Add(v, seq[i])
  BY <1>2
<1>4. \A i \in 1 .. len : \A v \in Tables : Add(v, seq[i]) \in Tables
  BY <1>2, PreloadedTyped DEF All, Places
<1> HIDE DEF seq, Add, g, len
<1>5. \A i \in 1 .. len : \A v \in Tables : g[i][v] \in Tables
  BY <1>3, <1>4
<1>6. PICK h \in [SUBSET (1 .. len) -> Tables] : LeftFoldOf(h, len, Tables, l, g)
  BY <1>2, <1>5, LeftFoldExists
<1>7. \A s \in SUBSET (1 .. len) : s # {} => Max(s) \in 1 .. len
  BY <1>2, LastOf
<1>8. \A s \in SUBSET (1 .. len) : s # {} => \A v \in Tables : g[Max(s)][v] = Add(v, seq[Max(s)])
  BY <1>3, <1>7
<1>9. \A s \in SUBSET (1 .. len) : h[s] = IF s = {} THEN l ELSE Add(h[s \ {Max(s)}], seq[Max(s)])
  <2> TAKE s \in SUBSET (1 .. len)
  <2>1. h[s \ {Max(s)}] \in Tables
    BY <1>6
  <2> QED BY <1>6, <1>8, <2>1 DEF LeftFoldOf
<1>10. h = [s \in SUBSET DOMAIN seq |-> IF s = {} THEN l ELSE Add(h[s \ {Max(s)}], seq[Max(s)])]
  BY <1>2, <1>6, <1>9
<1>11. it = [s \in SUBSET DOMAIN seq |-> IF s = {} THEN l ELSE Add(it[s \ {Max(s)}], seq[Max(s)])]
  BY <1>10
<1> HIDE DEF it
<1>12. LeftFoldOf(it, len, Tables, l, g)
  <2>1. \A s \in SUBSET (1 .. len) : it[s] = IF s = {} THEN l ELSE Add(it[s \ {Max(s)}], seq[Max(s)])
    BY <1>2, <1>11
  <2>2. ASSUME NEW s \in SUBSET (1 .. len), s # {}, it[s \ {Max(s)}] \in Tables
        PROVE  it[s] = g[Max(s)][it[s \ {Max(s)}]]
    <3>1. g[Max(s)][it[s \ {Max(s)}]] = Add(it[s \ {Max(s)}], seq[Max(s)])
      BY <1>8, <2>2
    <3> QED BY <2>1, <2>2, <3>1
  <2>3. it[{}] = l
    BY <2>1
  <2> QED BY <2>2, <2>3 DEF LeftFoldOf
<1> QED BY <1>1, <1>2, <1>12 DEF len, g

\* Places of one space are places.
LEMMA PlacesAreIn ==
  ASSUME NEW k \in DOMAIN objs, NEW space \in Spaces
  PROVE  PlacesIn(k, space) \subseteq All
BY DEF PlacesIn, All, Places

\* Preload leads from table to table, ...
LEMMA PreloadTyped ==
  ASSUME WellMade, NEW l \in Tables, NEW k \in DOMAIN objs, NEW space \in Spaces
  PROVE  Preload(l, objs, k, space) \in Tables
<1> DEFINE len == Len(objs[k][space])
           g == [i \in 1 .. len |-> [v \in Tables |-> Preloaded(v, <<k, space, i>>)]]
           T == [i \in 0 .. len |-> Tables]
<1>1. IsList(objs[k][space])
  BY ObjectsAreLists
<1>2. PICK it : LeftFoldOf(it, len, Tables, l, g) /\ Preload(l, objs, k, space) = it[1 .. len]
  BY PreloadFolds
<1>3. len \in Nat /\ \A i \in 1 .. len : <<k, space, i>> \in All
  BY <1>1 DEF IsList, All, Places
<1>4. \A i \in 1 .. len : \A v \in Tables : g[i][v] \in Tables
  BY <1>3, PreloadedTyped
<1> HIDE DEF g, len
<1>5. LeftFolds(len, Tables, l, g, T)
  <2>1. \A i \in 1 .. len : i - 1 \in 0 .. len /\ i \in 0 .. len
    BY <1>3
  <2>2. 0 \in 0 .. len /\ len \in 0 .. len
    BY <1>3
  <2> QED BY <1>3, <1>4, <2>1, <2>2 DEF LeftFolds
<1>6. T[len] = Tables
  BY <1>3
<1> HIDE DEF T
<1>7. it[1 .. len] \in T[len]
  BY <1>2, <1>5, LeftFold
<1> QED BY <1>2, <1>6, <1>7

\* ... and adds the definitions of the space.
LEMMA PreloadKeeps ==
  ASSUME WellMade, NEW l \in Tables, NEW D \in SUBSET All, \A q \in D : Definition(q), HasAll(l, D),
         NEW k \in DOMAIN objs, NEW space \in Spaces \ {"refs"}, D \cap PlacesIn(k, space) = {},
         space = "defs" => \A q \in D : q[2] = "defs"
  PROVE  HasAll(Preload(l, objs, k, space), D \cup PlacesIn(k, space))
<1> DEFINE len == Len(objs[k][space])
           g == [i \in 1 .. len |-> [v \in Tables |-> Preloaded(v, <<k, space, i>>)]]
           Dto(i) == D \cup {<<k, space, j>> : j \in 1 .. i}
           T == [i \in 0 .. len |-> {v \in Tables : HasAll(v, Dto(i))}]
<1>1. IsList(objs[k][space])
  BY ObjectsAreLists
<1>2. PICK it : LeftFoldOf(it, len, Tables, l, g) /\ Preload(l, objs, k, space) = it[1 .. len]
  BY PreloadFolds
<1>3. len \in Nat /\ (\A i \in 1 .. len : <<k, space, i>> \in All) /\ PlacesIn(k, space) = {<<k, space, j>> : j \in 1 .. len}
  BY <1>1 DEF IsList, All, Places, PlacesIn
<1>4. \A i \in 1 .. len : \A v \in Tables : g[i][v] = Preloaded(v, <<k, space, i>>)
  OBVIOUS
<1> HIDE DEF g, len
<1>5. \A i \in 1 .. len : \A v \in Tables : g[i][v] \in Tables
  BY <1>3, <1>4, PreloadedTyped
<1>6. ASSUME NEW i \in 1 .. len, NEW v \in Tables, HasAll(v, Dto(i - 1)) PROVE HasAll(g[i][v], Dto(i))
  <2> DEFINE p == <<k, space, i>>
  <2>1. Dto(i) = Dto(i - 1) \cup {p}
    <3>1. 1 .. i = (1 .. i - 1) \cup {i}
      BY <1>3
    <3> QED BY <3>1
  <2>2. p \in All /\ Definition(p) /\ p[2] = space
    BY <1>3 DEF Definition
  <2>3. p \notin Dto(i - 1)
    <3>1. p \notin D
      BY <1>3
    <3>2. \A j \in 1 .. i - 1 : <<k, space, j>> # <<k, space, i>>
      <4>1. \A j \in 1 .. i - 1 : j # i
        BY <1>3
      <4> QED BY <4>1
    <3> QED BY <3>1, <3>2
  <2>4. Dto(i - 1) \in SUBSET All
    <3>1. \A j \in 1 .. i - 1 : j \in 1 .. len
      BY <1>3
    <3> QED BY <1>3, <3>1
  <2>5. \A q \in Dto(i - 1) : Definition(q) /\ (space = "defs" => q[2] = "defs")
    BY DEF Definition
  <2> DEFINE E == Dto(i - 1)
  <2>6. /\ E \in SUBSET All /\ p \notin E /\ HasAll(v, E)
        /\ \A q \in E : Definition(q) /\ (space = "defs" => q[2] = "defs")
    BY <1>6, <2>3, <2>4, <2>5
  <2> HIDE DEF Dto, E, p
  <2>7. HasAll(Preloaded(v, p), E \cup {p})
    BY <2>2, <2>6, PreloadedKeeps
  <2> QED BY <1>4, <2>1, <2>7 DEF E, p
<1>7. Dto(0) = D /\ Dto(len) = D \cup PlacesIn(k, space)
  <2>1. 1 .. 0 = {}
    OBVIOUS
  <2> QED BY <1>3, <2>1
<1> HIDE DEF Dto
<1>8. LeftFolds(len, Tables, l, g, T)
  <2>1. \A i \in 1 .. len : i - 1 \in 0 .. len /\ i \in 0 .. len
    BY <1>3
  <2>2. 0 \in 0 .. len
    BY <1>3
  <2>3. l \in T[0]
    BY <1>7, <2>2
  <2>4. \A i \in 1 .. len : \A v \in T[i - 1] : g[i][v] \in T[i]
    BY <1>5, <1>6, <2>1
  <2>5. \A i \in 0 .. len : T[i] \subseteq Tables
    OBVIOUS
  <2> HIDE DEF T
  <2> QED BY <1>3, <1>5, <2>3, <2>4, <2>5 DEF LeftFolds
<1>9. len \in 0 .. len
  BY <1>3
<1>10. \A v \in T[len] : HasAll(v, Dto(len))
  BY <1>9
<1> HIDE DEF T
<1>11. it[1 .. len] \in T[len]
  BY <1>2, <1>8, LeftFold
<1> QED BY <1>2, <1>7, <1>10, <1>11

-----------------------------------------------------------------------------
(* The objects in an order *)

\* The places of some spaces of some objects.
In(K, R) == {p \in All : p[1] \in K /\ p[2] \in R}

\* Those of one space of one object.
LEMMA PlacesInAre ==
  ASSUME NEW k \in DOMAIN objs, NEW space \in Spaces
  PROVE  PlacesIn(k, space) = In({k}, {space})
BY DEF PlacesIn, In, All, Places

\* What a place is.
LEMMA PlacesOfSpaces ==
  \A p \in All : p[1] \in DOMAIN objs /\ p[2] \in Spaces /\ p = <<p[1], p[2], p[3]>>
BY DEF All, Places

\* An order has every object once.
LEMMA OrdersAre ==
  ASSUME WellMade, NEW order \in Orders
  PROVE  /\ Len(objs) \in Nat /\ DOMAIN order = 1 .. Len(objs) /\ DOMAIN objs = 1 .. Len(objs)
         /\ \A i \in 1 .. Len(objs) : order[i] \in DOMAIN objs
         /\ \A i, j \in 1 .. Len(objs) : order[i] = order[j] => i = j
         /\ \A k \in DOMAIN objs : \E i \in 1 .. Len(objs) : order[i] = k
<1>1. Len(objs) \in Nat /\ DOMAIN objs = 1 .. Len(objs)
  BY ObjectsAreLists DEF IsList
<1>2. order \in [DOMAIN objs -> DOMAIN objs] /\ IsInjective(order)
  BY DEF Orders
<1>3. \A a, b \in DOMAIN objs : order[a] = order[b] => a = b
  BY <1>2 DEF IsInjective
<1>4. IsFiniteSet(DOMAIN objs)
  BY <1>1, FS_Interval
<1>5. \A k \in DOMAIN objs : \E i \in DOMAIN objs : order[i] = k
  <2>1. order \in Injection(DOMAIN objs, DOMAIN objs)
    BY <1>2 DEF Injection
  <2>2. order \in Surjection(DOMAIN objs, DOMAIN objs)
    BY <1>4, <2>1, FS_Injection
  <2> QED BY <2>2 DEF Surjection
<1> QED BY <1>1, <1>2, <1>3, <1>5

\* All that is not of a package, ...
Others == {"hashed64", "hashed", "nonpkg"}

\* Its table.
LEMMA PreloadRestTyped ==
  ASSUME WellMade, NEW l \in Tables, NEW k \in DOMAIN objs
  PROVE  PreloadRest(l, objs, k) \in Tables
<1>1. {"hashed64", "hashed", "nonpkg"} \subseteq Spaces
  BY DEF Spaces
<1>2. Preload(l, objs, k, "hashed64") \in Tables
  BY <1>1, PreloadTyped
<1>3. Preload(Preload(l, objs, k, "hashed64"), objs, k, "hashed") \in Tables
  BY <1>1, <1>2, PreloadTyped
<1> QED BY <1>1, <1>3, PreloadTyped DEF PreloadRest

\* ... and the names that it refers to.
LEMMA ReferTyped ==
  ASSUME NEW l \in Tables, NEW k \in DOMAIN objs, NEW i \in DOMAIN objs[k].refs
  PROVE  LookupOrCreate(l, objs[k].refs[i], <<k, "refs", i>>) \in Tables
<1>1. <<k, "refs", i>> \in All /\ Sym(<<k, "refs", i>>) = objs[k].refs[i]
  BY DEF All, Places, Spaces, Sym, Symbol
<1> QED BY <1>1, LookupTyped

\* LoadRefs is a fold over the names that an object refers to, ...
LEMMA LoadRefsFolds ==
  ASSUME WellMade, NEW l \in Tables, NEW k \in DOMAIN objs
  PROVE  LET g == [i \in 1 .. Len(objs[k].refs) |-> [v \in Tables |-> LookupOrCreate(v, objs[k].refs[i], <<k, "refs", i>>)]]
         IN  \E it : LeftFoldOf(it, Len(objs[k].refs), Tables, l, g) /\ LoadRefs(l, objs, k) = it[1 .. Len(objs[k].refs)]
<1> DEFINE len == Len(objs[k].refs)
           g == [i \in 1 .. len |-> [v \in Tables |-> LookupOrCreate(v, objs[k].refs[i], <<k, "refs", i>>)]]
           Add(v, i) == LookupOrCreate(v, objs[k].refs[i], <<k, "refs", i>>)
           seq == [i \in DOMAIN objs[k].refs |-> i]
           it == CHOOSE it : it = [s \in SUBSET DOMAIN seq |->
                    IF s = {} THEN l ELSE Add(it[s \ {Max(s)}], seq[Max(s)])]
<1>1. LoadRefs(l, objs, k) = it[DOMAIN seq]
  BY DEF LoadRefs, FoldLeft, MapThenFoldSet
<1>2. len \in Nat /\ DOMAIN seq = 1 .. len
  BY ObjectsAreLists DEF IsList, Spaces
<1>3. \A i \in 1 .. len : \A v \in Tables : g[i][v] = Add(v, seq[i])
  BY <1>2
<1>4. \A i \in 1 .. len : \A v \in Tables : Add(v, seq[i]) \in Tables
  BY <1>2, ReferTyped
<1> HIDE DEF seq, Add, g, len
<1>5. \A i \in 1 .. len : \A v \in Tables : g[i][v] \in Tables
  BY <1>3, <1>4
<1>6. PICK h \in [SUBSET (1 .. len) -> Tables] : LeftFoldOf(h, len, Tables, l, g)
  BY <1>2, <1>5, LeftFoldExists
<1>7. \A s \in SUBSET (1 .. len) : s # {} => Max(s) \in 1 .. len
  BY <1>2, LastOf
<1>8. \A s \in SUBSET (1 .. len) : s # {} => \A v \in Tables : g[Max(s)][v] = Add(v, seq[Max(s)])
  BY <1>3, <1>7
<1>9. \A s \in SUBSET (1 .. len) : h[s] = IF s = {} THEN l ELSE Add(h[s \ {Max(s)}], seq[Max(s)])
  <2> TAKE s \in SUBSET (1 .. len)
  <2>1. h[s \ {Max(s)}] \in Tables
    BY <1>6
  <2> QED BY <1>6, <1>8, <2>1 DEF LeftFoldOf
<1>10. h = [s \in SUBSET DOMAIN seq |-> IF s = {} THEN l ELSE Add(h[s \ {Max(s)}], seq[Max(s)])]
  BY <1>2, <1>6, <1>9
<1>11. it = [s \in SUBSET DOMAIN seq |-> IF s = {} THEN l ELSE Add(it[s \ {Max(s)}], seq[Max(s)])]
  BY <1>10
<1> HIDE DEF it
<1>12. LeftFoldOf(it, len, Tables, l, g)
  <2>1. \A s \in SUBSET (1 .. len) : it[s] = IF s = {} THEN l ELSE Add(it[s \ {Max(s)}], seq[Max(s)])
    BY <1>2, <1>11
  <2>2. ASSUME NEW s \in SUBSET (1 .. len), s # {}, it[s \ {Max(s)}] \in Tables
        PROVE  it[s] = g[Max(s)][it[s \ {Max(s)}]]
    <3>1. g[Max(s)][it[s \ {Max(s)}]] = Add(it[s \ {Max(s)}], seq[Max(s)])
      BY <1>8, <2>2
    <3> QED BY <2>1, <2>2, <3>1
  <2>3. it[{}] = l
    BY <2>1
  <2> QED BY <2>2, <2>3 DEF LeftFoldOf
<1> QED BY <1>1, <1>2, <1>12 DEF len, g

\* ... from table to table.
LEMMA LoadRefsTyped ==
  ASSUME WellMade, NEW l \in Tables, NEW k \in DOMAIN objs
  PROVE  LoadRefs(l, objs, k) \in Tables
<1> DEFINE len == Len(objs[k].refs)
           g == [i \in 1 .. len |-> [v \in Tables |-> LookupOrCreate(v, objs[k].refs[i], <<k, "refs", i>>)]]
<1>1. len \in Nat /\ DOMAIN objs[k].refs = 1 .. len
  BY ObjectsAreLists DEF IsList, Spaces
<1>2. PICK it : LeftFoldOf(it, len, Tables, l, g) /\ LoadRefs(l, objs, k) = it[1 .. len]
  BY LoadRefsFolds
<1>3. \A i \in 1 .. len : \A v \in Tables : g[i][v] \in Tables
  BY <1>1, ReferTyped
<1> HIDE DEF g, len
<1>4. it[1 .. len] \in Tables
  BY <1>1, <1>2, <1>3, LeftFoldTyped
<1> QED BY <1>2, <1>4

-----------------------------------------------------------------------------
(* All the objects *)

DefsInOrder(l, order) == FoldLeft(LAMBDA m, k : Preload(m, objs, k, "defs"), l, order)
RestInOrder(l, order) == FoldLeft(LAMBDA m, k : PreloadRest(m, objs, k), l, order)
RefsInOrder(l, order) == FoldLeft(LAMBDA m, k : LoadRefs(m, objs, k), l, order)

\* LoadAll is the three passes over the objects.
LEMMA LoadAllInOrder ==
  ASSUME NEW order
  PROVE  LET l == RefsInOrder(RestInOrder(DefsInOrder(EmptyTable, order), order), order)
         IN  LoadAll(objs, order) = [l EXCEPT !.inIface = InIface(l, objs, order)]
BY DEF LoadAll, Definitions, DefsInOrder, RestInOrder, RefsInOrder

\* Each pass is a fold over the order: of the definitions of the packages, ...
LEMMA DefsInOrderFolds ==
  ASSUME WellMade, NEW l \in Tables, NEW order \in Orders
  PROVE  LET g == [i \in 1 .. Len(objs) |-> [v \in Tables |-> Preload(v, objs, order[i], "defs")]]
         IN  \E it : LeftFoldOf(it, Len(objs), Tables, l, g) /\ DefsInOrder(l, order) = it[1 .. Len(objs)]
<1> DEFINE len == Len(objs)
           g == [i \in 1 .. len |-> [v \in Tables |-> Preload(v, objs, order[i], "defs")]]
           Add(v, k) == Preload(v, objs, k, "defs")
           seq == order
           it == CHOOSE it : it = [s \in SUBSET DOMAIN seq |->
                    IF s = {} THEN l ELSE Add(it[s \ {Max(s)}], seq[Max(s)])]
<1>1. DefsInOrder(l, order) = it[DOMAIN seq]
  BY DEF DefsInOrder, FoldLeft, MapThenFoldSet
<1>2. len \in Nat /\ DOMAIN seq = 1 .. len
  BY OrdersAre
<1>3. \A i \in 1 .. len : \A v \in Tables : g[i][v] = Add(v, seq[i])
  BY <1>2
<1>4. \A i \in 1 .. len : \A v \in Tables : Add(v, seq[i]) \in Tables
  BY <1>2, OrdersAre, PreloadTyped DEF Spaces
<1> HIDE DEF seq, Add, g, len
<1>5. \A i \in 1 .. len : \A v \in Tables : g[i][v] \in Tables
  BY <1>3, <1>4
<1>6. PICK h \in [SUBSET (1 .. len) -> Tables] : LeftFoldOf(h, len, Tables, l, g)
  BY <1>2, <1>5, LeftFoldExists
<1>7. \A s \in SUBSET (1 .. len) : s # {} => Max(s) \in 1 .. len
  BY <1>2, LastOf
<1>8. \A s \in SUBSET (1 .. len) : s # {} => \A v \in Tables : g[Max(s)][v] = Add(v, seq[Max(s)])
  BY <1>3, <1>7
<1>9. \A s \in SUBSET (1 .. len) : h[s] = IF s = {} THEN l ELSE Add(h[s \ {Max(s)}], seq[Max(s)])
  <2> TAKE s \in SUBSET (1 .. len)
  <2>1. h[s \ {Max(s)}] \in Tables
    BY <1>6
  <2> QED BY <1>6, <1>8, <2>1 DEF LeftFoldOf
<1>10. h = [s \in SUBSET DOMAIN seq |-> IF s = {} THEN l ELSE Add(h[s \ {Max(s)}], seq[Max(s)])]
  BY <1>2, <1>6, <1>9
<1>11. it = [s \in SUBSET DOMAIN seq |-> IF s = {} THEN l ELSE Add(it[s \ {Max(s)}], seq[Max(s)])]
  BY <1>10
<1> HIDE DEF it
<1>12. LeftFoldOf(it, len, Tables, l, g)
  <2>1. \A s \in SUBSET (1 .. len) : it[s] = IF s = {} THEN l ELSE Add(it[s \ {Max(s)}], seq[Max(s)])
    BY <1>2, <1>11
  <2>2. ASSUME NEW s \in SUBSET (1 .. len), s # {}, it[s \ {Max(s)}] \in Tables
        PROVE  it[s] = g[Max(s)][it[s \ {Max(s)}]]
    <3>1. g[Max(s)][it[s \ {Max(s)}]] = Add(it[s \ {Max(s)}], seq[Max(s)])
      BY <1>8, <2>2
    <3> QED BY <2>1, <2>2, <3>1
  <2>3. it[{}] = l
    BY <2>1
  <2> QED BY <2>2, <2>3 DEF LeftFoldOf
<1> QED BY <1>1, <1>2, <1>12 DEF len, g

\* ... of the other definitions ...
LEMMA RestInOrderFolds ==
  ASSUME WellMade, NEW l \in Tables, NEW order \in Orders
  PROVE  LET g == [i \in 1 .. Len(objs) |-> [v \in Tables |-> PreloadRest(v, objs, order[i])]]
         IN  \E it : LeftFoldOf(it, Len(objs), Tables, l, g) /\ RestInOrder(l, order) = it[1 .. Len(objs)]
<1> DEFINE len == Len(objs)
           g == [i \in 1 .. len |-> [v \in Tables |-> PreloadRest(v, objs, order[i])]]
           Add(v, k) == PreloadRest(v, objs, k)
           seq == order
           it == CHOOSE it : it = [s \in SUBSET DOMAIN seq |->
                    IF s = {} THEN l ELSE Add(it[s \ {Max(s)}], seq[Max(s)])]
<1>1. RestInOrder(l, order) = it[DOMAIN seq]
  BY DEF RestInOrder, FoldLeft, MapThenFoldSet
<1>2. len \in Nat /\ DOMAIN seq = 1 .. len
  BY OrdersAre
<1>3. \A i \in 1 .. len : \A v \in Tables : g[i][v] = Add(v, seq[i])
  BY <1>2
<1>4. \A i \in 1 .. len : \A v \in Tables : Add(v, seq[i]) \in Tables
  BY <1>2, OrdersAre, PreloadRestTyped
<1> HIDE DEF seq, Add, g, len
<1>5. \A i \in 1 .. len : \A v \in Tables : g[i][v] \in Tables
  BY <1>3, <1>4
<1>6. PICK h \in [SUBSET (1 .. len) -> Tables] : LeftFoldOf(h, len, Tables, l, g)
  BY <1>2, <1>5, LeftFoldExists
<1>7. \A s \in SUBSET (1 .. len) : s # {} => Max(s) \in 1 .. len
  BY <1>2, LastOf
<1>8. \A s \in SUBSET (1 .. len) : s # {} => \A v \in Tables : g[Max(s)][v] = Add(v, seq[Max(s)])
  BY <1>3, <1>7
<1>9. \A s \in SUBSET (1 .. len) : h[s] = IF s = {} THEN l ELSE Add(h[s \ {Max(s)}], seq[Max(s)])
  <2> TAKE s \in SUBSET (1 .. len)
  <2>1. h[s \ {Max(s)}] \in Tables
    BY <1>6
  <2> QED BY <1>6, <1>8, <2>1 DEF LeftFoldOf
<1>10. h = [s \in SUBSET DOMAIN seq |-> IF s = {} THEN l ELSE Add(h[s \ {Max(s)}], seq[Max(s)])]
  BY <1>2, <1>6, <1>9
<1>11. it = [s \in SUBSET DOMAIN seq |-> IF s = {} THEN l ELSE Add(it[s \ {Max(s)}], seq[Max(s)])]
  BY <1>10
<1> HIDE DEF it
<1>12. LeftFoldOf(it, len, Tables, l, g)
  <2>1. \A s \in SUBSET (1 .. len) : it[s] = IF s = {} THEN l ELSE Add(it[s \ {Max(s)}], seq[Max(s)])
    BY <1>2, <1>11
  <2>2. ASSUME NEW s \in SUBSET (1 .. len), s # {}, it[s \ {Max(s)}] \in Tables
        PROVE  it[s] = g[Max(s)][it[s \ {Max(s)}]]
    <3>1. g[Max(s)][it[s \ {Max(s)}]] = Add(it[s \ {Max(s)}], seq[Max(s)])
      BY <1>8, <2>2
    <3> QED BY <2>1, <2>2, <3>1
  <2>3. it[{}] = l
    BY <2>1
  <2> QED BY <2>2, <2>3 DEF LeftFoldOf
<1> QED BY <1>1, <1>2, <1>12 DEF len, g

\* ... and of the references.
LEMMA RefsInOrderFolds ==
  ASSUME WellMade, NEW l \in Tables, NEW order \in Orders
  PROVE  LET g == [i \in 1 .. Len(objs) |-> [v \in Tables |-> LoadRefs(v, objs, order[i])]]
         IN  \E it : LeftFoldOf(it, Len(objs), Tables, l, g) /\ RefsInOrder(l, order) = it[1 .. Len(objs)]
<1> DEFINE len == Len(objs)
           g == [i \in 1 .. len |-> [v \in Tables |-> LoadRefs(v, objs, order[i])]]
           Add(v, k) == LoadRefs(v, objs, k)
           seq == order
           it == CHOOSE it : it = [s \in SUBSET DOMAIN seq |->
                    IF s = {} THEN l ELSE Add(it[s \ {Max(s)}], seq[Max(s)])]
<1>1. RefsInOrder(l, order) = it[DOMAIN seq]
  BY DEF RefsInOrder, FoldLeft, MapThenFoldSet
<1>2. len \in Nat /\ DOMAIN seq = 1 .. len
  BY OrdersAre
<1>3. \A i \in 1 .. len : \A v \in Tables : g[i][v] = Add(v, seq[i])
  BY <1>2
<1>4. \A i \in 1 .. len : \A v \in Tables : Add(v, seq[i]) \in Tables
  BY <1>2, OrdersAre, LoadRefsTyped
<1> HIDE DEF seq, Add, g, len
<1>5. \A i \in 1 .. len : \A v \in Tables : g[i][v] \in Tables
  BY <1>3, <1>4
<1>6. PICK h \in [SUBSET (1 .. len) -> Tables] : LeftFoldOf(h, len, Tables, l, g)
  BY <1>2, <1>5, LeftFoldExists
<1>7. \A s \in SUBSET (1 .. len) : s # {} => Max(s) \in 1 .. len
  BY <1>2, LastOf
<1>8. \A s \in SUBSET (1 .. len) : s # {} => \A v \in Tables : g[Max(s)][v] = Add(v, seq[Max(s)])
  BY <1>3, <1>7
<1>9. \A s \in SUBSET (1 .. len) : h[s] = IF s = {} THEN l ELSE Add(h[s \ {Max(s)}], seq[Max(s)])
  <2> TAKE s \in SUBSET (1 .. len)
  <2>1. h[s \ {Max(s)}] \in Tables
    BY <1>6
  <2> QED BY <1>6, <1>8, <2>1 DEF LeftFoldOf
<1>10. h = [s \in SUBSET DOMAIN seq |-> IF s = {} THEN l ELSE Add(h[s \ {Max(s)}], seq[Max(s)])]
  BY <1>2, <1>6, <1>9
<1>11. it = [s \in SUBSET DOMAIN seq |-> IF s = {} THEN l ELSE Add(it[s \ {Max(s)}], seq[Max(s)])]
  BY <1>10
<1> HIDE DEF it
<1>12. LeftFoldOf(it, len, Tables, l, g)
  <2>1. \A s \in SUBSET (1 .. len) : it[s] = IF s = {} THEN l ELSE Add(it[s \ {Max(s)}], seq[Max(s)])
    BY <1>2, <1>11
  <2>2. ASSUME NEW s \in SUBSET (1 .. len), s # {}, it[s \ {Max(s)}] \in Tables
        PROVE  it[s] = g[Max(s)][it[s \ {Max(s)}]]
    <3>1. g[Max(s)][it[s \ {Max(s)}]] = Add(it[s \ {Max(s)}], seq[Max(s)])
      BY <1>8, <2>2
    <3> QED BY <2>1, <2>2, <3>1
  <2>3. it[{}] = l
    BY <2>1
  <2> QED BY <2>2, <2>3 DEF LeftFoldOf
<1> QED BY <1>1, <1>2, <1>12 DEF len, g

\* The other definitions of one object.
LEMMA PreloadRestKeeps ==
  ASSUME WellMade, NEW l \in Tables, NEW D \in SUBSET All, \A q \in D : Definition(q), HasAll(l, D),
         NEW k \in DOMAIN objs, D \cap In({k}, Others) = {}
  PROVE  HasAll(PreloadRest(l, objs, k), D \cup In({k}, Others))
<1> DEFINE A(space) == In({k}, {space})
           l1 == Preload(l, objs, k, "hashed64")
           l2 == Preload(l1, objs, k, "hashed")
<1>1. {"hashed64", "hashed", "nonpkg"} \subseteq Spaces \ {"refs"}
  BY DEF Spaces
<1>2. l1 \in Tables /\ l2 \in Tables
  BY <1>1, PreloadTyped
<1>3. \A space \in Others : /\ PlacesIn(k, space) = A(space) /\ A(space) \subseteq All /\ D \cap A(space) = {}
                            /\ \A q \in A(space) : Definition(q) /\ q[2] = space
  BY <1>1, PlacesInAre DEF In, Others, Definition
<1>4. In({k}, Others) = A("hashed64") \cup A("hashed") \cup A("nonpkg")
  BY DEF In, Others
<1> HIDE DEF A
<1>5. HasAll(l1, D \cup A("hashed64"))
  BY <1>1, <1>3, PreloadKeeps DEF Others
<1> HIDE DEF l1
<1> DEFINE D1 == D \cup A("hashed64")
<1>6. D1 \in SUBSET All /\ (\A q \in D1 : Definition(q)) /\ HasAll(l1, D1) /\ D1 \cap A("hashed") = {}
  BY <1>3, <1>5 DEF Others
<1> HIDE DEF D1
<1>7. HasAll(l2, D1 \cup A("hashed"))
  BY <1>1, <1>2, <1>3, <1>6, PreloadKeeps DEF Others
<1> HIDE DEF l2
<1> DEFINE D2 == D1 \cup A("hashed")
<1>8. D2 \in SUBSET All /\ (\A q \in D2 : Definition(q)) /\ HasAll(l2, D2) /\ D2 \cap A("nonpkg") = {}
  BY <1>3, <1>6, <1>7 DEF Others, D1
<1> HIDE DEF D2
<1>9. HasAll(Preload(l2, objs, k, "nonpkg"), D2 \cup A("nonpkg"))
  BY <1>1, <1>2, <1>3, <1>8, PreloadKeeps DEF Others
<1>10. PreloadRest(l, objs, k) = Preload(l2, objs, k, "nonpkg")
  BY DEF PreloadRest, l1, l2
<1>11. D2 \cup A("nonpkg") = D \cup In({k}, Others)
  BY <1>4 DEF D2, D1
<1> QED BY <1>9, <1>10, <1>11

\* The names that one object refers to.
LEMMA LoadRefsKeeps ==
  ASSUME WellMade, NEW l \in Tables, NEW D \in SUBSET All, HasAll(l, D),
         NEW k \in DOMAIN objs, D \cap In({k}, {"refs"}) = {}
  PROVE  HasAll(LoadRefs(l, objs, k), D \cup In({k}, {"refs"}))
<1> DEFINE len == Len(objs[k].refs)
           g == [i \in 1 .. len |-> [v \in Tables |-> LookupOrCreate(v, objs[k].refs[i], <<k, "refs", i>>)]]
           Dto(i) == D \cup {<<k, "refs", j>> : j \in 1 .. i}
           T == [i \in 0 .. len |-> {v \in Tables : HasAll(v, Dto(i))}]
<1>1. len \in Nat /\ DOMAIN objs[k].refs = 1 .. len
  BY ObjectsAreLists DEF IsList, Spaces
<1>2. PICK it : LeftFoldOf(it, len, Tables, l, g) /\ LoadRefs(l, objs, k) = it[1 .. len]
  BY LoadRefsFolds
<1>3. \A i \in 1 .. len : <<k, "refs", i>> \in All /\ Sym(<<k, "refs", i>>) = objs[k].refs[i]
  BY <1>1 DEF All, Places, Spaces, Sym, Symbol
<1>4. In({k}, {"refs"}) = {<<k, "refs", j>> : j \in 1 .. len}
  <2>1. In({k}, {"refs"}) = PlacesIn(k, "refs")
    BY PlacesInAre DEF Spaces
  <2> QED BY <1>1, <2>1 DEF PlacesIn
<1>5. \A i \in 1 .. len : \A v \in Tables : g[i][v] = LookupOrCreate(v, Sym(<<k, "refs", i>>), <<k, "refs", i>>)
  BY <1>3
<1> HIDE DEF g, len
<1>6. \A i \in 1 .. len : \A v \in Tables : g[i][v] \in Tables
  BY <1>3, <1>5, LookupTyped
<1>7. ASSUME NEW i \in 1 .. len, NEW v \in Tables, HasAll(v, Dto(i - 1)) PROVE HasAll(g[i][v], Dto(i))
  <2> DEFINE p == <<k, "refs", i>>
             E == Dto(i - 1)
  <2>1. Dto(i) = E \cup {p}
    <3>1. 1 .. i = (1 .. i - 1) \cup {i}
      BY <1>1
    <3> QED BY <3>1
  <2>2. p \in All /\ p[2] = "refs"
    BY <1>3
  <2>3. p \notin E
    <3>1. p \notin D
      BY <1>4
    <3>2. \A j \in 1 .. i - 1 : <<k, "refs", j>> # <<k, "refs", i>>
      <4>1. \A j \in 1 .. i - 1 : j # i
        BY <1>1
      <4> QED BY <4>1
    <3> QED BY <3>1, <3>2
  <2>4. E \in SUBSET All
    <3>1. \A j \in 1 .. i - 1 : j \in 1 .. len
      BY <1>1
    <3> QED BY <1>3, <3>1
  <2>5. HasAll(v, E)
    BY <1>7
  <2>6. g[i][v] = LookupOrCreate(v, Sym(p), p)
    BY <1>5
  <2> HIDE DEF Dto, E, p
  <2>7. HasAll(LookupOrCreate(v, Sym(p), p), E \cup {p})
    BY <2>2, <2>3, <2>4, <2>5, LookupKeeps
  <2> QED BY <2>1, <2>6, <2>7
<1>8. Dto(0) = D /\ Dto(len) = D \cup In({k}, {"refs"})
  <2>1. 1 .. 0 = {}
    OBVIOUS
  <2> QED BY <1>4, <2>1
<1> HIDE DEF Dto
<1>9. LeftFolds(len, Tables, l, g, T)
  <2>1. \A i \in 1 .. len : i - 1 \in 0 .. len /\ i \in 0 .. len
    BY <1>1
  <2>2. 0 \in 0 .. len
    BY <1>1
  <2>3. l \in T[0]
    BY <1>8, <2>2
  <2>4. \A i \in 1 .. len : \A v \in T[i - 1] : g[i][v] \in T[i]
    BY <1>6, <1>7, <2>1
  <2>5. \A i \in 0 .. len : T[i] \subseteq Tables
    OBVIOUS
  <2> HIDE DEF T
  <2> QED BY <1>1, <1>6, <2>3, <2>4, <2>5 DEF LeftFolds
<1>10. len \in 0 .. len
  BY <1>1
<1>11. \A v \in T[len] : HasAll(v, Dto(len))
  BY <1>10
<1> HIDE DEF T
<1>12. it[1 .. len] \in T[len]
  BY <1>2, <1>9, LeftFold
<1> QED BY <1>2, <1>8, <1>11, <1>12

\* A fold over the objects in an order, which adds the places of R.
LEMMA InOrderKeeps ==
  ASSUME WellMade, NEW order \in Orders, NEW R, NEW D \in SUBSET All, D \cap In(DOMAIN objs, R) = {},
         NEW l \in Tables, HasAll(l, D), NEW g, NEW it, LeftFoldOf(it, Len(objs), Tables, l, g),
         \A i \in 1 .. Len(objs) : \A v \in Tables : g[i][v] \in Tables,
         \A i \in 1 .. Len(objs), v \in Tables, E \in SUBSET (D \cup In(DOMAIN objs, R)) :
            E \cap In({order[i]}, R) = {} /\ HasAll(v, E) => HasAll(g[i][v], E \cup In({order[i]}, R))
  PROVE  it[1 .. Len(objs)] \in Tables /\ HasAll(it[1 .. Len(objs)], D \cup In(DOMAIN objs, R))
<1> DEFINE len == Len(objs)
           Dto(i) == D \cup In({order[j] : j \in 1 .. i}, R)
           T == [i \in 0 .. len |-> {v \in Tables : HasAll(v, Dto(i))}]
<1>1. /\ len \in Nat /\ DOMAIN objs = 1 .. len
      /\ \A i \in 1 .. len : order[i] \in DOMAIN objs
      /\ \A i, j \in 1 .. len : order[i] = order[j] => i = j
      /\ \A k \in DOMAIN objs : \E i \in 1 .. len : order[i] = k
  BY OrdersAre
<1>2. \A i \in 1 .. len : \A v \in Tables : g[i][v] \in Tables
  OBVIOUS
<1>3. LeftFoldOf(it, len, Tables, l, g)
  OBVIOUS
<1>4. \A i \in 1 .. len, v \in Tables, E \in SUBSET (D \cup In(DOMAIN objs, R)) :
         E \cap In({order[i]}, R) = {} /\ HasAll(v, E) => HasAll(g[i][v], E \cup In({order[i]}, R))
  OBVIOUS
<1> HIDE DEF len
<1>7. ASSUME NEW i \in 1 .. len, NEW v \in Tables, HasAll(v, Dto(i - 1)) PROVE HasAll(g[i][v], Dto(i))
  <2> DEFINE E == Dto(i - 1)
  <2>0. \A j \in 1 .. i - 1 : j \in 1 .. len /\ j # i
    BY <1>1
  <2>1. Dto(i) = E \cup In({order[i]}, R)
    <3>1. 1 .. i = (1 .. i - 1) \cup {i}
      BY <1>1
    <3> QED BY <3>1 DEF In
  <2>2. E \in SUBSET (D \cup In(DOMAIN objs, R))
    BY <1>1, <2>0 DEF In
  <2>3. E \cap In({order[i]}, R) = {}
    <3>1. In({order[i]}, R) \subseteq In(DOMAIN objs, R)
      BY <1>1 DEF In
    <3>2. \A j \in 1 .. i - 1 : order[j] # order[i]
      BY <1>1, <2>0
    <3> QED BY <3>1, <3>2 DEF In
  <2>4. HasAll(v, E)
    BY <1>7
  <2> HIDE DEF E, Dto
  <2>5. HasAll(g[i][v], E \cup In({order[i]}, R))
    BY <1>4, <2>2, <2>3, <2>4
  <2> QED BY <2>1, <2>5
<1>8. Dto(0) = D /\ Dto(len) = D \cup In(DOMAIN objs, R)
  <2>1. 1 .. 0 = {}
    OBVIOUS
  <2>2. {order[j] : j \in 1 .. len} = DOMAIN objs
    BY <1>1
  <2> QED BY <2>1, <2>2 DEF In
<1> HIDE DEF Dto
<1>9. LeftFolds(len, Tables, l, g, T)
  <2>1. \A i \in 1 .. len : i - 1 \in 0 .. len /\ i \in 0 .. len
    BY <1>1
  <2>2. 0 \in 0 .. len
    BY <1>1
  <2>3. l \in T[0]
    BY <1>8, <2>2
  <2>4. \A i \in 1 .. len : \A v \in T[i - 1] : g[i][v] \in T[i]
    BY <1>2, <1>7, <2>1
  <2>5. \A i \in 0 .. len : T[i] \subseteq Tables
    OBVIOUS
  <2> HIDE DEF T
  <2> QED BY <1>1, <1>2, <2>3, <2>4, <2>5 DEF LeftFolds
<1>10. len \in 0 .. len
  BY <1>1
<1>11. \A v \in T[len] : v \in Tables /\ HasAll(v, Dto(len))
  BY <1>10
<1> HIDE DEF T
<1>12. it[1 .. len] \in T[len]
  BY <1>3, <1>9, LeftFold
<1>13. it[1 .. len] \in Tables /\ HasAll(it[1 .. len], D \cup In(DOMAIN objs, R))
  BY <1>8, <1>11, <1>12
<1> QED BY <1>13 DEF len

\* The empty table holds no place.
LEMMA NothingLoaded == EmptyTable \in Tables /\ HasAll(EmptyTable, {})
<1>1. \A A, B : <<>> \in Partial(A, B)
  <2> TAKE A, B
  <2>1. <<>> \in [{} -> B]
    OBVIOUS
  <2> QED BY <2>1 DEF Partial
<1>2. <<>> \in Seq(All \cup {NoDef})
  OBVIOUS
<1>3. EmptyTable \in Tables
  BY <1>1, <1>2 DEF EmptyTable, Tables
<1>4. DOMAIN <<>> = {}
  OBVIOUS
<1>5. Kept(EmptyTable, {})
  BY <1>4 DEF EmptyTable, Kept, Numbers, OneEach, Best, Reported
<1>6. NamesFound(EmptyTable, {}) /\ HashesFound(EmptyTable, {}) /\ BuiltinsFound(EmptyTable, {})
  BY <1>4 DEF EmptyTable, NamesFound, HashesFound, BuiltinsFound
<1> QED BY <1>3, <1>5, <1>6 DEF HasAll

\* After the first pass the definitions of the packages are in the table, ...
LEMMA DefsInOrderKeeps ==
  ASSUME WellMade, NEW order \in Orders
  PROVE  DefsInOrder(EmptyTable, order) \in Tables /\ HasAll(DefsInOrder(EmptyTable, order), In(DOMAIN objs, {"defs"}))
<1> DEFINE l == EmptyTable
           R == {"defs"}
           D == {}
           g == [i \in 1 .. Len(objs) |-> [v \in Tables |-> Preload(v, objs, order[i], "defs")]]
<1>1. l \in Tables /\ HasAll(l, {})
  BY NothingLoaded
<1> HIDE DEF l
<1>2. PICK it : LeftFoldOf(it, Len(objs), Tables, l, g) /\ DefsInOrder(l, order) = it[1 .. Len(objs)]
  BY <1>1, DefsInOrderFolds
<1>3. \A i \in 1 .. Len(objs) : order[i] \in DOMAIN objs
  BY OrdersAre
<1>4. "defs" \in Spaces /\ "defs" \in Spaces \ {"refs"}
  BY DEF Spaces
<1>5. \A i \in 1 .. Len(objs) : \A v \in Tables : g[i][v] = Preload(v, objs, order[i], "defs")
  OBVIOUS
<1> HIDE DEF g
<1>6. \A i \in 1 .. Len(objs) : \A v \in Tables : g[i][v] \in Tables
  BY <1>3, <1>4, <1>5, PreloadTyped
<1>7. ASSUME NEW i \in 1 .. Len(objs), NEW v \in Tables, NEW E \in SUBSET (D \cup In(DOMAIN objs, R)),
             E \cap In({order[i]}, R) = {}, HasAll(v, E)
      PROVE  HasAll(g[i][v], E \cup In({order[i]}, R))
  <2> DEFINE k == order[i]
  <2>1. k \in DOMAIN objs
    BY <1>3
  <2>2. E \in SUBSET All /\ \A q \in E : Definition(q) /\ q[2] = "defs"
    BY DEF In, Definition
  <2>3. g[i][v] = Preload(v, objs, k, "defs") /\ E \cap In({k}, R) = {}
    BY <1>5, <1>7
  <2> HIDE DEF k
  <2>4. In({k}, R) = PlacesIn(k, "defs")
    BY <1>4, <2>1, PlacesInAre
  <2>5. HasAll(Preload(v, objs, k, "defs"), E \cup PlacesIn(k, "defs"))
    BY <1>4, <1>7, <2>1, <2>2, <2>3, <2>4, PreloadKeeps
  <2>6. HasAll(g[i][v], E \cup In({k}, R))
    BY <2>3, <2>4, <2>5
  <2> QED BY <2>6 DEF k
<1>9. HasAll(l, D) /\ D \in SUBSET All /\ D \cap In(DOMAIN objs, R) = {}
  BY <1>1
<1>10. D \cup In(DOMAIN objs, R) = In(DOMAIN objs, {"defs"})
  OBVIOUS
<1> HIDE DEF R, D
<1>8. it[1 .. Len(objs)] \in Tables /\ HasAll(it[1 .. Len(objs)], D \cup In(DOMAIN objs, R))
  BY <1>1, <1>2, <1>6, <1>7, <1>9, InOrderKeeps
<1> QED BY <1>2, <1>8, <1>10 DEF l

\* ... after the second all definitions, ...
LEMMA RestInOrderKeeps ==
  ASSUME WellMade, NEW order \in Orders, NEW l \in Tables, HasAll(l, In(DOMAIN objs, {"defs"}))
  PROVE  /\ RestInOrder(l, order) \in Tables
         /\ HasAll(RestInOrder(l, order), In(DOMAIN objs, {"defs"}) \cup In(DOMAIN objs, Others))
<1> DEFINE D == In(DOMAIN objs, {"defs"})
           g == [i \in 1 .. Len(objs) |-> [v \in Tables |-> PreloadRest(v, objs, order[i])]]
<1>1. HasAll(l, D)
  OBVIOUS
<1>2. PICK it : LeftFoldOf(it, Len(objs), Tables, l, g) /\ RestInOrder(l, order) = it[1 .. Len(objs)]
  BY RestInOrderFolds
<1>3. \A i \in 1 .. Len(objs) : order[i] \in DOMAIN objs
  BY OrdersAre
<1>4. D \in SUBSET All /\ D \cap In(DOMAIN objs, Others) = {} /\ \A q \in D \cup In(DOMAIN objs, Others) : q \in All /\ Definition(q)
  BY DEF In, Others, Definition
<1>5. \A i \in 1 .. Len(objs) : \A v \in Tables : g[i][v] = PreloadRest(v, objs, order[i])
  OBVIOUS
<1> HIDE DEF g, D
<1>6. \A i \in 1 .. Len(objs) : \A v \in Tables : g[i][v] \in Tables
  BY <1>3, <1>5, PreloadRestTyped
<1>7. ASSUME NEW i \in 1 .. Len(objs), NEW v \in Tables, NEW E \in SUBSET (D \cup In(DOMAIN objs, Others)),
             E \cap In({order[i]}, Others) = {}, HasAll(v, E)
      PROVE  HasAll(g[i][v], E \cup In({order[i]}, Others))
  <2>1. E \in SUBSET All /\ \A q \in E : Definition(q)
    BY <1>4
  <2>2. HasAll(PreloadRest(v, objs, order[i]), E \cup In({order[i]}, Others))
    BY <1>3, <1>7, <2>1, PreloadRestKeeps
  <2> QED BY <1>5, <2>2
<1>8. it[1 .. Len(objs)] \in Tables /\ HasAll(it[1 .. Len(objs)], D \cup In(DOMAIN objs, Others))
  BY <1>1, <1>2, <1>4, <1>6, <1>7, InOrderKeeps
<1> QED BY <1>2, <1>8 DEF D

\* ... and after the third the names that are referred to.
LEMMA RefsInOrderKeeps ==
  ASSUME WellMade, NEW order \in Orders, NEW l \in Tables, NEW D \in SUBSET All, HasAll(l, D),
         D \cap In(DOMAIN objs, {"refs"}) = {}
  PROVE  RefsInOrder(l, order) \in Tables /\ HasAll(RefsInOrder(l, order), D \cup In(DOMAIN objs, {"refs"}))
<1> DEFINE R == {"refs"}
           g == [i \in 1 .. Len(objs) |-> [v \in Tables |-> LoadRefs(v, objs, order[i])]]
<1>2. PICK it : LeftFoldOf(it, Len(objs), Tables, l, g) /\ RefsInOrder(l, order) = it[1 .. Len(objs)]
  BY RefsInOrderFolds
<1>3. \A i \in 1 .. Len(objs) : order[i] \in DOMAIN objs
  BY OrdersAre
<1>4. In(DOMAIN objs, R) \subseteq All
  BY DEF In
<1>5. \A i \in 1 .. Len(objs) : \A v \in Tables : g[i][v] = LoadRefs(v, objs, order[i])
  OBVIOUS
<1> HIDE DEF g
<1>6. \A i \in 1 .. Len(objs) : \A v \in Tables : g[i][v] \in Tables
  BY <1>3, <1>5, LoadRefsTyped
<1>7. ASSUME NEW i \in 1 .. Len(objs), NEW v \in Tables, NEW E \in SUBSET (D \cup In(DOMAIN objs, R)),
             E \cap In({order[i]}, R) = {}, HasAll(v, E)
      PROVE  HasAll(g[i][v], E \cup In({order[i]}, R))
  <2>1. E \in SUBSET All
    BY <1>4
  <2>2. HasAll(LoadRefs(v, objs, order[i]), E \cup In({order[i]}, R))
    BY <1>3, <1>7, <2>1, LoadRefsKeeps
  <2> QED BY <1>5, <2>2
<1>9. D \cap In(DOMAIN objs, R) = {}
  OBVIOUS
<1> HIDE DEF R
<1>8. it[1 .. Len(objs)] \in Tables /\ HasAll(it[1 .. Len(objs)], D \cup In(DOMAIN objs, R))
  BY <1>2, <1>6, <1>7, <1>9, InOrderKeeps
<1> QED BY <1>2, <1>8 DEF R

\* Whatever the order is, all places are in the table, and the types used in an
\* interface are read from it.
LEMMA Loaded ==
  ASSUME WellMade, NEW order \in Orders
  PROVE  \E l \in Tables : HasAll(l, All) /\ LoadAll(objs, order) = [l EXCEPT !.inIface = InIface(l, objs, order)]
<1> DEFINE l1 == DefsInOrder(EmptyTable, order)
           l2 == RestInOrder(l1, order)
           l3 == RefsInOrder(l2, order)
           D1 == In(DOMAIN objs, {"defs"})
           D2 == D1 \cup In(DOMAIN objs, Others)
<1>1. l1 \in Tables /\ HasAll(l1, D1)
  BY DefsInOrderKeeps
<1>5. LoadAll(objs, order) = [l3 EXCEPT !.inIface = InIface(l3, objs, order)]
  BY LoadAllInOrder
<1> HIDE DEF l1
<1>2. l2 \in Tables /\ HasAll(l2, D2)
  BY <1>1, RestInOrderKeeps
<1> HIDE DEF l2
<1>3. D2 \in SUBSET All /\ D2 \cap In(DOMAIN objs, {"refs"}) = {}
  BY DEF In, Others
<1>6. D2 \cup In(DOMAIN objs, {"refs"}) = All
  BY PlacesOfSpaces DEF In, Others, Spaces
<1> HIDE DEF D2
<1>4. l3 \in Tables /\ HasAll(l3, D2 \cup In(DOMAIN objs, {"refs"}))
  BY <1>2, <1>3, RefsInOrderKeeps
<1> HIDE DEF l3
<1> QED BY <1>4, <1>5, <1>6

-----------------------------------------------------------------------------
(* What the tables of all orders have in common *)

\* The key is what OneSymbol says.
LEMMA KeysAreSymbols ==
  ASSUME WellMade, NEW a \in All, NEW b \in All
  PROVE  /\ Key(a) = Key(b) <=> a = b \/ OneSymbol(a, b)
         /\ OneSymbol(a, b) \in BOOLEAN
<1>1. HasHash(a) \/ HasHash(b) => (OneSymbol(a, b) <=> a[2] = b[2] /\ Sym(a).hash = Sym(b).hash)
  BY DEF OneSymbol, HasHash, Sym
<1>2. ~HasHash(a) /\ ~HasHash(b) =>
        (OneSymbol(a, b) <=> /\ Sym(a).name # NoName /\ ~Static(Sym(a)) /\ NameKey(Sym(a)) = NameKey(Sym(b))
                             /\ a[2] # "defs" \/ b[2] # "defs")
  BY DEF OneSymbol, HasHash, Sym
<1>3. OneSymbol(a, b) \in BOOLEAN
  BY DEF OneSymbol
<1>4. CASE HasHash(a) \/ HasHash(b)
  <2>1. Key(a) = Key(b) <=> HasHash(a) /\ HasHash(b) /\ <<b[2], Sym(b).hash>> = <<a[2], Sym(a).hash>>
    BY <1>4, KeysAgree
  <2>2. a[2] = b[2] => (HasHash(a) <=> HasHash(b))
    BY DEF HasHash
  <2>3. Key(a) = Key(b) <=> OneSymbol(a, b)
    BY <1>1, <1>4, <2>1, <2>2
  <2>4. a = b => Key(a) = Key(b)
    OBVIOUS
  <2> QED BY <1>3, <2>3, <2>4
<1>5. CASE ~HasHash(a) /\ ~HasHash(b)
  <2>1. NameKey(Sym(a)) = NameKey(Sym(b)) => Sym(a).name = Sym(b).name /\ (Static(Sym(a)) <=> Static(Sym(b)))
    BY DEF NameKey, Static
  <2>2. NameKey(Sym(a)) = NameKey(Sym(b)) => (Named(a) <=> Named(b))
    BY <1>5, <2>1 DEF Named
  <2>3. CASE Named(a)
    <3>1. Key(a) = Key(b) <=> Named(b) /\ NameKey(Sym(b)) = NameKey(Sym(a))
      BY <2>3, KeysAgree
    <3>2. a # b /\ a[2] = "defs" /\ b[2] = "defs" => NameKey(Sym(a)) # NameKey(Sym(b))
      BY <2>3, PackagesNameOnce
    <3>3. OneSymbol(a, b) <=> NameKey(Sym(a)) = NameKey(Sym(b)) /\ (a[2] # "defs" \/ b[2] # "defs")
      BY <1>2, <1>5, <2>3 DEF Named
    <3> QED BY <1>3, <2>2, <2>3, <3>1, <3>2, <3>3
  <2>4. CASE ~Named(a)
    <3>1. Key(b) = Key(a) <=> b = a
      BY <1>5, <2>4, KeysAgree
    <3>2. ~OneSymbol(a, b)
      BY <1>2, <1>5, <2>4 DEF Named
    <3> QED BY <1>3, <3>1, <3>2
  <2> QED BY <2>3, <2>4
<1> QED BY <1>4, <1>5

\* Two places have one symbol in each table or in none, ...
LEMMA OwnsAgree ==
  ASSUME WellMade, NEW l, HasAll(l, All), NEW a \in All, NEW b \in All
  PROVE  (l.own[a] = l.own[b]) = (a = b \/ OneSymbol(a, b))
<1>1. l.own[a] = l.own[b] <=> Key(a) = Key(b)
  BY DEF HasAll, Kept, OneEach
<1>2. (Key(a) = Key(b) <=> a = b \/ OneSymbol(a, b)) /\ OneSymbol(a, b) \in BOOLEAN
  BY KeysAreSymbols
<1>3. (l.own[a] = l.own[b]) \in BOOLEAN /\ (a = b \/ OneSymbol(a, b)) \in BOOLEAN
  BY <1>2
<1>4. l.own[a] = l.own[b] <=> a = b \/ OneSymbol(a, b)
  BY <1>1, <1>2
<1> QED BY <1>3, <1>4

\* ... each reports a conflict or none does, ...
LEMMA ConflictsAgree ==
  ASSUME NEW l \in Tables, HasAll(l, All), NEW m \in Tables, HasAll(m, All)
  PROVE  l.dup = m.dup
<1>1. l.dup \in BOOLEAN /\ m.dup \in BOOLEAN
  BY TableFields
<1>2. l.dup <=> m.dup
  BY DEF HasAll, Kept, Reported
<1> QED BY <1>1, <1>2

\* ... and without one what is found at a place is the same.
LEMMA DefinitionsAgree ==
  ASSUME WellMade, NEW l, HasAll(l, All), NEW m, HasAll(m, All), ~m.dup, NEW a \in All
  PROVE  Found(l, a) = Found(m, a)
<1> DEFINE d == l.syms[l.own[a]]
           e == m.syms[m.own[a]]
<1>0. Found(l, a) = (IF d = NoDef THEN NoDef ELSE <<Sym(d).kind, Sym(d).content, Sym(d).size, Sym(d).hash>>)
      /\ Found(m, a) = (IF e = NoDef THEN NoDef ELSE <<Sym(e).kind, Sym(e).content, Sym(e).size, Sym(e).hash>>)
  BY DEF Found, Sym
<1>1. \/ (\A q \in All : Definition(q) => Key(q) # Key(a)) /\ d = NoDef
      \/ /\ d \in All /\ Definition(d) /\ Key(d) = Key(a)
         /\ \A q \in All : Definition(q) /\ Key(q) = Key(a) => AtMost(q, d)
  BY DEF HasAll, Kept, Best
<1>2. \/ (\A q \in All : Definition(q) => Key(q) # Key(a)) /\ e = NoDef
      \/ /\ e \in All /\ Definition(e) /\ Key(e) = Key(a)
         /\ \A q \in All : Definition(q) /\ Key(q) = Key(a) => AtMost(q, e)
  BY DEF HasAll, Kept, Best
<1> HIDE DEF d, e
<1>3. CASE d = e
  BY <1>0, <1>3
<1>4. CASE d # e
  <2>1. /\ d \in All /\ Definition(d) /\ e \in All /\ Definition(e)
        /\ Key(d) = Key(e) /\ AtMost(d, e) /\ AtMost(e, d)
    BY <1>1, <1>2, <1>4
  <2>2. Level(d) \in {0, 1, 2} /\ Level(e) \in {0, 1, 2}
    BY DEF Level
  <2>3. Level(d) = Level(e)
    BY <2>1, <2>2 DEF AtMost
  <2>4. Level(d) # 2
    <3>1. m.dup <=> \E p, q \in All : /\ p # q /\ Definition(p) /\ Definition(q)
                                      /\ Key(p) = Key(q) /\ Level(p) = 2 /\ Level(q) = 2
      BY DEF HasAll, Kept, Reported
    <3> QED BY <1>4, <2>1, <2>3, <3>1
  <2>5. Sym(d).size \in Nat /\ Sym(e).size \in Nat
    BY <2>1, SizesAreNumbers DEF Sizes
  <2>6. Sym(d).size = Sym(e).size
    BY <2>1, <2>2, <2>3, <2>4, <2>5 DEF AtMost
  <2>7. OneSymbol(d, e)
    BY <1>4, <2>1, KeysAreSymbols
  <2>8. HasHash(d) => HasHash(e)
    BY <2>1, KeysAgree
  <2>9. HasHash(e) => HasHash(d)
    BY <2>1, KeysAgree
  <2>10. HasHash(d) \/ (Sym(d).dupok /\ Sym(e).dupok) \/ (IsBSS(Sym(d)) /\ IsBSS(Sym(e)))
    BY <2>3, <2>4, <2>8, <2>9 DEF Level
  <2>11. \A p, q \in All :
           /\ OneSymbol(p, q) /\ Definition(p) /\ Definition(q) /\ Sym(p).size = Sym(q).size
           /\ HasHash(p) \/ (Sym(p).dupok /\ Sym(q).dupok) \/ (IsBSS(Sym(p)) /\ IsBSS(Sym(q)))
           => <<Sym(p).kind, Sym(p).content, Sym(p).hash>> = <<Sym(q).kind, Sym(q).content, Sym(q).hash>>
    BY DEF WellMade, All, Sym, HasHash, Definition
  <2>12. <<Sym(d).kind, Sym(d).content, Sym(d).hash>> = <<Sym(e).kind, Sym(e).content, Sym(e).hash>>
    BY <2>1, <2>6, <2>7, <2>10, <2>11
  <2>13. d # NoDef /\ e # NoDef
    <3>1. \A p \in All : p # NoDef
      BY PlacesOfSpaces DEF NoDef
    <3> QED BY <2>1, <3>1
  <2>14. Sym(d).kind = Sym(e).kind /\ Sym(d).content = Sym(e).content /\ Sym(d).hash = Sym(e).hash
    BY <2>12
  <2> QED BY <1>0, <2>6, <2>13, <2>14
<1> QED BY <1>3, <1>4

\* A predeclared name has the symbol of its definition.
LEMMA BuiltinsAreTheirs ==
  ASSUME NEW l, HasAll(l, All), NEW a \in All, a[2] \in {"defs", "nonpkg"}, NameKey(Sym(a)) \in Builtins
  PROVE  l.own[a] = l.builtin[NameKey(Sym(a))]
<1>1. ~HasHash(a) /\ Definition(a)
  BY DEF HasHash, Definition
<1>2. Named(a)
  BY <1>1, BuiltinsAreNamed
<1> QED BY <1>1, <1>2 DEF HasAll, BuiltinsFound

-----------------------------------------------------------------------------
(* References *)

\* The object that holds the indices of a package.
First(pkg) == CHOOSE j \in DOMAIN objs : objs[j].path = pkg /\ \A i \in DOMAIN objs : objs[i].path = pkg => j <= i

\* It is the first in every order.
LEMMA FirstOfPackage ==
  ASSUME WellMade, NEW order \in Orders, NEW pkg, \E j \in DOMAIN objs : objs[j].path = pkg
  PROVE  PkgObject(objs, order, pkg) = First(pkg) /\ First(pkg) \in DOMAIN objs
<1> DEFINE len == Len(objs)
           I == {i \in 1 .. len : objs[order[i]].path = pkg}
<1>1. /\ len \in Nat /\ DOMAIN order = 1 .. len /\ DOMAIN objs = 1 .. len
      /\ \A i \in 1 .. len : order[i] \in DOMAIN objs
      /\ \A k \in DOMAIN objs : \E i \in 1 .. len : order[i] = k
  BY OrdersAre
<1>2. \A i, j \in DOMAIN objs : i < j /\ objs[order[i]].path = objs[order[j]].path => order[i] < order[j]
  BY DEF Orders
<1>3. Len(order) = len
  <2>1. order \in [1 .. len -> DOMAIN objs]
    BY <1>1 DEF Orders
  <2> HIDE DEF len
  <2> QED BY <1>1, <2>1
<1> HIDE DEF len
<1>4. I # {} /\ I \subseteq Nat
  <2>1. PICK j \in DOMAIN objs : objs[j].path = pkg
    OBVIOUS
  <2>2. PICK i \in 1 .. len : order[i] = j
    BY <1>1
  <2>3. i \in I
    BY <2>1, <2>2
  <2>4. 1 .. len \subseteq Nat
    BY <1>1
  <2> QED BY <2>3, <2>4
<1>5. PICK i \in I : \A j \in I : i <= j
  BY <1>4, Least
<1>6. Min(I) = i
  <2>1. \A x \in I : (\A y \in I : x <= y) => x = i
    BY <1>4, <1>5
  <2> QED BY <1>5, <2>1 DEF Min
<1>7. PkgObject(objs, order, pkg) = order[i]
  <2>1. SelectInSeq(order, LAMBDA k : objs[k].path = pkg) = IF I # {} THEN Min(I) ELSE 0
    BY <1>3 DEF SelectInSeq
  <2> QED BY <1>4, <1>6, <2>1 DEF PkgObject
<1>8. \A k \in DOMAIN objs : objs[k].path = pkg => order[i] <= k
  <2> TAKE k \in DOMAIN objs
  <2> HAVE objs[k].path = pkg
  <2>1. PICK j \in 1 .. len : order[j] = k
    BY <1>1
  <2>2. j \in I /\ i \in 1 .. len
    BY <2>1
  <2>3. i <= j
    BY <1>5, <2>2
  <2>4. i < j => order[i] < order[j]
    BY <1>1, <1>2, <2>1, <2>2
  <2>5. order[i] \in Int /\ order[j] \in Int /\ i \in Int /\ j \in Int
    BY <1>1, <2>2
  <2> QED BY <2>1, <2>3, <2>4, <2>5
<1>9. order[i] \in DOMAIN objs /\ objs[order[i]].path = pkg
  BY <1>1
<1>10. \A j \in DOMAIN objs : objs[j].path = pkg /\ (\A k \in DOMAIN objs : objs[k].path = pkg => j <= k) => j = order[i]
  <2> TAKE j \in DOMAIN objs
  <2>1. j \in Int /\ order[i] \in Int
    BY <1>1
  <2> QED BY <1>8, <1>9, <2>1
<1>11. First(pkg) = order[i]
  BY <1>8, <1>9, <1>10 DEF First
<1> QED BY <1>7, <1>9, <1>11

\* The place that has the name.
Predeclared(key, p) == Named(p) /\ Definition(p) /\ NameKey(Sym(p)) = key /\ key \in Builtins

\* The place that a reference of an object means, or none.
Meant(k, r) ==
  LET other == First(objs[k].pkglist[r[2][1]])
      named == Len(objs[k].nonpkg)
  IN  IF r[1] = "none" THEN (IF r[2] <= named THEN <<k, "nonpkg", r[2]>> ELSE <<k, "refs", r[2] - named>>)
      ELSE IF r[1] = "builtin" THEN (IF \E p \in All : Predeclared(r[2], p)
                                     THEN CHOOSE p \in All : Predeclared(r[2], p) ELSE NoDef)
      ELSE IF r[1] = "package" THEN (IF r[2][2] \in DOMAIN objs[other].defs THEN <<other, "defs", r[2][2]>> ELSE NoDef)
      ELSE <<k, r[1], r[2]>>

\* It is a place if there is one.
LEMMA MeantIsPlace ==
  ASSUME WellMade, NEW k \in DOMAIN objs, NEW r, CheckedRef(objs, k, r)
  PROVE  Meant(k, r) \in All \cup {NoDef}
<1>0. \A space \in Spaces : \A i \in DOMAIN objs[k][space] : <<k, space, i>> \in All
  BY DEF All, Places
<1>1. CASE r[1] = "none"
  <2>1. r[2] \in 1 .. Len(objs[k].nonpkg) + Len(objs[k].refs)
    BY <1>1 DEF CheckedRef
  <2>2. /\ Len(objs[k].nonpkg) \in Nat /\ DOMAIN objs[k].nonpkg = 1 .. Len(objs[k].nonpkg)
        /\ Len(objs[k].refs) \in Nat /\ DOMAIN objs[k].refs = 1 .. Len(objs[k].refs)
    BY ObjectsAreLists DEF IsList, Spaces
  <2> DEFINE a == Len(objs[k].nonpkg)
             b == Len(objs[k].refs)
  <2>3. a \in Nat /\ b \in Nat /\ DOMAIN objs[k]["nonpkg"] = 1 .. a /\ DOMAIN objs[k]["refs"] = 1 .. b /\ r[2] \in 1 .. a + b
    BY <2>1, <2>2
  <2>5. Meant(k, r) = IF r[2] <= a THEN <<k, "nonpkg", r[2]>> ELSE <<k, "refs", r[2] - a>>
    BY <1>1 DEF Meant
  <2> HIDE DEF a, b
  <2>4. (r[2] <= a => r[2] \in 1 .. a) /\ (~(r[2] <= a) => r[2] - a \in 1 .. b)
    BY <2>3
  <2> QED BY <1>0, <2>3, <2>4, <2>5 DEF Spaces
<1>2. CASE r[1] = "builtin"
  <2>1. Meant(k, r) = IF \E p \in All : Predeclared(r[2], p) THEN CHOOSE p \in All : Predeclared(r[2], p) ELSE NoDef
    BY <1>2 DEF Meant
  <2> QED BY <2>1
<1>3. CASE r[1] = "package"
  <2> DEFINE other == First(objs[k].pkglist[r[2][1]])
  <2>1. \E j \in DOMAIN objs : objs[j].path = objs[k].pkglist[r[2][1]]
    BY <1>3 DEF CheckedRef
  <2>2. AsRead \in Orders
    <3>1. DOMAIN objs = 1 .. Len(objs) /\ Len(objs) \in Nat
      BY ObjectsAreLists DEF IsList
    <3> QED BY <3>1 DEF AsRead, Orders, IsInjective
  <2>3. other \in DOMAIN objs
    BY <2>1, <2>2, FirstOfPackage
  <2>4. Meant(k, r) = IF r[2][2] \in DOMAIN objs[other].defs THEN <<other, "defs", r[2][2]>> ELSE NoDef
    BY <1>3 DEF Meant
  <2> HIDE DEF other
  <2>5. r[2][2] \in DOMAIN objs[other].defs => <<other, "defs", r[2][2]>> \in All
    BY <2>3 DEF All, Places, Spaces
  <2> QED BY <2>4, <2>5
<1>4. CASE r[1] \notin {"none", "builtin", "package"}
  <2>1. r[1] \in {"defs", "hashed64", "hashed"} /\ r[2] \in DOMAIN objs[k][r[1]]
    BY <1>4 DEF CheckedRef
  <2>2. Meant(k, r) = <<k, r[1], r[2]>>
    BY <1>4 DEF Meant
  <2> QED BY <1>0, <2>1, <2>2 DEF Spaces
<1> QED BY <1>1, <1>2, <1>3, <1>4

\* In every order the reference means the symbol of that place.
LEMMA ResolveIs ==
  ASSUME WellMade, NEW order \in Orders, NEW l, HasAll(l, All), NEW k \in DOMAIN objs, NEW r, CheckedRef(objs, k, r)
  PROVE  Resolve(l, objs, order, k, r) = IF Meant(k, r) = NoDef THEN 0 ELSE l.own[Meant(k, r)]
<1>0. \A x, y, z : <<x, y, z>> # NoDef
  BY DEF NoDef
<1>1. CASE r[1] = "none"
  BY <1>0, <1>1 DEF Meant, Resolve
<1>2. CASE r[1] = "builtin"
  <2>1. Resolve(l, objs, order, k, r) = IF r[2] \in DOMAIN l.builtin THEN l.builtin[r[2]] ELSE 0
    BY <1>2 DEF Resolve
  <2>2. Meant(k, r) = IF \E p \in All : Predeclared(r[2], p) THEN CHOOSE p \in All : Predeclared(r[2], p) ELSE NoDef
    BY <1>2 DEF Meant
  <2>3. BuiltinsFound(l, All)
    BY DEF HasAll
  <2>4. r[2] \in DOMAIN l.builtin => \E p \in All : Predeclared(r[2], p)
    BY <2>3 DEF BuiltinsFound, Predeclared
  <2>5. ASSUME NEW p \in All, Predeclared(r[2], p)
        PROVE  r[2] \in DOMAIN l.builtin /\ l.builtin[r[2]] = l.own[p]
    BY <2>3, <2>5 DEF BuiltinsFound, Predeclared
  <2>6. CASE \E p \in All : Predeclared(r[2], p)
    <3>1. Meant(k, r) \in All /\ Predeclared(r[2], Meant(k, r))
      BY <2>2, <2>6
    <3>2. Meant(k, r) # NoDef
      BY <1>0, <3>1, PlacesOfSpaces
    <3>3. r[2] \in DOMAIN l.builtin /\ l.builtin[r[2]] = l.own[Meant(k, r)]
      BY <2>5, <3>1
    <3> QED BY <2>1, <3>2, <3>3
  <2>7. CASE ~\E p \in All : Predeclared(r[2], p)
    BY <2>1, <2>2, <2>4, <2>7
  <2> QED BY <2>6, <2>7
<1>3. CASE r[1] = "package"
  <2> DEFINE other == First(objs[k].pkglist[r[2][1]])
  <2>1. \E j \in DOMAIN objs : objs[j].path = objs[k].pkglist[r[2][1]]
    BY <1>3 DEF CheckedRef
  <2>2. PkgObject(objs, order, objs[k].pkglist[r[2][1]]) = other
    BY <2>1, FirstOfPackage
  <2>3. Meant(k, r) = IF r[2][2] \in DOMAIN objs[other].defs THEN <<other, "defs", r[2][2]>> ELSE NoDef
    BY <1>3 DEF Meant
  <2> HIDE DEF other
  <2>4. Resolve(l, objs, order, k, r) = IF r[2][2] \in DOMAIN objs[other].defs THEN l.own[<<other, "defs", r[2][2]>>] ELSE 0
    BY <1>3, <2>2 DEF Resolve
  <2> QED BY <1>0, <2>3, <2>4
<1>4. CASE r[1] \notin {"none", "builtin", "package"}
  <2>1. Meant(k, r) = <<k, r[1], r[2]>>
    BY <1>4 DEF Meant
  <2>2. Resolve(l, objs, order, k, r) = l.own[<<k, r[1], r[2]>>]
    BY <1>4 DEF Resolve
  <2> QED BY <1>0, <2>1, <2>2
<1> QED BY <1>1, <1>2, <1>3, <1>4

\* The places that make their symbols types used in an interface.
InIfaceAt == {d \in All : d[2] # "refs" /\ Sym(d).inIface} \cup
             ((UNION {{Meant(k, r) : r \in ToSet(objs[k].flagged)} : k \in DOMAIN objs}) \ {NoDef})

\* The types used in an interface are the symbols of the same places in every order.
LEMMA InIfaceIs ==
  ASSUME WellMade, NEW order \in Orders, NEW l, HasAll(l, All)
  PROVE  InIface(l, objs, order) = {l.own[p] : p \in InIfaceAt}
<1> DEFINE said == {d \in All : d[2] # "refs" /\ Sym(d).inIface}
           F(k) == ToSet(objs[k].flagged)
<1>1. DOMAIN l.own = All /\ \A p \in All : l.own[p] # 0
  BY DEF HasAll, Kept, Numbers
<1>2. InIface(l, objs, order) = {l.own[d] : d \in said} \cup
        ((UNION {{Resolve(l, objs, order, k, r) : r \in F(k)} : k \in DOMAIN objs}) \ {0})
  BY <1>1 DEF InIface, Sym
<1>3. InIfaceAt = said \cup ((UNION {{Meant(k, r) : r \in F(k)} : k \in DOMAIN objs}) \ {NoDef})
  BY DEF InIfaceAt
<1>4. \A k \in DOMAIN objs : \A r \in F(k) : CheckedRef(objs, k, r)
  BY DEF WellMade, Checked
<1> HIDE DEF said, F
<1>5. \A k \in DOMAIN objs : \A r \in F(k) :
        /\ Meant(k, r) \in All \cup {NoDef}
        /\ Resolve(l, objs, order, k, r) = IF Meant(k, r) = NoDef THEN 0 ELSE l.own[Meant(k, r)]
  BY <1>4, MeantIsPlace, ResolveIs
<1>6. \A k \in DOMAIN objs : \A r \in F(k) : Meant(k, r) # NoDef => l.own[Meant(k, r)] # 0
  BY <1>1, <1>5
<1>7. \A x : x \in (UNION {{Resolve(l, objs, order, k, r) : r \in F(k)} : k \in DOMAIN objs}) \ {0}
        <=> \E p \in (UNION {{Meant(k, r) : r \in F(k)} : k \in DOMAIN objs}) \ {NoDef} : x = l.own[p]
  <2> TAKE x
  <2>1. x \in (UNION {{Resolve(l, objs, order, k, r) : r \in F(k)} : k \in DOMAIN objs}) \ {0}
        <=> x # 0 /\ \E k \in DOMAIN objs : \E r \in F(k) : x = Resolve(l, objs, order, k, r)
    OBVIOUS
  <2>2. (\E p \in (UNION {{Meant(k, r) : r \in F(k)} : k \in DOMAIN objs}) \ {NoDef} : x = l.own[p])
        <=> \E k \in DOMAIN objs : \E r \in F(k) : Meant(k, r) # NoDef /\ x = l.own[Meant(k, r)]
    OBVIOUS
  <2>3. \A k \in DOMAIN objs : \A r \in F(k) :
          (x # 0 /\ x = Resolve(l, objs, order, k, r)) <=> (Meant(k, r) # NoDef /\ x = l.own[Meant(k, r)])
    BY <1>5, <1>6
  <2> QED BY <2>1, <2>2, <2>3
<1>8. \A x : x \in InIface(l, objs, order) <=> x \in {l.own[p] : p \in InIfaceAt}
  BY <1>2, <1>3, <1>7
<1> QED BY <1>8

-----------------------------------------------------------------------------
(* One meaning *)

\* The tables of all orders mean the same.
LEMMA Meaning ==
  ASSUME WellMade
  PROVE  LET base   == LoadAll(objs, AsRead)
             places == DOMAIN base.own
         IN  \A order \in Orders :
               LET l == LoadAll(objs, order)
               IN  /\ l.dup = base.dup
                   /\ ~base.dup =>
                        /\ \A a, b \in places : (l.own[a] = l.own[b]) = (a = b \/ OneSymbol(a, b))
                        /\ \A a \in places : Found(l, a) = Found(base, a)
                        /\ {a \in places : l.own[a] \in l.inIface} = {a \in places : base.own[a] \in base.inIface}
                        /\ \A a \in places : a[2] \in {"defs", "nonpkg"} /\ NameKey(Symbol(objs, a)) \in Builtins =>
                             l.own[a] = l.builtin[NameKey(Symbol(objs, a))]
<1> DEFINE base == LoadAll(objs, AsRead)
<1>1. AsRead \in Orders
  <2>1. DOMAIN objs = 1 .. Len(objs) /\ Len(objs) \in Nat
    BY ObjectsAreLists DEF IsList
  <2> QED BY <2>1 DEF AsRead, Orders, IsInjective
<1>2. PICK m \in Tables : HasAll(m, All) /\ base = [m EXCEPT !.inIface = InIface(m, objs, AsRead)]
  BY <1>1, Loaded
<1>3. base.syms = m.syms /\ base.own = m.own /\ base.dup = m.dup
  BY <1>2 DEF Tables
<1>4. base.inIface = {m.own[p] : p \in InIfaceAt}
  <2>1. base.inIface = InIface(m, objs, AsRead)
    BY <1>2 DEF Tables
  <2> QED BY <1>1, <1>2, <2>1, InIfaceIs
<1>5. DOMAIN base.own = All
  BY <1>2, <1>3 DEF HasAll, Kept, Numbers
<1> HIDE DEF base
<1>6. ASSUME NEW order \in Orders
      PROVE  LET l == LoadAll(objs, order)
             IN  /\ l.dup = base.dup
                 /\ ~base.dup =>
                      /\ \A a, b \in All : (l.own[a] = l.own[b]) = (a = b \/ OneSymbol(a, b))
                      /\ \A a \in All : Found(l, a) = Found(base, a)
                      /\ {a \in All : l.own[a] \in l.inIface} = {a \in All : base.own[a] \in base.inIface}
                      /\ \A a \in All : a[2] \in {"defs", "nonpkg"} /\ NameKey(Symbol(objs, a)) \in Builtins =>
                           l.own[a] = l.builtin[NameKey(Symbol(objs, a))]
  <2> DEFINE l == LoadAll(objs, order)
  <2>1. PICK t \in Tables : HasAll(t, All) /\ l = [t EXCEPT !.inIface = InIface(t, objs, order)]
    BY Loaded
  <2>2. l.syms = t.syms /\ l.own = t.own /\ l.dup = t.dup /\ l.builtin = t.builtin
    BY <2>1 DEF Tables
  <2>3. l.inIface = {t.own[p] : p \in InIfaceAt}
    <3>1. l.inIface = InIface(t, objs, order)
      BY <2>1 DEF Tables
    <3> QED BY <2>1, <3>1, InIfaceIs
  <2> HIDE DEF l
  <2>4. l.dup = base.dup
    BY <1>2, <1>3, <2>1, <2>2, ConflictsAgree
  <2>5. ASSUME NEW a \in All, NEW b \in All PROVE (l.own[a] = l.own[b]) = (a = b \/ OneSymbol(a, b))
    BY <2>1, <2>2, OwnsAgree
  <2>6. ASSUME ~base.dup, NEW a \in All PROVE Found(l, a) = Found(base, a)
    <3>1. Found(t, a) = Found(m, a)
      BY <1>2, <1>3, <2>1, <2>6, DefinitionsAgree
    <3>2. Found(l, a) = Found(t, a) /\ Found(base, a) = Found(m, a)
      BY <1>3, <2>2 DEF Found
    <3> QED BY <3>1, <3>2
  <2>7. {a \in All : l.own[a] \in l.inIface} = {a \in All : base.own[a] \in base.inIface}
    <3>0. InIfaceAt \subseteq All
      <4>1. \A k \in DOMAIN objs : \A r \in ToSet(objs[k].flagged) : CheckedRef(objs, k, r)
        BY DEF WellMade, Checked
      <4>2. \A k \in DOMAIN objs : \A r \in ToSet(objs[k].flagged) : Meant(k, r) \in All \cup {NoDef}
        BY <4>1, MeantIsPlace
      <4> QED BY <4>2 DEF InIfaceAt
    <3>1. \A a, p \in All : t.own[a] = t.own[p] <=> Key(a) = Key(p)
      BY <2>1 DEF HasAll, Kept, OneEach
    <3>2. \A a, p \in All : m.own[a] = m.own[p] <=> Key(a) = Key(p)
      BY <1>2 DEF HasAll, Kept, OneEach
    <3>3. \A a \in All : t.own[a] \in {t.own[p] : p \in InIfaceAt} <=> m.own[a] \in {m.own[p] : p \in InIfaceAt}
      BY <3>0, <3>1, <3>2
    <3> QED BY <1>3, <1>4, <2>2, <2>3, <3>3
  <2>8. ASSUME NEW a \in All, a[2] \in {"defs", "nonpkg"}, NameKey(Symbol(objs, a)) \in Builtins
        PROVE  l.own[a] = l.builtin[NameKey(Symbol(objs, a))]
    BY <2>1, <2>2, <2>8, BuiltinsAreTheirs DEF Sym
  <2> QED BY <2>4, <2>5, <2>6, <2>7, <2>8 DEF l
<1> QED BY <1>5, <1>6 DEF base

\* In whatever order the objects of the program are loaded, preloading and
\* resolving give the same: a conflict of definitions is reported for all orders or
\* for none, and if for none every reference means the same symbol with the same
\* definition.
THEOREM OrderDoesNotMatter == LinkSpec => []OneMeaning
<1> DEFINE I == objs # NoObjects => WellMade
<1>1. LinkInit => I
  BY DEF LinkInit
<1>2. I /\ [LinkNext]_linkVars => I'
  <2> SUFFICES ASSUME I, [LinkNext]_linkVars PROVE I'
    OBVIOUS
  <2>1. objs' = objs
    BY DEF LinkNext, linkVars
  <2> QED BY <2>1 DEF WellMade, OneSymbol
<1>3. I => OneMeaning
  <2> SUFFICES ASSUME WellMade PROVE OneMeaning
    BY DEF OneMeaning
  <2> QED BY Meaning DEF OneMeaning
<1> HIDE DEF I
<1> QED BY <1>1, <1>2, <1>3, PTL DEF LinkSpec
=============================================================================
