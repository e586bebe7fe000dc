------------------------------ MODULE Deadcode ------------------------------
(***************************************************************************)
(* What the linker keeps (src/link/deadcode.go, src/link/inittask.go).     *)
(*                                                                         *)
(* A flood from the entry point follows the relocations of every symbol it *)
(* reaches.  Three things are not a graph walk: a type that reached an     *)
(* interface is walked with that attribute and hands it to its children,   *)
(* so a type walked without it is walked again; a method waits until       *)
(* something says it can be called; and once a function looks methods up   *)
(* by an unknown name every exported method can be.                        *)
(*                                                                         *)
(* prog is the program as the loader built it.                             *)
(***************************************************************************)
EXTENDS Naturals, Sequences, SequencesExt, FiniteSets

CONSTANTS Syms,        \* every symbol
          NoSym,       \* the global 0: no symbol
          Sigs,        \* method signatures
          NoSig,       \* a descriptor that does not decode
          Names,       \* method names
          NameOf,      \* the name in a signature
          Exported,    \* the names reflection can reach
          MainTasks, RuntimeTasks,  \* the two lists the linker makes
          NoWalk       \* no symbol is being walked

ASSUME SymsAssumption == /\ IsFiniteSet(Syms) /\ NoSym \notin Syms /\ NoWalk \notin Syms
                         /\ MainTasks \in Syms /\ RuntimeTasks \in Syms /\ MainTasks # RuntimeTasks
                         /\ NoSig \notin Sigs /\ IsFiniteSet(Sigs) /\ IsFiniteSet(Names)
                         /\ NameOf \in [Sigs -> Names]

VARIABLES prog,        \* the program
          list, records, seen,  \* initTaskSym: the list, the records to visit, those visited
          extra, targets,  \* the references and the symbols the linker adds
          mark,        \* Reachability.mark: the symbols kept
          from,        \* Reachability.from: what reached a symbol
          n,           \* Reachability.n: how many are kept
          rewritten,   \* Reachability.rewritten
          usedInIface, \* Loader.usedInIface
          queue,       \* the symbols to walk
          ifaceMethod, genericIfaceMethod, reflectSeen,
          markable,    \* the methods that wait to be called
          pkginits,    \* the initialisation functions walked
          phase,       \* "load", "flood", "round", "cleanup" or "done"
          cur, used,   \* the symbol being walked, and whether with the attribute
          at,          \* the next step of the walk, or the next method of the round
          rem,         \* the methods the round leaves waiting
          walks        \* history: how often a symbol was walked

walk  == <<cur, used>>
marks == <<mark, from, n, queue>>
calls == <<ifaceMethod, genericIfaceMethod, reflectSeen>>
tasks == <<list, records, seen>>
fixed == <<prog, tasks, extra, targets>>
vars  == <<fixed, marks, rewritten, usedInIface, calls, markable, pkginits, phase, walk, at, rem, walks>>

SymOrNone == Syms \cup {NoSym}

Kinds == {"ADDR", "WEAK", "WEAKCALL", "METHODOFF", "USETYPE", "USEIFACE",
          "USEIFACEMETHOD", "USENAMEDMETHOD", "INITORDER"}

\* A relocation.  The three relocations of a method are one record: sym is its
\* signature's descriptor, fns its two functions, sig what typeMethods decodes.
Reloc == [type : Kinds, sym : SymOrNone, sig : Sigs \cup {NoSig}, fns : SymOrNone \X SymOrNone]

Program == [roots    : Seq(SymOrNone),         \* the entry symbol and runtime.unreachableMethod
            defined  : SUBSET Syms,            \* symbols an object defines
            types    : SUBSET Syms,            \* those that are type descriptors
            itabs    : SUBSET Syms,
            itabType : [Syms -> SymOrNone],
            nameIn   : [Syms -> Names],        \* the name a name symbol holds
            decoded  : SUBSET Syms,            \* descriptors that agree with their relocations
            reflect  : SUBSET Syms,            \* functions that give up static analysis
            inits    : SUBSET Syms,            \* initialisation functions
            iface    : SUBSET Syms,            \* used in an interface, says an object
            relocs   : [Syms -> Seq(Reloc)],
            aux      : [Syms -> Seq(SymOrNone)],   \* the entry of a type descriptor is NoSym
            large    : SUBSET Syms,            \* initialisation records with something to run
            tasks    : [{MainTasks, RuntimeTasks} -> SymOrNone],  \* the root record of each list
            header   : SymOrNone,              \* the runtime's slice header
            noop     : SymOrNone]              \* runtime.mapinitnoop

\* What an object can hold: the methods of a descriptor that decodes have
\* signatures, and no call is weak to the function such calls are redirected to.
IsProgram(p) == /\ p \in Program
                /\ p.types \subseteq p.defined /\ p.itabs \subseteq p.defined
                /\ p.defined \cap {MainTasks, RuntimeTasks} = {}
                /\ \A g \in Syms : \A r \in ToSet(p.relocs[g]) :
                     /\ g \in p.decoded /\ r.type = "METHODOFF" => r.sig \in Sigs
                     /\ r.type = "WEAKCALL" => r.sym # p.noop \/ r.sym = NoSym

Init == /\ IsProgram(prog)
        /\ extra = [g \in Syms |-> <<>>] /\ targets = [g \in Syms |-> <<>>]
        /\ list = MainTasks /\ records = {prog.tasks[MainTasks]} \ {NoSym} /\ seen = {}
        /\ mark = {} /\ from = [g \in Syms |-> NoSym] /\ n = 0 /\ queue = <<>>
        /\ rewritten = {}
        /\ usedInIface = prog.iface
        /\ ifaceMethod = {} /\ genericIfaceMethod = {} /\ reflectSeen = FALSE
        /\ markable = <<>> /\ pkginits = <<>>
        /\ phase = "load"
        /\ cur = NoWalk /\ used = FALSE /\ at = 1 /\ rem = <<>>
        /\ walks = [g \in Syms |-> 0]

-----------------------------------------------------------------------------
(* Marks *)

Now == [mark |-> mark, from |-> from, n |-> n, queue |-> queue]

Becomes(k) == mark' = k.mark /\ from' = k.from /\ n' = k.n /\ queue' = k.queue

\* Mutant: a reference that resolves to nothing is marked.
Mark_Nil(k, g, parent) ==
  IF g \in k.mark THEN k
  ELSE [mark |-> k.mark \cup {g}, from |-> [k.from EXCEPT ![g] = parent],
        n |-> k.n + 1, queue |-> Append(k.queue, g)]

\* mark
Mark(k, g, parent) ==
  IF g = NoSym \/ g \in k.mark THEN k
  ELSE [mark |-> k.mark \cup {g}, from |-> [k.from EXCEPT ![g] = parent],
        n |-> k.n + 1, queue |-> Append(k.queue, g)]

\* Mutant: a mark that is taken back is counted twice.
Unmark_Counted(k, g) == [k EXCEPT !.mark = @ \ {g}]

\* unmark: the flood visits g again.
Unmark(k, g) == IF g \in k.mark THEN [k EXCEPT !.mark = @ \ {g}, !.n = @ - 1] ELSE k

\* markMethod: the three symbols of a method m of the type m.src.
MarkMethod(k, src, m) == Mark(Mark(Mark(k, m.sym, src), m.fns[1], src), m.fns[2], src)

\* Mutants: a type that was already walked is not walked again, or stays unmarked.
Rewalk_Not(k, g, parent)  == k
Rewalk_Lost(k, g, parent) == Unmark(k, g)

\* A type that gets the attribute after it was marked is walked again.
Rewalk(k, g, parent) == IF g \in k.mark THEN Mark(Unmark(k, g), g, parent) ELSE k

-----------------------------------------------------------------------------
(* InitTasks, then the roots *)

\* The records whose packages the package of the record g imports.
Imports(g) == IF g \in prog.defined
              THEN {r.sym : r \in {s \in ToSet(prog.relocs[g]) : s.type = "INITORDER"}} \ {NoSym} ELSE {}

\* Mutant: only the root record of a list is looked at.
Unseen_None(g) == {}

Unseen(g) == Imports(g) \ (seen \cup records)

\* initTaskSym: a record that the root of a list needs, directly or through an
\* import, is in the list if it has something to run.  The set matters and not
\* the order, so any record may be next.
Schedule(g) ==
  /\ phase = "load" /\ g \in records
  /\ records' = (records \ {g}) \cup Unseen(g)
  /\ seen' = seen \cup {g}
  /\ targets' = [targets EXCEPT ![list] = IF g \in prog.large \cap prog.defined THEN Append(@, g) ELSE @]
  /\ UNCHANGED <<prog, extra, list, marks, rewritten, usedInIface, calls, markable, pkginits, phase, walk, at, rem, walks>>

\* The list of the runtime is made only if the runtime declares its header.
RootOf(l) == IF l = RuntimeTasks /\ prog.header = NoSym THEN {} ELSE {prog.tasks[l]} \ {NoSym}

\* The list of the program is followed by that of the runtime, which the
\* runtime's slice header points at.
Listed ==
  /\ phase = "load" /\ records = {}
  /\ IF list = MainTasks
     THEN /\ list' = RuntimeTasks /\ records' = RootOf(RuntimeTasks)
          /\ UNCHANGED <<extra, phase>>
     ELSE /\ extra' = [g \in Syms |-> IF g = prog.header /\ prog.tasks[RuntimeTasks] # NoSym
                                      THEN <<RuntimeTasks>> ELSE <<>>]
          /\ phase' = "roots"
          /\ UNCHANGED <<list, records>>
  /\ seen' = {}
  /\ UNCHANGED <<prog, targets, marks, rewritten, usedInIface, calls, markable, pkginits, walk, at, rem, walks>>

Roots == Append(prog.roots, IF prog.tasks[MainTasks] # NoSym THEN MainTasks ELSE NoSym)

Root ==
  /\ phase = "roots"
  /\ IF at \in DOMAIN Roots
     THEN /\ Becomes(Mark(Now, Roots[at], NoSym))
          /\ at' = at + 1
          /\ UNCHANGED phase
     ELSE /\ phase' = "flood"
          /\ at' = 1
          /\ UNCHANGED marks
  /\ UNCHANGED <<fixed, rewritten, usedInIface, calls, markable, pkginits, walk, rem, walks>>

-----------------------------------------------------------------------------
(* flood *)

Step(type, r)  == [r EXCEPT !.type = type]
Keeping(s)     == [i \in DOMAIN s |-> [type |-> "KEEP", sym |-> s[i], sig |-> NoSig, fns |-> <<NoSym, NoSym>>]]
Deciding(s)    == [i \in DOMAIN s |-> IF s[i].type = "METHODOFF" THEN Step("DECIDE", s[i]) ELSE Step("WEAK", s[i])]

\* What the walk of a symbol does, in order: what the linker added, the
\* relocations, the auxiliary entries, and the methods once all are known.
Steps(g) == Keeping(extra[g]) \o
            IF g \in {MainTasks, RuntimeTasks} THEN Keeping(targets[g])
            ELSE IF g \in prog.defined
                 THEN prog.relocs[g] \o Keeping(prog.aux[g]) \o Deciding(prog.relocs[g])
                 ELSE <<>>

\* The last symbol queued is walked first.
Pop == /\ phase = "flood" /\ cur = NoWalk /\ queue # <<>>
       /\ cur' = Last(queue)
       /\ queue' = Front(queue)
       /\ used' = (cur' \in prog.types /\ cur' \in usedInIface)
       /\ at' = 1
       /\ reflectSeen' = (reflectSeen \/ cur' \in prog.reflect \cap prog.defined)
       /\ walks' = [walks EXCEPT ![cur'] = @ + 1]
       /\ UNCHANGED <<fixed, mark, from, n, rewritten, usedInIface, ifaceMethod, genericIfaceMethod,
                      markable, pkginits, phase, rem>>

Here == Steps(cur)[at]

Walking(types) == /\ phase = "flood" /\ cur # NoWalk /\ at \in DOMAIN Steps(cur)
                  /\ Here.type \in types
                  /\ at' = at + 1
                  /\ UNCHANGED <<fixed, rewritten, pkginits, phase, walk, rem, walks>>

\* Weak references, debug markers, ordering edges, and the methods of a type
\* that is walked without the attribute keep nothing.
Ignore == /\ Walking({"WEAK", "WEAKCALL", "USETYPE", "INITORDER"} \cup
                     IF used THEN {} ELSE {"METHODOFF", "DECIDE"})
          /\ UNCHANGED <<marks, usedInIface, calls, markable>>

Keep == /\ Walking({"KEEP"})
        /\ Becomes(Mark(Now, Here.sym, cur))
        /\ UNCHANGED <<usedInIface, calls, markable>>

\* Mutant: a child that has the attribute inherits it again.
Inherits_Always(g) == used /\ g \in prog.types

\* An ordinary reference.  A child of a type with the attribute inherits it,
\* and is walked again with it.
Inherits(g) == used /\ g \in prog.types \ usedInIface

Reference == /\ Walking({"ADDR"})
             /\ LET rs == Here.sym
                IN  /\ usedInIface' = usedInIface \cup IF Inherits(rs) THEN {rs} ELSE {}
                    /\ Becomes(Mark(IF Inherits(rs) THEN Unmark(Now, rs) ELSE Now, rs, cur))
             /\ UNCHANGED <<calls, markable>>

\* setUsedInIface
SetUsedInIface(g) ==
  IF g = NoSym \/ g \in usedInIface THEN UNCHANGED <<usedInIface, marks>>
  ELSE usedInIface' = usedInIface \cup {g} /\ Becomes(Rewalk(Now, g, cur))

\* The marker can name an itab, and then means the type the itab is for.
Marked(g) == IF g \in prog.itabs THEN prog.itabType[g] ELSE g

UseIface == /\ Walking({"USEIFACE"})
            /\ SetUsedInIface(Marked(Here.sym))
            /\ UNCHANGED <<calls, markable>>

\* The signature of a method is a type that reflection can reach.
MethodType == /\ used
              /\ Walking({"METHODOFF"})
              /\ SetUsedInIface(Here.sym)
              /\ UNCHANGED <<calls, markable>>

UseIfaceMethod == /\ Walking({"USEIFACEMETHOD"})
                  /\ ifaceMethod' = ifaceMethod \cup
                       IF Here.sym \in prog.defined /\ Here.sig # NoSig THEN {Here.sig} ELSE {}
                  /\ UNCHANGED <<marks, usedInIface, genericIfaceMethod, reflectSeen, markable>>

UseNamedMethod == /\ Walking({"USENAMEDMETHOD"})
                  /\ genericIfaceMethod' = genericIfaceMethod \cup
                       IF Here.sym \in prog.defined THEN {prog.nameIn[Here.sym]} ELSE {}
                  /\ UNCHANGED <<marks, usedInIface, ifaceMethod, reflectSeen, markable>>

\* A method waits, unless the pass cannot say which method it is.
Decide == /\ used
          /\ Walking({"DECIDE"})
          /\ IF cur \in prog.decoded
             THEN markable' = Append(markable, [src |-> cur, method |-> Here]) /\ UNCHANGED marks
             ELSE Becomes(MarkMethod(Now, cur, Here)) /\ UNCHANGED markable
          /\ UNCHANGED <<usedInIface, calls>>

EndWalk == /\ phase = "flood" /\ cur # NoWalk /\ at \notin DOMAIN Steps(cur)
           /\ cur' = NoWalk /\ used' = FALSE /\ at' = 1
           /\ pkginits' = IF cur \in prog.inits \cap prog.defined /\ prog.aux[cur] # <<>>
                          THEN Append(pkginits, cur) ELSE pkginits
           /\ UNCHANGED <<fixed, marks, rewritten, usedInIface, calls, markable, phase, rem, walks>>

-----------------------------------------------------------------------------
(* Deadcode: the flood and the methods alternate, then the cleanup *)

FloodDone == /\ phase = "flood" /\ cur = NoWalk /\ queue = <<>>
             /\ phase' = "round"
             /\ UNCHANGED <<fixed, marks, rewritten, usedInIface, calls, markable, pkginits, walk, at, rem, walks>>

\* Mutant: reflection reaches methods that are not exported.
Callable_Reflect(sig) == reflectSeen \/ sig \in ifaceMethod \/ NameOf[sig] \in genericIfaceMethod

Callable(sig) == \/ reflectSeen /\ NameOf[sig] \in Exported
                 \/ sig \in ifaceMethod
                 \/ NameOf[sig] \in genericIfaceMethod

Judge == /\ phase = "round" /\ at \in DOMAIN markable
         /\ LET m == markable[at]
            IN  IF Callable(m.method.sig)
                THEN Becomes(MarkMethod(Now, m.src, m.method)) /\ UNCHANGED rem
                ELSE rem' = Append(rem, m) /\ UNCHANGED marks
         /\ at' = at + 1
         /\ UNCHANGED <<fixed, rewritten, usedInIface, calls, markable, pkginits, phase, walk, walks>>

\* Mutants: the flood is not run again for the methods the round kept, or always.
NextPhase_Once  == "cleanup"
NextPhase_Again == "flood"

NextPhase == IF queue = <<>> THEN "cleanup" ELSE "flood"

RoundDone == /\ phase = "round" /\ at \notin DOMAIN markable
             /\ markable' = rem
             /\ rem' = <<>> /\ at' = 1
             /\ phase' = NextPhase
             /\ UNCHANGED <<fixed, marks, rewritten, usedInIface, calls, pkginits, walk, walks>>

\* Mutant: only the first call of a function is looked at.
Pruned_First(g) == {r \in {prog.relocs[g][1]} : r.type = "WEAKCALL" /\ r.sym # NoSym /\ r.sym \notin mark}

\* The weak calls of an initialisation function to what the program dropped.
Pruned(g) == {r \in ToSet(prog.relocs[g]) : r.type = "WEAKCALL" /\ r.sym # NoSym /\ r.sym \notin mark}

\* mapInitCleanup: the calls go to noop, which is kept and not walked.
Redirected == IF prog.noop = NoSym THEN {} ELSE {i \in DOMAIN pkginits : Pruned(pkginits[i]) # {}}

Cleanup ==
  /\ phase = "cleanup"
  /\ rewritten' = {pkginits[i] : i \in Redirected}
  /\ \/ Redirected = {} /\ UNCHANGED <<mark, from, n>>
     \/ \E i \in Redirected :
          /\ \A j \in Redirected : i <= j
          /\ LET k == Mark(Now, prog.noop, pkginits[i])
             IN  mark' = k.mark /\ from' = k.from /\ n' = k.n
  /\ phase' = "done"
  /\ UNCHANGED <<fixed, queue, usedInIface, calls, markable, pkginits, walk, at, rem, walks>>

Next == \/ (\E g \in Syms : Schedule(g)) \/ Listed \/ Root
        \/ Pop \/ Ignore \/ Keep \/ Reference \/ UseIface \/ MethodType
        \/ UseIfaceMethod \/ UseNamedMethod \/ Decide \/ EndWalk
        \/ FloodDone \/ Judge \/ RoundDone \/ Cleanup

Spec == Init /\ [][Next]_vars /\ WF_vars(Next)

-----------------------------------------------------------------------------
(* What a program uses, by rules that know no order *)

\* Facts: the symbols used, the types used in an interface, the signatures and
\* the names of methods called through one, and the use of unknown names.
Facts == [kept |-> mark, iface |-> usedInIface, sigs |-> ifaceMethod,
          names |-> genericIfaceMethod, reflect |-> reflectSeen]

CanBeCalled(F, sig) == (F.reflect /\ NameOf[sig] \in Exported) \/ sig \in F.sigs \/ NameOf[sig] \in F.names

\* The relocation r of g calls for facts in G, given the facts F.
Follows(g, r, F, G) ==
  LET inIface == g \in prog.types /\ g \in F.iface
      nor(S)  == S \cup {NoSym}
  IN  CASE r.type = "ADDR" -> /\ r.sym \in nor(G.kept)
                              /\ inIface /\ r.sym \in prog.types => r.sym \in G.iface
        [] r.type = "USEIFACE" -> Marked(r.sym) \in nor(G.iface)
        [] r.type = "USEIFACEMETHOD" -> r.sym \in prog.defined /\ r.sig # NoSig => r.sig \in G.sigs
        [] r.type = "USENAMEDMETHOD" -> r.sym \in prog.defined => prog.nameIn[r.sym] \in G.names
        [] r.type = "METHODOFF" -> inIface => /\ r.sym \in nor(G.iface)
                                              /\ g \notin prog.decoded \/ CanBeCalled(F, r.sig) =>
                                                   {r.sym, r.fns[1], r.fns[2]} \subseteq nor(G.kept)
        [] OTHER -> TRUE

\* G holds whatever the facts F call for.
CallsFor(F, G) ==
  /\ prog.iface \subseteq G.iface
  /\ ToSet(Roots) \subseteq G.kept \cup {NoSym}
  /\ \A g \in F.kept :
       /\ ToSet(extra[g]) \subseteq G.kept
       /\ g \in {MainTasks, RuntimeTasks} => ToSet(targets[g]) \subseteq G.kept
       /\ g \in prog.defined => /\ ToSet(prog.aux[g]) \subseteq G.kept \cup {NoSym}
                                /\ g \in prog.reflect => G.reflect
                                /\ \A r \in ToSet(prog.relocs[g]) : Follows(g, r, F, G)

Closed(F) == CallsFor(F, F)

\* The facts there can be, one by one, and what a set of them says.
Fact == {<<"kept", g>> : g \in Syms} \cup {<<"iface", g>> : g \in Syms} \cup
        {<<"sigs", m>> : m \in Sigs} \cup {<<"names", m>> : m \in Names} \cup {<<"reflect", TRUE>>}
Told(X) == [kept  |-> {g \in Syms : <<"kept", g>> \in X},  iface |-> {g \in Syms : <<"iface", g>> \in X},
            sigs  |-> {m \in Sigs : <<"sigs", m>> \in X},  names |-> {m \in Names : <<"names", m>> \in X},
            reflect |-> <<"reflect", TRUE>> \in X]

\* What facts F call for: without it, not even all the others would do.
Consequences(F) == {x \in Fact : ~CallsFor(F, Told(Fact \ {x}))}

\* From nothing, what is called for is added until nothing is.
Further(X) == IF Closed(Told(X)) THEN X ELSE X \cup Consequences(Told(X))
Needed == LET needed[k \in 0 .. Cardinality(Fact)] == IF k = 0 THEN {} ELSE Further(needed[k - 1])
          IN  Told(needed[Cardinality(Fact)])

-----------------------------------------------------------------------------
(* Properties *)

\* The type of the state; what is queued is marked.
TypeOK == /\ IsProgram(prog)
          /\ list \in {MainTasks, RuntimeTasks} /\ records \subseteq Syms /\ seen \subseteq Syms
          /\ extra \in [Syms -> Seq(Syms)] /\ targets \in [Syms -> Seq(Syms)]
          /\ mark \subseteq Syms /\ from \in [Syms -> SymOrNone] /\ n \in Nat
          /\ queue \in Seq(Syms) /\ rewritten \subseteq Syms
          /\ usedInIface \subseteq Syms
          /\ ifaceMethod \subseteq Sigs /\ genericIfaceMethod \subseteq Names /\ reflectSeen \in BOOLEAN
          /\ pkginits \in Seq(Syms)
          /\ phase \in {"load", "roots", "flood", "round", "cleanup", "done"}
          /\ cur \in Syms \cup {NoWalk} /\ used \in BOOLEAN /\ at \in Nat

\* The records a list needs: those in every set that holds its root record and
\* the imports of what it holds.
Ordered == {g \in Syms : \E r \in ToSet(prog.relocs[g]) : r.type = "INITORDER"}
Needs(l) == LET closed == {S \in SUBSET (Ordered \cup RootOf(l) \cup UNION {Imports(g) : g \in Ordered}) :
                             RootOf(l) \subseteq S /\ \A g \in S : Imports(g) \subseteq S}
            IN  {g \in prog.large \cap prog.defined : \A S \in closed : g \in S}

\* A list holds the records its root needs that have something to run, each once.
ListsExact == phase = "roots" => \A l \in {MainTasks, RuntimeTasks} :
                /\ ToSet(targets[l]) = Needs(l)
                /\ Len(targets[l]) = Cardinality(Needs(l))

\* Whatever a kept symbol calls for is kept: no type that gets the interface
\* attribute late, no method that becomes callable late, and no child of such a
\* type is missed when the flood and the rounds end.
KeepsWhatIsUsed == phase = "cleanup" => Closed(Facts)

\* The pass keeps what the program uses and nothing else, the function that
\* redirected calls go to apart, whatever the order it comes upon things.
KeepsExactly == phase = "cleanup" => Facts = Needed

\* Every kept symbol was reached from one that is kept.
ParentsKept == \A g \in mark : from[g] \in mark \cup {NoSym}

\* The count follows the marks, through the marks that are taken back.
CountExact == n = Cardinality(mark)

\* No call of a kept initialisation function is left to a function that is
\* dropped: it is redirected to one that is kept.
CallsLand ==
  phase = "done" /\ prog.noop # NoSym =>
    \A g \in mark \cap prog.inits \cap prog.defined : \A r \in ToSet(prog.relocs[g]) :
       r.type = "WEAKCALL" /\ prog.aux[g] # <<>> /\ r.sym \notin mark \cup {NoSym} /\ walks[g] > 0 =>
         g \in rewritten /\ prog.noop \in mark

\* "A type is walked at most twice because the attribute only ever goes from
\* unset to set", and nothing else is walked twice.
WalkedAtMostTwice == \A g \in Syms : walks[g] <= IF g \in prog.types THEN 2 ELSE 1

\* "The chain from any symbol ends at a root": following what reached a symbol
\* gives a chain that names its cause.
ChainNamesCause ==
  phase = "done" => \A g \in mark :
    FoldLeft(LAMBDA above, i : IF above = NoSym THEN NoSym ELSE from[above],
             g, [i \in 1 .. Cardinality(Syms) |-> i]) = NoSym

\* The pass ends.
Ends == <>(phase = "done")
=============================================================================
