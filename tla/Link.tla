-------------------------------- MODULE Link --------------------------------
(***************************************************************************)
(* The loader in front of the reachability pass: the program that Deadcode *)
(* walks is what Loader makes of objects, whose symbols are Deadcode's by  *)
(* their numbers.  objs is NoObjects where the program comes from nowhere. *)
(***************************************************************************)
EXTENDS Deadcode, Loader

CONSTANTS NoObjects,
          Starts     \* the names that the pass starts from, with their ABIs

VARIABLE objs

linkVars == <<vars, objs>>

AsRead == [k \in DOMAIN objs |-> k]

\* The relocations of a symbol, as the object means them that its definition is in.
Relocations(l, g) ==
  LET def == l.syms[g]
      s   == Symbol(objs, def)
  IN  [i \in DOMAIN s.relocs |->
         [type |-> s.relocs[i].type, sym |-> LET to == Resolve(l, objs, AsRead, def[1], s.relocs[i].ref)
                                             IN  IF to = 0 THEN NoSym ELSE to,
          sig |-> NoSig, fns |-> <<NoSym, NoSym>>]]

\* What the pass is given: functions and data, no types.
Linked ==
  LET l == LoadAll(objs, AsRead)
      defined == {g \in DOMAIN l.syms : l.syms[g] # NoDef}
  IN  [roots |-> [i \in DOMAIN Starts |-> IF Starts[i] \in DOMAIN l.byName THEN l.byName[Starts[i]] ELSE NoSym],
       defined |-> defined,
       types |-> {}, itabs |-> {}, itabType |-> [g \in Syms |-> NoSym],
       nameIn |-> [g \in Syms |-> CHOOSE m \in Names : TRUE],
       decoded |-> {}, reflect |-> {}, inits |-> {}, iface |-> l.inIface,
       relocs |-> [g \in Syms |-> IF g \in defined THEN Relocations(l, g) ELSE <<>>],
       aux |-> [g \in Syms |-> <<>>], large |-> {},
       tasks |-> [t \in {MainTasks, RuntimeTasks} |-> NoSym], header |-> NoSym, noop |-> NoSym]

\* Two places are of one symbol: of one hash, or of one name that another file
\* can name, unless both are definitions of packages.
OneSymbol(a, b) ==
  LET s == Symbol(objs, a)
      t == Symbol(objs, b)
      byHash(d) == d[2] \in {"hashed64", "hashed"}
  IN  CASE byHash(a) \/ byHash(b) -> a[2] = b[2] /\ s.hash = t.hash
        [] OTHER -> /\ s.name # NoName /\ ~Static(s)
                    /\ NameKey(s) = NameKey(t)
                    /\ a[2] # "defs" \/ b[2] # "defs"

\* What the compiler made the objects of: what is referred to has a name, a package
\* definition is "unique by construction", and of two definitions of one symbol
\* between which only the size decides either will do when the size is the same.
WellMade ==
  /\ Checked(objs)
  /\ \A p \in Places(objs) : p[2] = "refs" => Symbol(objs, p).name # NoName
  /\ \A a, b \in Places(objs) :
       LET s == Symbol(objs, a)
           t == Symbol(objs, b)
       IN  /\ a # b /\ a[2] = "defs" /\ b[2] = "defs" /\ s.name # NoName /\ ~Static(s) => NameKey(s) # NameKey(t)
           /\ /\ OneSymbol(a, b) /\ "refs" \notin {a[2], b[2]} /\ s.size = t.size
              /\ a[2] \in {"hashed64", "hashed"} \/ (s.dupok /\ t.dupok) \/ (IsBSS(s) /\ IsBSS(t))
              => <<s.kind, s.content, s.hash>> = <<t.kind, t.content, t.hash>>

LinkInit == Init /\ (objs # NoObjects => WellMade /\ prog = Linked)
LinkNext == Next /\ UNCHANGED objs
LinkSpec == LinkInit /\ [][LinkNext]_linkVars

-----------------------------------------------------------------------------
(* Property *)

\* Orders in which the objects may come: those of one archive keep theirs.
Orders == {order \in [DOMAIN objs -> DOMAIN objs] :
             /\ IsInjective(order)
             /\ \A i, j \in DOMAIN objs : i < j /\ objs[order[i]].path = objs[order[j]].path => order[i] < order[j]}

\* What a place finds, but for the names of merged symbols.
Found(l, place) == LET def == l.syms[l.own[place]]
                    s   == Symbol(objs, def)
                IN  IF def = NoDef THEN NoDef
                    ELSE <<s.kind, s.content, s.size, s.hash>>

\* In whatever order the objects come, a conflict of two definitions is reported
\* or is not, and if it is not every reference means the same symbol with the
\* same definition: one for each name and each hash, the predeclared names
\* included, and with the same types used in an interface ("the order is not a
\* detail", says LoadProgram, but only of the names of what was merged).
OneMeaning ==
  objs # NoObjects /\ phase = "load" /\ list = MainTasks =>
    LET base   == LoadAll(objs, AsRead)
        places == DOMAIN base.own
    IN  \A order \in Orders :
          LET l == LoadAll(objs, order)
          IN  /\ l.dup = base.dup
              /\ ~base.dup =>
                   /\ \A a, b \in places : (l.own[a] = l.own[b]) = (a = b \/ OneSymbol(a, b))
                   /\ \A a \in places : Found(l, a) = Found(base, a)
                   /\ {a \in places : l.own[a] \in l.inIface} = {a \in places : base.own[a] \in base.inIface}
                   /\ \A a \in places : a[2] \in {"defs", "nonpkg"} /\ NameKey(Symbol(objs, a)) \in Builtins =>
                        l.own[a] = l.builtin[NameKey(Symbol(objs, a))]
=============================================================================
