------------------------------- MODULE Loader -------------------------------
(***************************************************************************)
(* The symbol table of the whole program (src/link/loader.go): which       *)
(* definitions of which objects are one symbol, and what a reference in an *)
(* object means.                                                           *)
(*                                                                         *)
(* objs is a sequence of objects.  An object has four spaces of definitions*)
(* (defs, hashed64, hashed, nonpkg), the names it refers to (refs), its    *)
(* package (path), those it refers to (pkglist, all in the link), and the  *)
(* references it says are to types used in an interface (flagged).  A      *)
(* symbol has name, abi, dupok, size, kind, content (it is not zero        *)
(* filled), hash, inIface and relocs.  A reference is a pair of a space and*)
(* an index: "none" is the space of names, those defined here and then     *)
(* those that are not, "builtin" that of the predeclared names, and        *)
(* "package" that of the definitions of other packages, whose index is the *)
(* number of the package and that of the definition.                       *)
(*                                                                         *)
(* A place is an object, a space and an index: a definition, or a name that*)
(* an object refers to.                                                    *)
(*                                                                         *)
(* The operators pass a table l along: the definition of each symbol, or   *)
(* NoDef (syms, by the symbol's number), the symbol of each place (own),   *)
(* the tables of names and hashes, the symbols of the predeclared names,   *)
(* whether there is a conflict to report, and the symbols used in an       *)
(* interface.  Which symbols are local to a file is left out.              *)
(***************************************************************************)
EXTENDS Integers, SequencesExt

CONSTANT Builtins   \* the predeclared names, each with its ABI

NoDef  == <<>>
NoName == ""

EmptyTable == [syms |-> <<>>, own |-> <<>>, byName |-> <<>>, hashed |-> <<>>,
               builtin |-> <<>>, dup |-> FALSE, inIface |-> {}]

\* A symbol that no file but its own can name.
Static(s) == s.abi = "static"
NameKey(s) == <<s.name, s.abi>>

Symbol(objs, def) == objs[def[1]][def[2]][def[3]]

\* The predeclared names are names that any file can use.
ASSUME BuiltinsAssumption == \A key \in Builtins : key[1] # NoName /\ key[2] # "static"

\* Zero-filled data.
IsBSS(s) == s.kind = "data" /\ ~s.content

\* f with y for x.
With(f, x, y) == [z \in {x} \cup DOMAIN f |-> IF z = x THEN y ELSE f[z]]

-----------------------------------------------------------------------------
(* The objects (src/obj/write.go) *)

Spaces == {"defs", "hashed64", "hashed", "nonpkg", "refs"}
Places(objs) == UNION {UNION {{<<k, space, i>> : i \in DOMAIN objs[k][space]} : space \in Spaces} : k \in DOMAIN objs}

IsList(s) == Len(s) \in Nat /\ DOMAIN s = 1 .. Len(s)

\* checkRef, and that the packages of the list are in the link (loadRefs).
CheckedRef(objs, k, r) ==
  \/ r[1] = "none" /\ r[2] \in 1 .. Len(objs[k].nonpkg) + Len(objs[k].refs)
  \/ r[1] = "builtin"
  \/ /\ r[1] = "package" /\ r[2][1] \in DOMAIN objs[k].pkglist
     /\ \E j \in DOMAIN objs : objs[j].path = objs[k].pkglist[r[2][1]]
  \/ r[1] \in {"defs", "hashed64", "hashed"} /\ r[2] \in DOMAIN objs[k][r[1]]

\* What Package.check lets into an object: a symbol that tolerates others belongs
\* to no package, and the references exist.
Checked(objs) ==
  /\ IsList(objs)
  /\ \A k \in DOMAIN objs, space \in Spaces : IsList(objs[k][space])
  /\ \A p \in Places(objs) :
       LET s == Symbol(objs, p)
       IN  /\ s.size \in Nat /\ s.kind \in {"text", "data"} /\ {s.dupok, s.content} \subseteq BOOLEAN
           /\ p[2] = "defs" => ~s.dupok
           /\ \A i \in DOMAIN s.relocs : CheckedRef(objs, p[1], s.relocs[i].ref)
  /\ \A k \in DOMAIN objs : \A r \in ToSet(objs[k].flagged) : CheckedRef(objs, k, r)

-----------------------------------------------------------------------------
(* addSym *)

\* A symbol of its own for a definition, or for a name that has none.
Entered(l, place, def) == [l EXCEPT !.syms = Append(@, def), !.own = With(@, place, Len(l.syms) + 1)]

\* The definition is the symbol g, and what is found there if it wins.
Merged(l, def, g, wins) == [l EXCEPT !.own = With(@, def, g), !.syms[g] = IF wins THEN def ELSE @]

\* A content-addressable symbol is the one with its hash: the larger wins.
AddHashed(l, objs, def) ==
  LET s   == Symbol(objs, def)
      key == <<def[2], s.hash>>
      g   == l.hashed[key]
  IN  IF key \in DOMAIN l.hashed THEN Merged(l, def, g, s.size > Symbol(objs, l.syms[g]).size)
      ELSE [Entered(l, def, def) EXCEPT !.hashed = With(@, key, Len(l.syms) + 1)]

\* The new definition s of a name replaces the old.
Wins(s, old) ==
  IF s.dupok THEN old.dupok /\ old.size < s.size
  ELSE old.dupok \/ (IsBSS(old) /\ (s.kind = "text" \/ s.content \/ (IsBSS(s) /\ s.size > old.size)))

\* Two definitions with content.
Conflict(s, old) == ~s.dupok /\ ~old.dupok /\ ~Wins(s, old) /\ ~IsBSS(s)

\* A definition of a package is its own symbol and takes the name; one outside
\* the packages is merged with the one that has the name.
AddNamed(l, objs, def) ==
  LET s    == Symbol(objs, def)
      g    == l.byName[NameKey(s)]
      old  == Symbol(objs, l.syms[g])
      fresh == Entered(l, def, def)
  IN  IF s.name = NoName \/ Static(s) THEN fresh
      ELSE IF def[2] = "defs" \/ NameKey(s) \notin DOMAIN l.byName
      THEN [fresh EXCEPT !.byName = With(@, NameKey(s), Len(l.syms) + 1)]
      ELSE [Merged(l, def, g, Wins(s, old)) EXCEPT !.dup = @ \/ Conflict(s, old)]

\* registerBuiltin
RegisterBuiltin(l, objs, def) ==
  LET key == NameKey(Symbol(objs, def))
  IN  IF key \in Builtins THEN [l EXCEPT !.builtin = With(@, key, l.own[def])] ELSE l

Preload(l, objs, k, space) ==
  LET Add(m, i) == LET def == <<k, space, i>>
                   IN  IF space \in {"defs", "nonpkg"} THEN RegisterBuiltin(AddNamed(m, objs, def), objs, def)
                                                      ELSE AddHashed(m, objs, def)
  IN  FoldLeft(Add, l, [i \in DOMAIN objs[k][space] |-> i])

-----------------------------------------------------------------------------
(* Load *)

\* A name that nothing defines is a symbol without a definition.
LookupOrCreate(l, s, place) ==
  LET found == ~Static(s) /\ NameKey(s) \in DOMAIN l.byName
      fresh == Entered(l, place, NoDef)
  IN  IF found THEN [l EXCEPT !.own = With(@, place, l.byName[NameKey(s)])]
      ELSE IF Static(s) THEN fresh ELSE [fresh EXCEPT !.byName = With(@, NameKey(s), Len(l.syms) + 1)]

\* The first object of a package holds the indices that other packages use.
PkgObject(objs, order, pkg) == order[SelectInSeq(order, LAMBDA k : objs[k].path = pkg)]

LoadRefs(l, objs, k) ==
  FoldLeft(LAMBDA m, i : LookupOrCreate(m, objs[k].refs[i], <<k, "refs", i>>), l, [i \in DOMAIN objs[k].refs |-> i])

\* The symbol that the reference r of the object k means, or 0.
Resolve(l, objs, order, k, r) ==
  LET At(j, space, i) == l.own[<<j, space, i>>]
      other == PkgObject(objs, order, objs[k].pkglist[r[2][1]])
      named == Len(objs[k].nonpkg)
  IN  CASE r[1] = "none"    -> IF r[2] <= named THEN At(k, "nonpkg", r[2]) ELSE At(k, "refs", r[2] - named)
        [] r[1] = "builtin" -> IF r[2] \in DOMAIN l.builtin THEN l.builtin[r[2]] ELSE 0
        [] r[1] = "package" -> IF r[2][2] \in DOMAIN objs[other].defs THEN At(other, "defs", r[2][2]) ELSE 0
        [] OTHER            -> At(k, r[1], r[2])

\* A type is used in an interface if a definition of it or a reference says so.
InIface(l, objs, order) ==
  {l.own[d] : d \in {d \in DOMAIN l.own : d[2] # "refs" /\ Symbol(objs, d).inIface}} \cup
  ((UNION {{Resolve(l, objs, order, k, r) : r \in ToSet(objs[k].flagged)} : k \in DOMAIN objs}) \ {0})

PreloadRest(l, objs, k) == Preload(Preload(Preload(l, objs, k, "hashed64"), objs, k, "hashed"), objs, k, "nonpkg")

\* Mutant: all of an object, then all of the next.
Definitions_ByObject(objs, order) ==
  FoldLeft(LAMBDA l, k : PreloadRest(Preload(l, objs, k, "defs"), objs, k), EmptyTable, order)

\* The definitions of the packages first, so that the others see the names.
Definitions(objs, order) ==
  FoldLeft(LAMBDA l, k : PreloadRest(l, objs, k),
           FoldLeft(LAMBDA l, k : Preload(l, objs, k, "defs"), EmptyTable, order), order)

LoadAll(objs, order) ==
  LET l == FoldLeft(LAMBDA m, k : LoadRefs(m, objs, k), Definitions(objs, order), order)
  IN  [l EXCEPT !.inIface = InIface(l, objs, order)]
=============================================================================
