----------------------------- MODULE MCDeadcode -----------------------------
(* Programs of an entry point, a function, two types that may refer to each   *)
(* other, an itab, a method of each type, an initialisation function and a    *)
(* function a weak call may name; and programs of three objects that define   *)
(* and refer to one name in every way, with definitions merged by hash.       *)
EXTENDS Link

Entry == 1
Fn    == 2
A     == 3
B     == 4
Itab  == 5      \* for B
MA    == 6      \* the method of A
MB    == 7      \* the method of B
Mtype == 8      \* the type of both
Iface == 9      \* an interface descriptor
Named == 10     \* a symbol that holds a method name
Pkg   == 11     \* an initialisation function
Lazy  == 12     \* a map initialiser
Noop  == 13
Task  == 14     \* the initialisation record of main, and of an import of it
Import == 15
MCMain == 16
MCRuntime == 17
Header == 18
Mid == 19       \* the record of a package that only imports

MCSyms == 1 .. 19
MCSigs == {"get", "Put"}
MCName == [s \in MCSigs |-> s]

Rel(type, sym)      == [type |-> type, sym |-> sym, sig |-> NoSig, fns |-> <<NoSym, NoSym>>]
Method(sig, fn)     == [type |-> "METHODOFF", sym |-> Mtype, sig |-> sig, fns |-> <<fn, fn>>]
Through(sig)        == [type |-> "USEIFACEMETHOD", sym |-> Iface, sig |-> sig, fns |-> <<NoSym, NoSym>>]

EntryCode == {<<Rel("ADDR", Fn)>> \o c : c \in
               {<<Rel("ADDR", A)>>, <<Rel("USEIFACE", A), Rel("ADDR", A)>>, <<Rel("ADDR", A), Rel("USEIFACE", A)>>,
                <<Rel("ADDR", Itab), Rel("USEIFACE", Itab)>>, <<Rel("ADDR", B), Through("get")>>,
                <<Rel("USENAMEDMETHOD", Named), Rel("ADDR", A)>>}}
FnCode    == {<<>>, <<Rel("USEIFACE", A)>>, <<Rel("USEIFACE", Itab), Through("Put")>>, <<Rel("ADDR", B), Rel("WEAK", MB)>>}
ACode     == {<<Method("get", MA)>>, <<Rel("ADDR", B)>>, <<Rel("ADDR", B), Method("get", MA)>>}
BCode     == {<<Rel("ADDR", A), Method("Put", MB)>>, <<Rel("USETYPE", A), Method("Put", MB)>>}
MACode    == {<<>>, <<Rel("USEIFACE", B), Through("Put")>>, <<Rel("ADDR", Lazy)>>}

\* How the program is initialised: the import has an initialisation function or
\* not, which calls a map initialiser weakly.
PkgCode   == {<<Rel("ADDR", Fn), Rel("WEAKCALL", Lazy)>>}

Make(e, f, a, b, m, pkg, iface, reflect, decoded, noop) ==
  [roots |-> <<Entry, NoSym>>,
   defined |-> MCSyms \ {MCMain, MCRuntime},
   types |-> {A, B, Mtype}, itabs |-> {Itab},
   itabType |-> [g \in MCSyms |-> IF g = Itab THEN B ELSE NoSym],
   nameIn |-> [g \in MCSyms |-> "get"],
   decoded |-> decoded, reflect |-> reflect, inits |-> {Pkg}, iface |-> iface,
   relocs |-> [g \in MCSyms |-> CASE g = Entry -> e [] g = Fn -> f [] g = A -> a [] g = B -> b [] g = MA -> m
                 [] g = Itab -> <<Rel("ADDR", B)>> [] g = Pkg -> pkg
                 [] g = Task -> <<Rel("INITORDER", Mid), Rel("INITORDER", Import)>> [] g = Mid -> <<Rel("INITORDER", Import)>> [] g = Import -> <<Rel("ADDR", Pkg)>> [] OTHER -> <<>>],
   aux |-> [g \in MCSyms |-> IF g = Pkg THEN <<Header>> ELSE <<>>],
   large |-> {Task, Import}, tasks |-> (MCMain :> Task @@ MCRuntime :> IF noop = NoSym THEN NoSym ELSE Mid),
   header |-> Header, noop |-> noop]

Programs == {Make(e, f, a, b, m, pkg, iface, reflect, MCSyms, Noop) :
               e \in EntryCode, f \in FnCode, a \in ACode, b \in BCode, m \in MACode, pkg \in PkgCode,
               iface \in {{}, {B}}, reflect \in {{}, {Fn}}}
       \cup {Make(e, f, a, b, m, pkg, {B}, {}, {A}, NoSym) :
               e \in EntryCode, f \in FnCode, a \in ACode, b \in BCode, m \in MACode, pkg \in {<<>>}}

-----------------------------------------------------------------------------
(* Objects: each has a function, data without a name, data of its file, and   *)
(* maybe data with a hash.  How each has the name Shared is its choice f.          *)

Internal(name) == <<name, "internal">>
Shared == "runtime.f"
MCStarts   == <<<<"main", "abi0">>, Internal("main"), <<"runtime.unreachableMethod", "abi0">>, Internal("runtime.unreachableMethod")>>
MCBuiltins == {Internal(Shared)}

Plain(name, abi, kind) == [name |-> name, abi |-> abi, kind |-> kind, dupok |-> FALSE, size |-> 1,
                           content |-> kind = "data", hash |-> 0, inIface |-> FALSE, relocs |-> <<>>]
WayList == <<"ref", "package", "zero", "dupok", "text", "dupokLarge", "zeroLarge", "zeroPackage", "data", "abi0">>
Ways == ToSet(WayList)
Defines(f) ==
  LET data == Plain(Shared, "internal", "data")
      size(s) == IF f \in {"dupokLarge", "zeroLarge"} THEN [s EXCEPT !.size = 2] ELSE s
  IN  CASE f \in {"dupok", "dupokLarge"} -> [size(data) EXCEPT !.dupok = TRUE]
        [] f \in {"zero", "zeroLarge", "zeroPackage"} -> [size(data) EXCEPT !.content = FALSE]
        [] f = "text" -> Plain(Shared, "internal", "text")
        [] f = "abi0" -> Plain(Shared, "abi0", "text")
        [] OTHER -> data

Only(c, s) == IF c THEN <<s>> ELSE <<>>
To(space, i) == [type |-> "ADDR", ref |-> <<space, i>>]

\* The object k of the package path: it calls those of callees.
Obj(k, path, f, size, callees) ==
  LET inPkg  == f \in {"package", "zeroPackage"}
      refs   == f \in {"ref", "abi0"}
      toF    == IF inPkg THEN To("defs", 3) ELSE To("none", 2)
      code   == <<toF, To("defs", 2), To("none", 1)>> \o Only(size # 0, To("hashed", 1)) \o Only(k = 1, To("builtin", Internal(Shared)))
                \o [i \in DOMAIN callees |-> To("package", <<i, 1>>)]
  IN  [path |-> path, pkglist |-> callees,
       defs |-> <<[Plain(<<"main", "p", "q">>[k], "internal", "text") EXCEPT !.relocs = code],
                  Plain(NoName, "internal", "data")>> \o Only(inPkg, Defines(f)),
       hashed64 |-> <<>>,
       hashed |-> Only(size # 0, [Plain(<<"a", "b", "c">>[k], "internal", "data") EXCEPT !.size = size, !.hash = 1]),
       nonpkg |-> <<Plain("s", "static", "data")>> \o Only(f \notin {"ref", "package", "zeroPackage"}, Defines(f)),
       refs |-> Only(refs, Plain(Shared, "internal", "data")),
       flagged |-> Only(f = "ref", <<"none", 2>>)]

\* Three packages, which may come in any order, and two of which the second is
\* of two objects.
Link3(f, g, h) == <<Obj(1, 1, f, 1, <<2, 3>>), Obj(2, 2, g, 0, <<>>), Obj(3, 3, h, 2, <<>>)>>
Link2(f, g, h) == <<Obj(1, 1, f, 1, <<2>>), Obj(2, 2, g, 2, <<>>), Obj(3, 2, h, 1, <<>>)>>
Links == {Link3(WayList[i], WayList[j], WayList[k]) : <<i, j, k>> \in {w \in (1 .. 10) \X (1 .. 10) \X (1 .. 10) : w[1] <= w[2] /\ w[2] <= w[3]}}
    \cup {Link2(f, g, h) : f \in {"ref", "package", "zero", "dupok"}, g, h \in Ways}

MCInit == /\ \/ prog \in Programs /\ objs = NoObjects
             \/ \E link \in Links : objs = link /\ prog = Linked
          /\ LinkInit
MCSpec == MCInit /\ [][LinkNext]_linkVars /\ WF_linkVars(LinkNext)
=============================================================================
