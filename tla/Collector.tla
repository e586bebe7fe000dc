----------------------------- MODULE Collector -----------------------------
(***************************************************************************)
(* A goroutine runs the code of a function while the runtime grows and     *)
(* moves its stack and a concurrent collector, marking with the hybrid     *)
(* barrier, frees what it did not reach.  The code and its tables are      *)
(* Emission's.  The callees, the stack copier and the collector are the Go *)
(* runtime's, which reads the frame of the function by the tables alone.   *)
(*                                                                         *)
(* A word is <<"nil">>, <<"heap", h>>, <<"stack", g, area, off>> (an       *)
(* address in the stack of generation g), <<"static", name>>, <<"buf", i>> *)
(* (a place in the barrier's buffer), <<"int", n>> or <<"junk">>, what an  *)
(* earlier use of the memory left there.                                   *)
(***************************************************************************)
EXTENDS Emission

CONSTANTS Programs,     \* the functions, by name
          Inputs,       \* by name, the words of the arguments
          Heap,         \* the objects of the heap: two words each
          Alive,        \* by name, those there are at the entry and their words
          BufSize,      \* the places of the barrier's buffer
          Shapes,       \* objects a frame may have besides
          Guard,        \* the guard of every stack
          Entries,      \* how the function is entered: <<how far above the guard,
                        \* whether the goroutine was asked to stop>>
          Peers,        \* the words another goroutine may hold at first
          GrowBy,       \* the bytes the prologue's growth adds
          MaxGen,       \* how often the callees grow the stack
          AsyncInBarrier    \* may asynchronous preemption stop within a barrier

ASSUME ProgramsAssumption == \A n \in DOMAIN Programs : WellFormed(Programs[n])
ASSUME ShapesAssumption   == \A o \in Shapes : WellShaped(o)

\* The stack pointer is so far up that the difference of a frame up to StackBig
\* cannot wrap.
ASSUME EntriesAssumption ==
  /\ Guard \in Nat /\ Guard < Space /\ GrowBy \in Nat
  /\ \A e \in Entries : e[1] \in Nat /\ Guard + e[1] \in StackBig .. Space - 1

VARIABLES prog,     \* the function, its code and its tables
          pc,       \* the program counter, -1 after the return
          env,      \* the registers: the words of the values that live in one
          callee,   \* the call in progress and what it holds
          stack,    \* [gen, sp, guard, pushed, local, in, outer]: the stack
          heap,     \* [words, status, glob]: the objects and a global
          peer,     \* a word that another goroutine holds
          gc,       \* [phase, marked, grey, stack, others]: the one collection
          wb        \* [buf, top]: the buffer of the barrier

vars == <<prog, pc, env, callee, stack, heap, peer, gc, wb>>

Nil     == <<"nil">>
Junk    == <<"junk">>
NoCall  == [kind |-> "none", held |-> <<>>]
Preempt == Space - 1        \* the guard of a goroutine that is asked to stop

I == prog.code[pc + 1]
LiveAt(c) == prog.code[c + 1].live
At(k) == pc >= 0 /\ callee = NoCall /\ I.k = k

-----------------------------------------------------------------------------
(* Where values are *)

Home(v) == prog.fr.off[prog.slot[v]]

\* A constant is computed where it is read.
Constant(v) ==
  CASE prog.f.mach[v] = "nil"    -> Nil
    [] prog.f.mach[v] = "static" -> <<"static", prog.f.aux[v]>>
    [] prog.f.mach[v] = "local"  -> <<"stack", stack.gen, "local", prog.fr.off[ItemNamed(prog.fr.items, prog.f.aux[v])]>>

\* A word is in its register until the code has moved it to its slot.
Read(v) == CASE prog.f.op[v] = "const" -> Constant(v)
             [] v \in DOMAIN env     -> env[v]
             [] prog.f.op[v] # "const" /\ v \notin DOMAIN env /\ prog.slot[v] # 0 -> stack.local[Home(v)]
             [] OTHER               -> Junk

\* Words written to the homes of values: those that live in slots go to local.
InSlots(local, words) ==
  [o \in DOMAIN local |-> LET here == {v \in DOMAIN words : prog.slot[v] # 0 /\ Home(v) = o}
                          IN  IF here = {} THEN local[o] ELSE words[CHOOSE v \in here : TRUE]]

\* The others to registers; only the registers of live values keep their words.
InRegs(c, words) ==
  LET kept == {v \in DOMAIN words : prog.slot[v] = 0} \cup (DOMAIN env \ DOMAIN words)
  IN  Restrict(words @@ env, kept \cap LiveAt(c))

\* The code goes on at c, with words written.
Goto(c, words) == /\ pc' = c
                  /\ env' = InRegs(c, words)
                  /\ stack' = [stack EXCEPT !.local = InSlots(@, words)]

InAreaOf(v) == LET i == CHOOSE j \in DOMAIN prog.f.in : prog.f.in[j].v = v IN prog.f.in[i].off

\* The register arguments vs are also in their words of the argument area.
Saved(in, vs) == [o \in DOMAIN in |-> LET here == {v \in vs : InAreaOf(v) = o}
                                      IN  IF here = {} THEN in[o] ELSE env[CHOOSE v \in here : TRUE]]

-----------------------------------------------------------------------------
(* Memory *)

\* The word at displacement d from the address a.
Fetch(a, d) ==
  CASE a[1] = "heap"   -> heap.words[a[2]][d + 1]
    [] a[1] = "static" -> IF a[2] = "flag" THEN <<"int", IF gc.phase = "mark" THEN 1 ELSE 0>> ELSE heap.glob
    [] a[1] = "stack"  -> CASE a[2] # stack.gen -> Junk
                            [] a[2] = stack.gen /\ a[3] = "outer" -> stack.outer
                            [] a[2] = stack.gen /\ a[3] = "local" -> stack.local[a[4] + d * PtrSize]
    [] OTHER           -> Junk

\* A store of w there.
StackWith(a, d, w) ==
  CASE a[1] = "stack" /\ a[2] = stack.gen /\ a[3] = "local" -> [stack EXCEPT !.local[a[4] + d * PtrSize] = w]
    [] a[1] = "stack" /\ a[2] = stack.gen /\ a[3] = "outer" -> [stack EXCEPT !.outer = w]
    [] OTHER -> stack
HeapWith(a, d, w) ==
  CASE a[1] = "heap"   -> [heap EXCEPT !.words[a[2]][d + 1] = w]
    [] a[1] = "static" -> [heap EXCEPT !.glob = w]
    [] OTHER -> heap
BufferWith(a, d, w) == IF a[1] = "buf" THEN [wb EXCEPT !.buf[a[2] + d] = w] ELSE wb

\* The objects that words point to.
ObjectsIn(words) == {w[2] : w \in {x \in words : x[1] = "heap"}}

\* The collector takes note of the objects that words point to.
Shade(g, words) == [g EXCEPT !.grey = @ \cup (ObjectsIn(words) \ g.marked)]

-----------------------------------------------------------------------------
(* The function *)

Check == /\ At("check")
         /\ Goto(IF NeedsMore(prog.fr.size, stack.sp, stack.guard) THEN prog.growPC ELSE pc + 1, <<>>)
         /\ UNCHANGED <<prog, callee, heap, peer, gc, wb>>

Push == /\ At("push")
        /\ pc' = pc + 1
        /\ stack' = [stack EXCEPT !.pushed = prog.fr.size]
        /\ UNCHANGED <<prog, env, callee, heap, peer, gc, wb>>

\* Mutant: only the objects of the table are cleared.
Cleared_Table == UNION {{WordOff(prog.fr, i, w) : w \in 0 .. Max(prog.fr.items[i].ptrs)}
                        : i \in {j \in Pointered(prog.fr.items) : prog.fr.items[j].object}}

\* The words of the frame objects, up to the last that holds a pointer.
Cleared == UNION {{WordOff(prog.fr, i, w) : w \in 0 .. Max(prog.fr.items[i].ptrs)}
                  : i \in {j \in Pointered(prog.fr.items) : prog.fr.items[j].kind = "object"}}

ZeroFrameObjects ==
  /\ At("zero")
  /\ pc' = pc + 1
  /\ stack' = [stack EXCEPT !.local = [o \in DOMAIN @ |-> IF o \in Cleared THEN Nil ELSE @[o]]]
  /\ UNCHANGED <<prog, env, callee, heap, peer, gc, wb>>

\* The pointers that arrive in registers go to their words of the argument
\* area, and all arguments in registers to where their values live.
EntryArgs ==
  /\ At("args")
  /\ LET words == Restrict(env, RegArgs(prog.f))
     IN  /\ pc' = pc + 1
         /\ env' = InRegs(pc + 1, words)
         /\ stack' = [stack EXCEPT !.local = InSlots(@, words), !.in = Saved(@, RegArgs(prog.f) \cap prog.f.ptr)]
  /\ UNCHANGED <<prog, callee, heap, peer, gc, wb>>

LoadArg == /\ At("loadarg")
           /\ Goto(pc + 1, I.v :> stack.in[InAreaOf(I.v)])
           /\ UNCHANGED <<prog, callee, heap, peer, gc, wb>>

Operand(i) == Read(prog.f.args[I.v][i])

\* A load, of the flag of the barriers as well.
Load == /\ At("load") \/ At("flag")
        /\ Goto(pc + 1, I.v :> Fetch(Operand(1), prog.f.off[I.v]))
        /\ UNCHANGED <<prog, callee, heap, peer, gc, wb>>

StoreWord ==
  /\ At("store")
  /\ pc' = pc + 1
  /\ env' = InRegs(pc + 1, <<>>)
  /\ stack' = StackWith(Operand(1), prog.f.off[I.v], Operand(2))
  /\ heap' = HeapWith(Operand(1), prog.f.off[I.v], Operand(2))
  /\ wb' = BufferWith(Operand(1), prog.f.off[I.v], Operand(2))
  /\ UNCHANGED <<prog, callee, gc, peer>>

\* The barrier's call: two places of the buffer, a full one being handed to the
\* collector first.  It is no place to stop at.
CallBarrier ==
  /\ At("call") /\ prog.f.mach[I.v] = "wb"
  /\ LET full == wb.top + 2 > BufSize
         from == IF full THEN 0 ELSE wb.top
     IN  /\ wb' = [wb EXCEPT !.top = from + 2]
         /\ gc' = IF full THEN Shade(gc, {wb.buf[i] : i \in 1 .. wb.top}) ELSE gc
         /\ env' = [v \in SelectsOf(prog.f, I.v) |-> <<"buf", from + 1>>]
         /\ pc' = pc + 1
  /\ UNCHANGED <<prog, callee, stack, heap, peer>>

\* Every register is the callee's.
Call == /\ At("call") /\ prog.f.mach[I.v] # "wb"
        /\ callee' = [kind |-> prog.f.mach[I.v], held |-> [i \in DOMAIN prog.f.args[I.v] |-> Operand(i)]]
        /\ env' = <<>>
        /\ UNCHANGED <<prog, pc, stack, heap, peer, gc, wb>>

Results == /\ At("results")
           /\ Goto(pc + 1, Restrict(env, SelectsOf(prog.f, I.v)))
           /\ UNCHANGED <<prog, callee, heap, peer, gc, wb>>

\* The branch on a pointer or the flag: to its first successor unless zero.
Branch == /\ At("branch")
          /\ Goto(IF Operand(1) \in {Nil, <<"int", 0>>} THEN pc + 1 ELSE prog.block[I.to], <<>>)
          /\ UNCHANGED <<prog, callee, heap, peer, gc, wb>>

\* The copies that realise the phis of the one successor, at one instant.
Copies == /\ At("copies")
          /\ LET s == prog.f.succs[I.to][1]
             IN  Goto(pc + 1, [phi \in Phis(prog.f, s) |-> Read(EdgeArg(prog.f, I.to, 1, phi))])
          /\ UNCHANGED <<prog, callee, heap, peer, gc, wb>>

Jump == /\ At("jump")
        /\ Goto(prog.block[I.to], <<>>)
        /\ UNCHANGED <<prog, callee, heap, peer, gc, wb>>

Pop == /\ At("pop")
       /\ pc' = pc + 1
       /\ stack' = [stack EXCEPT !.pushed = 0]
       /\ UNCHANGED <<prog, env, callee, heap, peer, gc, wb>>

Ret == /\ At("ret")
       /\ pc' = -1
       /\ env' = <<>>
       /\ UNCHANGED <<prog, callee, stack, heap, peer, gc, wb>>

\* The tail saves the registers of all arguments, which the runtime may move,
\* and reads them back before it runs the function again.
SaveArgs == /\ At("save")
            /\ pc' = pc + 1
            /\ stack' = [stack EXCEPT !.in = Saved(@, RegArgs(prog.f))]
            /\ env' = <<>>
            /\ UNCHANGED <<prog, callee, heap, peer, gc, wb>>

CallMorestack == /\ At("more")
                 /\ callee' = [kind |-> "more", held |-> <<>>]
                 /\ UNCHANGED <<prog, pc, env, stack, heap, peer, gc, wb>>

ReloadArgs == /\ At("reload")
              /\ pc' = pc + 1
              /\ env' = [v \in RegArgs(prog.f) |-> stack.in[InAreaOf(v)]]
              /\ UNCHANGED <<prog, callee, stack, heap, peer, gc, wb>>

Again == /\ At("again")
         /\ pc' = 0
         /\ UNCHANGED <<prog, env, callee, stack, heap, peer, gc, wb>>

Function == \/ Check \/ Push \/ ZeroFrameObjects \/ EntryArgs \/ LoadArg \/ Load \/ StoreWord
            \/ CallBarrier \/ Call \/ Results \/ Branch \/ Copies \/ Jump \/ Pop \/ Ret
            \/ SaveArgs \/ CallMorestack \/ ReloadArgs \/ Again

-----------------------------------------------------------------------------
(* The runtime at a call: the frame by its tables *)

\* The index of the map at the call in progress, read at the instruction before
\* the return address; where the table says nothing it is the first.
MapIndex == LET i == Lookup(prog.index, pc + 1 - 1) IN IF i = Unknown THEN 1 ELSE i

\* The words the map describes: of the frame, once it is there, and of the
\* arguments.
DescribedLocals == IF stack.pushed = 0 THEN {} ELSE {BitOff(prog.fr, b) : b \in prog.maps.maps[MapIndex].locals}
DescribedIn     == {b * PtrSize : b \in prog.maps.maps[MapIndex].args}

\* The words the entries of the objects table describe.
ObjectWords(k) == {prog.fr.varp + prog.objects[k].off + w * PtrSize : w \in prog.objects[k].ptrs}
AllObjectWords == IF stack.pushed = 0 THEN {} ELSE UNION {ObjectWords(k) : k \in DOMAIN prog.objects}

Moved(w) == IF w[1] = "stack" /\ w[2] = stack.gen THEN [w EXCEPT ![2] = @ + 1] ELSE w

\* The stack is copied: what the maps and the table describe of this frame
\* follows, and so do the words of the caller's frame and of the callee's.
Copied(s) == [s EXCEPT !.gen = @ + 1,
                       !.outer = Moved(@),
                       !.local = [o \in DOMAIN @ |-> IF o \in DescribedLocals \cup AllObjectWords
                                                    THEN Moved(@[o]) ELSE @[o]],
                       !.in = [o \in DOMAIN @ |-> IF o \in DescribedIn THEN Moved(@[o]) ELSE @[o]]]

InCall(k) == callee.kind = k
CalleeRuns == InCall("new") \/ InCall("get") \/ InCall("use") \/ InCall("panic")

CalleeGrows == /\ CalleeRuns
               /\ stack.gen < MaxGen
               /\ stack' = Copied(stack)
               /\ callee' = [callee EXCEPT !.held = [i \in DOMAIN @ |-> Moved(@[i])]]
               /\ UNCHANGED <<prog, pc, env, heap, peer, gc, wb>>

\* A new object is black while a collection runs.
New(h) == heap.status[h] = "none"
Born(h) == [heap EXCEPT !.status[h] = "live", !.words[h] = <<Nil, Nil>>]
Black(h) == IF gc.phase = "mark" THEN [gc EXCEPT !.marked = @ \cup {h}] ELSE gc

\* The callee stores a new object through its first argument, with a barrier,
\* and has no more use for its arguments.
CalleeStores ==
  /\ CalleeRuns /\ callee.held # <<>>
  /\ LET a == callee.held[1]
     IN  \E h \in Heap :
           /\ New(h)
           /\ a[1] = "stack" => a[2] = stack.gen
           /\ stack' = StackWith(a, 0, <<"heap", h>>)
           /\ heap' = IF a[1] = "heap" THEN [Born(h) EXCEPT !.words[a[2]][1] = <<"heap", h>>] ELSE Born(h)
           /\ gc' = IF gc.phase = "mark" /\ a[1] = "heap" THEN Shade(Black(h), {Fetch(a, 0)}) ELSE Black(h)
           /\ callee' = [callee EXCEPT !.held = <<>>]
  /\ UNCHANGED <<prog, pc, env, wb, peer>>

\* The result is in its register, and the code after the call goes on.
Returned(w) == /\ callee' = NoCall
               /\ pc' = pc + 1
               /\ env' = [v \in SelectsOf(prog.f, I.v) |-> w]

CalleeReturns == /\ \/ InCall("use") /\ Returned(Nil)
                    \/ InCall("get") /\ callee.held # <<>> /\ Returned(Fetch(callee.held[1], 0))
                    \/ InCall("get") /\ Returned(Nil)
                 /\ UNCHANGED <<prog, stack, heap, peer, gc, wb>>

NewReturns == /\ InCall("new")
              /\ \E h \in Heap : /\ New(h)
                                /\ Returned(<<"heap", h>>)
                                /\ heap' = Born(h)
                                /\ gc' = Black(h)
              /\ UNCHANGED <<prog, stack, wb, peer>>

\* The runtime gives a goroutine that was only asked to stop its guard back,
\* and copies the stack of any other to a larger one, as long as there is one.
MorestackReturns ==
  /\ InCall("more")
  /\ stack.sp + GrowBy < Space
  /\ stack' = IF stack.guard = Preempt THEN [stack EXCEPT !.guard = Guard]
              ELSE [Copied(stack) EXCEPT !.sp = @ + GrowBy]
  /\ Returned(Nil)
  /\ UNCHANGED <<prog, heap, peer, gc, wb>>

Callee == CalleeGrows \/ CalleeStores \/ CalleeReturns \/ NewReturns \/ MorestackReturns

-----------------------------------------------------------------------------
(* The collector *)

\* The block goes on with the store a diamond is about.
Rejoins(b) == prog.f.vals[b] # <<>> /\ Head(prog.f.vals[b]) \in prog.f.diamond

\* Between the load of the flag and the store it decides about.
InBarrier == \/ I.v \in prog.f.diamond
             \/ I.k = "jump" /\ (Rejoins(I.to) \/ (prog.f.vals[I.to] = <<>> /\ Rejoins(prog.f.succs[I.to][1])))

\* Where asynchronous preemption may stop the goroutine.
AsyncSafe == /\ pc >= 0 /\ callee = NoCall
             /\ ~UnsafePoint(prog.entered, prog.unsafe, FALSE, pc)
             /\ AsyncInBarrier \/ ~InBarrier

Stopped == pc = -1 \/ callee # NoCall \/ AsyncSafe

\* With the words there are: those of the objects a described pointer reaches.
Reached(words) ==
  LET hit(ws) == {k \in DOMAIN prog.objects : \E w \in ws :
                    /\ w[1] = "stack" /\ w[2] = stack.gen /\ w[3] = "local"
                    /\ w[4] - prog.fr.varp - prog.objects[k].off \in 0 .. prog.objects[k].size - 1}
      Step(ws, n) == ws \cup UNION {{stack.local[o] : o \in ObjectWords(k)} : k \in hit(ws)}
  IN  FoldLeft(Step, words, prog.objects)

\* The words the collector takes for pointers: at a call by the maps, after an
\* asynchronous preemption every word of the frame and of the registers.
StackRoots ==
  {stack.outer} \cup
  CASE pc = -1 -> {}
    [] pc # -1 /\ callee # NoCall ->
         Reached({stack.local[o] : o \in DescribedLocals} \cup {stack.in[o] : o \in DescribedIn}
                 \cup {callee.held[i] : i \in DOMAIN callee.held})
    [] OTHER -> {stack.local[o] : o \in DOMAIN stack.local} \cup {stack.in[o] : o \in DOMAIN stack.in}
                \cup {env[v] : v \in DOMAIN env}

StartMark == /\ gc.phase = "idle" /\ Stopped
             /\ gc' = [gc EXCEPT !.phase = "mark"]
             /\ UNCHANGED <<prog, pc, env, callee, stack, heap, wb, peer>>

LiveObjects(words) == {w \in words : w[1] = "heap" => heap.status[w[2]] = "live"}

ScanStack == /\ gc.phase = "mark" /\ ~gc.stack /\ Stopped
             /\ gc' = [Shade(gc, LiveObjects(StackRoots)) EXCEPT !.stack = TRUE]
             /\ UNCHANGED <<prog, pc, env, callee, stack, heap, wb, peer>>

\* The other roots: the global, and what the other goroutine holds.
ScanOthers == /\ gc.phase = "mark" /\ ~gc.others
              /\ gc' = [Shade(gc, {heap.glob, peer}) EXCEPT !.others = TRUE]
              /\ UNCHANGED <<prog, pc, env, callee, stack, heap, peer, wb>>

\* The collector marks one object, while the program runs.
MarkObject == /\ gc.phase = "mark"
              /\ \E h \in gc.grey :
                    gc' = [Shade([gc EXCEPT !.marked = @ \cup {h}], {heap.words[h][1], heap.words[h][2]})
                             EXCEPT !.grey = @ \ {h}]
              /\ UNCHANGED <<prog, pc, env, callee, stack, heap, wb, peer>>

\* Nothing is left to mark but, perhaps, what the buffer holds.  When it holds
\* nothing new either, what was not marked is freed.
MarkTermination ==
  /\ gc.phase = "mark" /\ gc.stack /\ gc.others /\ gc.grey = {} /\ Stopped
  /\ LET left == ObjectsIn({wb.buf[i] : i \in 1 .. wb.top}) \ gc.marked
     IN  IF left # {}
         THEN gc' = [gc EXCEPT !.grey = left] /\ UNCHANGED heap
         ELSE /\ gc' = [gc EXCEPT !.phase = "done", !.marked = {}]
              /\ heap' = [heap EXCEPT !.status = [h \in Heap |-> IF @[h] = "live" /\ h \notin gc.marked
                                                                  THEN "freed" ELSE @[h]]]
  /\ wb' = [wb EXCEPT !.top = 0]
  /\ UNCHANGED <<prog, pc, env, callee, stack, peer>>

\* The other goroutine goes on along the list.
PeerReads == /\ peer[1] = "heap"
             /\ peer' = heap.words[peer[2]][1]
             /\ UNCHANGED <<prog, pc, env, callee, stack, heap, gc, wb>>

Collect == ScanStack \/ ScanOthers \/ MarkObject \/ MarkTermination

-----------------------------------------------------------------------------

\* A function is compiled either way and entered.
Init ==
  \E n \in DOMAIN Programs, all \in BOOLEAN :
    /\ prog = Compile(Programs[n], all)
    /\ pc = 0
    /\ callee = NoCall
    /\ env = [v \in RegArgs(prog.f) |-> Inputs[n][v]]
    /\ \E e \in Entries :
         stack = [gen |-> 0, sp |-> Guard + e[1], guard |-> IF e[2] THEN Preempt ELSE Guard, pushed |-> 0,
                  local |-> [o \in FrameWords(prog.fr) |-> Junk],
                  in |-> [o \in {prog.f.in[i].off : i \in DOMAIN prog.f.in} |->
                            LET v == prog.f.in[CHOOSE i \in DOMAIN prog.f.in : prog.f.in[i].off = o].v
                            IN  IF v \in RegArgs(prog.f) THEN Junk ELSE Inputs[n][v]],
                  outer |-> Nil]
    /\ heap = [words |-> [h \in Heap |-> IF h \in DOMAIN Alive[n] THEN Alive[n][h] ELSE <<Nil, Nil>>],
               status |-> [h \in Heap |-> IF h \in DOMAIN Alive[n] THEN "live" ELSE "none"], glob |-> Nil]
    /\ peer \in Peers
    /\ gc = [phase |-> "idle", marked |-> {}, grey |-> {}, stack |-> FALSE, others |-> FALSE]
    /\ wb = [buf |-> [i \in 1 .. BufSize |-> Nil], top |-> 0]

Next == Function \/ Callee \/ PeerReads \/ StartMark \/ Collect

\* A goroutine is scheduled: where it runs, and not a callee, its next
\* instruction is possible (all kinds are above), and in the end it runs.
Scheduled == \/ []<>(pc = -1 \/ callee # NoCall)
             \/ []<><<pc' # pc \/ callee' # callee>>_vars

\* So the function goes on, its callees return, and a collection that was
\* started is worked on.
Spec == Init /\ [][Next]_vars /\ Scheduled /\ WF_vars(CalleeReturns \/ NewReturns \/ MorestackReturns)
             /\ WF_vars(Collect)

-----------------------------------------------------------------------------

\* The values that are live with the code where it is; during a call those that
\* are live across it.
LiveHere == CASE pc = -1 \/ callee.kind \in {"panic", "more"} -> {}
              [] pc # -1 /\ callee = NoCall -> LiveAt(pc)
              [] OTHER -> (LiveAt(pc) \cap LiveAt(pc + 1)) \ SelectsOf(prog.f, I.v)

InHand == {peer} \cup {Read(v) : v \in LiveHere} \cup {callee.held[i] : i \in DOMAIN callee.held}

\* Whatever the function, its callee and the other goroutine still use is there: no object was freed
\* and no register lost its word, at whatever points the goroutine was stopped,
\* its stack scanned and the collection ended.
NoDangling == \A w \in InHand : w # Junk /\ (w[1] = "heap" => heap.status[w[2]] = "live")

\* No address of a stack that was moved is in use.
NoStaleStack == \A w \in InHand : w[1] = "stack" => w[2] = stack.gen

\* The collector and the copier may believe the maps: at a call every word they
\* describe holds nil, a pointer into the heap that is valid, or an address in
\* the stack as it is.
MapHonest ==
  callee # NoCall =>
    \A w \in Reached({stack.local[o] : o \in DescribedLocals} \cup {stack.in[o] : o \in DescribedIn}) :
       \/ w = Nil
       \/ w[1] = "heap" /\ heap.status[w[2]] = "live"
       \/ w[1] = "stack" /\ w[2] = stack.gen

\* The frame is laid out as the generator and the runtime both rely on, with
\* the objects the function has and with any two more.
FramePlaced ==
  pc = 0 => \A more \in BoundedSeq(Shapes, 2) :
              LET f == [prog.f EXCEPT !.objs = @ \o more] IN WellPlaced(f, LayoutFrame(f, prog.slots))

\* The traceback of a goroutine that stopped in a call, or in one that does not
\* return, finds the caller: the table gives the return address the bytes the
\* frame has taken.
Unwinds == callee # NoCall => Lookup(prog.rows, pc + 1) = stack.pushed

\* A frame is only pushed where there is room for it.
RoomBelow == stack.pushed > 0 /\ prog.checked => stack.sp - stack.pushed >= Guard - StackSmall

\* The checks of the room come to an end, and so does the function unless it
\* panics; a collection that started ends.
Ends == <>[](/\ pc = -1 \/ InCall("panic")
             /\ gc.phase # "mark")
=============================================================================
