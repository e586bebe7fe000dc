------------------------------- MODULE Frame -------------------------------
(***************************************************************************)
(* The frame of a function (src/ssa/frame.go) as the arm64 prologue builds *)
(* it (src/ssagen/prologue.go, layout and checkFrame): the outgoing        *)
(* arguments at the bottom with the saved link register under them, the    *)
(* items that hold no pointer, the items that do, and at the top the word  *)
(* where the caller's frame pointer is kept.                               *)
(*                                                                         *)
(* Offsets and sizes are in bytes.  Beyond the fields of SSAFunc a function*)
(* has objs, the sequence of its frame objects,                            *)
(*   [name, size, align, ptrs, known]                                      *)
(* with the indices of their pointer words and whether their type has a    *)
(* descriptor, and in, the sequence of its incoming arguments,             *)
(*   [v, off, ptr, reg]                                                    *)
(* with the offset of the words the convention gives them, in registers or *)
(* not.                                                                    *)
(***************************************************************************)
EXTENDS SSAFunc

CONSTANT PtrSize    \* the bytes of a word

ASSUME PtrSizeAssumption == PtrSize \in Nat \ {0}

LinkSlot  == PtrSize
SPAlign   == 2 * PtrSize
RoundUp(n, a) == ((n + a - 1) \div a) * a

-----------------------------------------------------------------------------
(* What occupies the frame *)

\* A spilled value is one word when it holds a pointer and a byte when not.
SpillItem(f, slot) ==
  LET ptr == slot \subseteq f.ptr
  IN  [kind |-> "spill", name |-> NoId, object |-> FALSE,
       size |-> IF ptr THEN PtrSize ELSE 1, align |-> IF ptr THEN PtrSize ELSE 1,
       ptrs |-> IF ptr THEN {0} ELSE {}]

\* The collector gets the type of an object with pointers, if it has a name
\* for the type.
ObjectItem(o) == [kind |-> "object", name |-> o.name, object |-> o.ptrs # {} /\ o.known,
                  size |-> o.size, align |-> o.align, ptrs |-> o.ptrs]

FrameItems(f, slots) == [i \in DOMAIN slots |-> SpillItem(f, slots[i])]
                        \o [i \in DOMAIN f.objs |-> ObjectItem(f.objs[i])]

\* The object a name stands for, by its place among the items.
ItemNamed(items, name) == CHOOSE i \in DOMAIN items : items[i].name = name

-----------------------------------------------------------------------------
(* Where each item is *)

\* An item goes to the first multiple of its alignment from at.end on.
PutItem(items, at, i) ==
  LET off == RoundUp(at.end, items[i].align)
  IN  [off |-> [at.off EXCEPT ![i] = off], end |-> off + items[i].size]

\* Mutant: an item need not start at a multiple of its alignment.
Lay_Packed(items, chosen, start) ==
  LET Put(at, i) == IF i \notin chosen THEN at
                    ELSE [off |-> [at.off EXCEPT ![i] = at.end], end |-> at.end + items[i].size]
      laid[i \in 0 .. Len(items)] == IF i = 0 THEN start ELSE Put(laid[i - 1], i)
  IN  laid[Len(items)]

\* The chosen items, in order, from start.end upwards.
Lay(items, chosen, start) ==
  LET Put(at, i) == IF i \notin chosen THEN at ELSE PutItem(items, at, i)
      laid[i \in 0 .. Len(items)] == IF i = 0 THEN start ELSE Put(laid[i - 1], i)
  IN  laid[Len(items)]

Pointered(items) == {i \in DOMAIN items : items[i].ptrs # {}}

\* The locals area from base: the items without pointers, then those with.
Locals(items, base) ==
  LET plain == Lay(items, DOMAIN items \ Pointered(items),
                   [off |-> [i \in DOMAIN items |-> 0], end |-> base])
      group == RoundUp(plain.end, PtrSize)
      all   == Lay(items, Pointered(items), [plain EXCEPT !.end = group])
  IN  [off |-> all.off, ptrBase |-> group, varp |-> RoundUp(all.end, PtrSize)]

\* The bytes of the outgoing argument area: every argument of a call has its
\* word there, whether it travels in a register or not.
OutArgs(f) == Max({0} \cup {PtrSize * Len(f.args[c]) : c \in {v \in DOMAIN f.op : f.op[v] = "call"}})

IsLeaf(f) == \A v \in DOMAIN f.op : f.op[v] # "call"

\* The words of the arguments area up to the last that can hold a pointer.
ArgsBits(f) == Max({0} \cup {f.in[i].off \div PtrSize + 1 : i \in {j \in DOMAIN f.in : f.in[j].ptr}})

\* The padding that aligns the frame goes below the locals, so that nothing is
\* between them and the caller's frame.  A leaf with no item has no frame.
LayoutFrame(f, slots) ==
  LET items     == FrameItems(f, slots)
      frameless == IsLeaf(f) /\ items = <<>>
      above     == IF frameless THEN 0 ELSE PtrSize
      out       == IF frameless THEN 0 ELSE RoundUp(LinkSlot + OutArgs(f), PtrSize)
      natural   == Locals(items, out).varp + above
      pad       == RoundUp(natural, SPAlign) - natural
      placed    == Locals(items, out + pad)
  IN  [items |-> items, off |-> placed.off, ptrBase |-> placed.ptrBase, varp |-> placed.varp,
       size |-> placed.varp + above, localsBase |-> out + pad, argsBits |-> ArgsBits(f)]

\* The offset from the stack pointer of the w-th word of item i.
WordOff(fr, i, w) == fr.off[i] + w * PtrSize

\* The offsets of the words a frame keeps pointers and spilled values in.
FrameWords(fr) == UNION {{WordOff(fr, i, w) : w \in fr.items[i].ptrs} : i \in DOMAIN fr.items}
                  \cup {fr.off[i] : i \in {j \in DOMAIN fr.items : fr.items[j].kind = "spill"}}

\* The bit of the locals bitmap for a word, and the word of a bit.
LocalBit(fr, off) == (off - fr.ptrBase) \div PtrSize
BitOff(fr, bit)   == fr.ptrBase + bit * PtrSize

\* The items the table of stack objects describes, and how many are below i.
Objects(fr)  == {i \in DOMAIN fr.items : fr.items[i].object}
Below(fr, i) == {j \in Objects(fr) : fr.off[j] < fr.off[i]}

\* The entries of the table, as offsets from the top of the locals area, lowest
\* first.
StackObjects(fr) ==
  LET Entry(i) == [off |-> fr.off[i] - fr.varp, size |-> fr.items[i].size, ptrs |-> fr.items[i].ptrs]
  IN  [k \in 1 .. Cardinality(Objects(fr)) |->
         Entry(CHOOSE i \in Objects(fr) : Cardinality(Below(fr, i)) = k - 1)]

-----------------------------------------------------------------------------

\* The bytes of item i.
Bytes(fr, i) == fr.off[i] .. fr.off[i] + fr.items[i].size - 1

\* What the code generator and the runtime rely on: no two items share a byte,
\* none is over the saved link register, the outgoing arguments or the saved
\* frame pointer, the stack pointer stays aligned, a frame with pointers is
\* larger than the ones the runtime takes for empty, every pointer word has a
\* bit of its own in the part of the frame the collector reads, and the table's
\* entries are below the top of the locals and in order.
WellPlaced(f, fr) ==
  LET table == StackObjects(fr)
  IN  /\ fr.size % SPAlign = 0
      /\ fr.size > 0 => /\ fr.varp = fr.size - PtrSize
                        /\ fr.localsBase >= LinkSlot + OutArgs(f)
      /\ Pointered(fr.items) # {} => fr.varp > SPAlign
      /\ \A i \in DOMAIN fr.items :
            /\ fr.off[i] % fr.items[i].align = 0
            /\ Bytes(fr, i) \subseteq fr.localsBase .. fr.varp - 1
            /\ \A j \in DOMAIN fr.items \ {i} : Bytes(fr, i) \cap Bytes(fr, j) = {}
            /\ \A w \in fr.items[i].ptrs :
                  /\ WordOff(fr, i, w) >= fr.ptrBase
                  /\ BitOff(fr, LocalBit(fr, WordOff(fr, i, w))) = WordOff(fr, i, w)
      /\ \A k \in DOMAIN table : table[k].off < 0 /\ (k > 1 => table[k - 1].off < table[k].off)
=============================================================================
