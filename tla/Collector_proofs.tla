-------------------------- MODULE Collector_proofs --------------------------
(***************************************************************************)
(* What compiling a function and running it promises, for every function   *)
(* the generator may hand over, every assignment of slots and every size   *)
(* of a frame.                                                             *)
(*                                                                         *)
(* The frame: its items are apart, aligned and inside it, those with       *)
(* pointers above those without (FrameIsWellPlaced).  The argument follows *)
(* Lay item by item, and follows the function through the passes to see    *)
(* that each leaves it one that has a frame: Sound and Covered say what a  *)
(* function is on the way.                                                 *)
(*                                                                         *)
(* The code: every instruction leaves the stack pointer where the next row *)
(* of the table says it is, and goes on where there is code (Built while   *)
(* the emitter writes it, Finished at the end).  With this, the inductive  *)
(* invariant Rooms holds along every run, and with Rooms the unwinder finds*)
(* the return address (ReturnAddressesUnwind) and a pushed frame has room  *)
(* on the stack (PushedHasRoom).                                           *)
(*                                                                         *)
(* The growth check: what its three comparisons decide, for every frame,   *)
(* stack pointer and guard, and every size of a word: that words wrap makes*)
(* no difference to it.                                                    *)
(***************************************************************************)
EXTENDS Collector, Induction, SequenceTheorems

-----------------------------------------------------------------------------
(* The places of a frame *)

\* What an integer is, from its quotient and its remainder.
LEMMA Quotient ==
  ASSUME NEW x \in Int, NEW a \in Nat \ {0}
  PROVE  x = a * (x \div a) + (x % a) /\ x % a \in 0 .. a - 1 /\ x \div a \in Int
BY SMT

\* A multiple of a leaves no remainder, and its quotient is the factor.
LEMMA Multiple ==
  ASSUME NEW q \in Int, NEW a \in Nat \ {0}
  PROVE  (q * a) % a = 0 /\ (q * a) \div a = q
BY SMT

\* A product of natural numbers is one.
LEMMA Product ==
  ASSUME NEW x \in Nat, NEW a \in Nat
  PROVE  x * a \in Nat
BY SMT

\* A remainder on top of a multiple changes nothing of the quotient.
LEMMA Above ==
  ASSUME NEW q \in Int, NEW a \in Nat \ {0}, NEW r \in 0 .. a - 1
  PROVE  (q * a + r) \div a = q /\ (q * a + r) % a = r
BY SMT

\* What leaves no remainder is a multiple.
LEMMA Divided ==
  ASSUME NEW x \in Int, NEW a \in Nat \ {0}, x % a = 0
  PROVE  \E q \in Int : x = a * q
<1>1. x = a * (x \div a) + (x % a) /\ x \div a \in Int
  BY Quotient
<1>2. x = a * (x \div a)
  <2> DEFINE q == x \div a
  <2>1. q \in Int /\ x = a * q + (x % a)
    BY <1>1
  <2> HIDE DEF q
  <2>2. a * q \in Int
    BY <2>1
  <2>3. x = a * q
    BY <2>1, <2>2
  <2> QED BY <2>3 DEF q
<1> QED BY <1>1, <1>2

\* A multiple of a multiple of a is a multiple of a.
LEMMA Divides ==
  ASSUME NEW x \in Int, NEW a \in Nat \ {0}, NEW p \in Nat \ {0}, p % a = 0, x % p = 0
  PROVE  x % a = 0
<1>1. PICK k \in Int : p = a * k
  BY Divided
<1>2. PICK m \in Int : x = p * m
  BY Divided
<1>3. x = (m * k) * a /\ m * k \in Int
  BY <1>1, <1>2, SMT
<1> QED BY <1>3, Multiple

\* Rounding up (frame.go, alignUp) gives the next multiple.
LEMMA RoundUpFacts ==
  ASSUME NEW n \in Int, NEW a \in Nat \ {0}
  PROVE  /\ RoundUp(n, a) \in Int /\ RoundUp(n, a) >= n /\ RoundUp(n, a) < n + a
         /\ RoundUp(n, a) % a = 0
<1>1. PICK q \in Int : q = (n + a - 1) \div a
  BY Quotient
<1>2. PICK r \in 0 .. a - 1 : n + a - 1 = a * q + r
  <2>1. n + a - 1 \in Int
    OBVIOUS
  <2>2. n + a - 1 = a * q + ((n + a - 1) % a) /\ (n + a - 1) % a \in 0 .. a - 1
    BY <1>1, <2>1, Quotient
  <2> QED BY <2>2
<1>3. RoundUp(n, a) = q * a
  BY <1>1 DEF RoundUp
<1>4. q * a \in Int /\ q * a = a * q
  OBVIOUS
<1>5. (q * a) % a = 0
  BY Multiple
<1>6. q * a >= n /\ q * a < n + a
  BY <1>2, <1>4
<1> QED BY <1>3, <1>4, <1>5, <1>6

\* It is the only one.
LEMMA RoundUpOnly ==
  ASSUME NEW n \in Int, NEW a \in Nat \ {0}, NEW m \in Int, m % a = 0, m >= n, m < n + a
  PROVE  RoundUp(n, a) = m
<1>1. PICK k \in Int : m = a * k
  BY Divided
<1>2. (n + a - 1) - m \in 0 .. a - 1 /\ m = k * a
  BY <1>1
<1>3. (k * a + ((n + a - 1) - m)) \div a = k
  BY <1>2, Above
<1>4. k * a + ((n + a - 1) - m) = n + a - 1
  BY <1>2
<1> QED BY <1>2, <1>3, <1>4 DEF RoundUp

\* Sums and differences of multiples are multiples.
LEMMA SumOfMultiples ==
  ASSUME NEW a \in Nat \ {0}, NEW m \in Int, NEW n \in Int, m % a = 0, n % a = 0
  PROVE  (m + n) % a = 0 /\ (m - n) % a = 0
<1>1. PICK k \in Int : m = a * k
  BY Divided
<1>2. PICK j \in Int : n = a * j
  BY Divided
<1>3. m + n = (k + j) * a /\ m - n = (k - j) * a /\ k + j \in Int /\ k - j \in Int
  BY <1>1, <1>2
<1> QED BY <1>3, Multiple

\* Rounding up commutes with adding a multiple.
LEMMA RoundUpShift ==
  ASSUME NEW n \in Int, NEW a \in Nat \ {0}, NEW m \in Int, m % a = 0
  PROVE  RoundUp(n + m, a) = RoundUp(n, a) + m
<1>1. /\ RoundUp(n, a) \in Int /\ RoundUp(n, a) >= n /\ RoundUp(n, a) < n + a
      /\ RoundUp(n, a) % a = 0
  BY RoundUpFacts
<1>2. (RoundUp(n, a) + m) % a = 0
  BY <1>1, SumOfMultiples
<1> HIDE DEF RoundUp
<1>3. RoundUp(n, a) + m >= n + m /\ RoundUp(n, a) + m < (n + m) + a /\ RoundUp(n, a) + m \in Int /\ n + m \in Int
  BY <1>1
<1> QED BY <1>2, <1>3, RoundUpOnly
-----------------------------------------------------------------------------
(* Laying items out *)

\* A sequence of items, each of a shape there is.
AreItems(items) == /\ Len(items) \in Nat /\ DOMAIN items = 1 .. Len(items)
                   /\ \A i \in DOMAIN items : WellShaped(items[i])

\* Where items are put, up to at.end.
IsPlace(items, at) == /\ at = [off |-> at.off, end |-> at.end]
                      /\ at.off \in [DOMAIN items -> Int] /\ at.end \in Int

\* What Lay has made of start once it is through with the first n items.
LaidFrom(items, chosen, start, n, at) ==
  /\ IsPlace(items, at) /\ start.end <= at.end
  /\ \A i \in DOMAIN items : i \notin chosen \/ i > n => at.off[i] = start.off[i]
  /\ \A i \in chosen : i <= n => /\ at.off[i] % items[i].align = 0
                                 /\ start.end <= at.off[i] /\ at.off[i] + items[i].size <= at.end
  /\ \A i, j \in chosen : i < j /\ j <= n => at.off[i] + items[i].size <= at.off[j]

\* The steps of Lay.
Laying(items, chosen, start, laid) ==
  laid = [i \in 0 .. Len(items) |->
            IF i = 0 THEN start
            ELSE IF i \notin chosen THEN laid[i - 1] ELSE PutItem(items, laid[i - 1], i)]

\* There is a function of the places after each item.
LEMMA LayingExists ==
  ASSUME NEW items, Len(items) \in Nat, NEW chosen, NEW start
  PROVE  \E laid : Laying(items, chosen, start, laid)
<1> DEFINE Put(at, i) == IF i \notin chosen THEN at ELSE PutItem(items, at, i)
           Good(it, n) == it = [k \in 0 .. n |-> IF k = 0 THEN start ELSE Put(it[k - 1], k)]
           P == {n \in Nat : \E it : Good(it, n)}
<1>1. 0 \in P
  <2> HIDE DEF Put
  <2> DEFINE it == [k \in 0 .. 0 |-> start]
  <2>1. Good(it, 0)
    OBVIOUS
  <2> QED BY <2>1
<1>2. ASSUME NEW n \in Nat, n \in P PROVE n + 1 \in P
  <2> HIDE DEF Put
  <2>1. PICK it : Good(it, n)
    BY <1>2
  <2> DEFINE more == [k \in 0 .. n + 1 |-> IF k \in 0 .. n THEN it[k] ELSE Put(it[n], n + 1)]
  <2>2. ASSUME NEW k \in 0 .. n + 1 PROVE more[k] = IF k = 0 THEN start ELSE Put(more[k - 1], k)
    <3>1. CASE k \in 0 .. n
      <4>1. k # 0 => k - 1 \in 0 .. n /\ k - 1 \in 0 .. n + 1
        BY <3>1
      <4>2. it[k] = IF k = 0 THEN start ELSE Put(it[k - 1], k)
        BY <2>1, <3>1
      <4> QED BY <3>1, <4>1, <4>2
    <3>2. CASE k = n + 1
      <4>1. k \notin 0 .. n /\ k # 0 /\ k - 1 = n /\ n \in 0 .. n + 1 /\ n \in 0 .. n
        BY <3>2
      <4> QED BY <3>2, <4>1
    <3> QED BY <3>1, <3>2
  <2>3. Good(more, n + 1)
    <3>1. DOMAIN more = 0 .. n + 1 /\ more = [k \in 0 .. n + 1 |-> more[k]]
      OBVIOUS
    <3> HIDE DEF more
    <3> QED BY <2>2, <3>1
  <2>4. \E jt : Good(jt, n + 1)
    BY <2>3
  <2> HIDE DEF Good
  <2>5. n + 1 \in Nat
    OBVIOUS
  <2> QED BY <2>4, <2>5
<1> HIDE DEF P
<1>3. Len(items) \in P
  BY <1>1, <1>2, NumberInduction
<1> QED BY <1>3 DEF P, Laying

\* Lay is the last of such places: what is shown of every such function holds of Lay.
LEMMA LayIsLaying ==
  ASSUME NEW items, Len(items) \in Nat, NEW chosen, NEW start
  PROVE  \E laid : Laying(items, chosen, start, laid) /\ Lay(items, chosen, start) = laid[Len(items)]
<1> DEFINE laid == CHOOSE f : Laying(items, chosen, start, f)
<1>1. Laying(items, chosen, start, laid)
  BY LayingExists
<1>2. Lay(items, chosen, start) = laid[Len(items)]
  BY DEF Lay, Laying
<1> QED BY <1>1, <1>2
\* One step of Lay keeps what it has made.
LEMMA LayStep ==
  ASSUME NEW items, AreItems(items), NEW chosen \in SUBSET DOMAIN items, NEW start, NEW at,
         NEW n \in Nat, n + 1 \in DOMAIN items, LaidFrom(items, chosen, start, n, at),
         start.end \in Int
  PROVE  LaidFrom(items, chosen, start, n + 1, IF n + 1 \notin chosen THEN at ELSE PutItem(items, at, n + 1))
<1> DEFINE m == n + 1
           off == RoundUp(at.end, items[m].align)
<1>1. /\ at = [off |-> at.off, end |-> at.end] /\ at.off \in [DOMAIN items -> Int] /\ at.end \in Int
      /\ start.end <= at.end
  BY DEF LaidFrom, IsPlace
<1>2. /\ m \in Int /\ m \in DOMAIN items /\ \A i \in DOMAIN items : i \in Int
      /\ items[m].size \in Nat /\ items[m].align \in Nat \ {0}
  BY DEF AreItems, WellShaped
<1>3. /\ off \in Int /\ off >= at.end /\ off % items[m].align = 0
  BY <1>1, <1>2, RoundUpFacts
<1>4. \A i \in chosen : items[i].size \in Nat /\ at.off[i] \in Int /\ i \in DOMAIN items
  BY <1>1 DEF AreItems, WellShaped
<1>5. CASE m \notin chosen
  <2>1. \A i \in DOMAIN items : i <= m <=> i <= n \/ i = m
    BY <1>2
  <2>2. \A i \in chosen : i <= m => i <= n
    BY <1>5, <2>1
  <2> QED BY <1>1, <1>2, <1>5, <2>2 DEF LaidFrom
<1>6. CASE m \in chosen
  <2> DEFINE next == PutItem(items, at, m)
  <2>1. next = [off |-> [at.off EXCEPT ![m] = off], end |-> off + items[m].size]
    BY DEF PutItem
  <2>2. /\ next.off = [at.off EXCEPT ![m] = off] /\ next.end = off + items[m].size
        /\ next = [off |-> next.off, end |-> next.end]
    BY <2>1
  <2> HIDE DEF next, off
  <2>3. next.off \in [DOMAIN items -> Int] /\ next.off[m] = off
        /\ \A i \in DOMAIN items : i # m => next.off[i] = at.off[i]
    BY <1>1, <1>2, <1>3, <2>2
  <2>4. next.end \in Int /\ at.end <= next.end /\ off <= next.end
    BY <1>1, <1>2, <1>3, <2>2
  <2>5. IsPlace(items, next) /\ start.end <= next.end
    BY <1>1, <2>2, <2>3, <2>4 DEF IsPlace
  <2>6. ASSUME NEW i \in DOMAIN items, i \notin chosen \/ i > m PROVE next.off[i] = start.off[i]
    <3>1. i # m /\ (i \notin chosen \/ i > n)
      BY <1>2, <1>6, <2>6
    <3> QED BY <2>3, <3>1 DEF LaidFrom
  <2>7. ASSUME NEW i \in chosen, i <= m
        PROVE  /\ next.off[i] % items[i].align = 0 /\ start.end <= next.off[i]
               /\ next.off[i] + items[i].size <= next.end
    <3>1. CASE i = m
      BY <1>1, <1>2, <1>3, <2>2, <2>3, <3>1
    <3>2. CASE i # m
      <4>1. i <= n /\ i \in DOMAIN items /\ next.off[i] = at.off[i]
        BY <1>2, <2>3, <2>7, <3>2
      <4>2. at.off[i] % items[i].align = 0 /\ start.end <= at.off[i] /\ at.off[i] + items[i].size <= at.end
        BY <4>1 DEF LaidFrom
      <4>3. at.off[i] + items[i].size <= next.end
        BY <1>1, <1>4, <2>4, <4>2
      <4> QED BY <4>1, <4>2, <4>3
    <3> QED BY <3>1, <3>2
  <2>8. ASSUME NEW i \in chosen, NEW j \in chosen, i < j, j <= m PROVE next.off[i] + items[i].size <= next.off[j]
    <3>1. i # m /\ i <= n /\ next.off[i] = at.off[i]
      BY <1>2, <2>3, <2>8
    <3>2. CASE j = m
      <4>1. at.off[i] + items[i].size <= at.end
        BY <3>1 DEF LaidFrom
      <4> QED BY <1>1, <1>3, <1>4, <2>3, <3>1, <3>2, <4>1
    <3>3. CASE j # m
      <4>1. j <= n /\ next.off[j] = at.off[j]
        BY <1>2, <2>3, <2>8, <3>3
      <4> QED BY <2>8, <3>1, <4>1 DEF LaidFrom
    <3> QED BY <3>2, <3>3
  <2>9. LaidFrom(items, chosen, start, m, next)
    BY <2>5, <2>6, <2>7, <2>8 DEF LaidFrom
  <2> QED BY <1>6, <2>9 DEF next
<1> QED BY <1>5, <1>6

\* Lay puts each chosen item at a multiple of its alignment, from the start up,
\* one above the other.
LEMMA LayFacts ==
  ASSUME NEW items, AreItems(items), NEW chosen \in SUBSET DOMAIN items, NEW start, IsPlace(items, start)
  PROVE  LaidFrom(items, chosen, start, Len(items), Lay(items, chosen, start))
<1>1. Len(items) \in Nat /\ DOMAIN items = 1 .. Len(items)
  BY DEF AreItems
<1>2. PICK laid : Laying(items, chosen, start, laid) /\ Lay(items, chosen, start) = laid[Len(items)]
  BY <1>1, LayIsLaying
<1> DEFINE P == {n \in Nat : n <= Len(items) => LaidFrom(items, chosen, start, n, laid[n])}
<1>3. 0 \in P
  <2>1. laid[0] = start /\ start.end \in Int
    BY <1>1, <1>2 DEF Laying, IsPlace
  <2>2. \A i \in DOMAIN items : i \in Int /\ i > 0
    BY <1>1
  <2>3. LaidFrom(items, chosen, start, 0, start)
    BY <2>1, <2>2 DEF LaidFrom
  <2> QED BY <2>1, <2>3
<1>4. ASSUME NEW n \in Nat, n \in P PROVE n + 1 \in P
  <2> SUFFICES ASSUME n + 1 <= Len(items) PROVE LaidFrom(items, chosen, start, n + 1, laid[n + 1])
    OBVIOUS
  <2>1. n + 1 \in DOMAIN items /\ n + 1 \in 0 .. Len(items) /\ n + 1 # 0 /\ (n + 1) - 1 = n /\ n <= Len(items)
    BY <1>1
  <2>2. laid[n + 1] = IF n + 1 \notin chosen THEN laid[n] ELSE PutItem(items, laid[n], n + 1)
    BY <1>2, <2>1 DEF Laying
  <2>3. LaidFrom(items, chosen, start, n, laid[n]) /\ start.end \in Int
    BY <1>4, <2>1 DEF IsPlace
  <2> QED BY <2>1, <2>2, <2>3, LayStep
<1> HIDE DEF P
<1>5. Len(items) \in P
  BY <1>1, <1>3, <1>4, NumberInduction
<1> QED BY <1>1, <1>2, <1>5 DEF P

\* From a start that is some words further up Lay ends as much further up.
LEMMA LayShift ==
  ASSUME NEW items, AreItems(items), NEW chosen \in SUBSET DOMAIN items,
         NEW start, IsPlace(items, start), NEW other, IsPlace(items, other),
         NEW pad \in Int, pad % PtrSize = 0, other.end = start.end + pad
  PROVE  Lay(items, chosen, other).end = Lay(items, chosen, start).end + pad
<1>1. Len(items) \in Nat /\ DOMAIN items = 1 .. Len(items)
  BY DEF AreItems
<1>2. PICK laid : Laying(items, chosen, start, laid) /\ Lay(items, chosen, start) = laid[Len(items)]
  BY <1>1, LayIsLaying
<1>3. PICK moved : Laying(items, chosen, other, moved) /\ Lay(items, chosen, other) = moved[Len(items)]
  BY <1>1, LayIsLaying
<1> DEFINE P == {n \in Nat : n <= Len(items) => laid[n].end \in Int /\ moved[n].end = laid[n].end + pad}
<1>4. 0 \in P
  <2>1. laid[0] = start /\ moved[0] = other /\ start.end \in Int
    BY <1>1, <1>2, <1>3 DEF Laying, IsPlace
  <2> QED BY <2>1
<1>5. ASSUME NEW n \in Nat, n \in P PROVE n + 1 \in P
  <2> SUFFICES ASSUME n + 1 <= Len(items) PROVE laid[n + 1].end \in Int /\ moved[n + 1].end = laid[n + 1].end + pad
    OBVIOUS
  <2> DEFINE m == n + 1
  <2>1. m \in DOMAIN items /\ m \in 0 .. Len(items) /\ m # 0 /\ m - 1 = n /\ n <= Len(items)
    BY <1>1
  <2>2. /\ laid[m] = IF m \notin chosen THEN laid[n] ELSE PutItem(items, laid[n], m)
        /\ moved[m] = IF m \notin chosen THEN moved[n] ELSE PutItem(items, moved[n], m)
    BY <1>2, <1>3, <2>1 DEF Laying
  <2>3. laid[n].end \in Int /\ moved[n].end = laid[n].end + pad
    BY <1>5, <2>1
  <2>4. items[m].align \in Nat \ {0} /\ PtrSize % items[m].align = 0 /\ items[m].size \in Nat
    BY <2>1 DEF AreItems, WellShaped
  <2>5. pad % items[m].align = 0
    BY <2>4, Divides, PtrSizeAssumption
  <2>6. RoundUp(moved[n].end, items[m].align) = RoundUp(laid[n].end, items[m].align) + pad
    <3> DEFINE x == laid[n].end
               a == items[m].align
    <3>1. x \in Int /\ a \in Nat \ {0} /\ pad \in Int /\ pad % a = 0 /\ moved[n].end = x + pad
      BY <2>3, <2>4, <2>5
    <3> HIDE DEF x, a
    <3>2. RoundUp(x + pad, a) = RoundUp(x, a) + pad
      BY ONLY <3>1, RoundUpShift
    <3> QED BY ONLY <3>1, <3>2 DEF x, a
  <2>7. RoundUp(laid[n].end, items[m].align) \in Int
    BY <2>3, <2>4, RoundUpFacts
  <2> HIDE DEF m
  <2>8. m \notin chosen => laid[m].end \in Int /\ moved[m].end = laid[m].end + pad
    BY <2>2, <2>3
  <2>9. m \in chosen => laid[m].end \in Int /\ moved[m].end = laid[m].end + pad
    <3> HAVE m \in chosen
    <3>1. /\ laid[m].end = RoundUp(laid[n].end, items[m].align) + items[m].size
          /\ moved[m].end = RoundUp(moved[n].end, items[m].align) + items[m].size
      BY <2>2 DEF PutItem
    <3> HIDE DEF RoundUp
    <3> QED BY <2>3, <2>4, <2>6, <2>7, <3>1
  <2> QED BY <2>8, <2>9 DEF m
<1> HIDE DEF P
<1>6. Len(items) \in P
  BY <1>1, <1>4, <1>5, NumberInduction
<1> QED BY <1>1, <1>2, <1>3, <1>6 DEF P
-----------------------------------------------------------------------------
(* The locals area *)

\* The items that hold no pointer, which PlaceLocals lays first, ...
Plain(items)       == DOMAIN items \ Pointered(items)
\* ... from base on, ...
Bottom(items, base) == [off |-> [i \in DOMAIN items |-> 0], end |-> base]
\* ... the places after them, ...
PlainPlace(items, base) == Lay(items, Plain(items), Bottom(items, base))
\* ... the word at which the items with pointers begin, ...
Group(items, base)      == RoundUp(PlainPlace(items, base).end, PtrSize)
\* ... what these are laid from, ...
Middle(items, base)     == [PlainPlace(items, base) EXCEPT !.end = Group(items, base)]
\* ... and the places after all items.
FullPlace(items, base)  == Lay(items, Pointered(items), Middle(items, base))

\* The two groups of items, the second from a word on.
InGroups(items, base) ==
  /\ Pointered(items) \in SUBSET DOMAIN items /\ Plain(items) \in SUBSET DOMAIN items
  /\ IsPlace(items, Bottom(items, base))
  /\ LaidFrom(items, Plain(items), Bottom(items, base), Len(items), PlainPlace(items, base))
  /\ Group(items, base) \in Int /\ Group(items, base) >= PlainPlace(items, base).end
  /\ Group(items, base) % PtrSize = 0
  /\ IsPlace(items, Middle(items, base))
  /\ LaidFrom(items, Pointered(items), Middle(items, base), Len(items), FullPlace(items, base))
  /\ Locals(items, base) = [off |-> FullPlace(items, base).off, ptrBase |-> Group(items, base),
                            varp |-> RoundUp(FullPlace(items, base).end, PtrSize)]

\* Both groups are apart from each other and in bounds, each item at its own alignment.
LEMMA Groups ==
  ASSUME NEW items, AreItems(items), NEW base \in Int
  PROVE  InGroups(items, base)
<1>1. Pointered(items) \in SUBSET DOMAIN items /\ Plain(items) \in SUBSET DOMAIN items
  BY DEF Pointered, Plain
<1>2. IsPlace(items, Bottom(items, base))
  BY DEF IsPlace, Bottom
<1>3. LaidFrom(items, Plain(items), Bottom(items, base), Len(items), PlainPlace(items, base))
  BY <1>1, <1>2, LayFacts DEF PlainPlace
<1>4. IsPlace(items, PlainPlace(items, base))
  BY <1>3 DEF LaidFrom
<1>5. /\ Group(items, base) \in Int /\ Group(items, base) >= PlainPlace(items, base).end
      /\ Group(items, base) % PtrSize = 0
  BY <1>4, RoundUpFacts, PtrSizeAssumption DEF Group, IsPlace
<1>6. IsPlace(items, Middle(items, base))
  BY <1>4, <1>5 DEF IsPlace, Middle
<1>7. LaidFrom(items, Pointered(items), Middle(items, base), Len(items), FullPlace(items, base))
  BY <1>1, <1>6, LayFacts DEF FullPlace
<1>8. Locals(items, base) = [off |-> FullPlace(items, base).off, ptrBase |-> Group(items, base),
                             varp |-> RoundUp(FullPlace(items, base).end, PtrSize)]
  BY DEF Locals, FullPlace, Middle, Group, PlainPlace, Bottom, Plain
<1> QED BY <1>1, <1>2, <1>3, <1>5, <1>6, <1>7, <1>8 DEF InGroups

\* Every item has its place between base and the top, those with pointers from
\* ptrBase on.
InLocals(items, base, l) ==
  /\ l.off \in [DOMAIN items -> Int] /\ l.ptrBase \in Int /\ l.varp \in Int
  /\ l.ptrBase % PtrSize = 0 /\ l.varp % PtrSize = 0 /\ base <= l.varp
  /\ \A i \in DOMAIN items : /\ l.off[i] % items[i].align = 0
                             /\ base <= l.off[i] /\ l.off[i] + items[i].size <= l.varp
  /\ \A i \in Pointered(items) : l.ptrBase <= l.off[i]
  /\ \A i, j \in DOMAIN items : i # j => \/ l.off[i] + items[i].size <= l.off[j]
                                       \/ l.off[j] + items[j].size <= l.off[i]

\* So are the locals of a frame (frame.go, layoutFrame).
LEMMA LocalsFacts ==
  ASSUME NEW items, AreItems(items), NEW base \in Int
  PROVE  InLocals(items, base, Locals(items, base))
<1> DEFINE plain == PlainPlace(items, base)
           full  == FullPlace(items, base)
           group == Group(items, base)
           mid   == Middle(items, base)
           top   == RoundUp(full.end, PtrSize)
           ps    == Pointered(items)
           l     == Locals(items, base)
<1>1. /\ ps \in SUBSET DOMAIN items /\ Plain(items) = DOMAIN items \ ps
      /\ LaidFrom(items, Plain(items), Bottom(items, base), Len(items), plain)
      /\ group \in Int /\ group >= plain.end /\ group % PtrSize = 0
      /\ LaidFrom(items, ps, mid, Len(items), full)
      /\ l = [off |-> full.off, ptrBase |-> group, varp |-> top]
  BY Groups DEF Plain, InGroups
<1>0. mid = [plain EXCEPT !.end = group]
  BY DEF Middle
<1> HIDE DEF plain, full, group, ps, l, mid
<1>2. \A i \in DOMAIN items : i \in Int /\ i <= Len(items) /\ items[i].size \in Nat
  BY DEF AreItems, WellShaped
<1>3. /\ plain.off \in [DOMAIN items -> Int] /\ plain.end \in Int /\ base <= plain.end
      /\ \A i \in Plain(items) : /\ plain.off[i] % items[i].align = 0
                                /\ base <= plain.off[i] /\ plain.off[i] + items[i].size <= plain.end
      /\ \A i, j \in Plain(items) : i < j => plain.off[i] + items[i].size <= plain.off[j]
  BY <1>1, <1>2 DEF LaidFrom, IsPlace, Bottom
<1>4. mid.end = group /\ mid.off = plain.off
  <2>1. plain = [off |-> plain.off, end |-> plain.end]
    BY <1>1 DEF LaidFrom, IsPlace
  <2> QED BY <1>0, <2>1
<1>5. /\ full.off \in [DOMAIN items -> Int] /\ full.end \in Int /\ group <= full.end
      /\ \A i \in DOMAIN items : i \notin ps => full.off[i] = plain.off[i]
      /\ \A i \in ps : /\ full.off[i] % items[i].align = 0
                      /\ group <= full.off[i] /\ full.off[i] + items[i].size <= full.end
      /\ \A i, j \in ps : i < j => full.off[i] + items[i].size <= full.off[j]
  BY <1>1, <1>2, <1>4 DEF LaidFrom, IsPlace
<1>6. top \in Int /\ full.end <= top /\ top % PtrSize = 0
  BY <1>5, PtrSizeAssumption, RoundUpFacts
<1> HIDE DEF top
<1>7. base <= top /\ base <= group
  BY <1>1, <1>3, <1>5, <1>6
<1>8. ASSUME NEW i \in DOMAIN items
      PROVE  /\ full.off[i] % items[i].align = 0
             /\ base <= full.off[i] /\ full.off[i] + items[i].size <= top
  <2>1. CASE i \in ps
    BY <1>1, <1>2, <1>5, <1>6, <1>7, <2>1
  <2>2. CASE i \notin ps
    <3>1. i \in Plain(items) /\ full.off[i] = plain.off[i] /\ items[i].size \in Nat /\ plain.off[i] \in Int
      BY <1>1, <1>2, <1>3, <1>5, <2>2
    <3>2. plain.off[i] % items[i].align = 0 /\ base <= plain.off[i] /\ plain.off[i] + items[i].size <= plain.end
      BY <1>3, <3>1
    <3> QED BY <1>1, <1>3, <1>5, <1>6, <3>1, <3>2
  <2> QED BY <2>1, <2>2
<1>9. ASSUME NEW i \in DOMAIN items, NEW j \in DOMAIN items, i \notin ps, j \in ps
      PROVE  full.off[i] + items[i].size <= full.off[j]
  <2>1. i \in Plain(items) /\ full.off[i] = plain.off[i] /\ items[i].size \in Nat /\ plain.off[i] \in Int
        /\ full.off[j] \in Int
    BY <1>1, <1>2, <1>3, <1>5, <1>9
  <2>2. plain.off[i] + items[i].size <= plain.end
    BY <1>3, <2>1
  <2>3. group <= full.off[j]
    BY <1>5, <1>9
  <2> QED BY <1>1, <1>3, <2>1, <2>2, <2>3
<1>10. ASSUME NEW i \in DOMAIN items, NEW j \in DOMAIN items, i # j
       PROVE  \/ full.off[i] + items[i].size <= full.off[j]
              \/ full.off[j] + items[j].size <= full.off[i]
  <2>1. i < j \/ j < i
    BY <1>2, <1>10
  <2>2. CASE i \in ps /\ j \in ps
    BY <1>5, <2>1, <2>2
  <2>3. CASE i \notin ps /\ j \notin ps
    <3>1. i \in Plain(items) /\ j \in Plain(items)
      BY <1>1, <2>3
    <3>2. full.off[i] = plain.off[i] /\ full.off[j] = plain.off[j]
      BY <1>5, <2>3
    <3> QED BY <1>3, <2>1, <3>1, <3>2
  <2>4. CASE i \notin ps /\ j \in ps
    BY <1>9, <2>4
  <2>5. CASE i \in ps /\ j \notin ps
    BY <1>9, <2>5
  <2> QED BY <2>2, <2>3, <2>4, <2>5
<1>11. l.off = full.off /\ l.ptrBase = group /\ l.varp = top
  BY <1>1
<1>12. InLocals(items, base, l)
  BY <1>1, <1>5, <1>6, <1>7, <1>8, <1>10, <1>11 DEF InLocals, ps
<1> QED BY <1>12 DEF l

\* From a base that is some words further up the area ends as much further up.
LEMMA LocalsShift ==
  ASSUME NEW items, AreItems(items), NEW base \in Int, NEW pad \in Int, pad % PtrSize = 0
  PROVE  Locals(items, base + pad).varp = Locals(items, base).varp + pad
<1> DEFINE up == base + pad
<1>0. up \in Int
  OBVIOUS
<1>a. InGroups(items, base) /\ InGroups(items, up)
  BY <1>0, Groups
<1> HIDE DEF up
<1>1. Bottom(items, up).end = Bottom(items, base).end + pad
  BY DEF Bottom, up
<1>2. PlainPlace(items, up).end = PlainPlace(items, base).end + pad
  BY <1>a, <1>1, LayShift DEF PlainPlace, InGroups
<1>3. /\ PlainPlace(items, base).end \in Int /\ FullPlace(items, base).end \in Int
      /\ PlainPlace(items, base) = [off |-> PlainPlace(items, base).off, end |-> PlainPlace(items, base).end]
      /\ PlainPlace(items, up) = [off |-> PlainPlace(items, up).off, end |-> PlainPlace(items, up).end]
  BY <1>a DEF InGroups, LaidFrom, IsPlace
<1>4. Group(items, up) = Group(items, base) + pad
  BY <1>2, <1>3, RoundUpShift, PtrSizeAssumption DEF Group
<1>5. Middle(items, up).end = Middle(items, base).end + pad
  BY <1>3, <1>4 DEF Middle
<1>6. FullPlace(items, up).end = FullPlace(items, base).end + pad
  BY <1>a, <1>5, LayShift DEF FullPlace, InGroups
<1>7. RoundUp(FullPlace(items, up).end, PtrSize) = RoundUp(FullPlace(items, base).end, PtrSize) + pad
  BY <1>3, <1>6, RoundUpShift, PtrSizeAssumption
<1>8. /\ Locals(items, up).varp = RoundUp(FullPlace(items, up).end, PtrSize)
      /\ Locals(items, base).varp = RoundUp(FullPlace(items, base).end, PtrSize)
  BY <1>a DEF InGroups
<1> QED BY <1>7, <1>8 DEF up

\* Without items the area is empty.
LEMMA NoLocals ==
  ASSUME NEW base \in Int, base % PtrSize = 0
  PROVE  Locals(<<>>, base).varp = base
<1> DEFINE none == <<>>
<1>0. AreItems(none) /\ Len(none) = 0
  BY DEF AreItems
<1>1. ASSUME NEW start, NEW chosen PROVE Lay(none, chosen, start) = start
  <2>1. PICK laid : Laying(none, chosen, start, laid) /\ Lay(none, chosen, start) = laid[Len(none)]
    BY <1>0, LayIsLaying
  <2> QED BY <1>0, <2>1 DEF Laying
<1>2. RoundUp(base, PtrSize) = base
  BY RoundUpOnly, PtrSizeAssumption
<1>3. PlainPlace(none, base).end = base
  BY <1>1 DEF PlainPlace, Bottom
<1>4. FullPlace(none, base).end = base
  <2>1. PlainPlace(none, base) = Bottom(none, base)
    BY <1>1 DEF PlainPlace
  <2>2. Middle(none, base).end = Group(none, base)
    BY <2>1 DEF Bottom, Middle
  <2> QED BY <1>1, <1>2, <1>3, <2>2 DEF FullPlace, Group
<1> HIDE DEF none
<1>5. Locals(none, base).varp = RoundUp(FullPlace(none, base).end, PtrSize)
  <2>1. InGroups(none, base)
    BY <1>0, Groups
  <2> QED BY <2>1 DEF InGroups
<1> QED BY <1>2, <1>4, <1>5 DEF none
-----------------------------------------------------------------------------

\* A finite set of numbers that is not empty has its greatest among them.
LEMMA FiniteMax ==
  ASSUME NEW s, IsFiniteSet(s), s \subseteq Nat, s # {}
  PROVE  Max(s) \in s /\ \A k \in s : k <= Max(s)
<1> DEFINE P == {t \in SUBSET s : \E n \in Nat : t \subseteq 0 .. n}
<1>1. {} \in P
  OBVIOUS
<1>2. ASSUME NEW t \in SUBSET s, t # {}, \A x \in t : t \ {x} \in P PROVE t \in P
  <2>1. PICK x \in t : TRUE
    BY <1>2
  <2>2. PICK n \in Nat : t \ {x} \subseteq 0 .. n
    BY <1>2, <2>1
  <2>3. x \in Nat /\ n + x \in Nat /\ 0 .. n \subseteq 0 .. n + x /\ x \in 0 .. n + x
    BY <2>1
  <2>4. t \subseteq 0 .. n + x
    BY <2>2, <2>3
  <2> QED BY <2>3, <2>4
<1> HIDE DEF P
<1>3. s \in P
  BY <1>1, <1>2, SetInduction
<1>4. PICK n \in Nat : s \subseteq 0 .. n
  BY <1>3 DEF P
<1> QED BY <1>4, MaxFacts

\* g tells the elements of the finite set T apart by numbers.
Ranks(T, g) == IsFiniteSet(T) /\ g \in [T -> Int] /\ \A i, j \in T : g[i] = g[j] => i = j

\* The elements of T with a smaller number.
Under(T, g, i) == {j \in T : g[j] < g[i]}

\* By how many are under it the elements of T are counted from 0, in their order.
Ranked(T, g) ==
  /\ \A k \in 1 .. Cardinality(T) : \E i \in T : Cardinality(Under(T, g, i)) = k - 1
  /\ \A i, j \in T : Cardinality(Under(T, g, i)) < Cardinality(Under(T, g, j)) => g[i] < g[j]

\* Ranks count a finite set up from one without a gap.
LEMMA RanksAreRanked ==
  ASSUME NEW T, NEW g, Ranks(T, g)
  PROVE  Ranked(T, g)
<1> DEFINE n == Cardinality(T)
           rank == [i \in T |-> Cardinality(Under(T, g, i))]
<1>0. IsFiniteSet(T) /\ g \in [T -> Int] /\ \A i, j \in T : g[i] = g[j] => i = j
  BY DEF Ranks
<1>1. \A i \in T : /\ Under(T, g, i) \in SUBSET T /\ i \notin Under(T, g, i)
                  /\ IsFiniteSet(Under(T, g, i)) /\ Cardinality(Under(T, g, i)) \in Nat
                  /\ Cardinality(Under(T, g, i)) <= n
                  /\ (Cardinality(Under(T, g, i)) = n => Under(T, g, i) = T)
  <2> TAKE i \in T
  <2>1. Under(T, g, i) \in SUBSET T /\ i \notin Under(T, g, i)
    BY <1>0 DEF Under
  <2> QED BY <1>0, <2>1, FS_Subset, FS_CardinalityType
<1>2. n \in Nat
  BY <1>0, FS_CardinalityType
<1>3. ASSUME NEW i \in T, NEW j \in T, g[i] < g[j]
      PROVE  Cardinality(Under(T, g, i)) < Cardinality(Under(T, g, j))
  <2>1. Under(T, g, i) \in SUBSET Under(T, g, j) /\ i \in Under(T, g, j) /\ i \notin Under(T, g, i)
    BY <1>0, <1>3 DEF Under
  <2>2. /\ Cardinality(Under(T, g, i)) <= Cardinality(Under(T, g, j))
        /\ Cardinality(Under(T, g, j)) # Cardinality(Under(T, g, i))
    BY <1>1, <2>1, FS_Subset
  <2> QED BY <1>1, <2>2
<1>4. \A i, j \in T : Cardinality(Under(T, g, i)) < Cardinality(Under(T, g, j)) => g[i] < g[j]
  <2> TAKE i, j \in T
  <2>1. CASE i = j
    BY <1>1, <2>1
  <2>2. CASE i # j
    <3>1. g[i] < g[j] \/ g[j] < g[i]
      BY <1>0, <2>2
    <3>2. g[j] < g[i] => Cardinality(Under(T, g, j)) < Cardinality(Under(T, g, i))
      BY <1>3
    <3> QED BY <1>1, <3>1, <3>2
  <2> QED BY <2>1, <2>2
<1>5. rank \in [T -> 0 .. n - 1]
  <2>1. \A i \in T : Cardinality(Under(T, g, i)) \in 0 .. n - 1
    <3> TAKE i \in T
    <3>1. Cardinality(Under(T, g, i)) # n
      BY <1>1
    <3> QED BY <1>1, <1>2, <3>1
  <2> QED BY <2>1
<1>6. \A i, j \in T : i # j => rank[i] # rank[j]
  <2> TAKE i, j \in T
  <2> HAVE i # j
  <2>1. g[i] < g[j] \/ g[j] < g[i]
    BY <1>0
  <2>2. Cardinality(Under(T, g, i)) < Cardinality(Under(T, g, j)) \/ Cardinality(Under(T, g, j)) < Cardinality(Under(T, g, i))
    BY <1>3, <2>1
  <2> QED BY <1>1, <2>2
<1>7. rank \in Injection(T, 0 .. n - 1)
  BY <1>5, <1>6 DEF Injection, IsInjective
<1>8. IsFiniteSet(0 .. n - 1) /\ Cardinality(0 .. n - 1) = n
  <2>1. n - 1 \in Int /\ 0 \in Int
    BY <1>2
  <2>2. IsFiniteSet(0 .. n - 1) /\ Cardinality(0 .. n - 1) = IF 0 > n - 1 THEN 0 ELSE (n - 1) - 0 + 1
    BY <2>1, FS_Interval
  <2> QED BY <1>2, <2>2
<1> HIDE DEF rank
<1>9. rank \in Surjection(T, 0 .. n - 1)
  BY <1>7, <1>8, FS_Injection
<1>10. \A k \in 1 .. n : \E i \in T : rank[i] = k - 1
  <2> TAKE k \in 1 .. n
  <2>1. k - 1 \in 0 .. n - 1
    BY <1>2
  <2> QED BY <1>9, <2>1 DEF Surjection
<1>11. \A i \in T : rank[i] = Cardinality(Under(T, g, i))
  BY DEF rank
<1> QED BY <1>4, <1>10, <1>11 DEF Ranked
-----------------------------------------------------------------------------
(* The frame *)

\* A sequence, of anything: SMT knows no Seq of items it knows nothing about.
IsSequence(s) == Len(s) \in Nat /\ s = [i \in 1 .. Len(s) |-> s[i]]

\* What a frame is laid out from: slots, and a function with its calls and its
\* objects.
HasFrame(f, slots) ==
  /\ IsSequence(slots) /\ IsSequence(f.objs) /\ IsSequence(f.op)
  /\ \A i \in DOMAIN f.objs : WellShaped(f.objs[i])
  /\ \A c \in DOMAIN f.op : Len(f.args[c]) \in Nat

\* The items of a frame are what Lay expects: spill slots and objects, each with a size
\* and an alignment of its own.
LEMMA SpillsAndObjects ==
  ASSUME NEW f, NEW slots, HasFrame(f, slots)
  PROVE  /\ AreItems(FrameItems(f, slots))
         /\ \A i \in DOMAIN FrameItems(f, slots) :
               FrameItems(f, slots)[i].object => FrameItems(f, slots)[i].ptrs # {}
<1> DEFINE spills  == [i \in DOMAIN slots |-> SpillItem(f, slots[i])]
           objects == [i \in DOMAIN f.objs |-> ObjectItem(f.objs[i])]
           S == {spills[i] : i \in DOMAIN slots} \cup {objects[i] : i \in DOMAIN f.objs}
           items == FrameItems(f, slots)
<1>1. PtrSize \in Nat \ {0} /\ PtrSize % PtrSize = 0 /\ PtrSize % 1 = 0
  BY PtrSizeAssumption
<1>2. \A slot : WellShaped(SpillItem(f, slot)) /\ ~SpillItem(f, slot).object
  <2> TAKE slot
  <2>1. CASE slot \subseteq f.ptr
    <3>1. SpillItem(f, slot) = [kind |-> "spill", name |-> NoId, object |-> FALSE,
                                size |-> PtrSize, align |-> PtrSize, ptrs |-> {0}]
      BY <2>1 DEF SpillItem
    <3>2. \A w \in {0} : (w + 1) * PtrSize <= PtrSize
      BY <1>1
    <3> QED BY <1>1, <3>1, <3>2 DEF WellShaped
  <2>2. CASE ~(slot \subseteq f.ptr)
    <3>1. SpillItem(f, slot) = [kind |-> "spill", name |-> NoId, object |-> FALSE,
                                size |-> 1, align |-> 1, ptrs |-> {}]
      BY <2>2 DEF SpillItem
    <3> QED BY <1>1, <3>1 DEF WellShaped
  <2> QED BY <2>1, <2>2
<1>3. \A o : WellShaped(o) => WellShaped(ObjectItem(o)) /\ (ObjectItem(o).object => ObjectItem(o).ptrs # {})
  BY DEF WellShaped, ObjectItem
<1>4. spills \in Seq(S) /\ Len(spills) = Len(slots)
  <2>1. spills \in [1 .. Len(slots) -> S] /\ Len(slots) \in Nat
    BY DEF HasFrame, IsSequence
  <2> HIDE DEF spills, S
  <2> QED BY <2>1
<1>5. objects \in Seq(S) /\ Len(objects) = Len(f.objs)
  <2>1. objects \in [1 .. Len(f.objs) -> S] /\ Len(f.objs) \in Nat
    BY DEF HasFrame, IsSequence
  <2> HIDE DEF objects, S
  <2> QED BY <2>1
<1>6. \A x \in S : WellShaped(x) /\ (x.object => x.ptrs # {})
  <2>1. \A i \in DOMAIN slots : WellShaped(spills[i]) /\ (spills[i].object => spills[i].ptrs # {})
    BY <1>2
  <2>2. \A i \in DOMAIN f.objs : WellShaped(objects[i]) /\ (objects[i].object => objects[i].ptrs # {})
    BY <1>3 DEF HasFrame
  <2> HIDE DEF spills, objects
  <2> QED BY <2>1, <2>2
<1>7. items \in Seq(S)
  <2>1. items = spills \o objects
    BY DEF FrameItems
  <2> HIDE DEF spills, objects, S, items
  <2> QED BY <1>4, <1>5, <2>1
<1> HIDE DEF S, items
<1>8. Len(items) \in Nat /\ DOMAIN items = 1 .. Len(items) /\ \A i \in DOMAIN items : items[i] \in S
  BY <1>7
<1> QED BY <1>6, <1>8 DEF AreItems, items

\* The room for the arguments of the calls is a number of bytes.
LEMMA OutArgsNat ==
  ASSUME NEW f, NEW slots, HasFrame(f, slots)
  PROVE  OutArgs(f) \in Nat
<1> DEFINE calls == {v \in DOMAIN f.op : f.op[v] = "call"}
           bytes == [c \in calls |-> PtrSize * Len(f.args[c])]
           T == {PtrSize * Len(f.args[c]) : c \in calls}
<1>1. IsFiniteSet(calls)
  <2>0. 1 \in Int /\ Len(f.op) \in Int /\ DOMAIN f.op = 1 .. Len(f.op)
    BY DEF HasFrame, IsSequence
  <2>1. IsFiniteSet(1 .. Len(f.op)) /\ calls \in SUBSET (1 .. Len(f.op))
    BY <2>0, FS_Interval
  <2> QED BY <2>1, FS_Subset
<1>2. bytes \in Surjection(calls, T)
  BY DEF Surjection
<1>3. IsFiniteSet(T)
  BY <1>1, <1>2, FS_Surjection
<1>4. T \subseteq Nat
  BY PtrSizeAssumption DEF HasFrame
<1> DEFINE U == {0} \cup T
<1>5. OutArgs(f) = Max(U)
  BY DEF OutArgs
<1>6. IsFiniteSet(U)
  <2> HIDE DEF T
  <2>1. U = T \cup {0}
    OBVIOUS
  <2> QED BY <1>3, <2>1, FS_AddElement
<1>7. U \subseteq Nat /\ U # {}
  BY <1>4
<1> HIDE DEF U
<1>8. Max(U) \in U
  BY <1>6, <1>7, FiniteMax
<1> QED BY <1>5, <1>7, <1>8

\* The numbers of a frame: from what it begins at to its size.
Sized(f, slots, fr) ==
  /\ InLocals(fr.items, fr.localsBase, fr)
  /\ fr.localsBase \in Nat /\ fr.localsBase % PtrSize = 0
  /\ fr.size \in Nat /\ fr.size % SPAlign = 0
  /\ (fr.size = 0 /\ fr.items = <<>>) \/ (/\ fr.varp = fr.size - PtrSize
                                       /\ fr.localsBase >= LinkSlot + OutArgs(f))

\* The size and the offsets of the frame of a function are those of its locals, above
\* the arguments of its calls.
LEMMA FrameSized ==
  ASSUME NEW f, NEW slots, HasFrame(f, slots)
  PROVE  /\ Sized(f, slots, LayoutFrame(f, slots))
         /\ LayoutFrame(f, slots).items = FrameItems(f, slots)
<1> DEFINE items     == FrameItems(f, slots)
           frameless == IsLeaf(f) /\ items = <<>>
           above     == IF frameless THEN 0 ELSE PtrSize
           out       == IF frameless THEN 0 ELSE RoundUp(LinkSlot + OutArgs(f), PtrSize)
           natural   == Locals(items, out).varp + above
           pad       == RoundUp(natural, SPAlign) - natural
           base      == out + pad
           placed    == Locals(items, base)
           fr        == LayoutFrame(f, slots)
<1>1. fr = [items |-> items, off |-> placed.off, ptrBase |-> placed.ptrBase, varp |-> placed.varp,
            size |-> placed.varp + above, localsBase |-> base, argsBits |-> ArgsBits(f)]
  BY DEF LayoutFrame
<1>2. /\ fr.items = items /\ fr.off = placed.off /\ fr.ptrBase = placed.ptrBase /\ fr.varp = placed.varp
      /\ fr.size = placed.varp + above /\ fr.localsBase = base
  BY <1>1
<1>p. PtrSize \in Nat \ {0} /\ SPAlign \in Nat \ {0} /\ SPAlign = 2 * PtrSize /\ LinkSlot = PtrSize
  BY PtrSizeAssumption DEF SPAlign, LinkSlot
<1>i. AreItems(items)
  BY SpillsAndObjects
<1>o. OutArgs(f) \in Nat
  BY OutArgsNat
<1> HIDE DEF items, fr
<1>3. /\ out \in Nat /\ out % PtrSize = 0 /\ above \in {0, PtrSize}
      /\ ~frameless => out >= LinkSlot + OutArgs(f) /\ above = PtrSize
      /\ frameless => out = 0 /\ above = 0
  <2> DEFINE n == LinkSlot + OutArgs(f)
  <2>1. n \in Nat
    BY <1>o, <1>p
  <2>2. RoundUp(n, PtrSize) \in Int /\ RoundUp(n, PtrSize) >= n /\ RoundUp(n, PtrSize) % PtrSize = 0
    BY <1>p, <2>1, RoundUpFacts
  <2>3. 0 % PtrSize = 0
    BY <1>p
  <2> QED BY <1>p, <2>1, <2>2, <2>3
<1> HIDE DEF out, above
<1>4. /\ Locals(items, out).varp \in Int /\ Locals(items, out).varp % PtrSize = 0
      /\ out <= Locals(items, out).varp
  BY <1>3, <1>i, LocalsFacts DEF InLocals
<1>5. natural \in Nat /\ natural % PtrSize = 0
  <2>1. above \in Int /\ above % PtrSize = 0 /\ above >= 0
    BY <1>3, <1>p
  <2>2. (Locals(items, out).varp + above) % PtrSize = 0
    BY <1>4, <1>p, <2>1, SumOfMultiples
  <2> QED BY <1>3, <1>4, <2>1, <2>2
<1> HIDE DEF natural
<1>6. /\ RoundUp(natural, SPAlign) \in Int /\ RoundUp(natural, SPAlign) >= natural
      /\ RoundUp(natural, SPAlign) % SPAlign = 0
  BY <1>5, <1>p, RoundUpFacts
<1>7. pad \in Nat /\ pad % PtrSize = 0 /\ natural + pad = RoundUp(natural, SPAlign)
  <2>1. SPAlign % PtrSize = 0
    BY <1>p, Multiple
  <2>2. RoundUp(natural, SPAlign) % PtrSize = 0
    BY <1>6, <1>p, <2>1, Divides
  <2>3. pad % PtrSize = 0
    BY <1>5, <1>6, <1>p, <2>2, SumOfMultiples
  <2> HIDE DEF RoundUp
  <2> QED BY <1>5, <1>6, <2>3
<1> HIDE DEF pad
<1>8. placed.varp = Locals(items, out).varp + pad
  BY <1>3, <1>7, <1>i, LocalsShift
<1>9. base \in Nat /\ base % PtrSize = 0 /\ base >= out
  BY <1>3, <1>7, <1>p, SumOfMultiples
<1>10. InLocals(items, base, placed)
  BY <1>9, <1>i, LocalsFacts
<1>11. InLocals(items, base, fr)
  BY <1>2, <1>10 DEF InLocals
<1>12. fr.size = RoundUp(natural, SPAlign)
  BY <1>2, <1>3, <1>4, <1>7, <1>8, <1>p DEF natural
<1>13. fr.size \in Nat /\ fr.size % SPAlign = 0
  BY <1>5, <1>6, <1>12
<1>14. ASSUME ~frameless PROVE Sized(f, slots, fr)
  <2>1. fr.varp = fr.size - PtrSize
    BY <1>2, <1>3, <1>4, <1>7, <1>8, <1>14, <1>p
  <2>2. fr.localsBase >= LinkSlot + OutArgs(f)
    BY <1>2, <1>3, <1>9, <1>14, <1>o, <1>p
  <2> QED BY <1>2, <1>9, <1>11, <1>13, <2>1, <2>2 DEF Sized
<1>15. ASSUME frameless PROVE Sized(f, slots, fr)
  <2>1. Locals(items, out).varp = 0
    BY <1>3, <1>15, NoLocals
  <2>2. natural = 0
    BY <1>3, <1>15, <2>1 DEF natural
  <2>3. RoundUp(0, SPAlign) = 0
    BY <1>p, RoundUpOnly
  <2> QED BY <1>2, <1>9, <1>11, <1>12, <1>13, <1>15, <2>2, <2>3 DEF Sized
<1> QED BY <1>2, <1>14, <1>15 DEF fr, items
\* The table of stack objects is in the order of the frame.
LEMMA TableInOrder ==
  ASSUME NEW fr, IsFiniteSet(Objects(fr)),
         \A i \in Objects(fr) : fr.off[i] \in Int /\ fr.off[i] < fr.varp, fr.varp \in Int,
         \A i, j \in Objects(fr) : fr.off[i] = fr.off[j] => i = j
  PROVE  LET table == StackObjects(fr)
         IN  \A k \in DOMAIN table : table[k].off < 0 /\ (k > 1 => table[k - 1].off < table[k].off)
<1> DEFINE T == Objects(fr)
           g == [i \in T |-> fr.off[i]]
           n == Cardinality(T)
           table == StackObjects(fr)
           at(k) == CHOOSE i \in T : Cardinality(Below(fr, i)) = k - 1
<1>1. n \in Nat
  BY FS_CardinalityType
<1>2. Ranks(T, g)
  BY DEF Ranks
<1>3. Ranked(T, g)
  BY <1>2, RanksAreRanked
<1>4. \A i \in T : Under(T, g, i) = Below(fr, i)
  BY DEF Under, Below
<1>5. \A k \in 1 .. n : at(k) \in T /\ Cardinality(Below(fr, at(k))) = k - 1
  <2> TAKE k \in 1 .. n
  <2>1. \E i \in T : Cardinality(Below(fr, i)) = k - 1
    BY <1>3, <1>4 DEF Ranked
  <2> HIDE DEF T
  <2> QED BY <2>1
<1>6. DOMAIN table = 1 .. n /\ \A k \in 1 .. n : table[k].off = fr.off[at(k)] - fr.varp
  BY DEF StackObjects
<1> HIDE DEF at, table
<1>7. ASSUME NEW k \in 1 .. n, k > 1 PROVE fr.off[at(k - 1)] < fr.off[at(k)]
  <2>1. k - 1 \in 1 .. n /\ k \in Int
    BY <1>1, <1>7
  <2>2. /\ at(k) \in T /\ at(k - 1) \in T
        /\ Cardinality(Below(fr, at(k))) = k - 1 /\ Cardinality(Below(fr, at(k - 1))) = (k - 1) - 1
    BY <1>5, <2>1
  <2>3. Cardinality(Under(T, g, at(k - 1))) < Cardinality(Under(T, g, at(k)))
    BY <1>4, <2>1, <2>2
  <2>4. g[at(k - 1)] < g[at(k)]
    BY <1>3, <2>2, <2>3 DEF Ranked
  <2> QED BY <2>2, <2>4
<1>8. ASSUME NEW k \in 1 .. n PROVE table[k].off < 0 /\ (k > 1 => table[k - 1].off < table[k].off)
  <2>1. at(k) \in T /\ fr.off[at(k)] \in Int /\ fr.off[at(k)] < fr.varp
    BY <1>5
  <2>2. table[k].off < 0
    BY <1>6, <2>1
  <2>3. ASSUME k > 1 PROVE table[k - 1].off < table[k].off
    <3>1. k - 1 \in 1 .. n
      BY <1>1, <2>3
    <3>2. at(k - 1) \in T /\ fr.off[at(k - 1)] \in Int
      BY <1>5, <3>1
    <3>3. fr.off[at(k - 1)] < fr.off[at(k)]
      BY <1>7, <2>3
    <3>4. table[k - 1].off = fr.off[at(k - 1)] - fr.varp /\ table[k].off = fr.off[at(k)] - fr.varp
      BY <1>6, <3>1
    <3> QED BY <2>1, <3>2, <3>3, <3>4
  <2> QED BY <2>2, <2>3
<1> QED BY <1>6, <1>8 DEF table

\* Every frame that is laid out is as the generator and the runtime rely on.
LEMMA FrameWellPlaced ==
  ASSUME NEW f, NEW slots, HasFrame(f, slots)
  PROVE  WellPlaced(f, LayoutFrame(f, slots))
<1> DEFINE fr == LayoutFrame(f, slots)
           items == fr.items
           P == PtrSize
<1>1. Sized(f, slots, fr) /\ items = FrameItems(f, slots)
  BY FrameSized
<1>2. AreItems(items) /\ \A i \in DOMAIN items : items[i].object => items[i].ptrs # {}
  BY <1>1, SpillsAndObjects
<1>o. OutArgs(f) \in Nat
  BY OutArgsNat
<1>p. P \in Nat \ {0} /\ SPAlign \in Nat \ {0} /\ SPAlign = 2 * P /\ LinkSlot = P
  BY PtrSizeAssumption DEF SPAlign, LinkSlot
<1> HIDE DEF fr
<1>3. /\ fr.off \in [DOMAIN items -> Int] /\ fr.ptrBase \in Int /\ fr.varp \in Int
      /\ fr.ptrBase % P = 0 /\ fr.localsBase \in Nat /\ fr.size \in Nat /\ fr.size % SPAlign = 0
  BY <1>1 DEF Sized, InLocals
<1>4. \A i \in DOMAIN items :
         /\ items[i].size \in Nat /\ items[i].ptrs \subseteq Nat
         /\ items[i].ptrs # {} => items[i].align = P
         /\ \A w \in items[i].ptrs : (w + 1) * P <= items[i].size
  BY <1>2 DEF AreItems, WellShaped
<1>5. \A i \in DOMAIN items :
         /\ fr.off[i] % items[i].align = 0 /\ fr.off[i] \in Int
         /\ fr.localsBase <= fr.off[i] /\ fr.off[i] + items[i].size <= fr.varp
  BY <1>1, <1>3 DEF Sized, InLocals
<1>6. \A i \in Pointered(items) : i \in DOMAIN items /\ items[i].ptrs # {} /\ fr.ptrBase <= fr.off[i]
  BY <1>1 DEF Sized, InLocals, Pointered
<1>7. \A i, j \in DOMAIN items :
         i # j => \/ fr.off[i] + items[i].size <= fr.off[j]
                  \/ fr.off[j] + items[j].size <= fr.off[i]
  BY <1>1 DEF Sized, InLocals
<1>8. \A i \in DOMAIN items : items[i].ptrs # {} => items[i].size >= P
  <2> TAKE i \in DOMAIN items
  <2> HAVE items[i].ptrs # {}
  <2>1. PICK w \in items[i].ptrs : (w + 1) * P <= items[i].size
    BY <1>4
  <2>2. w \in Nat /\ items[i].size \in Nat
    BY <1>4, <2>1
  <2>3. P <= (w + 1) * P
    BY <1>p, <2>2
  <2>4. (w + 1) * P \in Int
    BY <1>p, <2>2
  <2> QED BY <1>p, <2>1, <2>2, <2>3, <2>4
<1>9. fr.size > 0 => fr.varp = fr.size - P /\ fr.localsBase >= LinkSlot + OutArgs(f)
  BY <1>1, <1>3 DEF Sized
<1>10. items # <<>> => fr.varp = fr.size - P /\ fr.localsBase >= LinkSlot + OutArgs(f)
  BY <1>1 DEF Sized
<1>11. ASSUME Pointered(items) # {} PROVE fr.varp > SPAlign
  <2>1. PICK i \in Pointered(items) : TRUE
    BY <1>11
  <2>2. i \in DOMAIN items /\ items[i].size >= P /\ items[i].size \in Nat
    BY <1>4, <1>6, <1>8, <2>1
  <2>3. items # <<>>
    BY <2>2
  <2>4. fr.varp = fr.size - P /\ fr.localsBase >= P
    BY <1>10, <1>o, <1>p, <1>3, <2>3
  <2>5. fr.localsBase <= fr.off[i] /\ fr.off[i] + items[i].size <= fr.varp /\ fr.off[i] \in Int
    BY <1>5, <2>2
  <2>6. fr.varp >= 2 * P
    BY <1>3, <1>p, <2>2, <2>4, <2>5
  <2>7. PICK q \in Int : fr.size = SPAlign * q
    BY <1>3, <1>p, fr.size \in Int, Divided
  <2>8. fr.size = q * (2 * P) /\ fr.size >= 3 * P
    BY <1>3, <1>p, <2>4, <2>6, <2>7
  <2>9. q >= 2
    <3>1. q <= 1 => q * (2 * P) <= 2 * P
      BY <1>p
    <3>2. 2 * P < 3 * P
      BY <1>p
    <3> QED BY <1>p, <1>3, <2>8, <3>1, <3>2
  <2>10. q * (2 * P) >= 4 * P
    BY <1>p, <2>9
  <2>11. fr.size >= 4 * P
    BY <2>8, <2>10
  <2> QED BY <1>3, <1>p, <2>4, <2>11
<1>12. \A i \in DOMAIN items : Bytes(fr, i) \subseteq fr.localsBase .. fr.varp - 1
  BY <1>3, <1>4, <1>5 DEF Bytes
<1>13. \A i \in DOMAIN items : \A j \in DOMAIN items \ {i} : Bytes(fr, i) \cap Bytes(fr, j) = {}
  BY <1>3, <1>4, <1>5, <1>7 DEF Bytes
<1>14. ASSUME NEW i \in DOMAIN items, NEW w \in items[i].ptrs
       PROVE  /\ WordOff(fr, i, w) >= fr.ptrBase
              /\ BitOff(fr, LocalBit(fr, WordOff(fr, i, w))) = WordOff(fr, i, w)
  <2>1. i \in Pointered(items) /\ w \in Nat /\ items[i].align = P
    BY <1>4 DEF Pointered
  <2>2. fr.ptrBase <= fr.off[i] /\ fr.off[i] % P = 0 /\ fr.off[i] \in Int
    BY <1>5, <1>6, <2>1
  <2>3. PICK x \in Nat : x = w * P /\ x % P = 0
    <3>1. w \in Int /\ P \in Nat \ {0} /\ P \in Nat
      BY <1>p, <2>1
    <3>2. (w * P) % P = 0
      BY <3>1, Multiple
    <3>3. w * P \in Nat
      BY <2>1, <3>1, Product
    <3> QED BY <3>2, <3>3
  <2> DEFINE off == fr.off[i] + x
             d == off - fr.ptrBase
  <2>4. off \in Int /\ off >= fr.ptrBase /\ off % P = 0
    BY <1>3, <1>p, <2>2, <2>3, SumOfMultiples
  <2>5. d \in Int /\ d % P = 0
    BY <1>3, <1>p, <2>4, SumOfMultiples
  <2> HIDE DEF off
  <2>6. PICK q \in Int : d = P * q
    BY <1>p, <2>5, Divided
  <2>7. d = q * P /\ d \div P = q
    BY <1>p, <2>6, Multiple
  <2>8. WordOff(fr, i, w) = off
    BY <2>3 DEF WordOff, off
  <2>9. BitOff(fr, LocalBit(fr, off)) = fr.ptrBase + (d \div P) * P
    BY DEF BitOff, LocalBit
  <2>10. fr.ptrBase + d = off
    BY <1>3, <2>4
  <2> QED BY <2>4, <2>7, <2>8, <2>9, <2>10
<1>15. LET table == StackObjects(fr)
       IN  \A k \in DOMAIN table : table[k].off < 0 /\ (k > 1 => table[k - 1].off < table[k].off)
  <2>1. Objects(fr) \in SUBSET DOMAIN items /\ IsFiniteSet(DOMAIN items)
    <3>1. Len(items) \in Nat /\ DOMAIN items = 1 .. Len(items) /\ 1 \in Int /\ Len(items) \in Int
      BY <1>2 DEF AreItems
    <3>2. IsFiniteSet(1 .. Len(items))
      BY <3>1, FS_Interval
    <3> QED BY <3>1, <3>2 DEF Objects
  <2>2. IsFiniteSet(Objects(fr))
    BY <2>1, FS_Subset
  <2>3. \A i \in Objects(fr) : i \in DOMAIN items /\ items[i].ptrs # {}
    BY <1>2, <2>1 DEF Objects
  <2>4. \A i \in Objects(fr) : fr.off[i] \in Int /\ fr.off[i] < fr.varp
    BY <1>3, <1>4, <1>5, <1>8, <1>p, <2>3
  <2>5. ASSUME NEW i \in Objects(fr), NEW j \in Objects(fr), fr.off[i] = fr.off[j] PROVE i = j
    <3>1. /\ i \in DOMAIN items /\ j \in DOMAIN items /\ fr.off[i] \in Int
          /\ items[i].size \in Nat /\ items[j].size \in Nat /\ items[i].size >= P /\ items[j].size >= P
      BY <1>4, <1>5, <1>8, <2>3
    <3>2. i # j => fr.off[i] + items[i].size <= fr.off[j] \/ fr.off[j] + items[j].size <= fr.off[i]
      BY <1>7, <3>1
    <3> QED BY <1>p, <2>5, <3>1, <3>2
  <2> QED BY <1>3, <2>2, <2>4, <2>5, TableInOrder
<1> HIDE DEF items
<1>16. WellPlaced(f, fr)
  BY <1>3, <1>5, <1>9, <1>11, <1>12, <1>13, <1>14, <1>15 DEF WellPlaced, items
<1> QED BY <1>16 DEF fr

-----------------------------------------------------------------------------
(* Sequences, of anything *)

\* A sequence over a set is a sequence.
LEMMA SeqIsSequence ==
  ASSUME NEW S, NEW t \in Seq(S)
  PROVE  IsSequence(t)
BY DEF IsSequence

\* t is s with x at its end.
IsAppended(t, s, x) == /\ IsSequence(t) /\ Len(t) = Len(s) + 1
                       /\ t[Len(s) + 1] = x /\ \A i \in 1 .. Len(s) : t[i] = s[i]

\* What Append does.
LEMMA Appended ==
  ASSUME NEW s, IsSequence(s), NEW x
  PROVE  IsAppended(Append(s, x), s, x)
<1> DEFINE S == {s[i] : i \in 1 .. Len(s)} \cup {x}
           t == Append(s, x)
<1>1. s \in Seq(S) /\ x \in S
  BY DEF IsSequence
<1> HIDE DEF S
<1>2. /\ t \in Seq(S) /\ Len(t) = Len(s) + 1
      /\ t[Len(s) + 1] = x /\ \A i \in 1 .. Len(s) : t[i] = s[i]
  BY <1>1
<1>3. IsSequence(t)
  BY <1>2, SeqIsSequence
<1> QED BY <1>2, <1>3 DEF IsAppended

\* t is the part of s from m to n.
IsPart(t, s, m, n) == /\ IsSequence(t) /\ Len(t) = n + 1 - m
                      /\ \A i \in 1 .. n + 1 - m : t[i] = s[m + i - 1]

\* What SubSeq does.
LEMMA Part ==
  ASSUME NEW s, IsSequence(s), NEW m \in 1 .. Len(s) + 1, NEW n \in m - 1 .. Len(s)
  PROVE  IsPart(SubSeq(s, m, n), s, m, n)
<1> DEFINE S == {s[i] : i \in 1 .. Len(s)}
           t == SubSeq(s, m, n)
<1>0. Len(s) \in Nat
  BY DEF IsSequence
<1>1. s \in Seq(S)
  BY DEF IsSequence
<1> HIDE DEF S
<1>2. /\ t = [i \in 1 .. n + 1 - m |-> s[m + i - 1]]
      /\ Len(t) = n + 1 - m
  <2>1. n + 1 - m \in Nat
    BY <1>0
  <2>2. t = [i \in 1 .. 1 + n - m |-> s[m + i - 1]]
    BY <1>1, SubSeqProperties
  <2> QED BY <1>0, <2>1, <2>2
<1>3. IsSequence(t)
  BY <1>0, <1>2 DEF IsSequence
<1> QED BY <1>2, <1>3 DEF IsPart
\* t is s with e in at i.
IsInserted(t, s, i, e) ==
  /\ IsSequence(t) /\ Len(t) = Len(s) + 1 /\ t[i] = e
  /\ \A k \in 1 .. i - 1 : t[k] = s[k]
  /\ \A k \in i .. Len(s) : t[k + 1] = s[k]

\* What InsertAt does.
LEMMA Inserted ==
  ASSUME NEW s, IsSequence(s), NEW i \in 1 .. Len(s) + 1, NEW e
  PROVE  IsInserted(InsertAt(s, i, e), s, i, e)
<1> DEFINE S == {s[k] : k \in 1 .. Len(s)} \cup {e}
           a == SubSeq(s, 1, i - 1)
           c == SubSeq(s, i, Len(s))
           t == InsertAt(s, i, e)
<1>0. Len(s) \in Nat /\ i \in Nat
  BY DEF IsSequence
<1>1. e \in S /\ \A k \in 1 .. Len(s) : s[k] \in S
  OBVIOUS
<1> HIDE DEF S
<1>2. a \in Seq(S) /\ Len(a) = i - 1 /\ \A k \in 1 .. i - 1 : a[k] = s[k]
  BY <1>0, <1>1, SubSeqProperties
<1>3. c \in Seq(S) /\ Len(c) = Len(s) + 1 - i /\ \A k \in 1 .. Len(s) + 1 - i : c[k] = s[i + k - 1]
  BY <1>0, <1>1, SubSeqProperties
<1>4. t = a \o <<e>> \o c
  BY DEF InsertAt
<1> HIDE DEF a, c, t
<1>5. /\ a \o <<e>> \in Seq(S) /\ Len(a \o <<e>>) = i /\ (a \o <<e>>)[i] = e
      /\ \A k \in 1 .. i - 1 : (a \o <<e>>)[k] = a[k]
  BY <1>0, <1>1, <1>2
<1>6. PICK b \in Seq(S) : b = a \o <<e>>
  BY <1>5
<1>7. t = b \o c
  BY <1>4, <1>6
<1>8. /\ t \in Seq(S) /\ Len(t) = Len(s) + 1
      /\ \A k \in 1 .. i : t[k] = b[k]
      /\ \A k \in 1 .. Len(s) + 1 - i : t[i + k] = c[k]
  BY <1>0, <1>3, <1>5, <1>6, <1>7
<1>9. t[i] = e /\ \A k \in 1 .. i - 1 : t[k] = s[k]
  BY <1>0, <1>2, <1>5, <1>6, <1>8
<1>10. \A k \in i .. Len(s) : t[k + 1] = s[k]
  <2> TAKE k \in i .. Len(s)
  <2> DEFINE j == k + 1 - i
  <2>1. j \in 1 .. Len(s) + 1 - i /\ i + j = k + 1 /\ i + j - 1 = k
    BY <1>0
  <2> HIDE DEF j
  <2> QED BY <1>3, <1>8, <2>1
<1>11. IsSequence(t)
  BY <1>8, SeqIsSequence
<1> QED BY <1>8, <1>9, <1>10, <1>11 DEF IsInserted, t

-----------------------------------------------------------------------------
(* Functions under surgery *)

\* A function has the fields the generator gave it and those the passes added, and no other.
IsRecord(f) == f = [x \in Given \cup Added |-> f[x]]

\* What a value is and what is emitted for it.
IsKind(o, m) == \/ o \in {"arg", "phi", "const", "call", "select", "branch", "ret", "none"}
                \/ m \in {"load", "flag", "store"}

\* The values of a function: an operation, an instruction and arguments for each.
AreValues(op, mach, args) ==
  /\ IsSequence(op) /\ IsSequence(mach) /\ IsSequence(args)
  /\ Len(mach) = Len(op) /\ Len(args) = Len(op)
  /\ \A v \in 1 .. Len(op) : Len(args[v]) \in Nat /\ IsKind(op[v], mach[v])

\* The values vs and the ways out ss of a block, of a function of m blocks.
IsBlock(op, m, vs, ss) ==
  /\ IsSequence(vs) /\ \A i \in 1 .. Len(vs) : vs[i] \in 1 .. Len(op)
  /\ IsSequence(ss) /\ Len(ss) <= 2 /\ \A i \in 1 .. Len(ss) : ss[i] \in 1 .. m
  /\ \A i \in 1 .. Len(vs) : op[vs[i]] = "ret" => i = Len(vs) /\ ss = <<>>

\* The blocks of a function: values and at most two successors for each, and nothing after a return.
AreBlocks(op, vals, succs) ==
  /\ IsSequence(vals) /\ IsSequence(succs) /\ Len(succs) = Len(vals)
  /\ \A b \in 1 .. Len(vals) : IsBlock(op, Len(vals), vals[b], succs[b])

\* The blocks in layout order are blocks.
InOrder(layout, m) == IsSequence(layout) /\ \A k \in 1 .. Len(layout) : layout[k] \in 1 .. m

\* The objects of the frame have a size and an alignment.
AreObjects(objs) == IsSequence(objs) /\ \A i \in 1 .. Len(objs) : WellShaped(objs[i])

\* A function the passes may change and the emitter can emit.
Sound(f) ==
  /\ IsRecord(f)
  /\ AreValues(f.op, f.mach, f.args)
  /\ AreBlocks(f.op, f.vals, f.succs)
  /\ InOrder(f.layout, Len(f.vals))
  /\ AreObjects(f.objs)

\* Every block is in the order of the code.
Covered(f) == \A b \in 1 .. Len(f.vals) : \E k \in 1 .. Len(f.layout) : f.layout[k] = b

\* The block can be added to.
Open(f, b) == /\ b \in 1 .. Len(f.vals)
              /\ \A i \in 1 .. Len(f.vals[b]) : f.op[f.vals[b][i]] # "ret"

\* The items of a sequence over a set are in the set.
LEMMA ItemsOf ==
  ASSUME NEW S, NEW t \in Seq(S)
  PROVE  /\ IsSequence(t) /\ DOMAIN t = 1 .. Len(t)
         /\ \A i \in 1 .. Len(t) : t[i] \in S
BY DEF IsSequence

\* The domain of a sequence.
LEMMA DomainOfSequence ==
  ASSUME NEW s, IsSequence(s)
  PROVE  DOMAIN s = 1 .. Len(s) /\ Len(s) \in Nat
BY DEF IsSequence

\* The empty sequence.
LEMMA EmptySequence == IsSequence(<<>>) /\ Len(<<>>) = 0
BY DEF IsSequence

\* A sequence of length 0 is the empty one.
LEMMA NoneIsEmpty ==
  ASSUME NEW s, IsSequence(s), Len(s) = 0
  PROVE  s = <<>>
<1>1. s \in Seq({})
  BY DEF IsSequence
<1> QED BY <1>1

\* t is s with x in the place of its i-th item.
IsReplaced(t, s, i, x) ==
  IsSequence(t) /\ Len(t) = Len(s) /\ \A j \in 1 .. Len(s) : t[j] = IF j = i THEN x ELSE s[j]

\* What replacing one item of a sequence does.
LEMMA ReplacedInSequence ==
  ASSUME NEW s, IsSequence(s), NEW i, NEW x
  PROVE  IsReplaced([s EXCEPT ![i] = x], s, i, x)
<1> DEFINE t == [s EXCEPT ![i] = x]
           S == {s[j] : j \in 1 .. Len(s)} \cup {x}
<1>1. Len(s) \in Nat /\ DOMAIN s = 1 .. Len(s)
  BY DEF IsSequence
<1>2. t = [j \in 1 .. Len(s) |-> IF j = i THEN x ELSE s[j]]
  BY <1>1
<1>3. t \in [1 .. Len(s) -> S]
  BY <1>2
<1>4. t \in Seq(S) /\ Len(t) = Len(s)
  <2> HIDE DEF t, S
  <2> QED BY <1>1, <1>3
<1>5. IsSequence(t)
  BY <1>4, SeqIsSequence
<1> QED BY <1>2, <1>4, <1>5 DEF IsReplaced

\* A well-formed function is sound.
LEMMA WellFormedIsSound ==
  ASSUME NEW f, WellFormed(f)
  PROVE  Sound(f) /\ Covered(f) /\ Len(f.vals) > 0
<1>1. IsRecord(f)
  BY DEF WellFormed, IsRecord
<1>2. /\ f.op \in Seq(STRING) /\ f.mach \in Seq(STRING) /\ f.args \in Seq(Seq(DOMAIN f.op))
      /\ Len(f.mach) = Len(f.op) /\ Len(f.args) = Len(f.op)
      /\ f.vals \in Seq(Seq(DOMAIN f.op)) /\ f.vals # <<>>
      /\ f.succs \in Seq(Seq(DOMAIN f.vals)) /\ Len(f.succs) = Len(f.vals)
      /\ f.layout \in Seq(DOMAIN f.vals)
      /\ f.objs \in Seq({o \in ToSet(f.objs) : WellShaped(o)})
  BY DEF WellFormed, Blocks
<1>3. DOMAIN f.op = 1 .. Len(f.op) /\ DOMAIN f.vals = 1 .. Len(f.vals)
  BY <1>2
<1>4. AreValues(f.op, f.mach, f.args)
  <2>1. IsSequence(f.op) /\ IsSequence(f.mach) /\ IsSequence(f.args)
    BY <1>2, SeqIsSequence
  <2>2. \A v \in 1 .. Len(f.op) : Len(f.args[v]) \in Nat
    BY <1>2
  <2>3. \A v \in 1 .. Len(f.op) : IsKind(f.op[v], f.mach[v])
    BY <1>3 DEF WellFormed, IsKind
  <2> QED BY <1>2, <2>1, <2>2, <2>3 DEF AreValues
<1>5. AreBlocks(f.op, f.vals, f.succs)
  <2>1. IsSequence(f.vals) /\ IsSequence(f.succs)
    BY <1>2, SeqIsSequence
  <2>2. ASSUME NEW b \in 1 .. Len(f.vals) PROVE IsBlock(f.op, Len(f.vals), f.vals[b], f.succs[b])
    <3>1. f.vals[b] \in Seq(DOMAIN f.op) /\ f.succs[b] \in Seq(DOMAIN f.vals)
      BY <1>2
    <3>2. IsSequence(f.vals[b]) /\ IsSequence(f.succs[b])
      BY <3>1, SeqIsSequence
    <3>3. Len(f.succs[b]) <= 2
      BY <1>3 DEF WellFormed, Blocks
    <3>4. \A i \in 1 .. Len(f.vals[b]) : f.op[f.vals[b][i]] = "ret" => i = Len(f.vals[b]) /\ f.succs[b] = <<>>
      <4>1. DOMAIN f.vals[b] = 1 .. Len(f.vals[b])
        BY <3>1
      <4> QED BY <1>3, <4>1 DEF WellFormed, Blocks
    <3>5. /\ \A i \in 1 .. Len(f.vals[b]) : f.vals[b][i] \in 1 .. Len(f.op)
          /\ \A i \in 1 .. Len(f.succs[b]) : f.succs[b][i] \in 1 .. Len(f.vals)
      <4>1. \A i \in 1 .. Len(f.vals[b]) : f.vals[b][i] \in DOMAIN f.op
        BY <3>1, ItemsOf
      <4>2. \A i \in 1 .. Len(f.succs[b]) : f.succs[b][i] \in DOMAIN f.vals
        BY <3>1, ItemsOf
      <4> QED BY <1>3, <4>1, <4>2
    <3> QED BY <3>2, <3>3, <3>4, <3>5 DEF IsBlock
  <2> QED BY <1>2, <2>1, <2>2 DEF AreBlocks
<1>6. InOrder(f.layout, Len(f.vals))
  <2>1. IsSequence(f.layout) /\ \A k \in 1 .. Len(f.layout) : f.layout[k] \in DOMAIN f.vals
    BY <1>2, ItemsOf
  <2> QED BY <1>3, <2>1 DEF InOrder
<1>7. AreObjects(f.objs)
  <2>1. \A i \in 1 .. Len(f.objs) : f.objs[i] \in {o \in ToSet(f.objs) : WellShaped(o)}
    BY <1>2
  <2> QED BY <1>2, <2>1, SeqIsSequence DEF AreObjects
<1>8. Covered(f)
  <2>1. DOMAIN f.vals \subseteq ToSet(f.layout)
    BY DEF WellFormed, Blocks
  <2>3. DOMAIN f.layout = 1 .. Len(f.layout)
    BY <1>2, ItemsOf
  <2>2. ToSet(f.layout) = {f.layout[k] : k \in DOMAIN f.layout}
    BY DEF ToSet
  <2> QED BY <1>3, <2>1, <2>2, <2>3 DEF Covered
<1>9. Len(f.vals) > 0
  <2>1. Len(f.vals) \in Nat /\ Len(f.vals) # 0
    BY <1>2, NoneIsEmpty, SeqIsSequence
  <2> QED BY <2>1
<1> QED BY <1>1, <1>4, <1>5, <1>6, <1>7, <1>8, <1>9 DEF Sound

-----------------------------------------------------------------------------
(* One piece of surgery *)

\* What surgery reads and changes.
HasFields(f) ==
  /\ "vals" \in DOMAIN f /\ "succs" \in DOMAIN f /\ "preds" \in DOMAIN f /\ "layout" \in DOMAIN f
  /\ "op" \in DOMAIN f /\ "mach" \in DOMAIN f /\ "args" \in DOMAIN f /\ "aux" \in DOMAIN f
  /\ "off" \in DOMAIN f /\ "objs" \in DOMAIN f /\ "ptr" \in DOMAIN f /\ "diamond" \in DOMAIN f

\* A function has each of the fields the passes change.
LEMMA RecordHasFields ==
  ASSUME NEW f, IsRecord(f)
  PROVE  HasFields(f)
BY DEF IsRecord, Given, Added, HasFields

\* The parts of g that matter to what is shown here.
Parts(g, vals, succs, op, mach, args, layout, objs) ==
  /\ IsRecord(g) /\ g.vals = vals /\ g.succs = succs
  /\ g.op = op /\ g.mach = mach /\ g.args = args /\ g.layout = layout /\ g.objs = objs

\* The fields after a new block (ssa.go, NewBlock), ...
LEMMA NewBlockFields ==
  ASSUME NEW f, IsRecord(f)
  PROVE  Parts(NewBlock(f), Append(f.vals, <<>>), Append(f.succs, <<>>),
               f.op, f.mach, f.args, f.layout, f.objs)
<1> DEFINE g == NewBlock(f)
<1>0. HasFields(f)
  BY RecordHasFields
<1>1. IsRecord(g)
  BY Zenon DEF IsRecord, NewBlock
<1>2. g.vals = Append(f.vals, <<>>)
  BY <1>0, Zenon DEF HasFields, NewBlock
<1>3. g.succs = Append(f.succs, <<>>)
  BY <1>0, Zenon DEF HasFields, NewBlock
<1>4. g.op = f.op
  BY <1>0, Zenon DEF HasFields, NewBlock
<1>5. g.mach = f.mach
  BY <1>0, Zenon DEF HasFields, NewBlock
<1>6. g.args = f.args
  BY <1>0, Zenon DEF HasFields, NewBlock
<1>7. g.layout = f.layout
  BY <1>0, Zenon DEF HasFields, NewBlock
<1>8. g.objs = f.objs
  BY <1>0, Zenon DEF HasFields, NewBlock
<1> QED BY <1>1, <1>2, <1>3, <1>4, <1>5, <1>6, <1>7, <1>8 DEF Parts

\* ... after a value got its name and offset, ...
LEMMA NamingFields ==
  ASSUME NEW f, IsRecord(f), NEW aux, NEW off
  PROVE  Parts(Naming(f, aux, off), f.vals, f.succs, f.op, f.mach, f.args, f.layout, f.objs)
<1> DEFINE g == Naming(f, aux, off)
<1>0. HasFields(f)
  BY RecordHasFields
<1>1. IsRecord(g)
  BY Zenon DEF IsRecord, Naming
<1>2. g.vals = f.vals
  BY <1>0, Zenon DEF HasFields, Naming
<1>3. g.succs = f.succs
  BY <1>0, Zenon DEF HasFields, Naming
<1>4. g.op = f.op
  BY <1>0, Zenon DEF HasFields, Naming
<1>5. g.mach = f.mach
  BY <1>0, Zenon DEF HasFields, Naming
<1>6. g.args = f.args
  BY <1>0, Zenon DEF HasFields, Naming
<1>7. g.layout = f.layout
  BY <1>0, Zenon DEF HasFields, Naming
<1>8. g.objs = f.objs
  BY <1>0, Zenon DEF HasFields, Naming
<1> QED BY <1>1, <1>2, <1>3, <1>4, <1>5, <1>6, <1>7, <1>8 DEF Parts

\* ... after a value was added to a block, ...
LEMMA AddValueFields ==
  ASSUME NEW f, IsRecord(f), NEW b, NEW op, NEW mach, NEW args
  PROVE  Parts(AddValue(f, b, op, mach, args), [f.vals EXCEPT ![b] = Append(f.vals[b], Len(f.op) + 1)], f.succs,
               Append(f.op, op), Append(f.mach, mach), Append(f.args, args), f.layout, f.objs)
<1> DEFINE g == AddValue(f, b, op, mach, args)
<1>0. HasFields(f)
  BY RecordHasFields
<1>1. IsRecord(g)
  BY Zenon DEF IsRecord, AddValue
<1>2. g.vals = [f.vals EXCEPT ![b] = Append(f.vals[b], Len(f.op) + 1)]
  BY <1>0, Zenon DEF HasFields, AddValue
<1>3. g.succs = f.succs
  BY <1>0, Zenon DEF HasFields, AddValue
<1>4. g.op = Append(f.op, op)
  BY <1>0, Zenon DEF HasFields, AddValue
<1>5. g.mach = Append(f.mach, mach)
  BY <1>0, Zenon DEF HasFields, AddValue
<1>6. g.args = Append(f.args, args)
  BY <1>0, Zenon DEF HasFields, AddValue
<1>7. g.layout = f.layout
  BY <1>0, Zenon DEF HasFields, AddValue
<1>8. g.objs = f.objs
  BY <1>0, Zenon DEF HasFields, AddValue
<1> QED BY <1>1, <1>2, <1>3, <1>4, <1>5, <1>6, <1>7, <1>8 DEF Parts

\* ... after both, ...
LEMMA NewValueFields ==
  ASSUME NEW f, IsRecord(f), NEW b, NEW op, NEW mach, NEW args, NEW aux, NEW off
  PROVE  Parts(NewValue(f, b, op, mach, args, aux, off), [f.vals EXCEPT ![b] = Append(f.vals[b], Len(f.op) + 1)], f.succs,
               Append(f.op, op), Append(f.mach, mach), Append(f.args, args), f.layout, f.objs)
<1> DEFINE h == AddValue(f, b, op, mach, args)
<1>1. Parts(h, [f.vals EXCEPT ![b] = Append(f.vals[b], Len(f.op) + 1)], f.succs, Append(f.op, op),
            Append(f.mach, mach), Append(f.args, args), f.layout, f.objs)
  BY AddValueFields
<1> HIDE DEF h
<1>2. IsRecord(h)
  BY <1>1 DEF Parts
<1>3. Parts(Naming(h, aux, off), h.vals, h.succs, h.op, h.mach, h.args, h.layout, h.objs)
  BY <1>2, NamingFields
<1>4. NewValue(f, b, op, mach, args, aux, off) = Naming(h, aux, off)
  BY DEF NewValue, h
<1> QED BY <1>1, <1>3, <1>4 DEF Parts

\* ... after an edge was added (ssa.go, AddEdge), ...
LEMMA AddEdgeFields ==
  ASSUME NEW f, IsRecord(f), NEW b, NEW s
  PROVE  Parts(AddEdge(f, b, s), f.vals, [f.succs EXCEPT ![b] = Append(f.succs[b], s)],
               f.op, f.mach, f.args, f.layout, f.objs)
<1> DEFINE g == AddEdge(f, b, s)
<1>0. HasFields(f)
  BY RecordHasFields
<1>1. IsRecord(g)
  BY Zenon DEF IsRecord, AddEdge
<1>2. g.vals = f.vals
  BY <1>0, Zenon DEF HasFields, AddEdge
<1>3. g.succs = [f.succs EXCEPT ![b] = Append(f.succs[b], s)]
  BY <1>0, Zenon DEF HasFields, AddEdge
<1>4. g.op = f.op
  BY <1>0, Zenon DEF HasFields, AddEdge
<1>5. g.mach = f.mach
  BY <1>0, Zenon DEF HasFields, AddEdge
<1>6. g.args = f.args
  BY <1>0, Zenon DEF HasFields, AddEdge
<1>7. g.layout = f.layout
  BY <1>0, Zenon DEF HasFields, AddEdge
<1>8. g.objs = f.objs
  BY <1>0, Zenon DEF HasFields, AddEdge
<1> QED BY <1>1, <1>2, <1>3, <1>4, <1>5, <1>6, <1>7, <1>8 DEF Parts

\* ... and after an edge was split (dom.go, splitEdge).
LEMMA SplitEdgeFields ==
  ASSUME NEW f, IsRecord(f), NEW b, NEW i
  PROVE  Parts(SplitEdge(f, b, i), Append(f.vals, <<>>), Append([f.succs EXCEPT ![b] = [f.succs[b] EXCEPT ![i] = Len(f.vals) + 1]], <<f.succs[b][i]>>),
               f.op, f.mach, f.args, f.layout, f.objs)
<1> DEFINE g == SplitEdge(f, b, i)
<1>0. HasFields(f)
  BY RecordHasFields
<1>1. IsRecord(g)
  BY Zenon DEF IsRecord, SplitEdge
<1>2. g.vals = Append(f.vals, <<>>)
  BY <1>0, Zenon DEF HasFields, SplitEdge
<1>3. g.succs = Append([f.succs EXCEPT ![b] = [f.succs[b] EXCEPT ![i] = Len(f.vals) + 1]], <<f.succs[b][i]>>)
  BY <1>0, Zenon DEF HasFields, SplitEdge
<1>4. g.op = f.op
  BY <1>0, Zenon DEF HasFields, SplitEdge
<1>5. g.mach = f.mach
  BY <1>0, Zenon DEF HasFields, SplitEdge
<1>6. g.args = f.args
  BY <1>0, Zenon DEF HasFields, SplitEdge
<1>7. g.layout = f.layout
  BY <1>0, Zenon DEF HasFields, SplitEdge
<1>8. g.objs = f.objs
  BY <1>0, Zenon DEF HasFields, SplitEdge
<1> QED BY <1>1, <1>2, <1>3, <1>4, <1>5, <1>6, <1>7, <1>8 DEF Parts

-----------------------------------------------------------------------------
(* What each piece keeps *)

\* g is f with more blocks or more values.
Kept(f, g) == /\ Sound(g) /\ Len(g.vals) >= Len(f.vals)
              /\ g.layout = f.layout /\ g.objs = f.objs
              /\ \A c : Open(f, c) => Open(g, c)

\* What two changes keep, both of them keep together.
LEMMA KeptTwice ==
  ASSUME NEW f, Sound(f), NEW g, NEW h, Kept(f, g), Kept(g, h)
  PROVE  Kept(f, h)
<1>1. Len(f.vals) \in Nat /\ Len(g.vals) \in Nat /\ Len(h.vals) \in Nat
  BY DEF Kept, Sound, AreBlocks, IsSequence
<1> QED BY <1>1 DEF Kept

\* One more value of a known kind keeps the values what they are.
LEMMA MoreValues ==
  ASSUME NEW op, NEW mach, NEW args, AreValues(op, mach, args),
         NEW o, NEW m, NEW a, IsKind(o, m), Len(a) \in Nat
  PROVE  AreValues(Append(op, o), Append(mach, m), Append(args, a))
<1> DEFINE n == Len(op)
<1>1. n \in Nat /\ Len(mach) = n /\ Len(args) = n
  BY DEF AreValues, IsSequence
<1>2. IsAppended(Append(op, o), op, o) /\ IsAppended(Append(mach, m), mach, m) /\ IsAppended(Append(args, a), args, a)
  BY Appended DEF AreValues
<1>3. ASSUME NEW v \in 1 .. n + 1
      PROVE  Len(Append(args, a)[v]) \in Nat /\ IsKind(Append(op, o)[v], Append(mach, m)[v])
  <2>1. CASE v = n + 1
    BY <1>1, <1>2, <2>1 DEF IsAppended
  <2>2. CASE v # n + 1
    <3>1. v \in 1 .. n
      BY <1>1, <2>2
    <3>2. Append(args, a)[v] = args[v] /\ Append(op, o)[v] = op[v] /\ Append(mach, m)[v] = mach[v]
      BY <1>1, <1>2, <3>1 DEF IsAppended
    <3> QED BY <3>1, <3>2 DEF AreValues
  <2> QED BY <2>1, <2>2
<1> QED BY <1>1, <1>2, <1>3 DEF AreValues, IsAppended

\* More values and more blocks leave a block what it is.
LEMMA BlockKept ==
  ASSUME NEW op, NEW m \in Nat, NEW vs, NEW ss, IsBlock(op, m, vs, ss), Len(op) \in Nat,
         NEW more, Len(more) \in Nat, Len(op) <= Len(more), \A v \in 1 .. Len(op) : more[v] = op[v],
         NEW k \in Nat, m <= k
  PROVE  IsBlock(more, k, vs, ss)
<1>1. Len(vs) \in Nat /\ Len(ss) \in Nat
  BY DEF IsBlock, IsSequence
<1>2. \A i \in 1 .. Len(vs) : vs[i] \in 1 .. Len(op) /\ vs[i] \in 1 .. Len(more)
  BY DEF IsBlock
<1>3. \A i \in 1 .. Len(vs) : more[vs[i]] = op[vs[i]]
  BY <1>2
<1>4. \A i \in 1 .. Len(ss) : ss[i] \in 1 .. k
  BY DEF IsBlock
<1> QED BY <1>2, <1>3, <1>4 DEF IsBlock

\* An empty block with the ways out ss.
LEMMA EmptyBlock ==
  ASSUME NEW op, NEW m \in Nat, NEW ss, IsSequence(ss), Len(ss) <= 2, \A i \in 1 .. Len(ss) : ss[i] \in 1 .. m
  PROVE  IsBlock(op, m, <<>>, ss)
BY EmptySequence DEF IsBlock

\* One more block, with no values and the ways out ss.
OneMore(vals, succs, ss, newVals, newSuccs) ==
  /\ Len(newVals) = Len(vals) + 1
  /\ newVals[Len(vals) + 1] = <<>> /\ newSuccs[Len(vals) + 1] = ss
  /\ \A b \in 1 .. Len(vals) : newVals[b] = vals[b] /\ newSuccs[b] = succs[b]

\* One more empty block leaves the blocks what they are.
LEMMA MoreBlocks ==
  ASSUME NEW op, NEW vals, NEW succs, IsSequence(vals), IsSequence(succs), Len(succs) = Len(vals),
         \A b \in 1 .. Len(vals) : IsBlock(op, Len(vals) + 1, vals[b], succs[b]), NEW ss,
         IsSequence(ss), Len(ss) <= 2, \A i \in 1 .. Len(ss) : ss[i] \in 1 .. Len(vals) + 1
  PROVE  /\ AreBlocks(op, Append(vals, <<>>), Append(succs, ss))
         /\ OneMore(vals, succs, ss, Append(vals, <<>>), Append(succs, ss))
<1> DEFINE m == Len(vals)
<1>1. m \in Nat /\ Len(succs) = m /\ m + 1 \in Nat
  BY DEF IsSequence
<1>2. IsAppended(Append(vals, <<>>), vals, <<>>) /\ IsAppended(Append(succs, ss), succs, ss)
  BY Appended
<1>3. \A b \in 1 .. m : Append(vals, <<>>)[b] = vals[b] /\ Append(succs, ss)[b] = succs[b]
  BY <1>1, <1>2 DEF IsAppended
<1>4. Append(vals, <<>>)[m + 1] = <<>> /\ Append(succs, ss)[m + 1] = ss
  BY <1>1, <1>2 DEF IsAppended
<1>5. ASSUME NEW b \in 1 .. m + 1 PROVE IsBlock(op, m + 1, Append(vals, <<>>)[b], Append(succs, ss)[b])
  <2>1. CASE b = m + 1
    <3>1. IsBlock(op, m + 1, <<>>, ss)
      BY <1>1, EmptyBlock
    <3> QED BY <1>4, <2>1, <3>1
  <2>2. CASE b # m + 1
    <3>1. b \in 1 .. m
      BY <1>1, <2>2
    <3> QED BY <1>3, <3>1
  <2> QED BY <2>1, <2>2
<1>6. IsSequence(Append(vals, <<>>)) /\ IsSequence(Append(succs, ss)) /\ Len(Append(vals, <<>>)) = m + 1
      /\ Len(Append(succs, ss)) = m + 1
  BY <1>1, <1>2 DEF IsAppended
<1> QED BY <1>3, <1>4, <1>5, <1>6 DEF AreBlocks, OneMore

\* With the sequences and the blocks of g those of f, or more, g keeps f.
LEMMA SoundFacts ==
  ASSUME NEW f, Sound(f)
  PROVE  /\ IsRecord(f) /\ AreValues(f.op, f.mach, f.args) /\ AreBlocks(f.op, f.vals, f.succs)
         /\ InOrder(f.layout, Len(f.vals)) /\ AreObjects(f.objs)
         /\ IsSequence(f.op) /\ IsSequence(f.vals) /\ IsSequence(f.succs) /\ IsSequence(f.layout)
         /\ Len(f.vals) \in Nat /\ Len(f.op) \in Nat /\ Len(f.layout) \in Nat
         /\ DOMAIN f.op = 1 .. Len(f.op) /\ DOMAIN f.vals = 1 .. Len(f.vals)
         /\ DOMAIN f.succs = 1 .. Len(f.vals) /\ DOMAIN f.layout = 1 .. Len(f.layout)
<1>1. Len(f.succs) = Len(f.vals)
  BY DEF Sound, AreBlocks
<1> QED BY <1>1, DomainOfSequence DEF Sound, AreValues, AreBlocks, InOrder

\* More blocks leave the layout what it is.
LEMMA OrderKept ==
  ASSUME NEW layout, NEW m \in Nat, InOrder(layout, m), NEW n \in Nat, m <= n
  PROVE  InOrder(layout, n)
<1>1. Len(layout) \in Nat
  BY DEF InOrder, IsSequence
<1> QED BY <1>1 DEF InOrder

\* What a new block keeps and adds.
NewBlockResult(f, g) ==
  /\ Kept(f, g) /\ Len(g.vals) = Len(f.vals) + 1 /\ g.op = f.op
  /\ Open(g, Len(g.vals)) /\ g.vals[Len(g.vals)] = <<>> /\ g.succs[Len(g.vals)] = <<>>
  /\ \A b \in 1 .. Len(f.vals) : g.vals[b] = f.vals[b] /\ g.succs[b] = f.succs[b]

\* A new block is empty, and everything else is as it was.
LEMMA NewBlockSound ==
  ASSUME NEW f, Sound(f), NEW g, g = NewBlock(f)
  PROVE  NewBlockResult(f, g)
<1> DEFINE m == Len(f.vals)
<1>1. /\ IsRecord(f) /\ AreValues(f.op, f.mach, f.args) /\ AreBlocks(f.op, f.vals, f.succs)
      /\ InOrder(f.layout, m) /\ AreObjects(f.objs) /\ IsSequence(f.op) /\ m \in Nat /\ m + 1 \in Nat
  BY SoundFacts
<1>2. /\ IsRecord(g)
      /\ g.vals = Append(f.vals, <<>>) /\ g.succs = Append(f.succs, <<>>)
      /\ g.op = f.op /\ g.mach = f.mach /\ g.args = f.args /\ g.layout = f.layout /\ g.objs = f.objs
  BY <1>1, NewBlockFields DEF Parts
<1>3. /\ AreBlocks(f.op, g.vals, g.succs) /\ Len(g.vals) = m + 1
      /\ g.vals[m + 1] = <<>> /\ g.succs[m + 1] = <<>>
      /\ \A b \in 1 .. m : g.vals[b] = f.vals[b] /\ g.succs[b] = f.succs[b]
  <2>1. IsSequence(<<>>) /\ Len(<<>>) <= 2 /\ \A i \in 1 .. Len(<<>>) : <<>>[i] \in 1 .. Len(f.vals) + 1
    BY EmptySequence
  <2>3. /\ IsSequence(f.vals) /\ IsSequence(f.succs) /\ Len(f.succs) = Len(f.vals)
        /\ \A b \in 1 .. Len(f.vals) : IsBlock(f.op, m, f.vals[b], f.succs[b])
    BY <1>1 DEF AreBlocks
  <2>4. Len(f.op) \in Nat /\ Len(f.op) <= Len(f.op) /\ m <= m + 1
    BY <1>1 DEF IsSequence
  <2>5. ASSUME NEW b \in 1 .. Len(f.vals) PROVE IsBlock(f.op, m + 1, f.vals[b], f.succs[b])
    BY <1>1, <2>3, <2>4, BlockKept
  <2>2. /\ AreBlocks(f.op, Append(f.vals, <<>>), Append(f.succs, <<>>))
        /\ OneMore(f.vals, f.succs, <<>>, Append(f.vals, <<>>), Append(f.succs, <<>>))
    BY <2>1, <2>3, <2>5, MoreBlocks
  <2> QED BY <1>2, <2>2 DEF OneMore
<1>4. InOrder(g.layout, m + 1)
  BY <1>1, <1>2, OrderKept
<1>5. Sound(g)
  BY <1>1, <1>2, <1>3, <1>4 DEF Sound
<1>6. ASSUME NEW c, Open(f, c) PROVE Open(g, c)
  <2>1. c \in 1 .. m
    BY <1>6 DEF Open
  <2>2. c \in 1 .. m + 1
    BY <1>1, <2>1
  <2> QED BY <1>2, <1>3, <1>6, <2>1, <2>2 DEF Open
<1>7. Open(g, m + 1)
  <2>1. m + 1 \in 1 .. m + 1
    BY <1>1
  <2> QED BY <1>3, <2>1, EmptySequence DEF Open
<1>8. Kept(f, g)
  BY <1>1, <1>2, <1>3, <1>5, <1>6 DEF Kept
<1> QED BY <1>2, <1>3, <1>7, <1>8 DEF NewBlockResult

\* What a new value keeps and adds.
NewValueResult(f, g) ==
  /\ Kept(f, g) /\ Len(g.vals) = Len(f.vals) /\ g.succs = f.succs /\ Len(g.op) = Len(f.op) + 1

\* A new value in a block that no return ends leaves the function sound.
LEMMA NewValueSound ==
  ASSUME NEW f, Sound(f), NEW b, Open(f, b),
         NEW op, op # "ret", NEW mach, IsKind(op, mach), NEW args, Len(args) \in Nat, NEW aux, NEW off,
         NEW g, g = NewValue(f, b, op, mach, args, aux, off)
  PROVE  NewValueResult(f, g)
<1> DEFINE m == Len(f.vals)
           n == Len(f.op)
<1>1. /\ IsRecord(f) /\ AreValues(f.op, f.mach, f.args) /\ AreBlocks(f.op, f.vals, f.succs)
      /\ InOrder(f.layout, m) /\ AreObjects(f.objs) /\ IsSequence(f.op) /\ m \in Nat /\ n \in Nat /\ n + 1 \in Nat
      /\ IsSequence(f.vals)
  BY SoundFacts
<1>2. /\ IsRecord(g)
      /\ g.vals = [f.vals EXCEPT ![b] = Append(f.vals[b], n + 1)] /\ g.succs = f.succs
      /\ g.op = Append(f.op, op) /\ g.mach = Append(f.mach, mach) /\ g.args = Append(f.args, args)
      /\ g.layout = f.layout /\ g.objs = f.objs
  <2>1. Parts(NewValue(f, b, op, mach, args, aux, off), [f.vals EXCEPT ![b] = Append(f.vals[b], Len(f.op) + 1)],
              f.succs, Append(f.op, op), Append(f.mach, mach), Append(f.args, args), f.layout, f.objs)
    BY <1>1, NewValueFields
  <2> QED BY <2>1 DEF Parts
<1>3. AreValues(g.op, g.mach, g.args)
  BY <1>1, <1>2, MoreValues
<1>4. /\ Len(g.op) = n + 1 /\ g.op[n + 1] = op /\ \A v \in 1 .. n : g.op[v] = f.op[v]
  BY <1>1, <1>2, Appended DEF IsAppended
<1> DEFINE vs == Append(f.vals[b], n + 1)
<1>5. /\ IsSequence(g.vals) /\ Len(g.vals) = m
      /\ \A c \in 1 .. m : g.vals[c] = IF c = b THEN vs ELSE f.vals[c]
  <2>1. IsReplaced([f.vals EXCEPT ![b] = Append(f.vals[b], n + 1)], f.vals, b, Append(f.vals[b], n + 1))
    BY <1>1, ReplacedInSequence
  <2>2. IsReplaced(g.vals, f.vals, b, vs)
    BY <1>2, <2>1
  <2> HIDE DEF vs
  <2> QED BY <2>2 DEF IsReplaced
<1>6. b \in 1 .. m /\ \A i \in 1 .. Len(f.vals[b]) : f.op[f.vals[b][i]] # "ret"
  BY DEF Open
<1>7. IsBlock(f.op, m, f.vals[b], f.succs[b])
  BY <1>1, <1>6 DEF AreBlocks
<1>8. IsAppended(vs, f.vals[b], n + 1)
  BY <1>7, Appended DEF IsBlock
<1>9. ASSUME NEW i \in 1 .. Len(vs) PROVE vs[i] \in 1 .. n + 1 /\ g.op[vs[i]] # "ret"
  <2>0. Len(f.vals[b]) \in Nat
    BY <1>7 DEF IsBlock, IsSequence
  <2>1. CASE i = Len(f.vals[b]) + 1
    <3>1. vs[i] = n + 1
      BY <1>8, <2>1 DEF IsAppended
    <3>2. g.op[vs[i]] = op
      BY <1>4, <3>1
    <3>3. n + 1 \in 1 .. n + 1
      BY <1>1
    <3> QED BY <3>1, <3>2, <3>3
  <2>2. CASE i # Len(f.vals[b]) + 1
    <3>1. i \in 1 .. Len(f.vals[b])
      BY <1>8, <2>0, <2>2 DEF IsAppended
    <3>2. vs[i] = f.vals[b][i] /\ f.vals[b][i] \in 1 .. n
      BY <1>7, <1>8, <3>1 DEF IsAppended, IsBlock
    <3>3. g.op[vs[i]] = f.op[f.vals[b][i]]
      BY <1>4, <3>2
    <3> QED BY <1>1, <1>6, <3>1, <3>2, <3>3
  <2> QED BY <2>1, <2>2
<1> HIDE DEF vs
<1>10. IsBlock(g.op, m, vs, f.succs[b])
  <2>1. IsSequence(vs) /\ \A i \in 1 .. Len(vs) : vs[i] \in 1 .. Len(g.op)
    BY <1>4, <1>8, <1>9 DEF IsAppended
  <2>2. IsSequence(f.succs[b]) /\ Len(f.succs[b]) <= 2 /\ \A i \in 1 .. Len(f.succs[b]) : f.succs[b][i] \in 1 .. m
    BY <1>7 DEF IsBlock
  <2> QED BY <1>9, <2>1, <2>2 DEF IsBlock
<1>11. ASSUME NEW c \in 1 .. m PROVE IsBlock(g.op, m, g.vals[c], g.succs[c])
  <2>1. CASE c = b
    BY <1>2, <1>5, <1>10, <2>1
  <2>2. CASE c # b
    <3>1. IsBlock(f.op, m, f.vals[c], f.succs[c])
      BY <1>1 DEF AreBlocks
    <3>2. n <= Len(g.op) /\ n \in Nat /\ m \in Nat /\ Len(g.op) \in Nat
      BY <1>1, <1>4
    <3>3. \A v \in 1 .. n : g.op[v] = f.op[v]
      BY <1>4
    <3>4. IsBlock(g.op, m, f.vals[c], f.succs[c])
      BY <3>1, <3>2, <3>3, BlockKept
    <3> QED BY <1>2, <1>5, <2>2, <3>4
  <2> QED BY <2>1, <2>2
<1>12. AreBlocks(g.op, g.vals, g.succs)
  BY <1>1, <1>2, <1>5, <1>11 DEF AreBlocks
<1>13. Sound(g)
  BY <1>1, <1>2, <1>3, <1>5, <1>12 DEF Sound
<1>14. ASSUME NEW c, Open(f, c) PROVE Open(g, c)
  <2>1. c \in 1 .. m /\ \A i \in 1 .. Len(f.vals[c]) : f.op[f.vals[c][i]] # "ret"
    BY <1>14 DEF Open
  <2>2. CASE c = b
    BY <1>5, <1>9, <2>1, <2>2 DEF Open
  <2>3. CASE c # b
    <3>1. g.vals[c] = f.vals[c] /\ IsBlock(f.op, m, f.vals[c], f.succs[c])
      BY <1>1, <1>5, <2>1, <2>3 DEF AreBlocks
    <3>2. \A i \in 1 .. Len(f.vals[c]) : g.op[f.vals[c][i]] = f.op[f.vals[c][i]]
      BY <1>4, <3>1 DEF IsBlock
    <3> QED BY <1>5, <2>1, <3>1, <3>2 DEF Open
  <2> QED BY <2>2, <2>3
<1>15. Kept(f, g)
  BY <1>1, <1>2, <1>5, <1>13, <1>14 DEF Kept
<1> QED BY <1>2, <1>4, <1>5, <1>15 DEF NewValueResult

\* What a new edge keeps and adds.
AddEdgeResult(f, b, g) ==
  /\ Kept(f, g) /\ Len(g.vals) = Len(f.vals) /\ g.op = f.op
  /\ Len(g.succs[b]) = Len(f.succs[b]) + 1
  /\ \A c \in 1 .. Len(f.vals) : c # b => g.succs[c] = f.succs[c]

\* A new edge from a block with room for it leaves the function sound.
LEMMA AddEdgeSound ==
  ASSUME NEW f, Sound(f), NEW b, Open(f, b), Len(f.succs[b]) < 2, NEW s \in 1 .. Len(f.vals),
         NEW g, g = AddEdge(f, b, s)
  PROVE  AddEdgeResult(f, b, g)
<1> DEFINE m == Len(f.vals)
           ss == Append(f.succs[b], s)
<1>1. /\ IsRecord(f) /\ AreValues(f.op, f.mach, f.args) /\ AreBlocks(f.op, f.vals, f.succs)
      /\ InOrder(f.layout, m) /\ AreObjects(f.objs) /\ m \in Nat /\ IsSequence(f.succs) /\ Len(f.succs) = m
  BY SoundFacts DEF AreBlocks
<1>2. /\ IsRecord(g)
      /\ g.vals = f.vals /\ g.succs = [f.succs EXCEPT ![b] = ss]
      /\ g.op = f.op /\ g.mach = f.mach /\ g.args = f.args
      /\ g.layout = f.layout /\ g.objs = f.objs
  <2>1. Parts(AddEdge(f, b, s), f.vals, [f.succs EXCEPT ![b] = Append(f.succs[b], s)],
              f.op, f.mach, f.args, f.layout, f.objs)
    BY <1>1, AddEdgeFields
  <2> QED BY <2>1 DEF Parts
<1>3. b \in 1 .. m /\ \A i \in 1 .. Len(f.vals[b]) : f.op[f.vals[b][i]] # "ret"
  BY DEF Open
<1>4. IsBlock(f.op, m, f.vals[b], f.succs[b])
  BY <1>1, <1>3 DEF AreBlocks
<1>5. IsAppended(ss, f.succs[b], s)
  BY <1>4, Appended DEF IsBlock
<1>6. /\ IsSequence(g.succs) /\ Len(g.succs) = m
      /\ \A c \in 1 .. m : g.succs[c] = IF c = b THEN ss ELSE f.succs[c]
  <2>1. IsReplaced([f.succs EXCEPT ![b] = ss], f.succs, b, ss)
    BY <1>1, ReplacedInSequence
  <2>2. IsReplaced(g.succs, f.succs, b, ss)
    BY <1>2, <2>1
  <2> HIDE DEF ss
  <2> QED BY <1>1, <2>2 DEF IsReplaced
<1> HIDE DEF ss
<1>7. IsBlock(f.op, m, f.vals[b], ss)
  <2>0. Len(f.succs[b]) \in Nat /\ IsSequence(ss) /\ Len(ss) = Len(f.succs[b]) + 1
    BY <1>4, <1>5 DEF IsBlock, IsSequence, IsAppended
  <2>1. ASSUME NEW i \in 1 .. Len(ss) PROVE ss[i] \in 1 .. m
    <3>1. CASE i = Len(ss)
      BY <1>5, <2>0, <3>1 DEF IsAppended
    <3>2. CASE i # Len(ss)
      <4>1. i \in 1 .. Len(f.succs[b])
        BY <2>0, <3>2
      <4> QED BY <1>4, <1>5, <4>1 DEF IsBlock, IsAppended
    <3> QED BY <3>1, <3>2
  <2>2. Len(ss) <= 2
    BY <2>0
  <2> QED BY <1>3, <1>4, <2>0, <2>1, <2>2 DEF IsBlock
<1>8. ASSUME NEW c \in 1 .. m PROVE IsBlock(g.op, m, g.vals[c], g.succs[c])
  <2>1. CASE c = b
    BY <1>2, <1>6, <1>7, <2>1
  <2>2. CASE c # b
    <3>1. IsBlock(f.op, m, f.vals[c], f.succs[c])
      BY <1>1 DEF AreBlocks
    <3> QED BY <1>2, <1>6, <2>2, <3>1
  <2> QED BY <2>1, <2>2
<1>9. AreBlocks(g.op, g.vals, g.succs)
  BY <1>1, <1>2, <1>6, <1>8 DEF AreBlocks
<1>10. Sound(g)
  BY <1>1, <1>2, <1>9 DEF Sound
<1>11. Kept(f, g)
  BY <1>1, <1>2, <1>10 DEF Kept, Open
<1>12. g.succs[b] = ss /\ Len(ss) = Len(f.succs[b]) + 1
  BY <1>3, <1>5, <1>6 DEF IsAppended
<1> QED BY <1>2, <1>6, <1>11, <1>12 DEF AddEdgeResult

\* What splitting an edge keeps and adds.
SplitEdgeResult(f, g) ==
  /\ Kept(f, g) /\ Len(g.vals) = Len(f.vals) + 1
  /\ \A c \in 1 .. Len(f.vals) : Len(g.succs[c]) = Len(f.succs[c])

\* Splitting an edge leaves the function sound, and no block loses or gains a successor.
LEMMA SplitEdgeSound ==
  ASSUME NEW f, Sound(f), NEW b \in 1 .. Len(f.vals), NEW i \in 1 .. Len(f.succs[b])
  PROVE  SplitEdgeResult(f, SplitEdge(f, b, i))
<1> DEFINE m == Len(f.vals)
           g == SplitEdge(f, b, i)
           s == f.succs[b][i]
           ss == [f.succs[b] EXCEPT ![i] = m + 1]
           succs == [f.succs EXCEPT ![b] = ss]
<1>1. /\ IsRecord(f) /\ AreValues(f.op, f.mach, f.args) /\ AreBlocks(f.op, f.vals, f.succs)
      /\ InOrder(f.layout, m) /\ AreObjects(f.objs) /\ m \in Nat /\ m + 1 \in Nat /\ Len(f.op) \in Nat
      /\ IsSequence(f.succs) /\ IsSequence(f.vals) /\ Len(f.succs) = m
  BY SoundFacts DEF AreBlocks
<1>2. /\ IsRecord(g)
      /\ g.vals = Append(f.vals, <<>>) /\ g.succs = Append(succs, <<s>>)
      /\ g.op = f.op /\ g.mach = f.mach /\ g.args = f.args
      /\ g.layout = f.layout /\ g.objs = f.objs
  <2>1. Parts(g, Append(f.vals, <<>>),
              Append([f.succs EXCEPT ![b] = [f.succs[b] EXCEPT ![i] = Len(f.vals) + 1]], <<f.succs[b][i]>>),
              f.op, f.mach, f.args, f.layout, f.objs)
    BY <1>1, SplitEdgeFields
  <2> QED BY <2>1 DEF Parts
<1> HIDE DEF g
<1>3. IsBlock(f.op, m, f.vals[b], f.succs[b])
  BY <1>1 DEF AreBlocks
<1>4. IsReplaced(ss, f.succs[b], i, m + 1)
  BY <1>3, ReplacedInSequence DEF IsBlock
<1> HIDE DEF ss
<1>5. IsReplaced(succs, f.succs, b, ss)
  BY <1>1, ReplacedInSequence
<1> HIDE DEF succs
<1>6. IsBlock(f.op, m + 1, f.vals[b], ss)
  <2>0. Len(f.succs[b]) \in Nat /\ IsSequence(ss) /\ Len(ss) = Len(f.succs[b])
    BY <1>3, <1>4 DEF IsBlock, IsSequence, IsReplaced
  <2>1. ASSUME NEW j \in 1 .. Len(ss) PROVE ss[j] \in 1 .. m + 1
    <3>1. CASE j = i
      <4>1. ss[j] = m + 1
        BY <1>4, <2>0, <3>1 DEF IsReplaced
      <4> QED BY <1>1, <4>1
    <3>2. CASE j # i
      <4>1. ss[j] = f.succs[b][j] /\ f.succs[b][j] \in 1 .. m
        BY <1>3, <1>4, <2>0, <3>2 DEF IsReplaced, IsBlock
      <4> QED BY <1>1, <4>1
    <3> QED BY <3>1, <3>2
  <2>2. Len(ss) <= 2
    BY <1>3, <2>0 DEF IsBlock
  <2>3. f.succs[b] # <<>>
    BY <2>0, EmptySequence
  <2>4. \A j \in 1 .. Len(f.vals[b]) : f.op[f.vals[b][j]] # "ret"
    BY <1>3, <2>3 DEF IsBlock
  <2>5. IsSequence(f.vals[b]) /\ \A j \in 1 .. Len(f.vals[b]) : f.vals[b][j] \in 1 .. Len(f.op)
    BY <1>3 DEF IsBlock
  <2> QED BY <2>0, <2>1, <2>2, <2>4, <2>5 DEF IsBlock
<1>7. IsSequence(succs) /\ Len(succs) = m /\ \A c \in 1 .. m : succs[c] = IF c = b THEN ss ELSE f.succs[c]
  BY <1>1, <1>5 DEF IsReplaced
<1>8. ASSUME NEW c \in 1 .. m PROVE IsBlock(f.op, m + 1, f.vals[c], succs[c])
  <2>1. CASE c = b
    BY <1>6, <1>7, <2>1
  <2>2. CASE c # b
    <3>1. IsBlock(f.op, m, f.vals[c], f.succs[c]) /\ Len(f.op) <= Len(f.op) /\ m <= m + 1
      BY <1>1 DEF AreBlocks
    <3>2. IsBlock(f.op, m + 1, f.vals[c], f.succs[c])
      BY <1>1, <3>1, BlockKept
    <3> QED BY <1>7, <2>2, <3>2
  <2> QED BY <2>1, <2>2
<1>9. IsSequence(<<s>>) /\ Len(<<s>>) <= 2 /\ \A j \in 1 .. Len(<<s>>) : <<s>>[j] \in 1 .. m + 1
  <2>1. s \in 1 .. m
    BY <1>3 DEF IsBlock
  <2>2. s \in 1 .. m + 1
    BY <1>1, <2>1
  <2>3. <<s>> \in Seq({s}) /\ Len(<<s>>) = 1 /\ <<s>>[1] = s
    OBVIOUS
  <2> HIDE DEF s
  <2>4. IsSequence(<<s>>)
    BY <2>3, SeqIsSequence
  <2>5. \A j \in 1 .. 1 : j = 1
    OBVIOUS
  <2> QED BY <2>2, <2>3, <2>4, <2>5
<1> HIDE DEF s
<1>10. /\ AreBlocks(f.op, g.vals, g.succs)
       /\ OneMore(f.vals, succs, <<s>>, g.vals, g.succs)
  <2>1. /\ AreBlocks(f.op, Append(f.vals, <<>>), Append(succs, <<s>>))
        /\ OneMore(f.vals, succs, <<s>>, Append(f.vals, <<>>), Append(succs, <<s>>))
    BY <1>1, <1>7, <1>8, <1>9, MoreBlocks
  <2> QED BY <1>2, <2>1
<1>11. Len(g.vals) = m + 1 /\ \A c \in 1 .. m : g.vals[c] = f.vals[c] /\ g.succs[c] = succs[c]
  BY <1>10 DEF OneMore
<1>12. Sound(g)
  <2>1. InOrder(g.layout, m + 1)
    BY <1>1, <1>2, OrderKept
  <2> QED BY <1>1, <1>2, <1>10, <1>11, <2>1 DEF Sound
<1>13. ASSUME NEW c, Open(f, c) PROVE Open(g, c)
  <2>1. c \in 1 .. m
    BY <1>13 DEF Open
  <2>2. c \in 1 .. m + 1
    BY <1>1, <2>1
  <2> QED BY <1>2, <1>11, <1>13, <2>1, <2>2 DEF Open
<1>14. Kept(f, g)
  BY <1>1, <1>2, <1>11, <1>12, <1>13 DEF Kept
<1>15. \A c \in 1 .. m : Len(g.succs[c]) = Len(f.succs[c])
  <2>1. Len(ss) = Len(f.succs[b])
    BY <1>4 DEF IsReplaced
  <2> QED BY <1>7, <1>11, <2>1
<1>16. SplitEdgeResult(f, g)
  BY <1>11, <1>14, <1>15 DEF SplitEdgeResult
<1> QED BY <1>16 DEF g

\* The functions along the splitting of the edges of one block.
SplittingOf(f, b, it) ==
  it = [k \in 0 .. Len(f.succs[b]) |-> IF k = 0 THEN f ELSE IF IsCritical(it[k - 1], b, k) THEN SplitEdge(it[k - 1], b, k) ELSE it[k - 1]]

\* There are such functions.
LEMMA SplittingOfExists ==
  ASSUME NEW f, NEW b, Len(f.succs[b]) \in Nat
  PROVE  \E it : SplittingOf(f, b, it)
<1> DEFINE Put(at, i) == IF IsCritical(at, b, i) THEN SplitEdge(at, b, i) ELSE at
           Good(it, n) == it = [k \in 0 .. n |-> IF k = 0 THEN f ELSE Put(it[k - 1], k)]
           P == {n \in Nat : \E it : Good(it, n)}
<1>1. 0 \in P
  <2> HIDE DEF Put
  <2> DEFINE it == [k \in 0 .. 0 |-> f]
  <2>1. Good(it, 0)
    OBVIOUS
  <2> QED BY <2>1
<1>2. ASSUME NEW n \in Nat, n \in P PROVE n + 1 \in P
  <2> HIDE DEF Put
  <2>1. PICK it : Good(it, n)
    BY <1>2
  <2> DEFINE more == [k \in 0 .. n + 1 |-> IF k \in 0 .. n THEN it[k] ELSE Put(it[n], n + 1)]
  <2>2. ASSUME NEW k \in 0 .. n + 1 PROVE more[k] = IF k = 0 THEN f ELSE Put(more[k - 1], k)
    <3>1. CASE k \in 0 .. n
      <4>1. k # 0 => k - 1 \in 0 .. n /\ k - 1 \in 0 .. n + 1
        BY <3>1
      <4>2. it[k] = IF k = 0 THEN f ELSE Put(it[k - 1], k)
        BY <2>1, <3>1
      <4> QED BY <3>1, <4>1, <4>2
    <3>2. CASE k = n + 1
      <4>1. k \notin 0 .. n /\ k # 0 /\ k - 1 = n /\ n \in 0 .. n + 1 /\ n \in 0 .. n
        BY <3>2
      <4> QED BY <3>2, <4>1
    <3> QED BY <3>1, <3>2
  <2>3. Good(more, n + 1)
    <3>1. DOMAIN more = 0 .. n + 1 /\ more = [k \in 0 .. n + 1 |-> more[k]]
      OBVIOUS
    <3> HIDE DEF more
    <3> QED BY <2>2, <3>1
  <2>4. \E jt : Good(jt, n + 1)
    BY <2>3
  <2> HIDE DEF Good
  <2>5. n + 1 \in Nat
    OBVIOUS
  <2> QED BY <2>4, <2>5
<1> HIDE DEF P
<1>3. Len(f.succs[b]) \in P
  BY <1>1, <1>2, NumberInduction
<1> QED BY <1>3 DEF P, SplittingOf

\* The functions along the splitting of the edges of all blocks.
Splitting(f, it) ==
  it = [k \in 0 .. Len(f.vals) |-> IF k = 0 THEN f ELSE SplitEdgesOf(it[k - 1], k)]

\* There are such functions.
LEMMA SplittingExists ==
  ASSUME NEW f, Len(f.vals) \in Nat
  PROVE  \E it : Splitting(f, it)
<1> DEFINE Put(at, i) == SplitEdgesOf(at, i)
           Good(it, n) == it = [k \in 0 .. n |-> IF k = 0 THEN f ELSE Put(it[k - 1], k)]
           P == {n \in Nat : \E it : Good(it, n)}
<1>1. 0 \in P
  <2> HIDE DEF Put
  <2> DEFINE it == [k \in 0 .. 0 |-> f]
  <2>1. Good(it, 0)
    OBVIOUS
  <2> QED BY <2>1
<1>2. ASSUME NEW n \in Nat, n \in P PROVE n + 1 \in P
  <2> HIDE DEF Put
  <2>1. PICK it : Good(it, n)
    BY <1>2
  <2> DEFINE more == [k \in 0 .. n + 1 |-> IF k \in 0 .. n THEN it[k] ELSE Put(it[n], n + 1)]
  <2>2. ASSUME NEW k \in 0 .. n + 1 PROVE more[k] = IF k = 0 THEN f ELSE Put(more[k - 1], k)
    <3>1. CASE k \in 0 .. n
      <4>1. k # 0 => k - 1 \in 0 .. n /\ k - 1 \in 0 .. n + 1
        BY <3>1
      <4>2. it[k] = IF k = 0 THEN f ELSE Put(it[k - 1], k)
        BY <2>1, <3>1
      <4> QED BY <3>1, <4>1, <4>2
    <3>2. CASE k = n + 1
      <4>1. k \notin 0 .. n /\ k # 0 /\ k - 1 = n /\ n \in 0 .. n + 1 /\ n \in 0 .. n
        BY <3>2
      <4> QED BY <3>2, <4>1
    <3> QED BY <3>1, <3>2
  <2>3. Good(more, n + 1)
    <3>1. DOMAIN more = 0 .. n + 1 /\ more = [k \in 0 .. n + 1 |-> more[k]]
      OBVIOUS
    <3> HIDE DEF more
    <3> QED BY <2>2, <3>1
  <2>4. \E jt : Good(jt, n + 1)
    BY <2>3
  <2> HIDE DEF Good
  <2>5. n + 1 \in Nat
    OBVIOUS
  <2> QED BY <2>4, <2>5
<1> HIDE DEF P
<1>3. Len(f.vals) \in P
  BY <1>1, <1>2, NumberInduction
<1> QED BY <1>3 DEF P, Splitting

\* Splitting the critical edges of one block keeps the function sound, ...
LEMMA SplitEdgesOfSound ==
  ASSUME NEW f, Sound(f), NEW b \in 1 .. Len(f.vals)
  PROVE  Kept(f, SplitEdgesOf(f, b))
<1> DEFINE n == Len(f.succs[b])
           split == CHOOSE it : SplittingOf(f, b, it)
<1>0. n \in Nat /\ Len(f.vals) \in Nat
  <2>1. IsBlock(f.op, Len(f.vals), f.vals[b], f.succs[b])
    BY DEF Sound, AreBlocks
  <2> QED BY <2>1, SoundFacts DEF IsBlock, IsSequence
<1>1. SplittingOf(f, b, split)
  BY <1>0, SplittingOfExists
<1>2. SplitEdgesOf(f, b) = split[n]
  BY DEF SplitEdgesOf, SplittingOf
<1>3. \A k \in 0 .. n : split[k] = IF k = 0 THEN f
                                   ELSE IF IsCritical(split[k - 1], b, k) THEN SplitEdge(split[k - 1], b, k) ELSE split[k - 1]
  BY <1>1 DEF SplittingOf
<1> HIDE DEF split, n
<1> DEFINE P == {k \in Nat : k <= n => Kept(f, split[k]) /\ Len(split[k].succs[b]) = n}
<1>4. 0 \in P
  <2>1. split[0] = f
    BY <1>0, <1>3
  <2>2. Kept(f, f)
    BY <1>0 DEF Kept
  <2> QED BY <2>1, <2>2 DEF n
<1>5. ASSUME NEW k \in Nat, k \in P PROVE k + 1 \in P
  <2> SUFFICES ASSUME k + 1 <= n PROVE Kept(f, split[k + 1]) /\ Len(split[k + 1].succs[b]) = n
    OBVIOUS
  <2> DEFINE j == k + 1
             g == split[k]
             h == split[j]
  <2>1. j \in 0 .. n /\ j \in 1 .. n /\ j # 0 /\ j - 1 = k /\ k <= n
    BY <1>0
  <2>2. Kept(f, g) /\ Len(g.succs[b]) = n
    BY <1>5, <2>1
  <2>3. h = IF IsCritical(g, b, j) THEN SplitEdge(g, b, j) ELSE g
    BY <1>3, <2>1
  <2> HIDE DEF g, h, j
  <2>4. CASE ~IsCritical(g, b, j)
    BY <2>2, <2>3, <2>4 DEF h, j
  <2>5. CASE IsCritical(g, b, j)
    <3>1. Sound(g) /\ Len(g.vals) >= Len(f.vals) /\ Len(g.vals) \in Nat
      BY <2>2, SoundFacts DEF Kept
    <3>2. b \in 1 .. Len(g.vals)
      BY <1>0, <3>1
    <3>3. SplitEdgeResult(g, SplitEdge(g, b, j))
      BY <2>1, <2>2, <3>1, <3>2, SplitEdgeSound
    <3>4. Kept(g, h) /\ Len(h.succs[b]) = n
      BY <2>2, <2>3, <2>5, <3>2, <3>3 DEF SplitEdgeResult
    <3>5. Kept(f, h)
      BY <2>2, <3>4, KeptTwice
    <3> QED BY <3>4, <3>5 DEF h, j
  <2> QED BY <2>4, <2>5
<1> HIDE DEF P
<1>6. n \in P
  BY <1>0, <1>4, <1>5, NumberInduction
<1> QED BY <1>0, <1>2, <1>6 DEF P

\* ... and so does splitting those of all of them (dom.go, SplitCriticalEdges).
LEMMA SplitCriticalEdgesSound ==
  ASSUME NEW f, Sound(f)
  PROVE  Kept(f, SplitCriticalEdges(f))
<1> DEFINE n == Len(f.vals)
           split == CHOOSE it : Splitting(f, it)
<1>0. n \in Nat
  BY SoundFacts
<1>1. Splitting(f, split)
  BY <1>0, SplittingExists
<1>2. SplitCriticalEdges(f) = split[n]
  BY DEF SplitCriticalEdges, Splitting
<1>3. \A k \in 0 .. n : split[k] = IF k = 0 THEN f ELSE SplitEdgesOf(split[k - 1], k)
  BY <1>1 DEF Splitting
<1> HIDE DEF split
<1> DEFINE P == {k \in Nat : k <= n => Kept(f, split[k])}
<1>4. 0 \in P
  <2>1. split[0] = f
    BY <1>0, <1>3
  <2>2. Kept(f, f)
    BY <1>0 DEF Kept
  <2> QED BY <2>1, <2>2
<1>5. ASSUME NEW k \in Nat, k \in P PROVE k + 1 \in P
  <2> SUFFICES ASSUME k + 1 <= n PROVE Kept(f, split[k + 1])
    OBVIOUS
  <2>1. k + 1 \in 0 .. n /\ k + 1 \in 1 .. n /\ k + 1 # 0 /\ (k + 1) - 1 = k /\ k <= n
    BY <1>0
  <2>2. Kept(f, split[k]) /\ split[k + 1] = SplitEdgesOf(split[k], k + 1)
    BY <1>3, <1>5, <2>1
  <2>3. Sound(split[k]) /\ Len(split[k].vals) >= n /\ Len(split[k].vals) \in Nat
    BY <2>2, SoundFacts DEF Kept
  <2>4. k + 1 \in 1 .. Len(split[k].vals)
    BY <1>0, <2>1, <2>3
  <2>5. Kept(split[k], split[k + 1])
    BY <2>2, <2>3, <2>4, SplitEdgesOfSound
  <2> QED BY <2>2, <2>5, KeptTwice
<1> HIDE DEF P
<1>6. n \in P
  BY <1>0, <1>4, <1>5, NumberInduction
<1> QED BY <1>0, <1>2, <1>6 DEF P

-----------------------------------------------------------------------------
(* Write barriers *)

\* All of layout is in t, and so are m and n.
HasAll(t, layout, m, n) ==
  /\ \E i \in 1 .. Len(t) : t[i] = m
  /\ \E i \in 1 .. Len(t) : t[i] = n
  /\ \A h \in 1 .. Len(layout) : \E i \in 1 .. Len(t) : t[i] = layout[h]

\* Two items m and n right behind one that is b.
LEMMA PlaceInOrder ==
  ASSUME NEW layout, NEW k \in Nat, InOrder(layout, k), NEW b, NEW j \in 1 .. Len(layout), layout[j] = b,
         NEW m \in Nat, NEW n \in Nat, k <= m, k <= n, m \in 1 .. n, n # 0
  PROVE  /\ InOrder(Place(layout, b, m, n), n)
         /\ HasAll(Place(layout, b, m, n), layout, m, n)
<1> DEFINE T == {i \in DOMAIN layout : layout[i] = b}
           p == Min(T)
           one == InsertAt(layout, p + 1, m)
           two == InsertAt(one, p + 2, n)
<1>1. Len(layout) \in Nat /\ DOMAIN layout = 1 .. Len(layout) /\ IsSequence(layout)
  BY DEF InOrder, IsSequence
<1>2. p \in 1 .. Len(layout)
  <2>1. T \subseteq Nat /\ T # {} /\ T \subseteq 1 .. Len(layout)
    BY <1>1
  <2> HIDE DEF T
  <2> QED BY <2>1, MinFacts
<1>3. Place(layout, b, m, n) = two
  BY DEF Place
<1> HIDE DEF p
<1>4. p + 1 \in 1 .. Len(layout) + 1 /\ p + 2 \in 1 .. Len(layout) + 2
  BY <1>1, <1>2
<1>5. IsInserted(one, layout, p + 1, m)
  BY <1>1, <1>4, Inserted
<1> HIDE DEF one
<1>6. IsSequence(one) /\ Len(one) = Len(layout) + 1
  BY <1>5 DEF IsInserted
<1>7. IsInserted(two, one, p + 2, n)
  <2>1. p + 2 \in 1 .. Len(one) + 1
    BY <1>1, <1>4, <1>6
  <2> QED BY <1>6, <2>1, Inserted
<1> HIDE DEF two
<1>8. ASSUME NEW h \in 1 .. Len(layout) PROVE \E i \in 1 .. Len(one) : one[i] = layout[h]
  <2>1. CASE h <= p
    <3>1. h \in 1 .. (p + 1) - 1 /\ h \in 1 .. Len(one)
      BY <1>1, <1>2, <1>6, <2>1
    <3> QED BY <1>5, <3>1 DEF IsInserted
  <2>2. CASE h > p
    <3>1. h \in p + 1 .. Len(layout) /\ h + 1 \in 1 .. Len(one)
      BY <1>1, <1>2, <1>6, <2>2
    <3> QED BY <1>5, <3>1 DEF IsInserted
  <2> QED BY <1>1, <1>2, <2>1, <2>2
<1>9. ASSUME NEW h \in 1 .. Len(one) PROVE \E i \in 1 .. Len(two) : two[i] = one[h]
  <2>0. Len(two) = Len(layout) + 2
    BY <1>1, <1>6, <1>7 DEF IsInserted
  <2>1. CASE h <= p + 1
    <3>1. h \in 1 .. (p + 2) - 1 /\ h \in 1 .. Len(two)
      BY <1>1, <1>2, <1>6, <2>0, <2>1
    <3> QED BY <1>7, <3>1 DEF IsInserted
  <2>2. CASE h > p + 1
    <3>1. h \in p + 2 .. Len(one) /\ h + 1 \in 1 .. Len(two)
      BY <1>1, <1>2, <1>6, <2>0, <2>2
    <3> QED BY <1>7, <3>1 DEF IsInserted
  <2> QED BY <1>1, <1>2, <1>6, <2>1, <2>2
<1>10. \E i \in 1 .. Len(two) : two[i] = n
  <2>1. p + 2 \in 1 .. Len(two)
    BY <1>1, <1>4, <1>6, <1>7 DEF IsInserted
  <2> QED BY <1>7, <2>1 DEF IsInserted
<1>11. \E i \in 1 .. Len(two) : two[i] = m
  <2>1. p + 1 \in 1 .. Len(one) /\ one[p + 1] = m
    BY <1>1, <1>4, <1>5, <1>6 DEF IsInserted
  <2> QED BY <1>9, <2>1
<1>12. \A h \in 1 .. Len(layout) : \E i \in 1 .. Len(two) : two[i] = layout[h]
  <2> TAKE h \in 1 .. Len(layout)
  <2>1. PICK i \in 1 .. Len(one) : one[i] = layout[h]
    BY <1>8
  <2>2. PICK g \in 1 .. Len(two) : two[g] = one[i]
    BY <1>9
  <2> QED BY <2>1, <2>2
<1>13. ASSUME NEW h \in 1 .. Len(one) PROVE one[h] \in 1 .. n
  <2>1. \A i \in 1 .. Len(layout) : layout[i] \in 1 .. n
    BY <1>1 DEF InOrder
  <2>2. CASE h = p + 1
    BY <1>5, <2>2 DEF IsInserted
  <2>3. CASE h < p + 1
    <3>1. h \in 1 .. (p + 1) - 1 /\ h \in 1 .. Len(layout)
      BY <1>1, <1>2, <1>6, <2>3
    <3> QED BY <1>5, <2>1, <3>1 DEF IsInserted
  <2>4. CASE h > p + 1
    <3>1. h - 1 \in p + 1 .. Len(layout) /\ h - 1 \in 1 .. Len(layout) /\ (h - 1) + 1 = h
      BY <1>1, <1>2, <1>6, <2>4
    <3>2. one[(h - 1) + 1] = layout[h - 1]
      BY <1>5, <3>1 DEF IsInserted
    <3> QED BY <2>1, <3>1, <3>2
  <2> QED BY <1>1, <1>2, <1>6, <2>2, <2>3, <2>4
<1>14. ASSUME NEW h \in 1 .. Len(two) PROVE two[h] \in 1 .. n
  <2>0. Len(two) = Len(one) + 1 /\ Len(one) \in Nat
    BY <1>6, <1>7 DEF IsInserted, IsSequence
  <2>2. CASE h = p + 2
    BY <1>7, <2>2 DEF IsInserted
  <2>3. CASE h < p + 2
    <3>1. h \in 1 .. (p + 2) - 1 /\ h \in 1 .. Len(one)
      BY <1>1, <1>2, <1>6, <2>0, <2>3
    <3> QED BY <1>7, <1>13, <3>1 DEF IsInserted
  <2>4. CASE h > p + 2
    <3>1. h - 1 \in p + 2 .. Len(one) /\ h - 1 \in 1 .. Len(one) /\ (h - 1) + 1 = h
      BY <1>1, <1>2, <1>6, <2>0, <2>4
    <3>2. two[(h - 1) + 1] = one[h - 1]
      BY <1>7, <3>1 DEF IsInserted
    <3> QED BY <1>13, <3>1, <3>2
  <2> QED BY <1>1, <1>2, <1>6, <2>0, <2>2, <2>3, <2>4
<1>15. InOrder(two, n)
  BY <1>7, <1>14 DEF InOrder, IsInserted
<1> QED BY <1>3, <1>10, <1>11, <1>12, <1>15 DEF HasAll

\* The parts of a function that was cut.
LEMMA CutFields ==
  ASSUME NEW f, IsRecord(f), NEW b, NEW at, NEW h, h = NewBlock(NewBlock(f)), IsRecord(h)
  PROVE  Parts(Cut(f, b, at),
               [h.vals EXCEPT ![b] = SubSeq(f.vals[b], 1, at - 1),
                              ![Len(f.vals) + 2] = SubSeq(f.vals[b], at, Len(f.vals[b]))],
               [h.succs EXCEPT ![b] = <<>>, ![Len(f.vals) + 2] = f.succs[b]],
               h.op, h.mach, h.args, Place(h.layout, b, Len(f.vals) + 1, Len(f.vals) + 2), h.objs)
<1> DEFINE g == Cut(f, b, at)
           n == Len(f.vals) + 2
           m == Len(f.vals) + 1
<1>0. HasFields(h)
  BY RecordHasFields
<1>1. IsRecord(g)
  BY Zenon DEF IsRecord, Cut
<1>2. g.vals = [h.vals EXCEPT ![b] = SubSeq(f.vals[b], 1, at - 1), ![n] = SubSeq(f.vals[b], at, Len(f.vals[b]))]
  BY <1>0, Zenon DEF HasFields, Cut
<1>3. g.succs = [h.succs EXCEPT ![b] = <<>>, ![n] = f.succs[b]]
  BY <1>0, Zenon DEF HasFields, Cut
<1>4. g.op = h.op
  BY <1>0, Zenon DEF HasFields, Cut
<1>5. g.mach = h.mach
  BY <1>0, Zenon DEF HasFields, Cut
<1>6. g.args = h.args
  BY <1>0, Zenon DEF HasFields, Cut
<1>7. g.layout = Place(h.layout, b, m, n)
  BY <1>0, Zenon DEF HasFields, Cut
<1>8. g.objs = h.objs
  BY <1>0, Zenon DEF HasFields, Cut
<1> QED BY <1>1, <1>2, <1>3, <1>4, <1>5, <1>6, <1>7, <1>8 DEF Parts

\* What cutting a block at a store leaves: two new blocks, both open.
CutResult(f, b, g) ==
  /\ Sound(g) /\ Covered(g) /\ Len(g.vals) = Len(f.vals) + 2 /\ g.objs = f.objs /\ g.op = f.op
  /\ Open(g, b) /\ g.succs[b] = <<>>
  /\ Open(g, Len(f.vals) + 1) /\ g.succs[Len(f.vals) + 1] = <<>>

\* Cutting a block leaves the function sound and its layout complete.
LEMMA CutSound ==
  ASSUME NEW f, Sound(f), Covered(f), NEW b \in 1 .. Len(f.vals), NEW at \in 1 .. Len(f.vals[b])
  PROVE  CutResult(f, b, Cut(f, b, at))
<1> DEFINE o == NewBlock(f)
           h == NewBlock(o)
           g == Cut(f, b, at)
           k == Len(f.vals)
           m == k + 1
           n == k + 2
           low == SubSeq(f.vals[b], 1, at - 1)
           high == SubSeq(f.vals[b], at, Len(f.vals[b]))
<1>1. /\ IsRecord(f) /\ AreBlocks(f.op, f.vals, f.succs) /\ InOrder(f.layout, k)
      /\ k \in Nat /\ m \in Nat /\ n \in Nat /\ Len(f.op) \in Nat /\ DOMAIN f.layout = 1 .. Len(f.layout)
      /\ Len(f.layout) \in Nat /\ AreObjects(f.objs) /\ AreValues(f.op, f.mach, f.args)
  BY SoundFacts
<1>2. NewBlockResult(f, o)
  BY NewBlockSound
<1>3. NewBlockResult(o, h)
  BY <1>2, NewBlockSound DEF NewBlockResult, Kept
<1>a. /\ o.mach = f.mach /\ o.args = f.args /\ h.mach = o.mach /\ h.args = o.args
  BY <1>1, <1>2, NewBlockFields DEF Parts, NewBlockResult, Kept, Sound
<1> DEFINE result == Parts(g, [h.vals EXCEPT ![b] = low, ![Len(f.vals) + 2] = high],
                           [h.succs EXCEPT ![b] = <<>>, ![Len(f.vals) + 2] = f.succs[b]],
                           h.op, h.mach, h.args, Place(h.layout, b, Len(f.vals) + 1, Len(f.vals) + 2), h.objs)
<1>4. result
  BY <1>1, <1>3, CutFields DEF NewBlockResult, Kept, Sound
<1> HIDE DEF o, h, g
<1>5. /\ IsRecord(g) /\ g.vals = [h.vals EXCEPT ![b] = low, ![n] = high]
      /\ g.succs = [h.succs EXCEPT ![b] = <<>>, ![n] = f.succs[b]]
      /\ g.op = h.op /\ g.mach = h.mach /\ g.args = h.args
      /\ g.layout = Place(h.layout, b, m, n) /\ g.objs = h.objs
  BY <1>4 DEF Parts
<1> HIDE DEF result, low, high
<1>6. /\ Len(h.vals) = n /\ Sound(h) /\ h.op = f.op /\ h.layout = f.layout /\ h.objs = f.objs
      /\ \A c \in 1 .. k : h.vals[c] = f.vals[c] /\ h.succs[c] = f.succs[c]
      /\ h.vals[m] = <<>> /\ h.succs[m] = <<>> /\ h.vals[n] = <<>> /\ h.succs[n] = <<>>
  <2>1. Len(o.vals) = m /\ \A c \in 1 .. k : c \in 1 .. m
    BY <1>1, <1>2 DEF NewBlockResult
  <2>2. m \in 1 .. m
    BY <1>1
  <2>3. /\ o.vals[m] = <<>> /\ o.succs[m] = <<>> /\ o.op = f.op /\ o.layout = f.layout /\ o.objs = f.objs
        /\ \A c \in 1 .. k : o.vals[c] = f.vals[c] /\ o.succs[c] = f.succs[c]
    BY <1>2, <2>1 DEF NewBlockResult, Kept
  <2>4. Len(h.vals) = n /\ Sound(h) /\ h.op = o.op /\ h.layout = o.layout /\ h.objs = o.objs
    BY <1>1, <1>3, <2>1 DEF NewBlockResult, Kept
  <2>5. /\ h.vals[n] = <<>> /\ h.succs[n] = <<>>
        /\ \A c \in 1 .. m : h.vals[c] = o.vals[c] /\ h.succs[c] = o.succs[c]
    BY <1>1, <1>3, <2>1, <2>4 DEF NewBlockResult
  <2> QED BY <2>1, <2>2, <2>3, <2>4, <2>5
<1>7. /\ IsSequence(h.vals) /\ IsSequence(h.succs) /\ Len(h.succs) = n
  BY <1>6 DEF Sound, AreBlocks
<1>8. /\ IsSequence(g.vals) /\ Len(g.vals) = n
      /\ \A c \in 1 .. n : g.vals[c] = IF c = n THEN high ELSE IF c = b THEN low ELSE h.vals[c]
  <2> DEFINE t == [h.vals EXCEPT ![b] = low]
  <2>1. IsReplaced(t, h.vals, b, low)
    BY <1>7, ReplacedInSequence
  <2>2. g.vals = [t EXCEPT ![n] = high]
    BY <1>5
  <2> HIDE DEF t
  <2>4. IsSequence(t)
    BY <2>1 DEF IsReplaced
  <2>5. IsReplaced([t EXCEPT ![n] = high], t, n, high)
    BY <2>4, ReplacedInSequence
  <2>3. IsReplaced(g.vals, t, n, high)
    BY <2>2, <2>5
  <2> QED BY <1>6, <2>1, <2>3 DEF IsReplaced
<1>9. /\ IsSequence(g.succs) /\ Len(g.succs) = n
      /\ \A c \in 1 .. n : g.succs[c] = IF c = n THEN f.succs[b] ELSE IF c = b THEN <<>> ELSE h.succs[c]
  <2> DEFINE t == [h.succs EXCEPT ![b] = <<>>]
  <2>1. IsReplaced(t, h.succs, b, <<>>)
    BY <1>7, ReplacedInSequence
  <2>2. g.succs = [t EXCEPT ![n] = f.succs[b]]
    BY <1>5
  <2> HIDE DEF t
  <2>4. IsSequence(t)
    BY <2>1 DEF IsReplaced
  <2>5. IsReplaced([t EXCEPT ![n] = f.succs[b]], t, n, f.succs[b])
    BY <2>4, ReplacedInSequence
  <2>3. IsReplaced(g.succs, t, n, f.succs[b])
    BY <2>2, <2>5
  <2> QED BY <1>7, <2>1, <2>3 DEF IsReplaced
<1>10. IsBlock(f.op, k, f.vals[b], f.succs[b])
  BY <1>1 DEF AreBlocks
<1>11. Len(f.vals[b]) \in Nat /\ IsSequence(f.vals[b])
  BY <1>10 DEF IsBlock, IsSequence
<1>12. IsPart(low, f.vals[b], 1, at - 1) /\ IsPart(high, f.vals[b], at, Len(f.vals[b]))
  <2>1. 1 \in 1 .. Len(f.vals[b]) + 1 /\ at - 1 \in 1 - 1 .. Len(f.vals[b])
    BY <1>11
  <2>2. at \in 1 .. Len(f.vals[b]) + 1 /\ Len(f.vals[b]) \in at - 1 .. Len(f.vals[b])
    BY <1>11
  <2>3. IsPart(low, f.vals[b], 1, at - 1)
    BY <1>11, <2>1, Part DEF low
  <2>4. IsPart(high, f.vals[b], at, Len(f.vals[b]))
    BY <1>11, <2>2, Part DEF high
  <2> QED BY <2>3, <2>4
<1>13. IsSequence(low) /\ Len(low) = at - 1 /\ \A i \in 1 .. at - 1 : low[i] = f.vals[b][i]
  <2>1. \A i \in 1 .. at - 1 : i \in 1 .. at - 1 + 1 - 1 /\ 1 + i - 1 = i
    BY <1>11
  <2> QED BY <1>11, <1>12, <2>1 DEF IsPart
<1>14. \A i \in 1 .. at - 1 : low[i] \in 1 .. Len(f.op) /\ f.op[low[i]] # "ret"
  <2> TAKE i \in 1 .. at - 1
  <2>1. i \in 1 .. Len(f.vals[b]) /\ i # Len(f.vals[b])
    BY <1>11
  <2> QED BY <1>10, <1>13, <2>1 DEF IsBlock
<1>15. IsBlock(f.op, n, low, <<>>)
  BY <1>13, <1>14, EmptySequence DEF IsBlock
<1>16. IsBlock(f.op, n, high, f.succs[b])
  <2>1. IsSequence(high) /\ Len(high) = Len(f.vals[b]) + 1 - at /\ Len(high) \in Nat
    BY <1>11, <1>12 DEF IsPart
  <2>2. ASSUME NEW i \in 1 .. Len(high)
        PROVE  /\ high[i] \in 1 .. Len(f.op)
               /\ f.op[high[i]] = "ret" => i = Len(high) /\ f.succs[b] = <<>>
    <3>1. at + i - 1 \in 1 .. Len(f.vals[b]) /\ (at + i - 1 = Len(f.vals[b]) => i = Len(high))
      BY <1>11, <2>1
    <3>2. high[i] = f.vals[b][at + i - 1]
      BY <1>12, <2>1 DEF IsPart
    <3> QED BY <1>10, <3>1, <3>2 DEF IsBlock
  <2>3. IsSequence(f.succs[b]) /\ Len(f.succs[b]) <= 2 /\ \A i \in 1 .. Len(f.succs[b]) : f.succs[b][i] \in 1 .. n
    <3>1. \A i \in 1 .. Len(f.succs[b]) : f.succs[b][i] \in 1 .. k
      BY <1>10 DEF IsBlock
    <3> QED BY <1>1, <1>10, <3>1 DEF IsBlock
  <2> QED BY <2>1, <2>2, <2>3 DEF IsBlock
<1>17. ASSUME NEW c \in 1 .. n PROVE IsBlock(f.op, n, g.vals[c], g.succs[c])
  <2>1. CASE c = n
    BY <1>8, <1>9, <1>16, <2>1
  <2>2. CASE c # n /\ c = b
    BY <1>8, <1>9, <1>15, <2>2
  <2>3. CASE c # n /\ c # b
    <3>1. IsBlock(h.op, n, h.vals[c], h.succs[c])
      BY <1>6 DEF Sound, AreBlocks
    <3>2. h.op = f.op /\ g.vals[c] = h.vals[c] /\ g.succs[c] = h.succs[c]
      BY <1>6, <1>8, <1>9, <2>3
    <3> QED BY <3>1, <3>2
  <2> QED BY <2>1, <2>2, <2>3
<1>18. AreBlocks(g.op, g.vals, g.succs)
  BY <1>5, <1>6, <1>8, <1>9, <1>17 DEF AreBlocks
<1>19. InOrder(g.layout, n) /\ Covered(g)
  <2>1. PICK j \in 1 .. Len(f.layout) : f.layout[j] = b
    BY DEF Covered
  <2>2. k <= m /\ k <= n /\ m \in 1 .. n /\ n # 0
    BY <1>1
  <2> DEFINE p == Place(f.layout, b, m, n)
  <2>6. InOrder(Place(f.layout, b, m, n), n) /\ HasAll(Place(f.layout, b, m, n), f.layout, m, n)
    BY <1>1, <2>1, <2>2, PlaceInOrder
  <2>3. /\ InOrder(p, n)
        /\ \E i \in 1 .. Len(p) : p[i] = m
        /\ \E i \in 1 .. Len(p) : p[i] = n
        /\ \A d \in 1 .. Len(f.layout) : \E i \in 1 .. Len(p) : p[i] = f.layout[d]
    BY <2>6 DEF HasAll
  <2>4. g.layout = p
    BY <1>5, <1>6
  <2> HIDE DEF p
  <2>5. ASSUME NEW c \in 1 .. n PROVE \E i \in 1 .. Len(p) : p[i] = c
    <3>1. CASE c = n \/ c = m
      BY <2>3, <3>1
    <3>2. CASE c # n /\ c # m
      <4>0. k \in Nat
        BY <1>1
      <4>1. c \in 1 .. k
        BY <3>2, <4>0
      <4>2. PICK d \in 1 .. Len(f.layout) : f.layout[d] = c
        BY <4>1 DEF Covered
      <4> QED BY <2>3, <4>2
    <3> QED BY <3>1, <3>2
  <2> QED BY <1>8, <2>3, <2>4, <2>5 DEF Covered
<1>20. Sound(g)
  BY <1>1, <1>a, <1>5, <1>6, <1>8, <1>18, <1>19 DEF Sound
<1>21. b \in 1 .. n /\ b # n /\ m \in 1 .. n /\ m # n /\ m # b
  BY <1>1
<1>22. Open(g, b) /\ g.succs[b] = <<>>
  BY <1>5, <1>6, <1>8, <1>9, <1>13, <1>14, <1>21 DEF Open
<1>23. Open(g, m) /\ g.succs[m] = <<>>
  <2>1. g.vals[m] = <<>> /\ g.succs[m] = <<>>
    BY <1>6, <1>8, <1>9, <1>21
  <2> QED BY <1>8, <1>21, <2>1, EmptySequence DEF Open
<1>24. CutResult(f, b, g)
  BY <1>5, <1>6, <1>8, <1>19, <1>20, <1>22, <1>23 DEF CutResult
<1> QED BY <1>24 DEF g

\* The sets a function carries do not matter here.
LEMMA Marked ==
  ASSUME NEW f, IsRecord(f), NEW x, NEW y
  PROVE  Parts([f EXCEPT !.ptr = x, !.diamond = y], f.vals, f.succs, f.op, f.mach, f.args, f.layout, f.objs)
<1> DEFINE g == [f EXCEPT !.ptr = x, !.diamond = y]
<1>0. HasFields(f)
  BY RecordHasFields
<1>1. IsRecord(g)
  BY Zenon DEF IsRecord
<1>2. g.vals = f.vals
  BY <1>0, Zenon DEF HasFields
<1>3. g.succs = f.succs
  BY <1>0, Zenon DEF HasFields
<1>4. g.op = f.op
  BY <1>0, Zenon DEF HasFields
<1>5. g.mach = f.mach
  BY <1>0, Zenon DEF HasFields
<1>6. g.args = f.args
  BY <1>0, Zenon DEF HasFields
<1>7. g.layout = f.layout
  BY <1>0, Zenon DEF HasFields
<1>8. g.objs = f.objs
  BY <1>0, Zenon DEF HasFields
<1> QED BY <1>1, <1>2, <1>3, <1>4, <1>5, <1>6, <1>7, <1>8 DEF Parts

\* f has as many blocks as base, with the same ways out.
Along(base, f) == Kept(base, f) /\ Len(f.vals) = Len(base.vals) /\ f.succs = base.succs

\* The sets a function carries beside its values and blocks do not matter here.
LEMMA MarkedSound ==
  ASSUME NEW base, Sound(base), NEW f, Along(base, f), NEW x, NEW y
  PROVE  Along(base, [f EXCEPT !.ptr = x, !.diamond = y])
<1> DEFINE g == [f EXCEPT !.ptr = x, !.diamond = y]
<1>0. Sound(f)
  BY DEF Along, Kept
<1>1. Parts(g, f.vals, f.succs, f.op, f.mach, f.args, f.layout, f.objs)
  BY <1>0, Marked DEF Sound
<1> HIDE DEF g
<1>2. Sound(g)
  BY <1>0, <1>1 DEF Sound, Parts
<1>3. Len(f.vals) \in Nat
  BY <1>0, SoundFacts
<1>4. Kept(f, g)
  BY <1>1, <1>2, <1>3 DEF Parts, Kept, Open
<1>5. Kept(base, g)
  BY <1>4, KeptTwice DEF Along
<1> QED BY <1>1, <1>5 DEF Parts, Along, g

\* A function that keeps f but for its order has as many blocks and is open
\* where f is.
LEMMA CoveredKept ==
  ASSUME NEW f, Covered(f), NEW g, Kept(f, g), Len(g.vals) = Len(f.vals)
  PROVE  Covered(g)
BY DEF Covered, Kept

\* One value more in b.
LEMMA OneValue ==
  ASSUME NEW base, Sound(base), NEW f, Along(base, f), NEW b, Open(base, b),
         NEW op, NEW mach, IsKind(op, mach) /\ op # "ret", NEW args, Len(args) \in Nat, NEW aux, NEW off
  PROVE  Along(base, NewValue(f, b, op, mach, args, aux, off))
<1> DEFINE g == NewValue(f, b, op, mach, args, aux, off)
<1>0. Sound(f) /\ Open(f, b)
  BY DEF Along, Kept
<1>1. NewValueResult(f, g)
  BY <1>0, NewValueSound
<1> HIDE DEF g
<1>2. Kept(base, g)
  BY <1>1, KeptTwice DEF NewValueResult, Along
<1> QED BY <1>1, <1>2 DEF g, Along, NewValueResult

\* What one write barrier leaves.
BarrierResult(f, g) ==
  /\ Sound(g) /\ Covered(g) /\ Len(g.vals) = Len(f.vals) + 2 /\ g.objs = f.objs

\* One write barrier (writebarrier.go, the body of the loop) leaves the function sound and
\* its layout complete, two blocks longer.
LEMMA BarrierSound ==
  ASSUME NEW f, Sound(f), Covered(f), NEW b \in 1 .. Len(f.vals), NEW at \in 1 .. Len(f.vals[b])
  PROVE  BarrierResult(f, Barrier(f, b, at))
<1> DEFINE s    == f.vals[b][at]
           n    == Len(f.op)
           m    == Len(f.vals) + 1
           z    == Len(f.vals) + 2
           cut  == Cut(f, b, at)
           addr == NewValue(cut, b, "const", "static", <<>>, "flag", 0)
           flag == NewValue(addr, b, "op", "flag", <<n + 1>>, NoId, 0)
           ctrl == NewValue(flag, b, "branch", "none", <<n + 2>>, NoId, 0)
           one  == AddEdge(ctrl, b, m)
           two  == AddEdge(one, b, z)
           old  == NewValue(two, m, "op", "load", <<f.args[s][1]>>, NoId, f.off[s])
           call == NewValue(old, m, "call", "wb", <<>>, NoId, 0)
           buf  == NewValue(call, m, "select", "none", <<n + 5>>, NoId, 0)
           m1   == NewValue(buf, m, "store", "store", <<n + 6, f.args[s][2]>>, NoId, 0)
           m2   == NewValue(m1, m, "store", "store", <<n + 6, n + 4>>, NoId, 1)
           last == [m2 EXCEPT !.ptr = @ \cup {n + 4},
                              !.diamond = @ \cup {n + 3, n + 4, n + 5, n + 6, n + 7, n + 8, s}]
           g    == AddEdge(last, m, z)
<1>1. Barrier(f, b, at) = g
  BY Zenon DEF Barrier, Destination
<1>0. /\ Len(f.vals) \in Nat /\ m \in 1 .. z /\ z \in 1 .. z /\ m # b /\ b \in 1 .. z
  BY SoundFacts
<1>2. \A x, y : Len(<<x>>) \in Nat /\ Len(<<x, y>>) \in Nat /\ Len(<<>>) \in Nat
  OBVIOUS
<1>3. CutResult(f, b, cut)
  BY CutSound
<1> HIDE DEF cut, m, z, s, n
<1>4. /\ Sound(cut) /\ Covered(cut) /\ Len(cut.vals) = z /\ cut.objs = f.objs
      /\ Open(cut, b) /\ cut.succs[b] = <<>> /\ Open(cut, m) /\ cut.succs[m] = <<>>
  BY <1>3 DEF CutResult, m, z
<1>5. Along(cut, cut)
  BY <1>4, SoundFacts DEF Kept, Along
<1>6. /\ IsKind("const", "static") /\ "const" # "ret"
      /\ IsKind("op", "flag") /\ IsKind("op", "load") /\ "op" # "ret"
      /\ IsKind("branch", "none") /\ "branch" # "ret"
      /\ IsKind("call", "wb") /\ "call" # "ret"
      /\ IsKind("select", "none") /\ "select" # "ret"
      /\ IsKind("store", "store") /\ "store" # "ret"
  BY DEF IsKind
<1>7. Along(cut, addr)
  BY <1>2, <1>4, <1>6, <1>5, OneValue
<1> HIDE DEF addr
<1>8. Along(cut, flag)
  <2>1. Len(<<n + 1>>) \in Nat
    BY <1>2
  <2> QED BY <1>4, <1>6, <1>7, <2>1, OneValue
<1> HIDE DEF flag
<1>9. Along(cut, ctrl)
  <2>1. Len(<<n + 2>>) \in Nat
    BY <1>2
  <2> QED BY <1>4, <1>6, <1>8, <2>1, OneValue
<1> HIDE DEF ctrl
<1>10. AddEdgeResult(ctrl, b, one)
  <2>1. Sound(ctrl) /\ Open(ctrl, b) /\ Len(ctrl.succs[b]) < 2 /\ m \in 1 .. Len(ctrl.vals)
    BY <1>0, <1>4, <1>9, EmptySequence DEF Kept, Along
  <2> QED BY <2>1, AddEdgeSound
<1>11. AddEdgeResult(one, b, two)
  <2>1. Sound(one) /\ Open(one, b) /\ Len(one.vals) = z
    BY <1>4, <1>9, <1>10 DEF Kept, AddEdgeResult, Along
  <2>2. Len(one.succs[b]) = 1
    BY <1>4, <1>9, <1>10, EmptySequence DEF AddEdgeResult, Along
  <2>3. z \in 1 .. Len(one.vals) /\ Len(one.succs[b]) < 2
    BY <1>0, <2>1, <2>2
  <2> QED BY <2>1, <2>3, AddEdgeSound
<1> HIDE DEF one, two
<1>12. Kept(cut, two) /\ Len(two.vals) = z /\ two.succs[m] = <<>>
  <2>1. Kept(ctrl, one) /\ Kept(one, two) /\ Len(two.vals) = z
    BY <1>4, <1>9, <1>10, <1>11 DEF AddEdgeResult, Along
  <2>2. Kept(cut, one)
    BY <1>4, <1>9, <2>1, KeptTwice DEF Along
  <2>3. Kept(cut, two)
    BY <1>4, <2>1, <2>2, KeptTwice
  <2>4. one.succs[m] = ctrl.succs[m] /\ two.succs[m] = one.succs[m]
    BY <1>0, <1>4, <1>9, <1>10, <1>11 DEF AddEdgeResult, Along
  <2> QED BY <1>4, <1>9, <2>1, <2>3, <2>4 DEF Along
<1>13. Sound(two) /\ Open(two, m) /\ Along(two, two)
  BY <1>4, <1>12, SoundFacts DEF Kept, Along
<1>14. Along(two, old)
  <2>1. Len(<<f.args[s][1]>>) \in Nat
    BY <1>2
  <2> QED BY <1>13, <1>6, <1>13, <2>1, OneValue
<1> HIDE DEF old
<1>15. Along(two, call)
  BY <1>2, <1>13, <1>6, <1>14, OneValue
<1> HIDE DEF call
<1>16. Along(two, buf)
  <2>1. Len(<<n + 5>>) \in Nat
    BY <1>2
  <2> QED BY <1>13, <1>6, <1>15, <2>1, OneValue
<1> HIDE DEF buf
<1>17. Along(two, m1)
  <2>1. Len(<<n + 6, f.args[s][2]>>) \in Nat
    BY <1>2
  <2> QED BY <1>13, <1>6, <1>16, <2>1, OneValue
<1> HIDE DEF m1
<1>18. Along(two, m2)
  <2>1. Len(<<n + 6, n + 4>>) \in Nat
    BY <1>2
  <2> QED BY <1>13, <1>6, <1>17, <2>1, OneValue
<1> HIDE DEF m2
<1>19. Along(two, last)
  BY <1>13, <1>18, MarkedSound
<1> HIDE DEF last
<1>20. Kept(two, last) /\ Len(last.vals) = Len(two.vals) /\ last.succs = two.succs
  BY <1>19 DEF Along
<1>21. AddEdgeResult(last, m, g)
  <2>1. Sound(last) /\ Open(last, m)
    BY <1>13, <1>20 DEF Kept
  <2>2. Len(last.succs[m]) < 2 /\ z \in 1 .. Len(last.vals)
    BY <1>0, <1>12, <1>20, EmptySequence
  <2> QED BY <2>1, <2>2, AddEdgeSound
<1> HIDE DEF g
<1>22. Kept(last, g) /\ Len(g.vals) = Len(last.vals)
  BY <1>21 DEF AddEdgeResult
<1>23. Kept(two, g)
  BY <1>13, <1>20, <1>22, KeptTwice
<1>24. Kept(cut, g)
  BY <1>4, <1>12, <1>23, KeptTwice
<1>25. Len(g.vals) = Len(cut.vals)
  BY <1>4, <1>12, <1>20, <1>22
<1>26. Covered(g)
  BY <1>4, <1>24, <1>25, CoveredKept
<1> QED BY <1>1, <1>4, <1>24, <1>25, <1>26 DEF BarrierResult, Kept, z

\* A function on the way of the pass, of at least m blocks.
OnTheWay(f, m, g) == Sound(g) /\ Covered(g) /\ Len(g.vals) >= m /\ g.objs = f.objs

\* So does the step from one value of a block to the next, which may or may not need one.
LEMMA NextBarrierSound ==
  ASSUME NEW f, NEW m \in Nat, NEW at, OnTheWay(f, m, at.f), at.b \in 1 .. Len(at.f.vals)
  PROVE  OnTheWay(f, m, NextBarrier(at).f) /\ NextBarrier(at).b \in 1 .. Len(NextBarrier(at).f.vals)
<1> DEFINE T == {i \in DOMAIN at.f.vals[at.b] : NeedsBarrier(at.f, at.f.vals[at.b][i])}
<1>1. CASE T = {}
  <2>1. NextBarrier(at) = at
    BY <1>1 DEF NextBarrier
  <2> QED BY <2>1
<1>2. CASE T # {}
  <2> DEFINE g == Barrier(at.f, at.b, Min(T))
             z == Len(at.f.vals) + 2
  <2>1. NextBarrier(at) = [f |-> g, b |-> z]
    BY <1>2 DEF NextBarrier
  <2>2. Sound(at.f) /\ Covered(at.f) /\ Len(at.f.vals) >= m /\ at.f.objs = f.objs
    BY DEF OnTheWay
  <2>3. IsSequence(at.f.vals[at.b])
    BY <2>2 DEF Sound, AreBlocks, IsBlock
  <2>4. Min(T) \in 1 .. Len(at.f.vals[at.b])
    <3>1. T \subseteq Nat /\ T # {} /\ T \subseteq 1 .. Len(at.f.vals[at.b])
      BY <1>2, <2>3 DEF IsSequence
    <3> HIDE DEF T
    <3> QED BY <3>1, MinFacts
  <2>5. BarrierResult(at.f, g)
    BY <2>2, <2>4, BarrierSound
  <2> HIDE DEF g
  <2>6. Len(at.f.vals) \in Nat
    BY <2>2, SoundFacts
  <2>7. Len(g.vals) = z /\ z >= m /\ z \in 1 .. z /\ OnTheWay(f, m, g)
    BY <2>2, <2>5, <2>6 DEF BarrierResult, OnTheWay
  <2> QED BY <2>1, <2>7
<1> QED BY <1>1, <1>2

\* The functions along the walk over the values of one block.
Walked(f, b, it) ==
  it = [k \in 0 .. Len(f.vals[b]) |-> IF k = 0 THEN [f |-> f, b |-> b] ELSE NextBarrier(it[k - 1])]

\* There are such functions.
LEMMA WalkedExists ==
  ASSUME NEW f, NEW b, Len(f.vals[b]) \in Nat
  PROVE  \E it : Walked(f, b, it)
<1> DEFINE Put(at, i) == NextBarrier(at)
           Good(it, n) == it = [k \in 0 .. n |-> IF k = 0 THEN [f |-> f, b |-> b] ELSE Put(it[k - 1], k)]
           P == {n \in Nat : \E it : Good(it, n)}
<1>1. 0 \in P
  <2> HIDE DEF Put
  <2> DEFINE it == [k \in 0 .. 0 |-> [f |-> f, b |-> b]]
  <2>1. Good(it, 0)
    OBVIOUS
  <2> QED BY <2>1
<1>2. ASSUME NEW n \in Nat, n \in P PROVE n + 1 \in P
  <2> HIDE DEF Put
  <2>1. PICK it : Good(it, n)
    BY <1>2
  <2> DEFINE more == [k \in 0 .. n + 1 |-> IF k \in 0 .. n THEN it[k] ELSE Put(it[n], n + 1)]
  <2>2. ASSUME NEW k \in 0 .. n + 1 PROVE more[k] = IF k = 0 THEN [f |-> f, b |-> b] ELSE Put(more[k - 1], k)
    <3>1. CASE k \in 0 .. n
      <4>1. k # 0 => k - 1 \in 0 .. n /\ k - 1 \in 0 .. n + 1
        BY <3>1
      <4>2. it[k] = IF k = 0 THEN [f |-> f, b |-> b] ELSE Put(it[k - 1], k)
        BY <2>1, <3>1
      <4> QED BY <3>1, <4>1, <4>2
    <3>2. CASE k = n + 1
      <4>1. k \notin 0 .. n /\ k # 0 /\ k - 1 = n /\ n \in 0 .. n + 1 /\ n \in 0 .. n
        BY <3>2
      <4> QED BY <3>2, <4>1
    <3> QED BY <3>1, <3>2
  <2>3. Good(more, n + 1)
    <3>1. DOMAIN more = 0 .. n + 1 /\ more = [k \in 0 .. n + 1 |-> more[k]]
      OBVIOUS
    <3> HIDE DEF more
    <3> QED BY <2>2, <3>1
  <2>4. \E jt : Good(jt, n + 1)
    BY <2>3
  <2> HIDE DEF Good
  <2>5. n + 1 \in Nat
    OBVIOUS
  <2> QED BY <2>4, <2>5
<1> HIDE DEF P
<1>3. Len(f.vals[b]) \in P
  BY <1>1, <1>2, NumberInduction
<1> QED BY <1>3 DEF P, Walked

\* The functions along the walk over all blocks.
Barred(f, it) ==
  it = [k \in 0 .. Len(f.layout) |-> IF k = 0 THEN f ELSE BarriersOf(it[k - 1], f.layout[k])]

\* There are such functions.
LEMMA BarredExists ==
  ASSUME NEW f, Len(f.layout) \in Nat
  PROVE  \E it : Barred(f, it)
<1> DEFINE Put(at, i) == BarriersOf(at, f.layout[i])
           Good(it, n) == it = [k \in 0 .. n |-> IF k = 0 THEN f ELSE Put(it[k - 1], k)]
           P == {n \in Nat : \E it : Good(it, n)}
<1>1. 0 \in P
  <2> HIDE DEF Put
  <2> DEFINE it == [k \in 0 .. 0 |-> f]
  <2>1. Good(it, 0)
    OBVIOUS
  <2> QED BY <2>1
<1>2. ASSUME NEW n \in Nat, n \in P PROVE n + 1 \in P
  <2> HIDE DEF Put
  <2>1. PICK it : Good(it, n)
    BY <1>2
  <2> DEFINE more == [k \in 0 .. n + 1 |-> IF k \in 0 .. n THEN it[k] ELSE Put(it[n], n + 1)]
  <2>2. ASSUME NEW k \in 0 .. n + 1 PROVE more[k] = IF k = 0 THEN f ELSE Put(more[k - 1], k)
    <3>1. CASE k \in 0 .. n
      <4>1. k # 0 => k - 1 \in 0 .. n /\ k - 1 \in 0 .. n + 1
        BY <3>1
      <4>2. it[k] = IF k = 0 THEN f ELSE Put(it[k - 1], k)
        BY <2>1, <3>1
      <4> QED BY <3>1, <4>1, <4>2
    <3>2. CASE k = n + 1
      <4>1. k \notin 0 .. n /\ k # 0 /\ k - 1 = n /\ n \in 0 .. n + 1 /\ n \in 0 .. n
        BY <3>2
      <4> QED BY <3>2, <4>1
    <3> QED BY <3>1, <3>2
  <2>3. Good(more, n + 1)
    <3>1. DOMAIN more = 0 .. n + 1 /\ more = [k \in 0 .. n + 1 |-> more[k]]
      OBVIOUS
    <3> HIDE DEF more
    <3> QED BY <2>2, <3>1
  <2>4. \E jt : Good(jt, n + 1)
    BY <2>3
  <2> HIDE DEF Good
  <2>5. n + 1 \in Nat
    OBVIOUS
  <2> QED BY <2>4, <2>5
<1> HIDE DEF P
<1>3. Len(f.layout) \in P
  BY <1>1, <1>2, NumberInduction
<1> QED BY <1>3 DEF P, Barred

\* The barriers of one block leave the function sound and its layout complete, ...
LEMMA BarriersOfSound ==
  ASSUME NEW base, NEW m \in Nat, NEW f, OnTheWay(base, m, f), NEW b \in 1 .. Len(f.vals)
  PROVE  OnTheWay(base, m, BarriersOf(f, b))
<1> DEFINE n == Len(f.vals[b])
           walked == CHOOSE it : Walked(f, b, it)
<1>0. n \in Nat
  BY DEF OnTheWay, Sound, AreBlocks, IsBlock, IsSequence
<1>1. Walked(f, b, walked)
  BY <1>0, WalkedExists
<1>2. BarriersOf(f, b) = walked[n].f
  BY DEF BarriersOf, Walked
<1>3. \A k \in 0 .. n : walked[k] = IF k = 0 THEN [f |-> f, b |-> b] ELSE NextBarrier(walked[k - 1])
  BY <1>1 DEF Walked
<1> HIDE DEF walked, n
<1> DEFINE P == {k \in Nat : k <= n => OnTheWay(base, m, walked[k].f) /\ walked[k].b \in 1 .. Len(walked[k].f.vals)}
<1>4. 0 \in P
  <2>1. walked[0] = [f |-> f, b |-> b]
    BY <1>0, <1>3
  <2> QED BY <2>1
<1>5. ASSUME NEW k \in Nat, k \in P PROVE k + 1 \in P
  <2> SUFFICES ASSUME k + 1 <= n
               PROVE  OnTheWay(base, m, walked[k + 1].f) /\ walked[k + 1].b \in 1 .. Len(walked[k + 1].f.vals)
    OBVIOUS
  <2>1. k + 1 \in 0 .. n /\ k + 1 # 0 /\ (k + 1) - 1 = k /\ k <= n
    BY <1>0
  <2>2. walked[k + 1] = NextBarrier(walked[k])
    BY <1>3, <2>1
  <2>3. OnTheWay(base, m, walked[k].f) /\ walked[k].b \in 1 .. Len(walked[k].f.vals)
    BY <1>5, <2>1
  <2> QED BY <2>2, <2>3, NextBarrierSound
<1> HIDE DEF P
<1>6. n \in P
  BY <1>0, <1>4, <1>5, NumberInduction
<1> QED BY <1>0, <1>2, <1>6 DEF P

\* ... and so do those of all blocks (writebarrier.go, insertWriteBarriers).
LEMMA WriteBarriersSound ==
  ASSUME NEW f, Sound(f), Covered(f)
  PROVE  OnTheWay(f, Len(f.vals), WriteBarriers(f))
<1> DEFINE n == Len(f.layout)
           m == Len(f.vals)
           barred == CHOOSE it : Barred(f, it)
<1>0. n \in Nat /\ m \in Nat
  BY SoundFacts
<1>1. Barred(f, barred)
  BY <1>0, BarredExists
<1>2. WriteBarriers(f) = barred[n]
  BY DEF WriteBarriers, Barred
<1>3. \A k \in 0 .. n : barred[k] = IF k = 0 THEN f ELSE BarriersOf(barred[k - 1], f.layout[k])
  BY <1>1 DEF Barred
<1> HIDE DEF barred
<1> DEFINE P == {k \in Nat : k <= n => OnTheWay(f, m, barred[k])}
<1>4. 0 \in P
  <2>1. barred[0] = f
    BY <1>0, <1>3
  <2> QED BY <1>0, <2>1 DEF OnTheWay
<1>5. ASSUME NEW k \in Nat, k \in P PROVE k + 1 \in P
  <2> SUFFICES ASSUME k + 1 <= n PROVE OnTheWay(f, m, barred[k + 1])
    OBVIOUS
  <2>1. k + 1 \in 0 .. n /\ k + 1 \in 1 .. n /\ k + 1 # 0 /\ (k + 1) - 1 = k /\ k <= n
    BY <1>0
  <2>2. barred[k + 1] = BarriersOf(barred[k], f.layout[k + 1]) /\ OnTheWay(f, m, barred[k])
    BY <1>3, <1>5, <2>1
  <2>3. f.layout[k + 1] \in 1 .. m
    BY <2>1 DEF Sound, InOrder
  <2>4. Len(barred[k].vals) \in Nat /\ Len(barred[k].vals) >= m
    BY <2>2, SoundFacts DEF OnTheWay
  <2>5. f.layout[k + 1] \in 1 .. Len(barred[k].vals)
    BY <1>0, <2>3, <2>4
  <2> QED BY <1>0, <2>2, <2>5, BarriersOfSound
<1> HIDE DEF P
<1>6. n \in P
  BY <1>0, <1>4, <1>5, NumberInduction
<1> QED BY <1>0, <1>2, <1>6 DEF P

-----------------------------------------------------------------------------
(* The passes *)

\* t is s and then u.
IsJoined(t, s, u) ==
  /\ IsSequence(t) /\ Len(t) = Len(s) + Len(u)
  /\ \A i \in 1 .. Len(s) : t[i] = s[i]
  /\ \A i \in 1 .. Len(u) : t[Len(s) + i] = u[i]

\* What joining two sequences does.
LEMMA Joined ==
  ASSUME NEW s, IsSequence(s), NEW u, IsSequence(u)
  PROVE  IsJoined(s \o u, s, u)
<1> DEFINE S == {s[k] : k \in 1 .. Len(s)} \cup {u[k] : k \in 1 .. Len(u)}
           t == s \o u
<1>1. /\ \A k \in 1 .. Len(s) : s[k] \in S
      /\ \A k \in 1 .. Len(u) : u[k] \in S
  OBVIOUS
<1> HIDE DEF S
<1>2. s \in Seq(S) /\ u \in Seq(S)
  BY <1>1 DEF IsSequence
<1>3. /\ t \in Seq(S) /\ Len(t) = Len(s) + Len(u)
      /\ \A i \in 1 .. Len(s) : t[i] = s[i]
      /\ \A i \in 1 .. Len(u) : t[Len(s) + i] = u[i]
  BY <1>2
<1>4. IsSequence(t)
  BY <1>3, SeqIsSequence
<1> QED BY <1>3, <1>4 DEF IsJoined

\* The function that is compiled, from its first pass on.
Ready(f, g) == Sound(g) /\ Covered(g) /\ Len(g.vals) > 0 /\ g.objs = f.objs

\* A function with another order is the same but for that.
LEMMA LaidOut ==
  ASSUME NEW f, IsRecord(f), NEW layout
  PROVE  Parts([f EXCEPT !.layout = layout], f.vals, f.succs, f.op, f.mach, f.args, layout, f.objs)
<1> DEFINE g == [f EXCEPT !.layout = layout]
<1>0. HasFields(f)
  BY RecordHasFields
<1>1. IsRecord(g)
  BY Zenon DEF IsRecord
<1>2. g.vals = f.vals /\ g.succs = f.succs /\ g.op = f.op /\ g.mach = f.mach /\ g.args = f.args
  BY <1>0, Zenon DEF HasFields
<1>3. g.layout = layout /\ g.objs = f.objs
  BY <1>0, Zenon DEF HasFields
<1> QED BY <1>1, <1>2, <1>3 DEF Parts

\* The barriers and the split edges leave a function with all its blocks in order.
LEMMA PreparedSound ==
  ASSUME NEW f, WellFormed(f)
  PROVE  Ready(f, Prepared(f))
<1> DEFINE barred == WriteBarriers(f)
           split  == SplitCriticalEdges(barred)
           m == Len(barred.vals)
           n == Len(split.vals)
           more == [i \in 1 .. n - m |-> m + i]
           layout == split.layout \o more
           g == [split EXCEPT !.layout = layout]
<1>1. Prepared(f) = g
  BY DEF Prepared
<1>2. Sound(f) /\ Covered(f) /\ Len(f.vals) > 0
  BY WellFormedIsSound
<1>3. OnTheWay(f, Len(f.vals), barred)
  BY <1>2, WriteBarriersSound
<1> HIDE DEF barred
<1>4. Sound(barred) /\ Covered(barred) /\ m >= Len(f.vals) /\ barred.objs = f.objs
  BY <1>3 DEF OnTheWay
<1>5. Kept(barred, split)
  BY <1>4, SplitCriticalEdgesSound
<1> HIDE DEF split
<1>6. Sound(split) /\ n >= m /\ split.layout = barred.layout /\ split.objs = barred.objs
  BY <1>5 DEF Kept
<1>7. m \in Nat /\ n \in Nat /\ Len(f.vals) \in Nat /\ n > 0
  <2>1. m \in Nat /\ n \in Nat /\ Len(f.vals) \in Nat
    BY <1>2, <1>4, <1>6, SoundFacts
  <2> HIDE DEF m, n
  <2> QED BY <1>2, <1>4, <1>6, <2>1
<1> HIDE DEF m, n
<1>8. IsSequence(more) /\ Len(more) = n - m /\ \A i \in 1 .. n - m : more[i] = m + i
  <2>1. n - m \in Nat
    BY <1>6, <1>7
  <2>2. more \in Seq({m + i : i \in 1 .. n - m}) /\ Len(more) = n - m
    BY <2>1
  <2>3. IsSequence(more)
    BY <2>2, SeqIsSequence
  <2> QED BY <2>2, <2>3
<1> HIDE DEF more
<1>9. InOrder(split.layout, n)
  BY <1>6 DEF Sound, n
<1>10. IsJoined(layout, split.layout, more)
  BY <1>8, <1>9, Joined DEF InOrder
<1> HIDE DEF layout
<1>11. Len(split.layout) \in Nat /\ Len(layout) = Len(split.layout) + (n - m) /\ IsSequence(layout)
  BY <1>8, <1>9, <1>10 DEF InOrder, IsSequence, IsJoined
<1>12. ASSUME NEW k \in 1 .. Len(layout) PROVE layout[k] \in 1 .. n
  <2>1. CASE k <= Len(split.layout)
    <3>1. k \in 1 .. Len(split.layout)
      BY <1>11, <2>1
    <3> QED BY <1>9, <1>10, <3>1 DEF InOrder, IsJoined
  <2>2. CASE k > Len(split.layout)
    <3> DEFINE i == k - Len(split.layout)
    <3>1. i \in 1 .. n - m /\ Len(split.layout) + i = k
      BY <1>6, <1>7, <1>11, <2>2
    <3> HIDE DEF i
    <3>2. layout[Len(split.layout) + i] = m + i
      BY <1>8, <1>10, <3>1 DEF IsJoined
    <3>3. m + i \in 1 .. n
      BY <1>6, <1>7, <3>1
    <3> QED BY <3>1, <3>2, <3>3
  <2> QED BY <1>11, <2>1, <2>2
<1>13. ASSUME NEW b \in 1 .. n PROVE \E k \in 1 .. Len(layout) : layout[k] = b
  <2>1. CASE b <= m
    <3>1. b \in 1 .. m
      BY <1>7, <2>1
    <3>2. PICK k \in 1 .. Len(split.layout) : split.layout[k] = b
      BY <1>4, <1>6, <3>1 DEF Covered, m
    <3>3. k \in 1 .. Len(layout)
      BY <1>6, <1>7, <1>11
    <3> QED BY <1>10, <3>2, <3>3 DEF IsJoined
  <2>2. CASE b > m
    <3> DEFINE i == b - m
    <3>1. i \in 1 .. n - m /\ m + i = b /\ Len(split.layout) + i \in 1 .. Len(layout)
      BY <1>6, <1>7, <1>11, <2>2
    <3> HIDE DEF i
    <3>2. layout[Len(split.layout) + i] = b
      BY <1>8, <1>10, <3>1 DEF IsJoined
    <3> QED BY <3>1, <3>2
  <2> QED BY <1>7, <2>1, <2>2
<1>14. Parts(g, split.vals, split.succs, split.op, split.mach, split.args, layout, split.objs)
  BY <1>6, LaidOut DEF Sound
<1> HIDE DEF g
<1>15. Len(g.vals) = n
  BY <1>14 DEF Parts, n
<1>16. InOrder(g.layout, Len(g.vals))
  BY <1>11, <1>12, <1>14, <1>15 DEF Parts, InOrder
<1>17. Sound(g)
  BY <1>6, <1>14, <1>16 DEF Parts, Sound
<1>18. Covered(g)
  BY <1>13, <1>14, <1>15 DEF Parts, Covered
<1>19. g.objs = f.objs
  BY <1>4, <1>6, <1>14 DEF Parts
<1> QED BY <1>1, <1>7, <1>15, <1>17, <1>18, <1>19 DEF Ready

-----------------------------------------------------------------------------
(* The slots *)

\* A slot for one more value leaves the slots a sequence.
LEMMA WithSlotIsSequence ==
  ASSUME NEW f, NEW l, NEW an, NEW safe, NEW slots, IsSequence(slots), NEW v
  PROVE  IsSequence(WithSlot(f, l, an, safe, slots, v))
<1>1. IsSequence(Append(slots, {v}))
  BY Appended DEF IsAppended
<1>2. \A i, x : IsSequence([slots EXCEPT ![i] = x])
  BY ReplacedInSequence DEF IsReplaced
<1> DEFINE accepts == {i \in DOMAIN slots : \A u \in slots[i] : CanShareSlot(f, l, an, safe, u, v)}
           i == Min(accepts)
<1>3. WithSlot(f, l, an, safe, slots, v) = IF accepts # {} THEN [slots EXCEPT ![i] = @ \cup {v}] ELSE Append(slots, {v})
  BY DEF WithSlot
<1> HIDE DEF i, accepts
<1>4. IsSequence([slots EXCEPT ![i] = slots[i] \cup {v}])
  BY <1>2
<1> QED BY <1>1, <1>3, <1>4

\* The slots along the assignment, value by value.
Placing(f, l, an, safe, spilled, it) ==
  it = [k \in 0 .. Max(spilled \cup {0}) + 1 |->
          IF k = 0 THEN <<>>
          ELSE IF k - 1 \in spilled THEN WithSlot(f, l, an, safe, it[k - 1], k - 1) ELSE it[k - 1]]

\* There are such slots.
LEMMA PlacingExists ==
  ASSUME NEW f, NEW l, NEW an, NEW safe, NEW spilled, Max(spilled \cup {0}) \in Nat
  PROVE  \E it : Placing(f, l, an, safe, spilled, it)
<1> DEFINE Put(at, i) == IF i \in spilled THEN WithSlot(f, l, an, safe, at, i) ELSE at
           Good(it, n) == it = [k \in 0 .. n |-> IF k = 0 THEN <<>> ELSE Put(it[k - 1], k - 1)]
           P == {n \in Nat : \E it : Good(it, n)}
<1>1. 0 \in P
  <2> HIDE DEF Put
  <2> DEFINE it == [k \in 0 .. 0 |-> <<>>]
  <2>1. Good(it, 0)
    OBVIOUS
  <2> QED BY <2>1
<1>2. ASSUME NEW n \in Nat, n \in P PROVE n + 1 \in P
  <2> HIDE DEF Put
  <2>1. PICK it : Good(it, n)
    BY <1>2
  <2> DEFINE more == [k \in 0 .. n + 1 |-> IF k \in 0 .. n THEN it[k] ELSE Put(it[n], n)]
  <2>2. ASSUME NEW k \in 0 .. n + 1 PROVE more[k] = IF k = 0 THEN <<>> ELSE Put(more[k - 1], k - 1)
    <3>1. CASE k \in 0 .. n
      <4>1. k # 0 => k - 1 \in 0 .. n /\ k - 1 \in 0 .. n + 1
        BY <3>1
      <4>2. it[k] = IF k = 0 THEN <<>> ELSE Put(it[k - 1], k - 1)
        BY <2>1, <3>1
      <4> QED BY <3>1, <4>1, <4>2
    <3>2. CASE k = n + 1
      <4>1. k \notin 0 .. n /\ k # 0 /\ k - 1 = n /\ n \in 0 .. n + 1 /\ n \in 0 .. n
        BY <3>2
      <4> QED BY <3>2, <4>1
    <3> QED BY <3>1, <3>2
  <2>3. Good(more, n + 1)
    <3>1. DOMAIN more = 0 .. n + 1 /\ more = [k \in 0 .. n + 1 |-> more[k]]
      OBVIOUS
    <3> HIDE DEF more
    <3> QED BY <2>2, <3>1
  <2>4. \E jt : Good(jt, n + 1)
    BY <2>3
  <2> HIDE DEF Good
  <2>5. n + 1 \in Nat
    OBVIOUS
  <2> QED BY <2>4, <2>5
<1> HIDE DEF P
<1>3. Max(spilled \cup {0}) + 1 \in Nat
  OBVIOUS
<1>4. Max(spilled \cup {0}) + 1 \in P
  BY <1>1, <1>2, <1>3, NumberInduction
<1> QED BY <1>4 DEF P, Placing

\* The slots of the values of a set are a sequence.
LEMMA AssignedIsSequence ==
  ASSUME NEW f, NEW l, NEW an, NEW safe, NEW n \in Nat, NEW spilled, spilled \subseteq 1 .. n
  PROVE  IsSequence(AssignSlots(f, l, an, safe, spilled))
<1> DEFINE top == Max(spilled \cup {0}) + 1
           Put(at, v) == IF v \in spilled THEN WithSlot(f, l, an, safe, at, v) ELSE at
           placed == CHOOSE p : Placing(f, l, an, safe, spilled, p)
<1>0. Max(spilled \cup {0}) \in Nat
  <2> DEFINE s == spilled \cup {0}
  <2>1. s \subseteq 0 .. n /\ s # {} /\ \A k \in s : k \in Nat
    OBVIOUS
  <2> HIDE DEF s
  <2>2. Max(s) \in s
    BY <2>1, MaxFacts
  <2>3. Max(s) \in Nat
    BY <2>1, <2>2
  <2> QED BY <2>3 DEF s
<1>1. top \in Nat
  BY <1>0
<1>2. AssignSlots(f, l, an, safe, spilled) = placed[top]
  BY DEF AssignSlots, Placing
<1>3. Placing(f, l, an, safe, spilled, placed)
  <2>1. Max(spilled \cup {0}) \in Nat
    BY <1>0
  <2> QED BY <2>1, PlacingExists
<1> HIDE DEF placed
<1>4. \A k \in 0 .. top : placed[k] = IF k = 0 THEN <<>> ELSE Put(placed[k - 1], k - 1)
  BY <1>3 DEF Placing
<1> HIDE DEF top
<1> DEFINE P == {k \in Nat : k <= top => IsSequence(placed[k])}
<1>5. 0 \in P
  BY <1>1, <1>4, EmptySequence
<1>6. ASSUME NEW k \in Nat, k \in P PROVE k + 1 \in P
  <2>1. k + 1 \in Nat /\ (k + 1 <= top => k <= top /\ k + 1 \in 0 .. top)
    BY <1>1
  <2>2. ASSUME k + 1 <= top PROVE IsSequence(placed[k + 1])
    <3>1. IsSequence(placed[k])
      BY <1>6, <2>1, <2>2
    <3>2. placed[k + 1] = Put(placed[k], k)
      BY <1>4, <2>1, <2>2
    <3> DEFINE old == placed[k]
    <3>3. placed[k + 1] = Put(old, k) /\ IsSequence(old)
      BY <3>1, <3>2
    <3> HIDE DEF old
    <3>4. IsSequence(WithSlot(f, l, an, safe, old, k))
      BY <3>3, WithSlotIsSequence
    <3> QED BY <3>3, <3>4
  <2> QED BY <2>1, <2>2
<1> HIDE DEF P
<1>7. top \in P
  BY <1>1, <1>5, <1>6, NumberInduction
<1>8. IsSequence(placed[top])
  BY <1>1, <1>7 DEF P
<1> QED BY <1>2, <1>8 DEF top

-----------------------------------------------------------------------------
(* The passes that add to a function *)

\* g is f but for what a pass adds.
Alike(g, f) == Parts(g, f.vals, f.succs, f.op, f.mach, f.args, f.layout, f.objs)

\* The fields the passes fill in.
HasAdded(f) ==
  /\ "liveIn" \in DOMAIN f /\ "liveOut" \in DOMAIN f /\ "order" \in DOMAIN f /\ "slots" \in DOMAIN f
  /\ "slot" \in DOMAIN f /\ "fr" \in DOMAIN f /\ "checked" \in DOMAIN f /\ "emitted" \in DOMAIN f
  /\ "maps" \in DOMAIN f

\* A function has each of them.
LEMMA RecordHasAdded ==
  ASSUME NEW f, IsRecord(f)
  PROVE  HasAdded(f)
BY DEF IsRecord, Given, Added, HasAdded

\* Which fields each pass fills in, and that it leaves the others alone: liveness, ...
LEMMA WithLivenessFields ==
  ASSUME NEW f, IsRecord(f)
  PROVE  Alike(WithLiveness(f), f)
<1>0. HasFields(f) /\ HasAdded(f)
  BY RecordHasFields, RecordHasAdded
<1> DEFINE g == WithLiveness(f)
<1>1. IsRecord(g)
  BY Zenon DEF IsRecord, WithLiveness
<1>2. g.vals = f.vals /\ g.succs = f.succs /\ g.op = f.op /\ g.mach = f.mach
  BY <1>0, Zenon DEF HasFields, HasAdded, WithLiveness
<1>3. g.args = f.args /\ g.layout = f.layout /\ g.objs = f.objs
  BY <1>0, Zenon DEF HasFields, HasAdded, WithLiveness
<1> QED BY <1>1, <1>2, <1>3 DEF Alike, Parts

\* ... the stack maps, ...
LEMMA WithMapsFields ==
  ASSUME NEW f, IsRecord(f)
  PROVE  /\ Alike(WithMaps(f), f)
         /\ WithMaps(f).slots = f.slots /\ WithMaps(f).fr = f.fr
         /\ WithMaps(f).checked = f.checked /\ WithMaps(f).emitted = f.emitted
<1>0. HasFields(f) /\ HasAdded(f)
  BY RecordHasFields, RecordHasAdded
<1> DEFINE g == WithMaps(f)
<1>1. IsRecord(g)
  BY Zenon DEF IsRecord, WithMaps
<1>2. g.vals = f.vals /\ g.succs = f.succs /\ g.op = f.op /\ g.mach = f.mach
  BY <1>0, Zenon DEF HasFields, HasAdded, WithMaps
<1>3. g.args = f.args /\ g.layout = f.layout /\ g.objs = f.objs
  BY <1>0, Zenon DEF HasFields, HasAdded, WithMaps
<1>4. g.slots = f.slots /\ g.fr = f.fr /\ g.checked = f.checked /\ g.emitted = f.emitted
  BY <1>0, Zenon DEF HasFields, HasAdded, WithMaps
<1> QED BY <1>1, <1>2, <1>3, <1>4 DEF Alike, Parts

\* ... the frame, ...
LEMMA WithFrameFields ==
  ASSUME NEW f, IsRecord(f)
  PROVE  /\ Alike(WithFrame(f), f)
         /\ WithFrame(f).slots = f.slots /\ WithFrame(f).fr = LayoutFrame(f, f.slots)
<1>0. HasFields(f) /\ HasAdded(f)
  BY RecordHasFields, RecordHasAdded
<1> DEFINE g == WithFrame(f)
<1>1. IsRecord(g)
  BY Zenon DEF IsRecord, WithFrame
<1>2. g.vals = f.vals /\ g.succs = f.succs /\ g.op = f.op /\ g.mach = f.mach
  BY <1>0, Zenon DEF HasFields, HasAdded, WithFrame
<1>3. g.args = f.args /\ g.layout = f.layout /\ g.objs = f.objs
  BY <1>0, Zenon DEF HasFields, HasAdded, WithFrame
<1>4. g.slots = f.slots /\ g.fr = LayoutFrame(f, f.slots)
  BY <1>0, Zenon DEF HasFields, HasAdded, WithFrame
<1> QED BY <1>1, <1>2, <1>3, <1>4 DEF Alike, Parts

\* ... the slots, ...
LEMMA WithSlotsFields ==
  ASSUME NEW f, Sound(f), NEW all \in BOOLEAN
  PROVE  Alike(WithSlots(f, all), f) /\ IsSequence(WithSlots(f, all).slots)
<1> DEFINE l  == Linearise(f)
           an == Analyse(f, l, f.liveIn, f.liveOut)
           places == UNION {SelectsOf(f, c) : c \in {v \in Calls(f) : f.mach[v] = "wb"}}
           across == {v \in Tracked(f) : \E c \in Calls(f) : v \in an.safe[c]}
           spilled == IF all THEN Tracked(f) \ places ELSE across
           slots == AssignSlots(f, l, an.an, an.safe, spilled)
           g == [f EXCEPT !.order = l.order, !.slots = slots]
<1>0. IsRecord(f) /\ HasFields(f) /\ HasAdded(f)
  BY RecordHasFields, RecordHasAdded DEF Sound
<1>1. WithSlots(f, all) = g
  BY DEF WithSlots
<1>2. spilled \subseteq 1 .. Len(f.op) /\ Len(f.op) \in Nat
  BY SoundFacts DEF Sound, AreValues, IsSequence, Tracked
<1> HIDE DEF spilled
<1>3. IsSequence(slots)
  BY <1>2, AssignedIsSequence
<1> HIDE DEF slots, l
<1>4. IsRecord(g)
  BY <1>0, Zenon DEF IsRecord
<1>5. g.vals = f.vals /\ g.succs = f.succs /\ g.op = f.op /\ g.mach = f.mach
  BY <1>0, Zenon DEF HasFields, HasAdded
<1>6. g.args = f.args /\ g.layout = f.layout /\ g.objs = f.objs /\ g.slots = slots
  BY <1>0, Zenon DEF HasFields, HasAdded
<1> QED BY <1>1, <1>3, <1>4, <1>5, <1>6 DEF Alike, Parts

\* ... and the code.
LEMMA WithCodeFields ==
  ASSUME NEW f, IsRecord(f), NEW checked
  PROVE  /\ Alike(WithCode(f, checked), f)
         /\ WithCode(f, checked).slots = f.slots /\ WithCode(f, checked).fr = f.fr
         /\ WithCode(f, checked).checked = checked
         /\ WithCode(f, checked).emitted = EmitFunction(f, checked)
<1>0. HasFields(f) /\ HasAdded(f)
  BY RecordHasFields, RecordHasAdded
<1> DEFINE g == WithCode(f, checked)
<1>1. IsRecord(g)
  BY Zenon DEF IsRecord, WithCode
<1>2. g.vals = f.vals /\ g.succs = f.succs /\ g.op = f.op /\ g.mach = f.mach
  BY <1>0, Zenon DEF HasFields, HasAdded, WithCode
<1>3. g.args = f.args /\ g.layout = f.layout /\ g.objs = f.objs
  BY <1>0, Zenon DEF HasFields, HasAdded, WithCode
<1>4. g.slots = f.slots /\ g.fr = f.fr /\ g.checked = checked
  BY <1>0, Zenon DEF HasFields, HasAdded, WithCode
<1>5. g.emitted = EmitFunction(f, checked)
  BY <1>0, Zenon DEF HasFields, HasAdded, WithCode
<1> QED BY <1>1, <1>2, <1>3, <1>4, <1>5 DEF Alike, Parts

\* A pass that leaves values and blocks alone leaves a function ready.
LEMMA AlikeIsReady ==
  ASSUME NEW source, NEW f, NEW g, Ready(source, f), Alike(g, f)
  PROVE  Ready(source, g)
BY DEF Ready, Alike, Parts, Sound, Covered

\* A function that is ready has a frame, whatever its slots are.
LEMMA ReadyHasFrame ==
  ASSUME NEW source, NEW f, Ready(source, f), NEW slots, IsSequence(slots)
  PROVE  HasFrame(f, slots)
<1>1. /\ IsSequence(f.op) /\ IsSequence(f.args) /\ Len(f.args) = Len(f.op)
      /\ \A v \in 1 .. Len(f.op) : Len(f.args[v]) \in Nat
  BY DEF Ready, Sound, AreValues
<1>2. IsSequence(f.objs) /\ \A i \in 1 .. Len(f.objs) : WellShaped(f.objs[i])
  BY DEF Ready, Sound, AreObjects
<1>3. DOMAIN f.op = 1 .. Len(f.op) /\ DOMAIN f.objs = 1 .. Len(f.objs)
  BY <1>1, <1>2, DomainOfSequence
<1> QED BY <1>1, <1>2, <1>3 DEF HasFrame

\* What is compiled, as the emitter sees it and as the program keeps it.
IsCompiled(source, f, p) ==
  /\ Ready(source, f) /\ IsSequence(p.slots) /\ f.fr.size \in Nat
  /\ Alike(p.f, f) /\ p.fr = f.fr
  /\ p.checked = ~SkipsCheck(f.fr.size, IsLeaf(f), FALSE)
  /\ LET e == EmitFunction(f, p.checked)
     IN  p.code = e.code /\ p.rows = e.rows /\ p.block = e.block /\ p.growPC = e.growPC

\* Every function the generator hands over compiles to one with a frame and with code.
LEMMA CompileFacts ==
  ASSUME NEW source, WellFormed(source), NEW all \in BOOLEAN
  PROVE  \E f : IsCompiled(source, f, Compile(source, all))
<1> DEFINE prepared == Prepared(source)
           analysed == WithLiveness(prepared)
           slotted  == WithSlots(analysed, all)
           framed   == WithFrame(slotted)
           coded    == Checked(framed)
           mapped   == WithMaps(coded)
<1>1. Compile(source, all) = Assembled(mapped)
  BY DEF Compile
<1>2. Ready(source, prepared)
  BY PreparedSound
<1> HIDE DEF prepared
<1>3. Alike(analysed, prepared)
  BY <1>2, WithLivenessFields DEF Ready, Sound
<1> HIDE DEF analysed
<1>4. Ready(source, analysed)
  BY <1>2, <1>3, AlikeIsReady
<1>5. Alike(slotted, analysed) /\ IsSequence(slotted.slots)
  BY <1>4, WithSlotsFields DEF Ready
<1> HIDE DEF slotted
<1>6. Ready(source, slotted)
  BY <1>4, <1>5, AlikeIsReady
<1>7. WellPlaced(slotted, LayoutFrame(slotted, slotted.slots))
  BY <1>5, <1>6, ReadyHasFrame, FrameWellPlaced
<1>8. LayoutFrame(slotted, slotted.slots).size \in Nat
  BY <1>5, <1>6, ReadyHasFrame, FrameSized DEF Sized
<1>9. Alike(framed, slotted) /\ framed.slots = slotted.slots /\ framed.fr = LayoutFrame(slotted, slotted.slots)
  BY <1>6, WithFrameFields DEF Ready, Sound
<1> HIDE DEF framed
<1>10. Ready(source, framed)
  BY <1>6, <1>9, AlikeIsReady
<1> DEFINE checked == ~SkipsCheck(framed.fr.size, IsLeaf(framed), FALSE)
<1>11. coded = WithCode(framed, checked)
  BY DEF Checked
<1> HIDE DEF coded, checked
<1>12. /\ Alike(coded, framed) /\ coded.slots = framed.slots /\ coded.fr = framed.fr
       /\ coded.checked = checked /\ coded.emitted = EmitFunction(framed, checked)
  BY <1>10, <1>11, WithCodeFields DEF Ready, Sound
<1>13. /\ Alike(mapped, coded) /\ mapped.slots = coded.slots /\ mapped.fr = coded.fr
       /\ mapped.checked = coded.checked /\ mapped.emitted = coded.emitted
  BY <1>12, WithMapsFields DEF Alike, Parts
<1> HIDE DEF mapped
<1> DEFINE p == Compile(source, all)
<1>14. /\ p.f = mapped /\ p.fr = mapped.fr /\ p.slots = mapped.slots /\ p.checked = mapped.checked
       /\ p.code = mapped.emitted.code /\ p.rows = mapped.emitted.rows
       /\ p.block = mapped.emitted.block /\ p.growPC = mapped.emitted.growPC
  BY <1>1 DEF Assembled
<1> HIDE DEF p
<1>15. Alike(mapped, framed)
  BY <1>12, <1>13 DEF Alike, Parts
<1>16. IsCompiled(source, framed, p)
  BY <1>5, <1>8, <1>9, <1>10, <1>12, <1>13, <1>14, <1>15 DEF IsCompiled, checked
<1> QED BY <1>16 DEF p

\* f with more objects is laid out as well.
LEMMA MoreObjects ==
  ASSUME NEW f, IsRecord(f), NEW slots, HasFrame(f, slots),
         NEW more, IsSequence(more), \A i \in 1 .. Len(more) : WellShaped(more[i])
  PROVE  LET g == [f EXCEPT !.objs = @ \o more] IN WellPlaced(g, LayoutFrame(g, slots))
<1> DEFINE objs == f.objs \o more
           g == [f EXCEPT !.objs = @ \o more]
<1>0. HasFields(f)
  BY RecordHasFields
<1>1. g.op = f.op /\ g.args = f.args /\ g.objs = objs
  BY <1>0, Zenon DEF HasFields
<1>2. IsJoined(objs, f.objs, more)
  BY Joined DEF HasFrame
<1> HIDE DEF g, objs
<1>3. /\ IsSequence(objs) /\ DOMAIN objs = 1 .. Len(objs) /\ Len(objs) = Len(f.objs) + Len(more)
      /\ Len(f.objs) \in Nat /\ Len(more) \in Nat /\ DOMAIN f.objs = 1 .. Len(f.objs)
  BY <1>2, DomainOfSequence DEF IsJoined, HasFrame
<1>4. ASSUME NEW i \in 1 .. Len(objs) PROVE WellShaped(objs[i])
  <2>1. CASE i <= Len(f.objs)
    <3>1. i \in 1 .. Len(f.objs)
      BY <1>3, <2>1
    <3> QED BY <1>2, <1>3, <3>1 DEF IsJoined, HasFrame
  <2>2. CASE i > Len(f.objs)
    <3> DEFINE j == i - Len(f.objs)
    <3>1. j \in 1 .. Len(more) /\ Len(f.objs) + j = i
      BY <1>3, <2>2
    <3> HIDE DEF j
    <3> QED BY <1>2, <3>1 DEF IsJoined
  <2> QED BY <1>3, <2>1, <2>2
<1>5. HasFrame(g, slots)
  BY <1>1, <1>3, <1>4 DEF HasFrame
<1>6. WellPlaced(g, LayoutFrame(g, slots))
  BY <1>5, FrameWellPlaced
<1> QED BY <1>6 DEF g

-----------------------------------------------------------------------------
(* Code and its table *)

\* The rows of a table of code that is n instructions long.
AreRows(rows, n) ==
  /\ IsSequence(rows) /\ Len(rows) > 0 /\ rows[1][1] = 0
  /\ \A i \in 1 .. Len(rows) : rows[i][1] \in 0 .. n

\* A new row counts from its program counter on.
LEMMA RowAdded ==
  ASSUME NEW n \in Nat, NEW rows, AreRows(rows, n), NEW d
  PROVE  /\ AreRows(Append(rows, <<n, d>>), n)
         /\ \A c \in Nat : Lookup(Append(rows, <<n, d>>), c) = IF c < n THEN Lookup(rows, c) ELSE d
<1> DEFINE m == Len(rows)
           more == Append(rows, <<n, d>>)
<1>1. IsAppended(more, rows, <<n, d>>)
  BY Appended DEF AreRows
<1> HIDE DEF more
<1>2. /\ m \in Nat /\ m > 0 /\ DOMAIN rows = 1 .. m /\ IsSequence(more) /\ DOMAIN more = 1 .. m + 1
      /\ Len(more) = m + 1 /\ more[m + 1] = <<n, d>> /\ \A i \in 1 .. m : more[i] = rows[i]
  BY <1>1, DomainOfSequence DEF IsAppended, AreRows
<1> HIDE DEF m
<1>3. \A i \in 1 .. m : rows[i][1] \in 0 .. n
  BY DEF AreRows, m
<1>4. \A i \in 1 .. m + 1 : more[i][1] = IF i = m + 1 THEN n ELSE rows[i][1]
  BY <1>2
<1>5. AreRows(more, n)
  <2>1. \A i \in 1 .. m + 1 : more[i][1] \in 0 .. n
    <3> TAKE i \in 1 .. m + 1
    <3>1. i = m + 1 \/ i \in 1 .. m
      BY <1>2
    <3>2. more[i][1] = n \/ more[i][1] \in 0 .. n
      BY <1>3, <1>4, <3>1
    <3>3. n \in 0 .. n
      OBVIOUS
    <3> QED BY <3>2, <3>3
  <2>2. more[1][1] = 0
    BY <1>2, <1>4 DEF AreRows
  <2> QED BY <1>2, <2>1, <2>2 DEF AreRows
<1>6. ASSUME NEW c \in Nat PROVE Lookup(more, c) = IF c < n THEN Lookup(rows, c) ELSE d
  <2> DEFINE before == {i \in DOMAIN rows : rows[i][1] <= c}
             later  == {i \in DOMAIN more : more[i][1] <= c}
             pcs    == {rows[i][1] : i \in before}
             pcsL   == {more[i][1] : i \in later}
             last   == {i \in before : rows[i][1] = Max(pcs)}
             lastL  == {i \in later : more[i][1] = Max(pcsL)}
  <2>1. Lookup(more, c) = more[Max(lastL)][2] /\ Lookup(rows, c) = rows[Max(last)][2]
    BY DEF Lookup
  <2>2. ASSUME c < n PROVE Lookup(more, c) = Lookup(rows, c)
    <3>1. later = before
      <4>1. \A i \in 1 .. m + 1 : i \in later <=> i \in 1 .. m /\ rows[i][1] <= c
        BY <1>2, <1>4, <2>2
      <4>2. later \subseteq 1 .. m + 1 /\ before \subseteq 1 .. m /\ \A i \in before : i \in 1 .. m + 1
        BY <1>2
      <4>3. \A i \in 1 .. m : i \in before <=> rows[i][1] <= c
        BY <1>2
      <4> QED BY <4>1, <4>2, <4>3
    <3>2. \A i \in before : i \in 1 .. m /\ more[i] = rows[i] /\ rows[i][1] \in 0 .. n
      BY <1>2, <1>3
    <3>3. pcsL = pcs
      BY <3>1, <3>2
    <3>4. lastL = last
      BY <3>1, <3>2, <3>3
    <3>5. 1 \in before
      BY <1>2 DEF AreRows
    <3>6. pcs \subseteq 0 .. n /\ pcs # {}
      BY <3>2, <3>5
    <3> HIDE DEF pcs
    <3>7. Max(pcs) \in pcs
      BY <3>6, MaxFacts
    <3>8. last # {}
      BY <3>7 DEF pcs
    <3>9. last \subseteq 0 .. m
      BY <1>2
    <3>10. last \subseteq before
      OBVIOUS
    <3> HIDE DEF last, lastL, before, later
    <3>11. Max(last) \in last
      BY <1>2, <3>8, <3>9, MaxFacts
    <3> QED BY <2>1, <3>2, <3>4, <3>10, <3>11
  <2>3. ASSUME ~(c < n) PROVE Lookup(more, c) = d
    <3>1. n <= c
      BY <2>3
    <3>2. later \subseteq 1 .. m + 1 /\ m + 1 \in later /\ more[m + 1][1] = n
      BY <1>2, <1>4, <3>1
    <3>3. \A i \in later : more[i][1] \in 0 .. n
      BY <1>3, <1>4, <3>2, <1>2
    <3>4. pcsL \subseteq 0 .. n /\ n \in pcsL
      BY <3>2, <3>3
    <3> HIDE DEF pcsL
    <3>5. Max(pcsL) \in pcsL /\ \A k \in pcsL : k <= Max(pcsL)
      BY <3>4, MaxFacts
    <3>6. Max(pcsL) = n
      <4> DEFINE top == Max(pcsL)
      <4>1. n <= top
        BY <3>4, <3>5
      <4>2. top \in 0 .. n
        BY <3>4, <3>5
      <4> HIDE DEF top
      <4>3. top = n
        BY <4>1, <4>2
      <4> QED BY <4>3 DEF top
    <3>7. m + 1 \in lastL /\ lastL \subseteq 1 .. m + 1
      BY <3>2, <3>6
    <3> HIDE DEF lastL, later
    <3>8. lastL \subseteq 0 .. m + 1 /\ lastL # {} /\ m + 1 \in Nat
      BY <1>2, <3>7
    <3>9. Max(lastL) \in lastL /\ \A k \in lastL : k <= Max(lastL)
      BY <3>8, MaxFacts
    <3>10. Max(lastL) = m + 1
      <4> DEFINE top == Max(lastL)
      <4>1. m + 1 <= top
        BY <3>7, <3>9
      <4>2. top \in 1 .. m + 1
        BY <3>7, <3>9
      <4> HIDE DEF top
      <4>3. top = m + 1
        BY <1>2, <4>1, <4>2
      <4> QED BY <4>3 DEF top
    <3> QED BY <1>2, <2>1, <3>10
  <2> QED BY <2>2, <2>3
<1> QED BY <1>5, <1>6 DEF more

\* At first there is one row.
LEMMA FirstRow ==
  /\ AreRows(<<<<0, 0>>>>, 0)
  /\ \A c \in Nat : Lookup(<<<<0, 0>>>>, c) = 0
<1> DEFINE rows == <<<<0, 0>>>>
<1>1. IsSequence(rows) /\ Len(rows) = 1 /\ rows[1] = <<0, 0>> /\ DOMAIN rows = 1 .. 1
  BY DEF IsSequence
<1>2. rows[1][1] = 0 /\ rows[1][2] = 0
  BY <1>1
<1> HIDE DEF rows
<1>3. AreRows(rows, 0)
  BY <1>1, <1>2 DEF AreRows
<1>4. ASSUME NEW c \in Nat PROVE Lookup(rows, c) = 0
  <2> DEFINE before == {i \in DOMAIN rows : rows[i][1] <= c}
             pcs    == {rows[i][1] : i \in before}
             last   == {i \in before : rows[i][1] = Max(pcs)}
  <2>1. Lookup(rows, c) = rows[Max(last)][2]
    BY DEF Lookup
  <2>2. before = {1}
    BY <1>1, <1>2
  <2>3. pcs = {0}
    BY <1>2, <2>2
  <2>4. Max({0}) = 0
    <3>1. {0} \subseteq 0 .. 0 /\ {0} # {} /\ 0 \in Nat
      OBVIOUS
    <3>2. Max({0}) \in {0}
      BY <3>1, MaxFacts
    <3> QED BY <3>2
  <2>5. last = {1}
    BY <1>2, <2>2, <2>3, <2>4
  <2>6. Max({1}) = 1
    <3>1. {1} \subseteq 0 .. 1 /\ {1} # {} /\ 1 \in Nat
      OBVIOUS
    <3>2. Max({1}) \in {1}
      BY <3>1, MaxFacts
    <3> QED BY <3>2
  <2> QED BY <1>2, <2>1, <2>5, <2>6
<1> QED BY <1>3, <1>4 DEF rows

-----------------------------------------------------------------------------
(* Code under construction *)

\* What the code goes on after, with the stack pointer as it was, and what it
\* does not go on after.
Onward == {"zero", "args", "loadarg", "load", "flag", "store", "call", "results", "copies", "save", "more", "reload"}
\* The code goes on elsewhere, or not at all.
Away   == {"jump", "ret", "again", "nop"}

\* The instruction i at c of a function with n blocks and a frame of size bytes
\* moves the stack pointer the way the table says: d before it and e after it.
Flows(i, c, d, e, n, size, checked) ==
  \/ i.k \in Onward /\ e = d
  \/ i.k = "check" /\ checked /\ c = 0 /\ d = 0 /\ e = 0
  \/ i.k = "push" /\ c = (IF checked THEN 1 ELSE 0) /\ d = 0 /\ e = size
  \/ i.k = "pop" /\ e = 0
  \/ i.k = "branch" /\ i.to \in 1 .. n /\ d = size /\ e = size
  \/ i.k = "jump" /\ i.to \in 1 .. n /\ d = size
  \/ i.k \in {"ret", "nop"}
  \/ i.k = "again" /\ d = 0

\* The fields of the emitter that emission changes.
IsState(st) == /\ "code" \in DOMAIN st /\ "rows" \in DOMAIN st /\ "delta" \in DOMAIN st /\ "block" \in DOMAIN st
               /\ "start" \in DOMAIN st /\ "unsafe" \in DOMAIN st /\ "entered" \in DOMAIN st
               /\ "growPC" \in DOMAIN st

\* The code so far and its table.
Tabled(st, n, size, checked) ==
  /\ IsSequence(st.code) /\ AreRows(st.rows, Len(st.code))
  /\ Lookup(st.rows, 0) = 0
  /\ \A c \in Nat : c >= Len(st.code) => Lookup(st.rows, c) = st.delta
  /\ \A c \in 0 .. Len(st.code) - 1 :
       Flows(st.code[c + 1], c, Lookup(st.rows, c), Lookup(st.rows, c + 1), n, size, checked)

\* The entry of a block is behind the prologue, and the frame is there.
Entered(st, b, size, checked) ==
  /\ st.block[b] \in 0 .. Len(st.code) /\ Lookup(st.rows, st.block[b]) = size
  /\ checked => st.block[b] >= 2

\* Code with its table up to now, and with the blocks entered up to now.
Built(st, n, size, checked) ==
  /\ IsState(st) /\ Tabled(st, n, size, checked)
  /\ Len(st.code) > 0
  /\ checked => Len(st.code) >= 2 /\ st.code[1].k = "check"
  /\ DOMAIN st.block = 1 .. n
  /\ \A b \in 1 .. n : st.block[b] = -1 \/ Entered(st, b, size, checked)

\* The code does not go on here.
Closed(st) == st.code[Len(st.code)].k \in Away /\ \A b \in DOMAIN st.block : st.block[b] < Len(st.code)

\* u is st but for what the code does not read.
SameCode(u, st) == /\ IsState(u) /\ u.code = st.code /\ u.rows = st.rows /\ u.delta = st.delta
                   /\ u.block = st.block

\* What the emitter notes beside the code does not matter here.
LEMMA SameCodeBuilt ==
  ASSUME NEW n, NEW size, NEW checked, NEW st, NEW u, Built(st, n, size, checked), SameCode(u, st)
  PROVE  Built(u, n, size, checked)
BY DEF Built, SameCode, Tabled, Entered

\* An instruction, as the emitter writes it.
Instruction(k, v, to, live) == [k |-> k, v |-> v, to |-> to, live |-> live]

\* What one instruction adds, ...
LEMMA WordFields ==
  ASSUME NEW st, IsState(st), NEW k, NEW v, NEW to, NEW live
  PROVE  LET u == Word(st, k, v, to, live)
         IN  /\ IsState(u) /\ u.code = Append(st.code, Instruction(k, v, to, live))
             /\ u.rows = st.rows /\ u.delta = st.delta /\ u.block = st.block
<1> DEFINE u == Word(st, k, v, to, live)
<1>1. IsState(u)
  BY Zenon DEF IsState, Word
<1>2. u.code = Append(st.code, Instruction(k, v, to, live)) /\ u.rows = st.rows
  BY Zenon DEF IsState, Word, Instruction
<1>3. u.delta = st.delta /\ u.block = st.block
  BY Zenon DEF IsState, Word
<1> QED BY <1>1, <1>2, <1>3

\* ... what a change of the stack pointer adds, ...
LEMMA MarkSPFields ==
  ASSUME NEW st, IsState(st), NEW delta
  PROVE  LET u == MarkSP(st, delta)
         IN  /\ IsState(u) /\ u.code = st.code /\ u.rows = Append(st.rows, <<Len(st.code), delta>>)
             /\ u.delta = delta /\ u.block = st.block
<1> DEFINE u == MarkSP(st, delta)
           row == <<PC(st), delta>>
<1>1. IsState(u)
  BY Zenon DEF IsState, MarkSP
<1>2. u.code = st.code /\ u.block = st.block
  BY Zenon DEF IsState, MarkSP
<1>3. u.rows = Append(st.rows, row) /\ u.delta = delta
  BY Zenon DEF IsState, MarkSP
<1> QED BY <1>1, <1>2, <1>3 DEF PC

\* ... and that a span without preemption adds neither.
LEMMA UnsafeFields ==
  ASSUME NEW st, IsState(st), NEW lo
  PROVE  SameCode(Unsafe(st, lo), st)
<1> DEFINE u == Unsafe(st, lo)
<1>1. IsState(u)
  BY Zenon DEF IsState, Unsafe
<1>2. u.code = st.code /\ u.rows = st.rows
  BY Zenon DEF IsState, Unsafe
<1>3. u.delta = st.delta /\ u.block = st.block
  BY Zenon DEF IsState, Unsafe
<1> QED BY <1>1, <1>2, <1>3 DEF SameCode

\* An instruction is added; the frame stays as the table has it.
LEMMA WordTabled ==
  ASSUME NEW st, NEW n, NEW size, NEW checked, IsState(st), Tabled(st, n, size, checked),
         NEW k, NEW v, NEW to, NEW live,
         Flows(Instruction(k, v, to, live), Len(st.code), st.delta, st.delta, n, size, checked)
  PROVE  LET u == Word(st, k, v, to, live)
         IN  /\ IsState(u) /\ Tabled(u, n, size, checked)
             /\ Len(st.code) \in Nat /\ Len(u.code) = Len(st.code) + 1 /\ u.delta = st.delta /\ u.block = st.block
             /\ u.code[Len(u.code)] = Instruction(k, v, to, live)
             /\ u.rows = st.rows /\ \A i \in 1 .. Len(st.code) : u.code[i] = st.code[i]
<1> DEFINE u == Word(st, k, v, to, live)
           i == Instruction(k, v, to, live)
           m == Len(st.code)
<1>1. /\ IsState(u) /\ u.code = Append(st.code, i) /\ u.rows = st.rows /\ u.delta = st.delta
      /\ u.block = st.block
  BY WordFields
<1> HIDE DEF u, i
<1>2. IsAppended(u.code, st.code, i)
  BY <1>1, Appended DEF Tabled
<1>3. /\ m \in Nat /\ Len(u.code) = m + 1 /\ IsSequence(u.code)
      /\ u.code[m + 1] = i /\ \A j \in 1 .. m : u.code[j] = st.code[j]
  BY <1>2 DEF IsAppended, Tabled, IsSequence
<1> HIDE DEF m
<1>4. AreRows(st.rows, m) /\ \A c \in Nat : c >= m => Lookup(st.rows, c) = st.delta
  BY DEF Tabled, m
<1>5. AreRows(u.rows, m + 1)
  <2>1. \A j \in 1 .. Len(st.rows) : st.rows[j][1] \in 0 .. m + 1
    BY <1>3, <1>4 DEF AreRows
  <2> QED BY <1>1, <1>4, <2>1 DEF AreRows
<1>6. \A c \in Nat : c >= m + 1 => Lookup(u.rows, c) = u.delta
  BY <1>1, <1>3, <1>4
<1>7. ASSUME NEW c \in 0 .. m
      PROVE  Flows(u.code[c + 1], c, Lookup(u.rows, c), Lookup(u.rows, c + 1), n, size, checked)
  <2>1. CASE c = m
    <3>1. Lookup(st.rows, c) = st.delta /\ Lookup(st.rows, c + 1) = st.delta
      BY <1>3, <1>4, <2>1
    <3>2. Flows(i, m, st.delta, st.delta, n, size, checked)
      BY DEF i, m
    <3>3. u.code[c + 1] = i /\ u.rows = st.rows
      BY <1>1, <1>3, <2>1
    <3> QED BY <2>1, <3>1, <3>2, <3>3
  <2>2. CASE c # m
    <3>1. c \in 0 .. m - 1 /\ c + 1 \in 1 .. m
      BY <1>3, <2>2
    <3>2. Flows(st.code[c + 1], c, Lookup(st.rows, c), Lookup(st.rows, c + 1), n, size, checked)
      BY <3>1 DEF Tabled, m
    <3> QED BY <1>1, <1>3, <3>1, <3>2
  <2> QED BY <2>1, <2>2
<1>8. Tabled(u, n, size, checked)
  <2>1. Lookup(u.rows, 0) = 0
    BY <1>1 DEF Tabled
  <2>2. \A c \in 0 .. Len(u.code) - 1 : c \in 0 .. m
    BY <1>3
  <2> QED BY <1>3, <1>5, <1>6, <1>7, <2>1, <2>2 DEF Tabled
<1> QED BY <1>1, <1>3, <1>8 DEF u, i, m

\* An instruction is added, and the stack pointer is somewhere else after it.
LEMMA MoveTabled ==
  ASSUME NEW st, NEW n, NEW size, NEW checked, IsState(st), Tabled(st, n, size, checked),
         NEW k, NEW v, NEW to, NEW live, NEW delta,
         Flows(Instruction(k, v, to, live), Len(st.code), st.delta, delta, n, size, checked)
  PROVE  LET u == MarkSP(Word(st, k, v, to, live), delta)
         IN  /\ IsState(u) /\ Tabled(u, n, size, checked)
             /\ Len(st.code) \in Nat /\ Len(u.code) = Len(st.code) + 1 /\ u.delta = delta /\ u.block = st.block
             /\ u.code[Len(u.code)] = Instruction(k, v, to, live)
             /\ \A i \in 1 .. Len(st.code) : u.code[i] = st.code[i]
             /\ \A c \in 0 .. Len(st.code) : Lookup(u.rows, c) = Lookup(st.rows, c)
<1> DEFINE w == Word(st, k, v, to, live)
           u == MarkSP(w, delta)
           i == Instruction(k, v, to, live)
           m == Len(st.code)
<1>1. /\ IsState(w) /\ w.code = Append(st.code, i) /\ w.rows = st.rows /\ w.delta = st.delta
      /\ w.block = st.block
  BY WordFields
<1> HIDE DEF w
<1>2. /\ IsState(u) /\ u.code = w.code /\ u.rows = Append(w.rows, <<Len(w.code), delta>>)
      /\ u.delta = delta /\ u.block = w.block
  BY <1>1, MarkSPFields
<1> HIDE DEF u, i
<1>3. IsAppended(u.code, st.code, i)
  BY <1>1, <1>2, Appended DEF Tabled
<1>4. /\ m \in Nat /\ Len(u.code) = m + 1 /\ IsSequence(u.code)
      /\ u.code[m + 1] = i /\ \A j \in 1 .. m : u.code[j] = st.code[j]
  BY <1>3 DEF IsAppended, Tabled, IsSequence
<1> HIDE DEF m
<1>5. AreRows(st.rows, m) /\ \A c \in Nat : c >= m => Lookup(st.rows, c) = st.delta
  BY DEF Tabled, m
<1>6. AreRows(st.rows, m + 1) /\ m + 1 \in Nat
  <2>1. \A j \in 1 .. Len(st.rows) : st.rows[j][1] \in 0 .. m + 1
    BY <1>4, <1>5 DEF AreRows
  <2> QED BY <1>4, <1>5, <2>1 DEF AreRows
<1>7. u.rows = Append(st.rows, <<m + 1, delta>>)
  BY <1>1, <1>2, <1>4
<1>8. /\ AreRows(u.rows, m + 1)
      /\ \A c \in Nat : Lookup(u.rows, c) = IF c < m + 1 THEN Lookup(st.rows, c) ELSE delta
  BY <1>6, <1>7, RowAdded
<1>9. ASSUME NEW c \in 0 .. m
      PROVE  Flows(u.code[c + 1], c, Lookup(u.rows, c), Lookup(u.rows, c + 1), n, size, checked)
  <2>0. c \in Nat /\ c + 1 \in Nat /\ c < m + 1
    BY <1>4
  <2>1. CASE c = m
    <3>1. Lookup(u.rows, c) = st.delta /\ Lookup(u.rows, c + 1) = delta
      BY <1>4, <1>5, <1>8, <2>0, <2>1
    <3>2. Flows(i, m, st.delta, delta, n, size, checked)
      BY DEF i, m
    <3>3. u.code[c + 1] = i
      BY <1>4, <2>1
    <3> QED BY <2>1, <3>1, <3>2, <3>3
  <2>2. CASE c # m
    <3>1. c \in 0 .. m - 1 /\ c + 1 \in 1 .. m /\ c + 1 < m + 1
      BY <1>4, <2>2
    <3>2. Flows(st.code[c + 1], c, Lookup(st.rows, c), Lookup(st.rows, c + 1), n, size, checked)
      BY <3>1 DEF Tabled, m
    <3>3. Lookup(u.rows, c) = Lookup(st.rows, c) /\ Lookup(u.rows, c + 1) = Lookup(st.rows, c + 1)
      BY <1>8, <2>0, <3>1
    <3>4. u.code[c + 1] = st.code[c + 1]
      BY <1>4, <3>1
    <3> QED BY <3>2, <3>3, <3>4
  <2> QED BY <2>1, <2>2
<1>10. \A c \in 0 .. m : Lookup(u.rows, c) = Lookup(st.rows, c)
  <2> TAKE c \in 0 .. m
  <2>1. c \in Nat /\ c < m + 1
    BY <1>4
  <2> QED BY <1>8, <2>1
<1>11. Tabled(u, n, size, checked)
  <2>1. Lookup(u.rows, 0) = 0
    <3>1. 0 \in 0 .. m
      BY <1>4
    <3> QED BY <1>10, <3>1 DEF Tabled
  <2>2. \A c \in 0 .. Len(u.code) - 1 : c \in 0 .. m
    BY <1>4
  <2>3. \A c \in Nat : c >= Len(u.code) => Lookup(u.rows, c) = u.delta
    <3> TAKE c \in Nat
    <3> HAVE c >= Len(u.code)
    <3>1. ~(c < m + 1)
      BY <1>4
    <3> QED BY <1>2, <1>8, <3>1
  <2> QED BY <1>4, <1>8, <1>9, <2>1, <2>2, <2>3 DEF Tabled
<1> QED BY <1>1, <1>2, <1>4, <1>10, <1>11 DEF u, i, m, w

\* The stack pointer is somewhere else where the code did not go on.
LEMMA MarkSPTabled ==
  ASSUME NEW st, NEW n, NEW size, NEW checked, IsState(st), Tabled(st, n, size, checked),
         Len(st.code) > 0, st.code[Len(st.code)].k \in Away, NEW delta
  PROVE  LET u == MarkSP(st, delta)
         IN  /\ IsState(u) /\ Tabled(u, n, size, checked) /\ Len(st.code) \in Nat
             /\ u.code = st.code /\ u.delta = delta /\ u.block = st.block
             /\ \A c \in Nat : Lookup(u.rows, c) = IF c < Len(st.code) THEN Lookup(st.rows, c) ELSE delta
<1> DEFINE u == MarkSP(st, delta)
           m == Len(st.code)
<1>1. /\ IsState(u) /\ u.code = st.code /\ u.rows = Append(st.rows, <<m, delta>>)
      /\ u.delta = delta /\ u.block = st.block
  BY MarkSPFields
<1> HIDE DEF u
<1>2. m \in Nat /\ m > 0
  BY DEF Tabled, IsSequence
<1>3. /\ AreRows(u.rows, m)
      /\ \A c \in Nat : Lookup(u.rows, c) = IF c < m THEN Lookup(st.rows, c) ELSE delta
  BY <1>1, <1>2, RowAdded DEF Tabled
<1>4. \A c \in Nat : c >= m => Lookup(u.rows, c) = delta
  BY <1>2, <1>3
<1>5. ASSUME NEW c \in 0 .. m - 1
      PROVE  Flows(u.code[c + 1], c, Lookup(u.rows, c), Lookup(u.rows, c + 1), n, size, checked)
  <2>0. c \in Nat /\ c + 1 \in Nat /\ c < m
    BY <1>2
  <2>1. Flows(st.code[c + 1], c, Lookup(st.rows, c), Lookup(st.rows, c + 1), n, size, checked)
    BY <1>2 DEF Tabled
  <2>2. Lookup(u.rows, c) = Lookup(st.rows, c)
    BY <1>3, <2>0
  <2>3. CASE c + 1 < m
    <3>1. Lookup(u.rows, c + 1) = Lookup(st.rows, c + 1)
      BY <1>3, <2>0, <2>3
    <3> QED BY <1>1, <2>1, <2>2, <3>1
  <2>4. CASE c + 1 = m
    <3>1. st.code[c + 1].k \in Away
      BY <2>4
    <3> DEFINE i == st.code[c + 1]
               d == Lookup(st.rows, c)
    <3>2. Flows(i, c, d, Lookup(u.rows, c + 1), n, size, checked)
      BY <2>1, <3>1 DEF Flows, Away, Onward
    <3> QED BY <1>1, <2>2, <3>2
  <2> QED BY <1>2, <2>0, <2>3, <2>4
<1>6. Tabled(u, n, size, checked)
  <2>1. Lookup(u.rows, 0) = 0
    BY <1>2, <1>3 DEF Tabled
  <2> QED BY <1>1, <1>3, <1>4, <1>5, <2>1 DEF Tabled
<1> QED BY <1>1, <1>2, <1>3, <1>6 DEF u

\* What built code has.
LEMMA BuiltFacts ==
  ASSUME NEW st, NEW n, NEW size, NEW checked, Built(st, n, size, checked)
  PROVE  /\ IsState(st) /\ Tabled(st, n, size, checked) /\ Len(st.code) \in Nat /\ DOMAIN st.block = 1 .. n
         /\ \A b \in 1 .. n : st.block[b] = -1 \/ st.block[b] \in 0 .. Len(st.code)
         /\ \A b \in 1 .. n : st.block[b] <= Len(st.code)
BY DEF Built, Tabled, IsSequence, Entered

\* Built code of which the code of st is the beginning.
Grown(u, st, n, size, checked) ==
  /\ Built(u, n, size, checked) /\ u.block = st.block
  /\ Len(u.code) \in Nat /\ Len(st.code) \in Nat /\ Len(u.code) >= Len(st.code)

\* Code has grown from itself.
LEMMA NotGrown ==
  ASSUME NEW st, NEW n, NEW size, NEW checked, Built(st, n, size, checked)
  PROVE  Grown(st, st, n, size, checked)
BY BuiltFacts DEF Grown

\* What has grown twice has grown.
LEMMA GrownTwice ==
  ASSUME NEW s, NEW t, NEW u, NEW n, NEW size, NEW checked,
         Grown(t, s, n, size, checked), Grown(u, t, n, size, checked)
  PROVE  Grown(u, s, n, size, checked)
BY DEF Grown

\* It has grown whatever the emitter notes beside it.
LEMMA SameCodeGrown ==
  ASSUME NEW st, NEW t, NEW u, NEW n, NEW size, NEW checked, Grown(t, st, n, size, checked), SameCode(u, t)
  PROVE  Grown(u, st, n, size, checked) /\ u.delta = t.delta /\ (Closed(t) => Closed(u))
BY SameCodeBuilt DEF Grown, SameCode, Closed

\* An instruction that flows leaves the code built, with the stack pointer where it was.
LEMMA WordBuilt ==
  ASSUME NEW st, NEW n, NEW size, NEW checked, Built(st, n, size, checked),
         NEW k, NEW v, NEW to, NEW live,
         Flows(Instruction(k, v, to, live), Len(st.code), st.delta, st.delta, n, size, checked)
  PROVE  LET u == Word(st, k, v, to, live)
         IN  Grown(u, st, n, size, checked) /\ u.delta = st.delta /\ (k \in Away => Closed(u))
<1> DEFINE u == Word(st, k, v, to, live)
           m == Len(st.code)
<1>1. /\ IsState(u) /\ Tabled(u, n, size, checked)
      /\ Len(st.code) \in Nat /\ Len(u.code) = Len(st.code) + 1 /\ u.delta = st.delta /\ u.block = st.block
      /\ u.code[Len(u.code)] = Instruction(k, v, to, live)
      /\ u.rows = st.rows /\ \A i \in 1 .. Len(st.code) : u.code[i] = st.code[i]
  BY WordTabled DEF Built
<1> HIDE DEF u
<1>2. m > 0 /\ DOMAIN st.block = 1 .. n /\ (checked => m >= 2 /\ st.code[1].k = "check")
  BY DEF Built
<1>3. \A b \in 1 .. n : u.block[b] = -1 \/ Entered(u, b, size, checked)
  <2> TAKE b \in 1 .. n
  <2>1. st.block[b] = -1 \/ Entered(st, b, size, checked)
    BY DEF Built
  <2>2. \A x \in 0 .. m : x \in 0 .. m + 1
    BY <1>1
  <2> QED BY <1>1, <2>1, <2>2 DEF Entered
<1>4. Len(u.code) > 0 /\ (checked => Len(u.code) >= 2 /\ u.code[1].k = "check")
  <2>1. 1 \in 1 .. m
    BY <1>1, <1>2
  <2> QED BY <1>1, <1>2, <2>1
<1>5. Built(u, n, size, checked)
  BY <1>1, <1>2, <1>3, <1>4 DEF Built
<1>6. Grown(u, st, n, size, checked)
  BY <1>1, <1>5 DEF Grown
<1>7. ASSUME k \in Away PROVE Closed(u)
  <2>1. u.code[Len(u.code)].k = k
    BY <1>1 DEF Instruction
  <2>2. \A b \in 1 .. n : u.block[b] < Len(u.code)
    BY <1>1, BuiltFacts
  <2>3. DOMAIN u.block = 1 .. n
    BY <1>1, <1>2
  <2> QED BY <1>7, <2>1, <2>2, <2>3 DEF Closed
<1> QED BY <1>1, <1>6, <1>7 DEF u

\* u is st with the instruction i, which does not move the stack pointer.
Follows(u, st, i, n, size, checked) ==
  /\ Grown(u, st, n, size, checked) /\ u.delta = st.delta /\ u.rows = st.rows
  /\ Len(u.code) = Len(st.code) + 1 /\ u.code[Len(u.code)] = i
  /\ \A j \in 1 .. Len(st.code) : u.code[j] = st.code[j]
  /\ i.k \in Away => Closed(u)

\* It is the last instruction then.
LEMMA WordFollows ==
  ASSUME NEW st, NEW n, NEW size, NEW checked, Built(st, n, size, checked),
         NEW k, NEW v, NEW to, NEW live,
         Flows(Instruction(k, v, to, live), Len(st.code), st.delta, st.delta, n, size, checked)
  PROVE  Follows(Word(st, k, v, to, live), st, Instruction(k, v, to, live), n, size, checked)
<1> DEFINE u == Word(st, k, v, to, live)
           i == Instruction(k, v, to, live)
<1>1. Grown(u, st, n, size, checked) /\ u.delta = st.delta /\ (k \in Away => Closed(u))
  BY WordBuilt
<1>2. /\ Len(u.code) = Len(st.code) + 1 /\ u.code[Len(u.code)] = i
      /\ u.rows = st.rows /\ \A j \in 1 .. Len(st.code) : u.code[j] = st.code[j]
  BY WordTabled DEF Built
<1>3. i.k = k
  BY DEF Instruction
<1> HIDE DEF u, i
<1>4. Follows(u, st, i, n, size, checked)
  BY <1>1, <1>2, <1>3 DEF Follows
<1> QED BY <1>4 DEF u, i

\* An instruction that moves the stack pointer, with its row of the table, leaves the code built.
LEMMA MoveBuilt ==
  ASSUME NEW st, NEW n, NEW size, NEW checked, Built(st, n, size, checked),
         NEW k, NEW v, NEW to, NEW live, NEW delta,
         Flows(Instruction(k, v, to, live), Len(st.code), st.delta, delta, n, size, checked)
  PROVE  LET u == MarkSP(Word(st, k, v, to, live), delta)
         IN  Grown(u, st, n, size, checked) /\ u.delta = delta
<1> DEFINE u == MarkSP(Word(st, k, v, to, live), delta)
           m == Len(st.code)
<1>1. /\ IsState(u) /\ Tabled(u, n, size, checked)
      /\ Len(st.code) \in Nat /\ Len(u.code) = Len(st.code) + 1 /\ u.delta = delta /\ u.block = st.block
      /\ \A i \in 1 .. Len(st.code) : u.code[i] = st.code[i]
      /\ \A c \in 0 .. Len(st.code) : Lookup(u.rows, c) = Lookup(st.rows, c)
  BY MoveTabled DEF Built
<1> HIDE DEF u
<1>2. m > 0 /\ DOMAIN st.block = 1 .. n /\ (checked => m >= 2 /\ st.code[1].k = "check")
  BY DEF Built
<1>3. \A b \in 1 .. n : u.block[b] = -1 \/ Entered(u, b, size, checked)
  <2> TAKE b \in 1 .. n
  <2>1. st.block[b] = -1 \/ Entered(st, b, size, checked)
    BY DEF Built
  <2>2. \A x \in 0 .. m : x \in 0 .. m + 1
    BY <1>1
  <2> QED BY <1>1, <2>1, <2>2 DEF Entered
<1>4. Len(u.code) > 0 /\ (checked => Len(u.code) >= 2 /\ u.code[1].k = "check")
  <2>1. 1 \in 1 .. m
    BY <1>1, <1>2
  <2> QED BY <1>1, <1>2, <2>1
<1>5. Built(u, n, size, checked)
  BY <1>1, <1>2, <1>3, <1>4 DEF Built
<1> QED BY <1>1, <1>5 DEF Grown, u

\* The epilogue leaves the code built, and ends it.
LEMMA EpilogueBuilt ==
  ASSUME NEW st, NEW n, NEW size \in Nat, NEW checked, Built(st, n, size, checked), st.delta = size,
         NEW v, NEW live
  PROVE  Grown(Epilogue(st, v, live, size), st, n, size, checked) /\ Closed(Epilogue(st, v, live, size))
<1>1. CASE size = 0
  <2> DEFINE u == Word(st, "ret", v, NoId, live)
  <2>1. Epilogue(st, v, live, size) = u
    BY <1>1 DEF Epilogue
  <2>2. Flows(Instruction("ret", v, NoId, live), Len(st.code), st.delta, st.delta, n, size, checked)
    BY DEF Flows, Instruction
  <2>3. "ret" \in Away
    BY DEF Away
  <2> QED BY <2>1, <2>2, <2>3, WordBuilt
<1>2. CASE size # 0
  <2> DEFINE pop == MarkSP(Word(st, "pop", v, NoId, live), 0)
             ret == Word(pop, "ret", v, NoId, {})
             u   == Unsafe(ret, PC(st))
  <2>1. Epilogue(st, v, live, size) = u
    BY <1>2 DEF Epilogue
  <2>2. Flows(Instruction("pop", v, NoId, live), Len(st.code), st.delta, 0, n, size, checked)
    BY DEF Flows, Instruction
  <2>3. Grown(pop, st, n, size, checked)
    BY <2>2, MoveBuilt
  <2> HIDE DEF pop
  <2>4. Flows(Instruction("ret", v, NoId, {}), Len(pop.code), pop.delta, pop.delta, n, size, checked)
    BY DEF Flows, Instruction
  <2>5. "ret" \in Away
    BY DEF Away
  <2>6. Grown(ret, pop, n, size, checked) /\ Closed(ret)
    BY <2>3, <2>4, <2>5, WordBuilt DEF Grown
  <2> HIDE DEF ret
  <2>7. Grown(ret, st, n, size, checked)
    BY <2>3, <2>6, GrownTwice
  <2>8. SameCode(u, ret)
    BY <2>6, UnsafeFields DEF Grown, Built
  <2> HIDE DEF u
  <2> QED BY <2>1, <2>6, <2>7, <2>8, SameCodeGrown
<1> QED BY <1>1, <1>2

\* The entry of a block, with the frame as every block has it.
LEMMA EnterBlockBuilt ==
  ASSUME NEW st, NEW n \in Nat, NEW size \in Nat, NEW checked, Built(st, n, size, checked),
         st.delta = size \/ Closed(st), NEW b \in 1 .. n
  PROVE  LET u == EnterBlock(st, b, size)
         IN  /\ Built(u, n, size, checked) /\ u.delta = size /\ Len(u.code) = Len(st.code)
             /\ u.block[b] # -1 /\ \A a \in 1 .. n : st.block[a] # -1 => u.block[a] # -1
<1> DEFINE at == [st EXCEPT !.block[b] = PC(st)]
           u  == EnterBlock(st, b, size)
           m  == Len(st.code)
<1>0. u = IF st.delta # size THEN MarkSP(at, size) ELSE at
  BY DEF EnterBlock
<1>1. /\ IsState(st) /\ Tabled(st, n, size, checked) /\ m \in Nat /\ DOMAIN st.block = 1 .. n
      /\ \A a \in 1 .. n : st.block[a] = -1 \/ st.block[a] \in 0 .. m
  BY BuiltFacts
<1>2. IsState(at) /\ at.code = st.code /\ at.rows = st.rows /\ at.delta = st.delta
  <2>1. IsState(at)
    BY <1>1, Zenon DEF IsState
  <2>2. at.code = st.code /\ at.rows = st.rows
    BY <1>1, Zenon DEF IsState
  <2>3. at.delta = st.delta
    BY <1>1, Zenon DEF IsState
  <2> QED BY <2>1, <2>2, <2>3
<1>3. at.block = [st.block EXCEPT ![b] = m]
  BY <1>1, Zenon DEF IsState, PC
<1> HIDE DEF at, u
<1>4. DOMAIN at.block = 1 .. n /\ \A a \in 1 .. n : at.block[a] = IF a = b THEN m ELSE st.block[a]
  BY <1>1, <1>3
<1>5. \A a \in 1 .. n : at.block[a] # -1 => at.block[a] \in 0 .. m
  BY <1>1, <1>4
<1>6. at.block[b] # -1 /\ \A a \in 1 .. n : st.block[a] # -1 => at.block[a] # -1
  BY <1>1, <1>4
<1>7. \A a \in 1 .. n : at.block[a] # -1 /\ checked => at.block[a] >= 2
  <2> TAKE a \in 1 .. n
  <2>1. checked => m >= 2
    BY DEF Built
  <2>2. st.block[a] = -1 \/ (checked => st.block[a] >= 2)
    BY DEF Built, Entered
  <2> QED BY <1>4, <2>1, <2>2
<1>8. m > 0 /\ (checked => m >= 2 /\ st.code[1].k = "check")
  BY DEF Built
<1>9. CASE st.delta = size
  <2>1. u = at
    BY <1>0, <1>9
  <2>2. Tabled(at, n, size, checked)
    BY <1>1, <1>2 DEF Tabled
  <2>3. Lookup(at.rows, m) = size
    BY <1>1, <1>2, <1>9 DEF Tabled
  <2>4. \A a \in 1 .. n : at.block[a] = -1 \/ Entered(at, a, size, checked)
    <3> TAKE a \in 1 .. n
    <3>1. a # b => st.block[a] = -1 \/ Lookup(st.rows, st.block[a]) = size
      BY DEF Built, Entered
    <3>2. at.block[a] = -1 \/ Lookup(at.rows, at.block[a]) = size
      BY <1>2, <1>4, <2>3, <3>1
    <3> QED BY <1>2, <1>5, <1>7, <3>2 DEF Entered
  <2>5. Built(at, n, size, checked)
    BY <1>2, <1>4, <1>8, <2>2, <2>4 DEF Built
  <2> QED BY <1>2, <1>6, <1>9, <2>1, <2>5 DEF u
<1>10. CASE st.delta # size
  <2>1. u = MarkSP(at, size) /\ Closed(st)
    BY <1>0, <1>10
  <2>2. Tabled(at, n, size, checked)
    BY <1>1, <1>2 DEF Tabled
  <2>3. Len(at.code) > 0 /\ at.code[Len(at.code)].k \in Away
    BY <1>2, <1>8, <2>1 DEF Closed
  <2>4. /\ IsState(u) /\ Tabled(u, n, size, checked)
        /\ u.code = st.code /\ u.delta = size /\ u.block = at.block
        /\ \A c \in Nat : Lookup(u.rows, c) = IF c < m THEN Lookup(st.rows, c) ELSE size
    <3> DEFINE w == MarkSP(at, size)
    <3>1. /\ IsState(w) /\ Tabled(w, n, size, checked)
          /\ w.code = at.code /\ w.delta = size /\ w.block = at.block
          /\ \A c \in Nat : Lookup(w.rows, c) = IF c < Len(at.code) THEN Lookup(at.rows, c) ELSE size
      BY <1>2, <2>2, <2>3, MarkSPTabled
    <3> HIDE DEF w
    <3>2. u = w
      BY <2>1 DEF w
    <3> QED BY <1>2, <3>1, <3>2
  <2>5. \A a \in 1 .. n : u.block[a] = -1 \/ Entered(u, a, size, checked)
    <3> TAKE a \in 1 .. n
    <3>1. a # b => st.block[a] < m
      BY <1>1, <2>1 DEF Closed
    <3>2. a # b => st.block[a] = -1 \/ Lookup(st.rows, st.block[a]) = size
      BY DEF Built, Entered
    <3>3. u.block[a] = -1 \/ Lookup(u.rows, u.block[a]) = size
      <4>1. CASE a = b
        <5>1. Lookup(u.rows, m) = size
          BY <1>1, <2>4
        <5> QED BY <1>4, <2>4, <4>1, <5>1
      <4>2. CASE a # b
        <5>1. st.block[a] = -1 \/ st.block[a] \in Nat
          BY <1>1
        <5> QED BY <1>4, <2>4, <3>1, <3>2, <4>2, <5>1
      <4> QED BY <4>1, <4>2
    <3> QED BY <1>5, <1>7, <2>4, <3>3 DEF Entered
  <2>6. Built(u, n, size, checked)
    BY <1>4, <1>8, <2>4, <2>5 DEF Built
  <2> QED BY <1>6, <2>4, <2>6 DEF u
<1> QED BY <1>9, <1>10

\* The program counter of a value is noted.
LEMMA StartFields ==
  ASSUME NEW st, IsState(st), NEW v, NEW at
  PROVE  SameCode([st EXCEPT !.start[v] = at], st)
<1> DEFINE u == [st EXCEPT !.start[v] = at]
<1>1. IsState(u)
  BY Zenon DEF IsState
<1>2. u.code = st.code /\ u.rows = st.rows
  BY Zenon DEF IsState
<1>3. u.delta = st.delta /\ u.block = st.block
  BY Zenon DEF IsState
<1> QED BY <1>1, <1>2, <1>3 DEF SameCode

\* The one instruction of a value.
One(st, k, v, live, at) == [Word(st, k, v, NoId, live) EXCEPT !.start[v] = at]

\* A value that is one instruction leaves the code built.
LEMMA OneBuilt ==
  ASSUME NEW st, NEW n, NEW size, NEW checked, Built(st, n, size, checked),
         NEW k \in Onward, NEW v, NEW live, NEW at
  PROVE  Grown(One(st, k, v, live, at), st, n, size, checked) /\ One(st, k, v, live, at).delta = st.delta
<1> DEFINE w == Word(st, k, v, NoId, live)
           u == [w EXCEPT !.start[v] = at]
<1>1. Flows(Instruction(k, v, NoId, live), Len(st.code), st.delta, st.delta, n, size, checked)
  BY DEF Flows, Instruction
<1>2. Grown(w, st, n, size, checked) /\ w.delta = st.delta
  BY <1>1, WordBuilt
<1> HIDE DEF w
<1>3. SameCode(u, w)
  BY <1>2, StartFields DEF Grown, Built
<1> HIDE DEF u
<1>4. Grown(u, st, n, size, checked) /\ u.delta = st.delta
  BY <1>2, <1>3, SameCodeGrown
<1> QED BY <1>4 DEF u, w, One

\* The i-th value of block b is emitted, and if it returns the code goes no
\* further.
IsEmitted(u, st, f, b, i, n, size, checked) ==
  /\ Grown(u, st, n, size, checked)
  /\ IF f.op[f.vals[b][i]] = "ret" THEN Closed(u) ELSE u.delta = size

\* The code of a value leaves the frame as it is, unless it returns.
LEMMA EmitValueBuilt ==
  ASSUME NEW f, Sound(f), NEW fr, fr.size \in Nat, NEW checked, NEW n,
         NEW st, Built(st, n, fr.size, checked), st.delta = fr.size,
         NEW b \in 1 .. Len(f.vals), NEW i \in 1 .. Len(f.vals[b])
  PROVE  IsEmitted(EmitValue(st, f, fr, b, i), st, f, b, i, n, fr.size, checked)
<1> DEFINE v == f.vals[b][i]
           u == EmitValue(st, f, fr, b, i)
           Before(k) == LiveBefore(f, SubSeq(f.vals[b], k, Len(f.vals[b])), f.liveOut[b])
           results == IF f.mach[v] = "wb" THEN {} ELSE SelectsOf(f, v)
           one(k)  == [Word(st, k, v, NoId, Before(i)) EXCEPT !.start[v] = PC(st)]
           after == Before(i + 1) \cup results
           op == f.op[v]
<1>1. u = CASE op \in {"const", "phi", "select", "branch", "none"} -> st
            [] op = "arg"  -> IF v \in RegArgs(f) THEN st ELSE one("loadarg")
            [] op = "call" -> IF results = {} THEN one("call") ELSE Word(one("call"), "results", v, NoId, after)
            [] op = "ret"  -> Epilogue(st, v, Before(i), fr.size)
            [] OTHER       -> one(f.mach[v])
  BY DEF EmitValue
<1>2. IsKind(op, f.mach[v])
  <2>1. v \in 1 .. Len(f.op)
    BY DEF Sound, AreBlocks, IsBlock
  <2> QED BY <2>1 DEF Sound, AreValues
<1>3. \A k \in Onward : Grown(one(k), st, n, fr.size, checked) /\ one(k).delta = fr.size
  <2> TAKE k \in Onward
  <2> DEFINE live == Before(i)
             at == PC(st)
  <2> HIDE DEF live, at
  <2> DEFINE x == One(st, k, v, live, at)
  <2>1. Grown(x, st, n, fr.size, checked) /\ x.delta = st.delta
    BY OneBuilt
  <2>2. one(k) = x
    BY DEF live, at, One
  <2> HIDE DEF x, one
  <2> QED BY <2>1, <2>2
<1>4. Grown(st, st, n, fr.size, checked)
  BY NotGrown
<1>5. {"loadarg", "call", "load", "flag", "store", "results"} \subseteq Onward
  BY DEF Onward
<1> HIDE DEF Before, results, after
<1> DEFINE Goal == Grown(u, st, n, fr.size, checked) /\ IF op = "ret" THEN Closed(u) ELSE u.delta = fr.size
<1>6. ASSUME op \in {"const", "phi", "select", "branch", "none"} PROVE Goal
  <2>1. u = st /\ op # "ret"
    BY <1>1, <1>6
  <2> QED BY <1>4, <2>1
<1>7. ASSUME op = "arg" PROVE Goal
  <2>1. (u = st \/ u = one("loadarg")) /\ op # "ret"
    <3> HIDE DEF one, u
    <3> QED BY <1>1, <1>7
  <2>2. "loadarg" \in Onward
    BY <1>5
  <2> HIDE DEF one, u
  <2> QED BY <1>3, <1>4, <2>1, <2>2 DEF u
<1>8. ASSUME op = "call" PROVE Goal
  <2> DEFINE call == one("call")
             res  == Word(call, "results", v, NoId, after)
  <2>1. (u = call \/ u = res) /\ op # "ret"
    <3> HIDE DEF one, u
    <3> QED BY <1>1, <1>8
  <2>2. Grown(call, st, n, fr.size, checked) /\ call.delta = fr.size
    <3>1. "call" \in Onward
      BY <1>5
    <3> HIDE DEF one
    <3> QED BY <1>3, <3>1
  <2> HIDE DEF call
  <2>3. Flows(Instruction("results", v, NoId, after), Len(call.code), call.delta, call.delta, n, fr.size, checked)
    BY <1>5 DEF Flows, Instruction
  <2>4. Grown(res, call, n, fr.size, checked) /\ res.delta = call.delta
    BY <2>2, <2>3, WordBuilt DEF Grown
  <2> HIDE DEF res
  <2>5. Grown(res, st, n, fr.size, checked) /\ res.delta = fr.size
    BY <2>2, <2>4, GrownTwice
  <2> HIDE DEF u
  <2> QED BY <2>1, <2>2, <2>5 DEF u
<1>9. ASSUME op = "ret" PROVE Goal
  <2>1. u = Epilogue(st, v, Before(i), fr.size)
    <3> HIDE DEF one, u
    <3> QED BY <1>1, <1>9
  <2>2. Grown(Epilogue(st, v, Before(i), fr.size), st, n, fr.size, checked) /\ Closed(Epilogue(st, v, Before(i), fr.size))
    BY EpilogueBuilt
  <2> QED BY <1>9, <2>1, <2>2
<1>10. ASSUME op \notin {"const", "phi", "select", "branch", "none", "arg", "call", "ret"} PROVE Goal
  <2> DEFINE k == f.mach[v]
  <2>1. k \in Onward
    BY <1>2, <1>5, <1>10 DEF IsKind
  <2>2. u = one(k) /\ op # "ret"
    <3> HIDE DEF one, u
    <3> QED BY <1>1, <1>10
  <2> HIDE DEF one, u
  <2> QED BY <1>3, <2>1, <2>2 DEF u
<1>11. Grown(u, st, n, fr.size, checked) /\ IF op = "ret" THEN Closed(u) ELSE u.delta = fr.size
  BY <1>6, <1>7, <1>8, <1>9, <1>10
<1> QED BY <1>11 DEF IsEmitted

\* No block has the number that means none.
LEMMA NotABlock ==
  ASSUME NEW s \in Nat
  PROVE  s # NoId
BY NoIdAssumption

\* A way out: nothing, or a jump.
LEMMA JumpBuilt ==
  ASSUME NEW n \in Nat, NEW size, NEW checked, NEW st, Built(st, n, size, checked), st.delta = size,
         NEW s \in 1 .. n, NEW live
  PROVE  LET u == Word(st, "jump", NoId, s, live)
         IN  Grown(u, st, n, size, checked) /\ u.delta = size /\ Closed(u)
<1>1. Flows(Instruction("jump", NoId, s, live), Len(st.code), st.delta, st.delta, n, size, checked)
  BY DEF Flows, Instruction
<1>2. "jump" \in Away
  BY DEF Away
<1> QED BY <1>1, <1>2, WordBuilt

\* The way out of block b is emitted, which follows comes after.
IsLeft(u, st, f, b, follows, size, checked) ==
  /\ Grown(u, st, Len(f.vals), size, checked) /\ u.delta = size
  /\ follows = NoId /\ f.succs[b] # <<>> => Closed(u)

\* The way out of a block leaves the frame as it is; where no block follows the
\* code does not go on, if there is a way out.
LEMMA TerminatorBuilt ==
  ASSUME NEW f, Sound(f), NEW size, NEW checked,
         NEW st, Built(st, Len(f.vals), size, checked), st.delta = size,
         NEW b \in 1 .. Len(f.vals), NEW follows
  PROVE  IsLeft(Terminator(st, f, b, follows), st, f, b, follows, size, checked)
<1> DEFINE n == Len(f.vals)
           out == f.liveOut[b]
           Arrived(s) == f.liveIn[s] \cup Phis(f, s)
           Go(at, s) == IF s = follows THEN at ELSE Word(at, "jump", NoId, s, Arrived(s))
           ss == f.succs[b]
           u == Terminator(st, f, b, follows)
<1>1. n \in Nat /\ IsSequence(ss) /\ Len(ss) \in Nat /\ Len(ss) <= 2 /\ \A i \in 1 .. Len(ss) : ss[i] \in 1 .. n
  <2>1. IsBlock(f.op, n, f.vals[b], ss)
    BY DEF Sound, AreBlocks
  <2>2. n \in Nat
    BY SoundFacts
  <2> HIDE DEF n, ss
  <2> QED BY <2>1, <2>2 DEF IsBlock, IsSequence
<1> HIDE DEF n
<1>2. \A i \in 1 .. Len(ss) : ss[i] # NoId
  BY <1>1, NotABlock
<1>3. \A at, i : Built(at, n, size, checked) /\ at.delta = size /\ i \in 1 .. Len(ss) =>
         /\ Grown(Go(at, ss[i]), at, n, size, checked) /\ Go(at, ss[i]).delta = size
         /\ follows = NoId => Closed(Go(at, ss[i]))
  <2> SUFFICES ASSUME NEW at, NEW i \in 1 .. Len(ss), Built(at, n, size, checked), at.delta = size
               PROVE  /\ Grown(Go(at, ss[i]), at, n, size, checked) /\ Go(at, ss[i]).delta = size
                      /\ follows = NoId => Closed(Go(at, ss[i]))
    OBVIOUS
  <2> DEFINE s == ss[i]
             w == Word(at, "jump", NoId, s, Arrived(s))
  <2>1. s \in 1 .. n /\ s # NoId
    BY <1>1, <1>2
  <2> HIDE DEF s
  <2>2. Grown(w, at, n, size, checked) /\ w.delta = size /\ Closed(w)
    BY <1>1, <2>1, JumpBuilt
  <2>3. Grown(at, at, n, size, checked)
    BY NotGrown
  <2> HIDE DEF w, Arrived
  <2>4. Go(at, s) = IF s = follows THEN at ELSE w
    BY DEF w
  <2>5. /\ Grown(Go(at, s), at, n, size, checked) /\ Go(at, s).delta = size
        /\ follows = NoId => Closed(Go(at, s))
    <3> HIDE DEF Go
    <3> QED BY <2>1, <2>2, <2>3, <2>4
  <2> QED BY <2>5 DEF s
<1>4. CASE Len(ss) = 2
  <2> DEFINE ctrl == Last(f.vals[b])
             live == out \cup Reads(f, ctrl)
             w == Word(st, "branch", ctrl, ss[1], live)
  <2>1. u = Go(w, ss[2])
    BY <1>4 DEF Terminator
  <2>2. 1 \in 1 .. Len(ss) /\ 2 \in 1 .. Len(ss)
    BY <1>4
  <2>3. ss[1] \in 1 .. n
    BY <1>1, <2>2
  <2>4. Flows(Instruction("branch", ctrl, ss[1], live), Len(st.code), st.delta, st.delta, n, size, checked)
    <3> HIDE DEF ctrl, live, ss
    <3> QED BY <2>3 DEF Flows, Instruction
  <2>5. Grown(w, st, n, size, checked) /\ w.delta = size
    BY <2>4, WordBuilt DEF n
  <2> HIDE DEF w, Go
  <2>6. Grown(Go(w, ss[2]), w, n, size, checked) /\ Go(w, ss[2]).delta = size /\ (follows = NoId => Closed(Go(w, ss[2])))
    BY <1>3, <2>2, <2>5 DEF Grown
  <2>7. Grown(u, st, n, size, checked)
    BY <2>1, <2>5, <2>6, GrownTwice
  <2> QED BY <2>1, <2>6, <2>7 DEF n, IsLeft
<1>5. CASE Len(ss) = 1
  <2> DEFINE w == Word(st, "copies", NoId, b, out)
             at == IF HasCopies(f, b) THEN w ELSE st
  <2>1. u = Go(at, ss[1])
    BY <1>5 DEF Terminator
  <2>2. 1 \in 1 .. Len(ss)
    BY <1>5
  <2>3. Flows(Instruction("copies", NoId, b, out), Len(st.code), st.delta, st.delta, n, size, checked)
    BY DEF Flows, Instruction, Onward
  <2>4. Grown(w, st, n, size, checked) /\ w.delta = size
    BY <2>3, WordBuilt DEF n
  <2>5. Grown(st, st, n, size, checked)
    BY NotGrown DEF n
  <2> HIDE DEF w
  <2>6. Grown(at, st, n, size, checked) /\ at.delta = size
    BY <2>4, <2>5
  <2> HIDE DEF at, Go
  <2>7. Grown(Go(at, ss[1]), at, n, size, checked) /\ Go(at, ss[1]).delta = size /\ (follows = NoId => Closed(Go(at, ss[1])))
    BY <1>3, <2>2, <2>6 DEF Grown
  <2>8. Grown(u, st, n, size, checked)
    BY <2>1, <2>6, <2>7, GrownTwice
  <2> QED BY <2>1, <2>7, <2>8 DEF n, IsLeft
<1>6. CASE Len(ss) = 0
  <2>1. u = st
    BY <1>6 DEF Terminator
  <2>2. ss = <<>>
    BY <1>1, <1>6, NoneIsEmpty
  <2> QED BY <2>1, <2>2, NotGrown DEF IsLeft
<1>7. Len(ss) = 0 \/ Len(ss) = 1 \/ Len(ss) = 2
  <2> DEFINE l == Len(ss)
  <2>1. l \in Nat /\ l <= 2
    BY <1>1
  <2> HIDE DEF l
  <2>2. l = 0 \/ l = 1 \/ l = 2
    BY <2>1
  <2> QED BY <2>2 DEF l
<1> QED BY <1>4, <1>5, <1>6, <1>7

\* The code of a block, value by value.
Emitting(st, f, fr, b, it) ==
  it = [k \in 0 .. Len(f.vals[b]) |-> IF k = 0 THEN EnterBlock(st, b, fr.size) ELSE EmitValue(it[k - 1], f, fr, b, k)]

\* There is such code.
LEMMA EmittingExists ==
  ASSUME NEW st, NEW f, NEW fr, NEW b, Len(f.vals[b]) \in Nat
  PROVE  \E it : Emitting(st, f, fr, b, it)
<1> DEFINE Put(at, i) == EmitValue(at, f, fr, b, i)
           Good(it, n) == it = [k \in 0 .. n |-> IF k = 0 THEN EnterBlock(st, b, fr.size) ELSE Put(it[k - 1], k)]
           P == {n \in Nat : \E it : Good(it, n)}
<1>1. 0 \in P
  <2> HIDE DEF Put
  <2> DEFINE it == [k \in 0 .. 0 |-> EnterBlock(st, b, fr.size)]
  <2>1. Good(it, 0)
    OBVIOUS
  <2> QED BY <2>1
<1>2. ASSUME NEW n \in Nat, n \in P PROVE n + 1 \in P
  <2> HIDE DEF Put
  <2>1. PICK it : Good(it, n)
    BY <1>2
  <2> DEFINE more == [k \in 0 .. n + 1 |-> IF k \in 0 .. n THEN it[k] ELSE Put(it[n], n + 1)]
  <2>2. ASSUME NEW k \in 0 .. n + 1 PROVE more[k] = IF k = 0 THEN EnterBlock(st, b, fr.size) ELSE Put(more[k - 1], k)
    <3>1. CASE k \in 0 .. n
      <4>1. k # 0 => k - 1 \in 0 .. n /\ k - 1 \in 0 .. n + 1
        BY <3>1
      <4>2. it[k] = IF k = 0 THEN EnterBlock(st, b, fr.size) ELSE Put(it[k - 1], k)
        BY <2>1, <3>1
      <4> QED BY <3>1, <4>1, <4>2
    <3>2. CASE k = n + 1
      <4>1. k \notin 0 .. n /\ k # 0 /\ k - 1 = n /\ n \in 0 .. n + 1 /\ n \in 0 .. n
        BY <3>2
      <4> QED BY <3>2, <4>1
    <3> QED BY <3>1, <3>2
  <2>3. Good(more, n + 1)
    <3>1. DOMAIN more = 0 .. n + 1 /\ more = [k \in 0 .. n + 1 |-> more[k]]
      OBVIOUS
    <3> HIDE DEF more
    <3> QED BY <2>2, <3>1
  <2>4. \E jt : Good(jt, n + 1)
    BY <2>3
  <2> HIDE DEF Good
  <2>5. n + 1 \in Nat
    OBVIOUS
  <2> QED BY <2>4, <2>5
<1> HIDE DEF P
<1>3. Len(f.vals[b]) \in P
  BY <1>1, <1>2, NumberInduction
<1> QED BY <1>3 DEF P, Emitting

\* The code of the blocks, in their order.
Arranged(f, checked, it) ==
  it = [k \in 0 .. Len(f.layout) |-> IF k = 0 THEN Prologue(Blank(f), f, f.fr, checked) ELSE EmitBlock(it[k - 1], f, f.fr, k)]

\* There is such code.
LEMMA ArrangedExists ==
  ASSUME NEW f, NEW checked, Len(f.layout) \in Nat
  PROVE  \E it : Arranged(f, checked, it)
<1> DEFINE Put(at, i) == EmitBlock(at, f, f.fr, i)
           Good(it, n) == it = [k \in 0 .. n |-> IF k = 0 THEN Prologue(Blank(f), f, f.fr, checked) ELSE Put(it[k - 1], k)]
           P == {n \in Nat : \E it : Good(it, n)}
<1>1. 0 \in P
  <2> HIDE DEF Put
  <2> DEFINE it == [k \in 0 .. 0 |-> Prologue(Blank(f), f, f.fr, checked)]
  <2>1. Good(it, 0)
    OBVIOUS
  <2> QED BY <2>1
<1>2. ASSUME NEW n \in Nat, n \in P PROVE n + 1 \in P
  <2> HIDE DEF Put
  <2>1. PICK it : Good(it, n)
    BY <1>2
  <2> DEFINE more == [k \in 0 .. n + 1 |-> IF k \in 0 .. n THEN it[k] ELSE Put(it[n], n + 1)]
  <2>2. ASSUME NEW k \in 0 .. n + 1 PROVE more[k] = IF k = 0 THEN Prologue(Blank(f), f, f.fr, checked) ELSE Put(more[k - 1], k)
    <3>1. CASE k \in 0 .. n
      <4>1. k # 0 => k - 1 \in 0 .. n /\ k - 1 \in 0 .. n + 1
        BY <3>1
      <4>2. it[k] = IF k = 0 THEN Prologue(Blank(f), f, f.fr, checked) ELSE Put(it[k - 1], k)
        BY <2>1, <3>1
      <4> QED BY <3>1, <4>1, <4>2
    <3>2. CASE k = n + 1
      <4>1. k \notin 0 .. n /\ k # 0 /\ k - 1 = n /\ n \in 0 .. n + 1 /\ n \in 0 .. n
        BY <3>2
      <4> QED BY <3>2, <4>1
    <3> QED BY <3>1, <3>2
  <2>3. Good(more, n + 1)
    <3>1. DOMAIN more = 0 .. n + 1 /\ more = [k \in 0 .. n + 1 |-> more[k]]
      OBVIOUS
    <3> HIDE DEF more
    <3> QED BY <2>2, <3>1
  <2>4. \E jt : Good(jt, n + 1)
    BY <2>3
  <2> HIDE DEF Good
  <2>5. n + 1 \in Nat
    OBVIOUS
  <2> QED BY <2>4, <2>5
<1> HIDE DEF P
<1>3. Len(f.layout) \in P
  BY <1>1, <1>2, NumberInduction
<1> QED BY <1>3 DEF P, Arranged

\* The k-th block of the code is emitted.
IsLaid(u, st, f, k, size, checked) ==
  LET n == Len(f.vals)
      b == f.layout[k]
  IN  /\ Built(u, n, size, checked) /\ (u.delta = size \/ Closed(u))
      /\ u.block[b] # -1 /\ \A a \in 1 .. n : st.block[a] # -1 => u.block[a] # -1
      /\ k = Len(f.layout) => /\ Closed(PadExit(u, f)) /\ Built(PadExit(u, f), n, size, checked)
                              /\ PadExit(u, f).block = u.block

\* The code of a block is built, with the frame there, and is left behind a
\* return or with the frame there.
LEMMA EmitBlockBuilt ==
  ASSUME NEW f, Sound(f), NEW fr, fr.size \in Nat, NEW checked,
         NEW st, Built(st, Len(f.vals), fr.size, checked), st.delta = fr.size \/ Closed(st),
         NEW k \in 1 .. Len(f.layout)
  PROVE  IsLaid(EmitBlock(st, f, fr, k), st, f, k, fr.size, checked)
<1> DEFINE n == Len(f.vals)
           u == EmitBlock(st, f, fr, k)
           b == f.layout[k]
           vs == f.vals[b]
           m == Len(vs)
           size == fr.size
           follows == IF k < Len(f.layout) THEN f.layout[k + 1] ELSE NoId
           body == CHOOSE it : Emitting(st, f, fr, b, it)
           Enters(s) == s.block[b] # -1 /\ \A a \in 1 .. n : st.block[a] # -1 => s.block[a] # -1
           Rets(i) == i > 0 /\ f.op[vs[i]] = "ret"
           After(s, i) == Built(s, n, size, checked) /\ Enters(s) /\ IF Rets(i) THEN Closed(s) ELSE s.delta = size
<1>1. /\ b \in 1 .. n /\ n \in Nat /\ m \in Nat /\ Len(f.layout) \in Nat
      /\ \A i \in 1 .. m : f.op[vs[i]] = "ret" => i = m /\ f.succs[b] = <<>>
  <2>1. b \in 1 .. n /\ Len(f.layout) \in Nat
    BY DEF Sound, InOrder, IsSequence
  <2>2. n \in Nat
    BY SoundFacts
  <2>3. IsBlock(f.op, n, vs, f.succs[b])
    BY <2>1 DEF Sound, AreBlocks
  <2> HIDE DEF b, n, vs
  <2>4. m \in Nat
    BY <2>3 DEF IsBlock, IsSequence
  <2>5. \A i \in 1 .. m : f.op[vs[i]] = "ret" => i = m /\ f.succs[b] = <<>>
    BY <2>3 DEF IsBlock
  <2> QED BY <2>1, <2>2, <2>4, <2>5
<1>2. u = Terminator(body[m], f, b, follows)
  BY DEF EmitBlock, Emitting
<1>3. Emitting(st, f, fr, b, body)
  BY <1>1, EmittingExists
<1> HIDE DEF body
<1>4. /\ body[0] = EnterBlock(st, b, size)
      /\ \A i \in 1 .. m : body[i] = EmitValue(body[i - 1], f, fr, b, i)
  <2> DEFINE Put(at, i) == EmitValue(at, f, fr, b, i)
             first == EnterBlock(st, b, size)
  <2>1. body = [i \in 0 .. m |-> IF i = 0 THEN first ELSE Put(body[i - 1], i)]
    BY <1>3 DEF Emitting
  <2> HIDE DEF Put, first, m
  <2>2. \A i \in 0 .. m : body[i] = IF i = 0 THEN first ELSE Put(body[i - 1], i)
    BY <2>1
  <2>3. 0 \in 0 .. m /\ \A i \in 1 .. m : i \in 0 .. m /\ i # 0
    BY <1>1
  <2> QED BY <2>2, <2>3 DEF Put, first
<1>5. After(body[0], 0)
  <2> DEFINE e == EnterBlock(st, b, size)
  <2>1. /\ Built(e, n, size, checked) /\ e.delta = size
        /\ e.block[b] # -1 /\ \A a \in 1 .. n : st.block[a] # -1 => e.block[a] # -1
    <3>1. Built(st, n, size, checked) /\ (st.delta = size \/ Closed(st)) /\ size \in Nat
      OBVIOUS
    <3> HIDE DEF n, size, b
    <3> QED BY <1>1, <3>1, EnterBlockBuilt
  <2> HIDE DEF e
  <2> QED BY <1>4, <2>1 DEF e
<1>6. ASSUME NEW i \in 1 .. m, After(body[i - 1], i - 1) PROVE After(body[i], i)
  <2> DEFINE old == body[i - 1]
             x == EmitValue(old, f, fr, b, i)
  <2>1. body[i] = x
    BY <1>4
  <2>2. ~Rets(i - 1)
    <3>1. i - 1 > 0 => i - 1 \in 1 .. m /\ i - 1 # m
      BY <1>1
    <3> QED BY <1>1, <3>1
  <2>3. Built(old, n, size, checked) /\ old.delta = size /\ Enters(old)
    BY <1>6, <2>2
  <2> HIDE DEF old
  <2>4. /\ Grown(x, old, n, size, checked)
        /\ IF f.op[f.vals[b][i]] = "ret" THEN Closed(x) ELSE x.delta = size
    <3>1. b \in 1 .. Len(f.vals) /\ i \in 1 .. Len(f.vals[b]) /\ fr.size \in Nat
      BY <1>1
    <3>2. Built(old, n, fr.size, checked) /\ old.delta = fr.size
      BY <2>3
    <3> HIDE DEF n, b
    <3>3. IsEmitted(EmitValue(old, f, fr, b, i), old, f, b, i, n, fr.size, checked)
      BY <3>1, <3>2, EmitValueBuilt
    <3> QED BY <3>3 DEF IsEmitted
  <2> HIDE DEF x
  <2>5. Enters(x) /\ Built(x, n, size, checked)
    BY <2>3, <2>4 DEF Grown
  <2>6. i > 0
    OBVIOUS
  <2> QED BY <2>1, <2>4, <2>5, <2>6
<1> DEFINE P == {i \in Nat : i <= m => After(body[i], i)}
<1>7. After(body[m], m)
  <2> HIDE DEF After
  <2>1. 0 \in P
    BY <1>5
  <2>2. ASSUME NEW i \in Nat, i \in P PROVE i + 1 \in P
    <3>1. i + 1 \in Nat /\ (i + 1 <= m => i <= m /\ i + 1 \in 1 .. m /\ (i + 1) - 1 = i)
      BY <1>1
    <3>2. ASSUME i + 1 <= m PROVE After(body[i + 1], i + 1)
      <4> DEFINE j == i + 1
      <4>1. After(body[i], i) /\ j \in 1 .. m /\ j - 1 = i
        BY <2>2, <3>1, <3>2
      <4> HIDE DEF j
      <4>2. After(body[j], j)
        BY <1>6, <4>1
      <4> QED BY <4>2 DEF j
    <3> QED BY <3>1, <3>2
  <2> HIDE DEF P
  <2>3. m \in P
    BY <1>1, <2>1, <2>2, NumberInduction
  <2> QED BY <1>1, <2>3 DEF P
<1> DEFINE last == body[m]
<1>8. Built(last, n, size, checked) /\ Enters(last) /\ (IF Rets(m) THEN Closed(last) ELSE last.delta = size)
  BY <1>7
<1>9. u = Terminator(last, f, b, follows)
  BY <1>2
<1> HIDE DEF last, u
<1>10. k = Len(f.layout) => follows = NoId /\ Last(f.layout) = b
  BY <1>1 DEF Last
<1> DEFINE Goal == /\ Built(u, n, size, checked) /\ (u.delta = size \/ Closed(u)) /\ Enters(u)
                   /\ k = Len(f.layout) => Closed(PadExit(u, f)) /\ Built(PadExit(u, f), n, size, checked)
                                           /\ PadExit(u, f).block = u.block
<1>11. ASSUME Rets(m) PROVE Goal
  <2>1. f.succs[b] = <<>> /\ vs # <<>> /\ m \in 1 .. m
    <3>1. m \in Nat /\ m > 0 /\ f.op[vs[m]] = "ret"
      BY ONLY <1>1, <1>11
    <3>2. vs # <<>>
      BY ONLY <3>1
    <3> HIDE DEF m
    <3>3. m \in 1 .. m
      BY ONLY <3>1
    <3>4. f.succs[b] = <<>>
      BY ONLY <1>1, <3>1, <3>3
    <3> QED BY ONLY <3>2, <3>3, <3>4
  <2>2. Terminator(last, f, b, follows) = last
    BY <2>1 DEF Terminator
  <2>3. k = Len(f.layout) => PadExit(u, f) = u
    <3>1. f.op[Last(vs)] = "ret"
      BY <1>11 DEF Last
    <3> QED BY <1>10, <2>1, <3>1 DEF PadExit
  <2>4. u = last
    BY <1>9, <2>2
  <2> QED BY <1>8, <1>11, <2>3, <2>4
<1>12. ASSUME ~Rets(m) PROVE Goal
  <2> DEFINE t == Terminator(last, f, b, follows)
  <2>1. last.delta = size
    BY <1>8, <1>12
  <2>2. /\ Grown(t, last, n, size, checked) /\ t.delta = size
        /\ follows = NoId /\ f.succs[b] # <<>> => Closed(t)
    <3>1. b \in 1 .. Len(f.vals) /\ Built(last, Len(f.vals), size, checked)
      BY <1>1, <1>8
    <3> HIDE DEF b, size, follows
    <3>2. IsLeft(Terminator(last, f, b, follows), last, f, b, follows, size, checked)
      BY <2>1, <3>1, TerminatorBuilt
    <3> QED BY <3>2 DEF IsLeft
  <2> HIDE DEF t
  <2>3. /\ Built(u, n, size, checked) /\ u.delta = size /\ Enters(u)
        /\ follows = NoId /\ f.succs[b] # <<>> => Closed(u)
    BY <1>8, <1>9, <2>2 DEF t, Grown
  <2>4. ASSUME k = Len(f.layout)
        PROVE  Closed(PadExit(u, f)) /\ Built(PadExit(u, f), n, size, checked) /\ PadExit(u, f).block = u.block
    <3>1. CASE f.succs[b] # <<>>
      <4>1. PadExit(u, f) = u
        BY <1>10, <2>4, <3>1 DEF PadExit
      <4> QED BY <1>10, <2>3, <2>4, <3>1, <4>1
    <3>2. CASE f.succs[b] = <<>>
      <4> DEFINE w == Word(u, "nop", NoId, NoId, {})
      <4>1. vs = <<>> \/ f.op[Last(vs)] # "ret"
        <5>1. m = 0 => vs = <<>>
          <6>1. IsSequence(vs)
            BY <1>1 DEF Sound, AreBlocks, IsBlock
          <6> QED BY <6>1, NoneIsEmpty
        <5>2. m > 0 => f.op[vs[m]] # "ret"
          BY <1>12
        <5> QED BY <1>1, <5>1, <5>2 DEF Last
      <4>2. PadExit(u, f) = w
        BY <1>10, <2>4, <3>2, <4>1 DEF PadExit
      <4>3. Flows(Instruction("nop", NoId, NoId, {}), Len(u.code), u.delta, u.delta, n, size, checked)
        BY DEF Flows, Instruction
      <4>4. "nop" \in Away
        BY DEF Away
      <4>5. Grown(w, u, n, size, checked) /\ Closed(w)
        BY <2>3, <4>3, <4>4, WordBuilt
      <4> HIDE DEF w
      <4> QED BY <4>2, <4>5 DEF Grown
    <3> QED BY <3>1, <3>2
  <2> QED BY <2>3, <2>4
<1>13. Goal
  <2> HIDE DEF Goal
  <2> QED BY <1>11, <1>12
<1> QED BY <1>13 DEF IsLaid, u

-----------------------------------------------------------------------------
(* The code before the first block and at the end *)

\* The code before the first block.
Begun(st, n, size, checked) ==
  /\ IsState(st) /\ Tabled(st, n, size, checked) /\ Len(st.code) \in Nat
  /\ DOMAIN st.block = 1 .. n /\ \A b \in 1 .. n : st.block[b] = -1

\* u is st with one more instruction.
IsWord(u, st, i, n, size, checked) ==
  /\ Begun(u, n, size, checked) /\ Len(u.code) = Len(st.code) + 1 /\ u.delta = st.delta
  /\ u.code[Len(u.code)] = i
  /\ \A j \in 1 .. Len(st.code) : u.code[j] = st.code[j]

\* An instruction that flows before the first block leaves the code begun, ...
LEMMA WordBegun ==
  ASSUME NEW st, NEW n, NEW size, NEW checked, Begun(st, n, size, checked), NEW k, NEW v, NEW to, NEW live,
         Flows(Instruction(k, v, to, live), Len(st.code), st.delta, st.delta, n, size, checked)
  PROVE  IsWord(Word(st, k, v, to, live), st, Instruction(k, v, to, live), n, size, checked)
<1> DEFINE u == Word(st, k, v, to, live)
<1>1. /\ IsState(u) /\ Tabled(u, n, size, checked)
      /\ Len(st.code) \in Nat /\ Len(u.code) = Len(st.code) + 1 /\ u.delta = st.delta /\ u.block = st.block
      /\ u.code[Len(u.code)] = Instruction(k, v, to, live)
      /\ \A i \in 1 .. Len(st.code) : u.code[i] = st.code[i]
  BY WordTabled DEF Begun
<1> HIDE DEF u
<1> QED BY <1>1 DEF Begun, IsWord, u

\* ... and so does one that moves the stack pointer.
LEMMA MoveBegun ==
  ASSUME NEW st, NEW n, NEW size, NEW checked, Begun(st, n, size, checked), NEW k, NEW v, NEW to, NEW live,
         NEW delta, Flows(Instruction(k, v, to, live), Len(st.code), st.delta, delta, n, size, checked)
  PROVE  LET u == MarkSP(Word(st, k, v, to, live), delta)
         IN  /\ Begun(u, n, size, checked) /\ Len(u.code) = Len(st.code) + 1 /\ u.delta = delta
             /\ \A i \in 1 .. Len(st.code) : u.code[i] = st.code[i]
<1> DEFINE u == MarkSP(Word(st, k, v, to, live), delta)
<1>1. /\ IsState(u) /\ Tabled(u, n, size, checked)
      /\ Len(st.code) \in Nat /\ Len(u.code) = Len(st.code) + 1 /\ u.delta = delta /\ u.block = st.block
      /\ \A i \in 1 .. Len(st.code) : u.code[i] = st.code[i]
  BY MoveTabled DEF Begun
<1> HIDE DEF u
<1> QED BY <1>1 DEF Begun, u

\* The emitter begins with no code.
LEMMA BlankBegun ==
  ASSUME NEW f, IsSequence(f.vals), NEW size, NEW checked
  PROVE  /\ Begun(Blank(f), Len(f.vals), size, checked) /\ Len(Blank(f).code) = 0 /\ Blank(f).delta = 0
<1> DEFINE u == Blank(f)
           n == Len(f.vals)
<1>1. IsState(u)
  BY DEF Blank, IsState
<1>2. u.code = <<>> /\ u.rows = <<<<0, 0>>>> /\ u.delta = 0 /\ u.block = [b \in DOMAIN f.vals |-> -1]
  BY DEF Blank
<1> HIDE DEF u
<1>3. DOMAIN f.vals = 1 .. n
  BY DomainOfSequence
<1>4. DOMAIN u.block = 1 .. n /\ \A b \in 1 .. n : u.block[b] = -1
  BY <1>2, <1>3
<1>5. IsSequence(u.code) /\ Len(u.code) = 0
  BY <1>2, EmptySequence
<1>6. AreRows(u.rows, 0) /\ \A c \in Nat : Lookup(u.rows, c) = 0
  BY <1>2, FirstRow
<1>7. \A c \in 0 .. Len(u.code) - 1 : FALSE
  BY <1>5
<1>8. Tabled(u, n, size, checked)
  BY <1>2, <1>5, <1>6, <1>7 DEF Tabled
<1> QED BY <1>1, <1>2, <1>4, <1>5, <1>8 DEF Begun, u

\* The prologue leaves the frame there.
LEMMA PrologueBuilt ==
  ASSUME NEW f, IsSequence(f.vals), NEW fr, fr.size \in Nat, NEW checked \in BOOLEAN
  PROVE  LET u == Prologue(Blank(f), f, fr, checked)
         IN  Built(u, Len(f.vals), fr.size, checked) /\ u.delta = fr.size /\ \A b \in 1 .. Len(f.vals) : u.block[b] = -1
<1> DEFINE n == Len(f.vals)
           size == fr.size
           st == Blank(f)
           args    == RegArgs(f)
           check   == IF checked THEN Word(st, "check", NoId, NoId, args) ELSE st
           push    == IF size = 0 THEN check ELSE MarkSP(Word(check, "push", NoId, NoId, args), size)
           zero    == Word(push, "zero", NoId, NoId, args)
           cleared == IF \E i \in Pointered(fr.items) : fr.items[i].kind = "object" THEN zero ELSE push
           noted   == [cleared EXCEPT !.entered = PC(cleared)]
           u       == Word(noted, "args", NoId, NoId, args)
           First(s) == checked => Len(s.code) > 0 /\ s.code[1].k = "check"
<1>1. Prologue(st, f, fr, checked) = u
  BY DEF Prologue
<1>2. Begun(st, n, size, checked) /\ Len(st.code) = 0 /\ st.delta = 0
  BY BlankBegun
<1> HIDE DEF st, n, args
<1>3. Begun(check, n, size, checked) /\ check.delta = 0 /\ Len(check.code) = (IF checked THEN 1 ELSE 0) /\ First(check)
  <2>1. CASE checked
    <3> DEFINE w == Word(st, "check", NoId, NoId, args)
               i == Instruction("check", NoId, NoId, args)
    <3>1. Flows(i, Len(st.code), st.delta, st.delta, n, size, checked) /\ i.k = "check"
      BY <1>2, <2>1 DEF Flows, Instruction
    <3>a. IsWord(w, st, i, n, size, checked)
      BY <1>2, <3>1, WordBegun
    <3> HIDE DEF w, i
    <3>b. Len(st.code) + 1 = 1
      BY <1>2
    <3>2. Begun(w, n, size, checked) /\ Len(w.code) = 1 /\ w.delta = 0 /\ w.code[1] = i
      BY <1>2, <3>a, <3>b DEF IsWord
    <3>3. check = w
      BY <2>1 DEF w
    <3> HIDE DEF check
    <3>4. Len(w.code) > 0 /\ w.code[1].k = "check"
      BY <3>1, <3>2
    <3> QED BY <2>1, <3>2, <3>3, <3>4
  <2>2. CASE ~checked
    BY <1>2, <2>2
  <2> QED BY <2>1, <2>2
<1> HIDE DEF check
<1>4. Begun(push, n, size, checked) /\ push.delta = size /\ First(push)
  <2>1. CASE size = 0
    BY <1>3, <2>1
  <2>2. CASE size # 0
    <3> DEFINE w == MarkSP(Word(check, "push", NoId, NoId, args), size)
    <3>1. Flows(Instruction("push", NoId, NoId, args), Len(check.code), check.delta, size, n, size, checked)
      BY <1>3 DEF Flows, Instruction
    <3>2. /\ Begun(w, n, size, checked) /\ Len(w.code) = Len(check.code) + 1 /\ w.delta = size
          /\ \A i \in 1 .. Len(check.code) : w.code[i] = check.code[i]
      BY <1>3, <3>1, MoveBegun
    <3> HIDE DEF w
    <3>3. push = w
      BY <2>2 DEF w
    <3> HIDE DEF push
    <3>4. checked => 1 \in 1 .. Len(check.code)
      BY <1>3
    <3> QED BY <1>3, <3>2, <3>3, <3>4
  <2> QED BY <2>1, <2>2
<1> HIDE DEF push
<1>5. \A s, k : Begun(s, n, size, checked) /\ s.delta = size /\ First(s) /\ k \in Onward =>
         LET w == Word(s, k, NoId, NoId, args)
         IN  Begun(w, n, size, checked) /\ w.delta = size /\ First(w) /\ Len(w.code) = Len(s.code) + 1
  <2> SUFFICES ASSUME NEW s, NEW k \in Onward, Begun(s, n, size, checked), s.delta = size, First(s)
               PROVE  LET w == Word(s, k, NoId, NoId, args)
                      IN  Begun(w, n, size, checked) /\ w.delta = size /\ First(w) /\ Len(w.code) = Len(s.code) + 1
    OBVIOUS
  <2> DEFINE w == Word(s, k, NoId, NoId, args)
  <2>1. Flows(Instruction(k, NoId, NoId, args), Len(s.code), s.delta, s.delta, n, size, checked)
    BY DEF Flows, Instruction
  <2>2. IsWord(w, s, Instruction(k, NoId, NoId, args), n, size, checked)
    BY <2>1, WordBegun
  <2> HIDE DEF w
  <2>3. Len(s.code) \in Nat /\ (checked => 1 \in 1 .. Len(s.code))
    BY DEF Begun
  <2> QED BY <2>2, <2>3 DEF w, IsWord
<1>6. Begun(cleared, n, size, checked) /\ cleared.delta = size /\ First(cleared)
  <2>1. "zero" \in Onward
    BY DEF Onward
  <2>2. Begun(zero, n, size, checked) /\ zero.delta = size /\ First(zero)
    BY <1>4, <1>5, <2>1
  <2> HIDE DEF zero
  <2> QED BY <1>4, <2>2
<1> HIDE DEF cleared
<1>7. Begun(noted, n, size, checked) /\ noted.delta = size /\ First(noted)
  <2>0. IsState(cleared)
    BY <1>6 DEF Begun
  <2>1. IsState(noted)
    BY <2>0, Zenon DEF IsState
  <2>2. noted.code = cleared.code /\ noted.rows = cleared.rows
    BY <2>0, Zenon DEF IsState
  <2>3. noted.delta = cleared.delta /\ noted.block = cleared.block
    BY <2>0, Zenon DEF IsState
  <2> HIDE DEF noted
  <2> QED BY <1>6, <2>1, <2>2, <2>3 DEF Begun, Tabled
<1> HIDE DEF noted
<1>8. Begun(u, n, size, checked) /\ u.delta = size /\ First(u) /\ Len(u.code) = Len(noted.code) + 1
  <2>1. "args" \in Onward
    BY DEF Onward
  <2> QED BY <1>5, <1>7, <2>1
<1> HIDE DEF u
<1>9. Len(noted.code) \in Nat /\ (checked => Len(noted.code) > 0)
  BY <1>7 DEF Begun
<1>10. Len(u.code) > 0 /\ (checked => Len(u.code) >= 2 /\ u.code[1].k = "check")
  BY <1>8, <1>9
<1>11. Built(u, n, size, checked)
  BY <1>8, <1>10 DEF Begun, Built
<1> QED BY <1>1, <1>8, <1>11 DEF Begun, n, st

\* The code of a function is complete: it goes on where there is code, the
\* table follows the stack pointer, and the tail saves the arguments first.
Finished(e, n, size, checked) ==
  /\ Len(e.code) \in Nat /\ Len(e.code) > 0 /\ Lookup(e.rows, 0) = 0
  /\ \A c \in 0 .. Len(e.code) - 1 :
       /\ Flows(e.code[c + 1], c, Lookup(e.rows, c), Lookup(e.rows, c + 1), n, size, checked)
       /\ e.code[c + 1].k \in Away \/ c + 1 < Len(e.code)
  /\ \A b \in 1 .. n :
       /\ e.block[b] \in 0 .. Len(e.code) - 1 /\ Lookup(e.rows, e.block[b]) = size
       /\ checked => e.block[b] >= 2
  /\ checked => /\ e.code[1].k = "check" /\ e.growPC \in 2 .. Len(e.code) - 1
                /\ Lookup(e.rows, e.growPC) = 0 /\ e.code[e.growPC + 1].k = "save"

\* A complete code.
LEMMA BuiltFinished ==
  ASSUME NEW e, NEW n \in Nat, NEW size, NEW checked, Built(e, n, size, checked), Closed(e),
         \A b \in 1 .. n : e.block[b] # -1,
         checked => /\ e.growPC \in 2 .. Len(e.code) - 1
                    /\ Lookup(e.rows, e.growPC) = 0 /\ e.code[e.growPC + 1].k = "save"
  PROVE  Finished(e, n, size, checked)
<1> DEFINE m == Len(e.code)
<1>1. m \in Nat /\ m > 0 /\ Lookup(e.rows, 0) = 0 /\ (checked => e.code[1].k = "check")
  BY DEF Built, Tabled, IsSequence
<1>2. \A b \in 1 .. n : /\ e.block[b] \in 0 .. m - 1 /\ Lookup(e.rows, e.block[b]) = size
                        /\ checked => e.block[b] >= 2
  <2> TAKE b \in 1 .. n
  <2>1. Entered(e, b, size, checked)
    BY DEF Built
  <2>2. e.block[b] < m
    BY DEF Closed, Built
  <2> HIDE DEF m
  <2>3. e.block[b] \in 0 .. m
    BY <2>1 DEF Entered, m
  <2>4. e.block[b] \in 0 .. m - 1
    BY <1>1, <2>2, <2>3
  <2> QED BY <2>1, <2>4 DEF Entered
<1>3. \A c \in 0 .. m - 1 : e.code[c + 1].k \in Away \/ c + 1 < m
  <2> TAKE c \in 0 .. m - 1
  <2>1. c + 1 < m \/ c + 1 = m
    BY <1>1
  <2> QED BY <2>1 DEF Closed
<1>4. \A c \in 0 .. m - 1 : Flows(e.code[c + 1], c, Lookup(e.rows, c), Lookup(e.rows, c + 1), n, size, checked)
  BY DEF Built, Tabled
<1> QED BY <1>1, <1>2, <1>3, <1>4 DEF Finished

\* The tail completes the code of a function that checks its stack.
LEMMA GrowstackFinished ==
  ASSUME NEW f, NEW n \in Nat, NEW size \in Nat, NEW st, Built(st, n, size, TRUE), Closed(st),
         \A b \in 1 .. n : st.block[b] # -1
  PROVE  Finished(Growstack(st, f), n, size, TRUE)
<1> DEFINE args == RegArgs(f)
           m    == Len(st.code)
           at   == MarkSP(st, 0)
           save == Word(at, "save", NoId, NoId, args)
           more == Word(save, "more", NoId, NoId, {})
           back == Word(more, "reload", NoId, NoId, {})
           tail == Word(back, "again", NoId, NoId, args)
           note == [tail EXCEPT !.growPC = m]
           u    == Unsafe(note, m)
           saves == Instruction("save", NoId, NoId, args)
<1>1. Growstack(st, f) = u
  BY DEF Growstack, PC
<1> HIDE DEF args
<1>2. /\ IsState(at) /\ Tabled(at, n, size, TRUE) /\ m \in Nat
      /\ at.code = st.code /\ at.delta = 0 /\ at.block = st.block
      /\ \A c \in Nat : Lookup(at.rows, c) = IF c < m THEN Lookup(st.rows, c) ELSE 0
  BY MarkSPTabled DEF Built, Closed
<1> HIDE DEF at
<1>3. Lookup(at.rows, m) = 0
  BY <1>2
<1>4. Built(at, n, size, TRUE)
  <2>1. \A b \in 1 .. n : Entered(at, b, size, TRUE)
    <3> TAKE b \in 1 .. n
    <3>1. Entered(st, b, size, TRUE)
      BY DEF Built
    <3>2. st.block[b] < m
      BY DEF Closed, Built
    <3>3. st.block[b] \in Nat /\ st.block[b] \in 0 .. m
      BY <1>2, <3>1 DEF Entered
    <3>4. Lookup(at.rows, st.block[b]) = Lookup(st.rows, st.block[b])
      BY <1>2, <3>2, <3>3
    <3> QED BY <1>2, <3>1, <3>3, <3>4 DEF Entered
  <2>2. Len(st.code) > 0 /\ Len(st.code) >= 2 /\ st.code[1].k = "check" /\ DOMAIN st.block = 1 .. n
    BY DEF Built
  <2> QED BY <1>2, <2>1, <2>2 DEF Built
<1> DEFINE Next2(w, s, i) == Follows(w, s, i, n, size, TRUE)
<1>5. \A s, k, live : Built(s, n, size, TRUE) /\ k \in Onward =>
         Next2(Word(s, k, NoId, NoId, live), s, Instruction(k, NoId, NoId, live))
  <2> SUFFICES ASSUME NEW s, NEW k \in Onward, NEW live, Built(s, n, size, TRUE)
               PROVE  Next2(Word(s, k, NoId, NoId, live), s, Instruction(k, NoId, NoId, live))
    OBVIOUS
  <2>1. Flows(Instruction(k, NoId, NoId, live), Len(s.code), s.delta, s.delta, n, size, TRUE)
    BY DEF Flows, Instruction
  <2> QED BY <2>1, WordFollows
<1>6. "save" \in Onward /\ "more" \in Onward /\ "reload" \in Onward
  BY DEF Onward
<1>7. Next2(save, at, saves)
  <2> HIDE DEF Next2
  <2> QED BY <1>4, <1>5, <1>6
<1> HIDE DEF save, saves
<1>8. Next2(more, save, Instruction("more", NoId, NoId, {}))
  <2>1. Built(save, n, size, TRUE)
    BY <1>7 DEF Follows, Grown
  <2> HIDE DEF Next2
  <2> QED BY <1>5, <1>6, <2>1
<1> HIDE DEF more
<1>9. Next2(back, more, Instruction("reload", NoId, NoId, {}))
  <2>1. Built(more, n, size, TRUE)
    BY <1>8 DEF Follows, Grown
  <2> HIDE DEF Next2
  <2> QED BY <1>5, <1>6, <2>1
<1> HIDE DEF back
<1>10. Built(back, n, size, TRUE) /\ back.delta = 0 /\ back.rows = at.rows /\ back.block = st.block
  BY <1>2, <1>7, <1>8, <1>9 DEF Follows, Grown
<1>11. Len(back.code) = m + 3 /\ back.code[m + 1] = saves
  <2>1. Len(save.code) = m + 1 /\ save.code[m + 1] = saves
    BY <1>2, <1>7 DEF Follows
  <2>2. Len(more.code) = m + 2 /\ m + 1 \in 1 .. m + 1
    BY <1>2, <1>8, <2>1 DEF Follows
  <2>3. more.code[m + 1] = saves
    BY <1>8, <2>1, <2>2 DEF Follows
  <2>4. Len(back.code) = m + 3 /\ m + 1 \in 1 .. m + 2
    BY <1>2, <1>9, <2>2 DEF Follows
  <2>5. back.code[m + 1] = saves
    BY <1>9, <2>2, <2>3, <2>4 DEF Follows
  <2> QED BY <2>4, <2>5
<1> DEFINE i == Instruction("again", NoId, NoId, args)
<1>12. Flows(i, Len(back.code), back.delta, back.delta, n, size, TRUE)
  BY <1>10 DEF Flows, Instruction
<1>13. "again" \in Away
  BY DEF Away
<1>14. Follows(tail, back, i, n, size, TRUE)
  BY <1>10, <1>12, WordFollows
<1>15. /\ Len(tail.code) = Len(back.code) + 1 /\ tail.rows = back.rows
       /\ \A j \in 1 .. Len(back.code) : tail.code[j] = back.code[j]
       /\ Grown(tail, back, n, size, TRUE) /\ Closed(tail)
  BY <1>13, <1>14 DEF Follows, Instruction
<1> HIDE DEF tail, i
<1>16. IsState(tail)
  BY <1>15 DEF Grown, Built
<1>17. SameCode(note, tail) /\ note.growPC = m
  <2>1. IsState(note)
    BY <1>16, Zenon DEF IsState
  <2>2. note.code = tail.code /\ note.rows = tail.rows
    BY <1>16, Zenon DEF IsState
  <2>3. note.delta = tail.delta /\ note.block = tail.block
    BY <1>16, Zenon DEF IsState
  <2>4. note.growPC = m
    BY <1>16, Zenon DEF IsState
  <2> QED BY <2>1, <2>2, <2>3, <2>4 DEF SameCode
<1> HIDE DEF note
<1>18. SameCode(u, note) /\ u.growPC = m
  <2>0. IsState(note)
    BY <1>17 DEF SameCode
  <2>1. SameCode(u, note)
    BY <2>0, UnsafeFields
  <2>2. u.growPC = note.growPC
    BY <2>0, Zenon DEF IsState, Unsafe
  <2> QED BY <1>17, <2>1, <2>2
<1> HIDE DEF u
<1>19. SameCode(u, tail)
  BY <1>17, <1>18 DEF SameCode
<1>20. Grown(u, back, n, size, TRUE) /\ Closed(u)
  BY <1>15, <1>19, SameCodeGrown
<1>21. u.code = tail.code /\ u.rows = tail.rows /\ u.block = st.block
  BY <1>10, <1>15, <1>19 DEF SameCode, Grown
<1>22. m \in 2 .. Len(u.code) - 1
  <2>1. Len(u.code) = m + 4 /\ m >= 2
    BY <1>2, <1>11, <1>15, <1>21 DEF Built
  <2> QED BY <1>2, <2>1
<1>23. u.code[m + 1].k = "save"
  <2>1. m + 1 \in 1 .. m + 3
    BY <1>2
  <2>2. u.code[m + 1] = saves
    BY <1>11, <1>15, <1>21, <2>1
  <2> QED BY <2>2 DEF saves, Instruction
<1>24. Lookup(u.rows, m) = 0
  BY <1>3, <1>10, <1>15, <1>21
<1>25. Finished(u, n, size, TRUE)
  BY <1>18, <1>20, <1>21, <1>22, <1>23, <1>24, BuiltFinished DEF Grown
<1> QED BY <1>1, <1>25

\* The code of a function is complete.
LEMMA EmitFunctionFinished ==
  ASSUME NEW f, Sound(f), Covered(f), Len(f.vals) > 0, f.fr.size \in Nat, NEW checked \in BOOLEAN
  PROVE  Finished(EmitFunction(f, checked), Len(f.vals), f.fr.size, checked)
<1> DEFINE n == Len(f.vals)
           m == Len(f.layout)
           size == f.fr.size
           after == CHOOSE it : Arranged(f, checked, it)
           body == PadExit(after[m], f)
           Fits(s) == Built(s, n, size, checked) /\ (s.delta = size \/ Closed(s))
           Laid(s, k) == Fits(s) /\ \A j \in 1 .. k : s.block[f.layout[j]] # -1
<1>1. EmitFunction(f, checked) = IF checked THEN Growstack(body, f) ELSE body
  BY DEF EmitFunction, Arranged
<1>2. n \in Nat /\ m \in Nat /\ \A k \in 1 .. m : f.layout[k] \in 1 .. n
  BY SoundFacts DEF Sound, InOrder, IsSequence
<1>3. Arranged(f, checked, after)
  BY <1>2, ArrangedExists
<1> HIDE DEF after
<1>4. /\ after[0] = Prologue(Blank(f), f, f.fr, checked)
      /\ \A k \in 1 .. m : after[k] = EmitBlock(after[k - 1], f, f.fr, k)
  <2> DEFINE Put(at, k) == EmitBlock(at, f, f.fr, k)
             first == Prologue(Blank(f), f, f.fr, checked)
  <2>1. after = [k \in 0 .. m |-> IF k = 0 THEN first ELSE Put(after[k - 1], k)]
    BY <1>3 DEF Arranged
  <2> HIDE DEF Put, first, m
  <2>2. \A k \in 0 .. m : after[k] = IF k = 0 THEN first ELSE Put(after[k - 1], k)
    BY <2>1
  <2>3. 0 \in 0 .. m /\ \A k \in 1 .. m : k \in 0 .. m /\ k # 0
    BY <1>2
  <2> QED BY <2>2, <2>3 DEF Put, first
<1>5. Laid(after[0], 0)
  <2> DEFINE p == Prologue(Blank(f), f, f.fr, checked)
  <2>1. Built(p, n, size, checked) /\ p.delta = size
    <3>1. IsSequence(f.vals)
      BY DEF Sound, AreBlocks
    <3> QED BY <3>1, PrologueBuilt
  <2> HIDE DEF p
  <2> QED BY <1>4, <2>1 DEF p
<1> DEFINE Padded(s) == /\ Closed(PadExit(s, f)) /\ Built(PadExit(s, f), n, size, checked)
                      /\ PadExit(s, f).block = s.block
<1>6. ASSUME NEW k \in 1 .. m, Laid(after[k - 1], k - 1) PROVE Laid(after[k], k) /\ (k = m => Padded(after[k]))
  <2> DEFINE old == after[k - 1]
             x == EmitBlock(old, f, f.fr, k)
  <2>1. after[k] = x /\ Fits(old) /\ \A j \in 1 .. k - 1 : old.block[f.layout[j]] # -1
    BY <1>4, <1>6
  <2> HIDE DEF old
  <2>2. /\ Built(x, n, size, checked) /\ (x.delta = size \/ Closed(x))
        /\ x.block[f.layout[k]] # -1 /\ \A a \in 1 .. n : old.block[a] # -1 => x.block[a] # -1
        /\ k = m => Padded(x)
    <3>1. Built(old, Len(f.vals), f.fr.size, checked) /\ (old.delta = f.fr.size \/ Closed(old)) /\ k \in 1 .. Len(f.layout)
      BY <2>1
    <3>2. IsLaid(x, old, f, k, f.fr.size, checked)
      BY <3>1, EmitBlockBuilt
    <3> HIDE DEF x, n, m, size
    <3>3. IsLaid(x, old, f, k, size, checked)
      BY <3>2 DEF size
    <3> QED BY <3>3 DEF IsLaid, n, m
  <2> HIDE DEF x, Padded
  <2>3. \A j \in 1 .. k : x.block[f.layout[j]] # -1
    <3> TAKE j \in 1 .. k
    <3>1. j = k \/ j \in 1 .. k - 1
      OBVIOUS
    <3>2. j \in 1 .. m
      BY <1>2
    <3> QED BY <1>2, <2>1, <2>2, <3>1, <3>2
  <2> QED BY <2>1, <2>2, <2>3
<1> DEFINE P == {k \in Nat : k <= m => Laid(after[k], k)}
<1>7. \A k \in 0 .. m : Laid(after[k], k)
  <2> HIDE DEF Laid
  <2>1. 0 \in P
    BY <1>5
  <2>2. ASSUME NEW k \in Nat, k \in P PROVE k + 1 \in P
    <3>1. k + 1 \in Nat /\ (k + 1 <= m => k <= m /\ k + 1 \in 1 .. m /\ (k + 1) - 1 = k)
      BY <1>2
    <3>2. ASSUME k + 1 <= m PROVE Laid(after[k + 1], k + 1)
      <4> DEFINE j == k + 1
      <4>1. Laid(after[k], k) /\ j \in 1 .. m /\ j - 1 = k
        BY <2>2, <3>1, <3>2
      <4> HIDE DEF j
      <4>2. Laid(after[j], j)
        BY <1>6, <4>1
      <4> QED BY <4>2 DEF j
    <3> QED BY <3>1, <3>2
  <2> HIDE DEF P
  <2>3. \A k \in Nat : k \in P
    BY <2>1, <2>2, NumberInduction
  <2>4. \A k \in 0 .. m : k \in P /\ k <= m
    BY <1>2, <2>3
  <2> QED BY <2>4 DEF P
<1>8. m \in 1 .. m /\ m - 1 \in 0 .. m
  <2>1. 1 \in 1 .. n
    BY <1>2
  <2>2. \E k \in 1 .. m : f.layout[k] = 1
    BY <2>1 DEF Covered
  <2> QED BY <1>2, <2>2
<1> DEFINE last == after[m]
<1>9. Padded(last) /\ Laid(last, m)
  <2> HIDE DEF Laid, Padded
  <2>1. Laid(after[m - 1], m - 1)
    BY <1>7, <1>8
  <2> QED BY <1>6, <1>8, <2>1
<1> HIDE DEF last
<1>10. \A b \in 1 .. n : last.block[b] # -1
  <2> TAKE b \in 1 .. n
  <2>1. PICK k \in 1 .. m : f.layout[k] = b
    BY DEF Covered
  <2> QED BY <1>9, <2>1
<1>11. Closed(body) /\ Built(body, n, size, checked) /\ \A b \in 1 .. n : body.block[b] # -1
  BY <1>9, <1>10 DEF last
<1> HIDE DEF body
<1>12. CASE checked
  <2>1. Built(body, n, size, TRUE) /\ n \in Nat /\ size \in Nat /\ checked = TRUE
    BY <1>2, <1>11, <1>12
  <2>2. Finished(Growstack(body, f), n, size, TRUE)
    BY <1>11, <2>1, GrowstackFinished
  <2> QED BY <1>1, <2>1, <2>2
<1>13. CASE ~checked
  <2>1. EmitFunction(f, checked) = body
    BY <1>1, <1>13
  <2>2. Finished(body, n, size, checked)
    BY <1>2, <1>11, <1>13, BuiltFinished
  <2> QED BY <2>1, <2>2
<1> QED BY <1>12, <1>13

-----------------------------------------------------------------------------
(* What runs *)

\* The frame is laid out as the generator and the runtime both rely on, whatever
\* function is compiled and whatever it has besides.
THEOREM FrameIsWellPlaced == Spec => []FramePlaced
<1> DEFINE Compiled == /\ IsRecord(prog.f) /\ HasFrame(prog.f, prog.slots)
<1>1. Init => Compiled
  <2> SUFFICES ASSUME Init PROVE Compiled
    OBVIOUS
  <2>1. PICK n \in DOMAIN Programs, all \in BOOLEAN : prog = Compile(Programs[n], all)
    BY DEF Init
  <2> DEFINE source == Programs[n]
  <2>2. WellFormed(source)
    BY ProgramsAssumption
  <2> HIDE DEF source
  <2>3. PICK f : IsCompiled(source, f, Compile(source, all))
    BY <2>2, CompileFacts
  <2>4. IsCompiled(source, f, prog)
    BY <2>1, <2>3 DEF source
  <2>5. Ready(source, prog.f) /\ IsSequence(prog.slots)
    BY <2>4, AlikeIsReady DEF IsCompiled
  <2> QED BY <2>5, ReadyHasFrame DEF Ready, Sound
<1>2. Compiled /\ [Next]_vars => Compiled'
  <2> SUFFICES ASSUME Compiled, [Next]_vars PROVE Compiled'
    OBVIOUS
  <2>1. prog' = prog
    BY DEF Next, vars, Function, Callee, Collect, Check, Push, ZeroFrameObjects, EntryArgs, LoadArg, Load,
           StoreWord, CallBarrier, Call, Results, Branch, Copies, Jump, Pop, Ret, SaveArgs, CallMorestack,
           ReloadArgs, Again, CalleeGrows, CalleeStores, CalleeReturns, NewReturns, MorestackReturns,
           PeerReads, StartMark, ScanStack, ScanOthers, MarkObject, MarkTermination
  <2> QED BY <2>1
<1>3. Compiled => FramePlaced
  <2> SUFFICES ASSUME Compiled, NEW more \in BoundedSeq(Shapes, 2)
               PROVE  LET f == [prog.f EXCEPT !.objs = @ \o more] IN WellPlaced(f, LayoutFrame(f, prog.slots))
    BY DEF FramePlaced
  <2>1. more \in Seq(Shapes)
    <3>1. PICK m \in 0 .. 2 : more \in [1 .. m -> Shapes]
      BY DEF BoundedSeq, SeqOf
    <3>2. m \in Nat
      BY <3>1
    <3> QED BY <3>1, <3>2
  <2>2. IsSequence(more) /\ \A i \in 1 .. Len(more) : more[i] \in Shapes
    BY <2>1, ItemsOf
  <2>3. \A i \in 1 .. Len(more) : WellShaped(more[i])
    BY <2>2, ShapesAssumption
  <2> QED BY <2>2, <2>3, MoreObjects
<1> QED BY <1>1, <1>2, <1>3, PTL DEF Spec

-----------------------------------------------------------------------------
(* The growth check *)

\* Addresses, and no stack where the difference of a frame up to StackBig could
\* wrap.
Stack(size, sp, guard) ==
  /\ size \in Nat /\ sp \in 0 .. Space - 1 /\ guard \in 0 .. Space - 1
  /\ sp >= StackBig

\* A word that is not too large is itself.
LEMMA InSpace == ASSUME NEW x \in Int, 0 <= x, x < Space PROVE x % Space = x
  BY GrowthAssumption, SMT

\* The difference a larger frame compares does not wrap where it is compared.
LEMMA Difference ==
  ASSUME NEW size, NEW sp, NEW guard, Stack(size, sp, guard),
         size > StackSmall, sp >= size - StackSmall
  PROVE  (sp - (size - StackSmall)) % Space = sp - (size - StackSmall)
<1>1. /\ sp - (size - StackSmall) \in Int
      /\ 0 <= sp - (size - StackSmall)
      /\ sp - (size - StackSmall) < Space
  BY GrowthAssumption, SMT DEF Stack
<1> QED  BY <1>1, InSpace

\* A larger frame grows the stack exactly if it would end StackSmall bytes below
\* the guard or further down (ssagen/prologue.go, the second and third case of
\* prologue): neither wrap nor borrow makes the answer wrong in either direction.
THEOREM LargeExact ==
  ASSUME NEW size, NEW sp, NEW guard, Stack(size, sp, guard), size > StackSmall
  PROVE  NeedsMore(size, sp, guard) <=> sp - size <= guard - StackSmall
<1>1. CASE sp >= size - StackSmall
  <2>1. (sp - (size - StackSmall)) % Space = sp - (size - StackSmall)
    BY <1>1, Difference
  <2>2. NeedsMore(size, sp, guard) <=> sp - (size - StackSmall) <= guard
    <3>1. CASE size <= StackBig
      BY <2>1, <3>1, GrowthAssumption, SMT DEF NeedsMore, Stack
    <3>2. CASE size > StackBig
      BY <1>1, <2>1, <3>2, GrowthAssumption, SMT DEF NeedsMore, Stack
    <3> QED  BY <3>1, <3>2, GrowthAssumption, SMT DEF Stack
  <2> QED  BY <2>2, GrowthAssumption, SMT DEF Stack
<1>2. CASE sp < size - StackSmall
  <2>1. size > StackBig
    BY <1>2, GrowthAssumption, SMT DEF Stack
  <2>2. NeedsMore(size, sp, guard)
    BY <1>2, <2>1, GrowthAssumption, SMT DEF NeedsMore, Stack
  <2>3. sp - size <= guard - StackSmall
    BY <1>2, GrowthAssumption, SMT DEF Stack
  <2> QED  BY <2>2, <2>3
<1> QED  BY <1>1, <1>2, GrowthAssumption, SMT DEF Stack

\* A frame that the check lets through ends in the room the runtime keeps below
\* the guard, or above it (RoomBelow says it of the functions of a run).
THEOREM PassedHasRoom ==
  ASSUME NEW size, NEW sp, NEW guard, Stack(size, sp, guard), ~NeedsMore(size, sp, guard)
  PROVE  sp - size > guard - StackSmall
<1>1. CASE size <= StackSmall
  BY <1>1, GrowthAssumption, SMT DEF NeedsMore, Stack
<1>2. CASE size > StackSmall
  BY <1>2, LargeExact, GrowthAssumption, SMT DEF Stack
<1> QED  BY <1>1, <1>2, GrowthAssumption, SMT DEF Stack

\* A stack with the frame's bytes above its guard is not grown again, so that a
\* check which is repeated after each growth passes once the stack is large
\* enough (growstack goes back to the check).
THEOREM GrownPasses ==
  ASSUME NEW size, NEW sp, NEW guard, Stack(size, sp, guard), sp > guard + size
  PROVE  ~NeedsMore(size, sp, guard)
<1>1. CASE size <= StackSmall
  BY <1>1, GrowthAssumption, SMT DEF NeedsMore, Stack
<1>2. CASE size > StackSmall
  BY <1>2, LargeExact, GrowthAssumption, SMT DEF Stack
<1> QED  BY <1>1, <1>2, GrowthAssumption, SMT DEF Stack

-----------------------------------------------------------------------------
(* Return addresses and room *)

-----------------------------------------------------------------------------
(* The return addresses and the room *)

\* The kind of the instruction at c.
Kind(c) == prog.code[c + 1].k

\* The code is complete.
CodeOK == /\ prog.fr.size \in Nat /\ prog.checked \in BOOLEAN
          /\ Finished(prog, Len(prog.f.vals), prog.fr.size, prog.checked)

\* The fields of the stack that the proofs speak of.
HasStack(s) == /\ "gen" \in DOMAIN s /\ "sp" \in DOMAIN s /\ "guard" \in DOMAIN s /\ "pushed" \in DOMAIN s
               /\ "local" \in DOMAIN s /\ "in" \in DOMAIN s /\ "outer" \in DOMAIN s

\* The stack is an address range under a guard, and the code is somewhere.
StackOK == /\ HasStack(stack)
           /\ stack.sp \in StackBig .. Space - 1 /\ stack.guard \in {Guard, Preempt}
           /\ stack.pushed \in {0, prog.fr.size}
\* The program counter is in the code, or outside before and after.
PlaceOK == pc = -1 \/ pc \in 0 .. Len(prog.code) - 1

\* What the table says of the code that runs is what was pushed.
TableOK == pc # -1 => Lookup(prog.rows, pc) = stack.pushed

\* A call is under way at a call.
CallOK == callee # NoCall => pc # -1 /\ Kind(pc) \in {"call", "more"}

\* Where a frame is pushed after a check, the check passed and nothing changed
\* since.
PassedOK == pc = 1 /\ prog.checked /\ Kind(1) = "push" => ~NeedsMore(prog.fr.size, stack.sp, stack.guard)

\* The inductive invariant behind Unwinds and RoomBelow.
Rooms == /\ CodeOK /\ StackOK /\ PlaceOK /\ TableOK /\ CallOK /\ PassedOK /\ RoomBelow

\* Only the words of the stack are others.
SameStack(s, t) == HasStack(s) /\ s.sp = t.sp /\ s.guard = t.guard /\ s.pushed = t.pushed

\* What the code at pc does to the stack pointer.
LEMMA FlowHere ==
  ASSUME Rooms, pc # -1
  PROVE  /\ pc \in 0 .. Len(prog.code) - 1 /\ Len(prog.code) \in Nat
         /\ Flows(prog.code[pc + 1], pc, stack.pushed, Lookup(prog.rows, pc + 1), Len(prog.f.vals), prog.fr.size, prog.checked)
         /\ Kind(pc) \in Away \/ pc + 1 \in 0 .. Len(prog.code) - 1
         /\ prog.checked /\ pc = 0 => Kind(pc) = "check"
<1>1. pc \in 0 .. Len(prog.code) - 1 /\ Len(prog.code) \in Nat
  BY DEF Rooms, PlaceOK, CodeOK, Finished
<1>2. /\ Flows(prog.code[pc + 1], pc, Lookup(prog.rows, pc), Lookup(prog.rows, pc + 1), Len(prog.f.vals), prog.fr.size, prog.checked)
      /\ prog.code[pc + 1].k \in Away \/ pc + 1 < Len(prog.code)
  BY <1>1 DEF Rooms, CodeOK, Finished
<1>3. Lookup(prog.rows, pc) = stack.pushed
  BY DEF Rooms, TableOK
<1>4. prog.checked => prog.code[1].k = "check"
  BY DEF Rooms, CodeOK, Finished
<1> QED BY <1>1, <1>2, <1>3, <1>4 DEF Kind

\* The code goes on to c, with the stack as the table has it there.
LEMMA StepTo ==
  ASSUME Rooms, prog' = prog, NEW c \in 0 .. Len(prog.code) - 1, pc' = c, SameStack(stack', stack),
         Lookup(prog.rows, c) = stack.pushed, callee' = NoCall, prog.checked => c # 1
  PROVE  Rooms'
<1>1. CodeOK'
  BY DEF Rooms, CodeOK
<1>2. StackOK'
  BY DEF Rooms, StackOK, SameStack
<1>3. PlaceOK' /\ CallOK'
  BY DEF PlaceOK, CallOK
<1>4. TableOK' /\ RoomBelow'
  BY DEF Rooms, TableOK, RoomBelow, SameStack
<1>5. PassedOK'
  BY DEF PassedOK
<1> QED BY <1>1, <1>2, <1>3, <1>4, <1>5 DEF Rooms

\* The code goes on.
LEMMA StepOnward ==
  ASSUME Rooms, pc # -1, Kind(pc) \in Onward, prog' = prog, pc' = pc + 1, SameStack(stack', stack), callee' = NoCall
  PROVE  Rooms'
<1>0. Onward \cap {"check", "push", "pop", "branch", "jump", "ret", "nop", "again"} = {} /\ Onward \cap Away = {}
  BY DEF Onward, Away
<1>1. Lookup(prog.rows, pc + 1) = stack.pushed
  BY <1>0, FlowHere DEF Flows, Kind
<1>2. pc + 1 \in 0 .. Len(prog.code) - 1
  BY <1>0, FlowHere
<1>3. prog.checked => pc + 1 # 1
  BY <1>0, FlowHere
<1> QED BY <1>1, <1>2, <1>3, StepTo

\* A call is in progress, and goes on.
LEMMA StepInCall ==
  ASSUME Rooms, pc # -1, Kind(pc) \in {"call", "more"}, prog' = prog, pc' = pc, SameStack(stack', stack)
  PROVE  Rooms'
<1>1. CodeOK'
  BY DEF Rooms, CodeOK
<1>2. StackOK'
  BY DEF Rooms, StackOK, SameStack
<1>3. PlaceOK' /\ CallOK'
  BY DEF Rooms, PlaceOK, CallOK, Kind
<1>4. TableOK' /\ RoomBelow'
  BY DEF Rooms, TableOK, RoomBelow, SameStack
<1>5. PassedOK'
  BY DEF PassedOK, Kind
<1> QED BY <1>1, <1>2, <1>3, <1>4, <1>5 DEF Rooms

\* Words that are written to the stack move nothing.
LEMMA StoreKeeps ==
  ASSUME HasStack(stack), NEW a, NEW d, NEW w
  PROVE  SameStack(StackWith(a, d, w), stack)
<1>1. SameStack(stack, stack)
  BY DEF SameStack
<1>2. \A p : SameStack([stack EXCEPT !.local[p] = w], stack)
  <2> TAKE p
  <2> DEFINE s == [stack EXCEPT !.local[p] = w]
  <2>1. HasStack(s)
    BY Zenon DEF HasStack
  <2>2. s.sp = stack.sp /\ s.guard = stack.guard /\ s.pushed = stack.pushed
    BY Zenon DEF HasStack
  <2> QED BY <2>1, <2>2 DEF SameStack
<1>3. SameStack([stack EXCEPT !.outer = w], stack)
  <2> DEFINE s == [stack EXCEPT !.outer = w]
  <2>1. HasStack(s)
    BY Zenon DEF HasStack
  <2>2. s.sp = stack.sp /\ s.guard = stack.guard /\ s.pushed = stack.pushed
    BY Zenon DEF HasStack
  <2> QED BY <2>1, <2>2 DEF SameStack
<1> DEFINE p == a[4] + d * PtrSize
<1> HIDE DEF p
<1>4. \/ StackWith(a, d, w) = stack
      \/ StackWith(a, d, w) = [stack EXCEPT !.local[p] = w]
      \/ StackWith(a, d, w) = [stack EXCEPT !.outer = w]
  BY DEF StackWith, p
<1> QED BY <1>1, <1>2, <1>3, <1>4

\* So do those written to the locals, ...
LEMMA LocalKeeps ==
  ASSUME HasStack(stack), NEW words
  PROVE  SameStack([stack EXCEPT !.local = words], stack)
<1> DEFINE s == [stack EXCEPT !.local = words]
<1>1. HasStack(s)
  BY Zenon DEF HasStack
<1>2. s.sp = stack.sp /\ s.guard = stack.guard /\ s.pushed = stack.pushed
  BY Zenon DEF HasStack
<1> QED BY <1>1, <1>2 DEF SameStack

\* ... those saved in the area of the arguments, ...
LEMMA SavedKeeps ==
  ASSUME HasStack(stack), NEW area
  PROVE  SameStack([stack EXCEPT !.in = area], stack)
<1> DEFINE s == [stack EXCEPT !.in = area]
<1>1. HasStack(s)
  BY Zenon DEF HasStack
<1>2. s.sp = stack.sp /\ s.guard = stack.guard /\ s.pushed = stack.pushed
  BY Zenon DEF HasStack
<1> QED BY <1>1, <1>2 DEF SameStack

\* ... and those written to both on entry.
LEMMA EntryKeeps ==
  ASSUME HasStack(stack), NEW words, NEW area
  PROVE  SameStack([stack EXCEPT !.local = words, !.in = area], stack)
<1> DEFINE s == [stack EXCEPT !.local = words, !.in = area]
<1>1. HasStack(s)
  BY Zenon DEF HasStack
<1>2. s.sp = stack.sp /\ s.guard = stack.guard /\ s.pushed = stack.pushed
  BY Zenon DEF HasStack
<1> QED BY <1>1, <1>2 DEF SameStack

\* A copied stack has its addresses moved by as much.
LEMMA CopyKeeps ==
  ASSUME NEW s, HasStack(s)
  PROVE  SameStack(Copied(s), s)
<1> DEFINE t == Copied(s)
<1>1. HasStack(t)
  BY Zenon DEF HasStack, Copied
<1>2. t.sp = s.sp /\ t.guard = s.guard /\ t.pushed = s.pushed
  BY Zenon DEF HasStack, Copied
<1> QED BY <1>1, <1>2 DEF SameStack

\* A stack that does not change is the same.
LEMMA SameAsItself ==
  ASSUME HasStack(stack), stack' = stack
  PROVE  SameStack(stack', stack)
BY DEF SameStack

\* Where the code goes on at c by Goto, only words are written.
LEMMA GotoKeeps ==
  ASSUME HasStack(stack), NEW c, NEW words, Goto(c, words)
  PROVE  pc' = c /\ SameStack(stack', stack)
<1> DEFINE to == InSlots(stack.local, words)
<1>1. pc' = c /\ stack' = [stack EXCEPT !.local = to]
  BY DEF Goto
<1> HIDE DEF to
<1> QED BY <1>1, LocalKeeps

-----------------------------------------------------------------------------
(* The steps *)

\* Each step keeps Rooms: the check before the frame, ...
LEMMA CheckStep ==
  ASSUME Rooms, Check
  PROVE  Rooms'
<1>1. pc # -1 /\ Kind(pc) = "check" /\ callee' = NoCall /\ prog' = prog
  BY DEF Check, At, Kind, I
<1> DEFINE c == IF NeedsMore(prog.fr.size, stack.sp, stack.guard) THEN prog.growPC ELSE pc + 1
<1>2. HasStack(stack)
  BY DEF Rooms, StackOK
<1>3. pc' = c /\ SameStack(stack', stack)
  BY <1>2, GotoKeeps DEF Check
<1>4. /\ pc = 0 /\ prog.checked /\ stack.pushed = 0 /\ Lookup(prog.rows, pc + 1) = 0
      /\ pc + 1 \in 0 .. Len(prog.code) - 1
  <2>1. "check" \notin Onward /\ "check" \notin Away
    BY DEF Onward, Away
  <2> QED BY <1>1, <2>1, FlowHere DEF Flows, Kind
<1>5. CASE NeedsMore(prog.fr.size, stack.sp, stack.guard)
  <2>1. /\ prog.growPC \in 2 .. Len(prog.code) - 1 /\ Lookup(prog.rows, prog.growPC) = 0
    BY <1>4 DEF Rooms, CodeOK, Finished
  <2>2. c = prog.growPC /\ c \in 0 .. Len(prog.code) - 1 /\ c # 1
    BY <1>5, <2>1
  <2> QED BY <1>1, <1>3, <1>4, <2>1, <2>2, StepTo
<1>6. CASE ~NeedsMore(prog.fr.size, stack.sp, stack.guard)
  <2>1. pc' = 1 /\ pc + 1 = 1
    BY <1>3, <1>4, <1>6
  <2>2. CodeOK'
    BY <1>1 DEF Rooms, CodeOK
  <2>3. StackOK'
    BY <1>1, <1>3 DEF Rooms, StackOK, SameStack
  <2>4. PlaceOK' /\ CallOK'
    BY <1>1, <1>4, <2>1 DEF PlaceOK, CallOK
  <2>5. TableOK' /\ RoomBelow'
    BY <1>1, <1>3, <1>4, <2>1 DEF Rooms, TableOK, RoomBelow, SameStack
  <2>6. PassedOK'
    BY <1>1, <1>3, <1>6 DEF PassedOK, SameStack
  <2> QED BY <2>2, <2>3, <2>4, <2>5, <2>6 DEF Rooms
<1> QED BY <1>5, <1>6

\* ... pushing the frame, which the check let through, ...
LEMMA PushStep ==
  ASSUME Rooms, Push
  PROVE  Rooms'
<1>1. /\ pc # -1 /\ Kind(pc) = "push" /\ callee' = NoCall /\ prog' = prog /\ pc' = pc + 1
      /\ stack' = [stack EXCEPT !.pushed = prog.fr.size]
  BY DEF Push, At, Kind, I
<1>2. HasStack(stack)
  BY DEF Rooms, StackOK
<1>3. HasStack(stack') /\ stack'.sp = stack.sp /\ stack'.guard = stack.guard /\ stack'.pushed = prog.fr.size
  <2>1. HasStack(stack')
    BY <1>1, <1>2, Zenon DEF HasStack
  <2>2. stack'.sp = stack.sp /\ stack'.guard = stack.guard
    BY <1>1, <1>2, Zenon DEF HasStack
  <2>3. stack'.pushed = prog.fr.size
    BY <1>1, <1>2, Zenon DEF HasStack
  <2> QED BY <2>1, <2>2, <2>3
<1>4. /\ pc = (IF prog.checked THEN 1 ELSE 0) /\ Lookup(prog.rows, pc + 1) = prog.fr.size
      /\ pc + 1 \in 0 .. Len(prog.code) - 1
  <2>1. "push" \notin Onward /\ "push" \notin Away
    BY DEF Onward, Away
  <2> QED BY <1>1, <2>1, FlowHere DEF Flows, Kind
<1>5. CodeOK'
  BY <1>1 DEF Rooms, CodeOK
<1>6. StackOK'
  BY <1>1, <1>3 DEF Rooms, StackOK
<1>7. PlaceOK' /\ CallOK' /\ TableOK'
  BY <1>1, <1>3, <1>4 DEF PlaceOK, CallOK, TableOK
<1>8. PassedOK'
  BY <1>1, <1>4 DEF PassedOK
<1>9. RoomBelow'
  <2> SUFFICES ASSUME prog.checked PROVE stack.sp - prog.fr.size >= Guard - StackSmall
    BY <1>1, <1>3 DEF RoomBelow
  <2>1. ~NeedsMore(prog.fr.size, stack.sp, stack.guard)
    BY <1>1, <1>4 DEF Rooms, PassedOK, Kind
  <2>2. /\ Guard \in Nat /\ Guard < Space /\ stack.guard \in {Guard, Space - 1}
        /\ stack.sp \in StackBig .. Space - 1 /\ prog.fr.size \in Nat
    BY EntriesAssumption DEF Rooms, StackOK, CodeOK, Preempt
  <2>3. Stack(prog.fr.size, stack.sp, stack.guard)
    BY <2>2, GrowthAssumption DEF Stack
  <2>4. stack.sp - prog.fr.size > stack.guard - StackSmall
    BY <2>1, <2>3, PassedHasRoom
  <2> QED BY <2>2, <2>4, GrowthAssumption
<1> QED BY <1>5, <1>6, <1>7, <1>8, <1>9 DEF Rooms

\* ... popping it, ...
LEMMA PopStep ==
  ASSUME Rooms, Pop
  PROVE  Rooms'
<1>1. /\ pc # -1 /\ Kind(pc) = "pop" /\ callee' = NoCall /\ prog' = prog /\ pc' = pc + 1
      /\ stack' = [stack EXCEPT !.pushed = 0]
  BY DEF Pop, At, Kind, I
<1>2. HasStack(stack)
  BY DEF Rooms, StackOK
<1>3. HasStack(stack') /\ stack'.sp = stack.sp /\ stack'.guard = stack.guard /\ stack'.pushed = 0
  <2>1. HasStack(stack')
    BY <1>1, <1>2, Zenon DEF HasStack
  <2>2. stack'.sp = stack.sp /\ stack'.guard = stack.guard
    BY <1>1, <1>2, Zenon DEF HasStack
  <2>3. stack'.pushed = 0
    BY <1>1, <1>2, Zenon DEF HasStack
  <2> QED BY <2>1, <2>2, <2>3
<1>4. /\ Lookup(prog.rows, pc + 1) = 0 /\ pc + 1 \in 0 .. Len(prog.code) - 1
      /\ pc \in 0 .. Len(prog.code) - 1 /\ (prog.checked => pc # 0)
  <2>1. "pop" \notin Onward /\ "pop" \notin Away
    BY DEF Onward, Away
  <2> QED BY <1>1, <2>1, FlowHere DEF Flows, Kind
<1>5. CodeOK'
  BY <1>1 DEF Rooms, CodeOK
<1>6. StackOK'
  BY <1>1, <1>3 DEF Rooms, StackOK
<1>7. PlaceOK' /\ CallOK' /\ TableOK'
  BY <1>1, <1>3, <1>4 DEF PlaceOK, CallOK, TableOK
<1>8. PassedOK' /\ RoomBelow'
  <2>1. prog.checked => pc + 1 # 1
    BY <1>4
  <2> QED BY <1>1, <1>3, <2>1 DEF PassedOK, RoomBelow
<1> QED BY <1>5, <1>6, <1>7, <1>8 DEF Rooms

\* (a block begins in the code, with the frame pushed)
LEMMA BlockThere ==
  ASSUME Rooms, NEW b \in 1 .. Len(prog.f.vals)
  PROVE  /\ prog.block[b] \in 0 .. Len(prog.code) - 1 /\ Lookup(prog.rows, prog.block[b]) = prog.fr.size
         /\ prog.checked => prog.block[b] # 1
<1>1. /\ prog.block[b] \in 0 .. Len(prog.code) - 1 /\ Lookup(prog.rows, prog.block[b]) = prog.fr.size
      /\ prog.checked => prog.block[b] >= 2
  BY DEF Rooms, CodeOK, Finished
<1> QED BY <1>1

\* ... the branches ...
LEMMA BranchStep ==
  ASSUME Rooms, Branch
  PROVE  Rooms'
<1>1. pc # -1 /\ Kind(pc) = "branch" /\ callee' = NoCall /\ prog' = prog
  BY DEF Branch, At, Kind, I
<1>2. HasStack(stack)
  BY DEF Rooms, StackOK
<1>3. SameStack(stack', stack) /\ (pc' = pc + 1 \/ pc' = prog.block[I.to])
  <2> DEFINE c == IF Operand(1) \in {Nil, <<"int", 0>>} THEN pc + 1 ELSE prog.block[I.to]
  <2>1. pc' = c /\ SameStack(stack', stack)
    <3>1. Goto(c, <<>>)
      BY DEF Branch
    <3> HIDE DEF c
    <3> QED BY <1>2, <3>1, GotoKeeps
  <2> QED BY <2>1
<1>4. /\ I.to \in 1 .. Len(prog.f.vals) /\ stack.pushed = prog.fr.size
      /\ Lookup(prog.rows, pc + 1) = prog.fr.size
      /\ pc + 1 \in 0 .. Len(prog.code) - 1 /\ (prog.checked => pc + 1 # 1)
  <2>1. "branch" \notin Onward /\ "branch" \notin Away
    BY DEF Onward, Away
  <2>2. prog.checked => pc # 0
    BY <1>1, FlowHere
  <2>3. /\ I.to \in 1 .. Len(prog.f.vals) /\ stack.pushed = prog.fr.size
        /\ Lookup(prog.rows, pc + 1) = prog.fr.size
        /\ pc + 1 \in 0 .. Len(prog.code) - 1 /\ pc \in 0 .. Len(prog.code) - 1
    BY <1>1, <2>1, FlowHere DEF Flows, Kind, I
  <2> QED BY <2>2, <2>3
<1>5. CASE pc' = pc + 1
  BY <1>1, <1>3, <1>4, <1>5, StepTo
<1>6. CASE pc' = prog.block[I.to]
  <2> DEFINE c == prog.block[I.to]
  <2>1. c \in 0 .. Len(prog.code) - 1 /\ Lookup(prog.rows, c) = prog.fr.size /\ (prog.checked => c # 1)
    BY <1>4, BlockThere
  <2>2. pc' = c
    BY <1>6
  <2> HIDE DEF c
  <2> QED BY <1>1, <1>3, <1>4, <2>1, <2>2, StepTo
<1> QED BY <1>3, <1>5, <1>6

\* ... and jumps to such blocks, ...
LEMMA JumpStep ==
  ASSUME Rooms, Jump
  PROVE  Rooms'
<1>1. pc # -1 /\ Kind(pc) = "jump" /\ callee' = NoCall /\ prog' = prog
  BY DEF Jump, At, Kind, I
<1>2. HasStack(stack)
  BY DEF Rooms, StackOK
<1> DEFINE c == prog.block[I.to]
<1>3. SameStack(stack', stack) /\ pc' = c
  BY <1>2, GotoKeeps DEF Jump
<1>4. I.to \in 1 .. Len(prog.f.vals) /\ stack.pushed = prog.fr.size
  <2>1. "jump" \notin Onward
    BY DEF Onward
  <2> QED BY <1>1, <2>1, FlowHere DEF Flows, Kind, I
<1>5. c \in 0 .. Len(prog.code) - 1 /\ Lookup(prog.rows, c) = prog.fr.size /\ (prog.checked => c # 1)
  BY <1>4, BlockThere
<1> HIDE DEF c
<1> QED BY <1>1, <1>3, <1>4, <1>5, StepTo

\* ... the return, with the stack pointer back where it was, ...
LEMMA RetStep ==
  ASSUME Rooms, Ret
  PROVE  Rooms'
<1>1. pc' = -1 /\ prog' = prog /\ stack' = stack /\ callee' = callee /\ callee = NoCall
  BY DEF Ret, At
<1>2. CodeOK' /\ StackOK' /\ PlaceOK' /\ RoomBelow'
  BY <1>1 DEF Rooms, CodeOK, StackOK, PlaceOK, RoomBelow
<1>3. TableOK' /\ CallOK' /\ PassedOK'
  BY <1>1 DEF TableOK, CallOK, PassedOK
<1> QED BY <1>2, <1>3 DEF Rooms

\* ... the jump back to the check, ...
LEMMA AgainStep ==
  ASSUME Rooms, Again
  PROVE  Rooms'
<1>1. pc # -1 /\ Kind(pc) = "again" /\ callee' = NoCall /\ prog' = prog /\ pc' = 0 /\ stack' = stack
  BY DEF Again, At, Kind, I
<1>2. SameStack(stack', stack)
  BY <1>1 DEF Rooms, StackOK, SameStack
<1>3. stack.pushed = 0
  <2>1. "again" \notin Onward
    BY DEF Onward
  <2> QED BY <1>1, <2>1, FlowHere DEF Flows, Kind
<1>4. 0 \in 0 .. Len(prog.code) - 1 /\ Lookup(prog.rows, 0) = 0
  BY DEF Rooms, CodeOK, Finished
<1> QED BY <1>1, <1>2, <1>3, <1>4, StepTo

\* ... the instructions that go on to the next one, ...
LEMMA WordSteps ==
  ASSUME Rooms, ZeroFrameObjects \/ EntryArgs \/ LoadArg \/ Load \/ StoreWord \/ CallBarrier
                \/ Results \/ Copies \/ SaveArgs \/ ReloadArgs
  PROVE  Rooms'
<1>0. HasStack(stack) /\ {"zero", "args", "loadarg", "load", "flag", "store", "call", "results", "copies", "save", "reload"} \subseteq Onward
  BY DEF Rooms, StackOK, Onward
<1>a. \A k : At(k) => pc # -1 /\ callee = NoCall /\ Kind(pc) = k
  BY DEF At, Kind, I
<1>1. /\ pc # -1 /\ callee' = NoCall /\ prog' = prog
      /\ Kind(pc) \in {"zero", "args", "loadarg", "load", "flag", "store", "call", "results", "copies", "save", "reload"}
  <2>1. CASE ZeroFrameObjects
    BY <1>a, <2>1 DEF ZeroFrameObjects
  <2>2. CASE EntryArgs
    BY <1>a, <2>2 DEF EntryArgs
  <2>3. CASE LoadArg
    BY <1>a, <2>3 DEF LoadArg
  <2>4. CASE Load
    BY <1>a, <2>4 DEF Load
  <2>5. CASE StoreWord
    BY <1>a, <2>5 DEF StoreWord
  <2>6. CASE CallBarrier
    BY <1>a, <2>6 DEF CallBarrier
  <2>7. CASE Results
    BY <1>a, <2>7 DEF Results
  <2>8. CASE Copies
    <3>1. At("copies") /\ UNCHANGED <<prog, callee>>
      BY <2>8 DEF Copies
    <3> QED BY <1>a, <3>1
  <2>9. CASE SaveArgs
    BY <1>a, <2>9 DEF SaveArgs
  <2>10. CASE ReloadArgs
    BY <1>a, <2>10 DEF ReloadArgs
  <2> QED BY <2>1, <2>2, <2>3, <2>4, <2>5, <2>6, <2>7, <2>8, <2>9, <2>10
<1>2. pc' = pc + 1 /\ SameStack(stack', stack)
  <2>1. CASE ZeroFrameObjects
    <3> DEFINE words == [o \in DOMAIN stack.local |-> IF o \in Cleared THEN Nil ELSE stack.local[o]]
    <3>1. pc' = pc + 1 /\ stack' = [stack EXCEPT !.local = words]
      BY <2>1 DEF ZeroFrameObjects
    <3> HIDE DEF words
    <3> QED BY <1>0, <3>1, LocalKeeps
  <2>2. CASE EntryArgs
    <3>1. PICK words, area : pc' = pc + 1 /\ stack' = [stack EXCEPT !.local = words, !.in = area]
      BY <2>2 DEF EntryArgs
    <3> QED BY <1>0, <3>1, EntryKeeps
  <2>3. CASE LoadArg
    BY <1>0, <2>3, GotoKeeps DEF LoadArg
  <2>4. CASE Load
    BY <1>0, <2>4, GotoKeeps DEF Load
  <2>5. CASE StoreWord
    BY <1>0, <2>5, StoreKeeps DEF StoreWord
  <2>6. CASE CallBarrier
    BY <1>0, <2>6, SameAsItself DEF CallBarrier
  <2>7. CASE Results
    BY <1>0, <2>7, GotoKeeps DEF Results
  <2>8. CASE Copies
    <3> DEFINE words == [phi \in Phis(prog.f, prog.f.succs[I.to][1]) |-> Read(EdgeArg(prog.f, I.to, 1, phi))]
    <3>1. Goto(pc + 1, words)
      BY <2>8 DEF Copies
    <3> HIDE DEF words
    <3> QED BY <1>0, <3>1, GotoKeeps
  <2>9. CASE SaveArgs
    <3> DEFINE area == Saved(stack.in, RegArgs(prog.f))
    <3>1. pc' = pc + 1 /\ stack' = [stack EXCEPT !.in = area]
      BY <2>9 DEF SaveArgs
    <3> HIDE DEF area
    <3> QED BY <1>0, <3>1, SavedKeeps
  <2>10. CASE ReloadArgs
    BY <1>0, <2>10, SameAsItself DEF ReloadArgs
  <2> QED BY <2>1, <2>2, <2>3, <2>4, <2>5, <2>6, <2>7, <2>8, <2>9, <2>10
<1> QED BY <1>0, <1>1, <1>2, StepOnward

\* ... the calls ...
LEMMA CallSteps ==
  ASSUME Rooms, Call \/ CallMorestack
  PROVE  Rooms'
<1>1. /\ pc # -1 /\ Kind(pc) \in {"call", "more"} /\ prog' = prog /\ pc' = pc /\ stack' = stack
  BY DEF Call, CallMorestack, At, Kind, I
<1>2. SameStack(stack', stack)
  BY <1>1, SameAsItself DEF Rooms, StackOK
<1> QED BY <1>1, <1>2, StepInCall

\* A callee that runs grows the stack or stores to it.
LEMMA RunningSteps ==
  ASSUME Rooms, CalleeGrows \/ CalleeStores
  PROVE  Rooms'
<1>1. callee # NoCall
  BY DEF CalleeGrows, CalleeStores, CalleeRuns, InCall, NoCall
<1>2. HasStack(stack) /\ pc # -1 /\ Kind(pc) \in {"call", "more"}
  BY <1>1 DEF Rooms, StackOK, CallOK
<1>3. prog' = prog /\ pc' = pc
  BY DEF CalleeGrows, CalleeStores
<1>4. SameStack(stack', stack)
  <2>1. CASE CalleeGrows
    BY <1>2, <2>1, CopyKeeps DEF CalleeGrows
  <2>2. CASE CalleeStores
    <3>1. PICK a, h : stack' = StackWith(a, 0, <<"heap", h>>)
      BY <2>2 DEF CalleeStores
    <3> QED BY <1>2, <3>1, StoreKeeps
  <2> QED BY <2>1, <2>2
<1> QED BY <1>2, <1>3, <1>4, StepInCall

\* ... and their returns, ...
LEMMA ReturnSteps ==
  ASSUME Rooms, CalleeReturns \/ NewReturns
  PROVE  Rooms'
<1>1. callee # NoCall
  BY DEF CalleeReturns, NewReturns, InCall, NoCall
<1>2. HasStack(stack) /\ pc # -1 /\ Kind(pc) \in Onward
  BY <1>1 DEF Rooms, StackOK, CallOK, Onward
<1>3. prog' = prog /\ pc' = pc + 1 /\ callee' = NoCall /\ stack' = stack
  BY DEF CalleeReturns, NewReturns, Returned
<1>4. SameStack(stack', stack)
  BY <1>2, <1>3, SameAsItself
<1> QED BY <1>2, <1>3, <1>4, StepOnward

\* The runtime gives the goroutine more room, and never less.
LEMMA MorestackStep ==
  ASSUME Rooms, MorestackReturns
  PROVE  Rooms'
<1>1. callee # NoCall /\ prog' = prog /\ pc' = pc + 1 /\ callee' = NoCall
  BY DEF MorestackReturns, InCall, NoCall, Returned
<1>2. HasStack(stack) /\ pc # -1 /\ Kind(pc) \in {"call", "more"}
  BY <1>1 DEF Rooms, StackOK, CallOK
<1>3. /\ Lookup(prog.rows, pc + 1) = stack.pushed /\ pc + 1 \in 0 .. Len(prog.code) - 1
      /\ prog.checked => pc + 1 # 1
  <2>1. Kind(pc) \in Onward /\ Kind(pc) \notin Away
        /\ Kind(pc) \notin {"check", "push", "pop", "branch", "jump", "ret", "nop", "again"}
    BY <1>2 DEF Onward, Away
  <2>2. pc \in 0 .. Len(prog.code) - 1 /\ (prog.checked => pc # 0)
    BY <1>2, <2>1, FlowHere
  <2> QED BY <1>2, <2>1, <2>2, FlowHere DEF Flows, Kind
<1>4. /\ HasStack(stack') /\ stack'.pushed = stack.pushed
      /\ stack'.sp \in StackBig .. Space - 1 /\ stack'.sp >= stack.sp /\ stack'.guard \in {Guard, Preempt}
  <2>0. stack.sp \in StackBig .. Space - 1 /\ StackBig \in Nat /\ GrowBy \in Nat /\ Space \in Nat
    BY GrowthAssumption, EntriesAssumption DEF Rooms, StackOK
  <2>1. CASE stack.guard = Preempt
    <3>1. stack' = [stack EXCEPT !.guard = Guard]
      BY <2>1 DEF MorestackReturns
    <3>2. HasStack(stack')
      BY <1>2, <3>1, Zenon DEF HasStack
    <3>3. stack'.pushed = stack.pushed /\ stack'.sp = stack.sp /\ stack'.guard = Guard
      BY <1>2, <3>1, Zenon DEF HasStack
    <3> QED BY <2>0, <3>2, <3>3
  <2>2. CASE stack.guard # Preempt
    <3> DEFINE s == Copied(stack)
    <3>1. stack' = [s EXCEPT !.sp = s.sp + GrowBy] /\ stack.sp + GrowBy < Space
      BY <2>2 DEF MorestackReturns
    <3>2. SameStack(s, stack)
      BY <1>2, CopyKeeps
    <3> HIDE DEF s
    <3>3. HasStack(s) /\ s.sp = stack.sp /\ s.guard = stack.guard /\ s.pushed = stack.pushed
      BY <3>2 DEF SameStack
    <3>4. HasStack(stack')
      BY <3>1, <3>3, Zenon DEF HasStack
    <3>5. stack'.pushed = s.pushed /\ stack'.sp = s.sp + GrowBy /\ stack'.guard = s.guard
      BY <3>1, <3>3, Zenon DEF HasStack
    <3>6. stack.guard \in {Guard, Preempt}
      BY DEF Rooms, StackOK
    <3> QED BY <2>0, <3>1, <3>3, <3>4, <3>5, <3>6
  <2> QED BY <2>1, <2>2
<1>5. CodeOK'
  BY <1>1 DEF Rooms, CodeOK
<1>6. StackOK'
  BY <1>1, <1>4 DEF Rooms, StackOK
<1>7. PlaceOK' /\ CallOK' /\ TableOK'
  BY <1>1, <1>3, <1>4 DEF PlaceOK, CallOK, TableOK
<1>8. PassedOK'
  BY <1>1, <1>3 DEF PassedOK
<1>9. RoomBelow'
  <2>1. stack.pushed \in Nat /\ stack.sp \in Int /\ stack'.sp \in Int /\ Guard \in Int /\ StackSmall \in Int
    BY <1>4, GrowthAssumption, EntriesAssumption DEF Rooms, CodeOK, StackOK
  <2>2. stack.pushed > 0 /\ prog.checked => stack.sp - stack.pushed >= Guard - StackSmall
    BY DEF Rooms, RoomBelow
  <2> QED BY <1>1, <1>4, <2>1, <2>2 DEF RoomBelow
<1> QED BY <1>5, <1>6, <1>7, <1>8, <1>9 DEF Rooms

\* Nothing else moves the stack or the code.
LEMMA Unmoved ==
  ASSUME Rooms, UNCHANGED <<prog, pc, callee, stack>>
  PROVE  Rooms'
<1>1. prog' = prog /\ pc' = pc /\ callee' = callee /\ stack' = stack
  OBVIOUS
<1>2. CodeOK' /\ StackOK' /\ PlaceOK' /\ RoomBelow'
  BY <1>1 DEF Rooms, CodeOK, StackOK, PlaceOK, RoomBelow
<1>3. TableOK' /\ CallOK' /\ PassedOK'
  BY <1>1 DEF Rooms, TableOK, CallOK, PassedOK, Kind
<1> QED BY <1>2, <1>3 DEF Rooms

\* Every compiled function begins with Rooms.
LEMMA RoomsAtFirst ==
  ASSUME Init
  PROVE  Rooms
<1>1. PICK n \in DOMAIN Programs, all \in BOOLEAN :
         /\ prog = Compile(Programs[n], all)
         /\ \E e \in Entries : \E loc, area :
              stack = [gen |-> 0, sp |-> Guard + e[1], guard |-> IF e[2] THEN Preempt ELSE Guard, pushed |-> 0,
                       local |-> loc, in |-> area, outer |-> Nil]
  BY Zenon DEF Init
<1> DEFINE source == Programs[n]
<1>2. WellFormed(source)
  BY ProgramsAssumption
<1> HIDE DEF source
<1>3. PICK f : IsCompiled(source, f, Compile(source, all))
  BY <1>2, CompileFacts
<1>4. IsCompiled(source, f, prog)
  BY <1>1, <1>3 DEF source
<1>5. CodeOK
  <2> DEFINE e == EmitFunction(f, prog.checked)
  <2>1. prog.checked \in BOOLEAN /\ f.fr.size \in Nat
    BY <1>4 DEF IsCompiled, SkipsCheck
  <2>2. Finished(e, Len(f.vals), f.fr.size, prog.checked)
    BY <1>4, <2>1, EmitFunctionFinished DEF IsCompiled, Ready
  <2>3. /\ prog.code = e.code /\ prog.rows = e.rows /\ prog.block = e.block /\ prog.growPC = e.growPC
        /\ prog.fr = f.fr /\ prog.f.vals = f.vals
    BY <1>4 DEF IsCompiled, Alike, Parts
  <2> HIDE DEF e
  <2> QED BY <2>1, <2>2, <2>3 DEF CodeOK, Finished
<1>6. StackOK /\ stack.pushed = 0
  <2>1. PICK e \in Entries : \E loc, area :
           stack = [gen |-> 0, sp |-> Guard + e[1], guard |-> IF e[2] THEN Preempt ELSE Guard, pushed |-> 0,
                    local |-> loc, in |-> area, outer |-> Nil]
    BY <1>1
  <2>2. HasStack(stack) /\ stack.sp = Guard + e[1] /\ stack.guard \in {Guard, Preempt} /\ stack.pushed = 0
    BY <2>1 DEF HasStack
  <2>3. Guard + e[1] \in StackBig .. Space - 1
    BY EntriesAssumption
  <2> QED BY <2>2, <2>3 DEF StackOK
<1>7. pc = 0 /\ callee = NoCall
  BY DEF Init
<1>8. PlaceOK /\ TableOK /\ CallOK
  BY <1>5, <1>6, <1>7 DEF PlaceOK, TableOK, CallOK, CodeOK, Finished
<1>9. PassedOK /\ RoomBelow
  BY <1>6, <1>7 DEF PassedOK, RoomBelow
<1> QED BY <1>5, <1>6, <1>8, <1>9 DEF Rooms

\* Rooms is an invariant.
THEOREM RoomsHold == Spec => []Rooms
<1>1. Init => Rooms
  BY RoomsAtFirst
<1>2. Rooms /\ [Next]_vars => Rooms'
  <2> SUFFICES ASSUME Rooms, [Next]_vars PROVE Rooms'
    OBVIOUS
  <2>1. CASE Function
    BY <2>1, CheckStep, PushStep, PopStep, BranchStep, JumpStep, RetStep, AgainStep, WordSteps, CallSteps
       DEF Function
  <2>2. CASE Callee
    BY <2>2, RunningSteps, ReturnSteps, MorestackStep DEF Callee
  <2>3. CASE PeerReads \/ StartMark \/ Collect
    BY <2>3, Unmoved DEF PeerReads, StartMark, Collect, ScanStack, ScanOthers, MarkObject, MarkTermination
  <2>4. CASE UNCHANGED vars
    BY <2>4, Unmoved DEF vars
  <2> QED BY <2>1, <2>2, <2>3, <2>4 DEF Next
<1> QED BY <1>1, <1>2, PTL DEF Spec

\* Whenever a call is under way, the table tells the unwinder how far the return address is
\* above the stack pointer: the rows the emitter recorded (pcdata, the stack delta of every
\* program counter) are the moves the code makes, for every well-formed function, any frame
\* and any layout of the blocks.
THEOREM ReturnAddressesUnwind == Spec => []Unwinds
<1>1. Rooms => Unwinds
  <2> SUFFICES ASSUME Rooms, callee # NoCall PROVE Lookup(prog.rows, pc + 1) = stack.pushed
    BY DEF Unwinds
  <2>1. pc # -1 /\ Kind(pc) \in {"call", "more"}
    BY DEF Rooms, CallOK
  <2> QED BY <2>1, FlowHere DEF Flows, Kind
<1> QED BY <1>1, RoomsHold, PTL

\* A pushed frame ends in the room the runtime keeps below the guard or above it, for every
\* function, every size of a frame and wherever the stack is (prologue.go).
THEOREM PushedHasRoom == Spec => []RoomBelow
<1>1. Rooms => RoomBelow
  BY DEF Rooms
<1> QED BY <1>1, RoomsHold, PTL
=============================================================================
