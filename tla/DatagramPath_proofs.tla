------------------------ MODULE DatagramPath_proofs ------------------------
(***************************************************************************)
(* What is assembled, counted, replayed and echoed, for any sizes, payload *)
(* limits and memories.                                                    *)
(***************************************************************************)
EXTENDS DatagramPath, FiniteSetTheorems, WellFoundedInduction, TLAPS

-----------------------------------------------------------------------------
(***************************************************************************)
(* Cutting.                                                                *)
(***************************************************************************)

\* Whole multiples are compared by their factors.
LEMMA Multiples ==
    ASSUME NEW a \in Nat, NEW b \in Nat, NEW c \in Nat, a <= b
    PROVE  a * c <= b * c /\ a * c \in Nat /\ b * c \in Nat
<1>1. PICK k \in Nat : b = a + k
  <2>1. b - a \in Nat /\ b = a + (b - a)
    OBVIOUS
  <2>. QED
    BY <2>1
<1>2. b * c = a * c + k * c
  BY <1>1
<1>3. a * c \in Nat /\ k * c \in Nat /\ b * c \in Nat
  OBVIOUS
<1>. QED
  BY <1>2, <1>3

\* The fragments suffice for all bytes, and without the last they do not.
LEMMA CountIsExact ==
    ASSUME NEW size \in Nat \ {0}, NEW max \in Nat \ {0}
    PROVE  LET n == FragmentCount(size, max)
           IN  n \in Nat \ {0} /\ size <= n * max /\ (n - 1) * max < size
<1>. DEFINE q == (size + (max - 1)) \div max
            r == (size + (max - 1)) % max
<1>1. FragmentCount(size, max) = q
  BY DEF FragmentCount
<1>2. q \in Nat /\ r \in 0 .. max - 1 /\ size + (max - 1) = max * q + r
  OBVIOUS
<1>. HIDE DEF q, r
<1>3. q # 0
  BY <1>2
<1>4. q * max = max * q /\ (q - 1) * max = max * q - max
  BY <1>2
<1>5. q * max \in Nat
  BY <1>2
<1>. QED
  BY <1>1, <1>2, <1>3, <1>4, <1>5

\* Pieces lie end to end from the first byte to the last.
LEMMA PiecesAdjoin ==
    ASSUME NEW size \in Nat \ {0}, NEW max \in Nat \ {0},
           NEW i \in 0 .. FragmentCount(size, max) - 1
    PROVE  AtMost((i + 1) * max, size) =
              IF i + 1 = FragmentCount(size, max) THEN size ELSE (i + 1) * max
<1>. DEFINE n == FragmentCount(size, max)
<1>1. n \in Nat \ {0} /\ size <= n * max /\ (n - 1) * max < size
  BY CountIsExact
<1>. HIDE DEF n
<1>2. CASE i + 1 = n
  <2>1. n * max \in Nat
    BY <1>1, Multiples
  <2>. QED
    BY <1>1, <1>2, <2>1 DEF AtMost, n
<1>3. CASE i + 1 # n
  <2>1. i + 1 \in Nat /\ n - 1 \in Nat /\ i + 1 <= n - 1
    BY <1>1, <1>3 DEF n
  <2>2. (i + 1) * max <= (n - 1) * max /\ (i + 1) * max \in Nat /\ (n - 1) * max \in Nat
    BY <2>1, Multiples
  <2>. QED
    BY <1>1, <1>3, <2>2 DEF AtMost, n
<1>. QED
  BY <1>2, <1>3

\* What a fragment says of the instruction it was cut from.
LEMMA CutFacts ==
    ASSUME NEW id \in Nat, NEW size \in Nat \ {0}, NEW max \in Nat \ {0},
           NEW i \in 0 .. FragmentCount(size, max) - 1
    PROVE  LET f == Cut(id, i, size, max)
           IN  /\ f \in Fragment /\ f.id = id /\ f.num = i
               /\ f.final <=> i + 1 = FragmentCount(size, max)
               /\ f.payload.of = id /\ f.payload.from = i * max
               /\ f.payload.to = IF f.final THEN size ELSE (i + 1) * max
               /\ f.payload.from <= f.payload.to
<1>. DEFINE n == FragmentCount(size, max)
            f == Cut(id, i, size, max)
            to == AtMost((i + 1) * max, size)
            from == i * max
            final == i + 1 = n
<1>1. n \in Nat \ {0} /\ (n - 1) * max < size
  BY CountIsExact
<1>2. f = [id |-> id, num |-> i, final |-> final,
           payload |-> [of |-> id, from |-> from, to |-> to]]
  BY DEF Cut
<1>3. to = IF final THEN size ELSE (i + 1) * max
  BY PiecesAdjoin
<1>4. from \in Nat /\ to \in Nat /\ from <= to
  <2>. HIDE DEF n
  <2>1. i \in Nat /\ i + 1 \in Nat /\ n - 1 \in Nat /\ i <= n - 1 /\ i <= i + 1
    BY <1>1 DEF n
  <2>2. i * max <= (n - 1) * max /\ i * max \in Nat /\ (n - 1) * max \in Nat
    BY <2>1, Multiples
  <2>3. i * max <= (i + 1) * max /\ (i + 1) * max \in Nat
    BY <2>1, Multiples
  <2>. QED
    BY <1>1, <1>3, <2>2, <2>3
<1>5. final \in BOOLEAN /\ i \in Nat
  BY <1>1
<1>. HIDE DEF f, to, from, final, n
<1>6. f \in Fragment
  BY <1>2, <1>4, <1>5 DEF Fragment, Payload
<1>7. f.id = id /\ f.num = i /\ f.final = final
      /\ f.payload.of = id /\ f.payload.from = from /\ f.payload.to = to
  BY <1>2
<1>. QED
  BY <1>3, <1>4, <1>6, <1>7 DEF f, from, final, n

-----------------------------------------------------------------------------
(***************************************************************************)
(* The inductive invariant.                                                *)
(***************************************************************************)

\* Every instruction sent is on the wire in the pieces of one payload limit,
\* and nothing else is.
WireIsCut ==
    /\ wire \subseteq Datagram
    /\ \A d \in wire : d.seq # 0 /\ d.fragment.id \in DOMAIN sizes
    /\ \A id \in DOMAIN sizes : \E max \in Payloads :
          /\ \A d \in wire : d.fragment.id = id => d.fragment \in Fragments(id, sizes[id], max)
          /\ \A f \in Fragments(id, sizes[id], max) : \E d \in wire : d.fragment = f

\* Assembler a holds pieces of one instruction, each in its slot, and knows
\* how many there are as soon as it holds the last.
HoldsPieces(a) ==
    /\ a \in [has : BOOLEAN, id : Nat, slots : {a.slots}, total : Nat, size : Nat]
    /\ a.has => a.id \in DOMAIN sizes
    /\ \A i \in DOMAIN a.slots : \E d \in wire :
          /\ d.fragment.id = a.id /\ d.fragment.num = i /\ d.fragment.payload = a.slots[i]
          /\ d.fragment.final => a.total = i + 1
    /\ a.total # 0 => \E d \in wire :
          d.fragment.id = a.id /\ d.fragment.final /\ a.total = d.fragment.num + 1

\* The replay memory is the end of what was opened.
MemoryIsRecent ==
    /\ opened \in Seq(Nat) /\ seen \in Seq(Nat)
    /\ Len(seen) = AtMost(Len(opened), SeenCap)
    /\ \A k \in DOMAIN seen : seen[k] = opened[Len(opened) - Len(seen) + k]

\* Timestamps held or echoed lie below the next one taken.
EchoesAreBelow ==
    /\ expected \in Nat /\ ts \in Nat /\ echoed \in Nat
    /\ ts = 0 \/ ts < expected
    /\ echoed = 0 \/ echoed < expected

PInv ==
    /\ sizes \in Seq(1 .. MaxInstruction) /\ nextSeq \in Nat \ {0} /\ payload \in Payloads
    /\ WireIsCut
    /\ HoldsPieces(asm) /\ ~Complete(asm)
    /\ MemoryIsRecent /\ EchoesAreBelow
    /\ AssembledIsSent /\ ReplaysAreOld

\* What AssembledIsSent asks of a message.
ReadsWhole(g) ==
    \E id \in DOMAIN sizes, last \in DOMAIN g :
        /\ \A i \in DOMAIN g : i <= last /\ g[i].of = id
        /\ g[0].from = 0 /\ g[last].to = sizes[id]
        /\ \A i \in DOMAIN g : i < last => g[i].to = g[i + 1].from

\* What EchoesMoveForward asks of one step.
EchoForward == ts' # 0 /\ ts' # ts => ts' > ts /\ ts' > echoed

-----------------------------------------------------------------------------
(***************************************************************************)
(* Assembling.                                                             *)
(***************************************************************************)

\* What the wire says of the instruction a fragment was cut from.
LEMMA PieceOf ==
    ASSUME PInv, NEW d \in wire
    PROVE  \E max \in Payloads :
              LET id == d.fragment.id
                  n  == FragmentCount(sizes[id], max)
              IN  /\ id \in DOMAIN sizes /\ sizes[id] \in Nat \ {0} /\ max \in Nat \ {0}
                  /\ n \in Nat \ {0}
                  /\ \A e \in wire : e.fragment.id = id =>
                        \E i \in 0 .. n - 1 : e.fragment = Cut(id, i, sizes[id], max)
                  /\ \A i \in 0 .. n - 1 : \E e \in wire :
                        e.fragment = Cut(id, i, sizes[id], max)
<1>. DEFINE id == d.fragment.id
<1>1. id \in DOMAIN sizes
  BY DEF PInv, WireIsCut
<1>2. sizes[id] \in 1 .. MaxInstruction
  <2>1. sizes \in Seq(1 .. MaxInstruction)
    BY DEF PInv
  <2>. DEFINE S == 1 .. MaxInstruction
  <2>. HIDE DEF id, S
  <2>2. sizes \in Seq(S)
    BY <2>1 DEF S
  <2>3. sizes[id] \in S
    BY <1>1, <2>2
  <2>. QED
    BY <2>3 DEF S
<1>3. PICK max \in Payloads :
        /\ \A e \in wire : e.fragment.id = id => e.fragment \in Fragments(id, sizes[id], max)
        /\ \A f \in Fragments(id, sizes[id], max) : \E e \in wire : e.fragment = f
  BY <1>1 DEF PInv, WireIsCut
<1>4. max \in Nat \ {0} /\ sizes[id] \in Nat \ {0}
  BY <1>2, PathAssumption, InstructionAssumption
<1>5. FragmentCount(sizes[id], max) \in Nat \ {0}
  BY <1>4, CountIsExact
<1>. QED
  BY <1>1, <1>3, <1>4, <1>5 DEF Fragments

\* A fragment is as it was cut, and the last one tells how many there are.
LEMMA WireFragment ==
    ASSUME PInv, NEW d \in wire
    PROVE  /\ d.fragment \in Fragment
           /\ d.fragment.payload.from <= d.fragment.payload.to
           /\ \A e \in wire :
                 e.fragment.id = d.fragment.id /\ e.fragment.final /\ d.fragment.final
                    => e.fragment.num = d.fragment.num
<1>. DEFINE id == d.fragment.id
<1>1. PICK max \in Nat \ {0} :
         /\ id \in DOMAIN sizes /\ sizes[id] \in Nat \ {0}
         /\ FragmentCount(sizes[id], max) \in Nat \ {0}
         /\ \A e \in wire : e.fragment.id = id =>
               \E i \in 0 .. FragmentCount(sizes[id], max) - 1 :
                  e.fragment = Cut(id, i, sizes[id], max)
  BY PieceOf
<1>2. id \in Nat
  BY <1>1 DEF PInv
<1>3. \A e \in wire : e.fragment.id = id =>
         /\ e.fragment \in Fragment /\ e.fragment.payload.from <= e.fragment.payload.to
         /\ e.fragment.final => e.fragment.num + 1 = FragmentCount(sizes[id], max)
         /\ e.fragment.num \in Nat
  <2>. SUFFICES ASSUME NEW e \in wire, e.fragment.id = id
                PROVE  /\ e.fragment \in Fragment /\ e.fragment.payload.from <= e.fragment.payload.to
                       /\ e.fragment.final => e.fragment.num + 1 = FragmentCount(sizes[id], max)
                       /\ e.fragment.num \in Nat
    OBVIOUS
  <2>1. PICK i \in 0 .. FragmentCount(sizes[id], max) - 1 :
           e.fragment = Cut(id, i, sizes[id], max)
    BY <1>1
  <2>. HIDE DEF id
  <2>. DEFINE z == sizes[id]
  <2>3. z \in Nat \ {0} /\ max \in Nat \ {0} /\ i \in 0 .. FragmentCount(z, max) - 1
    BY <1>1
  <2>. HIDE DEF z
  <2>4. LET f == Cut(id, i, z, max)
        IN  /\ f \in Fragment /\ f.num = i
            /\ f.final <=> i + 1 = FragmentCount(z, max)
            /\ f.payload.from <= f.payload.to
    BY <1>2, <2>3, CutFacts
  <2>2. LET f == Cut(id, i, sizes[id], max)
        IN  /\ f \in Fragment /\ f.num = i
            /\ f.final <=> i + 1 = FragmentCount(sizes[id], max)
            /\ f.payload.from <= f.payload.to
    BY <2>4 DEF z
  <2>. QED
    BY <1>1, <2>1, <2>2
<1>4. \A e \in wire :
         e.fragment.id = d.fragment.id /\ e.fragment.final /\ d.fragment.final
            => e.fragment.num = d.fragment.num
  <2>. SUFFICES ASSUME NEW e \in wire, e.fragment.id = id, e.fragment.final, d.fragment.final
                PROVE  e.fragment.num = d.fragment.num
    OBVIOUS
  <2>1. /\ e.fragment.num + 1 = FragmentCount(sizes[id], max) /\ e.fragment.num \in Nat
        /\ d.fragment.num + 1 = FragmentCount(sizes[id], max) /\ d.fragment.num \in Nat
    BY <1>3
  <2>. QED
    BY <1>1, <2>1
<1>. QED
  BY <1>3, <1>4

\* Fragments of one instruction with one number are the same.
LEMMA SameNumber ==
    ASSUME PInv, NEW d \in wire, NEW e \in wire,
           d.fragment.id = e.fragment.id, d.fragment.num = e.fragment.num
    PROVE  d.fragment = e.fragment
<1>. DEFINE id == d.fragment.id
            z == sizes[id]
<1>1. PICK max \in Nat \ {0} :
         /\ id \in DOMAIN sizes /\ z \in Nat \ {0}
         /\ FragmentCount(z, max) \in Nat \ {0}
         /\ \A x \in wire : x.fragment.id = id =>
               \E i \in 0 .. FragmentCount(z, max) - 1 : x.fragment = Cut(id, i, z, max)
  BY PieceOf
<1>2. PICK i \in 0 .. FragmentCount(z, max) - 1 : d.fragment = Cut(id, i, z, max)
  BY <1>1
<1>3. PICK j \in 0 .. FragmentCount(z, max) - 1 : e.fragment = Cut(id, j, z, max)
  BY <1>1
<1>. HIDE DEF z, id
<1>. QED
  BY <1>2, <1>3 DEF Cut

\* A cleared assembler holds nothing.
LEMMA ClearedHolds ==
    ASSUME NEW a, HoldsPieces(a)
    PROVE  LET c == Cleared(a)
           IN  /\ HoldsPieces(c) /\ ~Complete(c)
               /\ c.has = a.has /\ c.id = a.id /\ c.slots = <<>> /\ c.total = 0 /\ c.size = 0
<1>. DEFINE c == Cleared(a)
<1>1. /\ c \in [has : BOOLEAN, id : Nat, slots : {<<>>}, total : {0}, size : {0}]
      /\ c.has = a.has /\ c.id = a.id
  BY DEF Cleared, HoldsPieces
<1>. HIDE DEF c
<1>2. c.slots = <<>> /\ c.total = 0 /\ c.size = 0 /\ DOMAIN c.slots = {}
  BY <1>1
<1>3. c \in [has : BOOLEAN, id : Nat, slots : {c.slots}, total : Nat, size : Nat]
  BY <1>1, <1>2
<1>4. c.has => c.id \in DOMAIN sizes
  BY <1>1 DEF HoldsPieces
<1>5. HoldsPieces(c)
  BY <1>2, <1>3, <1>4 DEF HoldsPieces
<1>. QED
  BY <1>1, <1>2, <1>5 DEF Complete, c

\* Whatever an assembler held, it now holds pieces of the fragment's
\* instruction only.
LEMMA SwitchHolds ==
    ASSUME PInv, NEW a, HoldsPieces(a), NEW d \in wire
    PROVE  LET s == SwitchTo(a, d.fragment)
           IN  HoldsPieces(s) /\ s.has /\ s.id = d.fragment.id
<1>. DEFINE f == d.fragment
            s == SwitchTo(a, f)
            c == Cleared(a)
<1>1. CASE a.has /\ a.id = f.id
  BY <1>1 DEF SwitchTo
<1>2. CASE ~(a.has /\ a.id = f.id)
  <2>1. /\ c \in [has : BOOLEAN, id : Nat, slots : {c.slots}, total : Nat, size : Nat]
        /\ c.slots = <<>> /\ c.total = 0
    BY ClearedHolds DEF HoldsPieces
  <2>2. f.id \in DOMAIN sizes /\ f.id \in Nat
    BY DEF PInv, WireIsCut
  <2>3. s = [c EXCEPT !.has = TRUE, !.id = f.id]
    BY <1>2 DEF SwitchTo
  <2>. HIDE DEF c, s, f
  <2>4. /\ s \in [has : BOOLEAN, id : Nat, slots : {s.slots}, total : Nat, size : Nat]
        /\ s.has /\ s.id = f.id /\ s.slots = <<>> /\ s.total = 0
    BY <2>1, <2>2, <2>3
  <2>5. DOMAIN s.slots = {}
    BY <2>4
  <2>7. HoldsPieces(s)
    BY <2>2, <2>4, <2>5 DEF HoldsPieces
  <2>. QED
    BY <2>4, <2>7 DEF s, f
<1>. QED
  BY <1>1, <1>2

\* Filling a slot of the right instruction.
LEMMA FillHolds ==
    ASSUME PInv, NEW a, HoldsPieces(a), NEW d \in wire, a.has, a.id = d.fragment.id
    PROVE  HoldsPieces(Fill(a, d.fragment))
<1>. DEFINE f == d.fragment
            slots == [i \in DOMAIN a.slots \cup {f.num} |->
                         IF i = f.num THEN f.payload ELSE a.slots[i]]
            total == IF f.final THEN f.num + 1 ELSE a.total
            size == Counted(a, f)
            b == Fill(a, f)
<1>1. /\ f \in Fragment /\ f.payload.from <= f.payload.to
      /\ \A e \in wire :
            e.fragment.id = f.id /\ e.fragment.final /\ f.final => e.fragment.num = f.num
  BY WireFragment
<1>2. /\ f.num \in Nat /\ f.payload.from \in Nat /\ f.payload.to \in Nat
  BY <1>1 DEF Fragment, Payload
<1>3. b = [a EXCEPT !.slots = slots, !.size = size, !.total = total]
  BY DEF Fill
<1>4. size \in Nat
  BY <1>1, <1>2 DEF Counted, Bytes, HoldsPieces
<1>5. total \in Nat
  BY <1>2 DEF HoldsPieces
<1>. HIDE DEF slots, total, size, b
<1>7. /\ b \in [has : BOOLEAN, id : Nat, slots : {slots}, total : Nat, size : Nat]
      /\ b.has = a.has /\ b.id = a.id /\ b.slots = slots /\ b.total = total
  BY <1>3, <1>4, <1>5 DEF HoldsPieces
<1>8. b \in [has : BOOLEAN, id : Nat, slots : {b.slots}, total : Nat, size : Nat]
  BY <1>7
<1>9. ASSUME NEW i \in DOMAIN slots
      PROVE  \E e \in wire :
                /\ e.fragment.id = a.id /\ e.fragment.num = i /\ e.fragment.payload = slots[i]
                /\ e.fragment.final => total = i + 1
  <2>1. CASE i = f.num
    BY <2>1 DEF slots, total
  <2>2. CASE i # f.num
    <3>1. i \in DOMAIN a.slots /\ slots[i] = a.slots[i]
      BY <1>9, <2>2 DEF slots
    <3>2. PICK e \in wire :
             /\ e.fragment.id = a.id /\ e.fragment.num = i /\ e.fragment.payload = a.slots[i]
             /\ e.fragment.final => a.total = i + 1
      BY <3>1 DEF HoldsPieces
    <3>3. e.fragment.final => ~f.final
      BY <1>1, <2>2, <3>2
    <3>. QED
      BY <3>1, <3>2, <3>3 DEF total
  <2>. QED
    BY <2>1, <2>2
<1>10. total # 0 => \E e \in wire :
          e.fragment.id = a.id /\ e.fragment.final /\ total = e.fragment.num + 1
  BY DEF total, HoldsPieces
<1>. QED
  BY <1>7, <1>8, <1>9, <1>10 DEF HoldsPieces, b

\* An assembler that is complete holds one whole instruction.
LEMMA CompleteReads ==
    ASSUME PInv, NEW b, HoldsPieces(b), Complete(b)
    PROVE  ReadsWhole([i \in 0 .. b.total - 1 |-> b.slots[i]])
<1>1. /\ b.total \in Nat \ {0} /\ b.id \in Nat
      /\ \A i \in 0 .. b.total - 1 : i \in DOMAIN b.slots
  BY DEF Complete, HoldsPieces
<1>2. PICK d \in wire :
         d.fragment.id = b.id /\ d.fragment.final /\ b.total = d.fragment.num + 1
  BY <1>1 DEF HoldsPieces
<1>. DEFINE id == b.id
            z == sizes[id]
<1>3. PICK max \in Nat \ {0} :
         /\ id \in DOMAIN sizes /\ z \in Nat \ {0}
         /\ FragmentCount(z, max) \in Nat \ {0}
         /\ \A e \in wire : e.fragment.id = id =>
               \E i \in 0 .. FragmentCount(z, max) - 1 : e.fragment = Cut(id, i, z, max)
  BY <1>2, PieceOf
<1>. DEFINE n == FragmentCount(z, max)
            Piece(i) == Cut(id, i, z, max)
<1>4. \A i \in 0 .. n - 1 :
         /\ Piece(i).num = i /\ (Piece(i).final <=> i + 1 = n)
         /\ Piece(i).payload.of = id /\ Piece(i).payload.from = i * max
         /\ Piece(i).payload.to = IF i + 1 = n THEN z ELSE (i + 1) * max
  <2>. SUFFICES ASSUME NEW i \in 0 .. n - 1
                PROVE  /\ Piece(i).num = i /\ (Piece(i).final <=> i + 1 = n)
                       /\ Piece(i).payload.of = id /\ Piece(i).payload.from = i * max
                       /\ Piece(i).payload.to = IF i + 1 = n THEN z ELSE (i + 1) * max
    OBVIOUS
  <2>1. id \in Nat /\ z \in Nat \ {0} /\ i \in 0 .. FragmentCount(z, max) - 1
    BY <1>1, <1>3
  <2>. HIDE DEF id, z
  <2>2. LET f == Cut(id, i, z, max)
        IN  /\ f.num = i /\ (f.final <=> i + 1 = FragmentCount(z, max))
            /\ f.payload.of = id /\ f.payload.from = i * max
            /\ f.payload.to = IF f.final THEN z ELSE (i + 1) * max
    BY <2>1, CutFacts
  <2>. QED
    BY <2>2
<1>5. n \in Nat \ {0}
  BY <1>3
<1>6. \A e \in wire : e.fragment.id = id => \E i \in 0 .. n - 1 : e.fragment = Piece(i)
  BY <1>3
<1>. HIDE DEF n, Piece, z
<1>7. b.total = n
  <2>1. PICK j \in 0 .. n - 1 : d.fragment = Piece(j)
    BY <1>2, <1>6
  <2>. QED
    BY <1>2, <1>4, <1>5, <2>1
<1>8. \A i \in 0 .. n - 1 : b.slots[i] = Piece(i).payload
  <2>. SUFFICES ASSUME NEW i \in 0 .. n - 1 PROVE b.slots[i] = Piece(i).payload
    OBVIOUS
  <2>1. PICK e \in wire :
           e.fragment.id = b.id /\ e.fragment.num = i /\ e.fragment.payload = b.slots[i]
    BY <1>1, <1>7 DEF HoldsPieces
  <2>2. PICK j \in 0 .. n - 1 : e.fragment = Piece(j)
    BY <1>6, <2>1
  <2>. QED
    BY <1>4, <2>1, <2>2
<1>. DEFINE g == [i \in 0 .. b.total - 1 |-> b.slots[i]]
            last == n - 1
<1>9. DOMAIN g = 0 .. n - 1 /\ \A i \in 0 .. n - 1 : g[i] = Piece(i).payload
  BY <1>7, <1>8
<1>. HIDE DEF g
<1>10. \A i \in 0 .. n - 1 :
          /\ g[i].of = id /\ g[i].from = i * max
          /\ g[i].to = IF i + 1 = n THEN z ELSE (i + 1) * max
  BY <1>4, <1>9
<1>11. last \in DOMAIN g /\ \A i \in DOMAIN g : i <= last /\ g[i].of = id
  BY <1>5, <1>9, <1>10
<1>12. g[0].from = 0 /\ g[last].to = z
  BY <1>5, <1>10
<1>13. \A i \in DOMAIN g : i < last => g[i].to = g[i + 1].from
  <2>. SUFFICES ASSUME NEW i \in 0 .. n - 1, i < last PROVE g[i].to = g[i + 1].from
    BY <1>9
  <2>1. i + 1 \in 0 .. n - 1 /\ i + 1 # n
    BY <1>5
  <2>. QED
    BY <1>10, <2>1
<1>14. id \in DOMAIN sizes
  BY <1>3
<1>. HIDE DEF last, id
<1>15. ReadsWhole(g)
  BY <1>11, <1>12, <1>13, <1>14 DEF ReadsWhole, z
<1>. QED
  BY <1>15 DEF g

\* A fragment from the wire leaves the assembler with pieces of one
\* instruction that are not all of it, and what comes out reads like one.
LEMMA AddHolds ==
    ASSUME PInv, NEW d \in wire
    PROVE  LET r == Add(asm, d.fragment)
           IN  /\ HoldsPieces(r.a) /\ ~Complete(r.a)
               /\ \A g \in r.out : ReadsWhole(g)
<1>. DEFINE f == d.fragment
            s == SwitchTo(asm, f)
            b == Fill(s, f)
            r == Add(asm, f)
            message == [i \in 0 .. b.total - 1 |-> b.slots[i]]
            over == f.num \notin DOMAIN s.slots /\ Counted(s, f) > MaxInstruction
<1>1. HoldsPieces(s) /\ s.has /\ s.id = f.id
  BY SwitchHolds DEF PInv
<1>. HIDE DEF s, f
<1>2. HoldsPieces(b)
  BY <1>1, FillHolds DEF f
<1>3. HoldsPieces(Cleared(s)) /\ ~Complete(Cleared(s))
  BY <1>1, ClearedHolds
<1>4. HoldsPieces(Cleared(b)) /\ ~Complete(Cleared(b))
  BY <1>2, ClearedHolds
<1>5. r = IF over THEN [a |-> Cleared(s), out |-> {}]
          ELSE IF Complete(b) THEN [a |-> Cleared(b), out |-> {message}]
          ELSE [a |-> b, out |-> {}]
  BY DEF Add, s
<1>6. Complete(b) => ReadsWhole(message)
  BY <1>2, CompleteReads
<1>. HIDE DEF b, r, message, over
<1>7. HoldsPieces(r.a) /\ ~Complete(r.a) /\ \A g \in r.out : ReadsWhole(g)
  <2>1. CASE over
    BY <1>3, <1>5, <2>1
  <2>2. CASE ~over /\ Complete(b)
    BY <1>4, <1>5, <1>6, <2>2
  <2>3. CASE ~over /\ ~Complete(b)
    BY <1>2, <1>5, <2>3
  <2>. QED
    BY <2>1, <2>2, <2>3
<1>. QED
  BY <1>7 DEF r, f

-----------------------------------------------------------------------------
(***************************************************************************)
(* The steps.                                                              *)
(***************************************************************************)

\* A sequence grows at its end only.
LEMMA AppendFacts ==
    ASSUME NEW S, NEW s \in Seq(S), NEW e \in S
    PROVE  /\ Append(s, e) \in Seq(S) /\ Len(Append(s, e)) = Len(s) + 1
           /\ DOMAIN Append(s, e) = 1 .. Len(s) + 1 /\ DOMAIN s = 1 .. Len(s)
           /\ \A k \in 1 .. Len(s) : Append(s, e)[k] = s[k]
           /\ Append(s, e)[Len(s) + 1] = e
  OBVIOUS

\* Pieces stay pieces and messages stay whole while the wire and the list of
\* instructions grow.
LEMMA Growth ==
    ASSUME wire \subseteq wire', DOMAIN sizes \subseteq (DOMAIN sizes)',
           \A k \in DOMAIN sizes : sizes'[k] = sizes[k],
           UNCHANGED <<asm, got>>, HoldsPieces(asm), AssembledIsSent
    PROVE  HoldsPieces(asm)' /\ AssembledIsSent'
<1>1. HoldsPieces(asm)'
  BY DEF HoldsPieces
<1>2. AssembledIsSent'
  <2>. SUFFICES ASSUME NEW g \in got
                PROVE  \E id \in DOMAIN sizes', last \in DOMAIN g :
                          /\ \A i \in DOMAIN g : i <= last /\ g[i].of = id
                          /\ g[0].from = 0 /\ g[last].to = sizes'[id]
                          /\ \A i \in DOMAIN g : i < last => g[i].to = g[i + 1].from
    BY DEF AssembledIsSent
  <2>1. PICK id \in DOMAIN sizes, last \in DOMAIN g :
          /\ \A i \in DOMAIN g : i <= last /\ g[i].of = id
          /\ g[0].from = 0 /\ g[last].to = sizes[id]
          /\ \A i \in DOMAIN g : i < last => g[i].to = g[i + 1].from
    BY DEF AssembledIsSent
  <2>. QED
    BY <2>1
<1>. QED
  BY <1>1, <1>2

\* Sending puts a whole new instruction on the wire.
LEMMA SendStep ==
    ASSUME PInv, Send
    PROVE  PInv' /\ EchoForward
<1>. DEFINE S == 1 .. MaxInstruction
            id == Len(sizes) + 1
<1>1. PICK size \in S :
        /\ sizes' = Append(sizes, size)
        /\ wire' = wire \cup {[seq |-> nextSeq + f.num, fragment |-> f] :
                                  f \in Fragments(id, size, payload)}
        /\ nextSeq' = nextSeq + FragmentCount(size, payload)
  BY DEF Send, NextId
<1>2. UNCHANGED <<payload, seen, expected, ts, echoed, asm, got, opened>>
  BY DEF Send
<1>3. /\ sizes \in Seq(S) /\ nextSeq \in Nat \ {0} /\ payload \in Payloads
      /\ size \in Nat \ {0} /\ payload \in Nat \ {0}
  BY <1>1, PathAssumption, InstructionAssumption DEF PInv
<1>. DEFINE Pieces == Fragments(id, size, payload)
            Sealed(f) == [seq |-> nextSeq + f.num, fragment |-> f]
<1>. HIDE DEF S
<1>4. /\ sizes' \in Seq(S)
      /\ DOMAIN sizes' = DOMAIN sizes \cup {id} /\ id \notin DOMAIN sizes
      /\ \A k \in DOMAIN sizes : sizes'[k] = sizes[k]
      /\ sizes'[id] = size
  BY <1>1, <1>3, AppendFacts
<1>5. id \in Nat /\ FragmentCount(size, payload) \in Nat
  BY <1>3, CountIsExact
<1>6. \A f \in Pieces : f \in Fragment /\ f.id = id /\ f.num \in Nat
  <2>. SUFFICES ASSUME NEW i \in 0 .. FragmentCount(size, payload) - 1
                PROVE  LET f == Cut(id, i, size, payload)
                       IN  f \in Fragment /\ f.id = id /\ f.num \in Nat
    BY DEF Fragments
  <2>. HIDE DEF id
  <2>1. i \in Nat
    BY <1>5
  <2>2. LET f == Cut(id, i, size, payload)
        IN  f \in Fragment /\ f.id = id /\ f.num = i
    BY <1>3, <1>5, CutFacts
  <2>. QED
    BY <2>1, <2>2
<1>7. wire' = wire \cup {Sealed(f) : f \in Pieces}
  BY <1>1
<1>. HIDE DEF id, Pieces
<1>8. \A f \in Pieces : /\ Sealed(f) \in Datagram /\ Sealed(f).seq # 0
                        /\ Sealed(f).fragment = f
  BY <1>3, <1>6 DEF Datagram
<1>. HIDE DEF Sealed
<1>9. WireIsCut'
  <2>1. wire' \subseteq Datagram
    BY <1>7, <1>8 DEF PInv, WireIsCut
  <2>2. \A d \in wire' : d.seq # 0 /\ d.fragment.id \in DOMAIN sizes'
    BY <1>4, <1>6, <1>7, <1>8 DEF PInv, WireIsCut
  <2>3. ASSUME NEW k \in DOMAIN sizes'
        PROVE  \E max \in Payloads :
                 /\ \A d \in wire' : d.fragment.id = k
                                       => d.fragment \in Fragments(k, sizes'[k], max)
                 /\ \A f \in Fragments(k, sizes'[k], max) : \E d \in wire' : d.fragment = f
    <3>1. CASE k = id
      <4>1. Pieces = Fragments(k, sizes'[k], payload)
        BY <1>4, <3>1 DEF Pieces
      <4>2. \A d \in wire' : d.fragment.id = k => d.fragment \in Pieces
        BY <1>4, <1>7, <1>8, <3>1 DEF PInv, WireIsCut
      <4>3. \A f \in Pieces : \E d \in wire' : d.fragment = f
        BY <1>7, <1>8
      <4>. QED
        BY <1>3, <4>1, <4>2, <4>3
    <3>2. CASE k # id
      <4>1. k \in DOMAIN sizes /\ sizes'[k] = sizes[k]
        BY <1>4, <3>2
      <4>2. PICK max \in Payloads :
               /\ \A d \in wire : d.fragment.id = k => d.fragment \in Fragments(k, sizes[k], max)
               /\ \A f \in Fragments(k, sizes[k], max) : \E d \in wire : d.fragment = f
        BY <4>1 DEF PInv, WireIsCut
      <4>3. \A d \in wire' : d.fragment.id = k => d \in wire
        BY <1>6, <1>7, <1>8, <3>2
      <4>. QED
        BY <1>7, <4>1, <4>2, <4>3
    <3>. QED
      BY <3>1, <3>2
  <2>. QED
    BY <2>1, <2>2, <2>3 DEF WireIsCut
<1>10. HoldsPieces(asm)' /\ AssembledIsSent'
  BY <1>2, <1>4, <1>7, Growth DEF PInv
<1>11. (~Complete(asm))' /\ MemoryIsRecent' /\ EchoesAreBelow' /\ ReplaysAreOld'
  BY <1>2 DEF PInv, Complete, MemoryIsRecent, EchoesAreBelow, ReplaysAreOld
<1>12. nextSeq' \in Nat \ {0} /\ payload' \in Payloads
  BY <1>1, <1>2, <1>3, <1>5 DEF id
<1>13. EchoForward
  BY <1>2 DEF EchoForward
<1>. QED
  BY <1>4, <1>9, <1>10, <1>11, <1>12, <1>13 DEF PInv, S

\* Opening a datagram: the memory moves on, an older timestamp is ignored,
\* and its fragment is assembled.
LEMMA OpenStep ==
    ASSUME PInv, Open
    PROVE  PInv' /\ EchoForward
<1>1. PICK d \in wire :
        /\ d.seq \notin ToSet(seen)
        /\ seen' = Remember(seen, d.seq)
        /\ opened' = Append(opened, d.seq)
        /\ IF InOrder(d.seq)
           THEN expected' = d.seq + 1 /\ ts' = d.seq
           ELSE UNCHANGED <<expected, ts>>
        /\ asm' = Add(asm, d.fragment).a /\ got' = got \cup Add(asm, d.fragment).out
  BY DEF Open
<1>2. UNCHANGED <<sizes, nextSeq, payload, wire, echoed>>
  BY DEF Open
<1>. DEFINE q == d.seq
            n == Len(opened)
            m == Len(seen)
<1>3. q \in Nat \ {0}
  BY DEF PInv, WireIsCut, Datagram
<1>4. /\ opened \in Seq(Nat) /\ seen \in Seq(Nat) /\ n \in Nat /\ m \in Nat
      /\ m = IF n < SeenCap THEN n ELSE SeenCap
      /\ DOMAIN seen = 1 .. m /\ DOMAIN opened = 1 .. n
      /\ \A k \in 1 .. m : seen[k] = opened[n - m + k]
      /\ SeenCap \in Nat \ {0}
  <2>1. /\ opened \in Seq(Nat) /\ seen \in Seq(Nat)
        /\ Len(seen) = AtMost(Len(opened), SeenCap)
        /\ \A k \in DOMAIN seen : seen[k] = opened[Len(opened) - Len(seen) + k]
    BY DEF PInv, MemoryIsRecent
  <2>2. n \in Nat /\ m \in Nat /\ DOMAIN seen = 1 .. m /\ DOMAIN opened = 1 .. n
    BY <2>1
  <2>3. SeenCap \in Nat \ {0}
    BY PathAssumption
  <2>. QED
    BY <2>1, <2>2, <2>3 DEF AtMost
<1>5. /\ opened' \in Seq(Nat) /\ Len(opened') = n + 1 /\ DOMAIN opened' = 1 .. n + 1
      /\ \A k \in 1 .. n : opened'[k] = opened[k]
      /\ opened'[n + 1] = q
  BY <1>1, <1>3, <1>4, AppendFacts
<1>. DEFINE longer == Append(seen, q)
<1>6. /\ longer \in Seq(Nat) /\ Len(longer) = m + 1
      /\ \A k \in 1 .. m : longer[k] = seen[k]
      /\ longer[m + 1] = q
  BY <1>3, <1>4, AppendFacts
<1>7. seen' = IF Len(longer) > SeenCap THEN Tail(longer) ELSE longer
  BY <1>1 DEF Remember
<1>8. q \notin {seen[k] : k \in 1 .. m}
  BY <1>1, <1>4 DEF ToSet
<1>. HIDE DEF longer, n, m, q
<1>9. MemoryIsRecent'
  <2>1. CASE m + 1 > SeenCap
    <3>1. m = SeenCap /\ m <= n /\ seen' = Tail(longer)
      BY <1>4, <1>6, <1>7, <2>1
    <3>2. seen' \in Seq(Nat) /\ Len(seen') = m /\ DOMAIN seen' = 1 .. m
          /\ \A k \in 1 .. m : seen'[k] = longer[k + 1]
      BY <1>4, <1>6, <3>1
    <3>3. \A k \in 1 .. m : seen'[k] = opened'[n + 1 - m + k]
      <4>. SUFFICES ASSUME NEW k \in 1 .. m PROVE seen'[k] = opened'[n + 1 - m + k]
        OBVIOUS
      <4>1. CASE k = m
        <5>1. n + 1 - m + k = n + 1
          BY <1>4, <4>1
        <5>2. seen'[k] = longer[m + 1]
          BY <3>2, <4>1
        <5>. QED
          BY <1>5, <1>6, <5>1, <5>2
      <4>2. CASE k # m
        <5>1. k + 1 \in 1 .. m /\ n - m + (k + 1) \in 1 .. n
              /\ n - m + (k + 1) = n + 1 - m + k
          BY <1>4, <3>1, <4>2
        <5>. QED
          BY <1>4, <1>5, <1>6, <3>2, <5>1
      <4>. QED
        BY <4>1, <4>2
    <3>4. AtMost(Len(opened'), SeenCap) = m
      BY <1>4, <1>5, <3>1 DEF AtMost
    <3>5. \A k \in DOMAIN seen' : seen'[k] = opened'[Len(opened') - Len(seen') + k]
      <4>. SUFFICES ASSUME NEW k \in 1 .. m
                    PROVE  seen'[k] = opened'[Len(opened') - Len(seen') + k]
        BY <3>2
      <4>1. Len(opened') - Len(seen') + k = n + 1 - m + k
        <5>1. Len(opened') = n + 1 /\ Len(seen') = m
          BY <1>5, <3>2
        <5>2. n \in Int /\ m \in Int /\ k \in Int
          BY <1>4
        <5>. QED
          BY <5>1, <5>2
      <4>. QED
        BY <3>3, <4>1
    <3>. QED
      BY <1>5, <3>2, <3>4, <3>5 DEF MemoryIsRecent
  <2>2. CASE ~(m + 1 > SeenCap)
    <3>1. m = n /\ seen' = longer /\ n + 1 <= SeenCap
      BY <1>4, <1>6, <1>7, <2>2
    <3>2. \A k \in 1 .. m + 1 : seen'[k] = opened'[k]
      BY <1>4, <1>5, <1>6, <3>1
    <3>. QED
      BY <1>4, <1>5, <1>6, <3>1, <3>2 DEF MemoryIsRecent, AtMost
  <2>. QED
    BY <2>1, <2>2
<1>10. ReplaysAreOld'
  <2>. SUFFICES ASSUME NEW i \in 1 .. n + 1, NEW j \in 1 .. n + 1,
                       i < j, opened'[i] = opened'[j]
                PROVE  j - i > SeenCap
    BY <1>5 DEF ReplaysAreOld
  <2>1. CASE j # n + 1
    <3>1. i \in 1 .. n /\ j \in 1 .. n
      BY <1>4, <2>1
    <3>. QED
      BY <1>4, <1>5, <3>1 DEF PInv, ReplaysAreOld
  <2>2. CASE j = n + 1
    <3>1. i \in 1 .. n /\ opened[i] = q
      BY <1>4, <1>5, <2>2
    <3>2. ~(i > n - m)
      <4>. SUFFICES ASSUME i > n - m PROVE FALSE
        OBVIOUS
      <4>1. i - (n - m) \in 1 .. m /\ n - m + (i - (n - m)) = i
        BY <1>4, <3>1
      <4>. QED
        BY <1>4, <1>8, <3>1, <4>1
    <3>. QED
      BY <1>4, <2>2, <3>1, <3>2
  <2>. QED
    BY <2>1, <2>2
<1>11. EchoesAreBelow' /\ EchoForward
  BY <1>1, <1>2, <1>3 DEF PInv, EchoesAreBelow, EchoForward, InOrder, q
<1>12. /\ HoldsPieces(asm') /\ ~Complete(asm')
       /\ \A g \in got' : ReadsWhole(g)
  <2>1. \A g \in got : ReadsWhole(g)
    BY DEF PInv, AssembledIsSent, ReadsWhole
  <2>. QED
    BY <1>1, <2>1, AddHolds
<1>13. HoldsPieces(asm)' /\ (~Complete(asm))'
  BY <1>2, <1>12 DEF HoldsPieces, Complete
<1>14. AssembledIsSent'
  BY <1>2, <1>12 DEF AssembledIsSent, ReadsWhole
<1>15. WireIsCut'
  BY <1>2 DEF PInv, WireIsCut
<1>16. (sizes \in Seq(1 .. MaxInstruction) /\ nextSeq \in Nat \ {0} /\ payload \in Payloads)'
  BY <1>2 DEF PInv
<1>. QED
  BY <1>9, <1>10, <1>11, <1>13, <1>14, <1>15, <1>16 DEF PInv

\* Every step keeps the invariant, and takes and echoes timestamps forward.
LEMMA PInvStep ==
    ASSUME PInv, [PathNext]_pathVars
    PROVE  PInv' /\ [EchoForward]_pathVars
<1>1. CASE Send
  BY <1>1, SendStep
<1>2. CASE Open
  BY <1>2, OpenStep
<1>3. CASE Shrink
  <2>1. /\ payload' \in Payloads
        /\ UNCHANGED <<sizes, nextSeq, wire, seen, expected, ts, echoed, asm, got, opened>>
    BY <1>3 DEF Shrink
  <2>. QED
    BY <2>1 DEF PInv, WireIsCut, HoldsPieces, Complete, MemoryIsRecent, EchoesAreBelow,
                AssembledIsSent, ReplaysAreOld, EchoForward
<1>4. CASE Echo
  <2>1. /\ ts # 0 /\ echoed' \in {echoed, ts} /\ ts' = 0
        /\ UNCHANGED <<sizes, nextSeq, payload, wire, seen, expected, asm, got, opened>>
    BY <1>4 DEF Echo
  <2>2. EchoesAreBelow' /\ EchoForward
    BY <2>1 DEF PInv, EchoesAreBelow, EchoForward
  <2>. QED
    BY <2>1, <2>2 DEF PInv, WireIsCut, HoldsPieces, Complete, MemoryIsRecent,
                      AssembledIsSent, ReplaysAreOld
<1>5. CASE UNCHANGED pathVars
  BY <1>5 DEF pathVars, PInv, WireIsCut, HoldsPieces, Complete, MemoryIsRecent,
              EchoesAreBelow, AssembledIsSent, ReplaysAreOld
<1>. QED
  BY <1>1, <1>2, <1>3, <1>4, <1>5 DEF PathNext

\* Nothing was sent or opened at the start.
LEMMA PInvInit ==
    ASSUME PathInit
    PROVE  PInv
<1>1. /\ sizes = <<>> /\ nextSeq = 1 /\ payload \in Payloads /\ wire = {}
      /\ seen = <<>> /\ expected = 0 /\ ts = 0 /\ echoed = 0
      /\ asm = [has |-> FALSE, id |-> 0, slots |-> <<>>, total |-> 0, size |-> 0]
      /\ got = {} /\ opened = <<>>
  BY DEF PathInit, NewAssembler
<1>2. WireIsCut
  BY <1>1 DEF WireIsCut
<1>3. HoldsPieces(asm) /\ ~Complete(asm)
  <2>1. asm.has = FALSE /\ asm.slots = <<>> /\ asm.total = 0 /\ DOMAIN asm.slots = {}
    BY <1>1
  <2>2. asm \in [has : BOOLEAN, id : Nat, slots : {asm.slots}, total : Nat, size : Nat]
    BY <1>1
  <2>. QED
    BY <2>1, <2>2 DEF HoldsPieces, Complete
<1>4. MemoryIsRecent /\ EchoesAreBelow /\ ReplaysAreOld
  BY <1>1, PathAssumption DEF MemoryIsRecent, AtMost, EchoesAreBelow, ReplaysAreOld
<1>5. AssembledIsSent
  BY <1>1 DEF AssembledIsSent
<1>. QED
  BY <1>1, <1>2, <1>3, <1>4, <1>5 DEF PInv

-----------------------------------------------------------------------------
(***************************************************************************)
(* The theorems.                                                           *)
(***************************************************************************)

\* The wire, the assembler, the replay memory and the timestamps keep to the
\* invariant, whatever is lost, repeated or reordered.
THEOREM PathInvariance == PathSpec => []PInv
<1>1. PathInit => PInv
  BY PInvInit
<1>2. PInv /\ [PathNext]_pathVars => PInv'
  BY PInvStep
<1>. QED
  BY <1>1, <1>2, PTL DEF PathSpec

\* The state has its types.
THEOREM PathIsTyped == PathSpec => []PathTypeOK
<1>1. PInv => PathTypeOK
  <2>. SUFFICES ASSUME PInv PROVE PathTypeOK
    OBVIOUS
  <2>1. /\ asm.has \in BOOLEAN /\ asm.id \in Nat /\ asm.total \in Nat /\ asm.size \in Nat
    BY DEF PInv, HoldsPieces
  <2>2. \A i \in DOMAIN asm.slots : i \in Nat /\ asm.slots[i] \in Payload
    <3>. SUFFICES ASSUME NEW i \in DOMAIN asm.slots
                  PROVE  i \in Nat /\ asm.slots[i] \in Payload
      OBVIOUS
    <3>1. PICK d \in wire : d.fragment.num = i /\ d.fragment.payload = asm.slots[i]
      BY DEF PInv, HoldsPieces
    <3>2. d.fragment \in Fragment
      BY WireFragment
    <3>. QED
      BY <3>1, <3>2 DEF Fragment
  <2>3. seen \in Seq(Nat) /\ Len(seen) <= SeenCap
    <3>1. opened \in Seq(Nat) /\ seen \in Seq(Nat) /\ Len(seen) = AtMost(Len(opened), SeenCap)
      BY DEF PInv, MemoryIsRecent
    <3>. QED
      BY <3>1, PathAssumption DEF AtMost
  <2>. QED
    BY <2>1, <2>2, <2>3 DEF PInv, WireIsCut, EchoesAreBelow, PathTypeOK
<1>. QED
  BY <1>1, PathInvariance, PTL

\* Every message assembled reads like one instruction that was sent.
THEOREM MessagesAreSent == PathSpec => []AssembledIsSent
<1>1. PInv => AssembledIsSent
  BY DEF PInv
<1>. QED
  BY <1>1, PathInvariance, PTL

\* The assembler never sits on an instruction it has in full.
THEOREM NothingIsWithheld == PathSpec => []CompleteIsDelivered
<1>1. PInv => CompleteIsDelivered
  <2>. SUFFICES ASSUME PInv, asm.has,
                       \A d \in wire : d.fragment.id = asm.id
                                         => d.fragment.num \in DOMAIN asm.slots
                PROVE  FALSE
    BY DEF CompleteIsDelivered
  <2>. DEFINE id == asm.id
              z == sizes[id]
  <2>1. id \in DOMAIN sizes
    BY DEF PInv, HoldsPieces
  <2>2. PICK max \in Payloads :
           \A f \in Fragments(id, z, max) : \E d \in wire : d.fragment = f
    BY <2>1 DEF PInv, WireIsCut
  <2>3. z \in Nat \ {0} /\ id \in Nat /\ max \in Nat \ {0}
    <3>. DEFINE S == 1 .. MaxInstruction
    <3>1. sizes \in Seq(S) /\ max \in Nat \ {0}
      BY PathAssumption DEF PInv
    <3>. HIDE DEF S, id
    <3>2. sizes[id] \in S /\ id \in Nat
      BY <2>1, <3>1
    <3>. QED
      BY <3>1, <3>2, InstructionAssumption DEF S
  <2>. DEFINE n == FragmentCount(z, max)
  <2>4. n \in Nat \ {0}
    BY <2>3, CountIsExact
  <2>5. ASSUME NEW i \in 0 .. n - 1
        PROVE  \E d \in wire : /\ d.fragment.id = id /\ d.fragment.num = i
                               /\ d.fragment.final <=> i + 1 = n
    <3>1. PICK d \in wire : d.fragment = Cut(id, i, z, max)
      BY <2>2 DEF Fragments
    <3>. HIDE DEF id, z
    <3>2. LET f == Cut(id, i, z, max)
          IN  f.id = id /\ f.num = i /\ (f.final <=> i + 1 = FragmentCount(z, max))
      BY <2>3, CutFacts
    <3>. QED
      BY <3>1, <3>2
  <2>. HIDE DEF n, z
  <2>6. \A i \in 0 .. n - 1 : i \in DOMAIN asm.slots
    <3>. SUFFICES ASSUME NEW i \in 0 .. n - 1 PROVE i \in DOMAIN asm.slots
      OBVIOUS
    <3>1. PICK d \in wire : d.fragment.id = id /\ d.fragment.num = i
      BY <2>5
    <3>. QED
      BY <3>1
  <2>7. asm.total = n
    <3>1. n - 1 \in 0 .. n - 1 /\ n - 1 + 1 = n /\ n - 1 \in DOMAIN asm.slots
      BY <2>4, <2>6
    <3>2. PICK d \in wire :
              /\ d.fragment.id = id /\ d.fragment.num = n - 1
              /\ d.fragment.final => asm.total = n
      BY <3>1 DEF PInv, HoldsPieces
    <3>3. PICK e \in wire : e.fragment.id = id /\ e.fragment.num = n - 1 /\ e.fragment.final
      BY <2>5, <3>1
    <3>4. d.fragment = e.fragment
      BY <3>2, <3>3, SameNumber
    <3>. QED
      BY <3>2, <3>3, <3>4
  <2>. QED
    BY <2>4, <2>6, <2>7 DEF PInv, Complete
<1>. QED
  BY <1>1, PathInvariance, PTL

\* A replayed datagram is opened only after SEEN_SEQ_CAP others.
THEOREM ReplaysWait == PathSpec => []ReplaysAreOld
<1>1. PInv => ReplaysAreOld
  BY DEF PInv
<1>. QED
  BY <1>1, PathInvariance, PTL

\* No timestamp is taken that is not newer than all taken and echoed before.
THEOREM EchoesOnlyAdvance == PathSpec => EchoesMoveForward
<1>1. PInv /\ [PathNext]_pathVars => [EchoForward]_pathVars
  BY PInvStep
<1>. QED
  BY <1>1, PathInvariance, PTL DEF PathSpec, EchoesMoveForward, EchoForward

-----------------------------------------------------------------------------
(***************************************************************************)
(* What the slots hold.  The sum of SizeIsHeld is a fold in the order that *)
(* CHOOSE picks; it is compared with the number of bytes held, which has   *)
(* no order.                                                               *)
(***************************************************************************)

\* A set that holds 0 and with every number the next holds them all.
LEMMA HoldsAll ==
    ASSUME NEW S, 0 \in S, \A n \in Nat : n \in S => n + 1 \in S
    PROVE  Nat \subseteq S
<1>. DEFINE T == {n \in Nat : n \notin S}
            R == OpToRel(<, Nat)
<1>1. IsWellFoundedOn(R, Nat)
  BY NatLessThanWellFounded
<1>2. \A x, y \in Nat : y < x => <<y, x>> \in R
  BY Zenon DEF OpToRel
<1>. HIDE DEF R
<1>. SUFFICES ASSUME T # {} PROVE FALSE
  OBVIOUS
<1>3. PICK x \in T : \A y \in T : ~(<<y, x>> \in R)
  BY <1>1, WFMin
<1>4. x \in Nat /\ x # 0 /\ x - 1 \in Nat /\ x - 1 < x
  BY <1>3
<1>5. x - 1 \notin T
  BY <1>2, <1>3, <1>4
<1>. QED
  BY <1>3, <1>4, <1>5

\* The bytes of the slots in s, one by one.
BytesIn(g, s) == {b \in s \X Nat : b[2] \in 1 .. Bytes(g[b[1]])}

\* One slot more has its bytes more.
LEMMA OneSlotMore ==
    ASSUME NEW g, NEW s, IsFiniteSet(BytesIn(g, s)), NEW i, i \notin s, Bytes(g[i]) \in Nat
    PROVE  /\ IsFiniteSet(BytesIn(g, s \cup {i}))
           /\ Cardinality(BytesIn(g, s \cup {i})) = Bytes(g[i]) + Cardinality(BytesIn(g, s))
<1>. DEFINE n == Bytes(g[i])
            own == {i} \X (1 .. n)
            rest == BytesIn(g, s)
<1>1. IsFiniteSet(1 .. n) /\ Cardinality(1 .. n) = n
  <2>1. n \in Nat /\ n \in Int /\ 1 \in Int
    OBVIOUS
  <2>. HIDE DEF n
  <2>2. IsFiniteSet(1 .. n) /\ Cardinality(1 .. n) = IF 1 > n THEN 0 ELSE n - 1 + 1
    BY <2>1, FS_Interval
  <2>. QED
    BY <2>1, <2>2
<1>2. IsFiniteSet(own) /\ Cardinality(own) = n
  <2>1. IsFiniteSet({i}) /\ Cardinality({i}) = 1
    BY FS_Singleton
  <2>. DEFINE one == {i}
              many == 1 .. n
  <2>2. n \in Nat
    OBVIOUS
  <2>. HIDE DEF n, one, many
  <2>3. IsFiniteSet(one) /\ Cardinality(one) = 1 /\ IsFiniteSet(many) /\ Cardinality(many) = n
    BY <1>1, <2>1 DEF one, many
  <2>4. IsFiniteSet(one \X many) /\ Cardinality(one \X many) = Cardinality(one) * Cardinality(many)
    BY <2>3, FS_Product
  <2>5. Cardinality(one \X many) = n
    BY <2>2, <2>3, <2>4
  <2>. QED
    BY <2>4, <2>5 DEF one, many
<1>3. BytesIn(g, s \cup {i}) = rest \cup own
  <2>1. ASSUME NEW b
        PROVE  b \in BytesIn(g, s \cup {i}) <=> b \in rest \cup own
    <3>1. CASE b \in (s \cup {i}) \X Nat
      <4>1. b[1] \in s \/ b[1] = i
        BY <3>1
      <4>. QED
        BY <3>1, <4>1 DEF BytesIn
    <3>2. CASE b \notin (s \cup {i}) \X Nat
      BY <3>2 DEF BytesIn
    <3>. QED
      BY <3>1, <3>2
  <2>. QED
    BY <2>1
<1>4. rest \cap own = {}
  BY DEF BytesIn
<1>. HIDE DEF own, rest
<1>5. IsFiniteSet(rest) /\ Cardinality(rest) \in Nat
  BY FS_CardinalityType DEF rest
<1>6. /\ IsFiniteSet(rest \cup own)
      /\ Cardinality(rest \cup own) = Cardinality(rest) + Cardinality(own) - Cardinality(rest \cap own)
  BY <1>2, <1>5, FS_Union
<1>7. Cardinality(rest \cap own) = 0
  BY <1>4, FS_EmptySet
<1>8. n \in Nat
  OBVIOUS
<1>9. Cardinality(rest \cup own) = n + Cardinality(rest)
  <2>. HIDE DEF n
  <2>. QED
    BY <1>2, <1>5, <1>6, <1>7, <1>8
<1>. QED
  BY <1>3, <1>6, <1>9 DEF rest

\* Slots that hold some bytes each, and not without end.
Weighable(g) ==
    IsFiniteSet(DOMAIN g) /\ \A i \in DOMAIN g : Bytes(g[i]) \in Nat

\* Then they hold finitely many.
LEMMA BytesAreFinite ==
    ASSUME NEW g, Weighable(g), NEW s \in SUBSET DOMAIN g
    PROVE  IsFiniteSet(s) /\ IsFiniteSet(BytesIn(g, s))
<1>. DEFINE Good(t) == IsFiniteSet(BytesIn(g, t))
            S == {k \in Nat : \A t \in SUBSET DOMAIN g : Cardinality(t) = k => Good(t)}
<1>1. \A t \in SUBSET DOMAIN g : IsFiniteSet(t) /\ Cardinality(t) \in Nat
  BY FS_Subset, FS_CardinalityType DEF Weighable
<1>2. 0 \in S
  <2>1. ASSUME NEW t \in SUBSET DOMAIN g, Cardinality(t) = 0
        PROVE  Good(t)
    <3>1. t = {}
      BY <1>1, <2>1, FS_EmptySet
    <3>2. BytesIn(g, {}) = {}
      BY DEF BytesIn
    <3>. QED
      BY <3>1, <3>2, FS_EmptySet
  <2>. QED
    BY <2>1
<1>3. ASSUME NEW k \in Nat, k \in S
      PROVE  k + 1 \in S
  <2>1. ASSUME NEW t \in SUBSET DOMAIN g, Cardinality(t) = k + 1
        PROVE  Good(t)
    <3>1. t # {}
      BY <2>1, FS_EmptySet
    <3>2. PICK i : i \in t
      BY <3>1
    <3>. DEFINE u == t \ {i}
    <3>3. u \in SUBSET DOMAIN g /\ u \cup {i} = t /\ i \notin u
      BY <3>2
    <3>4. Cardinality(u) = k
      <4>1. IsFiniteSet(t)
        BY <1>1
      <4>2. Cardinality(u) = Cardinality(t) - 1
        BY <3>2, <4>1, FS_RemoveElement
      <4>. HIDE DEF u
      <4>. QED
        BY <2>1, <4>2
    <3>5. Good(u) /\ Bytes(g[i]) \in Nat
      BY <1>3, <3>2, <3>3, <3>4 DEF Weighable
    <3>. HIDE DEF u
    <3>6. Good(u \cup {i})
      BY <3>3, <3>5, OneSlotMore
    <3>. QED
      BY <3>3, <3>6
  <2>. QED
    BY <2>1
<1>. HIDE DEF Good
<1>4. Nat \subseteq S
  <2>. HIDE DEF S
  <2>. QED
    BY <1>2, <1>3, HoldsAll
<1>. QED
  BY <1>1, <1>4 DEF Good

\* The recursion of the sum.
Weighing(g, f) ==
    f = [s \in SUBSET DOMAIN g |->
           IF s = {} THEN 0
           ELSE Bytes(g[CHOOSE i \in s : TRUE]) + f[s \ {CHOOSE i \in s : TRUE}]]

WeighingOf(g) == CHOOSE f : Weighing(g, f)

Held(g) == FoldSet(LAMBDA i, sum : Bytes(g[i]) + sum, 0, DOMAIN g)

\* Any solution of it counts the bytes.
LEMMA WeighingCounts ==
    ASSUME NEW g, Weighable(g)
    PROVE  /\ \E f : Weighing(g, f)
           /\ \A f : Weighing(g, f) => f[DOMAIN g] = Cardinality(BytesIn(g, DOMAIN g))
<1>. DEFINE count == [s \in SUBSET DOMAIN g |-> Cardinality(BytesIn(g, s))]
            One(s) == CHOOSE i \in s : TRUE
<1>1. ASSUME NEW s \in SUBSET DOMAIN g
      PROVE  count[s] = IF s = {} THEN 0 ELSE Bytes(g[One(s)]) + count[s \ {One(s)}]
  <2>1. CASE s = {}
    <3>1. BytesIn(g, {}) = {}
      BY DEF BytesIn
    <3>. QED
      BY <2>1, <3>1, FS_EmptySet
  <2>2. CASE s # {}
    <3>1. One(s) \in s
      BY <2>2
    <3>. DEFINE i == One(s)
                u == s \ {i}
    <3>. HIDE DEF i
    <3>2. i \in s /\ u \in SUBSET DOMAIN g /\ u \cup {i} = s /\ i \notin u
      BY <3>1 DEF i
    <3>3. IsFiniteSet(BytesIn(g, u)) /\ Bytes(g[i]) \in Nat
      BY <3>2, BytesAreFinite DEF Weighable
    <3>. HIDE DEF u
    <3>4. Cardinality(BytesIn(g, u \cup {i})) = Bytes(g[i]) + Cardinality(BytesIn(g, u))
      BY <3>2, <3>3, OneSlotMore
    <3>5. count[s] = Bytes(g[i]) + count[u]
      BY <3>2, <3>4
    <3>. QED
      BY <2>2, <3>5 DEF u, i
  <2>. QED
    BY <2>1, <2>2
<1>2. Weighing(g, count)
  <2>1. count = [s \in SUBSET DOMAIN g |-> count[s]]
    OBVIOUS
  <2>. HIDE DEF count
  <2>. QED
    BY <1>1, <2>1 DEF Weighing
<1>3. ASSUME NEW f, Weighing(g, f)
      PROVE  f[DOMAIN g] = count[DOMAIN g]
  <2>1. \A s \in SUBSET DOMAIN g :
            f[s] = IF s = {} THEN 0 ELSE Bytes(g[One(s)]) + f[s \ {One(s)}]
    BY <1>3 DEF Weighing
  <2>. DEFINE S == {k \in Nat : \A t \in SUBSET DOMAIN g : Cardinality(t) = k => f[t] = count[t]}
  <2>. HIDE DEF count
  <2>2. \A t \in SUBSET DOMAIN g : IsFiniteSet(t) /\ Cardinality(t) \in Nat
    BY FS_Subset, FS_CardinalityType DEF Weighable
  <2>3. 0 \in S
    <3>1. ASSUME NEW t \in SUBSET DOMAIN g, Cardinality(t) = 0
          PROVE  f[t] = count[t]
      <4>1. t = {}
        BY <2>2, <3>1, FS_EmptySet
      <4>. QED
        BY <1>1, <2>1, <4>1
    <3>. QED
      BY <3>1
  <2>4. ASSUME NEW k \in Nat, k \in S
        PROVE  k + 1 \in S
    <3>1. ASSUME NEW t \in SUBSET DOMAIN g, Cardinality(t) = k + 1
          PROVE  f[t] = count[t]
      <4>1. t # {}
        BY <3>1, FS_EmptySet
      <4>. DEFINE i == One(t)
      <4>2. i \in t
        BY <4>1
      <4>. HIDE DEF i
      <4>3. t \ {i} \in SUBSET DOMAIN g /\ Cardinality(t \ {i}) = k
        <5>1. IsFiniteSet(t)
          BY <2>2
        <5>2. Cardinality(t \ {i}) = Cardinality(t) - 1
          BY <4>2, <5>1, FS_RemoveElement
        <5>. QED
          BY <3>1, <5>2
      <4>4. f[t \ {i}] = count[t \ {i}]
        BY <2>4, <4>3
      <4>5. /\ f[t] = Bytes(g[i]) + f[t \ {i}]
            /\ count[t] = Bytes(g[i]) + count[t \ {i}]
        BY <1>1, <2>1, <4>1 DEF i
      <4>. QED
        BY <4>4, <4>5
    <3>. QED
      BY <3>1
  <2>5. Nat \subseteq S
    <3>. HIDE DEF S
    <3>. QED
      BY <2>3, <2>4, HoldsAll
  <2>. QED
    BY <2>2, <2>5
<1>. QED
  BY <1>2, <1>3

\* So the sum does.
LEMMA HeldCounts ==
    ASSUME NEW g, Weighable(g)
    PROVE  Held(g) = Cardinality(BytesIn(g, DOMAIN g))
<1>1. Held(g) = WeighingOf(g)[DOMAIN g]
  BY DEF Held, FoldSet, MapThenFoldSet, WeighingOf, Weighing
<1>2. Weighing(g, WeighingOf(g))
  BY WeighingCounts DEF WeighingOf
<1>. QED
  BY <1>1, <1>2, WeighingCounts

\* What an assembler counts is what it holds.
Weighed(a) == Weighable(a.slots) /\ a.size = Cardinality(BytesIn(a.slots, DOMAIN a.slots))

\* The bytes of slots that hold the same.
LEMMA SameBytes ==
    ASSUME NEW g, NEW h, NEW s, \A i \in s : g[i] = h[i]
    PROVE  BytesIn(g, s) = BytesIn(h, s)
<1>1. \A b \in s \X Nat : b[1] \in s
  OBVIOUS
<1>. QED
  BY <1>1 DEF BytesIn

\* Nothing is held, and nothing counted.
LEMMA NothingWeighs ==
    ASSUME NEW a, a.slots = <<>>, a.size = 0
    PROVE  Weighed(a)
<1>1. DOMAIN a.slots = {}
  OBVIOUS
<1>2. Weighable(a.slots)
  BY <1>1, FS_EmptySet DEF Weighable
<1>3. BytesIn(a.slots, DOMAIN a.slots) = {}
  BY <1>1 DEF BytesIn
<1>4. Cardinality(BytesIn(a.slots, DOMAIN a.slots)) = 0
  BY <1>3, FS_EmptySet
<1>. QED
  BY <1>2, <1>4 DEF Weighed

\* A fragment seen before is not counted again, for it is the same; a new one
\* is.
LEMMA FillWeighs ==
    ASSUME PInv, NEW a, HoldsPieces(a), Weighed(a), NEW d \in wire, a.has, a.id = d.fragment.id
    PROVE  Weighed(Fill(a, d.fragment))
<1>. DEFINE f == d.fragment
            g == a.slots
            D == DOMAIN g
            h == [i \in D \cup {f.num} |-> IF i = f.num THEN f.payload ELSE g[i]]
            size == Counted(a, f)
            b == Fill(a, f)
<1>1. f \in Fragment /\ f.payload.from <= f.payload.to
  BY WireFragment
<1>2. Bytes(f.payload) \in Nat
  <2>1. f.payload.from \in Nat /\ f.payload.to \in Nat
    BY <1>1 DEF Fragment, Payload
  <2>. HIDE DEF f
  <2>. QED
    BY <1>1, <2>1 DEF Bytes
<1>3. b.slots = h /\ b.size = size
  <2>1. a \in [has : BOOLEAN, id : Nat, slots : {a.slots}, total : Nat, size : Nat]
    BY DEF HoldsPieces
  <2>. DEFINE total == IF f.final THEN f.num + 1 ELSE a.total
  <2>2. b = [a EXCEPT !.slots = h, !.size = size, !.total = total]
    BY DEF Fill
  <2>. HIDE DEF h, size, total, b
  <2>. QED
    BY <2>1, <2>2
<1>4. DOMAIN h = D \cup {f.num} /\ h[f.num] = f.payload
      /\ \A i \in D : i # f.num => h[i] = g[i]
  OBVIOUS
<1>5. IsFiniteSet(D) /\ (\A i \in D : Bytes(g[i]) \in Nat) /\ a.size = Cardinality(BytesIn(g, D))
  BY DEF Weighed, Weighable
<1>. HIDE DEF b, h, f
<1>6. Weighable(h)
  <2>1. IsFiniteSet(D \cup {f.num})
    BY <1>5, FS_AddElement
  <2>. HIDE DEF g, D
  <2>2. ASSUME NEW i \in DOMAIN h
        PROVE  Bytes(h[i]) \in Nat
    <3>1. CASE i = f.num
      BY <1>2, <1>4, <3>1
    <3>2. CASE i # f.num
      <4>1. i \in D /\ h[i] = g[i]
        BY <1>4, <2>2, <3>2
      <4>. QED
        BY <1>5, <4>1
    <3>. QED
      BY <3>1, <3>2
  <2>. QED
    BY <1>4, <2>1, <2>2 DEF Weighable
<1>7. IsFiniteSet(BytesIn(g, D))
  <2>1. Weighable(g) /\ D \in SUBSET DOMAIN g
    BY DEF Weighed
  <2>. QED
    BY <2>1, BytesAreFinite
<1>8. size = Cardinality(BytesIn(h, DOMAIN h))
  <2>1. CASE f.num \in D
    <3>1. PICK e \in wire :
            e.fragment.id = a.id /\ e.fragment.num = f.num /\ e.fragment.payload = g[f.num]
      BY <2>1 DEF HoldsPieces
    <3>2. e.fragment = f
      BY <3>1, SameNumber DEF f
    <3>. HIDE DEF g, D
    <3>3. \A i \in D : h[i] = g[i]
      BY <1>4, <3>1, <3>2
    <3>4. DOMAIN h = D
      BY <1>4, <2>1
    <3>5. BytesIn(h, D) = BytesIn(g, D)
      BY <3>3, SameBytes
    <3>6. size = a.size
      BY <2>1 DEF Counted, D, g
    <3>. QED
      BY <1>5, <3>4, <3>5, <3>6
  <2>2. CASE f.num \notin D
    <3>1. size = a.size + Bytes(f.payload)
      BY <2>2 DEF Counted
    <3>. HIDE DEF g, D, size
    <3>2. \A i \in D : h[i] = g[i]
      BY <1>4, <2>2
    <3>3. BytesIn(h, D) = BytesIn(g, D)
      BY <3>2, SameBytes
    <3>4. Bytes(h[f.num]) \in Nat /\ IsFiniteSet(BytesIn(h, D))
      BY <1>2, <1>4, <1>7, <3>3
    <3>5. Cardinality(BytesIn(h, D \cup {f.num})) = Bytes(h[f.num]) + Cardinality(BytesIn(h, D))
      BY <2>2, <3>4, OneSlotMore
    <3>6. Cardinality(BytesIn(g, D)) \in Nat
      BY <1>7, FS_CardinalityType
    <3>7. Cardinality(BytesIn(h, DOMAIN h)) = Bytes(f.payload) + Cardinality(BytesIn(g, D))
      BY <1>4, <3>3, <3>5
    <3>. QED
      BY <1>2, <1>5, <3>1, <3>6, <3>7
  <2>. QED
    BY <2>1, <2>2
<1>. QED
  BY <1>3, <1>6, <1>8 DEF Weighed, b, f

\* Adding a fragment.
LEMMA AddWeighs ==
    ASSUME PInv, Weighed(asm), NEW d \in wire
    PROVE  Weighed(Add(asm, d.fragment).a)
<1>. DEFINE f == d.fragment
            s == SwitchTo(asm, f)
            b == Fill(s, f)
            r == Add(asm, f)
            message == [i \in 0 .. b.total - 1 |-> b.slots[i]]
            over == f.num \notin DOMAIN s.slots /\ Counted(s, f) > MaxInstruction
<1>1. HoldsPieces(s) /\ s.has /\ s.id = f.id /\ HoldsPieces(asm)
  BY SwitchHolds DEF PInv
<1>2. Weighed(s)
  <2>1. CASE asm.has /\ asm.id = f.id
    BY <2>1 DEF SwitchTo
  <2>2. CASE ~(asm.has /\ asm.id = f.id)
    <3>. DEFINE c == Cleared(asm)
    <3>1. /\ c \in [has : BOOLEAN, id : Nat, slots : {c.slots}, total : Nat, size : Nat]
          /\ c.slots = <<>> /\ c.size = 0
      BY <1>1, ClearedHolds DEF HoldsPieces
    <3>2. s = [c EXCEPT !.has = TRUE, !.id = f.id]
      BY <2>2 DEF SwitchTo
    <3>. HIDE DEF c, s, f
    <3>3. s.slots = <<>> /\ s.size = 0
      BY <3>1, <3>2
    <3>. QED
      BY <3>3, NothingWeighs
  <2>. QED
    BY <2>1, <2>2
<1>. HIDE DEF s, f
<1>3. HoldsPieces(b) /\ Weighed(b)
  BY <1>1, <1>2, FillHolds, FillWeighs DEF f
<1>4. \A c : HoldsPieces(c) => Weighed(Cleared(c))
  BY ClearedHolds, NothingWeighs
<1>5. r = IF over THEN [a |-> Cleared(s), out |-> {}]
          ELSE IF Complete(b) THEN [a |-> Cleared(b), out |-> {message}]
          ELSE [a |-> b, out |-> {}]
  BY DEF Add, s
<1>. HIDE DEF b, r, message, over
<1>6. r.a = Cleared(s) \/ r.a = Cleared(b) \/ r.a = b
  BY <1>5
<1>7. Weighed(r.a)
  BY <1>1, <1>3, <1>4, <1>6
<1>. QED
  BY <1>7 DEF r, f

\* What is counted against the limit on an instruction is what is held,
\* whatever fragments are repeated, lost or of another instruction:
\* FragmentAssembly::add counts a slot when it is first filled.
THEOREM CountIsHeld == PathSpec => []SizeIsHeld
<1>1. PathInit => Weighed(asm)
  <2>. SUFFICES ASSUME PathInit PROVE Weighed(asm)
    OBVIOUS
  <2>1. asm.slots = <<>> /\ asm.size = 0
    BY DEF PathInit, NewAssembler
  <2>. QED
    BY <2>1, NothingWeighs
<1>2. PInv /\ Weighed(asm) /\ [PathNext]_pathVars => Weighed(asm)'
  <2>. SUFFICES ASSUME PInv, Weighed(asm), [PathNext]_pathVars PROVE Weighed(asm')
    BY DEF Weighed, Weighable, BytesIn, Bytes
  <2>1. CASE Open
    <3>1. PICK d \in wire : asm' = Add(asm, d.fragment).a
      BY <2>1 DEF Open
    <3>. QED
      BY <3>1, AddWeighs
  <2>2. CASE Send \/ Shrink \/ Echo \/ UNCHANGED pathVars
    <3>1. asm' = asm
      BY <2>2 DEF Send, Shrink, Echo, pathVars
    <3>. QED
      BY <3>1
  <2>. QED
    BY <2>1, <2>2 DEF PathNext
<1>3. Weighed(asm) => SizeIsHeld
  BY HeldCounts DEF Weighed, Held, SizeIsHeld
<1>. QED
  BY <1>1, <1>2, <1>3, PathInvariance, PTL DEF PathSpec
=============================================================================
