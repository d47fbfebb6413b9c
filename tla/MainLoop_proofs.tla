-------------------------- MODULE MainLoop_proofs --------------------------
(***************************************************************************)
(* Proofs about MainLoop.tla, and with it LocalEscape, Predictor and       *)
(* DisplayPipeline, for every set of scenes: screens of any size, reads of *)
(* any length in any number, frames without bound.                         *)
(*                                                                         *)
(* Four folds make the model: process over a read, keystroke over what is  *)
(* forwarded, the application over the stream, and retain over the         *)
(* cursors.  The prover cannot pass an operator to a lemma, so each fold   *)
(* is shown to be a recursion on the sets 1 .. n whose step StepOf names,  *)
(* and what holds of all of them is proved once, by induction on n         *)
(* (InductiveSet).                                                         *)
(* The invariants, and what their lemmas say of a step, are defined in     *)
(* MainLoopInvariant.tla.                                                  *)
(***************************************************************************)
EXTENDS MainLoopInvariant, SequenceTheorems, FiniteSetTheorems, WellFoundedInduction, TLAPS

-----------------------------------------------------------------------------
(***************************************************************************)
(* Induction, and the largest of a set.                                    *)
(***************************************************************************)

\* A set of naturals that is not empty has a least element.
LEMMA LeastOf ==
    ASSUME NEW T, T \subseteq Nat, T # {}
    PROVE  \E x \in T : \A y \in T : x <= y
<1>. DEFINE R == OpToRel(<, Nat)
<1>1. IsWellFoundedOn(R, Nat)
  BY NatLessThanWellFounded
<1>2. \A x, y \in Nat : y < x => <<y, x>> \in R
  BY Zenon DEF OpToRel
<1>. HIDE DEF R
<1>3. PICK x \in T : \A y \in T : ~(<<y, x>> \in R)
  BY <1>1, WFMin
<1>4. x \in Nat /\ \A y \in T : y \in Nat /\ ~(y < x)
  BY Zenon, <1>2, <1>3
<1>. QED
  BY <1>4

\* A set that holds 0 and with every number the next holds them all.
LEMMA InductiveSet ==
    ASSUME NEW S, 0 \in S, \A n \in Nat : n \in S => n + 1 \in S
    PROVE  Nat \subseteq S
<1>. DEFINE T == {n \in Nat : n \notin S}
<1>1. SUFFICES ASSUME T # {} PROVE FALSE
  OBVIOUS
<1>2. PICK x \in T : \A y \in T : x <= y
  BY <1>1, LeastOf
<1>3. x # 0 /\ x - 1 \in Nat
  BY <1>2
<1>4. x - 1 \notin T
  BY <1>2, <1>3, SMT
<1>. QED
  BY <1>2, <1>3, <1>4

\* The number after n is the largest of a set of numbers up to it.
LEMMA MaxOfTop ==
    ASSUME NEW n \in Nat, NEW s \in SUBSET (1 .. n + 1), n + 1 \in s
    PROVE  Max(s) = n + 1 /\ s # {}
<1>1. \A y \in s : n + 1 >= y
  OBVIOUS
<1>2. \A x \in s : (\A y \in s : x >= y) => x = n + 1
  OBVIOUS
<1>. QED
  BY <1>1, <1>2 DEF Max

\* A set without the number after n ends at n.
LEMMA BelowTop ==
    ASSUME NEW n \in Nat, NEW s \in SUBSET (1 .. n + 1), n + 1 \notin s
    PROVE  s \in SUBSET (1 .. n)
<1>1. ASSUME NEW x \in s PROVE x \in 1 .. n
  <2>1. x \in 1 .. n + 1 /\ x # n + 1
    OBVIOUS
  <2>. QED
    BY <2>1
<1>. QED
  BY <1>1

\* A sequence that is not empty is one sequence and its last element.
LEMMA FrontAndLast ==
    ASSUME NEW T, NEW s \in Seq(T), NEW k \in Nat, Len(s) = k + 1
    PROVE  /\ Front(s) \in Seq(T) /\ Last(s) \in T /\ Len(Front(s)) = k
           /\ s = Append(Front(s), Last(s))
           /\ Last(s) = s[k + 1] /\ \A i \in 1 .. k : Front(s)[i] = s[i]
<1>1. DOMAIN s = 1 .. k + 1 /\ \A i \in 1 .. k + 1 : s[i] \in T
  BY LenProperties
<1>2. Front(s) = SubSeq(s, 1, k)
  BY DEF Front
<1>3. \A i \in 1 .. k : s[i] \in T
  BY <1>1
<1>4. /\ SubSeq(s, 1, k) \in Seq(T) /\ Len(SubSeq(s, 1, k)) = k
      /\ \A i \in 1 .. k : SubSeq(s, 1, k)[i] = s[i]
  <2>1. /\ SubSeq(s, 1, k) \in Seq(T)
        /\ Len(SubSeq(s, 1, k)) = IF 1 <= k THEN k - 1 + 1 ELSE 0
        /\ \A i \in 1 .. k - 1 + 1 : SubSeq(s, 1, k)[i] = s[1 + i - 1]
    BY <1>3, SubSeqProperties
  <2>. QED
    BY <2>1
<1>5. Last(s) = s[k + 1] /\ Last(s) \in T
  BY <1>1 DEF Last
<1>6. s = Append(Front(s), Last(s))
  <2>. DEFINE a == Append(Front(s), Last(s))
  <2>1. /\ a \in Seq(T) /\ Len(a) = k + 1
        /\ \A i \in 1 .. k + 1 : a[i] = IF i = k + 1 THEN Last(s) ELSE Front(s)[i]
    BY <1>2, <1>4, <1>5
  <2>2. \A i \in 1 .. k + 1 : a[i] = s[i]
    <3>1. \A i \in 1 .. k + 1 : i # k + 1 => i \in 1 .. k
      OBVIOUS
    <3>. HIDE DEF a
    <3>. QED
      BY <1>2, <1>4, <1>5, <2>1, <3>1
  <2>. HIDE DEF a
  <2>3. a = s
    BY <2>1, <2>2, SeqEqual
  <2>. QED
    BY <2>3 DEF a
<1>. QED
  BY <1>2, <1>4, <1>5, <1>6

-----------------------------------------------------------------------------
(***************************************************************************)
(* The folds of the model.  An operator cannot be passed to a lemma, so    *)
(* the recursion all of them share is stated over their steps, chosen by   *)
(* name; "at" is what else the step depends on.                            *)
(***************************************************************************)

StepOf(fold, at, acc, e) ==
    CASE fold = "process" -> ProcessByte(acc, e)
      [] fold = "predict" -> PredictByte(acc, e, at)
      [] fold = "absorb"  -> Absorb(acc, e)
      [] fold = "retain"  -> IF e \in at THEN Append(acc, e) ELSE acc

\* The recursion of a fold over the first n elements of seq.
Folding(fold, at, b, seq, n, f) ==
    f = [s \in SUBSET (1 .. n) |->
           IF s = {} THEN b ELSE StepOf(fold, at, f[s \ {Max(s)}], seq[Max(s)])]

\* It has a solution.
LEMMA FoldingExists ==
    ASSUME NEW fold, NEW at, NEW b, NEW seq, NEW n \in Nat
    PROVE  \E f : Folding(fold, at, b, seq, n, f)
<1>. DEFINE Good(k) == \E f : Folding(fold, at, b, seq, k, f)
            S == {k \in Nat : Good(k)}
<1>1. 0 \in S
  <2>. DEFINE f == [s \in SUBSET (1 .. 0) |-> b]
  <2>1. Folding(fold, at, b, seq, 0, f)
    BY DEF Folding
  <2>. HIDE DEF f
  <2>. QED
    BY <2>1
<1>2. ASSUME NEW k \in Nat, Good(k)
      PROVE  Good(k + 1)
  <2>1. PICK f : f = [s \in SUBSET (1 .. k) |->
                  IF s = {} THEN b ELSE StepOf(fold, at, f[s \ {Max(s)}], seq[Max(s)])]
    BY <1>2 DEF Folding
  <2>. DEFINE g == [s \in SUBSET (1 .. k + 1) |->
                      IF k + 1 \in s THEN StepOf(fold, at, f[s \ {k + 1}], seq[k + 1]) ELSE f[s]]
  <2>2. ASSUME NEW s \in SUBSET (1 .. k + 1)
        PROVE  g[s] = IF s = {} THEN b ELSE StepOf(fold, at, g[s \ {Max(s)}], seq[Max(s)])
    <3>1. CASE k + 1 \in s
      <4>1. Max(s) = k + 1 /\ s # {}
        BY <3>1, MaxOfTop
      <4>2. s \ {k + 1} \in SUBSET (1 .. k + 1) /\ k + 1 \notin s \ {k + 1}
        OBVIOUS
      <4>. QED
        BY <3>1, <4>1, <4>2
    <3>2. CASE k + 1 \notin s
      <4>. DEFINE m == Max(s)
      <4>. HIDE DEF m
      <4>1. s \in SUBSET (1 .. k) /\ s \ {m} \in SUBSET (1 .. k)
        <5>1. s \in SUBSET (1 .. k)
          BY <3>2, BelowTop
        <5>. QED
          BY <5>1
      <4>2. k + 1 \notin s \ {m} /\ s \ {m} \in SUBSET (1 .. k + 1)
        BY <3>2
      <4>3. g[s] = f[s] /\ g[s \ {m}] = f[s \ {m}]
        BY <3>2, <4>2
      <4>4. f[s] = IF s = {} THEN b ELSE StepOf(fold, at, f[s \ {Max(s)}], seq[Max(s)])
        BY <2>1, <4>1
      <4>. USE DEF m
      <4>. QED
        BY <4>3, <4>4
    <3>. QED
      BY <3>1, <3>2
  <2>3. g = [s \in SUBSET (1 .. k + 1) |-> g[s]]
    OBVIOUS
  <2>. HIDE DEF g
  <2>4. g = [s \in SUBSET (1 .. k + 1) |->
               IF s = {} THEN b ELSE StepOf(fold, at, g[s \ {Max(s)}], seq[Max(s)])]
    BY <2>2, <2>3
  <2>. QED
    BY <2>4 DEF Folding
<1>. HIDE DEF Good
<1>3. n \in S
  <2>1. \A k \in Nat : k \in S => k + 1 \in S
    BY <1>2
  <2>. HIDE DEF S
  <2>. QED
    BY <1>1, <2>1, InductiveSet
<1>. QED
  BY <1>3 DEF Good

\* It starts with b, and a longer sequence takes one step more.
LEMMA FoldingUnrolls ==
    ASSUME NEW fold, NEW at, NEW b, NEW T, NEW seq \in Seq(T), NEW e \in T, NEW f, NEW g,
           Folding(fold, at, b, seq, Len(seq), f),
           Folding(fold, at, b, Append(seq, e), Len(seq) + 1, g)
    PROVE  g[1 .. Len(seq) + 1] = StepOf(fold, at, f[1 .. Len(seq)], e)
<1>. DEFINE longer == Append(seq, e)
            n == Len(seq)
<1>1. /\ n \in Nat /\ longer[n + 1] = e
      /\ \A i \in 1 .. n : longer[i] = seq[i]
  BY LenProperties
<1>2. f = [s \in SUBSET (1 .. n) |->
             IF s = {} THEN b ELSE StepOf(fold, at, f[s \ {Max(s)}], seq[Max(s)])]
  BY DEF Folding
<1>3. g = [s \in SUBSET (1 .. n + 1) |->
             IF s = {} THEN b ELSE StepOf(fold, at, g[s \ {Max(s)}], longer[Max(s)])]
  BY DEF Folding
<1>. HIDE DEF longer, n
<1>4. ASSUME NEW k \in Nat, k + 1 <= n + 1
      PROVE  /\ g[1 .. k + 1] = StepOf(fold, at, g[1 .. k], longer[k + 1])
             /\ k + 1 <= n => f[1 .. k + 1] = StepOf(fold, at, f[1 .. k], seq[k + 1])
  <2>1. /\ 1 .. k + 1 \in SUBSET (1 .. n + 1) /\ k + 1 \in 1 .. k + 1
        /\ (1 .. k + 1) \ {k + 1} = 1 .. k
        /\ k + 1 <= n => 1 .. k + 1 \in SUBSET (1 .. n)
    BY <1>1, <1>4
  <2>2. Max(1 .. k + 1) = k + 1 /\ 1 .. k + 1 # {}
    BY <2>1, MaxOfTop
  <2>3. g[1 .. k + 1] = StepOf(fold, at, g[1 .. k], longer[k + 1])
    BY <1>3, <2>1, <2>2
  <2>4. k + 1 <= n => f[1 .. k + 1] = StepOf(fold, at, f[1 .. k], seq[k + 1])
    BY <1>2, <2>1, <2>2
  <2>. QED
    BY <2>3, <2>4
<1>5. g[{}] = b /\ f[{}] = b /\ 1 .. 0 = {}
  BY <1>2, <1>3
<1>. DEFINE S == {k \in Nat : k <= n => g[1 .. k] = f[1 .. k]}
<1>6. 0 \in S
  BY <1>5
<1>7. ASSUME NEW k \in Nat, k \in S
      PROVE  k + 1 \in S
  <2>. SUFFICES ASSUME k + 1 <= n PROVE g[1 .. k + 1] = f[1 .. k + 1]
    OBVIOUS
  <2>1. k <= n /\ k + 1 <= n + 1 /\ k + 1 \in 1 .. n
    BY <1>1
  <2>. QED
    BY <1>1, <1>4, <1>7, <2>1
<1>8. n \in S
  <2>. HIDE DEF S
  <2>. QED
    BY <1>1, <1>6, <1>7, InductiveSet
<1>9. g[1 .. n] = f[1 .. n]
  BY <1>1, <1>8
<1>10. g[1 .. n + 1] = StepOf(fold, at, f[1 .. n], e)
  BY <1>1, <1>4, <1>9
<1>. QED
  BY <1>10 DEF n

\* process, over a read.
Processing(b, seq, top, f) ==
    f = [s \in SUBSET top |->
           IF s = {} THEN b ELSE ProcessByte(f[s \ {Max(s)}], seq[Max(s)])]

ProcessingOf(b, seq, top) == CHOOSE f : Processing(b, seq, top, f)

\* FoldLeft follows that recursion.
LEMMA ProcessingFolds ==
    ASSUME NEW b, NEW T, NEW seq \in Seq(T)
    PROVE  \E f : /\ Folding("process", {}, b, seq, Len(seq), f)
                  /\ FoldLeft(ProcessByte, b, seq) = f[1 .. Len(seq)]
<1>1. DOMAIN seq = 1 .. Len(seq) /\ Len(seq) \in Nat
  BY LenProperties
<1>2. \A f : Processing(b, seq, 1 .. Len(seq), f) <=> Folding("process", {}, b, seq, Len(seq), f)
  BY DEF Processing, Folding, StepOf
<1>. DEFINE f == ProcessingOf(b, seq, 1 .. Len(seq))
<1>3. Processing(b, seq, 1 .. Len(seq), f)
  <2>1. \E h : Processing(b, seq, 1 .. Len(seq), h)
    BY <1>1, <1>2, FoldingExists
  <2>. QED
    BY <2>1 DEF ProcessingOf
<1>4. FoldLeft(ProcessByte, b, seq) = f[1 .. Len(seq)]
  <2>1. FoldLeft(ProcessByte, b, seq) = ProcessingOf(b, seq, DOMAIN seq)[DOMAIN seq]
    BY DEF FoldLeft, MapThenFoldSet, ProcessingOf, Processing
  <2>. QED
    BY <1>1, <2>1
<1>. HIDE DEF f
<1>. QED
  BY <1>2, <1>3, <1>4

\* Over nothing.
LEMMA ProcessingNothing ==
    ASSUME NEW b
    PROVE  FoldLeft(ProcessByte, b, << >>) = b
<1>1. << >> \in Seq({}) /\ Len(<< >>) = 0 /\ 1 .. 0 = {}
  OBVIOUS
<1>2. PICK f : /\ Folding("process", {}, b, << >>, Len(<< >>), f)
               /\ FoldLeft(ProcessByte, b, << >>) = f[1 .. Len(<< >>)]
  BY <1>1, ProcessingFolds
<1>. QED
  BY <1>1, <1>2 DEF Folding

\* Over one element more.
LEMMA ProcessingUnrolls ==
    ASSUME NEW b, NEW T, NEW seq \in Seq(T), NEW e \in T
    PROVE  FoldLeft(ProcessByte, b, Append(seq, e)) = ProcessByte(FoldLeft(ProcessByte, b, seq), e)
<1>1. Append(seq, e) \in Seq(T) /\ Len(Append(seq, e)) = Len(seq) + 1
  BY AppendProperties
<1>2. PICK f : /\ Folding("process", {}, b, seq, Len(seq), f)
               /\ FoldLeft(ProcessByte, b, seq) = f[1 .. Len(seq)]
  BY ProcessingFolds
<1>3. PICK g : /\ Folding("process", {}, b, Append(seq, e), Len(seq) + 1, g)
               /\ FoldLeft(ProcessByte, b, Append(seq, e)) = g[1 .. Len(seq) + 1]
  BY <1>1, ProcessingFolds
<1>4. g[1 .. Len(seq) + 1] = StepOf("process", {}, f[1 .. Len(seq)], e)
  BY <1>2, <1>3, FoldingUnrolls
<1>. QED
  BY <1>2, <1>3, <1>4 DEF StepOf

\* Its recursion.
Predicting(scr, b, seq, top, f) ==
    f = [s \in SUBSET top |->
           IF s = {} THEN b ELSE PredictByte(f[s \ {Max(s)}], seq[Max(s)], scr)]

PredictingOf(scr, b, seq, top) == CHOOSE f : Predicting(scr, b, seq, top, f)

\* FoldLeft follows that recursion.
LEMMA PredictingFolds ==
    ASSUME NEW scr, NEW b, NEW T, NEW seq \in Seq(T)
    PROVE  \E f : /\ Folding("predict", scr, b, seq, Len(seq), f)
                  /\ PredictAll(b, seq, scr) = f[1 .. Len(seq)]
<1>1. DOMAIN seq = 1 .. Len(seq) /\ Len(seq) \in Nat
  BY LenProperties
<1>2. \A f : Predicting(scr, b, seq, 1 .. Len(seq), f) <=> Folding("predict", scr, b, seq, Len(seq), f)
  BY DEF Predicting, Folding, StepOf
<1>. DEFINE f == PredictingOf(scr, b, seq, 1 .. Len(seq))
<1>3. Predicting(scr, b, seq, 1 .. Len(seq), f)
  <2>1. \E h : Predicting(scr, b, seq, 1 .. Len(seq), h)
    BY <1>1, <1>2, FoldingExists
  <2>. QED
    BY <2>1 DEF PredictingOf
<1>4. PredictAll(b, seq, scr) = f[1 .. Len(seq)]
  <2>1. PredictAll(b, seq, scr) = PredictingOf(scr, b, seq, DOMAIN seq)[DOMAIN seq]
    BY DEF FoldLeft, MapThenFoldSet, PredictingOf, Predicting, PredictAll
  <2>. QED
    BY <1>1, <2>1
<1>. HIDE DEF f
<1>. QED
  BY <1>2, <1>3, <1>4

\* Over nothing.
LEMMA PredictingNothing ==
    ASSUME NEW scr, NEW b
    PROVE  PredictAll(b, << >>, scr) = b
<1>1. << >> \in Seq({}) /\ Len(<< >>) = 0 /\ 1 .. 0 = {}
  OBVIOUS
<1>2. PICK f : /\ Folding("predict", scr, b, << >>, Len(<< >>), f)
               /\ PredictAll(b, << >>, scr) = f[1 .. Len(<< >>)]
  BY <1>1, PredictingFolds
<1>. QED
  BY <1>1, <1>2 DEF Folding

\* Over one element more.
LEMMA PredictingUnrolls ==
    ASSUME NEW scr, NEW b, NEW T, NEW seq \in Seq(T), NEW e \in T
    PROVE  PredictAll(b, Append(seq, e), scr) = PredictByte(PredictAll(b, seq, scr), e, scr)
<1>1. Append(seq, e) \in Seq(T) /\ Len(Append(seq, e)) = Len(seq) + 1
  BY AppendProperties
<1>2. PICK f : /\ Folding("predict", scr, b, seq, Len(seq), f)
               /\ PredictAll(b, seq, scr) = f[1 .. Len(seq)]
  BY PredictingFolds
<1>3. PICK g : /\ Folding("predict", scr, b, Append(seq, e), Len(seq) + 1, g)
               /\ PredictAll(b, Append(seq, e), scr) = g[1 .. Len(seq) + 1]
  BY <1>1, PredictingFolds
<1>4. g[1 .. Len(seq) + 1] = StepOf("predict", scr, f[1 .. Len(seq)], e)
  BY <1>2, <1>3, FoldingUnrolls
<1>. QED
  BY <1>2, <1>3, <1>4 DEF StepOf

\* The application, over the stream.
Absorbing(b, seq, top, f) ==
    f = [s \in SUBSET top |->
           IF s = {} THEN b ELSE Absorb(f[s \ {Max(s)}], seq[Max(s)])]

AbsorbingOf(b, seq, top) == CHOOSE f : Absorbing(b, seq, top, f)

\* FoldLeft follows that recursion.
LEMMA AbsorbingFolds ==
    ASSUME NEW b, NEW T, NEW seq \in Seq(T)
    PROVE  \E f : /\ Folding("absorb", {}, b, seq, Len(seq), f)
                  /\ FoldLeft(Absorb, b, seq) = f[1 .. Len(seq)]
<1>1. DOMAIN seq = 1 .. Len(seq) /\ Len(seq) \in Nat
  BY LenProperties
<1>2. \A f : Absorbing(b, seq, 1 .. Len(seq), f) <=> Folding("absorb", {}, b, seq, Len(seq), f)
  BY DEF Absorbing, Folding, StepOf
<1>. DEFINE f == AbsorbingOf(b, seq, 1 .. Len(seq))
<1>3. Absorbing(b, seq, 1 .. Len(seq), f)
  <2>1. \E h : Absorbing(b, seq, 1 .. Len(seq), h)
    BY <1>1, <1>2, FoldingExists
  <2>. QED
    BY <2>1 DEF AbsorbingOf
<1>4. FoldLeft(Absorb, b, seq) = f[1 .. Len(seq)]
  <2>1. FoldLeft(Absorb, b, seq) = AbsorbingOf(b, seq, DOMAIN seq)[DOMAIN seq]
    BY DEF FoldLeft, MapThenFoldSet, AbsorbingOf, Absorbing
  <2>. QED
    BY <1>1, <2>1
<1>. HIDE DEF f
<1>. QED
  BY <1>2, <1>3, <1>4

\* Over nothing.
LEMMA AbsorbingNothing ==
    ASSUME NEW b
    PROVE  FoldLeft(Absorb, b, << >>) = b
<1>1. << >> \in Seq({}) /\ Len(<< >>) = 0 /\ 1 .. 0 = {}
  OBVIOUS
<1>2. PICK f : /\ Folding("absorb", {}, b, << >>, Len(<< >>), f)
               /\ FoldLeft(Absorb, b, << >>) = f[1 .. Len(<< >>)]
  BY <1>1, AbsorbingFolds
<1>. QED
  BY <1>1, <1>2 DEF Folding

\* Over one element more.
LEMMA AbsorbingUnrolls ==
    ASSUME NEW b, NEW T, NEW seq \in Seq(T), NEW e \in T
    PROVE  FoldLeft(Absorb, b, Append(seq, e)) = Absorb(FoldLeft(Absorb, b, seq), e)
<1>1. Append(seq, e) \in Seq(T) /\ Len(Append(seq, e)) = Len(seq) + 1
  BY AppendProperties
<1>2. PICK f : /\ Folding("absorb", {}, b, seq, Len(seq), f)
               /\ FoldLeft(Absorb, b, seq) = f[1 .. Len(seq)]
  BY AbsorbingFolds
<1>3. PICK g : /\ Folding("absorb", {}, b, Append(seq, e), Len(seq) + 1, g)
               /\ FoldLeft(Absorb, b, Append(seq, e)) = g[1 .. Len(seq) + 1]
  BY <1>1, AbsorbingFolds
<1>4. g[1 .. Len(seq) + 1] = StepOf("absorb", {}, f[1 .. Len(seq)], e)
  BY <1>2, <1>3, FoldingUnrolls
<1>. QED
  BY <1>2, <1>3, <1>4 DEF StepOf

\* The elements kept of a list, after others.
RetainAfter(b, list, set) ==
    FoldLeft(LAMBDA kept, c : IF c \in set THEN Append(kept, c) ELSE kept, b, list)

\* Its recursion.
Retaining(set, b, seq, top, f) ==
    f = [s \in SUBSET top |->
           IF s = {} THEN b
           ELSE IF seq[Max(s)] \in set THEN Append(f[s \ {Max(s)}], seq[Max(s)])
           ELSE f[s \ {Max(s)}]]

RetainingOf(set, b, seq, top) == CHOOSE f : Retaining(set, b, seq, top, f)

\* FoldLeft follows that recursion.
LEMMA RetainingFolds ==
    ASSUME NEW set, NEW b, NEW T, NEW seq \in Seq(T)
    PROVE  \E f : /\ Folding("retain", set, b, seq, Len(seq), f)
                  /\ RetainAfter(b, seq, set) = f[1 .. Len(seq)]
<1>1. DOMAIN seq = 1 .. Len(seq) /\ Len(seq) \in Nat
  BY LenProperties
<1>2. \A f : Retaining(set, b, seq, 1 .. Len(seq), f) <=> Folding("retain", set, b, seq, Len(seq), f)
  BY DEF Retaining, Folding, StepOf
<1>. DEFINE f == RetainingOf(set, b, seq, 1 .. Len(seq))
<1>3. Retaining(set, b, seq, 1 .. Len(seq), f)
  <2>1. \E h : Retaining(set, b, seq, 1 .. Len(seq), h)
    BY <1>1, <1>2, FoldingExists
  <2>. QED
    BY <2>1 DEF RetainingOf
<1>4. RetainAfter(b, seq, set) = f[1 .. Len(seq)]
  <2>1. RetainAfter(b, seq, set) = RetainingOf(set, b, seq, DOMAIN seq)[DOMAIN seq]
    BY DEF FoldLeft, MapThenFoldSet, RetainingOf, Retaining, RetainAfter
  <2>. QED
    BY <1>1, <2>1
<1>. HIDE DEF f
<1>. QED
  BY <1>2, <1>3, <1>4

\* Over nothing.
LEMMA RetainingNothing ==
    ASSUME NEW set, NEW b
    PROVE  RetainAfter(b, << >>, set) = b
<1>1. << >> \in Seq({}) /\ Len(<< >>) = 0 /\ 1 .. 0 = {}
  OBVIOUS
<1>2. PICK f : /\ Folding("retain", set, b, << >>, Len(<< >>), f)
               /\ RetainAfter(b, << >>, set) = f[1 .. Len(<< >>)]
  BY <1>1, RetainingFolds
<1>. QED
  BY <1>1, <1>2 DEF Folding

\* Over one element more.
LEMMA RetainingUnrolls ==
    ASSUME NEW set, NEW b, NEW T, NEW seq \in Seq(T), NEW e \in T
    PROVE  RetainAfter(b, Append(seq, e), set) = IF e \in set THEN Append(RetainAfter(b, seq, set), e)
           ELSE RetainAfter(b, seq, set)
<1>1. Append(seq, e) \in Seq(T) /\ Len(Append(seq, e)) = Len(seq) + 1
  BY AppendProperties
<1>2. PICK f : /\ Folding("retain", set, b, seq, Len(seq), f)
               /\ RetainAfter(b, seq, set) = f[1 .. Len(seq)]
  BY RetainingFolds
<1>3. PICK g : /\ Folding("retain", set, b, Append(seq, e), Len(seq) + 1, g)
               /\ RetainAfter(b, Append(seq, e), set) = g[1 .. Len(seq) + 1]
  BY <1>1, RetainingFolds
<1>4. g[1 .. Len(seq) + 1] = StepOf("retain", set, f[1 .. Len(seq)], e)
  BY <1>2, <1>3, FoldingUnrolls
<1>. QED
  BY <1>2, <1>3, <1>4 DEF StepOf

-----------------------------------------------------------------------------
(***************************************************************************)
(* Sequences of sequences.                                                 *)
(***************************************************************************)

Flattening(ss, n, f) == f = [i \in 1 .. n |-> IF i = 1 THEN ss[i] ELSE f[i - 1] \o ss[i]]

FlatteningOf(ss, n) == CHOOSE f : Flattening(ss, n, f)

\* The recursion of FlattenSeq has a solution.
LEMMA FlatteningExists ==
    ASSUME NEW ss, NEW n \in Nat
    PROVE  Flattening(ss, n, FlatteningOf(ss, n))
<1>. DEFINE Good(k) == \E f : Flattening(ss, k, f)
            S == {k \in Nat : Good(k)}
<1>1. 0 \in S
  <2>. DEFINE f == [i \in 1 .. 0 |-> i]
  <2>1. Flattening(ss, 0, f)
    BY DEF Flattening
  <2>. HIDE DEF f
  <2>. QED
    BY <2>1
<1>2. ASSUME NEW k \in Nat, Good(k)
      PROVE  Good(k + 1)
  <2>1. PICK f : f = [i \in 1 .. k |-> IF i = 1 THEN ss[i] ELSE f[i - 1] \o ss[i]]
    BY <1>2 DEF Flattening
  <2>. DEFINE last == IF k + 1 = 1 THEN ss[k + 1] ELSE f[k] \o ss[k + 1]
  <2>. HIDE DEF last
  <2>. DEFINE g == [i \in 1 .. k + 1 |-> IF i = k + 1 THEN last ELSE f[i]]
  <2>2. ASSUME NEW i \in 1 .. k + 1
        PROVE  g[i] = IF i = 1 THEN ss[i] ELSE g[i - 1] \o ss[i]
    <3>1. CASE i = k + 1
      <4>1. i # 1 => g[i - 1] = f[k] /\ k \in 1 .. k
        BY <3>1
      <4>2. g[i] = last
        BY <3>1
      <4>. QED
        BY <3>1, <4>1, <4>2 DEF last
    <3>2. CASE i # k + 1
      <4>1. i \in 1 .. k /\ g[i] = f[i]
        BY <3>2
      <4>2. i # 1 => g[i - 1] = f[i - 1]
        BY <4>1
      <4>3. f[i] = IF i = 1 THEN ss[i] ELSE f[i - 1] \o ss[i]
        BY <2>1, <4>1
      <4>. QED
        BY <4>1, <4>2, <4>3
    <3>. QED
      BY <3>1, <3>2
  <2>3. g = [i \in 1 .. k + 1 |-> g[i]]
    OBVIOUS
  <2>. HIDE DEF g
  <2>4. g = [i \in 1 .. k + 1 |-> IF i = 1 THEN ss[i] ELSE g[i - 1] \o ss[i]]
    BY <2>2, <2>3
  <2>. QED
    BY <2>4 DEF Flattening
<1>. HIDE DEF Good
<1>3. n \in S
  <2>1. \A k \in Nat : k \in S => k + 1 \in S
    BY <1>2
  <2>. HIDE DEF S
  <2>. QED
    BY <1>1, <2>1, InductiveSet
<1>. QED
  BY <1>3 DEF FlatteningOf, Good

\* Flattening one sequence more appends it.
LEMMA FlattenUnrolls ==
    ASSUME NEW T, NEW ss \in Seq(Seq(T)), NEW s \in Seq(T)
    PROVE  FlattenSeq(Append(ss, s)) = FlattenSeq(ss) \o s
<1>. DEFINE n == Len(ss)
            longer == Append(ss, s)
            f == FlatteningOf(ss, n)
            g == FlatteningOf(longer, n + 1)
<1>1. /\ n \in Nat /\ longer \in Seq(Seq(T)) /\ Len(longer) = n + 1
      /\ longer[n + 1] = s /\ \A i \in 1 .. n : longer[i] = ss[i] /\ ss[i] \in Seq(T)
  BY LenProperties
<1>2. /\ FlattenSeq(ss) = IF n = 0 THEN ss ELSE f[n]
      /\ FlattenSeq(longer) = g[n + 1]
  <2>1. FlattenSeq(ss) = IF n = 0 THEN ss ELSE f[n]
    BY DEF FlattenSeq, FlatteningOf, Flattening
  <2>2. FlattenSeq(longer) = IF Len(longer) = 0 THEN longer
                             ELSE FlatteningOf(longer, Len(longer))[Len(longer)]
    BY DEF FlattenSeq, FlatteningOf, Flattening
  <2>. QED
    BY <1>1, <2>1, <2>2
<1>3. f = [i \in 1 .. n |-> IF i = 1 THEN ss[i] ELSE f[i - 1] \o ss[i]]
  <2>1. Flattening(ss, n, f)
    BY <1>1, FlatteningExists
  <2>. QED
    BY <2>1 DEF Flattening
<1>4. g = [i \in 1 .. n + 1 |-> IF i = 1 THEN longer[i] ELSE g[i - 1] \o longer[i]]
  <2>1. n + 1 \in Nat
    BY <1>1
  <2>2. Flattening(longer, n + 1, g)
    BY <2>1, FlatteningExists
  <2>. QED
    BY <2>2 DEF Flattening
<1>5. n = 0 => ss = << >>
  BY EmptySeq
<1>6. s = << >> \o s
  BY ConcatEmptySeq
<1>. HIDE DEF n, longer, f, g
<1>. DEFINE S == {k \in Nat : k + 1 <= n => g[k + 1] = f[k + 1]}
<1>7. 0 \in S
  BY <1>1, <1>3, <1>4
<1>8. ASSUME NEW k \in Nat, k \in S
      PROVE  k + 1 \in S
  <2>. SUFFICES ASSUME (k + 1) + 1 <= n PROVE g[(k + 1) + 1] = f[(k + 1) + 1]
    OBVIOUS
  <2>. DEFINE i == (k + 1) + 1
  <2>1. i \in 1 .. n /\ i \in 1 .. n + 1 /\ i # 1 /\ i - 1 = k + 1 /\ g[k + 1] = f[k + 1]
    BY <1>1, <1>8
  <2>. HIDE DEF i
  <2>2. g[i] = g[i - 1] \o longer[i] /\ f[i] = f[i - 1] \o ss[i]
    BY <1>3, <1>4, <2>1
  <2>. QED
    BY <1>1, <2>1, <2>2 DEF i
<1>9. \A k \in Nat : k + 1 <= n => g[k + 1] = f[k + 1]
  <2>1. Nat \subseteq S
    <3>. HIDE DEF S
    <3>. QED
      BY <1>7, <1>8, InductiveSet
  <2>. QED
    BY <2>1
<1>10. CASE n = 0
  BY <1>1, <1>2, <1>4, <1>5, <1>6, <1>10 DEF longer
<1>11. CASE n # 0
  <2>1. n - 1 \in Nat /\ (n - 1) + 1 = n /\ n + 1 \in 1 .. n + 1 /\ n + 1 # 1 /\ (n + 1) - 1 = n
    BY <1>1, <1>11
  <2>2. g[n] = f[n]
    BY SMTT(30), <1>9, <2>1
  <2>3. g[n + 1] = g[n] \o longer[n + 1]
    BY <1>4, <2>1
  <2>. QED
    BY <1>1, <1>2, <1>11, <2>2, <2>3 DEF longer
<1>. QED
  BY <1>10, <1>11

\* Flattening nothing.
LEMMA FlattenNothing == FlattenSeq(<< >>) = << >>
BY DEF FlattenSeq

\* A flattened sequence has the elements' sort.
LEMMA FlattenIsSeq ==
    ASSUME NEW T, NEW ss \in Seq(Seq(T))
    PROVE  FlattenSeq(ss) \in Seq(T)
<1>. DEFINE S == {k \in Nat : \A xs \in Seq(Seq(T)) : Len(xs) = k => FlattenSeq(xs) \in Seq(T)}
<1>1. 0 \in S
  BY FlattenNothing, EmptySeq
<1>2. ASSUME NEW k \in Nat, k \in S
      PROVE  k + 1 \in S
  <2>. SUFFICES ASSUME NEW xs \in Seq(Seq(T)), Len(xs) = k + 1
                PROVE  FlattenSeq(xs) \in Seq(T)
    OBVIOUS
  <2>1. /\ Front(xs) \in Seq(Seq(T)) /\ Last(xs) \in Seq(T) /\ Len(Front(xs)) = k
        /\ xs = Append(Front(xs), Last(xs))
    BY FrontAndLast
  <2>2. FlattenSeq(Front(xs)) \in Seq(T)
    BY <1>2, <2>1
  <2>3. FlattenSeq(xs) = FlattenSeq(Front(xs)) \o Last(xs)
    BY <2>1, FlattenUnrolls
  <2>. QED
    BY <2>1, <2>2, <2>3, ConcatProperties
<1>3. Len(ss) \in S
  <2>1. Len(ss) \in Nat
    BY LenProperties
  <2>. HIDE DEF S
  <2>. QED
    BY <1>1, <1>2, <2>1, InductiveSet
<1>. QED
  BY <1>3

-----------------------------------------------------------------------------
(***************************************************************************)
(* Where the local commands are (LocalEscape.tla).                         *)
(***************************************************************************)

\* The body of the recursion in CommandStarts, for the solution f.
StartsHere(x, f, i) ==
    /\ i > 0 /\ x[i] = EscapeKey /\ ~f[i - 1]
    /\ NeedsLineStart => /\ i > 1 /\ x[i - 1] \in LineEnds
                         /\ ~f[i - 2]

Starting(x, n, f) == f = [i \in 0 .. n |-> StartsHere(x, f, i)]

StartingOf(x, n) == CHOOSE f : Starting(x, n, f)

\* It looks back two elements at most.
LEMMA StartsLookBack ==
    ASSUME NEW x, NEW f, NEW g, NEW i \in Nat,
           i > 0 => f[i - 1] = g[i - 1], i > 1 => f[i - 2] = g[i - 2]
    PROVE  StartsHere(x, f, i) = StartsHere(x, g, i)
<1>1. CASE i > 1
  <2>1. i > 0 /\ f[i - 1] = g[i - 1] /\ f[i - 2] = g[i - 2]
    BY <1>1
  <2>. QED
    BY Zenon, <2>1 DEF StartsHere
<1>2. CASE i = 1
  <2>1. ~(i > 1) /\ f[i - 1] = g[i - 1]
    BY <1>2
  <2>. QED
    BY Zenon, <2>1 DEF StartsHere
<1>3. CASE i = 0
  <2>1. ~(i > 0)
    BY <1>3
  <2>. QED
    BY Zenon, <2>1 DEF StartsHere
<1>. QED
  BY <1>1, <1>2, <1>3

\* The recursion of CommandStarts has a solution.
LEMMA StartingExists ==
    ASSUME NEW x, NEW n \in Nat
    PROVE  Starting(x, n, StartingOf(x, n))
<1>. DEFINE Good(k) == \E f : Starting(x, k, f)
            S == {k \in Nat : Good(k)}
<1>1. 0 \in S
  <2>. DEFINE f == [i \in 0 .. 0 |-> FALSE]
  <2>1. \A i \in 0 .. 0 : StartsHere(x, f, i) = FALSE
    <3>1. \A i \in 0 .. 0 : ~(i > 0)
      OBVIOUS
    <3>. QED
      BY Zenon, <3>1 DEF StartsHere
  <2>2. Starting(x, 0, f)
    BY Zenon, <2>1 DEF Starting
  <2>. HIDE DEF f
  <2>. QED
    BY <2>2
<1>2. ASSUME NEW k \in Nat, Good(k)
      PROVE  Good(k + 1)
  <2>1. PICK f : f = [i \in 0 .. k |-> StartsHere(x, f, i)]
    BY <1>2 DEF Starting
  <2>. DEFINE last == StartsHere(x, f, k + 1)
              g == [i \in 0 .. k + 1 |-> IF i = k + 1 THEN last ELSE f[i]]
  <2>. HIDE DEF last
  <2>2. ASSUME NEW i \in 0 .. k + 1
        PROVE  g[i] = StartsHere(x, g, i)
    <3>1. /\ i \in Nat
          /\ i > 0 => i - 1 \in 0 .. k + 1 /\ i - 1 # k + 1
          /\ i > 1 => i - 2 \in 0 .. k + 1 /\ i - 2 # k + 1
      OBVIOUS
    <3>2. i > 0 => f[i - 1] = g[i - 1]
      BY <3>1
    <3>3. i > 1 => f[i - 2] = g[i - 2]
      BY <3>1
    <3>. HIDE DEF g
    <3>4. StartsHere(x, f, i) = StartsHere(x, g, i)
      BY <3>1, <3>2, <3>3, StartsLookBack
    <3>5. i = k + 1 => g[i] = StartsHere(x, f, i)
      BY Zenon DEF g, last
    <3>6. i # k + 1 => i \in 0 .. k /\ g[i] = f[i]
      BY DEF g
    <3>7. i # k + 1 => g[i] = StartsHere(x, f, i)
      BY Zenon, <2>1, <3>6
    <3>. QED
      BY Zenon, <3>4, <3>5, <3>7
  <2>3. g = [i \in 0 .. k + 1 |-> g[i]]
    OBVIOUS
  <2>. HIDE DEF g
  <2>4. Starting(x, k + 1, g)
    BY Zenon, <2>2, <2>3 DEF Starting
  <2>. QED
    BY <2>4
<1>. HIDE DEF Good
<1>3. n \in S
  <2>1. \A k \in Nat : k \in S => k + 1 \in S
    BY <1>2
  <2>. HIDE DEF S
  <2>. QED
    BY <1>1, <2>1, InductiveSet
<1>. QED
  BY <1>3 DEF StartingOf, Good

\* A command starts at an escape key that is not the second byte of a
\* command, and, where that is asked for, right after a line's end that is
\* not one either.
Opens(x, starts, i) ==
    /\ x[i] = EscapeKey /\ i - 1 \notin starts
    /\ NeedsLineStart => /\ i > 1 /\ x[i - 1] \in LineEnds
                         /\ i - 2 \notin starts

\* CommandStarts is the set of these positions.
LEMMA StartsOpen ==
    ASSUME NEW T, NEW x \in Seq(T)
    PROVE  /\ CommandStarts(x) \subseteq 1 .. Len(x)
           /\ \A i \in 1 .. Len(x) : i \in CommandStarts(x) <=> Opens(x, CommandStarts(x), i)
<1>. DEFINE n == Len(x)
            f == StartingOf(x, n)
            C == CommandStarts(x)
<1>1. n \in Nat
  BY LenProperties
<1>2. C = {i \in 1 .. n : f[i]}
  BY DEF CommandStarts, StartingOf, Starting, StartsHere
<1>3. Starting(x, n, f)
  BY <1>1, StartingExists
<1>. HIDE DEF n, f, C
<1>4. \A i \in 0 .. n : f[i] = StartsHere(x, f, i)
  BY Zenon, <1>3 DEF Starting
<1>5. ASSUME NEW i \in 1 .. n
      PROVE  i \in C <=> Opens(x, C, i)
  <2>1. i \in 0 .. n /\ i > 0 /\ i - 1 \in 0 .. n /\ (i > 1 => i - 2 \in 0 .. n)
    BY <1>1
  <2>2. i \in C <=> StartsHere(x, f, i)
    BY Zenon, <1>2, <1>4, <2>1
  <2>3. \A j \in 0 .. n : f[j] <=> j \in C
    <3>1. TAKE j \in 0 .. n
    <3>2. CASE j = 0
      <4>1. 0 \notin C /\ ~(j > 0)
        BY <1>2, <3>2
      <4>2. f[j] = StartsHere(x, f, j)
        BY Zenon, <1>4, <3>1
      <4>. QED
        BY Zenon, <3>2, <4>1, <4>2 DEF StartsHere
    <3>3. CASE j # 0
      <4>1. j \in 1 .. n
        BY <1>1, <3>1, <3>3
      <4>. QED
        BY Zenon, <1>2, <4>1
    <3>. QED
      BY <3>2, <3>3
  <2>4. (f[i - 1] <=> i - 1 \in C) /\ (i > 1 => (f[i - 2] <=> i - 2 \in C))
    BY Zenon, <2>1, <2>3
  <2>. QED
    BY Zenon, <2>1, <2>2, <2>4 DEF StartsHere, Opens
<1>. QED
  BY <1>2, <1>5 DEF n, C

\* One byte more starts a command or does not; the commands before stay.
LEMMA StartsGrow ==
    ASSUME NEW T, NEW x \in Seq(T), NEW e \in T
    PROVE  CommandStarts(Append(x, e)) =
             CommandStarts(x) \cup
               (IF Opens(Append(x, e), CommandStarts(x), Len(x) + 1) THEN {Len(x) + 1} ELSE {})
<1>. DEFINE n == Len(x)
            y == Append(x, e)
            C == CommandStarts(x)
            D == CommandStarts(y)
<1>1. /\ n \in Nat /\ y \in Seq(T) /\ Len(y) = n + 1
      /\ y[n + 1] = e /\ \A i \in 1 .. n : y[i] = x[i]
  BY LenProperties
<1>2. C \subseteq 1 .. n /\ \A i \in 1 .. n : i \in C <=> Opens(x, C, i)
  BY StartsOpen
<1>3. D \subseteq 1 .. n + 1 /\ \A i \in 1 .. n + 1 : i \in D <=> Opens(y, D, i)
  BY <1>1, StartsOpen
<1>. HIDE DEF n, y, C, D
<1>. DEFINE S == {k \in Nat : \A i \in 0 .. k : i <= n => (i \in D <=> i \in C)}
<1>4. 0 \in S
  BY <1>1, <1>2, <1>3
<1>5. ASSUME NEW k \in Nat, k \in S
      PROVE  k + 1 \in S
  <2>. SUFFICES ASSUME k + 1 <= n PROVE k + 1 \in D <=> k + 1 \in C
    <3>1. \A i \in 0 .. k + 1 : i \in 0 .. k \/ i = k + 1
      OBVIOUS
    <3>. QED
      BY <1>5, <3>1
  <2>. DEFINE i == k + 1
  <2>1. /\ i \in 1 .. n /\ i \in 1 .. n + 1 /\ i - 1 = k /\ k \in 0 .. k /\ k <= n
        /\ i > 1 => k - 1 \in 0 .. k /\ k - 1 <= n /\ i - 2 = k - 1 /\ i - 1 \in 1 .. n
    BY <1>1
  <2>2. k \in D <=> k \in C
    BY <1>5, <2>1
  <2>3. i > 1 => (k - 1 \in D <=> k - 1 \in C)
    BY <1>5, <2>1
  <2>4. y[i] = x[i] /\ (i > 1 => y[i - 1] = x[i - 1])
    BY <1>1, <2>1
  <2>. HIDE DEF i
  <2>5. Opens(y, D, i) <=> Opens(x, C, i)
    BY <2>1, <2>2, <2>3, <2>4 DEF Opens
  <2>. QED
    BY <1>2, <1>3, <2>1, <2>5 DEF i
<1>6. \A i \in 1 .. n : i \in D <=> i \in C
  <2>1. Nat \subseteq S
    <3>. HIDE DEF S
    <3>. QED
      BY <1>4, <1>5, InductiveSet
  <2>2. n \in S
    BY <1>1, <2>1
  <2>. QED
    BY <1>1, <2>2
<1>7. n + 1 \in D <=> Opens(y, C, n + 1)
  <2>. DEFINE i == n + 1
  <2>1. /\ i \in 1 .. n + 1 /\ i - 1 = n /\ (i > 1 => i - 2 = n - 1 /\ i - 2 \in 0 .. n)
    BY <1>1
  <2>2. n \in D <=> n \in C
    BY <1>1, <1>2, <1>3, <1>6
  <2>3. i > 1 => (i - 2 \in D <=> i - 2 \in C)
    BY <1>1, <1>2, <1>3, <1>6, <2>1
  <2>. HIDE DEF i
  <2>4. Opens(y, D, i) <=> Opens(y, C, i)
    BY <2>1, <2>2, <2>3 DEF Opens
  <2>. QED
    BY <1>3, <2>1, <2>4 DEF i
<1>8. D = C \cup (IF Opens(y, C, n + 1) THEN {n + 1} ELSE {})
  <2>1. ASSUME NEW j \in 1 .. n + 1
        PROVE  j \in 1 .. n \/ j = n + 1
    BY <1>1
  <2>2. n + 1 \notin 1 .. n /\ \A j \in 1 .. n : j # n + 1 /\ j \in 1 .. n + 1
    BY <1>1
  <2>. QED
    BY <1>2, <1>3, <1>6, <1>7, <2>1, <2>2
<1>. QED
  BY <1>8 DEF n, y, C, D

-----------------------------------------------------------------------------
(***************************************************************************)
(* What of the input is meant for the server.                              *)
(***************************************************************************)

\* What a command sends are bytes.
LEMMA CommandIsBytes ==
    ASSUME NEW e \in Bytes
    PROVE  Command(e) \in Seq(Bytes)
BY ScenesAssumption DEF Command

\* The parts are sequences of bytes.
LEMMA PartsAreBytes ==
    ASSUME NEW x \in Seq(Bytes)
    PROVE  Parts(x) \in Seq(Seq(Bytes)) /\ Len(Parts(x)) = Len(x)
<1>1. Len(x) \in Nat /\ \A i \in 1 .. Len(x) : x[i] \in Bytes
  BY LenProperties
<1>2. \A i \in 1 .. Len(x) : PartAt(x, i) \in Seq(Bytes)
  <2>1. TAKE i \in 1 .. Len(x)
  <2>2. x[i] \in Bytes
    BY <1>1, <2>1
  <2>3. Command(x[i]) \in Seq(Bytes) /\ <<x[i]>> \in Seq(Bytes) /\ << >> \in Seq(Bytes)
    BY <2>2, CommandIsBytes
  <2>. QED
    BY <2>3 DEF PartAt
<1>. QED
  BY <1>1, <1>2 DEF Parts

\* One byte more: the quits before stay.
LEMMA QuitsGrow ==
    ASSUME NEW x \in Seq(Bytes), NEW e \in Bytes
    PROVE  Quits(Append(x, e)) =
             Quits(x) \cup (IF Len(x) \in CommandStarts(x) /\ e = "." THEN {Len(x) + 1} ELSE {})
<1>. DEFINE n == Len(x)
            y == Append(x, e)
            C == CommandStarts(x)
            D == CommandStarts(y)
<1>1. /\ n \in Nat /\ DOMAIN y = 1 .. n + 1 /\ DOMAIN x = 1 .. n
      /\ y[n + 1] = e /\ \A i \in 1 .. n : y[i] = x[i]
  BY LenProperties
<1>2. C \subseteq 1 .. n
  BY StartsOpen
<1>3. C \subseteq D /\ D \subseteq C \cup {n + 1}
  BY StartsGrow
<1>4. Quits(x) = {i \in 1 .. n : i - 1 \in C /\ x[i] = "."}
  BY <1>1 DEF Quits
<1>5. Quits(y) = {i \in 1 .. n + 1 : i - 1 \in D /\ y[i] = "."}
  BY <1>1 DEF Quits
<1>. HIDE DEF n, y, C, D
<1>6. \A i \in 1 .. n + 1 : i - 1 \in D <=> i - 1 \in C
  <2>1. \A i \in 1 .. n + 1 : i - 1 # n + 1
    BY <1>1
  <2>. QED
    BY <1>3, <2>1
<1>7. \A i \in 1 .. n + 1 : i \in 1 .. n \/ i = n + 1
  BY <1>1
<1>8. n + 1 \in 1 .. n + 1 /\ (n + 1) - 1 = n /\ \A i \in 1 .. n : i \in 1 .. n + 1
  BY <1>1
<1>9. Quits(y) = Quits(x) \cup (IF n \in C /\ e = "." THEN {n + 1} ELSE {})
  BY <1>1, <1>4, <1>5, <1>6, <1>7, <1>8
<1>. QED
  BY <1>9 DEF n, y, C

\* So what the bytes before send stays, and one part is added.
LEMMA MeantGrows ==
    ASSUME NEW x \in Seq(Bytes), NEW e \in Bytes
    PROVE  /\ Meant(x) \in Seq(Bytes)
           /\ PartAt(Append(x, e), Len(x) + 1) \in Seq(Bytes)
           /\ Meant(Append(x, e)) = Meant(x) \o PartAt(Append(x, e), Len(x) + 1)
<1>. DEFINE n == Len(x)
            y == Append(x, e)
<1>1. /\ n \in Nat /\ y \in Seq(Bytes) /\ Len(y) = n + 1
      /\ y[n + 1] = e /\ \A i \in 1 .. n : y[i] = x[i]
  BY LenProperties
<1>2. CommandStarts(x) \subseteq 1 .. n
  BY StartsOpen
<1>3. CommandStarts(x) \subseteq CommandStarts(y) /\ CommandStarts(y) \subseteq CommandStarts(x) \cup {n + 1}
  BY StartsGrow
<1>4. Quits(x) \subseteq Quits(y) /\ Quits(y) \subseteq Quits(x) \cup {n + 1}
  BY QuitsGrow
<1>. HIDE DEF n, y
<1>5. ASSUME NEW i \in 1 .. n
      PROVE  PartAt(y, i) = PartAt(x, i)
  <2>1. i # n + 1 /\ i - 1 # n + 1 /\ ~(n + 1 < i)
    BY <1>1
  <2>2. /\ i \in CommandStarts(y) <=> i \in CommandStarts(x)
        /\ i - 1 \in CommandStarts(y) <=> i - 1 \in CommandStarts(x)
    BY <1>3, <2>1
  <2>3. (\E q \in Quits(y) : q < i) <=> (\E q \in Quits(x) : q < i)
    BY <1>4, <2>1
  <2>4. y[i] = x[i]
    BY <1>1
  <2>. QED
    BY <2>2, <2>3, <2>4 DEF PartAt
<1>6. /\ Parts(x) \in Seq(Seq(Bytes)) /\ Len(Parts(x)) = n
      /\ Parts(y) \in Seq(Seq(Bytes)) /\ Len(Parts(y)) = n + 1
  <2>1. Parts(x) \in Seq(Seq(Bytes)) /\ Len(Parts(x)) = n
    BY PartsAreBytes DEF n
  <2>. QED
    BY <1>1, <2>1, PartsAreBytes
<1>7. /\ \A i \in 1 .. n : Parts(x)[i] = PartAt(x, i)
      /\ \A i \in 1 .. n + 1 : Parts(y)[i] = PartAt(y, i)
  BY <1>1 DEF Parts, n
<1>8. PartAt(y, n + 1) \in Seq(Bytes)
  <2>1. n + 1 \in 1 .. n + 1
    BY <1>1
  <2>. QED
    BY <1>1, <1>6, <1>7, <2>1, LenProperties
<1>9. Parts(y) = Append(Parts(x), PartAt(y, n + 1))
  <2>. DEFINE a == Append(Parts(x), PartAt(y, n + 1))
  <2>1. /\ a \in Seq(Seq(Bytes)) /\ Len(a) = n + 1
        /\ \A i \in 1 .. n + 1 : a[i] = IF i = n + 1 THEN PartAt(y, n + 1) ELSE Parts(x)[i]
    BY <1>6, <1>8
  <2>. HIDE DEF a
  <2>2. \A i \in 1 .. n + 1 : i = n + 1 \/ i \in 1 .. n
    BY <1>1
  <2>3. \A i \in 1 .. n + 1 : a[i] = Parts(y)[i]
    BY <1>5, <1>7, <2>1, <2>2
  <2>4. a = Parts(y)
    BY <1>6, <2>1, <2>3, SeqEqual
  <2>. QED
    BY <2>4 DEF a
<1>10. Meant(x) = FlattenSeq(Parts(x)) /\ Meant(y) = FlattenSeq(Parts(y))
  BY DEF Meant, Parts, PartAt, Quits
<1>11. Meant(y) = Meant(x) \o PartAt(y, n + 1)
  BY <1>6, <1>8, <1>9, <1>10, FlattenUnrolls
<1>12. Meant(x) \in Seq(Bytes)
  BY <1>6, <1>10, FlattenIsSeq
<1>. QED
  BY <1>8, <1>11, <1>12 DEF n, y

-----------------------------------------------------------------------------
(***************************************************************************)
(* What process finds, byte by byte.                                       *)
(***************************************************************************)

\* Concatenation of what is sent.
LEMMA BytesJoin ==
    ASSUME NEW p \in Seq(Bytes), NEW q \in Seq(Bytes), NEW s \in Seq(Bytes)
    PROVE  p \o (q \o s) = (p \o q) \o s
<1>. DEFINE T == Bytes
<1>1. p \in Seq(T) /\ q \in Seq(T) /\ s \in Seq(T)
  OBVIOUS
<1>. HIDE DEF T
<1>. QED
  BY SMTT(30), <1>1, ConcatAssociative

\* One byte of the loop in process.
LEMMA TrackByte ==
    ASSUME NEW x \in Seq(Bytes), NEW r, NEW before \in Seq(Bytes), Tracks(x, r, before),
           NEW e \in Bytes
    PROVE  Tracks(Append(x, e), ProcessByte(r, e), before)
<1>. DEFINE n == Len(x)
            y == Append(x, e)
            C == CommandStarts(x)
            part == PartAt(y, n + 1)
            after == ProcessByte(r, e)
<1>1. /\ n \in Nat /\ y \in Seq(Bytes) /\ Len(y) = n + 1 /\ y[n + 1] = e
      /\ \A i \in 1 .. n : y[i] = x[i]
  BY LenProperties
<1>2. /\ C \subseteq 1 .. n
      /\ CommandStarts(y) = C \cup (IF Opens(y, C, n + 1) THEN {n + 1} ELSE {})
  BY StartsOpen, StartsGrow
<1>3. Quits(y) = Quits(x) \cup (IF n \in C /\ e = "." THEN {n + 1} ELSE {})
  BY QuitsGrow
<1>4. part \in Seq(Bytes) /\ Meant(x) \in Seq(Bytes) /\ Meant(y) = Meant(x) \o part
  BY MeantGrows
<1>5. /\ r.esc \in EscapeState /\ r.forward \in Seq(Bytes) /\ r.quit \in BOOLEAN
      /\ r = [esc |-> r.esc, forward |-> r.forward, quit |-> r.quit]
      /\ before \o r.forward = Meant(x)
      /\ r.quit <=> Quits(x) # {}
      /\ ~r.quit => Follows(x, r.esc)
  BY DEF Tracks
<1>6. \A q \in Quits(x) : q < n + 1 /\ q \in 1 .. n
  <2>1. Quits(x) \subseteq DOMAIN x /\ DOMAIN x = 1 .. n
    BY LenProperties DEF Quits
  <2>. HIDE DEF n
  <2>. QED
    BY <1>1, <2>1
<1>7. part = IF n + 1 \in CommandStarts(y) \/ (\E q \in Quits(y) : q < n + 1) THEN << >>
             ELSE IF n \in CommandStarts(y) THEN Command(e) ELSE <<e>>
  <2>1. (n + 1) - 1 = n
    BY <1>1
  <2>. QED
    BY <1>1, <2>1 DEF PartAt
<1>8. n + 1 \notin C /\ (n \in CommandStarts(y) <=> n \in C)
  <2>. HIDE DEF n, C, y
  <2>. QED
    BY <1>1, <1>2
<1>9. (\E q \in Quits(y) : q < n + 1) <=> Quits(x) # {}
  <2>. HIDE DEF n, C, y
  <2>1. ~(n + 1 < n + 1)
    BY <1>1
  <2>. QED
    BY <1>3, <1>6, <2>1
<1>10. (after.forward = r.forward \o part /\ after \in [esc : EscapeState, forward : Seq(Bytes), quit : BOOLEAN])
         => before \o after.forward = Meant(y)
  <2>1. before \o (r.forward \o part) = (before \o r.forward) \o part
    <3>. DEFINE forward == r.forward
    <3>1. forward \in Seq(Bytes) /\ part \in Seq(Bytes)
      BY <1>4, <1>5
    <3>. HIDE DEF part, forward
    <3>2. before \o (forward \o part) = (before \o forward) \o part
      BY <3>1, BytesJoin
    <3>. QED
      BY <3>2 DEF forward
  <2>. HIDE DEF part, y, after
  <2>. QED
    BY <1>4, <1>5, <2>1
<1>. HIDE DEF n, y, C, part
<1>11. CASE r.quit
  <2>1. after = r
    BY <1>11 DEF ProcessByte
  <2>2. part = << >> /\ Quits(y) # {}
    BY <1>3, <1>5, <1>7, <1>9, <1>11
  <2>3. r.forward \o << >> = r.forward
    BY <1>5, ConcatEmptySeq
  <2>. QED
    BY <1>5, <1>10, <1>11, <2>1, <2>2, <2>3 DEF Tracks, y
<1>12. CASE ~r.quit /\ r.esc.pending
  <2>1. n \in C /\ Quits(x) = {}
    BY <1>5, <1>12 DEF Follows, n, C
  <2>2. after = [esc |-> [pending |-> FALSE, lineStart |-> FALSE],
                 forward |-> r.forward \o Command(e), quit |-> e = "."]
    BY <1>12 DEF ProcessByte
  <2>3. ~Opens(y, C, n + 1)
    <3>1. (n + 1) - 1 = n
      BY <1>1
    <3>. QED
      BY <2>1, <3>1 DEF Opens
  <2>4. CommandStarts(y) = C
    BY <1>2, <2>3
  <2>5. part = Command(e)
    BY <1>7, <1>8, <1>9, <2>1, <2>4
  <2>6. Follows(y, after.esc)
    <3>1. (n + 1) - 1 = n
      BY <1>1
    <3>. QED
      BY <1>1, <1>8, <2>1, <2>2, <2>4, <3>1 DEF Follows
  <2>7. after.quit <=> Quits(y) # {}
    <3>1. after.quit <=> e = "."
      <4>. DEFINE q == e = "."
      <4>1. after = [esc |-> [pending |-> FALSE, lineStart |-> FALSE],
                     forward |-> r.forward \o Command(e), quit |-> q]
        BY <2>2
      <4>. HIDE DEF q
      <4>2. after.quit = q
        BY <4>1
      <4>. QED
        BY <4>2 DEF q
    <3>2. n + 1 \in {n + 1}
      OBVIOUS
    <3>3. CASE e = "."
      BY <1>3, <2>1, <3>1, <3>2, <3>3
    <3>4. CASE e # "."
      BY <1>3, <2>1, <3>1, <3>4
    <3>. QED
      BY <3>3, <3>4
  <2>8. after \in [esc : EscapeState, forward : Seq(Bytes), quit : BOOLEAN]
    <3>1. r.forward \o Command(e) \in Seq(Bytes)
      BY <1>4, <1>5, <2>5, ConcatProperties
    <3>. QED
      BY <2>2, <3>1 DEF EscapeState
  <2>9. after.forward = r.forward \o part
    BY <2>2, <2>5
  <2>. QED
    BY <1>10, <2>6, <2>7, <2>8, <2>9 DEF Tracks, y
<1>13. CASE ~r.quit /\ ~r.esc.pending
  <2>1. n \notin C /\ Quits(x) = {} /\ Quits(y) = {}
    BY <1>3, <1>5, <1>13 DEF Follows, n, C
  <2>2. r.esc.lineStart <=> n > 0 /\ x[n] \in LineEnds /\ n \notin C /\ n - 1 \notin C
    BY <1>5, <1>13 DEF Follows, n, C
  <2>3. Opens(y, C, n + 1) <=> e = EscapeKey /\ (NeedsLineStart => r.esc.lineStart)
    <3>1. /\ (n + 1) - 1 = n /\ (n + 1) - 2 = n - 1 /\ (n + 1 > 1 <=> n > 0)
          /\ n > 0 => y[n] = x[n]
      BY <1>1
    <3>. QED
      BY <1>1, <2>1, <2>2, <3>1 DEF Opens
  <2>4. (n + 1) - 1 = n /\ n + 1 > 0
    BY <1>1
  <2>5. CASE Opens(y, C, n + 1)
    <3>1. after = [r EXCEPT !.esc = [pending |-> TRUE, lineStart |-> FALSE]]
      BY <1>13, <2>3, <2>5 DEF ProcessByte
    <3>2. CommandStarts(y) = C \cup {n + 1}
      BY <1>2, <2>5
    <3>3. part = << >> /\ r.forward \o << >> = r.forward
      BY <1>5, <1>7, <3>2, ConcatEmptySeq
    <3>4. after = [esc |-> [pending |-> TRUE, lineStart |-> FALSE],
                   forward |-> r.forward, quit |-> r.quit]
      BY <1>5, <3>1
    <3>5. Follows(y, after.esc)
      BY <1>1, <3>2, <3>4 DEF Follows
    <3>6. after \in [esc : EscapeState, forward : Seq(Bytes), quit : BOOLEAN]
      BY <1>5, <3>4 DEF EscapeState
    <3>7. after.forward = r.forward \o part /\ (after.quit <=> Quits(y) # {})
      BY <1>13, <2>1, <3>3, <3>4
    <3>. QED
      BY <1>10, <3>5, <3>6, <3>7 DEF Tracks, y
  <2>6. CASE ~Opens(y, C, n + 1)
    <3>1. after = [r EXCEPT !.forward = Append(@, e), !.esc.lineStart = e \in LineEnds]
      BY <1>13, <2>3, <2>6 DEF ProcessByte
    <3>2. CommandStarts(y) = C
      BY <1>2, <2>6
    <3>3. part = <<e>> /\ Append(r.forward, e) = r.forward \o <<e>>
      BY <1>5, <1>7, <1>8, <1>9, <2>1, <3>2, AppendIsConcat
    <3>4. after = [esc |-> [pending |-> FALSE, lineStart |-> e \in LineEnds],
                   forward |-> Append(r.forward, e), quit |-> r.quit]
      <4>1. r.esc = [pending |-> FALSE, lineStart |-> r.esc.lineStart]
        BY <1>5, <1>13 DEF EscapeState
      <4>2. after = [esc |-> [r.esc EXCEPT !.lineStart = e \in LineEnds],
                     forward |-> Append(r.forward, e), quit |-> r.quit]
        BY <1>5, <3>1
      <4>3. [r.esc EXCEPT !.lineStart = e \in LineEnds]
              = [pending |-> FALSE, lineStart |-> e \in LineEnds]
        <5>. DEFINE b == e \in LineEnds
                    was == r.esc.lineStart
        <5>1. b \in BOOLEAN
          OBVIOUS
        <5>2. r.esc = [pending |-> FALSE, lineStart |-> was]
          BY <4>1
        <5>. HIDE DEF b, was
        <5>3. [r.esc EXCEPT !.lineStart = b] = [pending |-> FALSE, lineStart |-> b]
          BY <5>2
        <5>. QED
          BY <5>3 DEF b
      <4>. QED
        BY <4>2, <4>3
    <3>5. Follows(y, after.esc)
      <4>1. after.esc.pending <=> n + 1 \in CommandStarts(y)
        BY <1>8, <3>2, <3>4
      <4>2. after.esc.lineStart <=> e \in LineEnds
        <5>. DEFINE b == e \in LineEnds
        <5>1. after = [esc |-> [pending |-> FALSE, lineStart |-> b],
                       forward |-> Append(r.forward, e), quit |-> r.quit]
          BY <3>4
        <5>. HIDE DEF b
        <5>2. after.esc.lineStart = b
          BY <5>1
        <5>. QED
          BY <5>2 DEF b
      <4>3. Len(y) > 0 /\ y[Len(y)] = e /\ Len(y) - 1 = n
        BY <1>1, <2>4
      <4>. QED
        BY <1>1, <1>8, <2>1, <3>2, <4>1, <4>2, <4>3 DEF Follows
    <3>6. after \in [esc : EscapeState, forward : Seq(Bytes), quit : BOOLEAN]
      BY <1>5, <3>4 DEF EscapeState
    <3>7. after.forward = r.forward \o part /\ (after.quit <=> Quits(y) # {})
      BY <1>13, <2>1, <3>3, <3>4
    <3>. QED
      BY <1>10, <3>5, <3>6, <3>7 DEF Tracks, y
  <2>. QED
    BY <2>5, <2>6
<1>14. r.quit \in BOOLEAN /\ r.esc.pending \in BOOLEAN
  BY <1>5 DEF EscapeState
<1>. QED
  BY <1>11, <1>12, <1>13, <1>14 DEF y

\* One read, from the state of the escape key the reads before left.
LEMMA TrackRead ==
    ASSUME NEW x \in Seq(Bytes), NEW r, NEW before \in Seq(Bytes), Tracks(x, r, before),
           NEW read \in Seq(Bytes)
    PROVE  Tracks(x \o read, FoldLeft(ProcessByte, r, read), before)
<1>. DEFINE S == {k \in Nat : \A s \in Seq(Bytes) :
                    Len(s) = k => Tracks(x \o s, FoldLeft(ProcessByte, r, s), before)}
<1>1. 0 \in S
  <2>1. \A s \in Seq(Bytes) : Len(s) = 0 => s = << >>
    BY EmptySeq
  <2>2. FoldLeft(ProcessByte, r, << >>) = r
    BY ProcessingNothing
  <2>3. x \o << >> = x
    BY ConcatEmptySeq
  <2>. QED
    BY <2>1, <2>2, <2>3
<1>2. ASSUME NEW k \in Nat, k \in S
      PROVE  k + 1 \in S
  <2>. SUFFICES ASSUME NEW s \in Seq(Bytes), Len(s) = k + 1
                PROVE  Tracks(x \o s, FoldLeft(ProcessByte, r, s), before)
    OBVIOUS
  <2>. DEFINE f == Front(s)
              e == Last(s)
  <2>1. f \in Seq(Bytes) /\ e \in Bytes /\ Len(f) = k /\ s = Append(f, e)
    BY FrontAndLast
  <2>. HIDE DEF f, e
  <2>2. Tracks(x \o f, FoldLeft(ProcessByte, r, f), before)
    BY <1>2, <2>1
  <2>3. FoldLeft(ProcessByte, r, s) = ProcessByte(FoldLeft(ProcessByte, r, f), e)
    BY <2>1, ProcessingUnrolls
  <2>4. x \o s = Append(x \o f, e) /\ x \o f \in Seq(Bytes)
    <3>1. s = f \o <<e>> /\ <<e>> \in Seq(Bytes) /\ x \o f \in Seq(Bytes)
      BY <2>1, AppendIsConcat, ConcatProperties
    <3>2. Append(x \o f, e) = (x \o f) \o <<e>>
      BY <2>1, <3>1, AppendIsConcat
    <3>. QED
      BY <2>1, <3>1, <3>2, ConcatAssociative
  <2>5. Tracks(Append(x \o f, e), ProcessByte(FoldLeft(ProcessByte, r, f), e), before)
    BY <2>1, <2>2, <2>4, TrackByte
  <2>. QED
    BY <2>3, <2>4, <2>5
<1>3. Len(read) \in S
  <2>1. Len(read) \in Nat
    BY LenProperties
  <2>. HIDE DEF S
  <2>. QED
    BY <1>1, <1>2, <2>1, InductiveSet
<1>. QED
  BY <1>3

-----------------------------------------------------------------------------
(***************************************************************************)
(* What was sent.                                                          *)
(***************************************************************************)

\* What one element holds is bytes.
LEMMA BytesOfAreBytes ==
    ASSUME NEW st \in Seq(Elements)
    PROVE  BytesOf(st) \in Seq(Seq(Bytes)) /\ Len(BytesOf(st)) = Len(st)
<1>1. DOMAIN st = 1 .. Len(st) /\ Len(st) \in Nat /\ \A i \in 1 .. Len(st) : st[i] \in Elements
  BY LenProperties
<1>2. \A e \in Elements : ByteOf(e) \in Seq(Bytes)
  <2>1. TAKE e \in Elements
  <2>2. e.byte = "resize" \/ e.byte \in Bytes
    BY DEF Elements
  <2>. QED
    BY <2>2 DEF ByteOf
<1>. QED
  BY <1>1, <1>2 DEF BytesOf

\* An element more sends its byte.
LEMMA SentGrowsByOne ==
    ASSUME NEW st \in Seq(Elements), NEW e \in Elements
    PROVE  SentOf(Append(st, e)) = SentOf(st) \o ByteOf(e)
<1>. DEFINE n == Len(st)
            y == Append(st, e)
            a == Append(BytesOf(st), ByteOf(e))
<1>1. /\ n \in Nat /\ y \in Seq(Elements) /\ Len(y) = n + 1 /\ DOMAIN y = 1 .. n + 1
      /\ y[n + 1] = e /\ \A i \in 1 .. n : y[i] = st[i] /\ DOMAIN st = 1 .. n
  BY LenProperties
<1>2. ByteOf(e) \in Seq(Bytes)
  <2>1. e.byte = "resize" \/ e.byte \in Bytes
    BY DEF Elements
  <2>. QED
    BY <2>1 DEF ByteOf
<1>3. /\ BytesOf(st) \in Seq(Seq(Bytes)) /\ Len(BytesOf(st)) = n
      /\ BytesOf(y) \in Seq(Seq(Bytes)) /\ Len(BytesOf(y)) = n + 1
  <2>1. BytesOf(st) \in Seq(Seq(Bytes)) /\ Len(BytesOf(st)) = n
    BY BytesOfAreBytes
  <2>2. BytesOf(y) \in Seq(Seq(Bytes)) /\ Len(BytesOf(y)) = Len(y)
    <3>. HIDE DEF y
    <3>. QED
      BY <1>1, BytesOfAreBytes
  <2>. QED
    BY <1>1, <2>1, <2>2
<1>4. /\ a \in Seq(Seq(Bytes)) /\ Len(a) = n + 1
      /\ \A i \in 1 .. n + 1 : a[i] = IF i = n + 1 THEN ByteOf(e) ELSE BytesOf(st)[i]
  BY <1>2, <1>3
<1>. HIDE DEF n, y, a
<1>5. \A i \in 1 .. n + 1 : a[i] = BytesOf(y)[i]
  <2>1. \A i \in 1 .. n + 1 : i = n + 1 \/ i \in 1 .. n
    BY <1>1
  <2>2. /\ \A i \in 1 .. n : BytesOf(st)[i] = ByteOf(st[i])
        /\ \A i \in 1 .. n + 1 : BytesOf(y)[i] = ByteOf(y[i])
    BY <1>1 DEF BytesOf
  <2>. QED
    BY <1>1, <1>4, <2>1, <2>2
<1>6. a = BytesOf(y)
  BY <1>3, <1>4, <1>5, SeqEqual
<1>. QED
  BY <1>2, <1>3, <1>6, FlattenUnrolls DEF SentOf, a, y

\* Items of bytes are elements.
LEMMA ItemsAreElements ==
    ASSUME NEW bytes \in Seq(Bytes), NEW f \in Nat
    PROVE  ItemsAt(bytes, f) \in Seq(Elements) /\ Len(ItemsAt(bytes, f)) = Len(bytes)
<1>1. /\ DOMAIN bytes = 1 .. Len(bytes) /\ Len(bytes) \in Nat
      /\ \A i \in 1 .. Len(bytes) : bytes[i] \in Bytes
  BY LenProperties
<1>2. <<1, 1>> \in Sizes
  BY DEF Sizes
<1>3. \A i \in 1 .. Len(bytes) : [byte |-> bytes[i], size |-> <<1, 1>>, frame |-> f] \in Elements
  BY <1>1, <1>2 DEF Elements
<1>. QED
  BY <1>1, <1>3 DEF ItemsAt

\* A byte more is an item more,
LEMMA ItemsGrow ==
    ASSUME NEW t \in Seq(Bytes), NEW e \in Bytes, NEW f \in Nat,
           NEW item, item = [byte |-> e, size |-> <<1, 1>>, frame |-> f]
    PROVE  item \in Elements /\ ItemsAt(Append(t, e), f) = Append(ItemsAt(t, f), item)
<1>. DEFINE k == Len(t)
            s == Append(t, e)
            a == Append(ItemsAt(t, f), item)
<1>1. item \in Elements
  <2>1. <<1, 1>> \in Sizes
    BY DEF Sizes
  <2>. QED
    BY <2>1 DEF Elements
<1>2. /\ k \in Nat /\ s \in Seq(Bytes) /\ Len(s) = k + 1 /\ DOMAIN t = 1 .. k /\ DOMAIN s = 1 .. k + 1
      /\ s[k + 1] = e /\ \A i \in 1 .. k : s[i] = t[i]
  BY LenProperties, AppendProperties
<1>. HIDE DEF k, s
<1>3. /\ ItemsAt(t, f) \in Seq(Elements) /\ Len(ItemsAt(t, f)) = k
      /\ ItemsAt(s, f) \in Seq(Elements) /\ Len(ItemsAt(s, f)) = k + 1
  BY <1>2, ItemsAreElements DEF k
<1>4. /\ a \in Seq(Elements) /\ Len(a) = k + 1
      /\ \A i \in 1 .. k + 1 : a[i] = IF i = k + 1 THEN item ELSE ItemsAt(t, f)[i]
  BY <1>1, <1>3, AppendProperties
<1>5. /\ \A i \in 1 .. k : ItemsAt(t, f)[i] = [byte |-> t[i], size |-> <<1, 1>>, frame |-> f]
      /\ \A i \in 1 .. k + 1 : ItemsAt(s, f)[i] = [byte |-> s[i], size |-> <<1, 1>>, frame |-> f]
  BY <1>2 DEF ItemsAt
<1>. HIDE DEF a
<1>6. \A i \in 1 .. k + 1 : a[i] = ItemsAt(s, f)[i]
  <2>1. TAKE i \in 1 .. k + 1
  <2>2. CASE i = k + 1
    BY <1>2, <1>4, <1>5, <2>2
  <2>3. CASE i # k + 1
    <3>1. i \in 1 .. k
      BY <1>2, <2>3
    <3>2. a[i] = ItemsAt(t, f)[i] /\ s[i] = t[i]
      BY <1>2, <1>4, <2>3, <3>1
    <3>. QED
      BY <1>5, <3>1, <3>2
  <2>. QED
    BY <2>2, <2>3
<1>7. a = ItemsAt(s, f)
  BY <1>3, <1>4, <1>6, SeqEqual
<1>. QED
  BY <1>1, <1>7 DEF a, s

\* also at the end of a stream.
LEMMA JoinOneMore ==
    ASSUME NEW T, NEW st \in Seq(T), NEW m \in Seq(T), NEW e \in T
    PROVE  st \o Append(m, e) = Append(st \o m, e) /\ st \o m \in Seq(T)
<1>1. /\ Append(m, e) = m \o <<e>> /\ <<e>> \in Seq(T)
      /\ st \o m \in Seq(T)
  BY AppendIsConcat, ConcatProperties
<1>2. Append(st \o m, e) = (st \o m) \o <<e>>
  BY <1>1, AppendIsConcat
<1>. QED
  BY <1>1, <1>2, ConcatAssociative

\* Bytes more.
LEMMA SentGrows ==
    ASSUME NEW st \in Seq(Elements), NEW bytes \in Seq(Bytes), NEW f \in Nat
    PROVE  SentOf(st \o ItemsAt(bytes, f)) = SentOf(st) \o bytes
<1>. DEFINE S == {k \in Nat : \A s \in Seq(Bytes) :
                    Len(s) = k => SentOf(st \o ItemsAt(s, f)) = SentOf(st) \o s}
<1>1. SentOf(st) \in Seq(Bytes)
  BY BytesOfAreBytes, FlattenIsSeq DEF SentOf
<1>2. 0 \in S
  <2>1. \A s \in Seq(Bytes) : Len(s) = 0 => s = << >>
    BY EmptySeq
  <2>2. ItemsAt(<< >>, f) = << >>
    BY DEF ItemsAt
  <2>3. st \o << >> = st /\ SentOf(st) \o << >> = SentOf(st)
    BY <1>1, ConcatEmptySeq
  <2>. QED
    BY <2>1, <2>2, <2>3
<1>3. ASSUME NEW k \in Nat, k \in S
      PROVE  k + 1 \in S
  <2>. SUFFICES ASSUME NEW s \in Seq(Bytes), Len(s) = k + 1
                PROVE  SentOf(st \o ItemsAt(s, f)) = SentOf(st) \o s
    OBVIOUS
  <2>. DEFINE t == Front(s)
              e == Last(s)
              item == [byte |-> e, size |-> <<1, 1>>, frame |-> f]
  <2>1. /\ t \in Seq(Bytes) /\ e \in Bytes /\ Len(t) = k /\ s = Append(t, e)
        /\ e = s[k + 1] /\ \A i \in 1 .. k : t[i] = s[i]
    BY FrontAndLast
  <2>2. item \in Elements /\ ByteOf(item) = <<e>>
    <3>1. <<1, 1>> \in Sizes /\ e # "resize"
      BY <2>1 DEF Sizes, Bytes
    <3>. QED
      BY <2>1, <3>1 DEF Elements, ByteOf
  <2>. HIDE DEF t, e
  <2>3. ItemsAt(s, f) = Append(ItemsAt(t, f), item)
    BY <2>1, ItemsGrow
  <2>. HIDE DEF item
  <2>. DEFINE m == ItemsAt(t, f)
  <2>4. m \in Seq(Elements)
    BY <2>1, ItemsAreElements
  <2>5. SentOf(st \o m) = SentOf(st) \o t
    BY <1>3, <2>1
  <2>. HIDE DEF m
  <2>6. st \o Append(m, item) = Append(st \o m, item) /\ st \o m \in Seq(Elements)
    BY <2>2, <2>4, JoinOneMore
  <2>7. SentOf(Append(st \o m, item)) = SentOf(st \o m) \o <<e>>
    BY <2>2, <2>6, SentGrowsByOne
  <2>8. (SentOf(st) \o t) \o <<e>> = SentOf(st) \o s
    <3>1. <<e>> \in Seq(Bytes) /\ Append(t, e) = t \o <<e>>
      BY <2>1, AppendIsConcat
    <3>. DEFINE u == SentOf(st)
                v == <<e>>
    <3>2. u \in Seq(Bytes) /\ v \in Seq(Bytes) /\ s = t \o v
      BY <1>1, <2>1, <3>1
    <3>. HIDE DEF u, v
    <3>3. u \o (t \o v) = (u \o t) \o v
      BY ZenonT(30), <2>1, <3>2, BytesJoin
    <3>. QED
      BY <3>2, <3>3 DEF u, v
  <2>. QED
    BY <2>3, <2>5, <2>6, <2>7, <2>8 DEF m
<1>4. Len(bytes) \in S
  <2>1. Len(bytes) \in Nat
    BY LenProperties
  <2>. HIDE DEF S
  <2>. QED
    BY <1>2, <1>3, <2>1, InductiveSet
<1>. QED
  BY <1>4

-----------------------------------------------------------------------------
(***************************************************************************)
(* The user's input and what the server gets of it.                        *)
(***************************************************************************)

\* What the scenes assume of the one that is played.
LEMMA SceneShape ==
    ASSUME SessionShape
    PROVE  /\ scene.size \in Sizes /\ scene.sizes \subseteq Sizes
           /\ scene.reads \subseteq Seq(Bytes)
BY ScenesAssumption DEF SessionShape, Sizes

\* At the start nothing was read or sent.
LEMMA InputInvInit == Init => InputInv
<1>. SUFFICES ASSUME Init PROVE InputInv
  OBVIOUS
<1>1. input = << >> /\ stream = << >> /\ esc = NewEscape /\ FlattenSeq(input) = << >>
  BY FlattenNothing DEF Init
<1>2. SessionShape
  <2>1. << >> \in Seq(Seq(Bytes)) /\ << >> \in Seq(Elements)
    OBVIOUS
  <2>2. NewEscape \in EscapeState
    BY DEF NewEscape, EscapeState
  <2>. QED
    BY <1>1, <2>1, <2>2 DEF Init, SessionShape
<1>3. << >> \in Seq(Bytes) /\ Len(<< >>) = 0 /\ DOMAIN << >> = {} /\ 1 .. 0 = {}
  OBVIOUS
<1>4. CommandStarts(<< >>) = {}
  BY <1>3, StartsOpen
<1>5. Quits(<< >>) = {}
  BY <1>3 DEF Quits
<1>6. Follows(<< >>, NewEscape)
  BY <1>3, <1>4 DEF Follows, NewEscape
<1>7. Meant(<< >>) = << >>
  <2>1. Parts(<< >>) = << >>
    BY <1>3 DEF Parts
  <2>2. Meant(<< >>) = FlattenSeq(Parts(<< >>))
    BY DEF Meant, Parts, PartAt, Quits
  <2>. QED
    BY <2>1, <2>2, FlattenNothing
<1>8. Sent = << >>
  <2>1. [i \in DOMAIN << >> |-> IF << >>[i].byte = "resize" THEN << >> ELSE << << >>[i].byte >>] = << >>
    BY <1>3
  <2>. QED
    BY <1>1, <2>1, FlattenNothing DEF Sent
<1>. QED
  BY <1>1, <1>2, <1>5, <1>6, <1>7, <1>8 DEF InputInv, ForwardedIsMeant, EscapeFollows

\* What the last poll may leave behind.
LEMMA PollShape ==
    ASSUME SessionShape
    PROVE  PollResults \subseteq [sent : Nat, done : Nat, echo : Nat]
<1>1. remote.sent \in Nat /\ remote.done \in Nat /\ remote.echo \in Nat /\ Len(stream) \in Nat
  BY LenProperties DEF SessionShape
<1>. QED
  BY <1>1 DEF PollResults

\* Every read goes on where the input so far left off.
LEMMA ReadTracks ==
    ASSUME InputInv, phase = "running", NEW read \in scene.reads
    PROVE  /\ read \in Seq(Bytes) /\ FlattenSeq(input) \in Seq(Bytes)
           /\ Sent \in Seq(Bytes) /\ Sent = SentOf(stream)
           /\ Tracks(FlattenSeq(input) \o read, ProcessInput(esc, read), Sent)
<1>. DEFINE x == FlattenSeq(input)
            start == [esc |-> esc, forward |-> << >>, quit |-> FALSE]
<1>1. SessionShape /\ Sent = Meant(x) /\ Quits(x) = {} /\ Follows(x, esc)
  BY DEF InputInv, ForwardedIsMeant, EscapeFollows
<1>2. /\ read \in Seq(Bytes) /\ x \in Seq(Bytes)
      /\ stream \in Seq(Elements) /\ esc \in EscapeState
  BY <1>1, SceneShape, FlattenIsSeq DEF SessionShape
<1>3. Sent \in Seq(Bytes) /\ Sent = SentOf(stream)
  <2>1. Sent = SentOf(stream)
    BY DEF Sent, SentOf, BytesOf, ByteOf
  <2>. QED
    BY <1>2, <2>1, BytesOfAreBytes, FlattenIsSeq DEF SentOf
<1>4. Tracks(x, start, Sent)
  <2>1. << >> \in Seq(Bytes) /\ Sent \o << >> = Sent
    BY <1>3, ConcatEmptySeq
  <2>. QED
    BY <1>1, <1>2, <2>1 DEF Tracks
<1>5. Tracks(x \o read, FoldLeft(ProcessByte, start, read), Sent)
  <2>. HIDE DEF x, start
  <2>. QED
    BY <1>2, <1>3, <1>4, TrackRead
<1>. QED
  BY <1>2, <1>3, <1>5 DEF ProcessInput

\* A read: its commands are taken out and the rest is sent.
LEMMA InputInvStdin ==
    ASSUME InputInv, Stdin
    PROVE  InputInv'
<1>. DEFINE x == FlattenSeq(input)
            f == remote.sent + 1
<1>1. PICK read \in scene.reads :
        LET p == ProcessInput(esc, read)
        IN  /\ input' = Append(input, read)
            /\ esc' = p.esc
            /\ stream' = stream \o Items(p.forward)
            /\ phase' = IF p.quit THEN "over" ELSE phase
  BY DEF Stdin
<1>. DEFINE p == ProcessInput(esc, read)
<1>2. /\ SessionShape /\ phase = "running" /\ UNCHANGED <<remote, scene>>
      /\ Sent = Meant(x) /\ Quits(x) = {} /\ Follows(x, esc)
  BY DEF InputInv, ForwardedIsMeant, EscapeFollows, Stdin, Running
<1>3. /\ read \in Seq(Bytes) /\ x \in Seq(Bytes) /\ f \in Nat
      /\ stream \in Seq(Elements) /\ esc \in EscapeState /\ input \in Seq(Seq(Bytes))
  BY <1>2, SceneShape, FlattenIsSeq DEF SessionShape
<1>4. /\ Sent \in Seq(Bytes) /\ Sent = SentOf(stream)
      /\ Tracks(x \o read, p, Sent)
  BY <1>2, ReadTracks
<1>7. FlattenSeq(Append(input, read)) = x \o read
  BY <1>3, FlattenUnrolls
<1>. HIDE DEF x, p, f
<1>8. /\ p.esc \in EscapeState /\ p.forward \in Seq(Bytes) /\ p.quit \in BOOLEAN
      /\ Sent \o p.forward = Meant(x \o read)
      /\ p.quit <=> Quits(x \o read) # {}
      /\ ~p.quit => Follows(x \o read, p.esc)
  BY <1>4 DEF Tracks
<1>9. /\ input' = Append(input, read) /\ esc' = p.esc
      /\ stream' = stream \o ItemsAt(p.forward, f)
      /\ phase' = IF p.quit THEN "over" ELSE phase
  BY <1>1 DEF p, f, Items, ItemsAt
<1>10. SessionShape'
  <2>1. Append(input, read) \in Seq(Seq(Bytes))
    BY <1>3, AppendProperties
  <2>2. stream \o ItemsAt(p.forward, f) \in Seq(Elements)
    BY <1>3, <1>8, ItemsAreElements, ConcatProperties
  <2>. QED
    BY <1>2, <1>8, <1>9, <2>1, <2>2 DEF SessionShape
<1>11. ForwardedIsMeant'
  <2>1. Sent' = SentOf(stream')
    BY DEF Sent, SentOf, BytesOf, ByteOf
  <2>2. Sent' = Sent \o p.forward
    BY <1>3, <1>4, <1>8, <1>9, <2>1, SentGrows
  <2>3. FlattenSeq(input') = x \o read
    BY <1>7, <1>9
  <2>. QED
    BY <1>8, <2>2, <2>3 DEF ForwardedIsMeant
<1>12. EscapeFollows'
  <2>1. FlattenSeq(input') = x \o read
    BY <1>7, <1>9
  <2>2. phase' = "running" => ~p.quit
    BY <1>9
  <2>. QED
    BY <1>8, <1>9, <2>1, <2>2 DEF EscapeFollows
<1>. QED
  BY <1>10, <1>11, <1>12 DEF InputInv

\* A size in the stream is no byte.
LEMMA InputInvResize ==
    ASSUME InputInv, Resize
    PROVE  InputInv'
<1>1. PICK size \in scene.sizes :
        stream' = Append(stream, [byte |-> "resize", size |-> size, frame |-> remote.sent + 1])
  BY DEF Resize
<1>. DEFINE item == [byte |-> "resize", size |-> size, frame |-> remote.sent + 1]
<1>2. SessionShape /\ UNCHANGED <<esc, remote, scene, input, phase>>
  BY DEF InputInv, Resize
<1>3. item \in Elements /\ ByteOf(item) = << >> /\ stream \in Seq(Elements)
  <2>1. size \in Sizes /\ remote.sent + 1 \in Nat
    BY <1>2, SceneShape DEF SessionShape
  <2>. QED
    BY <1>2, <2>1 DEF Elements, ByteOf, SessionShape
<1>. HIDE DEF item
<1>4. Append(stream, item) \in Seq(Elements)
  BY <1>3, AppendProperties
<1>5. SentOf(Append(stream, item)) = SentOf(stream)
  <2>1. SentOf(stream) \in Seq(Bytes)
    BY <1>3, BytesOfAreBytes, FlattenIsSeq DEF SentOf
  <2>2. SentOf(stream) \o << >> = SentOf(stream)
    BY <2>1, ConcatEmptySeq
  <2>. QED
    BY <1>3, <2>2, SentGrowsByOne
<1>6. stream' = Append(stream, item)
  BY <1>1 DEF item
<1>7. Sent' = Sent
  <2>1. Sent' = SentOf(stream') /\ Sent = SentOf(stream)
    BY DEF Sent, SentOf, BytesOf, ByteOf
  <2>. QED
    BY <1>5, <1>6, <2>1
<1>8. SessionShape'
  BY <1>2, <1>4, <1>6 DEF SessionShape
<1>9. ForwardedIsMeant' /\ EscapeFollows'
  BY <1>2, <1>7 DEF InputInv, ForwardedIsMeant, EscapeFollows
<1>. QED
  BY <1>8, <1>9 DEF InputInv

\* The other steps leave input and stream alone.
LEMMA InputInvOther ==
    ASSUME InputInv,
           AdaptDisplay \/ Poll \/ Tick \/ EndOfInput \/ Drain \/ UNCHANGED vars
    PROVE  InputInv'
<1>1. UNCHANGED <<esc, stream, scene, input>>
  BY DEF AdaptDisplay, Poll, Tick, EndOfInput, Drain, vars
<1>2. remote' \in [sent : Nat, done : Nat, echo : Nat]
  <2>1. remote' = remote \/ remote' \in PollResults
    BY DEF AdaptDisplay, Poll, Tick, EndOfInput, Drain, vars
  <2>. QED
    BY <2>1, PollShape DEF InputInv, SessionShape
<1>3. phase' = phase \/ phase' = "draining"
  BY DEF AdaptDisplay, Poll, Tick, EndOfInput, Drain, vars
<1>4. Sent' = Sent
  BY <1>1 DEF Sent
<1>5. SessionShape'
  BY <1>1, <1>2, <1>3 DEF InputInv, SessionShape
<1>6. ForwardedIsMeant' /\ EscapeFollows'
  BY <1>1, <1>3, <1>4 DEF InputInv, ForwardedIsMeant, EscapeFollows
<1>. QED
  BY <1>5, <1>6 DEF InputInv

\* No step breaks the invariant of the input.
LEMMA InputInvNext == InputInv /\ [Next]_vars => InputInv'
BY InputInvStdin, InputInvResize, InputInvOther DEF Next

\* The server gets the user's input without the local commands, wherever the
\* reads from the terminal ended: for every escape key, every set of reads,
\* and input of any length.
THEOREM InputIsMeant == Spec => []ForwardedIsMeant
<1>1. InputInv => ForwardedIsMeant
  BY DEF InputInv
<1>. QED
  BY <1>1, InputInvInit, InputInvNext, PTL DEF Spec

-----------------------------------------------------------------------------
(***************************************************************************)
(* Screens.                                                                *)
(***************************************************************************)

\* The columns and rows of a screen.
LEMMA PositionsAre ==
    ASSUME NEW size \in Sizes
    PROVE  /\ size[1] \in Nat \ {0} /\ size[2] \in Nat \ {0}
           /\ \A x, y : <<x, y>> \in PositionsOf(size) <=>
                 x \in 0 .. size[1] - 1 /\ y \in 0 .. size[2] - 1
           /\ \A pos \in PositionsOf(size) :
                 /\ pos = <<pos[1], pos[2]>>
                 /\ pos[1] \in 0 .. size[1] - 1 /\ pos[2] \in 0 .. size[2] - 1
<1>1. size[1] \in Nat \ {0} /\ size[2] \in Nat \ {0}
  BY DEF Sizes
<1>. DEFINE xs == 0 .. size[1] - 1
            ys == 0 .. size[2] - 1
<1>2. PositionsOf(size) = xs \X ys
  BY DEF PositionsOf
<1>. HIDE DEF xs, ys
<1>3. /\ \A x, y : <<x, y>> \in xs \X ys <=> x \in xs /\ y \in ys
      /\ \A pos \in xs \X ys : pos = <<pos[1], pos[2]>> /\ pos[1] \in xs /\ pos[2] \in ys
  OBVIOUS
<1>. QED
  BY <1>1, <1>2, <1>3 DEF xs, ys

\* A screen of its parts.
LEMMA ScreenOf ==
    ASSUME NEW size \in Sizes, NEW cell, NEW cur \in PositionsOf(size), NEW gen
    PROVE  ScreenOK([size |-> size, cell |-> cell, cur |-> cur, gen |-> gen])
BY DEF ScreenOK

\* The empty screen has its cursor in the corner.
LEMMA EmptyScreenOK ==
    ASSUME NEW size \in Sizes
    PROVE  ScreenOK(EmptyScreen(size))
<1>1. <<0, 0>> \in PositionsOf(size)
  BY PositionsAre
<1>. QED
  BY <1>1, ScreenOf DEF EmptyScreen

\* The smaller of two numbers.
LEMMA SmallerOf ==
    ASSUME NEW a \in Int, NEW b \in Int
    PROVE  Min({a, b}) = IF a <= b THEN a ELSE b
<1>1. \A x \in {a, b} : (\A y \in {a, b} : x <= y) <=> x = (IF a <= b THEN a ELSE b)
  OBVIOUS
<1>2. (IF a <= b THEN a ELSE b) \in {a, b}
  OBVIOUS
<1>. DEFINE m == IF a <= b THEN a ELSE b
<1>. HIDE DEF m
<1>. QED
  BY <1>1, <1>2 DEF Min, m

\* Another size keeps the cursor on the screen.
LEMMA ResizeScreenOK ==
    ASSUME NEW scr, ScreenOK(scr), NEW size \in Sizes
    PROVE  ScreenOK(ResizeScreen(scr, size)) /\ ResizeScreen(scr, size).size = size
<1>1. /\ scr.cur[1] \in Nat /\ scr.cur[2] \in Nat
      /\ size[1] - 1 \in Nat /\ size[2] - 1 \in Nat
  <2>1. scr.size[1] \in Nat /\ scr.size[2] \in Nat /\ size[1] \in Nat \ {0} /\ size[2] \in Nat \ {0}
    BY PositionsAre DEF ScreenOK
  <2>2. scr.cur[1] \in 0 .. scr.size[1] - 1 /\ scr.cur[2] \in 0 .. scr.size[2] - 1
    BY PositionsAre DEF ScreenOK
  <2>. QED
    BY <2>1, <2>2
<1>. DEFINE x == Min({scr.cur[1], size[1] - 1})
            y == Min({scr.cur[2], size[2] - 1})
<1>2. x \in 0 .. size[1] - 1 /\ y \in 0 .. size[2] - 1
  BY <1>1, SmallerOf
<1>. HIDE DEF x, y
<1>3. <<x, y>> \in PositionsOf(size)
  BY <1>2, PositionsAre
<1>. QED
  BY <1>3, ScreenOf DEF ResizeScreen, x, y

\* What the application does to a screen keeps its size and the cursor on it.
LEMMA LineFeedOK ==
    ASSUME NEW scr, ScreenOK(scr), NEW n
    PROVE  ScreenOK(LineFeed(scr, n))
<1>1. /\ scr = [size |-> scr.size, cell |-> scr.cell, cur |-> scr.cur, gen |-> scr.gen]
      /\ scr.size \in Sizes /\ scr.cur \in PositionsOf(scr.size)
  BY DEF ScreenOK
<1>2. /\ scr.size[1] \in Nat \ {0} /\ scr.size[2] \in Nat \ {0}
      /\ scr.cur[2] \in 0 .. scr.size[2] - 1
  BY <1>1, PositionsAre
<1>3. CASE scr.cur[2] < BottomRow(scr)
  <2>1. <<0, scr.cur[2] + 1>> \in PositionsOf(scr.size)
    <3>1. 0 \in 0 .. scr.size[1] - 1 /\ scr.cur[2] + 1 \in 0 .. scr.size[2] - 1
      BY <1>2, <1>3 DEF BottomRow
    <3>. QED
      BY <1>1, <3>1, PositionsAre
  <2>2. LineFeed(scr, n) = [size |-> scr.size, cell |-> scr.cell,
                            cur |-> <<0, scr.cur[2] + 1>>, gen |-> scr.gen]
    BY <1>1, <1>3 DEF LineFeed
  <2>. QED
    BY <1>1, <2>1, <2>2, ScreenOf
<1>4. CASE ~(scr.cur[2] < BottomRow(scr))
  <2>1. <<0, scr.cur[2]>> \in PositionsOf(scr.size)
    <3>1. 0 \in 0 .. scr.size[1] - 1
      BY <1>2
    <3>. QED
      BY <1>1, <1>2, <3>1, PositionsAre
  <2>. DEFINE cell == [pos \in DOMAIN scr.cell |->
                          IF pos[2] = BottomRow(scr) THEN Empty
                          ELSE scr.cell[<<pos[1], pos[2] + 1>>]]
  <2>2. LineFeed(scr, n) = [scr EXCEPT !.cur = <<0, scr.cur[2]>>, !.gen = n, !.cell = cell]
    BY <1>4 DEF LineFeed
  <2>. HIDE DEF cell
  <2>3. LineFeed(scr, n) = [size |-> scr.size, cell |-> cell,
                            cur |-> <<0, scr.cur[2]>>, gen |-> n]
    BY <1>1, <2>2
  <2>. QED
    BY <1>1, <2>1, <2>3, ScreenOf
<1>. QED
  BY <1>3, <1>4

\* So does a character drawn,
LEMMA DrawnOK ==
    ASSUME NEW scr, ScreenOK(scr), NEW ch, NEW over, NEW n
    PROVE  ScreenOK(Drawn(scr, ch, over, n))
<1>1. /\ scr = [size |-> scr.size, cell |-> scr.cell, cur |-> scr.cur, gen |-> scr.gen]
      /\ scr.size \in Sizes /\ scr.cur \in PositionsOf(scr.size)
  BY DEF ScreenOK
<1>2. /\ scr.size[1] \in Nat \ {0} /\ scr.size[2] \in Nat \ {0}
      /\ scr.cur[1] \in 0 .. scr.size[1] - 1 /\ scr.cur[2] \in 0 .. scr.size[2] - 1
  BY <1>1, PositionsAre
<1>. DEFINE row == RowFrom(scr.cur, scr)
            cell == [pos \in DOMAIN scr.cell |->
                       IF pos = scr.cur THEN ch
                       ELSE IF ~over /\ pos \in row THEN scr.cell[LeftOf(pos)] ELSE scr.cell[pos]]
            put == [scr EXCEPT !.cell = cell]
<1>3. Drawn(scr, ch, over, n) = IF scr.cur[1] = LastColumn(scr) THEN LineFeed(put, n)
                                ELSE [put EXCEPT !.cur = <<put.cur[1] + 1, put.cur[2]>>]
  BY DEF Drawn
<1>. HIDE DEF cell
<1>4. put = [size |-> scr.size, cell |-> cell, cur |-> scr.cur, gen |-> scr.gen]
  BY <1>1
<1>. HIDE DEF put
<1>5. ScreenOK(put)
  BY <1>1, <1>4, ScreenOf
<1>6. CASE scr.cur[1] = LastColumn(scr)
  BY <1>3, <1>5, <1>6, LineFeedOK
<1>7. CASE scr.cur[1] # LastColumn(scr)
  <2>1. <<scr.cur[1] + 1, scr.cur[2]>> \in PositionsOf(scr.size)
    <3>1. scr.cur[1] + 1 \in 0 .. scr.size[1] - 1
      BY <1>2, <1>7 DEF LastColumn
    <3>. QED
      BY <1>1, <1>2, <3>1, PositionsAre
  <2>2. Drawn(scr, ch, over, n) = [size |-> scr.size, cell |-> cell,
                                   cur |-> <<scr.cur[1] + 1, scr.cur[2]>>, gen |-> scr.gen]
    BY <1>3, <1>4, <1>7
  <2>. QED
    BY <1>1, <2>1, <2>2, ScreenOf
<1>. QED
  BY <1>6, <1>7

\* The neighbours of a position are on the screen.
LEMMA LeftIsThere ==
    ASSUME NEW size \in Sizes, NEW pos \in PositionsOf(size), pos[1] # 0
    PROVE  LeftOf(pos) \in PositionsOf(size)
<1>1. pos[1] - 1 \in 0 .. size[1] - 1 /\ pos[2] \in 0 .. size[2] - 1
  BY PositionsAre
<1>. QED
  BY <1>1, PositionsAre DEF LeftOf

\* The position on the right, unless it is the last column.
LEMMA RightIsThere ==
    ASSUME NEW size \in Sizes, NEW pos \in PositionsOf(size), pos[1] # size[1] - 1
    PROVE  <<pos[1] + 1, pos[2]>> \in PositionsOf(size)
<1>1. pos[1] + 1 \in 0 .. size[1] - 1 /\ pos[2] \in 0 .. size[2] - 1
  BY PositionsAre
<1>. QED
  BY <1>1, PositionsAre

\* an erasure,
LEMMA RubbedOK ==
    ASSUME NEW scr, ScreenOK(scr)
    PROVE  ScreenOK(Rubbed(scr))
<1>1. /\ scr = [size |-> scr.size, cell |-> scr.cell, cur |-> scr.cur, gen |-> scr.gen]
      /\ scr.size \in Sizes /\ scr.cur \in PositionsOf(scr.size)
  BY DEF ScreenOK
<1>2. CASE scr.cur[1] # 0
  <2>. DEFINE at == LeftOf(scr.cur)
              cell == [pos \in DOMAIN scr.cell |->
                         IF pos \notin RowFrom(at, scr) THEN scr.cell[pos]
                         ELSE IF pos[1] = LastColumn(scr) THEN Empty
                         ELSE scr.cell[<<pos[1] + 1, pos[2]>>]]
  <2>1. Rubbed(scr) = [scr EXCEPT !.cur = at, !.cell = cell]
    BY <1>2 DEF Rubbed
  <2>2. at \in PositionsOf(scr.size)
    BY <1>1, <1>2, LeftIsThere
  <2>. HIDE DEF at, cell
  <2>3. Rubbed(scr) = [size |-> scr.size, cell |-> cell, cur |-> at, gen |-> scr.gen]
    BY <1>1, <2>1
  <2>. QED
    BY <1>1, <2>2, <2>3, ScreenOf
<1>. QED
  BY <1>2 DEF Rubbed

\* any key the application obeys,
LEMMA ObeyOK ==
    ASSUME NEW scr, ScreenOK(scr), NEW token, NEW over, NEW n
    PROVE  ScreenOK(Obey(scr, token, over, n))
<1>1. scr.size \in Sizes /\ scr.cur \in PositionsOf(scr.size)
  BY DEF ScreenOK
<1>2. ASSUME NEW cur \in PositionsOf(scr.size)
      PROVE  ScreenOK([scr EXCEPT !.cur = cur])
  <2>1. [scr EXCEPT !.cur = cur] = [size |-> scr.size, cell |-> scr.cell, cur |-> cur, gen |-> scr.gen]
    BY DEF ScreenOK
  <2>. QED
    BY <1>1, <2>1, ScreenOf
<1>3. CASE token = "erase"
  BY <1>3, RubbedOK DEF Obey
<1>4. CASE token = "left"
  <2>1. Obey(scr, token, over, n) = IF scr.cur[1] = 0 THEN scr
                                    ELSE [scr EXCEPT !.cur = LeftOf(scr.cur)]
    BY <1>4 DEF Obey
  <2>. QED
    BY <1>1, <1>2, <2>1, LeftIsThere
<1>5. CASE token = "right"
  <2>1. Obey(scr, token, over, n) =
          IF scr.cur[1] = LastColumn(scr) THEN scr
          ELSE [scr EXCEPT !.cur = <<scr.cur[1] + 1, scr.cur[2]>>]
    BY <1>5 DEF Obey
  <2>. QED
    BY <1>1, <1>2, <2>1, RightIsThere DEF LastColumn
<1>6. CASE token \notin {"erase", "left", "right"}
  BY <1>6, DrawnOK DEF Obey
<1>. QED
  BY <1>3, <1>4, <1>5, <1>6

\* anything it acts on,
LEMMA ActOK ==
    ASSUME NEW app, AppOK(app), NEW token, NEW over, NEW n
    PROVE  AppOK(Act(app, token, over, n))
<1>. DEFINE scr == app.scr
            unseen == app.prompts /\ ~app.unseen
            fed == LineFeed(scr, n)
            drawn == Obey(scr, token, over, n)
            one == [app EXCEPT !.scr = fed]
<1>1. /\ app = [scr |-> scr, held |-> app.held, unseen |-> app.unseen,
                prompts |-> app.prompts, n |-> app.n]
      /\ ScreenOK(scr)
  BY DEF AppOK
<1>2. Act(app, token, over, n) =
        IF token \in {"none", "ctl", "wide", "sequence"} THEN app
        ELSE IF token = "cr" THEN [app EXCEPT !.scr = fed, !.unseen = unseen]
        ELSE IF app.unseen THEN app
        ELSE [app EXCEPT !.scr = drawn]
  BY Zenon DEF Act
<1>3. ScreenOK(fed) /\ ScreenOK(drawn)
  BY <1>1, LineFeedOK, ObeyOK
<1>. HIDE DEF unseen, fed, drawn, scr
<1>4. one = [scr |-> fed, held |-> app.held, unseen |-> app.unseen,
             prompts |-> app.prompts, n |-> app.n]
  BY <1>1
<1>5. AppOK([app EXCEPT !.scr = drawn])
  <2>1. [app EXCEPT !.scr = drawn]
          = [scr |-> drawn, held |-> app.held, unseen |-> app.unseen,
             prompts |-> app.prompts, n |-> app.n]
    BY <1>1
  <2>. QED
    BY <1>3, <2>1 DEF AppOK
<1>6. AppOK([app EXCEPT !.scr = fed, !.unseen = unseen])
  <2>. HIDE DEF one
  <2>1. [one EXCEPT !.unseen = unseen]
          = [scr |-> fed, held |-> app.held, unseen |-> unseen,
             prompts |-> app.prompts, n |-> app.n]
    BY <1>4
  <2>2. AppOK([one EXCEPT !.unseen = unseen])
    BY <1>3, <2>1 DEF AppOK
  <2>. QED
    BY <2>2 DEF one
<1>. QED
  BY <1>2, <1>5, <1>6

\* and every element of the stream.
LEMMA AbsorbOK ==
    ASSUME NEW app, AppOK(app), NEW item \in Elements
    PROVE  AppOK(Absorb(app, item))
<1>. DEFINE n == app.n + 1
            r == ReadByte(app.held, item.byte)
<1>1. /\ app = [scr |-> app.scr, held |-> app.held, unseen |-> app.unseen,
                prompts |-> app.prompts, n |-> app.n]
      /\ ScreenOK(app.scr)
  BY DEF AppOK
<1>2. Absorb(app, item) =
        IF item.byte = "resize"
        THEN [app EXCEPT !.n = n, !.scr = [ResizeScreen(app.scr, item.size) EXCEPT !.gen = n]]
        ELSE Act([app EXCEPT !.n = n, !.held = r.held], r.token, scene.over, n)
  BY DEF Absorb
<1>. HIDE DEF n, r
<1>3. CASE item.byte = "resize"
  <2>. DEFINE s == ResizeScreen(app.scr, item.size)
              t == [s EXCEPT !.gen = n]
  <2>1. ScreenOK(s)
    BY <1>1, ResizeScreenOK DEF Elements
  <2>. HIDE DEF s
  <2>2. ScreenOK(t)
    <3>1. t = [size |-> s.size, cell |-> s.cell, cur |-> s.cur, gen |-> n]
      BY <2>1 DEF ScreenOK
    <3>. QED
      BY <2>1, <3>1, ScreenOf DEF ScreenOK
  <2>3. Absorb(app, item) = [app EXCEPT !.n = n, !.scr = t]
    BY <1>2, <1>3 DEF s
  <2>. HIDE DEF t
  <2>4. Absorb(app, item) = [scr |-> t, held |-> app.held, unseen |-> app.unseen,
                             prompts |-> app.prompts, n |-> n]
    BY <1>1, <2>3
  <2>. QED
    BY <2>2, <2>4 DEF AppOK
<1>4. CASE item.byte # "resize"
  <2>. DEFINE held == r.held
              one == [app EXCEPT !.n = n]
              fed == [one EXCEPT !.held = held]
  <2>. HIDE DEF held
  <2>0. one = [scr |-> app.scr, held |-> app.held, unseen |-> app.unseen,
               prompts |-> app.prompts, n |-> n]
    BY <1>1
  <2>. HIDE DEF one
  <2>1. fed = [scr |-> app.scr, held |-> held, unseen |-> app.unseen,
               prompts |-> app.prompts, n |-> n]
    BY <2>0
  <2>2. AppOK(fed)
    BY <1>1, <2>1 DEF AppOK
  <2>. HIDE DEF fed
  <2>3. Absorb(app, item) = Act(fed, r.token, scene.over, n)
    BY <1>2, <1>4 DEF fed, one, held
  <2>. QED
    BY <2>2, <2>3, ActOK
<1>. QED
  BY <1>3, <1>4

\* Over any part of the stream.
LEMMA AbsorbedOK ==
    ASSUME NEW app, AppOK(app), NEW st \in Seq(Elements)
    PROVE  AppOK(FoldLeft(Absorb, app, st))
<1>. DEFINE S == {k \in Nat : \A s \in Seq(Elements) :
                    Len(s) = k => AppOK(FoldLeft(Absorb, app, s))}
<1>1. 0 \in S
  <2>1. \A s \in Seq(Elements) : Len(s) = 0 => s = << >>
    BY EmptySeq
  <2>2. FoldLeft(Absorb, app, << >>) = app
    BY AbsorbingNothing
  <2>. QED
    BY <2>1, <2>2
<1>2. ASSUME NEW k \in Nat, k \in S
      PROVE  k + 1 \in S
  <2>. SUFFICES ASSUME NEW s \in Seq(Elements), Len(s) = k + 1
                PROVE  AppOK(FoldLeft(Absorb, app, s))
    OBVIOUS
  <2>. DEFINE f == Front(s)
              e == Last(s)
  <2>1. f \in Seq(Elements) /\ e \in Elements /\ Len(f) = k /\ s = Append(f, e)
    BY FrontAndLast
  <2>. HIDE DEF f, e
  <2>2. AppOK(FoldLeft(Absorb, app, f))
    BY <1>2, <2>1
  <2>3. FoldLeft(Absorb, app, s) = Absorb(FoldLeft(Absorb, app, f), e)
    BY <2>1, AbsorbingUnrolls
  <2>. QED
    BY <2>1, <2>2, <2>3, AbsorbOK
<1>3. Len(st) \in S
  <2>1. Len(st) \in Nat
    BY LenProperties
  <2>. HIDE DEF S
  <2>. QED
    BY <1>1, <1>2, <2>1, InductiveSet
<1>. QED
  BY <1>3

\* Every screen the server may show is a screen.
LEMMA ScreenAfterOK ==
    ASSUME SessionShape, NEW n \in 0 .. Len(stream)
    PROVE  ScreenOK(ScreenAfter(n))
<1>1. SubSeq(stream, 1, n) \in Seq(Elements)
  <2>1. stream \in Seq(Elements) /\ Len(stream) \in Nat /\ \A i \in 1 .. Len(stream) : stream[i] \in Elements
    BY LenProperties DEF SessionShape
  <2>2. \A i \in 1 .. n : stream[i] \in Elements
    BY <2>1
  <2>. QED
    BY <2>1, <2>2, SubSeqProperties
<1>2. AppOK(Start(scene.size))
  <2>1. ScreenOK(EmptyScreen(scene.size))
    BY SceneShape, EmptyScreenOK
  <2>. HIDE DEF EmptyScreen
  <2>. QED
    BY <2>1 DEF Start, AppOK
<1>3. AppOK(FoldLeft(Absorb, Start(scene.size), SubSeq(stream, 1, n)))
  BY <1>1, <1>2, AbsorbedOK
<1>. QED
  BY <1>3 DEF AppOK, ScreenAfter, AppAfter

-----------------------------------------------------------------------------
(***************************************************************************)
(* The predictor.                                                          *)
(***************************************************************************)

\* It is stronger than the property.
LEMMA PredictorInvOK ==
    ASSUME NEW p, NEW size \in Sizes, PredictorInv(p, size)
    PROVE  PredictorOK(p, size)
<1>1. Guessing(p, size) /\ Anchored(p)
  BY DEF PredictorInv
<1>2. \A g : GuessOK(g, Ceiling(p), p.sent) => g.epoch <= p.epoch /\ g.exp \in 1 .. p.sent + 1
  <2>1. p.epoch \in Nat /\ p.confirmed \in Nat /\ p.confirmed <= p.epoch /\ p.sent \in Nat
    BY <1>1 DEF Guessing, Numbers
  <2>. QED
    BY <2>1 DEF GuessOK, Ceiling
<1>3. \A pos \in DOMAIN p.cells : GuessOK(p.cells[pos], Ceiling(p), p.sent)
  BY <1>1 DEF Guessing, CellsOK
<1>4. \A c \in ToSet(p.cursors) : GuessOK(c, Ceiling(p), p.sent)
  <2>1. p.cursors \in Seq([pos : PositionsOf(size), epoch : Nat, exp : Nat])
    BY <1>1 DEF Guessing, CursorsOK
  <2>2. DOMAIN p.cursors = 1 .. Len(p.cursors)
    BY <2>1, LenProperties
  <2>. QED
    BY <1>1, <2>2 DEF Guessing, CursorsOK, ToSet
<1>5. \A g \in {p.cells[pos] : pos \in DOMAIN p.cells} \cup ToSet(p.cursors) :
         g.epoch <= p.epoch /\ g.exp \in 1 .. p.sent + 1
  BY <1>2, <1>3, <1>4
<1>6. /\ p.pref \in Preferences /\ {p.over, p.active, p.show, p.flagging} \subseteq BOOLEAN
      /\ DOMAIN p.cells \subseteq PositionsOf(size) /\ p.cur \in PositionsOf(size)
  BY <1>1 DEF Guessing, CellsOK
<1>7. /\ p.cells # << >> \/ p.cursors # << >> => p.active
      /\ p.cursors # << >> => Last(p.cursors).pos = p.cur
  BY <1>1 DEF Anchored
<1>8. p.glitch \in 0 .. 2 * GlitchRepairs /\ p.wait \in 0 .. p.sent + 1 /\ p.late <= p.sent
  BY <1>1 DEF Guessing, Numbers
<1>. QED
  BY <1>5, <1>6, <1>7, <1>8 DEF PredictorOK

\* Bounds that only grow.
LEMMA BoundsGrow ==
    ASSUME NEW size, NEW top \in Nat, NEW sent \in Nat, NEW above \in Nat, NEW later \in Nat,
           top <= above, sent <= later
    PROVE  /\ \A cells : CellsOK(cells, size, top, sent) => CellsOK(cells, size, above, later)
           /\ \A cursors : CursorsOK(cursors, size, top, sent) => CursorsOK(cursors, size, above, later)
<1>1. \A g : GuessOK(g, top, sent) => GuessOK(g, above, later)
  BY DEF GuessOK
<1>. QED
  BY <1>1 DEF CellsOK, CursorsOK

\* No predictions are fine on any screen.
LEMMA NoGuesses ==
    ASSUME NEW size, NEW top, NEW sent
    PROVE  CellsOK(<< >>, size, top, sent) /\ CursorsOK(<< >>, size, top, sent)
<1>1. << >> \in Seq([pos : PositionsOf(size), epoch : Nat, exp : Nat]) /\ Len(<< >>) = 0
  OBVIOUS
<1>2. DOMAIN << >> = {} /\ << >> = [pos \in {} |-> << >>[pos]]
  OBVIOUS
<1>3. CellsOK(<< >>, size, top, sent)
  BY <1>2 DEF CellsOK
<1>4. CursorsOK(<< >>, size, top, sent)
  BY <1>1 DEF CursorsOK
<1>. QED
  BY <1>3, <1>4

\* A new predictor predicts nothing.
LEMMA NewPredictorInv ==
    ASSUME NEW size \in Sizes, NEW pref \in Preferences, NEW over \in BOOLEAN
    PROVE  PredictorInv(NewPredictor(pref, over), size)
<1>. DEFINE p == NewPredictor(pref, over)
            show == pref \in {"always", "experimental"}
<1>1. show \in BOOLEAN
  OBVIOUS
<1>2. p = [pref |-> pref, over |-> over, cells |-> << >>, cursors |-> << >>,
           cur |-> <<0, 0>>, epoch |-> 1, confirmed |-> 0, active |-> FALSE,
           show |-> show, flagging |-> FALSE,
           glitch |-> 0, held |-> << >>, sent |-> 0, late |-> 0, wait |-> 0]
  BY DEF NewPredictor
<1>3. <<0, 0>> \in PositionsOf(size)
  BY PositionsAre
<1>. HIDE DEF show, p
<1>4. PredictorFields(p)
  BY <1>2 DEF PredictorFields
<1>5. Numbers(p)
  <2>1. 0 \in 0 .. 2 * GlitchRepairs
    <3>1. GlitchRepairs \in Nat
      BY PredictorAssumption
    <3>. QED
      BY <3>1
  <2>. QED
    BY <1>2, <2>1 DEF Numbers
<1>6. CellsOK(p.cells, size, Ceiling(p), p.sent) /\ CursorsOK(p.cursors, size, Ceiling(p), p.sent)
  BY <1>2, NoGuesses
<1>. QED
  BY <1>1, <1>2, <1>3, <1>4, <1>5, <1>6 DEF PredictorInv, Guessing, Anchored, p

\* The fields that the operators of the predictor set, one at a time.
LEMMA WithActive ==
    ASSUME NEW p, NEW v, PredictorFields(p)
    PROVE  LET q == [p EXCEPT !.active = v]
           IN  /\ PredictorFields(q) /\ Keeps(p, q) /\ q.active = v
               /\ q.cells = p.cells /\ q.cursors = p.cursors /\ q.cur = p.cur
               /\ q.epoch = p.epoch /\ q.confirmed = p.confirmed
               /\ q.glitch = p.glitch /\ q.held = p.held
BY DEF PredictorFields, Keeps

\* Other cursors,
LEMMA WithCursors ==
    ASSUME NEW p, NEW v, PredictorFields(p)
    PROVE  LET q == [p EXCEPT !.cursors = v]
           IN  /\ PredictorFields(q) /\ Keeps(p, q) /\ q.cursors = v
               /\ q.cells = p.cells /\ q.active = p.active /\ q.cur = p.cur
               /\ q.epoch = p.epoch /\ q.confirmed = p.confirmed
               /\ q.glitch = p.glitch /\ q.held = p.held
BY DEF PredictorFields, Keeps

\* other cells,
LEMMA WithCells ==
    ASSUME NEW p, NEW v, PredictorFields(p)
    PROVE  LET q == [p EXCEPT !.cells = v]
           IN  /\ PredictorFields(q) /\ Keeps(p, q) /\ q.cells = v
               /\ q.cursors = p.cursors /\ q.active = p.active /\ q.cur = p.cur
               /\ q.epoch = p.epoch /\ q.confirmed = p.confirmed
               /\ q.glitch = p.glitch /\ q.held = p.held
BY DEF PredictorFields, Keeps

\* become_tentative starts a new epoch, which nothing depends on yet.
LEMMA TentativeIs ==
    ASSUME NEW p, NEW size, Guessing(p, size)
    PROVE  LET q == BecomeTentative(p)
           IN  /\ Guessing(q, size) /\ Keeps(p, q)
               /\ q.cells = p.cells /\ q.cursors = p.cursors /\ q.cur = p.cur
               /\ q.active = p.active /\ q.confirmed = p.confirmed
               /\ q.held = p.held /\ p.epoch <= q.epoch
               /\ p.epoch <= Ceiling(p) => q.epoch <= Ceiling(q)
<1>1. PredictorFields(p) /\ p.epoch \in Nat /\ p.confirmed \in Nat
      /\ p.confirmed <= p.epoch /\ p.sent \in Nat
  BY DEF Guessing, Numbers
<1>2. CASE p.pref = "experimental"
  <2>1. BecomeTentative(p) = p
    BY <1>2 DEF BecomeTentative
  <2>. QED
    BY <1>1, <2>1 DEF Keeps
<1>3. CASE p.pref # "experimental"
  <2>. DEFINE q == [p EXCEPT !.epoch = p.epoch + 1]
  <2>1. BecomeTentative(p) = q
    BY <1>3 DEF BecomeTentative
  <2>2. /\ PredictorFields(q) /\ Keeps(p, q) /\ q.epoch = p.epoch + 1
        /\ q.cells = p.cells /\ q.cursors = p.cursors /\ q.cur = p.cur
        /\ q.active = p.active /\ q.confirmed = p.confirmed
        /\ q.glitch = p.glitch /\ q.held = p.held
    BY <1>1 DEF PredictorFields, Keeps
  <2>. HIDE DEF q
  <2>3. Ceiling(p) = p.epoch /\ Ceiling(q) = q.epoch
    BY <1>3, <2>2 DEF Ceiling, Keeps
  <2>4. Numbers(q)
    BY <1>1, <2>2 DEF Guessing, Numbers, Keeps
  <2>5. CellsOK(q.cells, size, q.epoch, q.sent) /\ CursorsOK(q.cursors, size, q.epoch, q.sent)
    <3>1. CellsOK(p.cells, size, p.epoch, p.sent) /\ CursorsOK(p.cursors, size, p.epoch, p.sent)
      BY <2>3 DEF Guessing
    <3>2. q.epoch \in Nat /\ p.epoch <= q.epoch /\ q.sent = p.sent /\ p.sent <= q.sent
      BY <1>1, <2>2 DEF Keeps
    <3>. QED
      BY <1>1, <2>2, <3>1, <3>2, BoundsGrow
  <2>6. Guessing(q, size)
    BY <2>2, <2>3, <2>4, <2>5 DEF Guessing, Keeps
  <2>. QED
    BY <1>1, <2>1, <2>2, <2>3, <2>6
<1>. QED
  BY <1>2, <1>3

\* reset forgets all guesses.
LEMMA ResetIs ==
    ASSUME NEW p, NEW size, Guessing(p, size)
    PROVE  LET q == Reset(p)
           IN  /\ PredictorInv(q, size) /\ Keeps(p, q)
               /\ q.cells = << >> /\ q.cursors = << >> /\ q.active = FALSE
               /\ q.cur = p.cur /\ q.confirmed = p.confirmed
<1>. DEFINE r == [p EXCEPT !.cells = << >>, !.cursors = << >>, !.active = FALSE, !.held = << >>]
<1>1. PredictorFields(p)
  BY DEF Guessing
<1>2. /\ PredictorFields(r) /\ Keeps(p, r)
      /\ r.cells = << >> /\ r.cursors = << >> /\ r.active = FALSE
      /\ r.cur = p.cur /\ r.confirmed = p.confirmed /\ r.epoch = p.epoch /\ r.glitch = p.glitch
  <2>. DEFINE nil == << >>
              no == FALSE
              a == [p EXCEPT !.cells = nil]
              b == [a EXCEPT !.cursors = nil]
              c == [b EXCEPT !.active = no]
              e == [c EXCEPT !.held = nil]
  <2>1. r = e
    OBVIOUS
  <2>. HIDE DEF nil, no, r
  <2>2. PredictorFields(a) /\ Keeps(p, a) /\ a.cells = nil /\ a.cursors = p.cursors
        /\ a.cur = p.cur /\ a.confirmed = p.confirmed /\ a.epoch = p.epoch /\ a.glitch = p.glitch
    BY <1>1, WithCells
  <2>. HIDE DEF a
  <2>3. PredictorFields(b) /\ Keeps(a, b) /\ b.cells = a.cells /\ b.cursors = nil
        /\ b.cur = a.cur /\ b.confirmed = a.confirmed /\ b.epoch = a.epoch /\ b.glitch = a.glitch
    BY <2>2, WithCursors
  <2>. HIDE DEF b
  <2>4. PredictorFields(c) /\ Keeps(b, c) /\ c.cells = b.cells /\ c.cursors = b.cursors
        /\ c.active = no
        /\ c.cur = b.cur /\ c.confirmed = b.confirmed /\ c.epoch = b.epoch /\ c.glitch = b.glitch
    BY <2>3, WithActive
  <2>. HIDE DEF c
  <2>5. PredictorFields(e) /\ Keeps(c, e) /\ e.cells = c.cells /\ e.cursors = c.cursors
        /\ e.active = c.active
        /\ e.cur = c.cur /\ e.confirmed = c.confirmed /\ e.epoch = c.epoch /\ e.glitch = c.glitch
    BY <2>4 DEF PredictorFields, Keeps
  <2>. HIDE DEF e
  <2>6. /\ PredictorFields(r) /\ Keeps(p, r)
        /\ r.cells = nil /\ r.cursors = nil /\ r.active = no
        /\ r.cur = p.cur /\ r.confirmed = p.confirmed /\ r.epoch = p.epoch /\ r.glitch = p.glitch
    BY <2>1, <2>2, <2>3, <2>4, <2>5 DEF Keeps
  <2>. QED
    BY <2>6 DEF nil, no
<1>3. Reset(p) = BecomeTentative(r)
  BY DEF Reset
<1>. HIDE DEF r
<1>4. Guessing(r, size)
  <2>1. Numbers(r)
    BY <1>2 DEF Guessing, Numbers, Keeps
  <2>. QED
    BY <1>2, <2>1, NoGuesses DEF Guessing, Keeps
<1>5. LET q == BecomeTentative(r)
      IN  /\ Guessing(q, size) /\ Keeps(r, q)
          /\ q.cells = r.cells /\ q.cursors = r.cursors /\ q.cur = r.cur
          /\ q.active = r.active /\ q.confirmed = r.confirmed
  BY <1>4, TentativeIs
<1>. HIDE DEF BecomeTentative
<1>. QED
  BY <1>2, <1>3, <1>5 DEF PredictorInv, Anchored, Keeps

\* The host's cursor is taken over.
LEMMA SnapIs ==
    ASSUME NEW p, NEW scr, PredictorFields(p)
    PROVE  LET q == SnapTo(p, scr)
           IN  /\ PredictorFields(q) /\ Keeps(p, q) /\ q.cur = scr.cur
               /\ q.cells = p.cells /\ q.cursors = p.cursors /\ q.active = p.active
               /\ q.epoch = p.epoch /\ q.confirmed = p.confirmed
               /\ q.glitch = p.glitch /\ q.held = p.held
BY DEF PredictorFields, SnapTo, Keeps

\* While nothing is predicted, whatever the size was.
LEMMA SnapOK ==
    ASSUME NEW p, NEW old, NEW scr, Guessing(p, old), ScreenOK(scr),
           p.cursors = << >>, p.cells = << >> \/ (p.active /\ old = scr.size)
    PROVE  PredictorInv(SnapTo(p, scr), scr.size)
<1>. DEFINE q == SnapTo(p, scr)
<1>1. /\ PredictorFields(q) /\ Keeps(p, q) /\ q.cur = scr.cur
      /\ q.cells = p.cells /\ q.cursors = p.cursors /\ q.active = p.active
      /\ q.epoch = p.epoch /\ q.confirmed = p.confirmed
      /\ q.glitch = p.glitch
  BY SnapIs DEF Guessing
<1>. HIDE DEF q
<1>2. scr.cur \in PositionsOf(scr.size)
  BY DEF ScreenOK
<1>3. Numbers(q)
  BY <1>1 DEF Guessing, Numbers, Keeps
<1>4. Ceiling(q) = Ceiling(p)
  BY <1>1 DEF Ceiling, Keeps
<1>5. CellsOK(q.cells, scr.size, Ceiling(q), q.sent) /\ CursorsOK(q.cursors, scr.size, Ceiling(q), q.sent)
  BY <1>1, <1>4, NoGuesses DEF Guessing, Keeps
<1>. QED
  BY <1>1, <1>2, <1>3, <1>5 DEF PredictorInv, Guessing, Anchored, Keeps, q

\* set_cursor
LEMMA SetCursorOK ==
    ASSUME NEW p, NEW old, NEW scr, PredictorInv(p, old), ScreenOK(scr),
           p.active => old = scr.size
    PROVE  LET q == SetCursor(p, scr)
           IN  /\ PredictorInv(q, scr.size) /\ Keeps(p, q)
               /\ q.cells = p.cells /\ q.active = p.active /\ q.confirmed = p.confirmed
               /\ q.cursors = p.cursors /\ q.held = p.held
               /\ IF p.active THEN q = p ELSE q.cur = scr.cur
<1>1. Guessing(p, old) /\ Anchored(p) /\ p.active \in BOOLEAN
  BY DEF PredictorInv, Guessing
<1>2. CASE p.active
  <2>1. SetCursor(p, scr) = p
    BY <1>2 DEF SetCursor
  <2>. QED
    BY <1>2, <2>1 DEF Keeps
<1>3. CASE ~p.active
  <2>. DEFINE r == IF p.cur[2] # scr.cur[2] THEN BecomeTentative(p) ELSE p
  <2>1. SetCursor(p, scr) = SnapTo(r, scr)
    BY <1>3 DEF SetCursor
  <2>2. /\ Guessing(r, old) /\ Keeps(p, r) /\ r.cells = p.cells /\ r.cursors = p.cursors
        /\ r.active = p.active /\ r.confirmed = p.confirmed /\ r.held = p.held
    <3>1. LET q == BecomeTentative(p)
          IN  /\ Guessing(q, old) /\ Keeps(p, q) /\ q.cells = p.cells /\ q.cursors = p.cursors
              /\ q.active = p.active /\ q.confirmed = p.confirmed /\ q.held = p.held
      BY <1>1, TentativeIs
    <3>2. Keeps(p, p)
      BY DEF Keeps
    <3>. HIDE DEF BecomeTentative
    <3>. QED
      BY <1>1, <3>1, <3>2
  <2>3. p.cells = << >> /\ p.cursors = << >>
    BY <1>1, <1>3 DEF Anchored
  <2>. HIDE DEF r
  <2>4. PredictorInv(SnapTo(r, scr), scr.size)
    BY <2>2, <2>3, SnapOK
  <2>5. LET q == SnapTo(r, scr)
        IN  /\ Keeps(r, q) /\ q.cells = r.cells /\ q.active = r.active /\ q.confirmed = r.confirmed
            /\ q.cursors = r.cursors /\ q.held = r.held /\ q.cur = scr.cur
    BY <2>2, SnapIs DEF Guessing
  <2>. QED
    BY <1>3, <2>1, <2>2, <2>4, <2>5 DEF Keeps
<1>. QED
  BY <1>1, <1>2, <1>3

\* Another epoch,
LEMMA WithEpoch ==
    ASSUME NEW p, NEW v, PredictorFields(p)
    PROVE  LET q == [p EXCEPT !.epoch = v]
           IN  /\ PredictorFields(q) /\ Keeps(p, q) /\ q.epoch = v
               /\ q.cursors = p.cursors /\ q.active = p.active /\ q.cur = p.cur
               /\ q.cells = p.cells /\ q.confirmed = p.confirmed
               /\ q.glitch = p.glitch /\ q.held = p.held
BY DEF PredictorFields, Keeps

\* another beginning of an escape sequence,
LEMMA WithHeld ==
    ASSUME NEW p, NEW v, PredictorFields(p)
    PROVE  LET q == [p EXCEPT !.held = v]
           IN  /\ PredictorFields(q) /\ Keeps(p, q) /\ q.held = v
               /\ q.cursors = p.cursors /\ q.active = p.active /\ q.cur = p.cur
               /\ q.cells = p.cells /\ q.confirmed = p.confirmed
               /\ q.glitch = p.glitch /\ q.epoch = p.epoch
BY DEF PredictorFields, Keeps

\* or another newest cursor.
LEMMA WithCur ==
    ASSUME NEW p, NEW v, PredictorFields(p)
    PROVE  LET q == [p EXCEPT !.cur = v]
           IN  /\ PredictorFields(q) /\ Keeps(p, q) /\ q.cur = v
               /\ q.cursors = p.cursors /\ q.active = p.active /\ q.held = p.held
               /\ q.cells = p.cells /\ q.confirmed = p.confirmed
               /\ q.glitch = p.glitch /\ q.epoch = p.epoch
BY DEF PredictorFields, Keeps

\* A cursor predicted for the next frame comes last.
LEMMA CursorAppended ==
    ASSUME NEW size, NEW top, NEW sent \in Nat, NEW cursors, CursorsOK(cursors, size, top, sent),
           NEW at \in PositionsOf(size), NEW epoch \in Nat, NEW exp, epoch <= top, exp = sent + 1,
           NEW c, c = [pos |-> at, epoch |-> epoch, exp |-> exp]
    PROVE  /\ CursorsOK(Append(cursors, c), size, top, sent)
           /\ Append(cursors, c) # << >> /\ Last(Append(cursors, c)) = c
<1>. DEFINE C == [pos : PositionsOf(size), epoch : Nat, exp : Nat]
            n == Len(cursors)
            a == Append(cursors, c)
<1>1. /\ cursors \in Seq(C)
      /\ \A i \in 1 .. n : GuessOK(cursors[i], top, sent)
      /\ \A i, j \in 1 .. n : i < j => cursors[i].exp <= cursors[j].exp
  BY DEF CursorsOK
<1>2. GuessOK(c, top, sent)
  BY DEF GuessOK
<1>3. c \in C
  OBVIOUS
<1>. HIDE DEF C
<1>4. /\ a \in Seq(C) /\ Len(a) = n + 1 /\ n \in Nat /\ a[n + 1] = c
      /\ \A i \in 1 .. n : a[i] = cursors[i]
  BY <1>1, <1>3, LenProperties
<1>. HIDE DEF n, a
<1>5. \A i \in 1 .. n + 1 : i = n + 1 \/ i \in 1 .. n
  BY <1>4
<1>6. \A i \in 1 .. n + 1 : GuessOK(a[i], top, sent)
  BY <1>1, <1>2, <1>4, <1>5
<1>7. ASSUME NEW i \in 1 .. n + 1, NEW j \in 1 .. n + 1, i < j
      PROVE  a[i].exp <= a[j].exp
  <2>1. i \in 1 .. n
    BY <1>4, <1>7
  <2>2. CASE j = n + 1
    BY <1>1, <1>4, <2>1, <2>2 DEF GuessOK
  <2>3. CASE j \in 1 .. n
    BY <1>1, <1>4, <1>7, <2>1, <2>3
  <2>. QED
    BY <1>5, <2>2, <2>3
<1>8. a # << >> /\ Last(a) = c
  BY <1>4 DEF Last
<1>9. CursorsOK(a, size, top, sent)
  BY <1>4, <1>6, <1>7 DEF CursorsOK, C
<1>. QED
  BY <1>8, <1>9 DEF a

\* The cursors without the last.
LEMMA CursorDropped ==
    ASSUME NEW size, NEW top, NEW sent, NEW cursors, CursorsOK(cursors, size, top, sent),
           cursors # << >>
    PROVE  CursorsOK(Front(cursors), size, top, sent)
<1>. DEFINE C == [pos : PositionsOf(size), epoch : Nat, exp : Nat]
            k == Len(cursors) - 1
<1>1. /\ cursors \in Seq(C)
      /\ \A i \in 1 .. Len(cursors) : GuessOK(cursors[i], top, sent)
      /\ \A i, j \in 1 .. Len(cursors) : i < j => cursors[i].exp <= cursors[j].exp
  BY DEF CursorsOK
<1>. HIDE DEF C
<1>2. k \in Nat /\ Len(cursors) = k + 1
  BY <1>1, EmptySeq, LenProperties
<1>. HIDE DEF k
<1>3. /\ Front(cursors) \in Seq(C) /\ Len(Front(cursors)) = k
      /\ \A i \in 1 .. k : Front(cursors)[i] = cursors[i]
  BY <1>1, <1>2, FrontAndLast
<1>4. \A i \in 1 .. k : i \in 1 .. k + 1
  BY <1>2
<1>. QED
  BY <1>1, <1>2, <1>3, <1>4 DEF CursorsOK, C

\* record_cursor_prediction at a new position.
LEMMA MoveToOK ==
    ASSUME NEW p, NEW size, Guessing(p, size), p.epoch <= Ceiling(p), NEW pos \in PositionsOf(size)
    PROVE  LET q == MoveTo(p, pos)
           IN  /\ PredictorInv(q, size) /\ Keeps(p, q) /\ Newest(q)
               /\ q.cells = p.cells /\ q.cur = pos /\ q.active = TRUE /\ q.held = p.held
<1>. DEFINE m == [p EXCEPT !.cur = pos]
            c == [pos |-> m.cur, epoch |-> m.epoch, exp |-> NextFrame(m)]
            before == IF m.cursors # << >> /\ Last(m.cursors).epoch = m.epoch
                      THEN Front(m.cursors) ELSE m.cursors
            yes == TRUE
            cursors == Append(before, c)
            a == [m EXCEPT !.cursors = cursors]
            q == [a EXCEPT !.active = yes]
<1>1. MoveTo(p, pos) = q
  BY DEF MoveTo, RecordCursor
<1>2. PredictorFields(p) /\ p.epoch \in Nat /\ p.sent \in Nat
  BY DEF Guessing, Numbers
<1>3. /\ PredictorFields(m) /\ Keeps(p, m) /\ m.cur = pos
      /\ m.cursors = p.cursors /\ m.active = p.active
      /\ m.cells = p.cells /\ m.confirmed = p.confirmed
      /\ m.glitch = p.glitch /\ m.epoch = p.epoch /\ m.held = p.held
  BY <1>2, WithCur
<1>. HIDE DEF m
<1>4. c = [pos |-> pos, epoch |-> p.epoch, exp |-> p.sent + 1]
  BY <1>2, <1>3 DEF NextFrame, Keeps
<1>5. CursorsOK(before, size, Ceiling(p), p.sent)
  BY <1>3, CursorDropped DEF Guessing
<1>. HIDE DEF before, c
<1>6. CursorsOK(cursors, size, Ceiling(p), p.sent) /\ cursors # << >> /\ Last(cursors) = c
  <2>. DEFINE top == Ceiling(p)
              sent == p.sent
              epoch == p.epoch
              exp == p.sent + 1
  <2>1. /\ epoch \in Nat /\ epoch <= top /\ exp = sent + 1 /\ sent \in Nat
        /\ c = [pos |-> pos, epoch |-> epoch, exp |-> exp]
    BY <1>2, <1>4
  <2>2. CursorsOK(before, size, top, sent)
    BY <1>5
  <2>. HIDE DEF top, sent, epoch, exp
  <2>3. CursorsOK(Append(before, c), size, top, sent) /\ Append(before, c) # << >>
        /\ Last(Append(before, c)) = c
    BY <2>1, <2>2, CursorAppended
  <2>. QED
    BY <2>3 DEF top, sent
<1>. HIDE DEF cursors, yes
<1>7. /\ PredictorFields(a) /\ Keeps(m, a) /\ a.cursors = cursors
      /\ a.cells = m.cells /\ a.active = m.active /\ a.cur = m.cur
      /\ a.epoch = m.epoch /\ a.confirmed = m.confirmed /\ a.glitch = m.glitch
      /\ a.held = m.held
  BY <1>3, WithCursors
<1>. HIDE DEF a
<1>8. /\ PredictorFields(q) /\ Keeps(a, q) /\ q.active = yes
      /\ q.cells = a.cells /\ q.cursors = a.cursors /\ q.cur = a.cur
      /\ q.epoch = a.epoch /\ q.confirmed = a.confirmed /\ q.glitch = a.glitch
      /\ q.held = a.held
  BY <1>7, WithActive
<1>. HIDE DEF q
<1>9. /\ PredictorFields(q) /\ Keeps(p, q) /\ q.active = TRUE
      /\ q.cells = p.cells /\ q.cursors = cursors /\ q.cur = pos
      /\ q.epoch = p.epoch /\ q.confirmed = p.confirmed /\ q.glitch = p.glitch
      /\ q.held = p.held
  BY <1>3, <1>7, <1>8 DEF Keeps, yes
<1>10. Ceiling(q) = Ceiling(p) /\ q.sent = p.sent
  BY <1>9 DEF Ceiling, Keeps
<1>11. Numbers(q)
  BY <1>9 DEF Guessing, Numbers, Keeps
<1>12. Guessing(q, size)
  BY <1>6, <1>9, <1>10, <1>11 DEF Guessing, Keeps
<1>13. Newest(q)
  BY <1>4, <1>6, <1>9, <1>10 DEF Newest
<1>. QED
  BY <1>1, <1>4, <1>6, <1>9, <1>12, <1>13 DEF PredictorInv, Anchored

\* New predictions over those there are.
LEMMA OverwrittenOK ==
    ASSUME NEW p, NEW size, Guessing(p, size), NEW new,
           DOMAIN new \subseteq PositionsOf(size),
           \A pos \in DOMAIN new : GuessOK(new[pos], Ceiling(p), p.sent)
    PROVE  LET q == Overwritten(p, new)
           IN  /\ Guessing(q, size) /\ Keeps(p, q)
               /\ q.epoch = p.epoch /\ q.confirmed = p.confirmed
               /\ q.cur = p.cur /\ q.cursors = p.cursors
               /\ q.active = p.active /\ q.held = p.held
               /\ DOMAIN q.cells = DOMAIN p.cells \cup DOMAIN new
               /\ \A pos \in DOMAIN q.cells :
                     q.cells[pos] = IF pos \in DOMAIN new THEN new[pos] ELSE p.cells[pos]
<1>. DEFINE cells == [pos \in DOMAIN p.cells \cup DOMAIN new |->
                         IF pos \in DOMAIN new THEN new[pos] ELSE p.cells[pos]]
            q == [p EXCEPT !.cells = cells]
<1>1. Overwritten(p, new) = q
  BY DEF Overwritten
<1>2. CellsOK(cells, size, Ceiling(p), p.sent)
  <2>1. /\ DOMAIN p.cells \subseteq PositionsOf(size)
        /\ \A pos \in DOMAIN p.cells : GuessOK(p.cells[pos], Ceiling(p), p.sent)
    BY DEF Guessing, CellsOK
  <2>. QED
    BY <2>1 DEF CellsOK
<1>0. /\ DOMAIN cells = DOMAIN p.cells \cup DOMAIN new
      /\ \A pos \in DOMAIN cells : cells[pos] = IF pos \in DOMAIN new THEN new[pos] ELSE p.cells[pos]
  OBVIOUS
<1>. HIDE DEF cells
<1>3. /\ PredictorFields(q) /\ Keeps(p, q) /\ q.cells = cells
      /\ q.cursors = p.cursors /\ q.active = p.active /\ q.cur = p.cur
      /\ q.epoch = p.epoch /\ q.confirmed = p.confirmed /\ q.glitch = p.glitch
      /\ q.held = p.held
  BY WithCells DEF Guessing
<1>. HIDE DEF q
<1>4. Ceiling(q) = Ceiling(p)
  BY <1>3 DEF Ceiling, Keeps
<1>5. Numbers(q)
  BY <1>3 DEF Guessing, Numbers, Keeps
<1>6. Guessing(q, size)
  BY <1>2, <1>3, <1>4, <1>5 DEF Guessing, Keeps
<1>. QED
  BY <1>0, <1>1, <1>3, <1>6

\* A guess made in an epoch within the ceiling waits for the next frame.
LEMMA GuessIsOK ==
    ASSUME NEW p, NEW size, Guessing(p, size), p.epoch <= Ceiling(p),
           NEW pos, NEW ch, NEW unknown, NEW scr
    PROVE  GuessOK(Guess(p, pos, ch, unknown, scr), Ceiling(p), p.sent)
<1>1. p.epoch \in Nat /\ p.sent \in Nat
  BY DEF Guessing, Numbers
<1>. QED
  BY <1>1 DEF Guess, GuessOK, NextFrame

\* The rest of a row is on the screen.
LEMMA RowIsThere ==
    ASSUME NEW scr, ScreenOK(scr), NEW pos \in PositionsOf(scr.size)
    PROVE  RowFrom(pos, scr) \subseteq PositionsOf(scr.size)
<1>1. /\ scr.size \in Sizes /\ scr.size[1] \in Nat \ {0}
      /\ pos[1] \in 0 .. scr.size[1] - 1 /\ pos[2] \in 0 .. scr.size[2] - 1
  BY PositionsAre DEF ScreenOK
<1>2. \A x \in pos[1] .. LastColumn(scr) : <<x, pos[2]>> \in PositionsOf(scr.size)
  <2>1. \A x \in pos[1] .. LastColumn(scr) : x \in 0 .. scr.size[1] - 1
    BY <1>1 DEF LastColumn
  <2>. QED
    BY <1>1, <2>1, PositionsAre
<1>. QED
  BY <1>2 DEF RowFrom

\* newline_carriage_return
LEMMA NewlineOK ==
    ASSUME NEW p, NEW scr, ScreenOK(scr), Guessing(p, scr.size), p.epoch <= Ceiling(p)
    PROVE  LET q == Newline(p, scr)
           IN  PredictorInv(q, scr.size) /\ Keeps(p, q)
<1>. DEFINE home == <<0, p.cur[2]>>
            bare == [pos \in RowFrom(home, scr) |-> Guess(p, pos, Empty, FALSE, scr)]
            m == Overwritten(p, bare)
<1>1. /\ scr.size \in Sizes /\ scr.size[1] \in Nat \ {0} /\ scr.size[2] \in Nat \ {0}
      /\ p.cur[2] \in 0 .. scr.size[2] - 1
  BY PositionsAre DEF ScreenOK, Guessing
<1>2. home \in PositionsOf(scr.size)
  <2>1. 0 \in 0 .. scr.size[1] - 1
    BY <1>1
  <2>. QED
    BY <1>1, <2>1, PositionsAre
<1>3. CASE p.cur[2] >= BottomRow(scr)
  <2>1. DOMAIN bare \subseteq PositionsOf(scr.size)
    <3>. HIDE DEF home
    <3>. QED
      BY <1>2, RowIsThere
  <2>2. \A pos \in DOMAIN bare : GuessOK(bare[pos], Ceiling(p), p.sent)
    BY GuessIsOK
  <2>. HIDE DEF home, bare
  <2>3. /\ Guessing(m, scr.size) /\ Keeps(p, m)
        /\ m.epoch = p.epoch /\ m.confirmed = p.confirmed
    BY <2>1, <2>2, OverwrittenOK
  <2>4. Newline(p, scr) = MoveTo(m, home)
    BY <1>3 DEF Newline, home, bare
  <2>. HIDE DEF m
  <2>5. m.epoch <= Ceiling(m)
    BY <2>3 DEF Ceiling, Keeps
  <2>6. LET q == MoveTo(m, home) IN PredictorInv(q, scr.size) /\ Keeps(m, q)
    BY <1>2, <2>3, <2>5, MoveToOK
  <2>. QED
    BY <2>3, <2>4, <2>6 DEF Keeps
<1>4. CASE ~(p.cur[2] >= BottomRow(scr))
  <2>. DEFINE below == <<0, p.cur[2] + 1>>
  <2>1. below \in PositionsOf(scr.size)
    <3>1. 0 \in 0 .. scr.size[1] - 1 /\ p.cur[2] + 1 \in 0 .. scr.size[2] - 1
      BY <1>1, <1>4 DEF BottomRow
    <3>. QED
      BY <1>1, <3>1, PositionsAre
  <2>2. Newline(p, scr) = MoveTo(p, below)
    BY <1>4 DEF Newline
  <2>. HIDE DEF below
  <2>. QED
    BY <2>1, <2>2, MoveToOK
<1>. QED
  BY <1>3, <1>4

\* handle_decoded_char
LEMMA PrintGlyphOK ==
    ASSUME NEW p, NEW scr, ScreenOK(scr), Guessing(p, scr.size), p.epoch <= Ceiling(p), NEW ch
    PROVE  LET q == PrintGlyph(p, ch, scr)
           IN  PredictorInv(q, scr.size) /\ Keeps(p, q)
<1>1. /\ scr.size \in Sizes /\ p.cur \in PositionsOf(scr.size)
      /\ scr.size[1] \in Nat \ {0} /\ p.cur[1] \in 0 .. scr.size[1] - 1
  BY PositionsAre DEF ScreenOK, Guessing
<1>2. ASSUME NEW r, Guessing(r, scr.size), r.epoch <= Ceiling(r), Keeps(p, r)
      PROVE  LET q == Place(r, ch, scr)
             IN  /\ Guessing(q, scr.size) /\ q.epoch <= Ceiling(q) /\ Keeps(p, q)
                 /\ q.cur = r.cur
  <2>. DEFINE new == [pos \in {r.cur} |-> Guess(r, pos, ch, FALSE, scr)]
              q == Overwritten(r, new)
  <2>1. DOMAIN new \subseteq PositionsOf(scr.size)
    BY <1>2 DEF Guessing
  <2>2. \A pos \in DOMAIN new : GuessOK(new[pos], Ceiling(r), r.sent)
    BY <1>2, GuessIsOK
  <2>. HIDE DEF new
  <2>3. /\ Guessing(q, scr.size) /\ Keeps(r, q)
        /\ q.epoch = r.epoch /\ q.confirmed = r.confirmed /\ q.cur = r.cur
    BY <1>2, <2>1, <2>2, OverwrittenOK
  <2>4. Place(r, ch, scr) = q
    BY DEF Place, new
  <2>. HIDE DEF q
  <2>. QED
    BY <1>2, <2>3, <2>4 DEF Ceiling, Keeps
<1>3. ASSUME NEW r, Guessing(r, scr.size), r.epoch <= Ceiling(r), Keeps(p, r)
      PROVE  LET q == BecomeTentative(r)
             IN  /\ Guessing(q, scr.size) /\ q.epoch <= Ceiling(q) /\ Keeps(p, q)
                 /\ q.cur = r.cur
  <2>1. LET q == BecomeTentative(r)
        IN  /\ Guessing(q, scr.size) /\ Keeps(r, q) /\ q.cur = r.cur
            /\ r.epoch <= Ceiling(r) => q.epoch <= Ceiling(q)
    BY <1>3, TentativeIs
  <2>. HIDE DEF BecomeTentative
  <2>. QED
    BY <1>3, <2>1 DEF Keeps
<1>4. Keeps(p, p)
  BY DEF Keeps
<1>5. CASE p.cur[1] >= LastColumn(scr)
  <2>. DEFINE a == BecomeTentative(p)
              b == Place(a, ch, scr)
              c == BecomeTentative(b)
  <2>1. Guessing(a, scr.size) /\ a.epoch <= Ceiling(a) /\ Keeps(p, a)
    BY <1>3, <1>4
  <2>. HIDE DEF a
  <2>2. Guessing(b, scr.size) /\ b.epoch <= Ceiling(b) /\ Keeps(p, b)
    BY <1>2, <2>1
  <2>. HIDE DEF b
  <2>3. Guessing(c, scr.size) /\ c.epoch <= Ceiling(c) /\ Keeps(p, c)
    BY <1>3, <2>2
  <2>. HIDE DEF c
  <2>4. PrintGlyph(p, ch, scr) = Newline(c, scr)
    BY <1>5 DEF PrintGlyph, a, b, c
  <2>5. LET q == Newline(c, scr) IN PredictorInv(q, scr.size) /\ Keeps(c, q)
    BY <2>3, NewlineOK
  <2>. QED
    BY <2>3, <2>4, <2>5 DEF Keeps
<1>. DEFINE next == <<p.cur[1] + 1, p.cur[2]>>
<1>6. CASE ~(p.cur[1] >= LastColumn(scr)) /\ p.over
  <2>. DEFINE m == Place(p, ch, scr)
  <2>1. Guessing(m, scr.size) /\ m.epoch <= Ceiling(m) /\ Keeps(p, m) /\ m.cur = p.cur
    BY <1>2, <1>4
  <2>2. next \in PositionsOf(scr.size)
    BY <1>1, <1>6, RightIsThere DEF LastColumn
  <2>3. PrintGlyph(p, ch, scr) = MoveTo(m, next)
    BY <1>6 DEF PrintGlyph
  <2>. HIDE DEF m, next
  <2>4. LET q == MoveTo(m, next) IN PredictorInv(q, scr.size) /\ Keeps(m, q)
    BY <2>1, <2>2, MoveToOK
  <2>. QED
    BY <2>1, <2>3, <2>4 DEF Keeps
<1>7. CASE ~(p.cur[1] >= LastColumn(scr)) /\ ~p.over
  <2>. DEFINE shifted(pos) ==
                  IF pos = p.cur THEN [ch |-> ch, unknown |-> FALSE]
                  ELSE IF pos[1] = LastColumn(scr) THEN [ch |-> Empty, unknown |-> TRUE]
                  ELSE Seen(p, LeftOf(pos), scr)
              row == [pos \in RowFrom(p.cur, scr) |->
                          Guess(p, pos, shifted(pos).ch, shifted(pos).unknown, scr)]
              m == Overwritten(p, row)
  <2>1. DOMAIN row \subseteq PositionsOf(scr.size)
    BY <1>1, RowIsThere
  <2>2. \A pos \in DOMAIN row : GuessOK(row[pos], Ceiling(p), p.sent)
    <3>. HIDE DEF shifted
    <3>. QED
      BY GuessIsOK
  <2>3. Insert(p, ch, scr) = MoveTo(m, next)
    BY DEF Insert
  <2>. HIDE DEF row
  <2>4. /\ Guessing(m, scr.size) /\ Keeps(p, m)
        /\ m.epoch = p.epoch /\ m.confirmed = p.confirmed
    BY <2>1, <2>2, OverwrittenOK
  <2>5. next \in PositionsOf(scr.size)
    BY <1>1, <1>7, RightIsThere DEF LastColumn
  <2>. HIDE DEF m, next
  <2>6. m.epoch <= Ceiling(m)
    BY <2>4 DEF Ceiling, Keeps
  <2>7. LET q == MoveTo(m, next) IN PredictorInv(q, scr.size) /\ Keeps(m, q)
    BY <2>4, <2>5, <2>6, MoveToOK
  <2>8. PrintGlyph(p, ch, scr) = MoveTo(m, next)
    BY <1>7, <2>3 DEF PrintGlyph
  <2>. QED
    BY <2>4, <2>7, <2>8 DEF Keeps
<1>. QED
  BY <1>5, <1>6, <1>7

\* What one token predicts.
LEMMA PredictOK ==
    ASSUME NEW p, NEW scr, ScreenOK(scr), PredictorInv(p, scr.size), p.epoch <= Ceiling(p), NEW token
    PROVE  LET q == Predict(p, token, scr)
           IN  PredictorInv(q, scr.size) /\ Keeps(p, q)
<1>1. Guessing(p, scr.size) /\ Anchored(p) /\ Keeps(p, p)
  BY DEF PredictorInv, Keeps
<1>2. /\ scr.size \in Sizes /\ p.cur \in PositionsOf(scr.size)
      /\ scr.size[1] \in Nat \ {0} /\ p.cur[1] \in 0 .. scr.size[1] - 1
  BY <1>1, PositionsAre DEF ScreenOK, Guessing
<1>. DEFINE t == BecomeTentative(p)
<1>3. /\ Guessing(t, scr.size) /\ Keeps(p, t) /\ t.epoch <= Ceiling(t)
      /\ t.cells = p.cells /\ t.cursors = p.cursors /\ t.cur = p.cur /\ t.active = p.active
  BY <1>1, TentativeIs
<1>. HIDE DEF t
<1>4. CASE token = "none"
  BY <1>1, <1>4 DEF Predict
<1>5. CASE token = "left"
  <2>. DEFINE next == LeftOf(p.cur)
  <2>1. Predict(p, token, scr) = IF p.cur[1] = 0 THEN p ELSE MoveTo(p, next)
    BY <1>5 DEF Predict, MoveLeft
  <2>2. p.cur[1] # 0 => next \in PositionsOf(scr.size)
    BY <1>2, LeftIsThere
  <2>. HIDE DEF next
  <2>3. next \in PositionsOf(scr.size) => LET q == MoveTo(p, next)
                                          IN PredictorInv(q, scr.size) /\ Keeps(p, q)
    BY <1>1, MoveToOK
  <2>. QED
    BY <1>1, <2>1, <2>2, <2>3
<1>6. CASE token = "right"
  <2>. DEFINE next == <<p.cur[1] + 1, p.cur[2]>>
  <2>1. Predict(p, token, scr) = IF p.cur[1] >= LastColumn(scr) THEN p ELSE MoveTo(p, next)
    BY <1>6 DEF Predict, MoveRight
  <2>2. ~(p.cur[1] >= LastColumn(scr)) => next \in PositionsOf(scr.size)
    BY <1>2, RightIsThere DEF LastColumn
  <2>. HIDE DEF next
  <2>3. next \in PositionsOf(scr.size) => LET q == MoveTo(p, next)
                                          IN PredictorInv(q, scr.size) /\ Keeps(p, q)
    BY <1>1, MoveToOK
  <2>. QED
    BY <1>1, <2>1, <2>2, <2>3
<1>7. CASE token = "cr"
  <2>1. Predict(p, token, scr) = Newline(t, scr)
    BY <1>7 DEF Predict, t
  <2>2. LET q == Newline(t, scr) IN PredictorInv(q, scr.size) /\ Keeps(t, q)
    BY <1>3, NewlineOK
  <2>. QED
    BY <1>3, <2>1, <2>2 DEF Keeps
<1>8. CASE token \in {"ctl", "wide", "sequence"}
  <2>1. Predict(p, token, scr) = t
    BY <1>8 DEF Predict, t
  <2>2. PredictorInv(t, scr.size)
    BY <1>1, <1>3 DEF PredictorInv, Anchored
  <2>. QED
    BY <1>3, <2>1, <2>2
<1>9. CASE token \notin {"none", "left", "right", "cr", "ctl", "wide", "sequence"}
  <2>1. Predict(p, token, scr) = PrintGlyph(p, token, scr)
    BY <1>9 DEF Predict
  <2>. QED
    BY <1>1, <2>1, PrintGlyphOK
<1>. QED
  BY <1>4, <1>5, <1>6, <1>7, <1>8, <1>9

\* One byte of the loop in keystroke.
LEMMA PredictByteOK ==
    ASSUME NEW p, NEW scr, ScreenOK(scr), PredictorInv(p, scr.size), NEW byte
    PROVE  LET q == PredictByte(p, byte, scr)
           IN  PredictorInv(q, scr.size) /\ Keeps(p, q)
<1>. DEFINE r == ReadByte(p.held, byte)
            held == r.held
            a == IF p.pref = "experimental" THEN [p EXCEPT !.epoch = p.confirmed] ELSE p
            b == [a EXCEPT !.held = held]
<1>1. PredictByte(p, byte, scr) = Predict(b, r.token, scr)
  BY DEF PredictByte
<1>. HIDE DEF r, held
<1>2. PredictorFields(p) /\ Guessing(p, scr.size) /\ Anchored(p)
      /\ p.confirmed \in Nat
  BY DEF PredictorInv, Guessing, Numbers
<1>3. /\ PredictorFields(a) /\ Keeps(p, a)
      /\ a.epoch = IF p.pref = "experimental" THEN p.confirmed ELSE p.epoch
      /\ a.cells = p.cells /\ a.cursors = p.cursors /\ a.active = p.active /\ a.cur = p.cur
      /\ a.confirmed = p.confirmed /\ a.glitch = p.glitch
  <2>1. CASE p.pref = "experimental"
    <3>. DEFINE v == p.confirmed
                s == [p EXCEPT !.epoch = v]
    <3>1. a = s
      BY <2>1
    <3>. HIDE DEF v, a
    <3>2. /\ PredictorFields(s) /\ Keeps(p, s) /\ s.epoch = v
          /\ s.cells = p.cells /\ s.cursors = p.cursors /\ s.active = p.active /\ s.cur = p.cur
          /\ s.confirmed = p.confirmed /\ s.glitch = p.glitch
      BY <1>2, WithEpoch
    <3>. HIDE DEF s
    <3>. QED
      BY <2>1, <3>1, <3>2 DEF v
  <2>2. CASE p.pref # "experimental"
    BY <1>2, <2>2 DEF Keeps
  <2>. QED
    BY <2>1, <2>2
<1>. HIDE DEF a
<1>4. /\ PredictorFields(b) /\ Keeps(a, b)
      /\ b.epoch = a.epoch
      /\ b.cells = a.cells /\ b.cursors = a.cursors /\ b.active = a.active /\ b.cur = a.cur
      /\ b.confirmed = a.confirmed /\ b.glitch = a.glitch
  BY <1>3, WithHeld
<1>. HIDE DEF b
<1>5. /\ PredictorFields(b) /\ Keeps(p, b)
      /\ b.epoch = IF p.pref = "experimental" THEN p.confirmed ELSE p.epoch
      /\ b.cells = p.cells /\ b.cursors = p.cursors /\ b.active = p.active /\ b.cur = p.cur
      /\ b.confirmed = p.confirmed /\ b.glitch = p.glitch
  BY <1>3, <1>4 DEF Keeps
<1>6. Ceiling(b) = Ceiling(p) /\ b.epoch <= Ceiling(b)
  <2>1. p.epoch \in Nat
    BY <1>2 DEF Guessing, Numbers
  <2>. QED
    BY <1>2, <1>5, <2>1 DEF Ceiling, Keeps
<1>7. Numbers(b)
  BY <1>2, <1>5 DEF Guessing, Numbers, Keeps
<1>8. PredictorInv(b, scr.size)
  BY <1>2, <1>5, <1>6, <1>7 DEF PredictorInv, Guessing, Anchored, Keeps
<1>9. LET q == Predict(b, r.token, scr) IN PredictorInv(q, scr.size) /\ Keeps(b, q)
  BY <1>6, <1>8, PredictOK
<1>. QED
  BY <1>1, <1>5, <1>9 DEF Keeps

\* All of them.
LEMMA PredictAllOK ==
    ASSUME NEW p, NEW scr, ScreenOK(scr), PredictorInv(p, scr.size), NEW bytes \in Seq(Bytes)
    PROVE  LET q == PredictAll(p, bytes, scr)
           IN  PredictorInv(q, scr.size) /\ Keeps(p, q)
<1>. DEFINE Good(q) == PredictorInv(q, scr.size) /\ Keeps(p, q)
            S == {k \in Nat : \A s \in Seq(Bytes) : Len(s) = k => Good(PredictAll(p, s, scr))}
<1>1. 0 \in S
  <2>1. \A s \in Seq(Bytes) : Len(s) = 0 => s = << >>
    BY EmptySeq
  <2>2. PredictAll(p, << >>, scr) = p
    BY PredictingNothing
  <2>3. Keeps(p, p)
    BY DEF Keeps
  <2>. QED
    BY <2>1, <2>2, <2>3
<1>2. ASSUME NEW k \in Nat, k \in S
      PROVE  k + 1 \in S
  <2>. SUFFICES ASSUME NEW s \in Seq(Bytes), Len(s) = k + 1
                PROVE  Good(PredictAll(p, s, scr))
    OBVIOUS
  <2>. DEFINE f == Front(s)
              e == Last(s)
              r == PredictAll(p, f, scr)
  <2>1. f \in Seq(Bytes) /\ e \in Bytes /\ Len(f) = k /\ s = Append(f, e)
    BY FrontAndLast
  <2>. HIDE DEF f, e
  <2>2. Good(r)
    BY <1>2, <2>1
  <2>3. PredictAll(p, s, scr) = PredictByte(r, e, scr)
    BY <2>1, PredictingUnrolls
  <2>. HIDE DEF r
  <2>4. LET q == PredictByte(r, e, scr) IN PredictorInv(q, scr.size) /\ Keeps(r, q)
    BY <2>2, PredictByteOK
  <2>. QED
    BY <2>2, <2>3, <2>4 DEF Keeps
<1>3. Len(bytes) \in S
  <2>1. Len(bytes) \in Nat
    BY LenProperties
  <2>. HIDE DEF S
  <2>. QED
    BY <1>1, <1>2, <2>1, InductiveSet
<1>. QED
  BY <1>3

-----------------------------------------------------------------------------
(***************************************************************************)
(* Keystrokes.                                                             *)
(***************************************************************************)

\* Waiting for a frame up to the next.
LEMMA WaitOK ==
    ASSUME NEW p, NEW size, PredictorInv(p, size), NEW v \in Nat, v <= p.sent + 1
    PROVE  LET q == [p EXCEPT !.wait = v]
           IN  PredictorInv(q, size) /\ KeepsButWait(p, q) /\ q.wait = v
                 /\ q.cells = p.cells /\ q.active = p.active /\ q.cursors = p.cursors
<1>. DEFINE q == [p EXCEPT !.wait = v]
<1>1. PredictorFields(p)
  BY DEF PredictorInv, Guessing
<1>2. /\ PredictorFields(q) /\ KeepsButWait(p, q) /\ q.wait = v
      /\ q.cells = p.cells /\ q.cursors = p.cursors /\ q.active = p.active /\ q.cur = p.cur
      /\ q.epoch = p.epoch /\ q.confirmed = p.confirmed /\ q.glitch = p.glitch
  BY <1>1 DEF PredictorFields, KeepsButWait
<1>. HIDE DEF q
<1>3. Ceiling(q) = Ceiling(p)
  BY <1>2 DEF Ceiling, KeepsButWait
<1>4. Numbers(q)
  BY <1>2 DEF PredictorInv, Guessing, Numbers, KeepsButWait
<1>5. PredictorInv(q, size)
  BY <1>2, <1>3, <1>4 DEF PredictorInv, Guessing, Anchored, KeepsButWait
<1>. QED
  BY <1>2, <1>5 DEF q

\* keystroke: a pause begins or is extended to the frame sent next, and does
\* not end.
LEMMA KeystrokeOK ==
    ASSUME NEW p, NEW scr, ScreenOK(scr), PredictorInv(p, scr.size), NEW bytes \in Seq(Bytes)
    PROVE  LET q == Keystroke(p, bytes, scr)
           IN  /\ PredictorInv(q, scr.size) /\ KeepsButWait(p, q)
               /\ q.wait \in {p.wait, p.sent + 1}
               /\ p.pref = "never" => q.wait = p.wait
               /\ p.pref # "never" /\ q.wait # 0 /\ bytes # << >> => q.wait = p.sent + 1
<1>. DEFINE q == Keystroke(p, bytes, scr)
            nil == << >>
<1>1. Guessing(p, scr.size) /\ p.sent \in Nat
  BY DEF PredictorInv, Guessing, Numbers
<1>2. PredictorInv(Reset(p), scr.size) /\ Keeps(p, Reset(p))
  BY <1>1, ResetIs
<1>. HIDE DEF nil
<1>3. CASE p.pref = "never"
  <2>1. q = Reset(p)
    BY <1>3 DEF Keystroke
  <2>. HIDE DEF q
  <2>. QED
    BY <1>2, <1>3, <2>1 DEF Keeps, KeepsButWait, q
<1>4. CASE p.pref # "never" /\ p.wait # 0 /\ bytes = << >>
  <2>1. q = p
    BY <1>4 DEF Keystroke
  <2>. HIDE DEF q
  <2>. QED
    BY <1>4, <2>1 DEF KeepsButWait, q
<1>5. CASE p.pref # "never" /\ p.wait # 0 /\ bytes # << >>
  <2>. DEFINE v == p.sent + 1
  <2>1. q = [p EXCEPT !.wait = v]
    BY <1>5 DEF Keystroke, Pause, NextFrame
  <2>2. v \in Nat /\ v <= p.sent + 1
    BY <1>1
  <2>. HIDE DEF v, q
  <2>3. PredictorInv(q, scr.size) /\ KeepsButWait(p, q) /\ q.wait = v
    BY <2>1, <2>2, WaitOK
  <2>. QED
    BY <1>5, <2>3 DEF q, v
<1>6. CASE p.pref # "never" /\ p.wait = 0 /\ Erases(bytes)
  <2>. DEFINE v == p.sent + 1
              r == Reset(p)
  <2>1. q = [r EXCEPT !.wait = v]
    BY <1>6 DEF Keystroke, NextFrame
  <2>2. v \in Nat /\ v <= r.sent + 1
    BY <1>1, <1>2 DEF Keeps
  <2>3. PredictorInv(r, scr.size) /\ Keeps(p, r)
    BY <1>2
  <2>. HIDE DEF v, q, r
  <2>4. PredictorInv(q, scr.size) /\ KeepsButWait(r, q) /\ q.wait = v
    BY <2>1, <2>2, <2>3, WaitOK
  <2>. QED
    BY <1>6, <2>3, <2>4 DEF q, v, Keeps, KeepsButWait
<1>7. CASE p.pref # "never" /\ p.wait = 0 /\ ~Erases(bytes)
  <2>1. PredictorInv(q, scr.size) /\ Keeps(p, q)
    <3>1. CASE Len(p.held) + Len(bytes) > BulkInput
      <4>1. q = Reset(p)
        BY <1>7, <3>1 DEF Keystroke
      <4>. HIDE DEF q
      <4>. QED
        BY <1>2, <4>1
    <3>2. CASE ~(Len(p.held) + Len(bytes) > BulkInput)
      <4>1. q = PredictAll(p, bytes, scr)
        BY <1>7, <3>2 DEF Keystroke, PredictAll
      <4>. HIDE DEF q
      <4>. QED
        BY <4>1, PredictAllOK
    <3>. QED
      BY <3>1, <3>2
  <2>. HIDE DEF q
  <2>. QED
    BY <1>7, <2>1 DEF Keeps, KeepsButWait, q
<1>. QED
  BY <1>3, <1>4, <1>5, <1>6, <1>7

-----------------------------------------------------------------------------
(***************************************************************************)
(* Predictions kept and withdrawn.                                         *)
(***************************************************************************)

\* An element of the set is kept,
LEMMA KeptOneMore ==
    ASSUME NEW T, NEW set, NEW list \in Seq(T), NEW e \in T, NEW kept, Kept(kept, list, set, T), e \in set
    PROVE  Kept(Append(kept, e), Append(list, e), set, T)
<1>. DEFINE k == Append(kept, e)
            l == Append(list, e)
            n == Len(kept)
            m == Len(list)
<1>1. kept \in Seq(T)
  BY DEF Kept
<1>2. /\ n \in Nat /\ k \in Seq(T) /\ Len(k) = n + 1 /\ k[n + 1] = e
      /\ \A i \in 1 .. n : k[i] = kept[i]
  BY <1>1, LenProperties
<1>3. /\ m \in Nat /\ l \in Seq(T) /\ Len(l) = m + 1 /\ l[m + 1] = e
      /\ \A i \in 1 .. m : l[i] = list[i]
  BY LenProperties
<1>4. /\ \A i \in 1 .. n : kept[i] \in set /\ \E a \in 1 .. m : kept[i] = list[a]
      /\ \A i, j \in 1 .. n : i < j =>
            \E a, b \in 1 .. m : a < b /\ kept[i] = list[a] /\ kept[j] = list[b]
  BY DEF Kept
<1>5. k # << >> /\ Last(k) = e /\ Last(l) = e
  BY <1>2, <1>3 DEF Last
<1>. HIDE DEF k, l, n, m
<1>6. /\ \A i \in 1 .. n + 1 : i = n + 1 \/ i \in 1 .. n
      /\ \A a \in 1 .. m : a \in 1 .. m + 1 /\ a < m + 1
      /\ m + 1 \in 1 .. m + 1
  BY <1>2, <1>3
<1>7. ASSUME NEW i \in 1 .. n + 1
      PROVE  k[i] \in set /\ \E a \in 1 .. m + 1 : k[i] = l[a]
  <2>1. CASE i = n + 1
    BY <1>2, <1>3, <1>6, <2>1
  <2>2. CASE i \in 1 .. n
    <3>1. PICK a \in 1 .. m : kept[i] = list[a]
      BY <1>4, <2>2
    <3>2. kept[i] \in set
      BY <1>4, <2>2
    <3>. QED
      BY <1>2, <1>3, <1>6, <2>2, <3>1, <3>2
  <2>. QED
    BY <1>6, <2>1, <2>2
<1>8. ASSUME NEW i \in 1 .. n + 1, NEW j \in 1 .. n + 1, i < j
      PROVE  \E a, b \in 1 .. m + 1 : a < b /\ k[i] = l[a] /\ k[j] = l[b]
  <2>1. i \in 1 .. n
    BY <1>2, <1>8
  <2>2. CASE j = n + 1
    <3>1. PICK a \in 1 .. m : kept[i] = list[a]
      BY <1>4, <2>1
    <3>. QED
      BY <1>2, <1>3, <1>6, <2>1, <2>2, <3>1
  <2>3. CASE j \in 1 .. n
    <3>1. PICK a \in 1 .. m, b \in 1 .. m : a < b /\ kept[i] = list[a] /\ kept[j] = list[b]
      BY <1>4, <1>8, <2>1, <2>3
    <3>. QED
      BY <1>2, <1>3, <1>6, <2>1, <2>3, <3>1
  <2>. QED
    BY <1>6, <2>2, <2>3
<1>9. Kept(k, l, set, T)
  BY <1>2, <1>3, <1>5, <1>7, <1>8 DEF Kept
<1>. QED
  BY <1>9 DEF k, l

\* another is not.
LEMMA KeptWithout ==
    ASSUME NEW T, NEW set, NEW list \in Seq(T), NEW e \in T, NEW kept, Kept(kept, list, set, T), e \notin set
    PROVE  Kept(kept, Append(list, e), set, T)
<1>. DEFINE l == Append(list, e)
            n == Len(kept)
            m == Len(list)
<1>1. kept \in Seq(T)
  BY DEF Kept
<1>2. /\ m \in Nat /\ l \in Seq(T) /\ Len(l) = m + 1 /\ l[m + 1] = e
      /\ \A i \in 1 .. m : l[i] = list[i]
  BY LenProperties
<1>3. /\ \A i \in 1 .. n : kept[i] \in set /\ \E a \in 1 .. m : kept[i] = list[a]
      /\ \A i, j \in 1 .. n : i < j =>
            \E a, b \in 1 .. m : a < b /\ kept[i] = list[a] /\ kept[j] = list[b]
  BY DEF Kept
<1>4. Last(l) = e
  BY <1>2 DEF Last
<1>. HIDE DEF l, m
<1>5. \A a \in 1 .. m : a \in 1 .. m + 1
  BY <1>2
<1>6. \A i \in 1 .. n : kept[i] \in set /\ \E a \in 1 .. m + 1 : kept[i] = l[a]
  <2>. HIDE DEF n
  <2>. QED
    BY <1>2, <1>3, <1>5
<1>7. \A i, j \in 1 .. n : i < j =>
         \E a, b \in 1 .. m + 1 : a < b /\ kept[i] = l[a] /\ kept[j] = l[b]
  <2>. HIDE DEF n
  <2>. QED
    BY <1>2, <1>3, <1>5
<1>8. Kept(kept, l, set, T)
  BY <1>1, <1>2, <1>4, <1>6, <1>7 DEF Kept
<1>. QED
  BY <1>8 DEF l

\* Retain, by induction over the list.
LEMMA RetainIs ==
    ASSUME NEW T, NEW set, NEW list \in Seq(T)
    PROVE  Kept(Retain(list, set), list, set, T)
<1>. DEFINE S == {k \in Nat : \A s \in Seq(T) : Len(s) = k => Kept(RetainAfter(<< >>, s, set), s, set, T)}
<1>1. 0 \in S
  <2>1. \A s \in Seq(T) : Len(s) = 0 => s = << >>
    BY EmptySeq
  <2>2. RetainAfter(<< >>, << >>, set) = << >>
    BY RetainingNothing
  <2>3. Kept(<< >>, << >>, set, T)
    <3>1. << >> \in Seq(T) /\ Len(<< >>) = 0 /\ 1 .. 0 = {}
      OBVIOUS
    <3>. QED
      BY <3>1 DEF Kept
  <2>. QED
    BY <2>1, <2>2, <2>3
<1>2. ASSUME NEW k \in Nat, k \in S
      PROVE  k + 1 \in S
  <2>. SUFFICES ASSUME NEW s \in Seq(T), Len(s) = k + 1
                PROVE  Kept(RetainAfter(<< >>, s, set), s, set, T)
    OBVIOUS
  <2>. DEFINE f == Front(s)
              e == Last(s)
              r == RetainAfter(<< >>, f, set)
  <2>1. f \in Seq(T) /\ e \in T /\ Len(f) = k /\ s = Append(f, e)
    BY FrontAndLast
  <2>. HIDE DEF f, e
  <2>2. Kept(r, f, set, T)
    BY <1>2, <2>1
  <2>3. RetainAfter(<< >>, s, set) = IF e \in set THEN Append(r, e) ELSE r
    BY <2>1, RetainingUnrolls
  <2>. HIDE DEF r
  <2>4. CASE e \in set
    BY <2>1, <2>2, <2>3, <2>4, KeptOneMore
  <2>5. CASE e \notin set
    BY <2>1, <2>2, <2>3, <2>5, KeptWithout
  <2>. QED
    BY <2>4, <2>5
<1>3. Len(list) \in S
  <2>1. Len(list) \in Nat
    BY LenProperties
  <2>. HIDE DEF S
  <2>. QED
    BY <1>1, <1>2, <2>1, InductiveSet
<1>4. Retain(list, set) = RetainAfter(<< >>, list, set)
  BY DEF Retain, RetainAfter
<1>. QED
  BY <1>3, <1>4

\* The cursors kept are still in order.
LEMMA RetainedCursors ==
    ASSUME NEW size, NEW top, NEW sent, NEW cursors, CursorsOK(cursors, size, top, sent), NEW set
    PROVE  LET kept == Retain(cursors, set)
           IN  /\ CursorsOK(kept, size, top, sent)
               /\ \A i \in 1 .. Len(kept) : kept[i] \in set
               /\ cursors # << >> /\ Last(cursors) \in set =>
                     kept # << >> /\ Last(kept) = Last(cursors)
<1>. DEFINE C == [pos : PositionsOf(size), epoch : Nat, exp : Nat]
            kept == Retain(cursors, set)
<1>1. /\ cursors \in Seq(C)
      /\ \A i \in 1 .. Len(cursors) : GuessOK(cursors[i], top, sent)
      /\ \A i, j \in 1 .. Len(cursors) : i < j => cursors[i].exp <= cursors[j].exp
  BY DEF CursorsOK
<1>. HIDE DEF C
<1>2. Kept(kept, cursors, set, C)
  BY <1>1, RetainIs
<1>. HIDE DEF kept
<1>3. kept \in Seq(C)
  BY <1>2 DEF Kept
<1>4. \A i \in 1 .. Len(kept) : kept[i] \in set /\ GuessOK(kept[i], top, sent)
  BY <1>1, <1>2 DEF Kept
<1>5. \A i, j \in 1 .. Len(kept) : i < j => kept[i].exp <= kept[j].exp
  BY <1>1, <1>2 DEF Kept
<1>6. CursorsOK(kept, size, top, sent)
  BY <1>3, <1>4, <1>5 DEF CursorsOK, C
<1>. QED
  BY <1>2, <1>4, <1>6 DEF kept, Kept

\* Predictions dropped from the screen.
LEMMA FewerCells ==
    ASSUME NEW cells, NEW size, NEW top, NEW sent, CellsOK(cells, size, top, sent), NEW keep
    PROVE  CellsOK([pos \in DOMAIN cells \ keep |-> cells[pos]], size, top, sent)
BY DEF CellsOK

\* Predictions withdrawn at some positions.
LEMMA WithoutIs ==
    ASSUME NEW p, NEW size, Guessing(p, size), NEW positions
    PROVE  LET q == Without(p, positions)
           IN  /\ Guessing(q, size) /\ Keeps(p, q)
               /\ q.cells = [pos \in DOMAIN p.cells \ positions |-> p.cells[pos]]
               /\ q.cursors = p.cursors /\ q.active = p.active /\ q.cur = p.cur
               /\ q.epoch = p.epoch /\ q.confirmed = p.confirmed
               /\ q.glitch = p.glitch /\ q.held = p.held
<1>. DEFINE cells == [pos \in DOMAIN p.cells \ positions |-> p.cells[pos]]
            q == [p EXCEPT !.cells = cells]
<1>1. Without(p, positions) = q
  BY DEF Without
<1>2. PredictorFields(p) /\ CellsOK(cells, size, Ceiling(p), p.sent)
  BY FewerCells DEF Guessing
<1>. HIDE DEF cells
<1>3. /\ PredictorFields(q) /\ Keeps(p, q) /\ q.cells = cells
      /\ q.cursors = p.cursors /\ q.active = p.active /\ q.cur = p.cur
      /\ q.epoch = p.epoch /\ q.confirmed = p.confirmed
      /\ q.glitch = p.glitch /\ q.held = p.held
  BY <1>2, WithCells
<1>. HIDE DEF q
<1>4. Ceiling(q) = Ceiling(p)
  BY <1>3 DEF Ceiling, Keeps
<1>5. Numbers(q)
  BY <1>3 DEF Guessing, Numbers, Keeps
<1>6. Guessing(q, size)
  BY <1>2, <1>3, <1>4, <1>5 DEF Guessing, Keeps
<1>. QED
  BY <1>1, <1>3, <1>6 DEF cells

\* clear_cursor_prediction
LEMMA ClearCursorsOK ==
    ASSUME NEW p, NEW scr, ScreenOK(scr), Guessing(p, scr.size)
    PROVE  LET q == ClearCursors(p, scr)
           IN  /\ PredictorInv(q, scr.size) /\ Keeps(p, q)
               /\ q.cells = p.cells /\ q.confirmed = p.confirmed
               /\ q.cursors = << >> /\ q.active = (p.cells # << >>) /\ q.cur = scr.cur
               /\ q.epoch = p.epoch /\ q.held = p.held
<1>. DEFINE nil == << >>
            m == [p EXCEPT !.cursors = nil]
            on == p.cells # << >>
            a == [m EXCEPT !.active = on]
<1>1. ClearCursors(p, scr) = SnapTo(a, scr)
  BY DEF ClearCursors
<1>2. PredictorFields(p) /\ on \in BOOLEAN
  BY DEF Guessing
<1>. HIDE DEF nil, on
<1>3. /\ PredictorFields(m) /\ Keeps(p, m) /\ m.cursors = nil
      /\ m.cells = p.cells /\ m.cur = p.cur /\ m.epoch = p.epoch
      /\ m.confirmed = p.confirmed /\ m.glitch = p.glitch /\ m.held = p.held
  BY <1>2, WithCursors
<1>. HIDE DEF m
<1>4. /\ PredictorFields(a) /\ Keeps(m, a) /\ a.active = on
      /\ a.cells = m.cells /\ a.cursors = m.cursors /\ a.cur = m.cur /\ a.epoch = m.epoch
      /\ a.confirmed = m.confirmed /\ a.glitch = m.glitch /\ a.held = m.held
  BY <1>3, WithActive
<1>. HIDE DEF a
<1>5. /\ PredictorFields(a) /\ Keeps(p, a) /\ a.active = on /\ a.cursors = << >>
      /\ a.cells = p.cells /\ a.cur = p.cur /\ a.epoch = p.epoch
      /\ a.confirmed = p.confirmed /\ a.glitch = p.glitch /\ a.held = p.held
  BY <1>3, <1>4 DEF Keeps, nil
<1>6. Ceiling(a) = Ceiling(p)
  BY <1>5 DEF Ceiling, Keeps
<1>7. Numbers(a)
  BY <1>5 DEF Guessing, Numbers, Keeps
<1>8. CellsOK(a.cells, scr.size, Ceiling(a), a.sent) /\ CursorsOK(a.cursors, scr.size, Ceiling(a), a.sent)
  BY <1>5, <1>6, NoGuesses DEF Guessing, Keeps
<1>9. Guessing(a, scr.size)
  BY <1>2, <1>5, <1>7, <1>8 DEF Guessing, Keeps
<1>10. a.cells = << >> \/ a.active
  BY <1>5 DEF on
<1>11. PredictorInv(SnapTo(a, scr), scr.size)
  BY <1>5, <1>9, <1>10, SnapOK
<1>12. LET q == SnapTo(a, scr)
       IN  /\ Keeps(a, q) /\ q.cells = a.cells /\ q.confirmed = a.confirmed
           /\ q.cursors = a.cursors /\ q.active = a.active /\ q.cur = scr.cur
           /\ q.epoch = a.epoch /\ q.held = a.held
  BY <1>5, SnapIs
<1>. QED
  BY <1>1, <1>5, <1>11, <1>12 DEF Keeps, on

\* Wherever the host's cursor is, the predictor that was reset follows it.
LEMMA ResetSnapOK ==
    ASSUME NEW p, NEW old, NEW scr, ScreenOK(scr), Guessing(p, old)
    PROVE  LET q == SnapTo(Reset(p), scr)
           IN  /\ PredictorInv(q, scr.size) /\ Keeps(p, q)
               /\ q.cells = << >> /\ q.confirmed = p.confirmed
<1>. DEFINE r == Reset(p)
            nil == << >>
<1>1. /\ PredictorInv(r, old) /\ Keeps(p, r) /\ r.cells = nil /\ r.cursors = nil
      /\ r.confirmed = p.confirmed
  BY ResetIs
<1>. HIDE DEF r, nil
<1>2. Guessing(r, old) /\ PredictorFields(r)
  BY <1>1 DEF PredictorInv, Guessing
<1>3. PredictorInv(SnapTo(r, scr), scr.size)
  BY <1>1, <1>2, SnapOK DEF nil
<1>4. LET q == SnapTo(r, scr) IN Keeps(r, q) /\ q.cells = r.cells /\ q.confirmed = r.confirmed
  BY <1>2, SnapIs
<1>. QED
  BY <1>1, <1>3, <1>4 DEF r, nil, Keeps

\* cull_cursor_predictions.  Either the cursor predicted last is wrong, or it
\* is kept, or every cursor is judged: they wait in order.
LEMMA CullCursorsOK ==
    ASSUME NEW p, NEW scr, ScreenOK(scr), Guessing(p, scr.size),
           p.cursors # << >> => Last(p.cursors).pos = p.cur,
           p.cursors = << >> /\ p.cells # << >> => p.active
    PROVE  LET q == CullCursors(p, scr)
           IN  /\ PredictorInv(q, scr.size) /\ Keeps(p, q)
               /\ q.cells \in {p.cells, << >>} /\ q.confirmed = p.confirmed
<1>. DEFINE q == CullCursors(p, scr)
            wrong == p.cursors # << >> /\ IsDue(p, Last(p.cursors))
                       /\ Last(p.cursors).pos # scr.cur
            due == {c \in ToSet(p.cursors) : ~IsDue(p, c)}
            waiting == Retain(p.cursors, due)
<1>1. q = IF wrong THEN IF p.pref = "experimental" THEN ClearCursors(p, scr)
                        ELSE SnapTo(Reset(p), scr)
          ELSE IF waiting = << >> /\ p.cells = << >> THEN ClearCursors(p, scr)
          ELSE [p EXCEPT !.cursors = waiting, !.active = TRUE]
  BY DEF CullCursors
<1>2. LET c == ClearCursors(p, scr)
      IN  PredictorInv(c, scr.size) /\ Keeps(p, c) /\ c.cells = p.cells /\ c.confirmed = p.confirmed
  BY ClearCursorsOK
<1>3. LET c == SnapTo(Reset(p), scr)
      IN  PredictorInv(c, scr.size) /\ Keeps(p, c) /\ c.cells = << >> /\ c.confirmed = p.confirmed
  BY ResetSnapOK
<1>4. CASE wrong \/ (waiting = << >> /\ p.cells = << >>)
  <2>1. q \in {ClearCursors(p, scr), SnapTo(Reset(p), scr)}
    BY <1>1, <1>4
  <2>. HIDE DEF q
  <2>. QED
    BY <1>2, <1>3, <2>1 DEF q
<1>5. CASE ~wrong /\ ~(waiting = << >> /\ p.cells = << >>)
  <2>. DEFINE yes == TRUE
              m == [p EXCEPT !.cursors = waiting]
              a == [m EXCEPT !.active = yes]
  <2>1. q = a
    BY <1>1, <1>5
  <2>2. PredictorFields(p) /\ p.cur \in PositionsOf(scr.size)
        /\ CursorsOK(p.cursors, scr.size, Ceiling(p), p.sent)
    BY DEF Guessing
  <2>3. CursorsOK(waiting, scr.size, Ceiling(p), p.sent)
        /\ (p.cursors # << >> /\ Last(p.cursors) \in due =>
              waiting # << >> /\ Last(waiting) = Last(p.cursors))
        /\ \A i \in 1 .. Len(waiting) : waiting[i] \in due
    <3>. HIDE DEF due
    <3>. QED
      BY <2>2, RetainedCursors
  <2>4. waiting # << >> => Last(waiting).pos = p.cur
    <3>. SUFFICES ASSUME waiting # << >> PROVE Last(waiting).pos = p.cur
      OBVIOUS
    <3>. DEFINE n == Len(p.cursors)
                C == [pos : PositionsOf(scr.size), epoch : Nat, exp : Nat]
    <3>1. /\ p.cursors \in Seq(C) /\ waiting \in Seq(C)
          /\ \A i, j \in 1 .. n : i < j => p.cursors[i].exp <= p.cursors[j].exp
          /\ \A i \in 1 .. n : p.cursors[i].exp \in Nat
      BY <2>2, <2>3 DEF CursorsOK, GuessOK
    <3>. HIDE DEF C
    <3>2. Len(waiting) \in Nat /\ Len(waiting) # 0
      BY <3>1, EmptySeq, LenProperties
    <3>3. waiting[1] \in due
      BY <2>3, <3>2
    <3>. HIDE DEF waiting
    <3>4. PICK k \in DOMAIN p.cursors : waiting[1] = p.cursors[k] /\ ~IsDue(p, p.cursors[k])
      BY <3>3 DEF ToSet
    <3>5. DOMAIN p.cursors = 1 .. n /\ n \in Nat /\ k \in 1 .. n
      BY <3>1, <3>4, LenProperties
    <3>. HIDE DEF n
    <3>6. p.cursors # << >> /\ Last(p.cursors) = p.cursors[n] /\ n \in 1 .. n
      BY <3>1, <3>5, EmptySeq DEF Last, n
    <3>7. p.cursors[k].exp <= p.cursors[n].exp
      <4>1. CASE k = n
        <5>1. p.cursors[n].exp \in Nat
          BY <3>1, <3>5, <3>6
        <5>. QED
          BY <4>1, <5>1
      <4>2. CASE k # n
        <5>1. k < n
          BY <3>5, <4>2
        <5>. QED
          BY <3>1, <3>5, <3>6, <5>1
      <4>. QED
        BY <4>1, <4>2
    <3>8. ~IsDue(p, p.cursors[n])
      <4>1. p.late \in Nat
        BY DEF Guessing, Numbers
      <4>. QED
        BY <3>1, <3>4, <3>5, <3>6, <3>7, <4>1 DEF IsDue
    <3>9. Last(p.cursors) \in due
      BY <3>5, <3>6, <3>8 DEF ToSet
    <3>. QED
      BY <2>3, <3>6, <3>9
  <2>. HIDE DEF waiting, yes
  <2>5. /\ PredictorFields(m) /\ Keeps(p, m) /\ m.cursors = waiting
        /\ m.cells = p.cells /\ m.cur = p.cur /\ m.epoch = p.epoch
        /\ m.confirmed = p.confirmed /\ m.glitch = p.glitch
    BY <2>2, WithCursors
  <2>. HIDE DEF m
  <2>6. /\ PredictorFields(a) /\ Keeps(m, a) /\ a.active = yes
        /\ a.cells = m.cells /\ a.cursors = m.cursors /\ a.cur = m.cur /\ a.epoch = m.epoch
        /\ a.confirmed = m.confirmed /\ a.glitch = m.glitch
    BY ZenonT(30), <2>5, WithActive
  <2>. HIDE DEF a
  <2>7. /\ PredictorFields(a) /\ Keeps(p, a) /\ a.active = TRUE /\ a.cursors = waiting
        /\ a.cells = p.cells /\ a.cur = p.cur /\ a.epoch = p.epoch
        /\ a.confirmed = p.confirmed /\ a.glitch = p.glitch
    BY <2>5, <2>6 DEF Keeps, yes
  <2>8. Ceiling(a) = Ceiling(p)
    BY <2>7 DEF Ceiling, Keeps
  <2>9. Numbers(a)
    BY <2>7 DEF Guessing, Numbers, Keeps
  <2>10. Guessing(a, scr.size)
    BY <2>3, <2>7, <2>8, <2>9 DEF Guessing, Keeps
  <2>11. Anchored(a)
    BY <2>4, <2>7 DEF Anchored
  <2>. HIDE DEF q
  <2>. QED
    BY <2>1, <2>7, <2>10, <2>11 DEF PredictorInv, q
<1>. QED
  BY <1>4, <1>5

\* kill_epoch: what is left and the host's cursor, predicted for the next
\* frame, before the new epoch begins.
LEMMA KillEpochOK ==
    ASSUME NEW p, NEW scr, ScreenOK(scr), Guessing(p, scr.size), p.pref # "experimental", NEW epoch
    PROVE  LET q == KillEpoch(p, epoch, scr)
           IN  /\ PredictorInv(q, scr.size) /\ Keeps(p, q) /\ q.confirmed = p.confirmed
               /\ DOMAIN q.cells = {pos \in DOMAIN p.cells : ~(p.cells[pos].epoch >= epoch)}
<1>. DEFINE doomed == {pos \in DOMAIN p.cells : p.cells[pos].epoch >= epoch}
            older == {c \in ToSet(p.cursors) : c.epoch < epoch}
            kept == Retain(p.cursors, older)
            at == scr.cur
            anchor == [pos |-> at, epoch |-> p.epoch, exp |-> NextFrame(p)]
            w == Without(p, doomed)
            cursors == Append(kept, anchor)
            yes == TRUE
            m == [w EXCEPT !.cursors = cursors]
            a == [m EXCEPT !.active = yes]
            s == SnapTo(a, scr)
<1>1. KillEpoch(p, epoch, scr) = BecomeTentative(s)
  BY DEF KillEpoch
<1>2. /\ PredictorFields(p) /\ CursorsOK(p.cursors, scr.size, Ceiling(p), p.sent)
      /\ p.epoch \in Nat /\ p.sent \in Nat /\ at \in PositionsOf(scr.size)
  BY DEF Guessing, Numbers, ScreenOK
<1>3. /\ Guessing(w, scr.size) /\ Keeps(p, w) /\ w.cursors = p.cursors /\ w.active = p.active
      /\ w.cur = p.cur /\ w.epoch = p.epoch /\ w.confirmed = p.confirmed /\ w.glitch = p.glitch
      /\ DOMAIN w.cells = DOMAIN p.cells \ doomed
  <2>. HIDE DEF doomed
  <2>1. /\ Guessing(w, scr.size) /\ Keeps(p, w) /\ w.cursors = p.cursors /\ w.active = p.active
        /\ w.cur = p.cur /\ w.epoch = p.epoch /\ w.confirmed = p.confirmed /\ w.glitch = p.glitch
        /\ w.cells = [pos \in DOMAIN p.cells \ doomed |-> p.cells[pos]]
    BY WithoutIs
  <2>. HIDE DEF w
  <2>. QED
    BY <2>1
<1>. HIDE DEF w
<1>16. DOMAIN w.cells = {pos \in DOMAIN p.cells : ~(p.cells[pos].epoch >= epoch)}
  BY <1>3
<1>. HIDE DEF doomed
<1>4. CursorsOK(kept, scr.size, Ceiling(p), p.sent)
  <2>. HIDE DEF older
  <2>. QED
    BY <1>2, RetainedCursors
<1>. HIDE DEF kept
<1>5. /\ CursorsOK(cursors, scr.size, Ceiling(p), p.sent)
      /\ cursors # << >> /\ Last(cursors).pos = at
  <2>. DEFINE top == Ceiling(p)
              sent == p.sent
              ep == p.epoch
              exp == p.sent + 1
              size == scr.size
  <2>1. ep \in Nat /\ ep <= top /\ exp = sent + 1 /\ sent \in Nat
        /\ anchor = [pos |-> at, epoch |-> ep, exp |-> exp]
    BY <1>2 DEF Ceiling, NextFrame
  <2>2. CursorsOK(kept, size, top, sent) /\ at \in PositionsOf(size)
    BY <1>2, <1>4
  <2>3. anchor.pos = at
    OBVIOUS
  <2>. HIDE DEF top, sent, ep, exp, size, at, anchor
  <2>4. /\ CursorsOK(Append(kept, anchor), size, top, sent)
        /\ Append(kept, anchor) # << >> /\ Last(Append(kept, anchor)) = anchor
    BY <2>1, <2>2, CursorAppended
  <2>. QED
    BY <2>3, <2>4 DEF top, sent, size
<1>. HIDE DEF cursors, yes, at
<1>6. PredictorFields(w)
  BY <1>3 DEF Guessing
<1>7. /\ PredictorFields(m) /\ Keeps(w, m) /\ m.cursors = cursors
      /\ m.cells = w.cells /\ m.active = w.active /\ m.cur = w.cur /\ m.epoch = w.epoch
      /\ m.confirmed = w.confirmed /\ m.glitch = w.glitch
  BY <1>6, WithCursors
<1>. HIDE DEF m
<1>8. /\ PredictorFields(a) /\ Keeps(m, a) /\ a.active = yes
      /\ a.cells = m.cells /\ a.cursors = m.cursors /\ a.cur = m.cur /\ a.epoch = m.epoch
      /\ a.confirmed = m.confirmed /\ a.glitch = m.glitch
  BY <1>7, WithActive
<1>. HIDE DEF a
<1>9. /\ PredictorFields(s) /\ Keeps(a, s) /\ s.cur = scr.cur
      /\ s.cells = a.cells /\ s.cursors = a.cursors /\ s.active = a.active
      /\ s.epoch = a.epoch /\ s.confirmed = a.confirmed /\ s.glitch = a.glitch
  BY <1>8, SnapIs
<1>. HIDE DEF s
<1>10. /\ PredictorFields(s) /\ Keeps(w, s) /\ s.cur = at
       /\ s.cells = w.cells /\ s.cursors = cursors /\ s.active = TRUE
       /\ s.epoch = w.epoch /\ s.confirmed = w.confirmed /\ s.glitch = w.glitch
  BY <1>7, <1>8, <1>9 DEF Keeps, yes, at
<1>11. Ceiling(s) = Ceiling(w) /\ Ceiling(w) = Ceiling(p) /\ s.sent = p.sent
  BY <1>3, <1>10 DEF Ceiling, Keeps
<1>12. Numbers(s)
  BY <1>3, <1>10 DEF Guessing, Numbers, Keeps
<1>13. Guessing(s, scr.size)
  BY <1>2, <1>3, <1>5, <1>10, <1>11, <1>12 DEF Guessing, Keeps
<1>14. LET q == BecomeTentative(s)
       IN  /\ Guessing(q, scr.size) /\ Keeps(s, q) /\ q.cells = s.cells /\ q.cursors = s.cursors
           /\ q.cur = s.cur /\ q.active = s.active /\ q.confirmed = s.confirmed
  BY <1>13, TentativeIs
<1>. DEFINE q == BecomeTentative(s)
<1>. HIDE DEF q
<1>15. PredictorInv(q, scr.size)
  BY <1>5, <1>10, <1>14 DEF PredictorInv, Anchored, q
<1>. QED
  BY <1>1, <1>3, <1>10, <1>14, <1>15, <1>16 DEF Keeps, q

\* A bounded set of naturals that is not empty has a greatest member.
LEMMA GreatestOf ==
    ASSUME NEW N \in SUBSET Nat, N # {}, NEW bound \in Nat, \A n \in N : n <= bound
    PROVE  Max(N) \in N /\ \A n \in N : n <= Max(N)
<1>. DEFINE Gaps == {bound - n : n \in N}
<1>1. Gaps \in SUBSET Nat /\ Gaps # {}
  <2>1. \A n \in N : bound - n \in Nat
    OBVIOUS
  <2>2. Gaps # {}
    OBVIOUS
  <2>3. Gaps \in SUBSET Nat
    BY <2>1
  <2>. QED
    BY <2>2, <2>3
<1>. HIDE DEF Gaps
<1>2. PICK g \in Gaps : \A h \in Gaps : g <= h
  BY <1>1, LeastOf
<1>3. PICK x \in N : g = bound - x
  BY <1>2 DEF Gaps
<1>4. \A n \in N : x >= n
  <2>. SUFFICES ASSUME NEW n \in N PROVE n <= x
    OBVIOUS
  <2>1. g <= bound - n
    BY <1>2 DEF Gaps
  <2>. QED
    BY <2>1, <1>3
<1>5. Max(N) \in N /\ \A n \in N : Max(N) >= n
  BY <1>3, <1>4 DEF Max
<1>. QED
  BY <1>5

\* The epoch confirmed after credit was given.
LEMMA ConfirmedIs ==
    ASSUME NEW p, NEW size \in Sizes, Guessing(p, size), NEW credited, credited \subseteq DOMAIN p.cells
    PROVE  LET c == Max({p.confirmed} \cup {p.cells[pos].epoch : pos \in credited})
           IN  Credible(p, c) /\ (credited = {} => c = p.confirmed)
<1>. DEFINE s == {p.confirmed} \cup {p.cells[pos].epoch : pos \in credited}
            c == Max(s)
<1>1. /\ p.confirmed \in Nat /\ p.epoch \in Nat /\ p.confirmed <= p.epoch
      /\ DOMAIN p.cells \subseteq PositionsOf(size)
      /\ \A pos \in DOMAIN p.cells : p.cells[pos].epoch \in Nat /\ p.cells[pos].epoch <= Ceiling(p)
      /\ Ceiling(p) = IF p.pref = "experimental" THEN p.confirmed ELSE p.epoch
  BY DEF Guessing, Numbers, CellsOK, GuessOK, Ceiling
<1>5. \A v \in s : v \in Nat /\ v <= Ceiling(p) /\ Ceiling(p) <= p.epoch
  BY <1>1
<1>6. p.confirmed \in s
  OBVIOUS
<1>10. credited = {} => c = p.confirmed
  <2>. SUFFICES ASSUME credited = {} PROVE c = p.confirmed
    OBVIOUS
  <2>1. s = {p.confirmed}
    OBVIOUS
  <2>2. Max({p.confirmed}) = p.confirmed
    BY <1>1 DEF Max
  <2>. QED
    BY <2>1, <2>2
<1>. HIDE DEF s
<1>7. c \in s /\ \A v \in s : v <= c
  <2>1. s \in SUBSET Nat /\ s # {} /\ \A v \in s : v <= p.epoch
    BY <1>1, <1>5, <1>6
  <2>. QED
    BY <1>1, <2>1, GreatestOf DEF c
<1>. HIDE DEF c
<1>8. c \in Nat /\ p.confirmed <= c /\ c <= Ceiling(p)
  BY <1>5, <1>6, <1>7
<1>9. c <= p.epoch /\ (p.pref = "experimental" => c = p.confirmed)
  BY <1>1, <1>5, <1>7, <1>8
<1>. QED
  BY <1>8, <1>9, <1>10 DEF Credible, c, s

\* Of the fields confirmed and glitch.
LEMMA WithConfirmed ==
    ASSUME NEW p, NEW v, PredictorFields(p)
    PROVE  LET q == [p EXCEPT !.confirmed = v]
           IN  /\ PredictorFields(q) /\ Keeps(p, q) /\ q.confirmed = v
               /\ q.cells = p.cells /\ q.cursors = p.cursors /\ q.cur = p.cur
               /\ q.epoch = p.epoch /\ q.active = p.active
               /\ q.glitch = p.glitch /\ q.held = p.held
BY DEF PredictorFields, Keeps

\* Another count of late predictions.
LEMMA WithGlitch ==
    ASSUME NEW p, NEW v, PredictorFields(p)
    PROVE  LET q == [p EXCEPT !.glitch = v]
           IN  /\ PredictorFields(q) /\ Keeps(p, q) /\ q.glitch = v
               /\ q.cells = p.cells /\ q.cursors = p.cursors /\ q.cur = p.cur
               /\ q.epoch = p.epoch /\ q.active = p.active
               /\ q.confirmed = p.confirmed /\ q.held = p.held
BY DEF PredictorFields, Keeps

\* The predictions due and judged: what ConfirmCells takes from the screen,
\* and the epoch its credit confirms.
LEMMA JudgedOK ==
    ASSUME NEW p, NEW size \in Sizes, Guessing(p, size), NEW judged,
           NEW c, Credible(p, c)
    PROVE  LET q == Judged(p, judged, c)
           IN  /\ Guessing(q, size) /\ Keeps(p, q) /\ q.confirmed = c
               /\ q.cells = CellsLeft(p, judged)
               /\ q.cursors = p.cursors /\ q.active = p.active /\ q.cur = p.cur
               /\ q.glitch = p.glitch /\ q.epoch = p.epoch /\ q.held = p.held
<1>. DEFINE w == Without(p, judged)
            q == [w EXCEPT !.confirmed = c]
            cells == [pos \in DOMAIN p.cells \ judged |-> p.cells[pos]]
<1>3. /\ Guessing(w, size) /\ Keeps(p, w) /\ w.cells = cells
      /\ w.cursors = p.cursors /\ w.active = p.active /\ w.cur = p.cur
      /\ w.epoch = p.epoch /\ w.confirmed = p.confirmed /\ w.glitch = p.glitch
      /\ w.held = p.held
  BY WithoutIs
<1>. HIDE DEF cells
<1>. HIDE DEF w
<1>4. PredictorFields(w)
  BY <1>3 DEF Guessing
<1>5. /\ PredictorFields(q) /\ Keeps(w, q) /\ q.confirmed = c
      /\ q.cells = w.cells /\ q.cursors = w.cursors /\ q.active = w.active /\ q.cur = w.cur
      /\ q.epoch = w.epoch /\ q.glitch = w.glitch /\ q.held = w.held
  BY <1>4, WithConfirmed
<1>. HIDE DEF q
<1>6. Ceiling(q) = Ceiling(w)
  BY <1>3, <1>5 DEF Ceiling, Keeps, Credible
<1>7. Numbers(q)
  BY <1>3, <1>5 DEF Credible, Guessing, Numbers, Keeps
<1>8. Guessing(q, size)
  BY <1>3, <1>5, <1>6, <1>7 DEF Guessing, Keeps
<1>. QED
  BY <1>3, <1>5, <1>8 DEF Keeps, Judged, CellsLeft, w, q, cells

\* A function without a domain is the empty sequence.
LEMMA NoCells ==
    ASSUME NEW cells, NEW size, NEW top, NEW sent, CellsOK(cells, size, top, sent), DOMAIN cells = {}
    PROVE  cells = << >>
<1>1. cells = [pos \in {} |-> cells[pos]]
  BY DEF CellsOK
<1>2. << >> = [pos \in {} |-> cells[pos]]
  OBVIOUS
<1>. QED
  BY <1>1, <1>2

\* confirm_cells: whatever it judges, the predictions left are in order.
LEMMA ConfirmCellsOK ==
    ASSUME NEW p, NEW scr, ScreenOK(scr), PredictorInv(p, scr.size), p.active, p.cells # << >>, NEW repaired
    PROVE  LET q == ConfirmCells(p, scr, repaired)
           IN  PredictorInv(q, scr.size) /\ Keeps(p, q) /\ SamePredictions(p, q)
<1>. DEFINE due       == DueCells(p)
            wrong     == {pos \in due : /\ ~p.cells[pos].unknown
                                        /\ p.cells[pos].ch \notin {Empty, scr.cell[pos]}}
            first     == {pos \in wrong : \A v \in wrong : ~Precedes(v, pos)}
            judged    == IF p.pref = "experimental" THEN due
                         ELSE {pos \in due : \A v \in first : Precedes(pos, v)}
            credited  == {pos \in judged \ wrong : HasCredit(p, pos, scr)}
            confirmed == Max({p.confirmed} \cup {p.cells[pos].epoch : pos \in credited})
            q         == [Without(p, judged) EXCEPT !.confirmed = confirmed]
            glitch    == IF repaired /\ credited # {} /\ q.glitch > 0
                         THEN q.glitch - 1 ELSE q.glitch
            g         == [q EXCEPT !.glitch = glitch]
            at        == CHOOSE pos \in first : TRUE
            epoch     == p.cells[at].epoch
            result    == ConfirmCells(p, scr, repaired)
<1>1. result = IF p.pref # "experimental" /\ first # {}
               THEN IF epoch > confirmed THEN KillEpoch(q, epoch, scr) ELSE SnapTo(Reset(q), scr)
               ELSE CullCursors(g, scr)
  BY DEF ConfirmCells
<1>. HIDE DEF result
<1>2. /\ due \subseteq DOMAIN p.cells /\ first \subseteq due /\ judged \subseteq due
      /\ credited \subseteq judged
  BY DEF DueCells
<1>3. first # {} => at \in first
  <2>. HIDE DEF first
  <2>. QED
    OBVIOUS
<1>4. p.pref # "experimental" /\ first # {} => at \notin judged
  <2>. SUFFICES ASSUME p.pref # "experimental", first # {} PROVE at \notin judged
    OBVIOUS
  <2>1. \A pos \in judged : Precedes(pos, at)
    <3>1. \A pos \in judged : \A v \in first : Precedes(pos, v)
      <4>. HIDE DEF first, due
      <4>. QED
        OBVIOUS
    <3>. HIDE DEF judged, first, at
    <3>. QED
      BY <1>3, <3>1
  <2>2. at \in wrong /\ \A v \in wrong : ~Precedes(v, at)
    <3>. HIDE DEF wrong, at
    <3>. QED
      BY <1>3
  <2>. HIDE DEF judged, at, wrong
  <2>. QED
    BY <2>1, <2>2
<1>. HIDE DEF wrong, judged, first, credited, due, at
<1>5. scr.size \in Sizes /\ Guessing(p, scr.size) /\ Anchored(p)
  BY DEF ScreenOK, PredictorInv
<1>11. Credible(p, confirmed) /\ (credited = {} => confirmed = p.confirmed)
  <2>1. credited \subseteq DOMAIN p.cells
    BY <1>2
  <2>. QED
    BY <1>5, <2>1, ConfirmedIs
<1>. HIDE DEF confirmed
<1>6. /\ Guessing(q, scr.size) /\ Keeps(p, q) /\ q.confirmed = confirmed
      /\ q.cells = [pos \in DOMAIN p.cells \ judged |-> p.cells[pos]]
      /\ q.cursors = p.cursors /\ q.active = p.active /\ q.cur = p.cur
      /\ q.glitch = p.glitch
  <2>. DEFINE size == scr.size
  <2>1. size \in Sizes /\ Guessing(p, size) /\ Credible(p, confirmed)
    BY <1>5, <1>11
  <2>. DEFINE r == Judged(p, judged, confirmed)
  <2>2. q = r
    BY DEF Judged
  <2>. HIDE DEF size, q
  <2>3. /\ Guessing(r, size) /\ Keeps(p, r) /\ r.confirmed = confirmed
        /\ r.cells = CellsLeft(p, judged)
        /\ r.cursors = p.cursors /\ r.active = p.active /\ r.cur = p.cur
        /\ r.glitch = p.glitch
    <3>1. Guessing(r, size) /\ Keeps(p, r)
      BY <2>1, JudgedOK
    <3>2. r.confirmed = confirmed /\ r.cells = CellsLeft(p, judged)
      BY <2>1, JudgedOK
    <3>3. r.cursors = p.cursors
      BY <2>1, JudgedOK
    <3>4. r.cur = p.cur /\ r.glitch = p.glitch
      BY <2>1, JudgedOK
    <3>5. r.active = p.active
      BY <2>1, JudgedOK
    <3>. HIDE DEF r
    <3>. QED
      BY <3>1, <3>2, <3>3, <3>4, <3>5
  <2>. HIDE DEF r
  <2>. QED
    BY <2>2, <2>3 DEF size, CellsLeft
<1>. HIDE DEF q
<1>7. CASE p.pref # "experimental" /\ first # {} /\ epoch > confirmed
  <2>1. result = KillEpoch(q, epoch, scr)
    BY <1>1, <1>7
  <2>2. q.pref # "experimental"
    BY <1>6, <1>7 DEF Keeps
  <2>. DEFINE r == KillEpoch(q, epoch, scr)
  <2>3. at \in DOMAIN q.cells /\ q.cells[at] = p.cells[at] /\ at \in DOMAIN p.cells
    BY <1>2, <1>3, <1>4, <1>6, <1>7
  <2>4. epoch >= epoch
    BY <1>2, <1>3, <1>5, <1>7 DEF Guessing, CellsOK, GuessOK
  <2>. HIDE DEF epoch
  <2>5. /\ PredictorInv(r, scr.size) /\ Keeps(q, r)
        /\ DOMAIN r.cells = {pos \in DOMAIN q.cells : ~(q.cells[pos].epoch >= epoch)}
    BY <1>6, <2>2, KillEpochOK
  <2>. HIDE DEF r
  <2>6. at \notin DOMAIN r.cells
    BY <2>3, <2>4, <2>5 DEF epoch
  <2>. QED
    BY <1>6, <2>1, <2>3, <2>5, <2>6 DEF Keeps, SamePredictions, r, result
<1>8. CASE p.pref # "experimental" /\ first # {} /\ ~(epoch > confirmed)
  <2>1. result = SnapTo(Reset(q), scr)
    BY <1>1, <1>8
  <2>. DEFINE r == SnapTo(Reset(q), scr)
              nil == << >>
  <2>. HIDE DEF nil
  <2>2. PredictorInv(r, scr.size) /\ Keeps(q, r) /\ r.cells = nil
    BY <1>6, ResetSnapOK DEF nil
  <2>. HIDE DEF r
  <2>3. DOMAIN r.cells # DOMAIN p.cells
    <3>1. DOMAIN r.cells = {}
      BY <2>2 DEF nil
    <3>3. DOMAIN p.cells # {}
      BY <1>5, NoCells DEF Guessing
    <3>. QED
      BY <3>1, <3>3
  <2>. QED
    BY <1>6, <2>1, <2>2, <2>3 DEF Keeps, SamePredictions, r, result
<1>9. CASE ~(p.pref # "experimental" /\ first # {})
  <2>1. result = CullCursors(g, scr)
    BY <1>1, <1>9
  <2>2. PredictorFields(q) /\ q.glitch \in 0 .. 2 * GlitchRepairs
    BY <1>6 DEF Guessing, Numbers
  <2>3. glitch \in 0 .. 2 * GlitchRepairs
    <3>2. GlitchRepairs \in Nat
      BY PredictorAssumption
    <3>1. 2 * GlitchRepairs \in Nat
      BY <3>2
    <3>. HIDE DEF credited
    <3>. QED
      BY <2>2, <3>1
  <2>. HIDE DEF glitch
  <2>4. /\ PredictorFields(g) /\ Keeps(q, g) /\ g.glitch = glitch
        /\ g.cells = q.cells /\ g.cursors = q.cursors /\ g.active = q.active /\ g.cur = q.cur
        /\ g.epoch = q.epoch /\ g.confirmed = q.confirmed
    BY <2>2, WithGlitch
  <2>. HIDE DEF g
  <2>5. Ceiling(g) = Ceiling(q)
    BY <2>4 DEF Ceiling, Keeps
  <2>6. Numbers(g)
    BY <1>6, <2>3, <2>4 DEF Guessing, Numbers, Keeps
  <2>7. Guessing(g, scr.size)
    BY <1>6, <2>4, <2>5, <2>6 DEF Guessing, Keeps
  <2>8. /\ g.cursors # << >> => Last(g.cursors).pos = g.cur
        /\ g.cursors = << >> /\ g.cells # << >> => g.active
    BY <1>5, <1>6, <2>4 DEF Anchored
  <2>. DEFINE r == CullCursors(g, scr)
              nil == << >>
  <2>. HIDE DEF nil
  <2>9. /\ PredictorInv(r, scr.size) /\ Keeps(g, r)
        /\ r.cells \in {g.cells, nil} /\ r.confirmed = g.confirmed
    BY <2>7, <2>8, CullCursorsOK DEF nil
  <2>. HIDE DEF r
  <2>10. SamePredictions(p, r)
    <3>. SUFFICES ASSUME DOMAIN r.cells = DOMAIN p.cells
                  PROVE  r.cells = p.cells /\ r.confirmed = p.confirmed
      BY DEF SamePredictions
    <3>1. p.cells = [pos \in DOMAIN p.cells |-> p.cells[pos]]
      BY <1>5 DEF Guessing, CellsOK
    <3>2. DOMAIN p.cells # {}
      BY <1>5, NoCells DEF Guessing
    <3>3. r.cells # nil
      BY <3>2 DEF nil
    <3>4. r.cells = [pos \in DOMAIN p.cells \ judged |-> p.cells[pos]]
      BY <1>6, <2>4, <2>9, <3>3
    <3>5. judged = {}
      <4>1. DOMAIN p.cells \ judged = DOMAIN p.cells
        BY <3>4
      <4>. QED
        BY <1>2, <4>1
    <3>. QED
      BY <1>2, <1>6, <1>11, <2>4, <2>9, <3>1, <3>4, <3>5
  <2>. QED
    BY <1>6, <2>1, <2>4, <2>9, <2>10 DEF Keeps, SamePredictions, r, result
<1>. QED
  BY <1>7, <1>8, <1>9

\* confirm
LEMMA ConfirmOK ==
    ASSUME NEW p, NEW scr, ScreenOK(scr), PredictorInv(p, scr.size), NEW repaired
    PROVE  LET q == Confirm(p, scr, repaired)
           IN  PredictorInv(q, scr.size) /\ Keeps(p, q) /\ SamePredictions(p, q)
<1>. DEFINE q == Confirm(p, scr, repaired)
            nil == << >>
<1>1. Guessing(p, scr.size) /\ Anchored(p)
  BY DEF PredictorInv
<1>. HIDE DEF nil
<1>2. CASE p.cells = << >>
  <2>. DEFINE r == CullCursors(p, scr)
  <2>1. q = r
    BY <1>2 DEF Confirm
  <2>2. /\ p.cursors # << >> => Last(p.cursors).pos = p.cur
        /\ p.cursors = << >> /\ p.cells # << >> => p.active
    BY <1>1 DEF Anchored
  <2>3. /\ PredictorInv(r, scr.size) /\ Keeps(p, r)
        /\ r.cells \in {p.cells, nil} /\ r.confirmed = p.confirmed
    BY <1>1, <2>2, CullCursorsOK DEF nil
  <2>. HIDE DEF r, q
  <2>. QED
    BY <1>2, <2>1, <2>3 DEF SamePredictions, q, nil
<1>3. CASE p.cells # << >>
  <2>1. p.active
    BY <1>1, <1>3 DEF Anchored
  <2>. DEFINE r == ConfirmCells(p, scr, repaired)
  <2>2. q = r
    BY <1>3, <2>1 DEF Confirm
  <2>3. PredictorInv(r, scr.size) /\ Keeps(p, r) /\ SamePredictions(p, r)
    BY <1>3, <2>1, ConfirmCellsOK
  <2>. HIDE DEF r, q
  <2>. QED
    BY <2>2, <2>3 DEF q
<1>. QED
  BY <1>2, <1>3

-----------------------------------------------------------------------------
(***************************************************************************)
(* Showing, and the frames acknowledged.                                   *)
(***************************************************************************)

\* The same predictions, shown otherwise.
LEMMA ShownAs ==
    ASSUME NEW p, NEW size, PredictorInv(p, size),
           NEW active \in BOOLEAN, NEW show \in BOOLEAN, NEW flagging \in BOOLEAN,
           NEW glitch \in 0 .. 2 * GlitchRepairs,
           p.cells # << >> \/ p.cursors # << >> => active,
           NEW q, q = [pref |-> p.pref, over |-> p.over, cells |-> p.cells, cursors |-> p.cursors,
                       cur |-> p.cur, epoch |-> p.epoch, confirmed |-> p.confirmed,
                       active |-> active, show |-> show, flagging |-> flagging,
                       glitch |-> glitch, held |-> p.held,
                       sent |-> p.sent, late |-> p.late, wait |-> p.wait]
    PROVE  /\ PredictorInv(q, size) /\ SameGuesses(p, q)
           /\ q.active = active /\ q.show = show /\ q.flagging = flagging
<1>1. Guessing(p, size) /\ Anchored(p)
  BY DEF PredictorInv
<1>2. PredictorFields(q) /\ SameGuesses(p, q) /\ q.active = active /\ q.show = show
      /\ q.flagging = flagging /\ q.glitch = glitch
  BY DEF PredictorFields, SameGuesses
<1>3. Ceiling(q) = Ceiling(p)
  BY <1>2 DEF Ceiling, SameGuesses
<1>4. Numbers(q)
  BY <1>1, <1>2 DEF Guessing, Numbers, SameGuesses
<1>5. Guessing(q, size)
  BY <1>1, <1>2, <1>3, <1>4 DEF Guessing, SameGuesses
<1>6. Anchored(q)
  BY <1>1, <1>2 DEF Anchored, SameGuesses
<1>. QED
  BY <1>2, <1>5, <1>6 DEF PredictorInv

\* sample_pending_age
LEMMA SampleAgeOK ==
    ASSUME NEW p, NEW size, PredictorInv(p, size), NEW age
    PROVE  LET q == SampleAge(p, age)
           IN  /\ PredictorInv(q, size) /\ SameGuesses(p, q) /\ q.active = p.active
               /\ p.cells = << >> => q = p
<1>. DEFINE q == SampleAge(p, age)
            yes == TRUE
            double == 2 * GlitchRepairs
            active == p.active
            show == p.show
            flagging == p.flagging
            glitch == p.glitch
<1>1. PredictorFields(p) /\ Anchored(p) /\ active \in BOOLEAN /\ flagging \in BOOLEAN /\ show \in BOOLEAN
      /\ glitch \in 0 .. 2 * GlitchRepairs
      /\ (p.cells # << >> \/ p.cursors # << >> => active)
  BY DEF PredictorInv, Guessing, Numbers, Anchored
<1>2. double \in 0 .. 2 * GlitchRepairs /\ GlitchRepairs \in 0 .. 2 * GlitchRepairs /\ yes \in BOOLEAN
  <2>1. GlitchRepairs \in Nat
    BY PredictorAssumption
  <2>. QED
    BY <2>1
<1>3. q \in {p, [p EXCEPT !.glitch = double, !.show = yes, !.flagging = yes],
             [p EXCEPT !.glitch = GlitchRepairs, !.show = yes]}
      /\ (p.cells = << >> => q = p)
  BY DEF SampleAge
<1>. HIDE DEF q, yes, double, active, show, flagging, glitch
<1>4. CASE q = p
  BY <1>4 DEF SameGuesses, q
<1>5. CASE q = [p EXCEPT !.glitch = double, !.show = yes, !.flagging = yes]
  <2>1. q = [pref |-> p.pref, over |-> p.over, cells |-> p.cells, cursors |-> p.cursors,
             cur |-> p.cur, epoch |-> p.epoch, confirmed |-> p.confirmed,
             active |-> active, show |-> yes, flagging |-> yes,
             glitch |-> double, held |-> p.held,
             sent |-> p.sent, late |-> p.late, wait |-> p.wait]
    BY <1>1, <1>5 DEF PredictorFields, active
  <2>2. PredictorInv(q, size) /\ SameGuesses(p, q) /\ q.active = active
    BY <1>1, <1>2, <2>1, ShownAs
  <2>. QED
    BY <1>3, <2>2 DEF q, active
<1>6. CASE q = [p EXCEPT !.glitch = GlitchRepairs, !.show = yes]
  <2>1. q = [pref |-> p.pref, over |-> p.over, cells |-> p.cells, cursors |-> p.cursors,
             cur |-> p.cur, epoch |-> p.epoch, confirmed |-> p.confirmed,
             active |-> active, show |-> yes, flagging |-> flagging,
             glitch |-> GlitchRepairs, held |-> p.held,
             sent |-> p.sent, late |-> p.late, wait |-> p.wait]
    BY <1>1, <1>6 DEF PredictorFields, active, flagging
  <2>2. PredictorInv(q, size) /\ SameGuesses(p, q) /\ q.active = active
    BY <1>1, <1>2, <2>1, ShownAs
  <2>. QED
    BY <1>3, <2>2 DEF q, active
<1>. QED
  BY <1>3, <1>4, <1>5, <1>6

\* set_srtt: only an idle predictor is demoted.
LEMMA SetSrttOK ==
    ASSUME NEW p, NEW size, PredictorInv(p, size), NEW srtt
    PROVE  LET q == SetSrtt(p, srtt)
           IN  /\ PredictorInv(q, size) /\ SameGuesses(p, q)
               /\ p.cells # << >> => q.active = p.active
               /\ q.active => p.active
<1>. DEFINE q == SetSrtt(p, srtt)
            no == FALSE
            idle    == p.cells = << >> /\ p.cursors = << >>
            demoted == p.pref = "adaptive" /\ srtt <= 20 /\ idle
            shown   == p.pref # "adaptive" \/ srtt > 30 \/ (p.show /\ ~demoted)
            flagged == srtt > 80 \/ (p.flagging /\ srtt > 50)
            show    == shown \/ p.glitch > 0
            active  == p.active /\ ~demoted
            flagging == flagged \/ p.glitch > GlitchRepairs
            glitch  == p.glitch
            was     == p.active
<1>1. PredictorFields(p) /\ glitch \in 0 .. 2 * GlitchRepairs /\ was \in BOOLEAN
      /\ (p.cells # << >> \/ p.cursors # << >> => was)
  BY DEF PredictorInv, Guessing, Numbers, Anchored
<1>2. show \in BOOLEAN /\ active \in BOOLEAN /\ flagging \in BOOLEAN /\ no \in BOOLEAN
  OBVIOUS
<1>3. /\ p.cells # << >> \/ p.cursors # << >> => active
      /\ p.cells # << >> => active = was
      /\ active => was
  BY <1>1
<1>4. q = IF p.pref = "never" THEN [p EXCEPT !.show = no, !.flagging = no]
          ELSE [p EXCEPT !.show = show, !.active = active, !.flagging = flagging]
  BY DEF SetSrtt
<1>. HIDE DEF q, show, active, flagging, no, was, glitch
<1>5. CASE p.pref = "never"
  <2>1. q = [pref |-> p.pref, over |-> p.over, cells |-> p.cells, cursors |-> p.cursors,
             cur |-> p.cur, epoch |-> p.epoch, confirmed |-> p.confirmed,
             active |-> was, show |-> no, flagging |-> no,
             glitch |-> glitch, held |-> p.held,
             sent |-> p.sent, late |-> p.late, wait |-> p.wait]
    BY <1>1, <1>4, <1>5 DEF PredictorFields, was, glitch
  <2>2. PredictorInv(q, size) /\ SameGuesses(p, q) /\ q.active = was
    BY <1>1, <1>2, <2>1, ShownAs
  <2>. QED
    BY <2>2 DEF q, was
<1>6. CASE p.pref # "never"
  <2>1. q = [pref |-> p.pref, over |-> p.over, cells |-> p.cells, cursors |-> p.cursors,
             cur |-> p.cur, epoch |-> p.epoch, confirmed |-> p.confirmed,
             active |-> active, show |-> show, flagging |-> flagging,
             glitch |-> glitch, held |-> p.held,
             sent |-> p.sent, late |-> p.late, wait |-> p.wait]
    BY <1>1, <1>4, <1>6 DEF PredictorFields, glitch
  <2>2. PredictorInv(q, size) /\ SameGuesses(p, q) /\ q.active = active
    BY <1>1, <1>2, <1>3, <2>1, ShownAs
  <2>. QED
    BY <1>3, <2>2 DEF q, was
<1>. QED
  BY <1>5, <1>6

\* set_watermarks: frames that never run backwards.
LEMMA SetWatermarksOK ==
    ASSUME NEW p, NEW size, PredictorInv(p, size), NEW sent \in Nat, NEW late \in Nat, late <= sent
    PROVE  LET q == SetWatermarks(p, sent, late)
           IN  /\ PredictorInv(q, size) /\ SameButFrames(p, q)
               /\ q.sent = Larger(p.sent, sent) /\ q.late = Larger(p.late, late) /\ q.wait = p.wait
<1>. DEFINE s == Larger(p.sent, sent)
            l == Larger(p.late, late)
            q == [p EXCEPT !.sent = s, !.late = l]
<1>1. Guessing(p, size) /\ Anchored(p) /\ PredictorFields(p) /\ p.sent \in Nat /\ p.late \in Nat
      /\ p.late <= p.sent /\ p.wait \in Nat /\ p.wait <= p.sent + 1
  BY DEF PredictorInv, Guessing, Numbers
<1>2. s \in Nat /\ l \in Nat /\ l <= s /\ p.sent <= s
  BY <1>1 DEF Larger
<1>3. SetWatermarks(p, sent, late) = q
  BY DEF SetWatermarks
<1>. HIDE DEF s, l
<1>4. /\ PredictorFields(q) /\ SameButFrames(p, q) /\ q.sent = s /\ q.late = l /\ q.wait = p.wait
      /\ q.glitch = p.glitch
  <2>1. PredictorFields(p)
    BY <1>1
  <2>2. q = [pref |-> p.pref, over |-> p.over, cells |-> p.cells, cursors |-> p.cursors,
             cur |-> p.cur, epoch |-> p.epoch, confirmed |-> p.confirmed, active |-> p.active,
             show |-> p.show, flagging |-> p.flagging, glitch |-> p.glitch, held |-> p.held,
             sent |-> s, late |-> l, wait |-> p.wait]
    <3>. DEFINE m == [p EXCEPT !.sent = s]
    <3>1. q = [m EXCEPT !.late = l]
      OBVIOUS
    <3>2. m = [pref |-> p.pref, over |-> p.over, cells |-> p.cells, cursors |-> p.cursors,
               cur |-> p.cur, epoch |-> p.epoch, confirmed |-> p.confirmed, active |-> p.active,
               show |-> p.show, flagging |-> p.flagging, glitch |-> p.glitch, held |-> p.held,
               sent |-> s, late |-> p.late, wait |-> p.wait]
      BY <2>1 DEF PredictorFields
    <3>. HIDE DEF q, m
    <3>. QED
      BY <3>1, <3>2
  <2>. HIDE DEF q
  <2>. QED
    BY <2>2 DEF PredictorFields, SameButFrames
<1>. HIDE DEF q
<1>5. Ceiling(q) = Ceiling(p)
  BY <1>4 DEF Ceiling, SameButFrames
<1>6. Numbers(q)
  BY <1>1, <1>2, <1>4 DEF Guessing, Numbers, SameButFrames
<1>7. CellsOK(p.cells, size, Ceiling(p), s) /\ CursorsOK(p.cursors, size, Ceiling(p), s)
  <2>. DEFINE top == Ceiling(p)
              sent0 == p.sent
  <2>1. top \in Nat /\ top <= top /\ sent0 \in Nat /\ sent0 <= s
        /\ CellsOK(p.cells, size, top, sent0) /\ CursorsOK(p.cursors, size, top, sent0)
    BY <1>1, <1>2 DEF Ceiling, Guessing, Numbers
  <2>. HIDE DEF top, sent0
  <2>2. CellsOK(p.cells, size, top, s) /\ CursorsOK(p.cursors, size, top, s)
    BY <1>2, <2>1, BoundsGrow
  <2>. QED
    BY <2>2 DEF top
<1>8. Guessing(q, size)
  BY <1>1, <1>4, <1>5, <1>6, <1>7 DEF Guessing, SameButFrames
<1>9. Anchored(q)
  BY <1>1, <1>4 DEF Anchored, SameButFrames
<1>. QED
  BY <1>3, <1>4, <1>8, <1>9 DEF PredictorInv, s, l

\* observe_late_ack: a pause ends with its frame acknowledged.
LEMMA ObserveLateAckOK ==
    ASSUME NEW p, NEW size, PredictorInv(p, size), NEW updated
    PROVE  LET q == ObserveLateAck(p, updated)
           IN  /\ PredictorInv(q, size) /\ SameButFrames(p, q) /\ q.sent = p.sent /\ q.late = p.late
               /\ q.wait = p.wait \/ (q.wait = 0 /\ p.late >= p.wait)
<1>. DEFINE q == ObserveLateAck(p, updated)
            none == 0
<1>1. Guessing(p, size) /\ Anchored(p) /\ PredictorFields(p)
  BY DEF PredictorInv, Guessing
<1>2. q = p \/ (q = [p EXCEPT !.wait = none] /\ p.late >= p.wait)
  BY DEF ObserveLateAck
<1>3. none \in Nat
  OBVIOUS
<1>. HIDE DEF q, none
<1>4. CASE q = p
  BY <1>4 DEF SameButFrames, q
<1>5. CASE q = [p EXCEPT !.wait = none] /\ p.late >= p.wait
  <2>1. /\ PredictorFields(q) /\ SameButFrames(p, q) /\ q.sent = p.sent /\ q.late = p.late
        /\ q.wait = none /\ q.glitch = p.glitch
    BY <1>1, <1>5 DEF PredictorFields, SameButFrames
  <2>2. Ceiling(q) = Ceiling(p)
    BY <2>1 DEF Ceiling, SameButFrames
  <2>3. Numbers(q)
    BY <1>1, <2>1 DEF Guessing, Numbers, SameButFrames, none
  <2>4. Guessing(q, size)
    BY <1>1, <2>1, <2>2, <2>3 DEF Guessing, SameButFrames
  <2>5. Anchored(q)
    BY <1>1, <2>1 DEF Anchored, SameButFrames
  <2>. QED
    BY <1>5, <2>1, <2>4, <2>5 DEF PredictorInv, q, none
<1>. QED
  BY <1>2, <1>4, <1>5

-----------------------------------------------------------------------------
(***************************************************************************)
(* The pipeline.                                                           *)
(***************************************************************************)

\* The cells composed are those below with the notice over them.
LEMMA ComposedIs ==
    ASSUME NEW v
    PROVE  /\ Composed(v).cell = NoticeOver(BaseCells(v), v.notice)
           /\ Composed(v).size = v.host.size
<1>. DEFINE base == IF v.pr.show THEN Overlay(v.pr, v.host) ELSE Bare(v.host)
            noticed == [base EXCEPT
                          !.cell = [pos \in DOMAIN @ |-> IF pos[2] = 0 THEN HostCell(v.notice) ELSE @[pos]],
                          !.cur  = IF @[2] = 0 THEN Hidden ELSE @]
<1>1. Composed(v) = IF v.notice = NoNotice THEN base ELSE noticed
  BY DEF Composed, WithNotice
<1>2. base = [size |-> base.size, cell |-> base.cell, cur |-> base.cur]
  BY DEF Overlay, Bare
<1>3. base.size = v.host.size /\ base.cell = BaseCells(v)
  BY DEF Overlay, Bare, BaseCells
<1>. HIDE DEF base
<1>4. noticed.size = base.size
      /\ noticed.cell = [pos \in DOMAIN base.cell |->
                           IF pos[2] = 0 THEN HostCell(v.notice) ELSE base.cell[pos]]
  BY <1>2
<1>. HIDE DEF noticed
<1>. QED
  BY <1>1, <1>3, <1>4 DEF NoticeOver

\* Something is shown.
LEMMA ComposedIsShown ==
    ASSUME NEW v, ScreenOK(v.host)
    PROVE  Composed(v) # NotShown /\ Bare(v.host) # NotShown
<1>1. v.host.size \in Sizes
  BY DEF ScreenOK
<1>2. v.host.size # <<0, 0>>
  BY <1>1, PositionsAre
<1>3. NotShown.size = <<0, 0>>
  BY DEF NotShown
<1>4. Composed(v).size = v.host.size
  BY ComposedIs
<1>5. Bare(v.host).size = v.host.size
  BY DEF Bare
<1>. QED
  BY <1>2, <1>3, <1>4, <1>5

\* They depend on nothing else.
LEMMA SameCells ==
    ASSUME NEW v, NEW w, w.host = v.host, w.notice = v.notice, SameShown(v.pr, w.pr)
    PROVE  Composed(w).cell = Composed(v).cell
<1>1. BaseCells(w) = BaseCells(v)
  <2>1. CASE v.pr.show
    <3>. DEFINE p == v.pr
                q == w.pr
                scr == v.host
    <3>1. /\ q.cells = p.cells /\ q.confirmed = p.confirmed
          /\ q.active = p.active /\ q.flagging = p.flagging /\ q.show = p.show
      BY <2>1 DEF SameShown
    <3>. HIDE DEF p, q, scr
    <3>2. \A pos \in DOMAIN p.cells : Shows(q, q.cells[pos]) = Shows(p, p.cells[pos])
      BY <3>1 DEF Shows
    <3>3. \A pos : OverlayCell(q, pos, scr) = OverlayCell(p, pos, scr)
      BY <3>1 DEF OverlayCell
    <3>4. {pos \in DOMAIN q.cells : q.active /\ Shows(q, q.cells[pos])}
          = {pos \in DOMAIN p.cells : p.active /\ Shows(p, p.cells[pos])}
      BY <3>1, <3>2
    <3>5. Overlay(q, scr).cell = Overlay(p, scr).cell
      BY <3>3, <3>4 DEF Overlay
    <3>6. BaseCells(v) = Overlay(p, scr).cell /\ BaseCells(w) = Overlay(q, scr).cell
      BY <2>1, <3>1 DEF BaseCells, p, q, scr
    <3>. QED
      BY <3>5, <3>6
  <2>2. CASE ~v.pr.show
    BY <2>2 DEF SameShown, BaseCells
  <2>. QED
    BY <2>1, <2>2
<1>. QED
  BY <1>1, ComposedIs

\* Without predictions the host's cells are shown.
LEMMA BareCells ==
    ASSUME NEW v, ~v.pr.show \/ v.pr.cells = << >>
    PROVE  /\ Composed(v).cell = NoticeOver(Bare(v.host).cell, v.notice)
           /\ v.notice = NoNotice => Composed(v).cell = Bare(v.host).cell
<1>1. BaseCells(v) = Bare(v.host).cell
  <2>1. CASE ~v.pr.show
    BY <2>1 DEF BaseCells
  <2>2. CASE v.pr.show
    <3>. DEFINE p == v.pr
                scr == v.host
                visible == {pos \in DOMAIN p.cells : p.active /\ Shows(p, p.cells[pos])}
    <3>1. visible = {}
      <4>1. p.cells = << >>
        BY <2>2
      <4>2. DOMAIN p.cells = {}
        BY <4>1
      <4>. QED
        BY <4>2
    <3>2. Overlay(p, scr).cell = [pos \in DOMAIN scr.cell |->
                                    IF pos \in visible THEN OverlayCell(p, pos, scr)
                                    ELSE HostCell(scr.cell[pos])]
      BY DEF Overlay
    <3>. HIDE DEF visible, p, scr
    <3>3. Overlay(p, scr).cell = [pos \in DOMAIN scr.cell |-> HostCell(scr.cell[pos])]
      BY <3>1, <3>2
    <3>. QED
      BY <2>2, <3>3 DEF BaseCells, Bare, p, scr
  <2>. QED
    BY <2>1, <2>2
<1>. QED
  BY <1>1, ComposedIs DEF NoticeOver

\* A pipeline of its parts.
LEMMA PipeOf ==
    ASSUME NEW host, NEW shown, NEW pr, NEW overlay, NEW notice, NEW updated,
           NEW v, v = [host |-> host, shown |-> shown, pr |-> pr, overlay |-> overlay,
                       notice |-> notice, updated |-> updated]
    PROVE  /\ PipeFields(v) /\ v.host = host /\ v.shown = shown /\ v.pr = pr
           /\ v.overlay = overlay /\ v.notice = notice /\ v.updated = updated
BY DEF PipeFields

\* render_overlay_path, in either overlay mode.
LEMMA RenderOK ==
    ASSUME NEW v, Sized(v), v.pr.show => v.overlay
    PROVE  PipeInv(Render(v)) /\ SameButPaint(v, Render(v)) /\ Render(v).overlay = v.overlay
<1>. DEFINE c == Composed(v)
            w == Render(v)
<1>1. w = [host |-> v.host, shown |-> c, pr |-> v.pr, overlay |-> v.overlay,
           notice |-> v.notice, updated |-> v.updated]
  BY DEF Render, Sized, PipeFields
<1>. HIDE DEF c, w
<1>2. /\ PipeFields(w) /\ w.host = v.host /\ w.shown = c /\ w.pr = v.pr
      /\ w.overlay = v.overlay /\ w.notice = v.notice /\ w.updated = v.updated
  BY <1>1, PipeOf
<1>3. c # NotShown
  BY ComposedIsShown DEF c, Sized
<1>4. Composed(w).cell = c.cell
  BY <1>2, SameCells DEF SameShown, c
<1>. QED
  BY <1>2, <1>3, <1>4 DEF PipeInv, Sized, Current, SameButPaint, w

\* It may leave the overlay path as it is or take it.
LEMMA RenderOverlayOK ==
    ASSUME NEW v, Sized(v)
    PROVE  PipeInv(RenderOverlay(v)) /\ SameButPaint(v, RenderOverlay(v))
<1>. DEFINE yes == TRUE
            o == [v EXCEPT !.overlay = yes]
<1>1. RenderOverlay(v) = Render(o)
  BY DEF RenderOverlay
<1>. HIDE DEF yes
<1>2. o = [host |-> v.host, shown |-> v.shown, pr |-> v.pr, overlay |-> yes,
           notice |-> v.notice, updated |-> v.updated]
  BY DEF Sized, PipeFields
<1>. HIDE DEF o
<1>3. /\ PipeFields(o) /\ o.host = v.host /\ o.pr = v.pr
      /\ o.overlay = yes /\ o.notice = v.notice /\ o.updated = v.updated
  BY <1>2, PipeOf
<1>4. Sized(o) /\ (o.pr.show => o.overlay)
  BY <1>3 DEF Sized, yes
<1>5. PipeInv(Render(o)) /\ SameButPaint(o, Render(o))
  BY <1>4, RenderOK
<1>. QED
  BY <1>1, <1>3, <1>5 DEF SameButPaint

\* render_host_only
LEMMA RenderHostOK ==
    ASSUME NEW v, Sized(v), ~v.pr.show, v.notice = NoNotice
    PROVE  PipeInv(RenderHost(v)) /\ SameButPaint(v, RenderHost(v))
<1>. DEFINE c == Bare(v.host)
            no == FALSE
            w == RenderHost(v)
<1>1. w = [host |-> v.host, shown |-> c, pr |-> v.pr, overlay |-> no,
           notice |-> v.notice, updated |-> v.updated]
  <2>1. w = [v EXCEPT !.overlay = no, !.shown = c]
    BY DEF RenderHost
  <2>. HIDE DEF c, w, no
  <2>. QED
    BY <2>1 DEF Sized, PipeFields
<1>. HIDE DEF c, w, no
<1>2. /\ PipeFields(w) /\ w.host = v.host /\ w.shown = c /\ w.pr = v.pr
      /\ w.notice = v.notice /\ w.updated = v.updated
  BY <1>1, PipeOf
<1>3. c # NotShown
  BY ComposedIsShown DEF c, Sized
<1>4. Composed(w).cell = c.cell
  BY <1>2, BareCells DEF c
<1>. QED
  BY <1>2, <1>3, <1>4 DEF PipeInv, Sized, Current, SameButPaint, w

\* A new predictor for the pipeline, another screen or notice.
LEMMA WithPr ==
    ASSUME NEW v, NEW pr, PipeFields(v)
    PROVE  LET w == [v EXCEPT !.pr = pr]
           IN  /\ PipeFields(w) /\ w.pr = pr /\ w.host = v.host /\ w.shown = v.shown
               /\ w.overlay = v.overlay /\ w.notice = v.notice /\ w.updated = v.updated
BY DEF PipeFields

\* Predictions that show the same cells on the same screen.
LEMMA SameCellsOK ==
    ASSUME NEW v, PipeInv(v), NEW w, PipeFields(w), w.host = v.host, w.notice = v.notice,
           w.shown = v.shown, w.overlay = v.overlay, PredictorInv(w.pr, v.host.size),
           SameShown(v.pr, w.pr) \/ (w.pr.show = v.pr.show /\ v.pr.cells = << >> /\ w.pr.cells = << >>)
    PROVE  PipeInv(w)
<1>1. Composed(w).cell = Composed(v).cell
  <2>1. CASE SameShown(v.pr, w.pr)
    BY <2>1, SameCells
  <2>2. CASE v.pr.cells = << >> /\ w.pr.cells = << >>
    BY <2>2, BareCells
  <2>. QED
    BY <2>1, <2>2
<1>2. Sized(w)
  BY DEF PipeInv, Sized
<1>3. w.pr.show = v.pr.show
  BY DEF SameShown
<1>. QED
  BY <1>1, <1>2, <1>3 DEF PipeInv, Current

\* set_notification
LEMMA SetNotificationOK ==
    ASSUME NEW v, PipeInv(v), NEW notice
    PROVE  LET w == SetNotification(v, notice)
           IN  PipeInv(w) /\ w.pr = v.pr /\ w.host = v.host /\ w.notice = notice
<1>. DEFINE w == SetNotification(v, notice)
            n == [v EXCEPT !.notice = notice]
<1>1. PipeFields(v)
  BY DEF PipeInv, Sized
<1>2. n = [host |-> v.host, shown |-> v.shown, pr |-> v.pr, overlay |-> v.overlay,
           notice |-> notice, updated |-> v.updated]
  BY <1>1 DEF PipeFields
<1>3. w = IF v.notice = notice THEN v
          ELSE IF notice # NoNotice \/ v.pr.show THEN RenderOverlay(n)
          ELSE RenderHost(n)
  BY DEF SetNotification
<1>. HIDE DEF n, w
<1>4. PipeFields(n) /\ n.host = v.host /\ n.pr = v.pr /\ n.notice = notice
  BY <1>2, PipeOf
<1>5. Sized(n)
  BY <1>4 DEF PipeInv, Sized
<1>6. PipeInv(RenderOverlay(n)) /\ SameButPaint(n, RenderOverlay(n))
  BY <1>5, RenderOverlayOK
<1>7. notice = NoNotice /\ ~v.pr.show => PipeInv(RenderHost(n)) /\ SameButPaint(n, RenderHost(n))
  BY <1>4, <1>5, RenderHostOK
<1>. QED
  BY <1>3, <1>4, <1>6, <1>7 DEF SameButPaint, w

\* set_frames
LEMMA SetFramesOK ==
    ASSUME NEW v, PipeInv(v), NEW sent \in Nat, NEW late \in Nat, late <= sent, NEW repaired, NEW age
    PROVE  LET w == SetFrames(v, sent, late, repaired, age)
           IN  /\ PipeInv(w) /\ w.host = v.host /\ w.notice = v.notice
               /\ FramesSeen(v.pr, w.pr, sent, late)
               /\ w.pr = Rejudged(v, sent, late, repaired, age)
<1>. DEFINE w == SetFrames(v, sent, late, repaired, age)
            no == FALSE
            size == v.host.size
            p == v.pr
            m == SetWatermarks(p, sent, late)
            a == ObserveLateAck(m, v.updated)
            o == [v EXCEPT !.updated = no, !.pr = a]
            c == Confirm(a, v.host, repaired)
            s == SampleAge(c, age)
            j == [o EXCEPT !.pr = s]
            changed == \/ DOMAIN s.cells # DOMAIN p.cells
                       \/ s.active # p.active \/ s.cur # p.cur
                       \/ s.show # p.show \/ s.flagging # p.flagging
<1>1. PipeFields(v) /\ ScreenOK(v.host) /\ PredictorInv(p, size)
  BY DEF PipeInv, Sized
<1>2. /\ PredictorInv(m, size) /\ SameButFrames(p, m)
      /\ m.sent = Larger(p.sent, sent) /\ m.late = Larger(p.late, late) /\ m.wait = p.wait
  <2>. HIDE DEF size, p
  <2>. QED
    BY <1>1, SetWatermarksOK
<1>3. /\ PredictorInv(a, size) /\ SameButFrames(m, a) /\ a.sent = m.sent /\ a.late = m.late
      /\ a.wait = m.wait \/ (a.wait = 0 /\ m.late >= m.wait)
  <2>. HIDE DEF m
  <2>. QED
    BY <1>2, ObserveLateAckOK
<1>4. PredictorInv(c, size) /\ Keeps(a, c) /\ SamePredictions(a, c)
  <2>. HIDE DEF a
  <2>. QED
    BY <1>1, <1>3, ConfirmOK
<1>5. PredictorInv(s, size) /\ SameGuesses(c, s) /\ s.active = c.active
  <2>. HIDE DEF c
  <2>. QED
    BY <1>4, SampleAgeOK
<1>6. o = [host |-> v.host, shown |-> v.shown, pr |-> a, overlay |-> v.overlay,
           notice |-> v.notice, updated |-> no]
  <2>. DEFINE u == [v EXCEPT !.updated = no]
  <2>. HIDE DEF no, a
  <2>1. o = [u EXCEPT !.pr = a]
    OBVIOUS
  <2>2. u = [host |-> v.host, shown |-> v.shown, pr |-> v.pr, overlay |-> v.overlay,
             notice |-> v.notice, updated |-> no]
    BY <1>1 DEF PipeFields
  <2>. HIDE DEF o, u
  <2>. QED
    BY <2>1, <2>2
<1>7. PipeFields(o) /\ o.pr = a /\ o.host = v.host /\ o.shown = v.shown
      /\ o.overlay = v.overlay /\ o.notice = v.notice
  <2>. HIDE DEF no, a, o
  <2>. QED
    BY <1>6, PipeOf
<1>8. PipeFields(j) /\ j.pr = s /\ j.host = v.host /\ j.shown = v.shown
      /\ j.overlay = v.overlay /\ j.notice = v.notice
  <2>1. LET r == [o EXCEPT !.pr = s]
        IN  PipeFields(r) /\ r.pr = s /\ r.host = o.host /\ r.shown = o.shown
            /\ r.overlay = o.overlay /\ r.notice = o.notice
    <3>. HIDE DEF o, s
    <3>. QED
      BY <1>7, WithPr
  <2>. HIDE DEF j, o, s
  <2>. QED
    BY <1>7, <2>1 DEF j
<1>9. w = IF p.cells = << >> /\ ~p.active THEN o
          ELSE IF ~changed THEN j
          ELSE IF s.show \/ j.notice # NoNotice THEN RenderOverlay(j)
          ELSE IF j.overlay THEN RenderHost(j)
          ELSE j
  <2>1. o.pr = a /\ j.pr = s
    BY <1>7, <1>8
  <2>. QED
    BY <2>1 DEF SetFrames
<1>18. Rejudged(v, sent, late, repaired, age) = IF p.cells = << >> /\ ~p.active THEN a ELSE s
  BY DEF Rejudged, Informed
<1>. DEFINE e == Rejudged(v, sent, late, repaired, age)
<1>. HIDE DEF w, m, a, o, c, s, j, no, e
<1>10. FramesSeen(p, a, sent, late) /\ SameButFrames(p, a)
  BY <1>2, <1>3 DEF FramesSeen, SameButFrames
<1>11. FramesSeen(p, s, sent, late)
  BY <1>4, <1>5, <1>10 DEF FramesSeen, Keeps, SameGuesses
<1>12. Sized(j)
  BY <1>1, <1>5, <1>8 DEF Sized
<1>13. PipeInv(RenderOverlay(j)) /\ SameButPaint(j, RenderOverlay(j))
  BY <1>12, RenderOverlayOK
<1>14. ~s.show /\ j.notice = NoNotice => PipeInv(RenderHost(j)) /\ SameButPaint(j, RenderHost(j))
  BY <1>8, <1>12, RenderHostOK
<1>15. CASE p.cells = << >> /\ ~p.active
  <2>1. w = o
    BY <1>9, <1>15
  <2>2. SameShown(p, a)
    BY <1>10 DEF SameShown, SameButFrames
  <2>3. PipeInv(o)
    BY <1>3, <1>7, <2>2, SameCellsOK
  <2>. QED
    BY <1>7, <1>10, <1>15, <1>18, <2>1, <2>3 DEF w, e
<1>16. CASE ~(p.cells = << >> /\ ~p.active) /\ ~changed
  <2>1. w = j
    BY <1>9, <1>16
  <2>2. SameShown(p, s)
    <3>1. DOMAIN s.cells = DOMAIN p.cells /\ s.active = p.active /\ s.show = p.show
          /\ s.flagging = p.flagging
      BY <1>16
    <3>2. DOMAIN c.cells = DOMAIN a.cells /\ a.cells = p.cells
      BY <1>5, <1>10, <3>1 DEF SameGuesses, SameButFrames
    <3>3. s.cells = p.cells /\ s.confirmed = p.confirmed
      BY <1>4, <1>5, <1>10, <3>2 DEF SamePredictions, SameGuesses, SameButFrames
    <3>. QED
      BY <3>1, <3>3 DEF SameShown
  <2>3. PipeInv(j)
    BY <1>5, <1>8, <2>2, SameCellsOK
  <2>. QED
    BY <1>8, <1>11, <1>16, <1>18, <2>1, <2>3 DEF w, e
<1>17. CASE ~(p.cells = << >> /\ ~p.active) /\ changed
  <2>1. CASE s.show \/ j.notice # NoNotice
    BY <1>8, <1>9, <1>11, <1>13, <1>17, <1>18, <2>1 DEF SameButPaint, w, e
  <2>2. CASE ~s.show /\ j.notice = NoNotice /\ j.overlay
    BY <1>8, <1>9, <1>11, <1>14, <1>17, <1>18, <2>2 DEF SameButPaint, w, e
  <2>3. CASE ~s.show /\ j.notice = NoNotice /\ ~j.overlay
    <3>1. w = j
      BY <1>9, <1>17, <2>3
    <3>2. ~p.show
      BY <1>8, <2>3 DEF PipeInv
    <3>3. p.show \in BOOLEAN /\ s.show \in BOOLEAN
      BY <1>1, <1>5 DEF PredictorInv, Guessing
    <3>4. SameShown(p, s)
      BY <2>3, <3>2, <3>3 DEF SameShown
    <3>5. PipeInv(j)
      BY <1>5, <1>8, <3>4, SameCellsOK
    <3>. QED
      BY <1>8, <1>11, <1>17, <1>18, <3>1, <3>5 DEF w, e
  <2>. QED
    BY <2>1, <2>2, <2>3
<1>. QED
  BY <1>15, <1>16, <1>17

\* Its parts.
LEMMA WithHost ==
    ASSUME NEW v, NEW host, NEW pr, PipeFields(v)
    PROVE  LET w == OnScreen(v, host, pr)
           IN  PipeFields(w) /\ w.pr = pr /\ w.host = host /\ w.notice = v.notice
<1>. DEFINE m == [v EXCEPT !.host = host]
            w == [m EXCEPT !.pr = pr]
<1>1. OnScreen(v, host, pr) = w
  BY DEF OnScreen
<1>2. m = [host |-> host, shown |-> v.shown, pr |-> v.pr, overlay |-> v.overlay,
           notice |-> v.notice, updated |-> v.updated]
  BY DEF PipeFields
<1>. HIDE DEF m
<1>3. PipeFields(m) /\ m.host = host /\ m.notice = v.notice
  BY <1>2, PipeOf
<1>4. PipeFields(w) /\ w.pr = pr /\ w.host = m.host /\ w.notice = m.notice
  BY <1>3, WithPr
<1>. HIDE DEF w
<1>. QED
  BY <1>1, <1>3, <1>4

\* Its parts.
LEMMA WithFrame ==
    ASSUME NEW v, NEW host, NEW updated, NEW pr, PipeFields(v)
    PROVE  LET w == OnFrame(v, host, updated, pr)
           IN  PipeFields(w) /\ w.pr = pr /\ w.host = host /\ w.notice = v.notice
<1>. DEFINE h == [v EXCEPT !.host = host]
            m == [h EXCEPT !.updated = updated]
            w == [m EXCEPT !.pr = pr]
<1>1. OnFrame(v, host, updated, pr) = w
  BY DEF OnFrame
<1>2. h = [host |-> host, shown |-> v.shown, pr |-> v.pr, overlay |-> v.overlay,
           notice |-> v.notice, updated |-> v.updated]
  BY DEF PipeFields
<1>. HIDE DEF h
<1>3. PipeFields(h) /\ h.host = host /\ h.notice = v.notice
  BY <1>2, PipeOf
<1>4. m = [host |-> h.host, shown |-> h.shown, pr |-> h.pr, overlay |-> h.overlay,
           notice |-> h.notice, updated |-> updated]
  BY <1>3 DEF PipeFields
<1>. HIDE DEF m
<1>5. PipeFields(m) /\ m.host = h.host /\ m.notice = h.notice
  BY <1>4, PipeOf
<1>6. PipeFields(w) /\ w.pr = pr /\ w.host = m.host /\ w.notice = m.notice
  BY <1>5, WithPr
<1>. HIDE DEF w
<1>. QED
  BY <1>1, <1>3, <1>5, <1>6

\* Whatever shows, it is painted.
LEMMA PaintOK ==
    ASSUME NEW v, Sized(v)
    PROVE  LET w == IF v.pr.show \/ v.notice # NoNotice THEN RenderOverlay(v) ELSE RenderHost(v)
           IN  PipeInv(w) /\ SameButPaint(v, w)
<1>1. CASE v.pr.show \/ v.notice # NoNotice
  BY <1>1, RenderOverlayOK
<1>2. CASE ~v.pr.show /\ v.notice = NoNotice
  BY <1>2, RenderHostOK
<1>. QED
  BY <1>1, <1>2

\* resize
LEMMA ResizePipelineOK ==
    ASSUME NEW v, PipeInv(v), NEW size \in Sizes
    PROVE  LET w == ResizePipeline(v, size)
           IN  /\ PipeInv(w) /\ w.notice = v.notice /\ Keeps(v.pr, w.pr)
               /\ size # v.host.size => w.host = ResizeScreen(v.host, size) /\ Idle(w.pr)
<1>. DEFINE w == ResizePipeline(v, size)
            host == ResizeScreen(v.host, size)
            e == Reset(v.pr)
            q == SetCursor(e, host)
            r == OnScreen(v, host, q)
            x == IF r.pr.show \/ r.notice # NoNotice THEN RenderOverlay(r) ELSE RenderHost(r)
<1>1. PipeFields(v) /\ ScreenOK(v.host) /\ PredictorInv(v.pr, v.host.size)
  BY DEF PipeInv, Sized
<1>2. w = IF size = v.host.size THEN v ELSE x
  BY DEF ResizePipeline, OnScreen
<1>3. ScreenOK(host) /\ host.size = size
  BY <1>1, ResizeScreenOK
<1>4. PredictorInv(e, v.host.size) /\ Keeps(v.pr, e) /\ e.active = FALSE /\ Idle(e)
  BY <1>1, ResetIs DEF PredictorInv, Idle
<1>. HIDE DEF host, e
<1>5. PredictorInv(q, host.size) /\ Keeps(e, q) /\ Idle(q)
  BY <1>3, <1>4, SetCursorOK DEF Idle
<1>. HIDE DEF q
<1>6. PipeFields(r) /\ r.pr = q /\ r.host = host /\ r.notice = v.notice
  BY <1>1, WithHost
<1>. HIDE DEF r
<1>7. Sized(r)
  BY <1>3, <1>5, <1>6 DEF Sized
<1>8. PipeInv(x) /\ SameButPaint(r, x)
  BY <1>7, PaintOK
<1>. HIDE DEF x, w
<1>9. Keeps(v.pr, v.pr)
  BY DEF Keeps
<1>. QED
  BY <1>2, <1>4, <1>5, <1>6, <1>8, <1>9 DEF SameButPaint, Keeps, w, host

\* What a diff starts from.
LEMMA StartedIs ==
    ASSUME NEW r, PipeFields(r)
    PROVE  LET s == Started(r)
           IN  /\ PipeFields(s) /\ s.pr = r.pr /\ s.host = r.host /\ s.overlay = r.overlay
               /\ s.notice = r.notice
               /\ s.shown = IF r.shown = NotShown THEN Bare(r.host) ELSE r.shown
<1>. DEFINE b == Bare(r.host)
            t == [r EXCEPT !.shown = b]
            s == Started(r)
<1>1. s = IF r.shown = NotShown THEN t ELSE r
  BY DEF Started
<1>. HIDE DEF b, s
<1>2. t = [host |-> r.host, shown |-> b, pr |-> r.pr, overlay |-> r.overlay,
           notice |-> r.notice, updated |-> r.updated]
  BY DEF PipeFields
<1>. HIDE DEF t
<1>3. PipeFields(t) /\ t.host = r.host /\ t.shown = b /\ t.pr = r.pr /\ t.overlay = r.overlay
      /\ t.notice = r.notice
  BY <1>2, PipeOf
<1>. QED
  BY <1>1, <1>3 DEF b, s

\* set_srtt of the pipeline
LEMMA FollowSrttOK ==
    ASSUME NEW v, PipeInv(v), NEW srtt
    PROVE  LET w == FollowSrtt(v, srtt)
           IN  /\ PipeInv(w) /\ w.host = v.host /\ w.notice = v.notice /\ SameGuesses(v.pr, w.pr)
               /\ w.pr.active => v.pr.active
<1>. DEFINE w == FollowSrtt(v, srtt)
            p == v.pr
            q == SetSrtt(p, srtt)
            r == [v EXCEPT !.pr = q]
            s == Started(r)
            yes == TRUE
            o == [s EXCEPT !.overlay = yes]
<1>1. PipeFields(v) /\ ScreenOK(v.host) /\ PredictorInv(p, v.host.size)
  BY DEF PipeInv, Sized
<1>2. /\ PredictorInv(q, v.host.size) /\ SameGuesses(p, q)
      /\ p.cells # << >> => q.active = p.active
      /\ q.active => p.active
  BY <1>1, SetSrttOK
<1>3. PipeFields(r) /\ r.pr = q /\ r.host = v.host /\ r.shown = v.shown
      /\ r.overlay = v.overlay /\ r.notice = v.notice /\ r.updated = v.updated
  <2>. HIDE DEF q
  <2>. QED
    BY <1>1, WithPr
<1>4. w = IF p.show /\ ~q.show
          THEN IF r.notice # NoNotice THEN RenderOverlay(r) ELSE RenderHost(r)
          ELSE IF ~p.show /\ q.show
          THEN IF q.active \/ q.cells # << >> THEN RenderOverlay(s) ELSE o
          ELSE IF q.show /\ q.flagging # p.flagging /\ r.overlay THEN Render(r)
          ELSE r
  <2>1. r.pr = q
    BY <1>3
  <2>. QED
    BY <2>1 DEF FollowSrtt
<1>5. /\ PipeFields(s) /\ s.pr = r.pr /\ s.host = r.host /\ s.overlay = r.overlay
      /\ s.notice = r.notice
      /\ s.shown = IF r.shown = NotShown THEN Bare(r.host) ELSE r.shown
  <2>. HIDE DEF r
  <2>. QED
    BY <1>3, StartedIs
<1>. HIDE DEF w, q, r, s
<1>6. Sized(r) /\ Sized(s)
  BY <1>1, <1>2, <1>3, <1>5 DEF Sized
<1>7. p.show \in BOOLEAN /\ q.show \in BOOLEAN
  BY <1>1, <1>2 DEF PredictorInv, Guessing
<1>8. CASE p.show /\ ~q.show
  <2>. DEFINE x == IF r.pr.show \/ r.notice # NoNotice THEN RenderOverlay(r) ELSE RenderHost(r)
  <2>1. w = x
    BY <1>3, <1>4, <1>8
  <2>2. PipeInv(x) /\ SameButPaint(r, x)
    BY <1>6, PaintOK
  <2>. HIDE DEF x
  <2>. QED
    BY <1>2, <1>3, <2>1, <2>2 DEF SameButPaint, w
<1>9. CASE ~p.show /\ q.show /\ (q.active \/ q.cells # << >>)
  <2>1. w = RenderOverlay(s)
    BY <1>4, <1>9
  <2>2. PipeInv(RenderOverlay(s)) /\ SameButPaint(s, RenderOverlay(s))
    BY <1>6, RenderOverlayOK
  <2>. QED
    BY <1>2, <1>3, <1>5, <2>1, <2>2 DEF SameButPaint, w
<1>10. CASE ~p.show /\ q.show /\ ~(q.active \/ q.cells # << >>)
  <2>1. w = o
    BY <1>4, <1>10
  <2>2. /\ PipeFields(o) /\ o.pr = s.pr /\ o.host = s.host /\ o.shown = s.shown
        /\ o.overlay = yes /\ o.notice = s.notice
    <3>. HIDE DEF yes
    <3>1. o = [host |-> s.host, shown |-> s.shown, pr |-> s.pr, overlay |-> yes,
               notice |-> s.notice, updated |-> s.updated]
      BY <1>5 DEF PipeFields
    <3>. HIDE DEF o
    <3>. QED
      BY <3>1, PipeOf
  <2>. HIDE DEF o
  <2>3. q.cells = << >> /\ o.overlay
    BY <1>10, <2>2 DEF yes
  <2>. HIDE DEF yes
  <2>4. /\ Composed(v).cell = NoticeOver(Bare(v.host).cell, v.notice)
        /\ v.notice = NoNotice => Composed(v).cell = Bare(v.host).cell
    BY <1>10, BareCells
  <2>5. Composed(o).cell = NoticeOver(Bare(o.host).cell, o.notice)
    BY <1>3, <1>5, <2>2, <2>3, BareCells
  <2>6. Composed(o).cell = Composed(v).cell
    BY <1>3, <1>5, <2>2, <2>4, <2>5
  <2>7. o.shown # NotShown
    BY <1>1, <1>3, <1>5, <2>2, ComposedIsShown
  <2>8. o.shown.cell = Composed(o).cell
    <3>1. CASE v.shown = NotShown
      BY <1>3, <1>5, <2>2, <2>4, <2>6, <3>1 DEF PipeInv
    <3>2. CASE v.shown # NotShown
      BY <1>3, <1>5, <2>2, <2>6, <3>2 DEF PipeInv, Current
    <3>. QED
      BY <3>1, <3>2
  <2>9. Sized(o)
    BY <1>6, <2>2 DEF Sized
  <2>10. PipeInv(o)
    BY <2>3, <2>7, <2>8, <2>9 DEF PipeInv, Current
  <2>. QED
    BY <1>2, <1>3, <1>5, <2>1, <2>2, <2>10 DEF w
<1>11. CASE q.show = p.show /\ q.show /\ q.flagging # p.flagging /\ r.overlay
  <2>1. w = Render(r)
    BY <1>4, <1>11
  <2>2. PipeInv(Render(r)) /\ SameButPaint(r, Render(r))
    BY <1>6, <1>11, RenderOK
  <2>. QED
    BY <1>2, <1>3, <2>1, <2>2 DEF SameButPaint, w
<1>12. CASE q.show = p.show /\ ~(q.show /\ q.flagging # p.flagging /\ r.overlay)
  <2>1. w = r
    BY <1>4, <1>12
  <2>2. q.show => q.flagging = p.flagging
    BY <1>3, <1>12 DEF PipeInv
  <2>3. q.cells = p.cells /\ q.confirmed = p.confirmed
    BY <1>2 DEF SameGuesses
  <2>4. SameShown(p, q) \/ (q.show = p.show /\ p.cells = << >> /\ q.cells = << >>)
    BY <1>2, <1>12, <2>2, <2>3 DEF SameShown
  <2>5. PipeInv(r)
    BY <1>2, <1>3, <2>4, SameCellsOK
  <2>. QED
    BY <1>2, <1>3, <2>1, <2>5 DEF w
<1>. QED
  BY <1>7, <1>8, <1>9, <1>10, <1>11, <1>12

\* tick
LEMMA PipelineTickOK ==
    ASSUME NEW v, PipeInv(v), NEW age
    PROVE  LET w == PipelineTick(v, age)
           IN  /\ PipeInv(w) /\ w.host = v.host /\ w.notice = v.notice /\ SameGuesses(v.pr, w.pr)
               /\ w.pr.active = v.pr.active
<1>. DEFINE w == PipelineTick(v, age)
            p == v.pr
            q == SampleAge(p, age)
            r == [v EXCEPT !.pr = q]
<1>1. PipeFields(v) /\ ScreenOK(v.host) /\ PredictorInv(p, v.host.size)
  BY DEF PipeInv, Sized
<1>2. PredictorInv(q, v.host.size) /\ SameGuesses(p, q) /\ q.active = p.active
  BY <1>1, SampleAgeOK
<1>3. PipeFields(r) /\ r.pr = q /\ r.host = v.host /\ r.shown = v.shown
      /\ r.overlay = v.overlay /\ r.notice = v.notice
  <2>. HIDE DEF q
  <2>. QED
    BY <1>1, WithPr
<1>4. w = IF q.flagging = p.flagging /\ q.show = p.show THEN r
          ELSE IF q.cells = << >> /\ ~q.show /\ r.notice = NoNotice THEN RenderHost(r)
          ELSE IF q.show THEN RenderOverlay(r) ELSE Render(r)
  <2>1. r.pr = q
    BY <1>3
  <2>. QED
    BY <2>1 DEF PipelineTick
<1>. HIDE DEF w, q, r
<1>5. Sized(r)
  BY <1>1, <1>2, <1>3 DEF Sized
<1>6. CASE q.flagging = p.flagging /\ q.show = p.show
  <2>1. w = r
    BY <1>4, <1>6
  <2>2. SameShown(p, q)
    BY <1>2, <1>6 DEF SameShown, SameGuesses
  <2>3. PipeInv(r)
    BY <1>2, <1>3, <2>2, SameCellsOK
  <2>. QED
    BY <1>2, <1>3, <2>1, <2>3 DEF w
<1>7. CASE ~(q.flagging = p.flagging /\ q.show = p.show)
  <2>1. PipeInv(RenderOverlay(r)) /\ SameButPaint(r, RenderOverlay(r))
    BY <1>5, RenderOverlayOK
  <2>2. ~q.show /\ r.notice = NoNotice => PipeInv(RenderHost(r)) /\ SameButPaint(r, RenderHost(r))
    BY <1>3, <1>5, RenderHostOK
  <2>3. ~q.show => PipeInv(Render(r)) /\ SameButPaint(r, Render(r))
    BY <1>3, <1>5, RenderOK
  <2>4. PipeInv(w) /\ SameButPaint(r, w)
    BY <1>4, <1>7, <2>1, <2>2, <2>3
  <2>. QED
    BY <1>2, <1>3, <2>4 DEF SameButPaint, w
<1>. QED
  BY <1>6, <1>7

\* on_host_frame
LEMMA OnHostFrameOK ==
    ASSUME NEW v, PipeInv(v), NEW frame, ScreenOK(frame), NEW repaired, NEW age
    PROVE  LET w == OnHostFrame(v, frame, repaired, age)
           IN  /\ PipeInv(w) /\ w.notice = v.notice
               /\ w.pr.pref = v.pr.pref /\ w.pr.sent = v.pr.sent /\ w.pr.late = v.pr.late
               /\ w.pr.wait = v.pr.wait /\ w.pr.over = v.pr.over
               /\ w.host = frame /\ w.pr = Framed(v, frame, repaired, age)
<1>. DEFINE w == OnHostFrame(v, frame, repaired, age)
            p == v.pr
            updated == v.updated \/ Bare(frame) # Bare(v.host)
            k == IF Moved(v, frame) THEN Reset(p) ELSE p
            s == SetCursor(k, frame)
            c == Confirm(s, frame, repaired)
            q == SampleAge(c, age)
            r == OnFrame(v, frame, updated, q)
            x == IF r.pr.show \/ r.notice # NoNotice THEN RenderOverlay(r) ELSE RenderHost(r)
<1>1. PipeFields(v) /\ ScreenOK(v.host) /\ PredictorInv(p, v.host.size)
  BY DEF PipeInv, Sized
<1>2. w = x
  BY DEF OnHostFrame, OnFrame
<1>3. PredictorInv(k, v.host.size) /\ Keeps(p, k) /\ (k.active => v.host.size = frame.size)
  <2>1. CASE Moved(v, frame)
    <3>. DEFINE e == Reset(p)
                no == FALSE
    <3>. HIDE DEF no
    <3>1. PredictorInv(e, v.host.size) /\ Keeps(p, e) /\ e.active = no
      BY <1>1, ResetIs DEF PredictorInv, no
    <3>2. k = e
      BY <2>1
    <3>. HIDE DEF e, k
    <3>. QED
      BY <3>1, <3>2 DEF no
  <2>2. CASE ~Moved(v, frame)
    <3>1. k = p
      BY <2>2
    <3>2. v.host.size = frame.size
      BY <2>2 DEF Moved
    <3>. HIDE DEF k
    <3>. QED
      BY <1>1, <3>1, <3>2 DEF Keeps
  <2>. QED
    BY <2>1, <2>2
<1>. HIDE DEF k
<1>4. PredictorInv(s, frame.size) /\ Keeps(k, s)
  BY <1>3, SetCursorOK
<1>. HIDE DEF s
<1>5. PredictorInv(c, frame.size) /\ Keeps(s, c)
  BY <1>4, ConfirmOK
<1>. HIDE DEF c
<1>6. PredictorInv(q, frame.size) /\ SameGuesses(c, q)
  BY <1>5, SampleAgeOK
<1>. HIDE DEF q, updated
<1>7. PipeFields(r) /\ r.pr = q /\ r.host = frame /\ r.notice = v.notice
  BY <1>1, WithFrame
<1>. HIDE DEF r
<1>8. Sized(r)
  BY <1>6, <1>7 DEF Sized
<1>9. PipeInv(x) /\ SameButPaint(r, x)
  BY <1>8, PaintOK
<1>10. q = Framed(v, frame, repaired, age)
  BY DEF q, c, s, k, Framed
<1>. HIDE DEF x, w
<1>. QED
  BY <1>10, <1>2, <1>3, <1>4, <1>5, <1>6, <1>7, <1>9 DEF SameButPaint, Keeps, SameGuesses, w

\* on_keystroke
LEMMA OnKeystrokeOK ==
    ASSUME NEW v, PipeInv(v), NEW bytes \in Seq(Bytes)
    PROVE  LET w == OnKeystroke(v, bytes)
               q == w.pr
           IN  /\ PipeInv(w) /\ w.notice = v.notice
               /\ q.pref = v.pr.pref /\ q.sent = v.pr.sent /\ q.late = v.pr.late
               /\ q.wait \in {v.pr.wait, v.pr.sent + 1}
               /\ v.pr.pref = "never" => q.wait = v.pr.wait
               /\ v.pr.pref # "never" /\ q.wait # 0 /\ bytes # << >> => q.wait = v.pr.sent + 1
               /\ w.host = v.host
               /\ IF v.pr.pref = "never" THEN w = v ELSE q = Keystroke(Synced(v), bytes, v.host)
<1>. DEFINE w == OnKeystroke(v, bytes)
            p == v.pr
            scr == v.host
            k == IF p.active THEN p ELSE SetCursor(p, scr)
            q == Keystroke(k, bytes, scr)
            r == [v EXCEPT !.pr = q]
            s == Started(r)
<1>1. PipeFields(v) /\ ScreenOK(scr) /\ PredictorInv(p, scr.size)
  BY DEF PipeInv, Sized
<1>2. PredictorInv(k, scr.size) /\ Keeps(p, k)
  <2>. DEFINE c == SetCursor(p, scr)
  <2>1. PredictorInv(c, scr.size) /\ Keeps(p, c)
    BY <1>1, SetCursorOK
  <2>2. Keeps(p, p)
    BY DEF Keeps
  <2>. HIDE DEF c
  <2>3. k \in {p, c}
    BY DEF c
  <2>. HIDE DEF k
  <2>. QED
    BY <1>1, <2>1, <2>2, <2>3
<1>3. /\ PredictorInv(q, scr.size) /\ KeepsButWait(k, q)
      /\ q.wait \in {k.wait, k.sent + 1}
      /\ k.pref = "never" => q.wait = k.wait
      /\ k.pref # "never" /\ q.wait # 0 /\ bytes # << >> => q.wait = k.sent + 1
  <2>. HIDE DEF k
  <2>. QED
    BY <1>1, <1>2, KeystrokeOK
<1>4. PipeFields(r) /\ r.pr = q /\ r.host = v.host /\ r.shown = v.shown
      /\ r.overlay = v.overlay /\ r.notice = v.notice
  <2>. HIDE DEF q
  <2>. QED
    BY ZenonT(40), <1>1, WithPr
<1>5. w = IF p.pref = "never" THEN v ELSE IF q.show THEN RenderOverlay(s) ELSE r
  <2>1. r.pr = q
    BY <1>4
  <2>. QED
    BY <2>1 DEF OnKeystroke
<1>6. /\ PipeFields(s) /\ s.pr = r.pr /\ s.host = r.host /\ s.notice = r.notice
  <2>. HIDE DEF r
  <2>. QED
    BY <1>4, StartedIs
<1>12. q = Keystroke(Synced(v), bytes, v.host)
  BY DEF Synced
<1>. HIDE DEF w, k, q, r, s
<1>7. Sized(r) /\ Sized(s)
  BY <1>1, <1>3, <1>4, <1>6 DEF Sized
<1>8. /\ q.pref = p.pref /\ q.sent = p.sent /\ q.late = p.late /\ q.show = p.show
      /\ q.wait \in {p.wait, p.sent + 1}
      /\ p.pref # "never" /\ q.wait # 0 /\ bytes # << >> => q.wait = p.sent + 1
  BY <1>2, <1>3 DEF Keeps, KeepsButWait
<1>9. CASE p.pref = "never"
  <2>1. w = v
    BY <1>5, <1>9
  <2>. QED
    BY <1>9, <2>1 DEF w
<1>10. CASE p.pref # "never" /\ q.show
  <2>1. w = RenderOverlay(s)
    BY <1>5, <1>10
  <2>2. PipeInv(RenderOverlay(s)) /\ SameButPaint(s, RenderOverlay(s))
    BY <1>7, RenderOverlayOK
  <2>3. PipeInv(w) /\ w.notice = v.notice /\ w.pr = q /\ w.host = v.host
    BY <1>4, <1>6, <2>1, <2>2 DEF SameButPaint
  <2>. QED
    BY <1>8, <1>10, <1>12, <2>3 DEF w
<1>11. CASE p.pref # "never" /\ ~q.show
  <2>1. w = r
    BY <1>5, <1>11
  <2>2. SameShown(p, q)
    BY <1>8, <1>11 DEF SameShown
  <2>3. PipeInv(r)
    BY <1>1, <1>3, <1>4, <2>2, SameCellsOK
  <2>. QED
    BY <1>4, <1>8, <1>11, <1>12, <2>1, <2>3 DEF w
<1>. QED
  BY <1>9, <1>10, <1>11

-----------------------------------------------------------------------------
(***************************************************************************)
(* The loop.                                                               *)
(***************************************************************************)

\* What the shapes say about numbers.
LEMMA SessionNumbers ==
    ASSUME SessionShape
    PROVE  /\ remote.sent \in Nat /\ remote.done \in Nat /\ remote.echo \in Nat
           /\ stream \in Seq(Elements) /\ Len(stream) \in Nat
           /\ \A i \in 1 .. Len(stream) : stream[i].frame \in Nat
           /\ DOMAIN stream = 1 .. Len(stream)
<1>1. stream \in Seq(Elements) /\ remote \in [sent : Nat, done : Nat, echo : Nat]
  BY DEF SessionShape
<1>2. \A e \in Elements : e.frame \in Nat
  BY DEF Elements
<1>. QED
  BY <1>1, <1>2, LenProperties

\* Elements for the next frame go to the end.
LEMMA OrderedOn ==
    ASSUME NEW st \in Seq(Elements), NEW more \in Seq(Elements), NEW next \in Nat,
           Ordered(st, next), \A k \in 1 .. Len(more) : more[k].frame = next
    PROVE  Ordered(st \o more, next)
<1>. DEFINE y == st \o more
            n == Len(st)
<1>1. /\ n \in Nat /\ Len(more) \in Nat /\ Len(y) = n + Len(more)
      /\ \A i \in 1 .. Len(y) : y[i] = IF i <= n THEN st[i] ELSE more[i - n]
  BY ConcatProperties, LenProperties
<1>2. \A i \in 1 .. n : st[i].frame \in Nat
  <2>1. \A i \in 1 .. n : st[i] \in Elements
    BY LenProperties
  <2>. QED
    BY <2>1 DEF Elements
<1>. HIDE DEF y, n
<1>3. \A i \in 1 .. Len(y) :
        \/ i \in 1 .. n /\ y[i] = st[i]
        \/ i > n /\ y[i].frame = next
  <2>1. TAKE i \in 1 .. Len(y)
  <2>2. CASE i <= n
    BY <1>1, <2>2
  <2>3. CASE i > n
    <3>1. i - n \in 1 .. Len(more) /\ ~(i <= n)
      BY <1>1, <2>3
    <3>. QED
      BY <1>1, <2>3, <3>1
  <2>. QED
    BY <1>1, <2>2, <2>3
<1>4. /\ \A i \in 1 .. n : st[i].frame <= next
      /\ \A i, j \in 1 .. n : i <= j => st[i].frame <= st[j].frame
  BY DEF Ordered, n
<1>5. \A i \in 1 .. Len(y) : y[i].frame <= next
  BY <1>3, <1>4
<1>6. ASSUME NEW i \in 1 .. Len(y), NEW j \in 1 .. Len(y), i <= j
      PROVE  y[i].frame <= y[j].frame
  <2>1. CASE j \in 1 .. n /\ y[j] = st[j]
    <3>1. i \in 1 .. n
      BY <1>1, <1>6, <2>1
    <3>2. ~(i > n)
      BY <1>1, <3>1
    <3>3. y[i] = st[i]
      BY <1>3, <3>2
    <3>. QED
      BY <1>4, <1>6, <2>1, <3>1, <3>3
  <2>2. CASE j > n /\ y[j].frame = next
    BY <1>5, <2>2
  <2>. QED
    BY <1>3, <2>1, <2>2
<1>. QED
  BY <1>5, <1>6 DEF Ordered, y

\* A later frame may be the next.
LEMMA OrderedBelow ==
    ASSUME NEW st, NEW next \in Nat, NEW later \in Nat, next <= later, Ordered(st, next),
           \A i \in 1 .. Len(st) : st[i].frame \in Nat
    PROVE  Ordered(st, later)
BY DEF Ordered

\* At the start nothing is shown or predicted.
LEMMA MainInvInit == Init => MainInv
<1>. SUFFICES ASSUME Init PROVE MainInv
  OBVIOUS
<1>1. InputInv
  BY InputInvInit
<1>. DEFINE n == NewPipeline(scene.size, scene.pref, scene.over)
            pr == SetWatermarks(n.pr, 1, 0)
            q == NewPredictor(scene.pref, scene.over)
            overlay == scene.pref \in {"always", "experimental"}
            no == FALSE
<1>2. d = [n EXCEPT !.pr = pr] /\ stream = << >> /\ remote = [sent |-> 1, done |-> 0, echo |-> 0]
  BY DEF Init
<1>3. /\ scene \in Scenes /\ scene.size \in Sizes /\ scene.pref \in Preferences
      /\ scene.over \in BOOLEAN
  BY <1>1, SceneShape, ScenesAssumption DEF InputInv, SessionShape
<1>4. n = [host |-> EmptyScreen(scene.size), shown |-> NotShown, pr |-> q, overlay |-> overlay,
           notice |-> NoNotice, updated |-> no]
  BY DEF NewPipeline
<1>5. ScreenOK(EmptyScreen(scene.size)) /\ EmptyScreen(scene.size).size = scene.size
  BY <1>3, EmptyScreenOK DEF EmptyScreen
<1>6. PredictorInv(q, scene.size)
  BY <1>3, NewPredictorInv
<1>7. q.sent = 0 /\ q.late = 0 /\ q.wait = 0 /\ q.show = overlay
  BY DEF NewPredictor
<1>. HIDE DEF n, q, overlay, no
<1>8. /\ PipeFields(n) /\ n.host = EmptyScreen(scene.size) /\ n.shown = NotShown /\ n.pr = q
      /\ n.overlay = overlay /\ n.notice = NoNotice
  BY <1>4, PipeOf
<1>9. /\ PredictorInv(pr, scene.size) /\ SameButFrames(q, pr)
      /\ pr.sent = Larger(q.sent, 1) /\ pr.late = Larger(q.late, 0) /\ pr.wait = q.wait
  <2>. DEFINE one == 1
              none == 0
  <2>1. one \in Nat /\ none \in Nat /\ none <= one
    OBVIOUS
  <2>. HIDE DEF one, none
  <2>2. LET r == SetWatermarks(q, one, none)
        IN  /\ PredictorInv(r, scene.size) /\ SameButFrames(q, r)
            /\ r.sent = Larger(q.sent, one) /\ r.late = Larger(q.late, none) /\ r.wait = q.wait
    BY <1>6, <2>1, SetWatermarksOK
  <2>. QED
    BY <1>8, <2>2 DEF one, none
<1>10. pr.sent = 1 /\ pr.late = 0 /\ pr.wait = 0 /\ pr.show = overlay
  BY <1>7, <1>9 DEF Larger, SameButFrames
<1>. HIDE DEF pr
<1>11. /\ PipeFields(d) /\ d.pr = pr /\ d.host = n.host /\ d.shown = n.shown
       /\ d.overlay = n.overlay /\ d.notice = n.notice
  BY <1>2, <1>8, WithPr
<1>12. PipeInv(d)
  BY <1>5, <1>8, <1>9, <1>10, <1>11 DEF PipeInv, Sized, Current
<1>13. DisplayInv
  BY <1>8, <1>11, <1>12 DEF DisplayInv
<1>14. Len(stream) = 0 /\ remote.sent = 1 /\ remote.done = 0 /\ remote.echo = 0
  BY <1>2
<1>15. SessionInv
  BY <1>14 DEF SessionInv, Ordered
<1>16. PauseInv
  BY <1>10, <1>11, <1>14 DEF PauseInv
<1>. QED
  BY <1>1, <1>13, <1>15, <1>16 DEF MainInv

\* The steps that only show predictions otherwise.
LEMMA MainInvShow ==
    ASSUME MainInv, InputInv', UNCHANGED <<stream, remote, phase>>,
           PipeInv(d'), d'.notice = d.notice, SameGuesses(d.pr, d'.pr)
    PROVE  MainInv'
<1>1. DisplayInv' /\ SessionInv'
  BY DEF MainInv, DisplayInv, SessionInv
<1>2. d'.pr.sent = d.pr.sent /\ d'.pr.late = d.pr.late /\ d'.pr.wait = d.pr.wait
      /\ d'.pr.pref = d.pr.pref
  BY DEF SameGuesses
<1>3. PauseInv'
  BY <1>2 DEF MainInv, PauseInv
<1>. QED
  BY <1>1, <1>3 DEF MainInv

\* A round trip measured ends no pause.
LEMMA MainInvAdapt ==
    ASSUME MainInv, InputInv', AdaptDisplay
    PROVE  MainInv' /\ d'.pr.wait = d.pr.wait
<1>1. PICK srtt \in scene.srtts : d' = FollowSrtt(d, srtt)
  BY DEF AdaptDisplay
<1>2. PipeInv(d') /\ d'.notice = d.notice /\ SameGuesses(d.pr, d'.pr)
  BY <1>1, FollowSrttOK DEF MainInv, DisplayInv
<1>. QED
  BY <1>2, MainInvShow DEF AdaptDisplay, SameGuesses

\* Nor does the clock.
LEMMA MainInvTick ==
    ASSUME MainInv, InputInv', Tick
    PROVE  MainInv' /\ d'.pr.wait = d.pr.wait
<1>1. PICK age \in scene.ages : d' = PipelineTick(d, age)
  BY DEF Tick
<1>2. PipeInv(d') /\ d'.notice = d.notice /\ SameGuesses(d.pr, d'.pr)
  BY <1>1, PipelineTickOK DEF MainInv, DisplayInv
<1>. QED
  BY <1>2, MainInvShow DEF Tick, SameGuesses

\* What the session may bring.
LEMMA PollNumbers ==
    ASSUME SessionShape, NEW r \in PollResults
    PROVE  /\ r.sent \in Nat /\ r.echo \in Nat /\ r.done \in Nat
           /\ remote.sent <= r.sent /\ remote.echo <= r.echo
           /\ r.done <= Len(stream)
           /\ CarriedBy(r.echo) <= r.done
<1>1. remote.sent \in Nat /\ remote.done \in Nat /\ remote.echo \in Nat /\ Len(stream) \in Nat
  BY SessionNumbers
<1>2. /\ r.sent \in {remote.sent, remote.sent + 1} /\ r.done \in remote.done .. Len(stream)
      /\ r.echo \in remote.echo .. remote.sent /\ CarriedBy(r.echo) <= r.done
  BY DEF PollResults
<1>. QED
  BY <1>1, <1>2

\* The session after a poll.
LEMMA PolledSession ==
    ASSUME MainInv, NEW r \in PollResults, remote' = r, stream' = stream
    PROVE  SessionInv' /\ r.echo <= r.sent
<1>1. SessionShape /\ SessionInv
  BY DEF MainInv, InputInv
<1>2. /\ remote.sent \in Nat /\ remote.echo \in Nat
      /\ \A i \in 1 .. Len(stream) : stream[i].frame \in Nat
  BY <1>1, SessionNumbers
<1>3. /\ r.sent \in Nat /\ r.echo \in Nat /\ r.done \in Nat
      /\ remote.sent <= r.sent /\ r.done <= Len(stream)
  BY <1>1, PollNumbers
<1>4. r.echo <= r.sent
  <2>1. r.echo \in remote.echo .. remote.sent
    BY DEF PollResults
  <2>. QED
    BY <1>2, <1>3, <2>1
<1>5. Ordered(stream, r.sent + 1)
  <2>1. remote.sent + 1 \in Nat /\ r.sent + 1 \in Nat /\ remote.sent + 1 <= r.sent + 1
    BY <1>2, <1>3
  <2>2. Ordered(stream, remote.sent + 1)
    BY <1>1 DEF SessionInv
  <2>. QED
    BY <1>2, <2>1, <2>2, OrderedBelow
<1>. QED
  BY <1>3, <1>4, <1>5 DEF SessionInv

\* A host frame, if there is one.
LEMMA FramedOK ==
    ASSUME MainInv, NEW r \in PollResults, NEW repaired, NEW age
    PROVE  LET w == IF News(r) THEN OnHostFrame(d, ScreenAfter(r.done), repaired, age) ELSE d
           IN  /\ PipeInv(w) /\ w.notice = d.notice
               /\ w.pr.pref = d.pr.pref /\ w.pr.sent = d.pr.sent /\ w.pr.late = d.pr.late
               /\ w.pr.wait = d.pr.wait
<1>1. PipeInv(d) /\ SessionShape
  BY DEF MainInv, DisplayInv, InputInv
<1>2. r.done \in 0 .. Len(stream)
  <2>1. r.done \in Nat /\ r.done <= Len(stream) /\ Len(stream) \in Nat
    BY <1>1, PollNumbers, SessionNumbers
  <2>. QED
    BY <2>1
<1>. DEFINE frame == ScreenAfter(r.done)
<1>3. ScreenOK(frame)
  BY <1>1, <1>2, ScreenAfterOK
<1>. HIDE DEF frame
<1>. DEFINE h == OnHostFrame(d, frame, repaired, age)
<1>4. /\ PipeInv(h) /\ h.notice = d.notice
      /\ h.pr.pref = d.pr.pref /\ h.pr.sent = d.pr.sent /\ h.pr.late = d.pr.late
      /\ h.pr.wait = d.pr.wait
  BY <1>1, <1>3, OnHostFrameOK
<1>. DEFINE w == IF News(r) THEN h ELSE d
<1>. HIDE DEF h
<1>5. /\ PipeInv(w) /\ w.notice = d.notice
      /\ w.pr.pref = d.pr.pref /\ w.pr.sent = d.pr.sent /\ w.pr.late = d.pr.late
      /\ w.pr.wait = d.pr.wait
  BY <1>1, <1>4
<1>. QED
  BY <1>5 DEF h, frame

\* A poll ends a pause only with its frame acknowledged.
LEMMA MainInvPoll ==
    ASSUME MainInv, InputInv', Poll
    PROVE  /\ MainInv'
           /\ remote' \in PollResults
           /\ d'.pr.wait = d.pr.wait \/ remote'.echo >= d.pr.wait
<1>1. PICK r \in PollResults, repaired \in BOOLEAN, age \in scene.ages, late \in {FALSE, scene.quiet} :
        /\ d' = SetNotification(FrameThenAcks(r, repaired, age), NoticeDue(late))
        /\ remote' = r
  BY DEF Poll
<1>2. /\ phase = "running" /\ UNCHANGED <<stream, phase>> /\ InputInv /\ SessionShape
      /\ DisplayInv /\ SessionInv /\ PauseInv
  BY DEF Poll, Running, MainInv, InputInv
<1>. DEFINE framed == IF News(r) THEN OnHostFrame(d, ScreenAfter(r.done), repaired, age) ELSE d
            acked == SetFrames(framed, r.sent, r.echo, repaired, age)
            notice == NoticeDue(late)
<1>3. d' = SetNotification(acked, notice)
  BY <1>1 DEF FrameThenAcks
<1>4. /\ PipeInv(framed) /\ framed.notice = d.notice
      /\ framed.pr.pref = d.pr.pref /\ framed.pr.sent = d.pr.sent /\ framed.pr.late = d.pr.late
      /\ framed.pr.wait = d.pr.wait
  BY FramedOK
<1>5. SessionInv' /\ r.echo <= r.sent
  BY <1>1, <1>2, PolledSession
<1>6. /\ r.sent \in Nat /\ r.echo \in Nat /\ remote.sent <= r.sent /\ remote.echo <= r.echo
      /\ remote.sent \in Nat /\ remote.echo \in Nat
  BY <1>2, PollNumbers, SessionNumbers
<1>. HIDE DEF framed
<1>7. PipeInv(acked) /\ FramesSeen(framed.pr, acked.pr, r.sent, r.echo)
  BY <1>4, <1>5, <1>6, SetFramesOK
<1>. HIDE DEF acked
<1>8. notice \in Notices \cup {NoNotice}
  BY ScenesAssumption DEF NoticeDue
<1>. HIDE DEF notice
<1>9. PipeInv(d') /\ d'.pr = acked.pr /\ d'.notice = notice
  BY <1>3, <1>7, SetNotificationOK
<1>10. d.pr.sent = remote.sent /\ d.pr.late = remote.echo
  BY <1>2 DEF PauseInv
<1>11. d'.pr.sent = r.sent /\ d'.pr.late = r.echo
  <2>1. d'.pr.sent = Larger(remote.sent, r.sent) /\ d'.pr.late = Larger(remote.echo, r.echo)
    BY <1>4, <1>7, <1>9, <1>10 DEF FramesSeen
  <2>. QED
    BY <1>6, <2>1 DEF Larger
<1>12. /\ d'.pr.pref = d.pr.pref
       /\ d'.pr.wait = d.pr.wait \/ (d'.pr.wait = 0 /\ r.echo >= d.pr.wait)
  BY <1>4, <1>7, <1>9, <1>11 DEF FramesSeen
<1>13. PauseInv'
  BY <1>1, <1>2, <1>11, <1>12 DEF PauseInv
<1>14. DisplayInv'
  BY <1>8, <1>9 DEF DisplayInv
<1>. QED
  BY <1>1, <1>5, <1>12, <1>13, <1>14 DEF MainInv

\* Draining paints frames but hears of no acknowledgement.
LEMMA MainInvDrain ==
    ASSUME MainInv, InputInv', Drain
    PROVE  MainInv' /\ d'.pr.wait = d.pr.wait
<1>1. PICK r \in PollResults, repaired \in BOOLEAN, age \in scene.ages :
        /\ d' = IF News(r) THEN OnHostFrame(d, ScreenAfter(r.done), repaired, age) ELSE d
        /\ remote' = r
  BY DEF Drain
<1>2. phase = "draining" /\ UNCHANGED <<stream, phase>> /\ DisplayInv /\ PauseInv
  BY DEF Drain, MainInv
<1>3. /\ PipeInv(d') /\ d'.notice = d.notice
      /\ d'.pr.pref = d.pr.pref /\ d'.pr.sent = d.pr.sent /\ d'.pr.late = d.pr.late
      /\ d'.pr.wait = d.pr.wait
  BY <1>1, FramedOK
<1>4. SessionInv'
  BY <1>1, <1>2, PolledSession
<1>5. DisplayInv'
  BY <1>2, <1>3 DEF DisplayInv
<1>6. PauseInv'
  BY <1>2, <1>3 DEF PauseInv
<1>. QED
  BY <1>3, <1>4, <1>5, <1>6 DEF MainInv

\* Nothing is lost at the end of the input.
LEMMA MainInvEnd ==
    ASSUME MainInv, InputInv', EndOfInput \/ UNCHANGED vars
    PROVE  MainInv' /\ d'.pr.wait = d.pr.wait
<1>1. UNCHANGED <<d, stream, remote>> /\ (phase' = phase \/ phase' = "draining")
  BY DEF EndOfInput, vars
<1>2. DisplayInv' /\ SessionInv' /\ PauseInv'
  BY <1>1 DEF MainInv, DisplayInv, SessionInv, PauseInv
<1>. QED
  BY <1>1, <1>2 DEF MainInv

\* A resize drops the predictions but ends no pause.
LEMMA MainInvResize ==
    ASSUME MainInv, InputInv', Resize
    PROVE  MainInv' /\ d'.pr.wait = d.pr.wait
<1>1. PICK size \in scene.sizes :
        /\ stream' = Append(stream, [byte |-> "resize", size |-> size, frame |-> remote.sent + 1])
        /\ d' = ResizePipeline(d, size)
  BY DEF Resize
<1>. DEFINE item == [byte |-> "resize", size |-> size, frame |-> remote.sent + 1]
<1>2. UNCHANGED <<remote, phase>> /\ SessionShape /\ DisplayInv /\ SessionInv /\ PauseInv
  BY DEF Resize, MainInv, InputInv
<1>3. size \in Sizes
  BY <1>2, SceneShape
<1>4. PipeInv(d') /\ d'.notice = d.notice /\ Keeps(d.pr, d'.pr)
  BY <1>1, <1>2, <1>3, ResizePipelineOK DEF DisplayInv
<1>5. /\ remote.sent \in Nat /\ remote.done \in Nat /\ stream \in Seq(Elements) /\ Len(stream) \in Nat
  BY <1>2, SessionNumbers
<1>6. item \in Elements /\ item.byte = "resize" /\ item.frame = remote.sent + 1
  BY <1>3, <1>5 DEF Elements
<1>. HIDE DEF item
<1>7. stream' = stream \o <<item>> /\ stream' = Append(stream, item)
  BY <1>1, <1>5, <1>6, AppendIsConcat DEF item
<1>8. Ordered(stream', remote.sent + 1)
  <2>. DEFINE more == <<item>>
  <2>1. more \in Seq(Elements) /\ \A k \in 1 .. Len(more) : more[k].frame = remote.sent + 1
    BY <1>6
  <2>2. remote.sent + 1 \in Nat /\ Ordered(stream, remote.sent + 1)
    BY <1>2, <1>5 DEF SessionInv
  <2>. HIDE DEF more
  <2>3. Ordered(stream \o more, remote.sent + 1)
    BY <1>5, <2>1, <2>2, OrderedOn
  <2>. QED
    BY <1>7, <2>3 DEF more
<1>9. /\ Len(stream') = Len(stream) + 1
      /\ \A i \in 1 .. Len(stream') : stream'[i] = IF i = Len(stream) + 1 THEN item ELSE stream[i]
  BY <1>5, <1>6, <1>7
<1>10. SessionInv'
  BY <1>2, <1>5, <1>8, <1>9 DEF SessionInv
<1>11. \A f : TypedBy(stream, f) => TypedBy(stream', f)
  <2>1. \A i \in 1 .. Len(stream') : i = Len(stream) + 1 \/ i \in 1 .. Len(stream)
    BY <1>5, <1>9
  <2>. QED
    BY <1>6, <1>9, <2>1 DEF TypedBy
<1>12. PauseInv'
  BY <1>2, <1>4, <1>11 DEF PauseInv, Keeps
<1>13. DisplayInv'
  BY <1>2, <1>4 DEF DisplayInv
<1>. QED
  BY <1>4, <1>10, <1>12, <1>13 DEF MainInv, Keeps

\* Typing on waits for the frame it is promised to.
LEMMA MainInvStdin ==
    ASSUME MainInv, InputInv', Stdin
    PROVE  MainInv' /\ (d.pr.wait # 0 => d'.pr.wait # 0)
<1>. DEFINE x == FlattenSeq(input)
            f == remote.sent + 1
<1>1. PICK read \in scene.reads :
        LET p == ProcessInput(esc, read)
            typed == OnKeystroke(d, p.forward)
        IN  /\ stream' = stream \o Items(p.forward)
            /\ d' = IF p.quit THEN SetNotification(typed, "exiting") ELSE typed
            /\ phase' = IF p.quit THEN "over" ELSE phase
  BY DEF Stdin
<1>. DEFINE p == ProcessInput(esc, read)
            bytes == p.forward
            typed == OnKeystroke(d, bytes)
<1>2. /\ phase = "running" /\ UNCHANGED remote /\ InputInv /\ SessionShape
      /\ DisplayInv /\ SessionInv /\ PauseInv
  BY DEF Stdin, Running, MainInv, InputInv
<1>3. bytes \in Seq(Bytes)
  <2>1. Tracks(x \o read, ProcessInput(esc, read), Sent)
    BY <1>2, ReadTracks
  <2>. HIDE DEF x
  <2>. QED
    BY <2>1 DEF Tracks
<1>4. /\ stream' = stream \o ItemsAt(bytes, f)
      /\ d' = IF p.quit THEN SetNotification(typed, "exiting") ELSE typed
      /\ phase' = phase \/ phase' = "over"
  BY <1>1 DEF Items, ItemsAt
<1>. HIDE DEF p, bytes
<1>5. LET q == typed.pr
      IN  /\ PipeInv(typed) /\ typed.notice = d.notice
          /\ q.pref = d.pr.pref /\ q.sent = d.pr.sent /\ q.late = d.pr.late
          /\ q.wait \in {d.pr.wait, d.pr.sent + 1}
          /\ d.pr.pref = "never" => q.wait = d.pr.wait
          /\ d.pr.pref # "never" /\ q.wait # 0 /\ bytes # << >> => q.wait = d.pr.sent + 1
  BY <1>2, <1>3, OnKeystrokeOK DEF DisplayInv
<1>. DEFINE notice == d'.notice
<1>. HIDE DEF typed
<1>6. PipeInv(d') /\ d'.pr = typed.pr /\ d'.notice \in {d.notice, "exiting"}
  <2>. DEFINE bye == "exiting"
              n == SetNotification(typed, bye)
  <2>1. d' \in {n, typed}
    BY <1>4
  <2>. HIDE DEF bye
  <2>2. PipeInv(n) /\ n.pr = typed.pr /\ n.notice = bye
    BY <1>5, SetNotificationOK
  <2>. HIDE DEF n
  <2>. QED
    BY <1>5, <2>1, <2>2 DEF bye
<1>7. DisplayInv'
  BY <1>2, <1>6, ScenesAssumption DEF DisplayInv
<1>8. /\ remote.sent \in Nat /\ stream \in Seq(Elements) /\ Len(stream) \in Nat
      /\ remote.done \in Nat /\ f \in Nat
  BY <1>2, SessionNumbers
<1>9. Ordered(stream', f) /\ Len(stream) <= Len(stream')
  <2>. DEFINE more == ItemsAt(bytes, f)
  <2>1. more \in Seq(Elements) /\ Len(more) = Len(bytes) /\ Len(bytes) \in Nat
    BY <1>3, <1>8, ItemsAreElements, LenProperties
  <2>2. \A k \in 1 .. Len(more) : more[k].frame = f
    <3>1. DOMAIN bytes = 1 .. Len(bytes)
      BY <1>3, LenProperties
    <3>. QED
      BY <2>1, <3>1 DEF ItemsAt
  <2>3. Ordered(stream, f)
    BY <1>2 DEF SessionInv
  <2>. HIDE DEF more, f
  <2>4. Ordered(stream \o more, f)
    BY <1>8, <2>1, <2>2, <2>3, OrderedOn
  <2>5. Len(stream \o more) = Len(stream) + Len(more)
    BY <1>8, <2>1, ConcatProperties
  <2>. QED
    BY <1>4, <1>8, <2>1, <2>4, <2>5 DEF more
<1>10. SessionInv'
  <2>1. Len(stream') \in Nat
    BY SessionNumbers DEF InputInv, SessionShape
  <2>. QED
    BY <1>2, <1>8, <1>9, <2>1 DEF SessionInv, f
<1>11. TypedBy(stream', f)
  BY <1>9 DEF Ordered, TypedBy
<1>12. bytes = << >> => stream' = stream
  <2>1. CASE bytes = << >>
    <3>1. ItemsAt(bytes, f) = << >>
      BY <2>1 DEF ItemsAt
    <3>. QED
      BY <1>4, <1>8, <3>1, ConcatEmptySeq
  <2>. QED
    BY <2>1
<1>13. d.pr.sent = remote.sent /\ d.pr.late = remote.echo
  BY <1>2 DEF PauseInv
<1>14. d'.pr.wait # 0 => TypedBy(stream', d'.pr.wait)
  <2>1. CASE d'.pr.wait = d.pr.sent + 1
    BY <1>11, <1>13, <2>1 DEF f
  <2>2. CASE d'.pr.wait = d.pr.wait /\ bytes = << >>
    BY <1>2, <1>12, <2>2 DEF PauseInv
  <2>3. CASE d.pr.pref = "never"
    BY <1>2, <1>5, <1>6, <2>3 DEF PauseInv
  <2>. QED
    BY <1>5, <1>6, <2>1, <2>2, <2>3
<1>15. PauseInv'
  <2>1. d'.pr.sent = d.pr.sent /\ d'.pr.late = d.pr.late /\ d'.pr.pref = d.pr.pref
        /\ (d.pr.pref = "never" => d'.pr.wait = d.pr.wait)
    BY <1>5, <1>6
  <2>. QED
    BY <1>2, <1>13, <1>14, <2>1 DEF PauseInv
<1>16. d.pr.wait # 0 => d'.pr.wait # 0
  <2>1. d'.pr.wait \in {d.pr.wait, remote.sent + 1}
    BY <1>5, <1>6, <1>13
  <2>. QED
    BY <1>8, <2>1
<1>. QED
  BY <1>7, <1>10, <1>15, <1>16 DEF MainInv

\* No step breaks the invariant.
LEMMA MainInvNext == MainInv /\ [Next]_vars => MainInv'
<1>. SUFFICES ASSUME MainInv, [Next]_vars PROVE MainInv'
  OBVIOUS
<1>1. InputInv'
  BY InputInvNext DEF MainInv
<1>. QED
  BY <1>1, MainInvAdapt, MainInvPoll, MainInvTick, MainInvStdin, MainInvResize, MainInvEnd,
     MainInvDrain DEF Next

\* It implies both state properties.
LEMMA MainInvImplies == MainInv => TypeOK /\ CellsAreCurrent
<1>. SUFFICES ASSUME MainInv PROVE TypeOK /\ CellsAreCurrent
  OBVIOUS
<1>1. PipeInv(d) /\ SessionShape /\ SessionInv /\ d.notice \in Notices \cup {NoNotice}
  BY DEF MainInv, DisplayInv, InputInv
<1>2. PredictorInv(d.pr, d.host.size) /\ d.host.size \in Sizes
  BY <1>1 DEF PipeInv, Sized, ScreenOK
<1>3. PredictorOK(d.pr, d.host.size)
  BY <1>2, PredictorInvOK
<1>4. TypeOK
  BY <1>1, <1>3 DEF TypeOK, SessionShape, SessionInv
<1>5. CellsAreCurrent
  BY <1>1 DEF PipeInv, Current, CellsAreCurrent
<1>. QED
  BY <1>4, <1>5

\* The invariant holds of every loop.
THEOREM MainInvariance == Spec => []MainInv
BY MainInvInit, MainInvNext, PTL DEF Spec

\* In every loop, whatever is typed, resized and shown in whatever order:
\* predictions stay on the screen, none is judged at a frame beyond the next
\* or tagged with an epoch that has not begun, the newest predicted cursor is
\* the current one, and confirmed frames never run ahead of those sent.
THEOREM MainIsTyped == Spec => []TypeOK
<1>1. MainInv => TypeOK
  BY MainInvImplies
<1>. QED
  BY <1>1, MainInvariance, PTL

\* The terminal shows the cells of the host's screen, the predictions and the
\* notice as they are after every step: set_srtt, tick, set_frames,
\* set_notification, resize, on_host_frame and on_keystroke paint what they
\* change, and what they do not paint changes no cell.
THEOREM CellsStayCurrent == Spec => []CellsAreCurrent
<1>1. MainInv => CellsAreCurrent
  BY MainInvImplies
<1>. QED
  BY <1>1, MainInvariance, PTL

\* What the frames up to f do not carry comes after what they do.
LEMMA CarriedFirst ==
    ASSUME SessionShape, Ordered(stream, remote.sent + 1), NEW f \in Nat, NEW n \in Nat,
           CarriedBy(f) <= n, NEW i \in DOMAIN stream, i > n
    PROVE  stream[i].frame > f
<1>1. /\ DOMAIN stream = 1 .. Len(stream) /\ Len(stream) \in Nat
      /\ \A k \in 1 .. Len(stream) : stream[k].frame \in Nat
  BY SessionNumbers
<1>. SUFFICES ASSUME stream[i].frame <= f PROVE FALSE
  BY <1>1
<1>. DEFINE carried == {k \in DOMAIN stream : stream[k].frame <= f}
<1>2. 1 .. i \subseteq carried
  <2>1. SUFFICES ASSUME NEW k \in 1 .. i PROVE k \in carried
    OBVIOUS
  <2>2. k \in 1 .. Len(stream) /\ k <= i /\ i \in 1 .. Len(stream)
    BY <1>1
  <2>3. stream[k].frame <= stream[i].frame
    BY <2>2 DEF Ordered
  <2>. QED
    BY <1>1, <2>2, <2>3
<1>3. IsFiniteSet(1 .. Len(stream)) /\ IsFiniteSet(1 .. i) /\ Cardinality(1 .. i) = i
  BY <1>1, FS_Interval
<1>4. carried \subseteq 1 .. Len(stream)
  BY <1>1
<1>. HIDE DEF carried
<1>5. IsFiniteSet(carried)
  BY <1>3, <1>4, FS_Subset
<1>6. Cardinality(1 .. i) <= Cardinality(carried) /\ Cardinality(carried) \in Nat
  BY <1>2, <1>5, FS_Subset, FS_CardinalityType
<1>7. Cardinality(carried) <= n
  BY DEF CarriedBy, carried
<1>. QED
  BY <1>1, <1>3, <1>6, <1>7

\* A pause ends in a poll that brought all that was typed.
LEMMA PauseEnds ==
    ASSUME MainInv, [Next]_vars, d.pr.wait # 0, d'.pr.wait = 0,
           NEW i \in DOMAIN stream, i > remote'.done
    PROVE  stream[i].byte = "resize"
<1>1. InputInv' /\ SessionShape /\ SessionInv /\ PauseInv
  BY InputInvNext DEF MainInv, InputInv
<1>2. Poll
  BY <1>1, MainInvAdapt, MainInvTick, MainInvStdin, MainInvResize, MainInvEnd, MainInvDrain DEF Next
<1>. DEFINE r == remote'
<1>3. r \in PollResults /\ r.echo >= d.pr.wait
  BY <1>1, <1>2, MainInvPoll
<1>4. r.echo \in Nat /\ r.done \in Nat /\ CarriedBy(r.echo) <= r.done
  <2>. HIDE DEF r
  <2>. QED
    BY <1>1, <1>3, PollNumbers
<1>5. stream[i].frame > r.echo
  BY <1>1, <1>4, CarriedFirst DEF SessionInv
<1>6. DOMAIN stream = 1 .. Len(stream) /\ stream[i].frame \in Nat
  BY <1>1, SessionNumbers
<1>7. TypedBy(stream, d.pr.wait)
  BY <1>1 DEF PauseInv
<1>8. d.pr.wait \in Nat
  BY DEF MainInv, DisplayInv, PipeInv, Sized, PredictorInv, Guessing, Numbers
<1>. QED
  BY <1>3, <1>4, <1>5, <1>6, <1>7, <1>8 DEF TypedBy

\* However frames are numbered, flushed and acknowledged: after an erasure the
\* predictor starts again only from a screen that answers all input typed
\* meanwhile, for the frame it waits for is past all of it.
THEOREM PausesEndInformed == Spec => ResumesInformed
<1>1. MainInv /\ [Next]_vars =>
        [d.pr.wait # 0 /\ d'.pr.wait = 0 =>
           \A i \in DOMAIN stream : i > remote'.done => stream[i].byte = "resize"]_vars
  BY PauseEnds
<1>. QED
  BY <1>1, MainInvariance, PTL DEF Spec, ResumesInformed

-----------------------------------------------------------------------------
(***************************************************************************)
(* What the application has shown.  Where it does not prompt it echoes     *)
(* every key, and the screens after each element of the stream differ only *)
(* as the key says; a screen that scrolled has its number from there.      *)
(***************************************************************************)

\* It begins with an empty screen.
LEMMA AppOfNothing ==
    ASSUME NEW st \in Seq(Elements)
    PROVE  AppOf(st, 0) = Start(scene.size)
<1>1. SubSeq(st, 1, 0) = << >>
  OBVIOUS
<1>. HIDE DEF Start
<1>. QED
  BY <1>1, AbsorbingNothing DEF AppOf

\* Every element is one step.
LEMMA AppOfNext ==
    ASSUME NEW st \in Seq(Elements), NEW n \in Nat, n + 1 <= Len(st)
    PROVE  AppOf(st, n + 1) = Absorb(AppOf(st, n), st[n + 1])
<1>1. Len(st) \in Nat /\ \A i \in 1 .. Len(st) : st[i] \in Elements
  BY LenProperties
<1>2. n + 1 \in 1 .. Len(st) /\ st[n + 1] \in Elements
  BY <1>1
<1>3. SubSeq(st, 1, n) \in Seq(Elements) /\ SubSeq(st, 1, n + 1) = Append(SubSeq(st, 1, n), st[n + 1])
  <2>. DEFINE a == SubSeq(st, 1, n)
              b == SubSeq(st, 1, n + 1)
  <2>1. /\ a \in Seq(Elements) /\ Len(a) = n /\ \A i \in 1 .. n : a[i] = st[i]
    BY <1>1, SubSeqProperties
  <2>2. /\ b \in Seq(Elements) /\ Len(b) = n + 1 /\ \A i \in 1 .. n + 1 : b[i] = st[i]
    BY <1>1, SubSeqProperties
  <2>. HIDE DEF a, b
  <2>3. Append(a, st[n + 1]) \in Seq(Elements) /\ Len(Append(a, st[n + 1])) = n + 1
    BY <1>2, <2>1, AppendProperties
  <2>4. ASSUME NEW i \in 1 .. n + 1
        PROVE  Append(a, st[n + 1])[i] = b[i]
    BY <1>2, <2>1, <2>2, AppendProperties
  <2>5. b = Append(a, st[n + 1])
    BY <2>2, <2>3, <2>4, SeqEqual
  <2>. QED
    BY <2>1, <2>5 DEF a, b
<1>. DEFINE b == Start(scene.size)
            a == SubSeq(st, 1, n)
            e == st[n + 1]
<1>4. AppOf(st, n) = FoldLeft(Absorb, b, a) /\ AppOf(st, n + 1) = FoldLeft(Absorb, b, SubSeq(st, 1, n + 1))
  BY DEF AppOf
<1>. HIDE DEF a, b, e
<1>5. a \in Seq(Elements) /\ e \in Elements /\ SubSeq(st, 1, n + 1) = Append(a, e)
  BY <1>2, <1>3 DEF a, e
<1>6. FoldLeft(Absorb, b, Append(a, e)) = Absorb(FoldLeft(Absorb, b, a), e)
  BY <1>5, AbsorbingUnrolls
<1>. QED
  BY <1>4, <1>5, <1>6 DEF e

\* What is sent later changes no earlier screen.
LEMMA AppOfLonger ==
    ASSUME NEW st \in Seq(Elements), NEW more \in Seq(Elements), NEW n \in 0 .. Len(st)
    PROVE  AppOf(st \o more, n) = AppOf(st, n)
<1>. DEFINE y == st \o more
<1>1. /\ Len(st) \in Nat /\ Len(more) \in Nat /\ Len(y) = Len(st) + Len(more) /\ y \in Seq(Elements)
      /\ \A i \in 1 .. Len(y) : y[i] = IF i <= Len(st) THEN st[i] ELSE more[i - Len(st)]
  BY ConcatProperties, LenProperties
<1>. HIDE DEF y
<1>2. \A i \in 1 .. n : y[i] = st[i]
  BY <1>1
<1>3. SubSeq(y, 1, n) = SubSeq(st, 1, n)
  BY <1>2
<1>. QED
  BY <1>3 DEF AppOf, y

\* A line feed moves the cursor alone, or scrolls.
LEMMA LineFeedIs ==
    ASSUME NEW scr, Glyphs(scr), NEW n, NEW t, t = LineFeed(scr, n)
    PROVE  /\ Glyphs(t) /\ t.size = scr.size
           /\ scr.cur[2] < BottomRow(scr) =>
                 t.cell = scr.cell /\ t.gen = scr.gen /\ t.cur = <<0, scr.cur[2] + 1>>
           /\ ~(scr.cur[2] < BottomRow(scr)) => t.gen = n /\ t.cur = <<0, scr.cur[2]>>
<1>1. ScreenOK(scr) /\ ScreenOK(t)
  BY LineFeedOK DEF Glyphs
<1>2. scr = [size |-> scr.size, cell |-> scr.cell, cur |-> scr.cur, gen |-> scr.gen]
  BY <1>1 DEF ScreenOK
<1>3. CASE scr.cur[2] < BottomRow(scr)
  <2>1. t = [size |-> scr.size, cell |-> scr.cell, cur |-> <<0, scr.cur[2] + 1>>, gen |-> scr.gen]
    BY <1>2, <1>3 DEF LineFeed
  <2>2. t.size = scr.size /\ t.cell = scr.cell /\ t.gen = scr.gen /\ t.cur = <<0, scr.cur[2] + 1>>
    BY <2>1
  <2>. QED
    BY <1>1, <1>3, <2>2 DEF Glyphs
<1>4. CASE ~(scr.cur[2] < BottomRow(scr))
  <2>. DEFINE cell == [pos \in DOMAIN scr.cell |->
                          IF pos[2] = BottomRow(scr) THEN Empty
                          ELSE scr.cell[<<pos[1], pos[2] + 1>>]]
  <2>1. t = [scr EXCEPT !.cur = <<0, scr.cur[2]>>, !.gen = n, !.cell = cell]
    BY <1>4 DEF LineFeed
  <2>2. DOMAIN cell = DOMAIN scr.cell
    OBVIOUS
  <2>. HIDE DEF cell
  <2>3. t = [size |-> scr.size, cell |-> cell, cur |-> <<0, scr.cur[2]>>, gen |-> n]
    BY <1>2, <2>1
  <2>4. t.size = scr.size /\ t.cell = cell /\ t.gen = n /\ t.cur = <<0, scr.cur[2]>>
    BY <2>3
  <2>. QED
    BY <1>1, <1>4, <2>2, <2>4 DEF Glyphs
<1>. QED
  BY <1>3, <1>4

\* A glyph drawn in the last column begins a new row.
LEMMA DrawnIs ==
    ASSUME NEW scr, Glyphs(scr), NEW ch, NEW over, NEW n, NEW t, t = Drawn(scr, ch, over, n)
    PROVE  /\ Glyphs(t) /\ t.size = scr.size
           /\ scr.cur[1] # LastColumn(scr) =>
                 /\ t.cell = DrawnCells(scr, ch, over) /\ t.gen = scr.gen
                 /\ t.cur = <<scr.cur[1] + 1, scr.cur[2]>>
           /\ scr.cur[1] = LastColumn(scr) /\ scr.cur[2] < BottomRow(scr) =>
                 /\ t.cell = DrawnCells(scr, ch, over) /\ t.gen = scr.gen
                 /\ t.cur = <<0, scr.cur[2] + 1>>
           /\ scr.cur[1] = LastColumn(scr) /\ ~(scr.cur[2] < BottomRow(scr)) =>
                 t.gen = n /\ t.cur = <<0, scr.cur[2]>>
<1>. DEFINE cell == DrawnCells(scr, ch, over)
            put == [scr EXCEPT !.cell = cell]
<1>1. ScreenOK(scr) /\ ScreenOK(t)
  BY DrawnOK DEF Glyphs
<1>2. scr = [size |-> scr.size, cell |-> scr.cell, cur |-> scr.cur, gen |-> scr.gen]
      /\ scr.size \in Sizes /\ scr.cur \in PositionsOf(scr.size)
  BY <1>1 DEF ScreenOK
<1>3. t = IF scr.cur[1] = LastColumn(scr) THEN LineFeed(put, n)
          ELSE [put EXCEPT !.cur = <<put.cur[1] + 1, put.cur[2]>>]
  BY DEF Drawn, DrawnCells
<1>4. DOMAIN cell = PositionsOf(scr.size)
  BY DEF DrawnCells, Glyphs
<1>. HIDE DEF cell
<1>5. put = [size |-> scr.size, cell |-> cell, cur |-> scr.cur, gen |-> scr.gen]
  BY <1>2
<1>. HIDE DEF put
<1>6. Glyphs(put) /\ put.size = scr.size /\ put.cur = scr.cur /\ put.gen = scr.gen /\ put.cell = cell
      /\ BottomRow(put) = BottomRow(scr)
  BY <1>2, <1>4, <1>5, ScreenOf DEF Glyphs, BottomRow
<1>7. CASE scr.cur[1] # LastColumn(scr)
  <2>1. t = [size |-> scr.size, cell |-> cell, cur |-> <<scr.cur[1] + 1, scr.cur[2]>>, gen |-> scr.gen]
    BY <1>3, <1>5, <1>7
  <2>2. t.size = scr.size /\ t.cell = cell /\ t.gen = scr.gen /\ t.cur = <<scr.cur[1] + 1, scr.cur[2]>>
    BY <2>1
  <2>. QED
    BY <1>1, <1>4, <1>7, <2>2 DEF Glyphs, cell
<1>8. CASE scr.cur[1] = LastColumn(scr)
  <2>1. t = LineFeed(put, n)
    BY <1>3, <1>8
  <2>2. /\ Glyphs(t) /\ t.size = scr.size
        /\ scr.cur[2] < BottomRow(scr) =>
              t.cell = cell /\ t.gen = scr.gen /\ t.cur = <<0, scr.cur[2] + 1>>
        /\ ~(scr.cur[2] < BottomRow(scr)) => t.gen = n /\ t.cur = <<0, scr.cur[2]>>
    <3>1. /\ Glyphs(t) /\ t.size = put.size
          /\ put.cur[2] < BottomRow(put) =>
                t.cell = put.cell /\ t.gen = put.gen /\ t.cur = <<0, put.cur[2] + 1>>
          /\ ~(put.cur[2] < BottomRow(put)) => t.gen = n /\ t.cur = <<0, put.cur[2]>>
      BY <1>6, <2>1, LineFeedIs
    <3>. QED
      BY <1>6, <2>1, <3>1
  <2>. QED
    BY <1>8, <2>2 DEF cell
<1>. QED
  BY <1>7, <1>8

\* It changes the size of no screen, and marks those it scrolls.
LEMMA KeyOnIs ==
    ASSUME NEW scr, Glyphs(scr), NEW token, NEW n, NEW t, t = KeyOn(scr, token, n)
    PROVE  Glyphs(t) /\ t.size = scr.size /\ t.gen \in {scr.gen, n}
<1>1. ScreenOK(scr)
  BY DEF Glyphs
<1>2. scr = [size |-> scr.size, cell |-> scr.cell, cur |-> scr.cur, gen |-> scr.gen]
  BY <1>1 DEF ScreenOK
<1>3. CASE token \in {"none", "ctl", "wide", "sequence"}
  BY <1>3 DEF KeyOn
<1>4. CASE token = "cr"
  BY <1>4, LineFeedIs DEF KeyOn
<1>5. CASE token \notin {"none", "ctl", "wide", "sequence", "cr"}
  <2>1. t = Obey(scr, token, scene.over, n)
    BY <1>5 DEF KeyOn
  <2>2. ScreenOK(t)
    BY <1>1, <2>1, ObeyOK
  <2>3. CASE token = "erase"
    <3>1. t = Rubbed(scr)
      BY <2>1, <2>3 DEF Obey
    <3>. DEFINE at == LeftOf(scr.cur)
                cell == [pos \in DOMAIN scr.cell |->
                           IF pos \notin RowFrom(at, scr) THEN scr.cell[pos]
                           ELSE IF pos[1] = LastColumn(scr) THEN Empty
                           ELSE scr.cell[<<pos[1] + 1, pos[2]>>]]
    <3>2. t = scr \/ t = [scr EXCEPT !.cur = at, !.cell = cell]
      BY <3>1 DEF Rubbed
    <3>3. DOMAIN cell = DOMAIN scr.cell
      OBVIOUS
    <3>. HIDE DEF at, cell
    <3>4. t = scr \/ t = [size |-> scr.size, cell |-> cell, cur |-> at, gen |-> scr.gen]
      BY <1>2, <3>2
    <3>. QED
      BY <2>2, <3>3, <3>4 DEF Glyphs
  <2>4. CASE token \in {"left", "right"}
    <3>1. \E cur : t = scr \/ t = [scr EXCEPT !.cur = cur]
      BY <2>1, <2>4 DEF Obey
    <3>2. \E cur : t = scr \/ t = [size |-> scr.size, cell |-> scr.cell, cur |-> cur, gen |-> scr.gen]
      BY <1>2, <3>1
    <3>. QED
      BY <2>2, <3>2 DEF Glyphs
  <2>5. CASE token \notin {"erase", "left", "right"}
    <3>1. t = Drawn(scr, token, scene.over, n)
      BY <2>1, <2>5 DEF Obey
    <3>. QED
      BY <3>1, DrawnIs
  <2>. QED
    BY <2>3, <2>4, <2>5
<1>. QED
  BY <1>3, <1>4, <1>5

\* Starting,
LEMMA EchoStarts ==
    ASSUME NEW size \in Sizes, scene.prompts = FALSE
    PROVE  Echoing(Start(size), 0) /\ Start(size).scr.size = size
<1>. DEFINE scr == EmptyScreen(size)
<1>1. ScreenOK(scr)
  BY EmptyScreenOK
<1>2. DOMAIN scr.cell = PositionsOf(size) /\ scr.gen = 0 /\ scr.size = size
  BY DEF EmptyScreen
<1>. HIDE DEF scr
<1>3. Start(size) = [scr |-> scr, held |-> << >>, unseen |-> FALSE, prompts |-> FALSE, n |-> 0]
  BY DEF Start, scr
<1>. DEFINE s == Start(size)
<1>. HIDE DEF s
<1>4. s.scr = scr /\ s.n = 0 /\ s.prompts = FALSE /\ s.unseen = FALSE
      /\ s = [scr |-> s.scr, held |-> s.held, unseen |-> s.unseen, prompts |-> s.prompts, n |-> s.n]
  BY <1>3 DEF s
<1>5. Echoing(s, 0) /\ s.scr.size = size
  BY <1>1, <1>2, <1>4 DEF Echoing, AppOK, Glyphs
<1>. QED
  BY <1>5 DEF s

\* it acts on a key at once,
LEMMA EchoesKey ==
    ASSUME NEW n \in Nat, NEW app, Echoing(app, n), NEW item, item.byte # "resize",
           NEW r, r = ReadByte(app.held, item.byte), NEW next, next = Absorb(app, item)
    PROVE  /\ Echoing(next, n + 1) /\ next.held = r.held
           /\ next.scr = KeyOn(app.scr, r.token, n + 1)
<1>1. /\ app = [scr |-> app.scr, held |-> app.held, unseen |-> app.unseen, prompts |-> app.prompts, n |-> app.n]
      /\ Glyphs(app.scr) /\ app.scr.gen \in 0 .. n
      /\ app.n = n /\ app.unseen = FALSE /\ app.prompts = FALSE
  BY DEF Echoing, AppOK
<1>. DEFINE k == app.n + 1
            held == r.held
            one == [app EXCEPT !.n = k]
            fed == [one EXCEPT !.held = held]
            scr == KeyOn(app.scr, r.token, k)
<1>2. next = Act(fed, r.token, scene.over, k)
  BY DEF Absorb
<1>0. k = n + 1
  BY <1>1
<1>. HIDE DEF k, held
<1>3. one = [scr |-> app.scr, held |-> app.held, unseen |-> app.unseen, prompts |-> app.prompts, n |-> k]
  BY <1>1
<1>. HIDE DEF one
<1>4. fed = [scr |-> app.scr, held |-> held, unseen |-> app.unseen, prompts |-> app.prompts, n |-> k]
  BY <1>3
<1>. HIDE DEF fed, scr
<1>5. next = [scr |-> scr, held |-> held, unseen |-> app.unseen, prompts |-> app.prompts, n |-> k]
  <2>1. CASE r.token \in {"none", "ctl", "wide", "sequence"}
    <3>1. next = fed
      BY <1>2, <2>1 DEF Act
    <3>2. scr = app.scr
      BY <2>1 DEF scr, KeyOn
    <3>. QED
      BY <1>4, <3>1, <3>2
  <2>2. CASE r.token = "cr"
    <3>. DEFINE moved == LineFeed(fed.scr, k)
                off == fed.prompts /\ ~fed.unseen
    <3>1. next = [fed EXCEPT !.scr = moved, !.unseen = off]
      BY <1>2, <2>2 DEF Act
    <3>0. fed.prompts = app.prompts /\ fed.unseen = app.unseen /\ fed.scr = app.scr
      BY <1>4
    <3>2. moved = scr /\ off = app.unseen
      BY <1>1, <3>0, <2>2 DEF scr, KeyOn
    <3>. HIDE DEF moved, off
    <3>. DEFINE half == [fed EXCEPT !.scr = scr]
    <3>3. half = [scr |-> scr, held |-> held, unseen |-> app.unseen, prompts |-> app.prompts, n |-> k]
      BY <1>4
    <3>4. next = [half EXCEPT !.unseen = app.unseen]
      BY <3>1, <3>2
    <3>. HIDE DEF half
    <3>. QED
      BY <3>3, <3>4
  <2>3. CASE r.token \notin {"none", "ctl", "wide", "sequence", "cr"}
    <3>. DEFINE shown == Obey(fed.scr, r.token, scene.over, k)
    <3>1. next = IF fed.unseen THEN fed ELSE [fed EXCEPT !.scr = shown]
      BY <1>2, <2>3 DEF Act
    <3>0. fed.unseen = app.unseen /\ fed.scr = app.scr
      BY <1>4
    <3>2. shown = scr /\ fed.unseen = FALSE
      BY <1>1, <3>0, <2>3 DEF scr, KeyOn
    <3>. HIDE DEF shown
    <3>3. next = [fed EXCEPT !.scr = scr]
      BY <3>1, <3>2
    <3>. QED
      BY <1>4, <3>3
  <2>. QED
    BY <2>1, <2>2, <2>3
<1>6. Glyphs(scr) /\ scr.gen \in {app.scr.gen, k}
  BY <1>1, KeyOnIs DEF scr
<1>7. scr.gen \in 0 .. n + 1
  BY <1>0, <1>1, <1>6
<1>8. /\ next.scr = scr /\ next.held = held /\ next.unseen = app.unseen /\ next.prompts = app.prompts
      /\ next.n = k
  BY <1>5
<1>9. AppOK(next)
  BY <1>5, <1>6, <1>8 DEF AppOK, Glyphs
<1>. QED
  BY <1>0, <1>1, <1>6, <1>7, <1>8, <1>9 DEF Echoing, scr, held

\* and takes a new size as one that scrolled.
LEMMA EchoesSize ==
    ASSUME NEW n \in Nat, NEW app, Echoing(app, n), NEW item, item.byte = "resize", item.size \in Sizes,
           NEW next, next = Absorb(app, item),
           NEW scr, scr = ResizeScreen(app.scr, item.size)
    PROVE  /\ Echoing(next, n + 1) /\ next.held = app.held
           /\ next.scr.size = item.size /\ next.scr.cell = scr.cell /\ next.scr.cur = scr.cur
           /\ next.scr.gen = n + 1
<1>1. /\ app = [scr |-> app.scr, held |-> app.held, unseen |-> app.unseen, prompts |-> app.prompts, n |-> app.n]
      /\ ScreenOK(app.scr) /\ app.n = n /\ app.unseen = FALSE /\ app.prompts = FALSE
  BY DEF Echoing, AppOK
<1>2. ScreenOK(scr) /\ scr.size = item.size
  BY <1>1, ResizeScreenOK
<1>3. DOMAIN scr.cell = PositionsOf(item.size)
  BY DEF ResizeScreen
<1>. DEFINE k == n + 1
            marked == [scr EXCEPT !.gen = k]
<1>4. next = [[app EXCEPT !.n = k] EXCEPT !.scr = marked]
  <2>1. app.n + 1 = k
    BY <1>1
  <2>2. next = [app EXCEPT !.n = app.n + 1, !.scr = [ResizeScreen(app.scr, item.size) EXCEPT !.gen = app.n + 1]]
    BY DEF Absorb
  <2>. HIDE DEF k
  <2>. QED
    BY <2>1, <2>2
<1>5. marked = [size |-> scr.size, cell |-> scr.cell, cur |-> scr.cur, gen |-> k]
  BY <1>2 DEF ScreenOK
<1>. HIDE DEF marked, k
<1>6. next = [scr |-> marked, held |-> app.held, unseen |-> app.unseen, prompts |-> app.prompts, n |-> k]
  <2>. DEFINE one == [app EXCEPT !.n = k]
  <2>2. one = [scr |-> app.scr, held |-> app.held, unseen |-> app.unseen, prompts |-> app.prompts, n |-> k]
    BY <1>1
  <2>3. next = [one EXCEPT !.scr = marked]
    BY <1>4
  <2>. HIDE DEF one
  <2>. QED
    BY <2>2, <2>3
<1>7. /\ next.scr = marked /\ next.held = app.held /\ next.unseen = app.unseen /\ next.prompts = app.prompts
      /\ next.n = k
  BY <1>6
<1>8. marked.size = item.size /\ marked.cell = scr.cell /\ marked.cur = scr.cur /\ marked.gen = k
  BY <1>2, <1>5
<1>9. Glyphs(marked)
  <2>1. ScreenOK(marked)
    BY <1>2, <1>5, ScreenOf DEF ScreenOK
  <2>. QED
    BY <1>3, <1>8, <2>1 DEF Glyphs
<1>10. AppOK(next)
  BY <1>6, <1>7, <1>9 DEF AppOK, Glyphs
<1>11. k = n + 1 /\ k \in 0 .. n + 1
  BY DEF k
<1>. QED
  BY <1>1, <1>7, <1>8, <1>9, <1>10, <1>11 DEF Echoing

\* So it echoes all along the stream.
LEMMA EchoesAll ==
    ASSUME NEW st \in Seq(Elements), scene.size \in Sizes, scene.prompts = FALSE, NEW n \in 0 .. Len(st)
    PROVE  Echoing(AppOf(st, n), n)
<1>. DEFINE S == {k \in Nat : k <= Len(st) => Echoing(AppOf(st, k), k)}
<1>1. Len(st) \in Nat /\ \A i \in 1 .. Len(st) : st[i] \in Elements
  BY LenProperties
<1>2. 0 \in S
  BY AppOfNothing, EchoStarts
<1>3. ASSUME NEW k \in Nat, k \in S
      PROVE  k + 1 \in S
  <2>. SUFFICES ASSUME k + 1 <= Len(st) PROVE Echoing(AppOf(st, k + 1), k + 1)
    OBVIOUS
  <2>. DEFINE app == AppOf(st, k)
              next == AppOf(st, k + 1)
              item == st[k + 1]
  <2>1. Echoing(app, k)
    BY <1>1, <1>3
  <2>2. next = Absorb(app, item)
    BY <1>1, AppOfNext
  <2>3. item \in Elements
    BY <1>1
  <2>. HIDE DEF app, next, item
  <2>4. CASE item.byte = "resize"
    <3>1. item.size \in Sizes
      BY <2>3 DEF Elements
    <3>. DEFINE scr == ResizeScreen(app.scr, item.size)
    <3>2. scr = ResizeScreen(app.scr, item.size)
      OBVIOUS
    <3>. HIDE DEF scr
    <3>3. Echoing(next, k + 1)
      BY <2>1, <2>2, <2>4, <3>1, <3>2, EchoesSize
    <3>. QED
      BY <3>3 DEF next
  <2>5. CASE item.byte # "resize"
    <3>. DEFINE r == ReadByte(app.held, item.byte)
    <3>1. r = ReadByte(app.held, item.byte)
      OBVIOUS
    <3>. HIDE DEF r
    <3>2. Echoing(next, k + 1)
      BY <2>1, <2>2, <2>5, <3>1, EchoesKey
    <3>. QED
      BY <3>2 DEF next
  <2>. QED
    BY <2>4, <2>5
<1>4. n \in S
  <2>1. n \in Nat
    BY <1>1
  <2>. HIDE DEF S
  <2>. QED
    BY <1>2, <1>3, <2>1, InductiveSet
<1>. QED
  BY <1>1, <1>4

-----------------------------------------------------------------------------
(***************************************************************************)
(* One key: what is predicted for it, and what the application does.       *)
(***************************************************************************)

\* The same cells,
LEMMA SameCellsTell ==
    ASSUME NEW p, NEW q, NEW s, NEW t, NEW host, q.cells = p.cells, t.gen = s.gen => t.cell = s.cell
    PROVE  Adds(p, q) /\ Tells(p, q, s, t, host)
BY DEF Adds, Tells

\* one cell guessed,
LEMMA PlaceIs ==
    ASSUME NEW p, NEW scr, Guessing(p, scr.size), p.epoch <= Ceiling(p), NEW ch,
           NEW q, q = Place(p, ch, scr)
    PROVE  /\ Guessing(q, scr.size) /\ q.epoch <= Ceiling(q) /\ Keeps(p, q)
           /\ q.cursors = p.cursors /\ q.active = p.active /\ q.cur = p.cur /\ q.held = p.held
           /\ DOMAIN q.cells = DOMAIN p.cells \cup {p.cur}
           /\ \A pos \in DOMAIN q.cells : pos # p.cur => q.cells[pos] = p.cells[pos]
           /\ q.cells[p.cur].ch = ch /\ q.cells[p.cur].exp = p.sent + 1
<1>. DEFINE new == [pos \in {p.cur} |-> Guess(p, pos, ch, FALSE, scr)]
<1>1. q = Overwritten(p, new)
  BY DEF Place
<1>2. DOMAIN new \subseteq PositionsOf(scr.size)
  BY DEF Guessing
<1>3. \A pos \in DOMAIN new : GuessOK(new[pos], Ceiling(p), p.sent)
  BY GuessIsOK
<1>4. DOMAIN new = {p.cur} /\ new[p.cur] = Guess(p, p.cur, ch, FALSE, scr)
  OBVIOUS
<1>. HIDE DEF new
<1>5. /\ Guessing(q, scr.size) /\ Keeps(p, q)
      /\ q.epoch = p.epoch /\ q.confirmed = p.confirmed
      /\ q.cur = p.cur /\ q.cursors = p.cursors
      /\ q.active = p.active /\ q.held = p.held
      /\ DOMAIN q.cells = DOMAIN p.cells \cup DOMAIN new
      /\ \A pos \in DOMAIN q.cells :
            q.cells[pos] = IF pos \in DOMAIN new THEN new[pos] ELSE p.cells[pos]
  BY <1>1, <1>2, <1>3, OverwrittenOK
<1>6. q.epoch <= Ceiling(q)
  BY <1>5 DEF Ceiling, Keeps
<1>7. q.cells[p.cur].ch = ch /\ q.cells[p.cur].exp = p.sent + 1
  <2>1. q.cells[p.cur] = Guess(p, p.cur, ch, FALSE, scr)
    BY <1>4, <1>5
  <2>. QED
    BY <2>1 DEF Guess, NextFrame
<1>. QED
  BY <1>4, <1>5, <1>6, <1>7

\* and a new row, cells left alone unless the last one scrolls.
LEMMA NewlineIs ==
    ASSUME NEW p, NEW scr, ScreenOK(scr), Guessing(p, scr.size), p.epoch <= Ceiling(p)
    PROVE  LET q == Newline(p, scr)
           IN  /\ Newest(q) /\ q.active = TRUE /\ q.held = p.held /\ q.sent = p.sent
               /\ p.cur[2] < BottomRow(scr) => q.cells = p.cells /\ q.cur = <<0, p.cur[2] + 1>>
               /\ ~(p.cur[2] < BottomRow(scr)) => Adds(p, q) /\ q.cur = <<0, p.cur[2]>>
<1>. DEFINE q == Newline(p, scr)
<1>q. q = Newline(p, scr)
  OBVIOUS
<1>. SUFFICES /\ Newest(q) /\ q.active = TRUE /\ q.held = p.held /\ q.sent = p.sent
              /\ p.cur[2] < BottomRow(scr) => q.cells = p.cells /\ q.cur = <<0, p.cur[2] + 1>>
              /\ ~(p.cur[2] < BottomRow(scr)) => Adds(p, q) /\ q.cur = <<0, p.cur[2]>>
  OBVIOUS
<1>. HIDE DEF q
<1>. DEFINE home == <<0, p.cur[2]>>
            bare == [pos \in RowFrom(home, scr) |-> Guess(p, pos, Empty, FALSE, scr)]
            m == Overwritten(p, bare)
<1>1. /\ scr.size \in Sizes /\ scr.size[1] \in Nat \ {0} /\ scr.size[2] \in Nat \ {0}
      /\ p.cur[2] \in 0 .. scr.size[2] - 1
  BY PositionsAre DEF ScreenOK, Guessing
<1>2. home \in PositionsOf(scr.size)
  <2>1. 0 \in 0 .. scr.size[1] - 1
    BY <1>1
  <2>. QED
    BY <1>1, <2>1, PositionsAre
<1>0. p.cur[2] >= BottomRow(scr) <=> ~(p.cur[2] < BottomRow(scr))
  BY <1>1 DEF BottomRow
<1>3. CASE ~(p.cur[2] < BottomRow(scr))
  <2>1. DOMAIN bare \subseteq PositionsOf(scr.size)
    <3>. HIDE DEF home
    <3>. QED
      BY <1>2, RowIsThere
  <2>2. \A pos \in DOMAIN bare : GuessOK(bare[pos], Ceiling(p), p.sent)
    BY GuessIsOK
  <2>3. \A pos \in DOMAIN bare : bare[pos].exp = p.sent + 1
    BY DEF Guess, NextFrame
  <2>. HIDE DEF home, bare
  <2>4. /\ Guessing(m, scr.size) /\ Keeps(p, m)
        /\ m.epoch = p.epoch /\ m.confirmed = p.confirmed /\ m.held = p.held
        /\ DOMAIN m.cells = DOMAIN p.cells \cup DOMAIN bare
        /\ \A pos \in DOMAIN m.cells :
              m.cells[pos] = IF pos \in DOMAIN bare THEN bare[pos] ELSE p.cells[pos]
    BY <2>1, <2>2, OverwrittenOK
  <2>5. q = MoveTo(m, home)
    BY <1>q, <1>0, <1>3 DEF Newline, home, bare
  <2>. HIDE DEF m
  <2>6. m.epoch <= Ceiling(m)
    BY <2>4 DEF Ceiling, Keeps
  <2>7. /\ Newest(q) /\ q.cells = m.cells /\ q.cur = home /\ q.active = TRUE /\ q.held = m.held
        /\ Keeps(m, q)
    <3>1. Guessing(m, scr.size) /\ m.epoch <= Ceiling(m) /\ home \in PositionsOf(scr.size) /\ q = MoveTo(m, home)
      BY <1>2, <2>4, <2>5, <2>6
    <3>2. LET r == MoveTo(m, home)
          IN  /\ Newest(r) /\ r.cells = m.cells /\ r.cur = home /\ r.active = TRUE /\ r.held = m.held
              /\ Keeps(m, r)
      BY <3>1, MoveToOK
    <3>. QED
      BY <3>1, <3>2
  <2>8. Adds(p, q)
    BY <2>3, <2>4, <2>7 DEF Adds
  <2>. QED
    BY <1>3, <2>4, <2>7, <2>8 DEF Keeps, home
<1>4. CASE p.cur[2] < BottomRow(scr)
  <2>. DEFINE below == <<0, p.cur[2] + 1>>
  <2>1. below \in PositionsOf(scr.size)
    <3>1. 0 \in 0 .. scr.size[1] - 1 /\ p.cur[2] + 1 \in 0 .. scr.size[2] - 1
      BY <1>1, <1>4 DEF BottomRow
    <3>. QED
      BY <1>1, <3>1, PositionsAre
  <2>2. q = MoveTo(p, below)
    BY <1>q, <1>0, <1>4 DEF Newline
  <2>. HIDE DEF below
  <2>3. LET r == MoveTo(p, below)
        IN  /\ Newest(r) /\ r.cells = p.cells /\ r.cur = below /\ r.active = TRUE /\ r.held = p.held
            /\ Keeps(p, r)
    BY <2>1, MoveToOK
  <2>. QED
    BY <1>4, <2>2, <2>3 DEF below, Keeps
<1>. QED
  BY <1>3, <1>4

\* Where a screen ends.
LEMMA SameEnds ==
    ASSUME NEW a, NEW b, a.size = b.size
    PROVE  LastColumn(a) = LastColumn(b) /\ BottomRow(a) = BottomRow(b)
BY DEF LastColumn, BottomRow

\* A new line.
LEMMA NewlineForetold ==
    ASSUME NEW p, NEW s, NEW host, Ready(p, s, host), NEW n, n # s.gen,
           NEW t, t = LineFeed(s, n), NEW q, q = Newline(BecomeTentative(p), host)
    PROVE  Foretold(p, q, s, t, host)
<1>. DEFINE a == BecomeTentative(p)
<1>1. /\ Guessing(p, host.size) /\ p.epoch <= Ceiling(p)
      /\ Glyphs(s) /\ ScreenOK(host) /\ s.size = host.size /\ p.cur = s.cur
  BY DEF Ready, Glyphs
<1>2. /\ Guessing(a, host.size) /\ Keeps(p, a) /\ a.epoch <= Ceiling(a)
      /\ a.cells = p.cells /\ a.cur = p.cur /\ a.held = p.held
  BY <1>1, TentativeIs
<1>3. q = Newline(a, host)
  OBVIOUS
<1>. HIDE DEF a
<1>4. /\ Newest(q) /\ q.active = TRUE /\ q.held = a.held /\ q.sent = a.sent
      /\ a.cur[2] < BottomRow(host) => q.cells = a.cells /\ q.cur = <<0, a.cur[2] + 1>>
      /\ ~(a.cur[2] < BottomRow(host)) => Adds(a, q) /\ q.cur = <<0, a.cur[2]>>
  <2>1. ScreenOK(host) /\ Guessing(a, host.size) /\ a.epoch <= Ceiling(a)
    BY <1>1, <1>2
  <2>2. LET r == Newline(a, host)
        IN  /\ Newest(r) /\ r.active = TRUE /\ r.held = a.held /\ r.sent = a.sent
            /\ a.cur[2] < BottomRow(host) => r.cells = a.cells /\ r.cur = <<0, a.cur[2] + 1>>
            /\ ~(a.cur[2] < BottomRow(host)) => Adds(a, r) /\ r.cur = <<0, a.cur[2]>>
    BY <2>1, NewlineIs
  <2>. QED
    BY <1>3, <2>2
<1>5. /\ s.cur[2] < BottomRow(s) =>
            t.cell = s.cell /\ t.gen = s.gen /\ t.cur = <<0, s.cur[2] + 1>>
      /\ ~(s.cur[2] < BottomRow(s)) => t.gen = n /\ t.cur = <<0, s.cur[2]>>
  BY <1>1, LineFeedIs
<1>6. BottomRow(s) = BottomRow(host)
  BY <1>1, SameEnds
<1>7. t.cur = q.cur
  BY <1>1, <1>2, <1>4, <1>5, <1>6
<1>8. Leads(p, q, s, t)
  BY <1>4, <1>7 DEF Leads
<1>9. Adds(p, q) /\ Tells(p, q, s, t, host)
  <2>1. CASE s.cur[2] < BottomRow(s)
    BY <1>1, <1>2, <1>4, <1>5, <1>6, <2>1, SameCellsTell
  <2>2. CASE ~(s.cur[2] < BottomRow(s))
    <3>1. Adds(p, q)
      BY <1>1, <1>2, <1>4, <1>6, <2>2 DEF Adds, Keeps
    <3>. QED
      BY <1>5, <2>2, <3>1 DEF Tells
  <2>. QED
    BY <2>1, <2>2
<1>. QED
  BY <1>2, <1>4, <1>8, <1>9 DEF Foretold

\* A glyph in the last column.
LEMMA EdgeForetold ==
    ASSUME NEW p, NEW s, NEW host, Ready(p, s, host), NEW n, n # s.gen, NEW ch, NEW over,
           p.cur[1] >= LastColumn(host),
           NEW t, t = Drawn(s, ch, over, n), NEW q, q = PrintGlyph(p, ch, host)
    PROVE  Foretold(p, q, s, t, host)
<1>. DEFINE a == BecomeTentative(p)
            b == Place(a, ch, host)
            c == BecomeTentative(b)
<1>1. /\ Guessing(p, host.size) /\ p.epoch <= Ceiling(p)
      /\ Glyphs(s) /\ ScreenOK(host) /\ s.size = host.size /\ p.cur = s.cur
  BY DEF Ready, Glyphs
<1>2. /\ Guessing(a, host.size) /\ Keeps(p, a) /\ a.epoch <= Ceiling(a)
      /\ a.cells = p.cells /\ a.cur = p.cur /\ a.held = p.held
  BY <1>1, TentativeIs
<1>3. q = Newline(c, host)
  BY DEF PrintGlyph
<1>. HIDE DEF a
<1>4. /\ Guessing(b, host.size) /\ b.epoch <= Ceiling(b) /\ Keeps(a, b)
      /\ b.cur = a.cur /\ b.held = a.held
      /\ DOMAIN b.cells = DOMAIN a.cells \cup {a.cur}
      /\ \A pos \in DOMAIN b.cells : pos # a.cur => b.cells[pos] = a.cells[pos]
      /\ b.cells[a.cur].ch = ch /\ b.cells[a.cur].exp = a.sent + 1
  BY <1>2, PlaceIs
<1>. HIDE DEF b
<1>5. /\ Guessing(c, host.size) /\ Keeps(b, c) /\ c.epoch <= Ceiling(c)
      /\ c.cells = b.cells /\ c.cur = b.cur /\ c.held = b.held
  BY <1>4, TentativeIs
<1>. HIDE DEF c
<1>6. /\ Newest(q) /\ q.active = TRUE /\ q.held = c.held /\ q.sent = c.sent
      /\ c.cur[2] < BottomRow(host) => q.cells = c.cells /\ q.cur = <<0, c.cur[2] + 1>>
      /\ ~(c.cur[2] < BottomRow(host)) => Adds(c, q) /\ q.cur = <<0, c.cur[2]>>
  <2>1. ScreenOK(host) /\ Guessing(c, host.size) /\ c.epoch <= Ceiling(c)
    BY <1>1, <1>5
  <2>2. LET r == Newline(c, host)
        IN  /\ Newest(r) /\ r.active = TRUE /\ r.held = c.held /\ r.sent = c.sent
            /\ c.cur[2] < BottomRow(host) => r.cells = c.cells /\ r.cur = <<0, c.cur[2] + 1>>
            /\ ~(c.cur[2] < BottomRow(host)) => Adds(c, r) /\ r.cur = <<0, c.cur[2]>>
    BY <2>1, NewlineIs
  <2>. QED
    BY <1>3, <2>2
<1>7. LastColumn(s) = LastColumn(host) /\ BottomRow(s) = BottomRow(host)
  BY <1>1, SameEnds
<1>8. s.cur[1] = LastColumn(s)
  <2>1. s.cur[1] \in 0 .. s.size[1] - 1 /\ s.size[1] \in Nat
    BY <1>1, PositionsAre DEF Glyphs, ScreenOK
  <2>. QED
    BY <1>1, <1>7, <2>1 DEF LastColumn
<1>9. /\ s.cur[2] < BottomRow(s) =>
            /\ t.cell = DrawnCells(s, ch, over) /\ t.gen = s.gen
            /\ t.cur = <<0, s.cur[2] + 1>>
      /\ ~(s.cur[2] < BottomRow(s)) => t.gen = n /\ t.cur = <<0, s.cur[2]>>
  BY <1>1, <1>8, DrawnIs
<1>10. t.cur = q.cur
  BY <1>1, <1>2, <1>4, <1>5, <1>6, <1>7, <1>9
<1>11. Leads(p, q, s, t)
  BY <1>6, <1>10 DEF Leads
<1>12. c.sent = p.sent
  BY <1>2, <1>4, <1>5 DEF Keeps
<1>13. /\ DOMAIN c.cells = DOMAIN p.cells \cup {p.cur}
       /\ \A pos \in DOMAIN c.cells : pos # p.cur => c.cells[pos] = p.cells[pos]
       /\ c.cells[p.cur].ch = ch /\ c.cells[p.cur].exp = p.sent + 1
  BY <1>2, <1>4, <1>5 DEF Keeps
<1>14. Adds(p, q)
  BY <1>6, <1>12, <1>13 DEF Adds
<1>15. Tells(p, q, s, t, host)
  <2>1. CASE s.cur[2] < BottomRow(s)
    <3>1. \A pos \in RowFrom(s.cur, s) : pos = <<LastColumn(s), s.cur[2]>>
      BY <1>8 DEF RowFrom, LastColumn
    <3>2. s.cur = <<s.cur[1], s.cur[2]>>
      BY <1>1, PositionsAre DEF Glyphs, ScreenOK
    <3>3. \A pos \in DOMAIN s.cell : t.cell[pos] = IF pos = s.cur THEN ch ELSE s.cell[pos]
      BY <1>8, <1>9, <2>1, <3>1, <3>2 DEF DrawnCells
    <3>. QED
      BY <1>1, <1>2, <1>4, <1>5, <1>6, <1>7, <1>13, <2>1, <3>3 DEF Tells
  <2>2. CASE ~(s.cur[2] < BottomRow(s))
    BY <1>9, <2>2 DEF Tells
  <2>. QED
    BY <2>1, <2>2
<1>. QED
  BY <1>2, <1>4, <1>5, <1>6, <1>11, <1>14, <1>15 DEF Foretold

\* The cell before one of the row's is on the screen.
LEMMA RowLooksBack ==
    ASSUME NEW size \in Sizes, NEW cur \in PositionsOf(size), NEW scr, scr.size = size,
           NEW pos \in RowFrom(cur, scr), pos # cur
    PROVE  LeftOf(pos) \in PositionsOf(size)
<1>1. PICK x \in cur[1] .. LastColumn(scr) : pos = <<x, cur[2]>>
  BY DEF RowFrom
<1>2. /\ size[1] \in Nat \ {0} /\ cur[1] \in 0 .. size[1] - 1 /\ cur[2] \in 0 .. size[2] - 1
      /\ cur = <<cur[1], cur[2]>>
  BY PositionsAre
<1>3. x # cur[1]
  BY <1>1, <1>2
<1>4. x - 1 \in 0 .. size[1] - 1
  BY <1>2, <1>3 DEF LastColumn
<1>5. LeftOf(pos) = <<x - 1, cur[2]>>
  BY <1>1 DEF LeftOf
<1>. QED
  BY <1>2, <1>4, <1>5, PositionsAre

\* A glyph typed over another.
LEMMA OverForetold ==
    ASSUME NEW p, NEW s, NEW host, Ready(p, s, host), NEW n, NEW ch, NEW over, over, p.over,
           ~(p.cur[1] >= LastColumn(host)),
           NEW t, t = Drawn(s, ch, over, n), NEW q, q = PrintGlyph(p, ch, host)
    PROVE  Foretold(p, q, s, t, host)
<1>. DEFINE b == Place(p, ch, host)
            next == <<p.cur[1] + 1, p.cur[2]>>
<1>1. /\ Guessing(p, host.size) /\ p.epoch <= Ceiling(p)
      /\ Glyphs(s) /\ ScreenOK(host) /\ s.size = host.size /\ p.cur = s.cur
      /\ host.size \in Sizes /\ p.cur \in PositionsOf(host.size)
  BY DEF Ready, Glyphs, Guessing, ScreenOK
<1>2. q = MoveTo(b, next)
  BY DEF PrintGlyph
<1>3. next \in PositionsOf(host.size)
  <2>1. host.size[1] \in Nat \ {0} /\ p.cur[1] \in 0 .. host.size[1] - 1
    BY <1>1, PositionsAre
  <2>. QED
    BY <1>1, <2>1, RightIsThere DEF LastColumn
<1>4. /\ Guessing(b, host.size) /\ b.epoch <= Ceiling(b) /\ Keeps(p, b)
      /\ b.cur = p.cur /\ b.held = p.held
      /\ DOMAIN b.cells = DOMAIN p.cells \cup {p.cur}
      /\ \A pos \in DOMAIN b.cells : pos # p.cur => b.cells[pos] = p.cells[pos]
      /\ b.cells[p.cur].ch = ch /\ b.cells[p.cur].exp = p.sent + 1
  BY <1>1, PlaceIs
<1>5. t.cell = DrawnCells(s, ch, over) /\ t.gen = s.gen /\ t.cur = <<s.cur[1] + 1, s.cur[2]>>
  <2>1. s.cur[1] # LastColumn(s)
    <3>1. s.cur[1] \in 0 .. s.size[1] - 1 /\ s.size[1] \in Nat
      BY <1>1, PositionsAre
    <3>. QED
      BY <1>1, <3>1 DEF LastColumn
  <2>2. Glyphs(s)
    BY <1>1
  <2>. QED
    BY ONLY <2>1, <2>2, DrawnIs, t = Drawn(s, ch, over, n)
<1>6. t.cur = next
  BY <1>1, <1>5
<1>. HIDE DEF b, next
<1>7. LET r == MoveTo(b, next)
      IN  /\ Newest(r) /\ r.cells = b.cells /\ r.cur = next /\ r.active = TRUE /\ r.held = b.held
          /\ Keeps(b, r)
  BY <1>3, <1>4, MoveToOK
<1>8. /\ Newest(q) /\ q.cells = b.cells /\ q.cur = next /\ q.active = TRUE /\ q.held = b.held
  BY <1>2, <1>7
<1>9. Leads(p, q, s, t)
  BY <1>6, <1>8 DEF Leads
<1>10. Adds(p, q)
  BY <1>4, <1>8 DEF Adds
<1>11. Tells(p, q, s, t, host)
  <2>1. \A pos \in DOMAIN s.cell : t.cell[pos] = IF pos = s.cur THEN ch ELSE s.cell[pos]
    BY <1>5 DEF DrawnCells
  <2>2. ASSUME NEW pos \in DOMAIN s.cell, pos = s.cur
        PROVE  /\ pos \in DOMAIN q.cells /\ q.cells[pos].exp = p.sent + 1
               /\ q.cells[pos].ch = t.cell[pos]
    BY <1>1, <1>4, <1>8, <2>1, <2>2
  <2>3. ASSUME NEW pos \in DOMAIN s.cell, pos # s.cur
        PROVE  /\ t.cell[pos] = s.cell[pos]
               /\ (pos \in DOMAIN q.cells => pos \in DOMAIN p.cells /\ q.cells[pos] = p.cells[pos])
    <3>1. pos # p.cur
      BY <1>1, <2>3
    <3>2. t.cell[pos] = s.cell[pos]
      BY <2>1, <2>3
    <3>. QED
      BY <1>4, <1>8, <3>1, <3>2
  <2>. QED
    BY <2>2, <2>3 DEF Tells
<1>. QED
  BY <1>4, <1>8, <1>9, <1>10, <1>11 DEF Foretold

\* A glyph typed before others.
LEMMA InsertForetold ==
    ASSUME NEW p, NEW s, NEW host, Ready(p, s, host), Knows(p, host, s),
           NEW n, NEW ch, NEW over, ~over, ~p.over,
           ~(p.cur[1] >= LastColumn(host)),
           NEW t, t = Drawn(s, ch, over, n), NEW q, q = PrintGlyph(p, ch, host)
    PROVE  Foretold(p, q, s, t, host)
<1>. DEFINE shifted(pos) ==
                IF pos = p.cur THEN [ch |-> ch, unknown |-> FALSE]
                ELSE IF pos[1] = LastColumn(host) THEN [ch |-> Empty, unknown |-> TRUE]
                ELSE Seen(p, LeftOf(pos), host)
            row == [pos \in RowFrom(p.cur, host) |->
                        Guess(p, pos, shifted(pos).ch, shifted(pos).unknown, host)]
            m == Overwritten(p, row)
            next == <<p.cur[1] + 1, p.cur[2]>>
<1>1. /\ Guessing(p, host.size) /\ p.epoch <= Ceiling(p)
      /\ Glyphs(s) /\ Glyphs(host) /\ ScreenOK(host) /\ s.size = host.size /\ p.cur = s.cur
      /\ host.size \in Sizes /\ p.cur \in PositionsOf(host.size)
  BY DEF Ready, Glyphs, Guessing, ScreenOK
<1>2. q = MoveTo(m, next)
  BY DEF PrintGlyph, Insert
<1>3. next \in PositionsOf(host.size)
  <2>1. host.size[1] \in Nat \ {0} /\ p.cur[1] \in 0 .. host.size[1] - 1
    BY <1>1, PositionsAre
  <2>. QED
    BY <1>1, <2>1, RightIsThere DEF LastColumn
<1>4. t.cell = DrawnCells(s, ch, over) /\ t.gen = s.gen /\ t.cur = <<s.cur[1] + 1, s.cur[2]>>
  <2>1. s.cur[1] # LastColumn(s)
    <3>1. s.cur[1] \in 0 .. s.size[1] - 1 /\ s.size[1] \in Nat
      BY <1>1, PositionsAre
    <3>. QED
      BY <1>1, <3>1 DEF LastColumn
  <2>. QED
    BY <1>1, <2>1, DrawnIs
<1>5. t.cur = next
  BY <1>1, <1>4
<1>6. DOMAIN row = RowFrom(p.cur, host) /\ DOMAIN row \subseteq PositionsOf(host.size)
  BY <1>1, RowIsThere
<1>7. /\ \A pos \in DOMAIN row : GuessOK(row[pos], Ceiling(p), p.sent)
      /\ \A pos \in DOMAIN row : /\ row[pos].exp = p.sent + 1
                                 /\ row[pos].unknown = shifted(pos).unknown
                                 /\ row[pos].ch = shifted(pos).ch
  <2>. HIDE DEF shifted
  <2>1. \A pos \in DOMAIN row : GuessOK(row[pos], Ceiling(p), p.sent)
    BY <1>1, GuessIsOK
  <2>2. \A pos \in DOMAIN row : /\ row[pos].exp = p.sent + 1
                                /\ row[pos].unknown = shifted(pos).unknown
                                /\ row[pos].ch = shifted(pos).ch
    BY DEF Guess, NextFrame
  <2>. QED
    BY <2>1, <2>2
<1>. HIDE DEF row, shifted, next
<1>8. /\ Guessing(m, host.size) /\ Keeps(p, m) /\ m.held = p.held
      /\ m.epoch = p.epoch /\ m.confirmed = p.confirmed
      /\ DOMAIN m.cells = DOMAIN p.cells \cup DOMAIN row
      /\ \A pos \in DOMAIN m.cells :
            m.cells[pos] = IF pos \in DOMAIN row THEN row[pos] ELSE p.cells[pos]
  BY <1>1, <1>6, <1>7, OverwrittenOK
<1>. HIDE DEF m
<1>9. m.epoch <= Ceiling(m)
  BY <1>1, <1>8 DEF Ceiling, Keeps
<1>10. LET r == MoveTo(m, next)
       IN  /\ PredictorInv(r, host.size) /\ Newest(r) /\ r.cells = m.cells /\ r.cur = next /\ r.active = TRUE /\ r.held = m.held
           /\ Keeps(m, r)
  <2>1. Guessing(m, host.size) /\ m.epoch <= Ceiling(m) /\ next \in PositionsOf(host.size)
    BY <1>3, <1>8, <1>9
  <2>. QED
    BY ONLY <2>1, MoveToOK
<1>11. Newest(q) /\ q.cells = m.cells /\ q.cur = next /\ q.active = TRUE /\ q.held = m.held
  BY <1>2, <1>10
<1>12. Leads(p, q, s, t)
  BY <1>5, <1>11 DEF Leads
<1>13. Adds(p, q)
  BY <1>7, <1>8, <1>11 DEF Adds
<1>14. Tells(p, q, s, t, host)
  <2>. SUFFICES ASSUME NEW pos \in DOMAIN s.cell
                PROVE  \/ t.cell[pos] = s.cell[pos]
                          /\ (pos \in DOMAIN q.cells => pos \in DOMAIN p.cells /\ q.cells[pos] = p.cells[pos])
                       \/ /\ pos \in DOMAIN q.cells /\ q.cells[pos].exp = p.sent + 1
                          /\ s.gen = host.gen => q.cells[pos].unknown \/ q.cells[pos].ch = t.cell[pos]
    BY DEF Tells
  <2>0. RowFrom(s.cur, s) = DOMAIN row
    BY <1>1, <1>6, SameEnds DEF RowFrom
  <2>1. CASE pos \notin DOMAIN row
    <3>0. s.cur \in DOMAIN row
      <4>1. /\ s.cur[1] \in 0 .. host.size[1] - 1 /\ host.size[1] \in Nat /\ s.cur = <<s.cur[1], s.cur[2]>>
        BY <1>1, PositionsAre
      <4>2. s.cur[1] \in p.cur[1] .. LastColumn(host)
        BY <1>1, <4>1 DEF LastColumn
      <4>. QED
        BY <1>1, <1>6, <4>1, <4>2 DEF RowFrom
    <3>1. t.cell[pos] = s.cell[pos]
      BY <1>4, <2>0, <2>1, <3>0 DEF DrawnCells
    <3>. QED
      BY <1>8, <1>11, <2>1, <3>1
  <2>2. CASE pos \in DOMAIN row /\ pos = s.cur
    <3>1. t.cell[pos] = ch
      BY <1>4, <2>2 DEF DrawnCells
    <3>2. shifted(pos).ch = ch
      BY <1>1, <2>2 DEF shifted
    <3>. QED
      BY <1>7, <1>8, <1>11, <2>2, <3>1, <3>2
  <2>3. CASE pos \in DOMAIN row /\ pos # s.cur
    <3>. DEFINE left == LeftOf(pos)
    <3>1. t.cell[pos] = s.cell[left]
      BY <1>4, <2>0, <2>3 DEF DrawnCells
    <3>2. left \in DOMAIN s.cell
      BY <1>1, <1>6, <2>3, RowLooksBack DEF Glyphs
    <3>3. shifted(pos) = IF pos[1] = LastColumn(host) THEN [ch |-> Empty, unknown |-> TRUE]
                         ELSE Seen(p, left, host)
      BY <1>1, <2>3 DEF shifted
    <3>. HIDE DEF left
    <3>4. s.gen = host.gen => shifted(pos).unknown \/ shifted(pos).ch = s.cell[left]
      <4>1. CASE pos[1] = LastColumn(host)
        BY <3>3, <4>1
      <4>2. CASE pos[1] # LastColumn(host)
        <5>1. shifted(pos) = Seen(p, left, host)
          BY <3>3, <4>2
        <5>2. left \in DOMAIN p.cells => Seen(p, left, host).unknown = p.cells[left].unknown
          BY DEF Seen
        <5>3. left \in DOMAIN p.cells /\ ~p.cells[left].unknown => Seen(p, left, host).ch = p.cells[left].ch
          BY DEF Seen
        <5>4. left \notin DOMAIN p.cells => Seen(p, left, host).ch = host.cell[left]
          BY DEF Seen
        <5>5. s.gen = host.gen =>
                 IF left \in DOMAIN p.cells THEN p.cells[left].unknown \/ p.cells[left].ch = s.cell[left]
                 ELSE host.cell[left] = s.cell[left]
          BY <3>2 DEF Knows
        <5>. QED
          BY <5>1, <5>2, <5>3, <5>4, <5>5
      <4>. QED
        BY <4>1, <4>2
    <3>. QED
      BY <1>7, <1>8, <1>11, <2>3, <3>1, <3>4
  <2>. QED
    BY <2>1, <2>2, <2>3
<1>. QED
  BY <1>8, <1>11, <1>12, <1>13, <1>14 DEF Foretold

\* The cursor to the side.
LEMMA MoveForetold ==
    ASSUME NEW p, NEW s, NEW host, Ready(p, s, host), NEW pos \in PositionsOf(host.size),
           NEW t, t.cell = s.cell, t.cur = pos, NEW q, q = MoveTo(p, pos)
    PROVE  Foretold(p, q, s, t, host)
<1>1. Guessing(p, host.size) /\ p.epoch <= Ceiling(p)
  BY DEF Ready
<1>2. LET r == MoveTo(p, pos)
      IN  /\ PredictorInv(r, host.size) /\ Newest(r)
          /\ r.cells = p.cells /\ r.cur = pos /\ r.active = TRUE /\ r.held = p.held /\ Keeps(p, r)
  BY ONLY <1>1, MoveToOK, pos \in PositionsOf(host.size)
<1>3. Newest(q) /\ q.cells = p.cells /\ q.cur = pos /\ q.active = TRUE /\ q.held = p.held
  BY <1>2
<1>4. Adds(p, q) /\ Tells(p, q, s, t, host)
  BY <1>3, SameCellsTell
<1>. QED
  BY <1>3, <1>4 DEF Foretold, Leads

\* Nothing on either side.
LEMMA NothingForetold ==
    ASSUME NEW p, NEW s, NEW host, NEW q, q.cells = p.cells, q.cursors = p.cursors,
           q.active = p.active, q.cur = p.cur, q.held = p.held
    PROVE  Foretold(p, q, s, s, host)
<1>1. Adds(p, q) /\ Tells(p, q, s, s, host)
  BY SameCellsTell
<1>. QED
  BY <1>1 DEF Foretold, Leads

\* Whatever the key, but for an erasure.
LEMMA KeyForetold ==
    ASSUME NEW p, NEW s, NEW host, Ready(p, s, host), Knows(p, host, s),
           p.over = scene.over, NEW token, token # "erase", NEW n, n # s.gen,
           NEW t, t = KeyOn(s, token, n), NEW q, q = Predict(p, token, host)
    PROVE  Foretold(p, q, s, t, host)
<1>1. /\ Guessing(p, host.size) /\ p.epoch <= Ceiling(p) /\ p.over \in BOOLEAN
      /\ Glyphs(s) /\ ScreenOK(s) /\ s.size = host.size /\ p.cur = s.cur
      /\ host.size \in Sizes /\ p.cur \in PositionsOf(host.size)
  BY DEF Ready, Glyphs, Guessing, ScreenOK
<1>2. host.size[1] \in Nat \ {0} /\ p.cur[1] \in 0 .. host.size[1] - 1
  BY <1>1, PositionsAre
<1>3. p.cur[1] >= LastColumn(host) <=> s.cur[1] = LastColumn(s)
  <2>1. LastColumn(s) = LastColumn(host) /\ p.cur[1] = s.cur[1]
    BY <1>1, SameEnds
  <2>. QED
    BY <1>2, <2>1 DEF LastColumn
<1>4. CASE token = "none"
  <2>1. t = s /\ q = p
    BY <1>4 DEF KeyOn, Predict
  <2>. QED
    BY <2>1, NothingForetold
<1>5. CASE token \in {"ctl", "wide", "sequence"}
  <2>1. t = s /\ q = BecomeTentative(p)
    BY <1>5 DEF KeyOn, Predict
  <2>2. q.cells = p.cells /\ q.cursors = p.cursors /\ q.active = p.active /\ q.cur = p.cur /\ q.held = p.held
    BY <1>1, <2>1, TentativeIs
  <2>. QED
    BY <2>1, <2>2, NothingForetold
<1>6. CASE token = "left"
  <2>. DEFINE next == LeftOf(p.cur)
  <2>1. /\ q = IF p.cur[1] = 0 THEN p ELSE MoveTo(p, next)
        /\ t = IF s.cur[1] = 0 THEN s ELSE [s EXCEPT !.cur = LeftOf(s.cur)]
    BY <1>6 DEF KeyOn, Obey, Predict, MoveLeft
  <2>2. p.cur[1] # 0 => next \in PositionsOf(host.size)
    BY <1>1, LeftIsThere
  <2>3. p.cur[1] # 0 => t = [s EXCEPT !.cur = next]
    BY <1>1, <2>1
  <2>. HIDE DEF next
  <2>4. CASE p.cur[1] = 0
    <3>1. q = p /\ t = s
      BY <1>1, <2>1, <2>4
    <3>. QED
      BY <3>1, NothingForetold
  <2>5. CASE p.cur[1] # 0
    <3>1. t.cell = s.cell /\ t.cur = next
      BY <1>1, <2>3, <2>5 DEF ScreenOK
    <3>2. q = MoveTo(p, next) /\ next \in PositionsOf(host.size)
      BY <2>1, <2>2, <2>5
    <3>. QED
      BY <3>1, <3>2, MoveForetold
  <2>. QED
    BY <2>4, <2>5
<1>7. CASE token = "right"
  <2>. DEFINE next == <<p.cur[1] + 1, p.cur[2]>>
  <2>1. /\ q = IF p.cur[1] >= LastColumn(host) THEN p ELSE MoveTo(p, next)
        /\ t = IF s.cur[1] = LastColumn(s) THEN s ELSE [s EXCEPT !.cur = <<s.cur[1] + 1, s.cur[2]>>]
    BY <1>7 DEF KeyOn, Obey, Predict, MoveRight
  <2>2. ~(p.cur[1] >= LastColumn(host)) => next \in PositionsOf(host.size)
    BY <1>1, <1>2, RightIsThere DEF LastColumn
  <2>3. s.cur[1] # LastColumn(s) => t = [s EXCEPT !.cur = next]
    BY <1>1, <2>1
  <2>. HIDE DEF next
  <2>4. CASE p.cur[1] >= LastColumn(host)
    <3>1. q = p /\ t = s
      BY <1>3, <2>1, <2>4
    <3>. QED
      BY <3>1, NothingForetold
  <2>5. CASE ~(p.cur[1] >= LastColumn(host))
    <3>1. t.cell = s.cell /\ t.cur = next
      BY <1>1, <1>3, <2>3, <2>5 DEF ScreenOK
    <3>2. q = MoveTo(p, next) /\ next \in PositionsOf(host.size)
      BY <2>1, <2>2, <2>5
    <3>. QED
      BY <3>1, <3>2, MoveForetold
  <2>. QED
    BY <2>4, <2>5
<1>8. CASE token = "cr"
  <2>1. t = LineFeed(s, n) /\ q = Newline(BecomeTentative(p), host)
    BY <1>8 DEF KeyOn, Predict
  <2>. QED
    BY <2>1, NewlineForetold
<1>9. CASE token \notin {"none", "left", "right", "cr", "ctl", "wide", "sequence"}
  <2>. DEFINE over == scene.over
  <2>1. t = Drawn(s, token, over, n) /\ q = PrintGlyph(p, token, host)
    BY <1>9 DEF KeyOn, Obey, Predict
  <2>2. p.over = over
    OBVIOUS
  <2>. HIDE DEF over
  <2>3. CASE p.cur[1] >= LastColumn(host)
    BY ONLY <2>1, <2>3, EdgeForetold, Ready(p, s, host), n # s.gen
  <2>4. CASE ~(p.cur[1] >= LastColumn(host)) /\ p.over
    BY ONLY <2>1, <2>2, <2>4, OverForetold, Ready(p, s, host)
  <2>5. CASE ~(p.cur[1] >= LastColumn(host)) /\ ~p.over
    BY ONLY <2>1, <2>2, <2>5, InsertForetold, Ready(p, s, host), Knows(p, host, s)
  <2>. QED
    BY <2>3, <2>4, <2>5
<1>. QED
  BY <1>4, <1>5, <1>6, <1>7, <1>8, <1>9

-----------------------------------------------------------------------------
(***************************************************************************)
(* The same from one state of the program to the next: the application     *)
(* does with an input in every state what it did in the one before.        *)
(***************************************************************************)

\* What it starts with.
LEMMA StartStays ==
    ASSUME scene' = scene
    PROVE  (Start(scene.size))' = Start(scene.size)
BY DEF Start

\* Each step it makes.
LEMMA AbsorbStays ==
    ASSUME scene' = scene, NEW app, NEW item
    PROVE  (Absorb(app, item))' = Absorb(app, item)
BY DEF Absorb, Act, Obey

\* What an input makes of it, element by element.
AppsUnroll ==
    \A x \in Seq(Elements) :
        /\ AppOf(x, 0) = Start(scene.size)
        /\ \A k \in Nat :
              k + 1 <= Len(x) => AppOf(x, k + 1) = Absorb(AppOf(x, k), x[k + 1])

\* This is how AppOf was defined.
LEMMA AppsDoUnroll == AppsUnroll
BY AppOfNothing, AppOfNext DEF AppsUnroll

\* So all that an input makes of it.
LEMMA AppStays ==
    ASSUME scene' = scene, NEW st \in Seq(Elements), NEW n \in 0 .. Len(st)
    PROVE  (AppOf(st, n))' = AppOf(st, n)
<1>1. AppsUnroll
  BY AppsDoUnroll
<1>2. AppsUnroll'
  BY AppsDoUnroll, PTL
<1>. DEFINE S == {k \in Nat : k <= Len(st) => (AppOf(st, k))' = AppOf(st, k)}
<1>5. 0 \in S
  BY <1>1, <1>2, StartStays DEF AppsUnroll
<1>6. ASSUME NEW k \in Nat, k \in S
      PROVE  k + 1 \in S
  <2>. SUFFICES ASSUME k + 1 <= Len(st) PROVE (AppOf(st, k + 1))' = AppOf(st, k + 1)
    OBVIOUS
  <2>0. Len(st) \in Nat
    BY LenProperties
  <2>1. (AppOf(st, k))' = AppOf(st, k)
    BY <1>6, <2>0
  <2>2. AppOf(st, k + 1) = Absorb(AppOf(st, k), st[k + 1])
    BY <1>1 DEF AppsUnroll
  <2>3. (AppOf(st, k + 1))' = (Absorb(AppOf(st, k), st[k + 1]))'
    BY <1>2 DEF AppsUnroll
  <2>4. (Absorb(AppOf(st, k), st[k + 1]))' = Absorb(AppOf(st, k), st[k + 1])
    BY <2>1, AbsorbStays
  <2>. QED
    BY <2>2, <2>3, <2>4
<1>7. n \in S
  <2>1. n \in Nat
    BY LenProperties
  <2>. HIDE DEF S
  <2>. QED
    BY <1>5, <1>6, <2>1, InductiveSet
<1>. QED
  BY <1>7, LenProperties
\* And all the screens.
LEMMA ScreensStay ==
    ASSUME scene' = scene, stream' \in Seq(Elements)
    PROVE  ScreensOf(stream)' = ScreensOf(stream')
BY AppStays DEF ScreensOf

-----------------------------------------------------------------------------
(***************************************************************************)
(* Where nothing went astray, guesses come true.  S is the list of the     *)
(* application's screens, S[n] the one after n elements of the stream st.  *)
(***************************************************************************)

\* One element more: earlier screens stay, and none of them answers it.
LEMMA CoversLess ==
    ASSUME NEW st \in Seq(Elements), NEW item \in Elements, NEW st2, st2 = Append(st, item),
           NEW n \in 0 .. Len(st), NEW f, Covers(st2, n, f)
    PROVE  Covers(st, n, f) /\ ~(item.frame <= f)
<1>1. /\ Len(st) \in Nat /\ Len(st2) = Len(st) + 1
      /\ \A i \in 1 .. Len(st) : st2[i] = st[i]
      /\ st2[Len(st) + 1] = item
  BY AppendProperties, LenProperties
<1>2. Covers(st, n, f)
  BY <1>1 DEF Covers
<1>3. ~(item.frame <= f)
  BY <1>1 DEF Covers
<1>. QED
  BY <1>2, <1>3

\* All of it answers every frame.
LEMMA CoversAll ==
    ASSUME NEW st \in Seq(Elements), NEW f
    PROVE  Covers(st, Len(st), f)
BY LenProperties DEF Covers

\* What is on the predictor's screen is on the application's.
LEMMA SoundKnows ==
    ASSUME NEW st \in Seq(Elements), NEW S, NEW p, NEW host, NEW h,
           Sound(p, host, S, st), Traced(p, h, S, st), Matches(host, h, S, st)
    PROVE  Knows(p, host, S[Len(st)])
<1>. DEFINE s == S[Len(st)]
<1>1. Len(st) \in Nat /\ h \in 0 .. Len(st) /\ Len(st) \in h .. Len(st) /\ h \in h .. Len(st)
      /\ Len(st) \in 0 .. Len(st)
  BY LenProperties DEF Matches
<1>. SUFFICES ASSUME s.gen = host.gen, NEW pos \in DOMAIN s.cell
              PROVE  IF pos \in DOMAIN p.cells THEN p.cells[pos].unknown \/ p.cells[pos].ch = s.cell[pos]
                     ELSE host.cell[pos] = s.cell[pos]
  BY DEF Knows
<1>2. CASE pos \in DOMAIN p.cells
  BY <1>1, <1>2, CoversAll DEF Sound
<1>3. CASE pos \notin DOMAIN p.cells
  <2>1. S[h].gen = host.gen /\ host.cell = S[h].cell
    BY <1>1 DEF Matches
  <2>2. S[h].cell[pos] = s.cell[pos]
    BY <1>1, <1>3, <2>1 DEF Traced
  <2>. QED
    BY <1>3, <2>1, <2>2
<1>. QED
  BY <1>2, <1>3

\* A key that is predicted as the application takes it.
LEMMA OneMore ==
    ASSUME NEW st \in Seq(Elements), NEW item \in Elements, NEW st2, st2 = Append(st, item),
           NEW S, NEW S2, NEW s, NEW t, GoesOn(S, S2, st, s, t), Echoed(S, st),
           NEW p, NEW q, NEW host, NEW h \in 0 .. Len(st), host.gen \in 0 .. h,
           Awaits(p), q.sent = p.sent, item.frame = p.sent + 1,
           DOMAIN q.cells \subseteq DOMAIN s.cell,
           Adds(p, q), Tells(p, q, s, t, host), Leads(p, q, s, t),
           Sound(p, host, S, st), Traced(p, h, S, st)
    PROVE  Sound(q, host, S2, st2) /\ Traced(q, h, S2, st2)
<1>0. /\ \A n \in 0 .. Len(st) : S2[n] = S[n]
      /\ s = S[Len(st)] /\ t = S2[Len(st) + 1]
      /\ t.gen = s.gen \/ t.gen = Len(st) + 1
      /\ DOMAIN t.cell = DOMAIN s.cell
      /\ p.sent \in Nat
      /\ \A pos \in DOMAIN p.cells : p.cells[pos].exp \in Nat /\ p.cells[pos].exp <= p.sent + 1
      /\ p.cursors # << >> => Last(p.cursors).exp \in Nat /\ Last(p.cursors).exp <= p.sent + 1
  BY DEF GoesOn, Awaits
<1>. USE <1>0
<1>. DEFINE m == Len(st)
<1>1. /\ m \in Nat /\ Len(st2) = m + 1 /\ st2 \in Seq(Elements)
      /\ m \in 0 .. m /\ m + 1 \in 0 .. m + 1
  BY AppendProperties, LenProperties
<1>2. s.gen \in 0 .. m /\ \A n \in 0 .. m : S[n].gen \in 0 .. n
  BY <1>1 DEF Echoed
<1>3. \A n \in 0 .. m : \A f : Covers(st2, n, f) => Covers(st, n, f) /\ ~(p.sent + 1 <= f)
  <2>. SUFFICES ASSUME NEW n \in 0 .. m, NEW f, Covers(st2, n, f)
                PROVE  Covers(st, n, f) /\ ~(p.sent + 1 <= f)
    OBVIOUS
  <2>1. Covers(st, n, f) /\ ~(item.frame <= f)
    BY CoversLess
  <2>. QED
    BY <2>1
<1>4. \A n \in 0 .. m + 1 : n \in 0 .. m \/ n = m + 1
  BY <1>1
<1>5. \A f : Covers(st, m, f)
  BY CoversAll
<1>6. Newest(q) => q.cursors # << >> /\ Last(q.cursors).exp = p.sent + 1
  BY DEF Newest
<1>7. ASSUME NEW pos \in DOMAIN q.cells
      PROVE  q.cursors # << >> /\ q.cells[pos].exp <= Last(q.cursors).exp
  <2>1. CASE q.cells[pos].exp = p.sent + 1 /\ Newest(q)
    BY <1>6, <2>1
  <2>2. CASE pos \in DOMAIN p.cells /\ q.cells[pos] = p.cells[pos]
    <3>1. p.cursors # << >> /\ p.cells[pos].exp <= Last(p.cursors).exp /\ p.cells[pos].exp <= p.sent + 1
      BY <2>2 DEF Sound
    <3>2. q.cursors = p.cursors \/ Newest(q)
      BY DEF Leads
    <3>. QED
      BY <1>6, <2>2, <3>1, <3>2
  <2>. QED
    BY <1>7, <2>1, <2>2 DEF Adds
<1>8. ASSUME NEW pos \in DOMAIN q.cells, NEW n \in 0 .. m + 1,
             Covers(st2, n, q.cells[pos].exp), S2[n].gen = host.gen
      PROVE  q.cells[pos].unknown \/ S2[n].cell[pos] = q.cells[pos].ch
  <2>1. CASE n \in 0 .. m
    <3>1. ~(p.sent + 1 <= q.cells[pos].exp) /\ Covers(st, n, q.cells[pos].exp)
      BY <1>3, <1>8, <2>1
    <3>2. q.cells[pos].exp # p.sent + 1
      BY <3>1
    <3>3. pos \in DOMAIN p.cells /\ q.cells[pos] = p.cells[pos]
      BY <3>2 DEF Adds
    <3>. QED
      BY <1>8, <2>1, <3>1, <3>3 DEF Sound
  <2>2. CASE n = m + 1
    <3>1. t.gen = host.gen /\ t.gen = s.gen
      BY <1>1, <1>8, <2>2
    <3>2. \/ t.cell[pos] = s.cell[pos] /\ pos \in DOMAIN p.cells /\ q.cells[pos] = p.cells[pos]
          \/ q.cells[pos].unknown \/ q.cells[pos].ch = t.cell[pos]
      BY <3>1 DEF Tells
    <3>3. pos \in DOMAIN p.cells => p.cells[pos].unknown \/ s.cell[pos] = p.cells[pos].ch
      BY <1>1, <1>5, <3>1 DEF Sound
    <3>. QED
      BY <2>2, <3>2, <3>3
  <2>. QED
    BY <1>4, <2>1, <2>2
<1>9. q.active => q.cursors # << >>
  <2>1. (q.cursors = p.cursors /\ q.active = p.active) \/ Newest(q)
    BY DEF Leads
  <2>2. p.active => p.cursors # << >>
    BY DEF Sound
  <2>. QED
    BY <1>6, <2>1, <2>2
<1>10. ASSUME NEW n \in 0 .. m + 1, q.cursors # << >>, Covers(st2, n, Last(q.cursors).exp)
       PROVE  S2[n].cur = q.cur
  <2>1. CASE q.cursors = p.cursors /\ q.cur = p.cur /\ t.cur = s.cur
    <3>1. s.cur = p.cur
      BY <1>1, <1>5, <1>10, <2>1 DEF Sound
    <3>2. CASE n \in 0 .. m
      BY <1>3, <1>10, <2>1, <3>2 DEF Sound
    <3>3. CASE n = m + 1
      BY <2>1, <3>1, <3>3
    <3>. QED
      BY <1>4, <3>2, <3>3
  <2>2. CASE Newest(q) /\ t.cur = q.cur
    <3>1. CASE n \in 0 .. m
      <4>1. ~(p.sent + 1 <= Last(q.cursors).exp)
        BY <1>3, <1>10, <3>1
      <4>. QED
        BY <1>6, <2>2, <4>1
    <3>2. CASE n = m + 1
      BY <2>2, <3>2
    <3>. QED
      BY <1>4, <3>1, <3>2
  <2>. QED
    BY <2>1, <2>2 DEF Leads
<1>11. Sound(q, host, S2, st2)
  BY <1>1, <1>7, <1>8, <1>9, <1>10 DEF Sound
<1>12. ASSUME NEW pos \in DOMAIN t.cell, NEW n \in h .. m + 1,
              pos \in DOMAIN q.cells => Covers(st2, n, q.cells[pos].exp), S2[n].gen = t.gen
       PROVE  S2[n].cell[pos] = t.cell[pos]
  <2>1. CASE n \in 0 .. m
    <3>1. S[n].gen = t.gen /\ t.gen = s.gen
      BY <1>1, <1>2, <1>12, <2>1
    <3>2. \/ t.cell[pos] = s.cell[pos]
             /\ (pos \in DOMAIN q.cells => pos \in DOMAIN p.cells /\ q.cells[pos] = p.cells[pos])
          \/ pos \in DOMAIN q.cells /\ q.cells[pos].exp = p.sent + 1
      BY <3>1 DEF Tells
    <3>3. CASE pos \in DOMAIN q.cells /\ q.cells[pos].exp = p.sent + 1
      <4>1. ~(p.sent + 1 <= q.cells[pos].exp)
        BY <1>3, <1>12, <2>1, <3>3
      <4>. QED
        BY <3>3, <4>1
    <3>4. CASE /\ t.cell[pos] = s.cell[pos]
               /\ (pos \in DOMAIN q.cells => pos \in DOMAIN p.cells /\ q.cells[pos] = p.cells[pos])
      <4>1. pos \in DOMAIN p.cells => pos \in DOMAIN q.cells
        BY DEF Adds
      <4>2. pos \in DOMAIN p.cells => Covers(st, n, p.cells[pos].exp)
        BY <1>3, <1>12, <2>1, <3>4, <4>1
      <4>3. n \in h .. m
        BY <1>1, <2>1
      <4>4. S[n].cell[pos] = s.cell[pos]
        BY <3>1, <4>2, <4>3 DEF Traced
      <4>. QED
        BY <2>1, <3>4, <4>4
    <3>. QED
      BY <3>2, <3>3, <3>4
  <2>2. CASE n = m + 1
    BY <2>2
  <2>3. n \in 0 .. m + 1
    BY <1>1
  <2>. QED
    BY <1>4, <2>1, <2>2, <2>3
<1>13. ASSUME q.cursors = << >>, NEW n \in h .. m + 1
       PROVE  S2[n].cur = t.cur
  <2>1. p.cursors = << >> /\ t.cur = s.cur
    BY <1>6, <1>13 DEF Leads
  <2>2. CASE n \in 0 .. m
    <3>1. n \in h .. m
      BY <1>1, <2>2
    <3>. QED
      BY <2>1, <2>2, <3>1 DEF Traced
  <2>3. CASE n = m + 1
    BY <2>3
  <2>4. n \in 0 .. m + 1
    BY <1>1
  <2>. QED
    BY <1>4, <2>2, <2>3, <2>4
<1>14. Traced(q, h, S2, st2)
  BY <1>1, <1>12, <1>13 DEF Traced
<1>. QED
  BY <1>11, <1>14

\* A byte other than an erasure is no erasure, whatever it completes.
LEMMA ReadsNoErasure ==
    ASSUME NEW held, NEW byte, byte # "erase"
    PROVE  ReadByte(held, byte).token # "erase"
BY DEF ReadByte

\* One byte of the loop in keystroke.
LEMMA ByteForetold ==
    ASSUME NEW p, NEW s, NEW host, PredictorInv(p, host.size),
           Glyphs(host), Glyphs(s), s.size = host.size, p.cur = s.cur, Knows(p, host, s),
           p.over = scene.over, NEW byte, byte # "erase", NEW n, n # s.gen,
           NEW r, r = ReadByte(p.held, byte), NEW t, t = KeyOn(s, r.token, n),
           NEW q, q = PredictByte(p, byte, host)
    PROVE  Adds(p, q) /\ Tells(p, q, s, t, host) /\ Leads(p, q, s, t) /\ Holds(q, r)
<1>. DEFINE held == r.held
            a == IF p.pref = "experimental" THEN [p EXCEPT !.epoch = p.confirmed] ELSE p
            b == [a EXCEPT !.held = held]
<1>1. q = Predict(b, r.token, host)
  BY DEF PredictByte
<1>0. r.token # "erase"
  BY ReadsNoErasure
<1>. HIDE DEF held
<1>2. PredictorFields(p) /\ Guessing(p, host.size) /\ p.confirmed \in Nat /\ p.epoch \in Nat
  BY DEF PredictorInv, Guessing, Numbers
<1>3. /\ PredictorFields(a) /\ Keeps(p, a)
      /\ a.epoch = IF p.pref = "experimental" THEN p.confirmed ELSE p.epoch
      /\ a.cells = p.cells /\ a.cursors = p.cursors /\ a.active = p.active /\ a.cur = p.cur
      /\ a.confirmed = p.confirmed /\ a.glitch = p.glitch
  <2>1. CASE p.pref = "experimental"
    <3>. DEFINE v == p.confirmed
                e == [p EXCEPT !.epoch = v]
    <3>1. a = e
      BY <2>1
    <3>. HIDE DEF v, a
    <3>2. /\ PredictorFields(e) /\ Keeps(p, e) /\ e.epoch = v
          /\ e.cells = p.cells /\ e.cursors = p.cursors /\ e.active = p.active /\ e.cur = p.cur
          /\ e.confirmed = p.confirmed /\ e.glitch = p.glitch
      BY <1>2, WithEpoch
    <3>. HIDE DEF e
    <3>. QED
      BY <2>1, <3>1, <3>2 DEF v
  <2>2. CASE p.pref # "experimental"
    BY <1>2, <2>2 DEF Keeps
  <2>. QED
    BY <2>1, <2>2
<1>. HIDE DEF a
<1>4. /\ PredictorFields(b) /\ Keeps(a, b) /\ b.held = held
      /\ b.epoch = a.epoch
      /\ b.cells = a.cells /\ b.cursors = a.cursors /\ b.active = a.active /\ b.cur = a.cur
      /\ b.confirmed = a.confirmed /\ b.glitch = a.glitch
  BY <1>3, WithHeld
<1>. HIDE DEF b
<1>5. /\ PredictorFields(b) /\ Keeps(p, b)
      /\ b.epoch = IF p.pref = "experimental" THEN p.confirmed ELSE p.epoch
      /\ b.cells = p.cells /\ b.cursors = p.cursors /\ b.active = p.active /\ b.cur = p.cur
      /\ b.confirmed = p.confirmed /\ b.glitch = p.glitch
  BY <1>3, <1>4 DEF Keeps
<1>6. Ceiling(b) = Ceiling(p) /\ b.epoch <= Ceiling(b)
  BY <1>2, <1>5 DEF Ceiling, Keeps
<1>7. Numbers(b)
  BY <1>2, <1>5 DEF Guessing, Numbers, Keeps
<1>8. Guessing(b, host.size)
  BY <1>2, <1>5, <1>6, <1>7 DEF Guessing, Keeps
<1>9. Ready(b, s, host) /\ Knows(b, host, s) /\ b.over = scene.over
  BY <1>5, <1>6, <1>8 DEF Ready, Knows, Keeps
<1>. DEFINE token == r.token
<1>10. token # "erase" /\ t = KeyOn(s, token, n) /\ q = Predict(b, token, host)
  BY <1>0, <1>1
<1>. HIDE DEF token
<1>11. Foretold(b, q, s, t, host)
  BY ONLY <1>9, <1>10, n # s.gen, KeyForetold
<1>12. Adds(p, q)
  BY <1>5, <1>11 DEF Foretold, Adds, Keeps
<1>13. Tells(p, q, s, t, host)
  BY <1>5, <1>11 DEF Foretold, Tells, Keeps
<1>14. Leads(p, q, s, t)
  BY <1>5, <1>11 DEF Foretold, Leads
<1>15. Holds(q, r)
  BY <1>4, <1>11 DEF Foretold, held, Holds
<1>. QED
  BY <1>12, <1>13, <1>14, <1>15

\* The screens of an application that does not prompt,
LEMMA ScreensEcho ==
    ASSUME NEW st \in Seq(Elements), scene.size \in Sizes, scene.prompts = FALSE
    PROVE  /\ Echoed(ScreensOf(st), st)
           /\ \A n \in 0 .. Len(st) : ScreensOf(st)[n] = AppOf(st, n).scr
<1>1. \A n \in 0 .. Len(st) : ScreensOf(st)[n] = AppOf(st, n).scr
  BY DEF ScreensOf
<1>2. \A n \in 0 .. Len(st) : Echoing(AppOf(st, n), n)
  BY EchoesAll
<1>. QED
  BY <1>1, <1>2 DEF Echoed, Echoing

\* and one more.
LEMMA ScreensGrow ==
    ASSUME NEW st \in Seq(Elements), NEW item \in Elements, NEW st2, st2 = Append(st, item)
    PROVE  /\ st2 \in Seq(Elements) /\ Len(st2) = Len(st) + 1
           /\ \A n \in 0 .. Len(st) : AppOf(st2, n) = AppOf(st, n)
           /\ \A n \in 0 .. Len(st) : ScreensOf(st2)[n] = ScreensOf(st)[n]
           /\ AppOf(st2, Len(st2)) = Absorb(AppOf(st, Len(st)), item)
           /\ ScreensOf(st2)[Len(st2)] = AppOf(st2, Len(st2)).scr
<1>1. /\ Len(st) \in Nat /\ st2 \in Seq(Elements) /\ Len(st2) = Len(st) + 1 /\ st2[Len(st) + 1] = item
  BY LenProperties, AppendProperties
<1>2. <<item>> \in Seq(Elements) /\ st2 = st \o <<item>>
  BY AppendIsConcat
<1>3. \A n \in 0 .. Len(st) : AppOf(st2, n) = AppOf(st, n)
  BY <1>2, AppOfLonger
<1>4. \A n \in 0 .. Len(st) : n \in 0 .. Len(st2)
  BY <1>1
<1>5. \A n \in 0 .. Len(st) : ScreensOf(st2)[n] = ScreensOf(st)[n]
  BY <1>3, <1>4 DEF ScreensOf
<1>6. AppOf(st2, Len(st) + 1) = Absorb(AppOf(st2, Len(st)), st2[Len(st) + 1])
  <2>1. st2 \in Seq(Elements) /\ Len(st) \in Nat /\ Len(st) + 1 <= Len(st2)
    BY <1>1
  <2>. QED
    BY ONLY <2>1, AppOfNext
<1>7. AppOf(st2, Len(st)) = AppOf(st, Len(st))
  BY <1>1, <1>3
<1>8. Len(st2) \in 0 .. Len(st2)
  BY <1>1
<1>. QED
  BY <1>1, <1>3, <1>5, <1>6, <1>7, <1>8 DEF ScreensOf

\* Guesses wait for frames.
LEMMA AwaitsOK ==
    ASSUME NEW p, NEW size, PredictorInv(p, size)
    PROVE  Awaits(p)
<1>1. /\ p.sent \in Nat
      /\ \A pos \in DOMAIN p.cells : GuessOK(p.cells[pos], Ceiling(p), p.sent)
      /\ p.cursors \in Seq([pos : PositionsOf(size), epoch : Nat, exp : Nat])
      /\ \A i \in 1 .. Len(p.cursors) : GuessOK(p.cursors[i], Ceiling(p), p.sent)
  BY DEF PredictorInv, Guessing, Numbers, CellsOK, CursorsOK
<1>2. p.cursors # << >> => Len(p.cursors) \in 1 .. Len(p.cursors)
  BY <1>1, EmptySeq, LenProperties
<1>3. p.cursors # << >> => GuessOK(Last(p.cursors), Ceiling(p), p.sent)
  BY <1>1, <1>2 DEF Last
<1>. QED
  BY <1>1, <1>3 DEF Awaits, GuessOK

\* A byte typed.
LEMMA ByteTracked ==
    ASSUME NEW st \in Seq(Elements), scene.size \in Sizes, scene.prompts = FALSE,
           NEW byte \in Bytes, byte # "erase", NEW item \in Elements, item.byte = byte,
           NEW p, NEW host, NEW h, OnTrack(p, host, h, st), Glyphs(host), host.gen \in Nat,
           item.frame = p.sent + 1,
           NEW st2, st2 = Append(st, item), NEW q, q = PredictByte(p, byte, host)
    PROVE  OnTrack(q, host, h, st2) /\ Keeps(p, q) /\ Grows(p, q, p.sent + 1)
<1>. DEFINE m == Len(st)
            S == ScreensOf(st)
            S2 == ScreensOf(st2)
            app == AppOf(st, m)
            next == AppOf(st2, m + 1)
            s == app.scr
            t == next.scr
            r == ReadByte(app.held, item.byte)
<1>1. /\ PredictorInv(p, host.size) /\ p.over = scene.over
      /\ p.cur = s.cur /\ p.held = app.held
      /\ Matches(host, h, S, st) /\ Sound(p, host, S, st) /\ Traced(p, h, S, st)
  BY DEF OnTrack
<1>2. /\ m \in Nat /\ Len(st2) = m + 1 /\ st2 \in Seq(Elements)
      /\ \A n \in 0 .. m : S2[n] = S[n]
      /\ next = Absorb(app, item) /\ S2[m + 1] = t /\ S[m] = s
  <2>1. m \in Nat /\ m \in 0 .. m
    BY LenProperties
  <2>2. S[m] = s
    BY <2>1 DEF ScreensOf
  <2>3. /\ st2 \in Seq(Elements) /\ Len(st2) = Len(st) + 1
        /\ \A n \in 0 .. Len(st) : ScreensOf(st2)[n] = ScreensOf(st)[n]
        /\ AppOf(st2, Len(st2)) = Absorb(AppOf(st, Len(st)), item)
        /\ ScreensOf(st2)[Len(st2)] = AppOf(st2, Len(st2)).scr
    BY ONLY ScreensGrow, st \in Seq(Elements), item \in Elements, st2 = Append(st, item)
  <2>. QED
    BY <2>1, <2>2, <2>3
<1>3. Echoing(app, m) /\ Echoed(S, st)
  <2>1. m \in 0 .. Len(st)
    BY <1>2
  <2>2. Echoing(AppOf(st, m), m)
    BY ONLY <2>1, EchoesAll, st \in Seq(Elements), scene.size \in Sizes, scene.prompts = FALSE
  <2>. QED
    BY <2>2, ScreensEcho
<1>4. byte # "resize" /\ r = ReadByte(app.held, byte)
  BY DEF Bytes
<1>. HIDE DEF S, S2, app, next, r
<1>5. Echoing(next, m + 1) /\ next.held = r.held /\ t = KeyOn(s, r.token, m + 1)
  BY <1>2, <1>3, <1>4, EchoesKey DEF r
<1>6. Glyphs(s) /\ s.gen \in 0 .. m
  BY <1>3 DEF Echoing
<1>. HIDE DEF s, t
<1>7. Glyphs(t) /\ t.size = s.size /\ t.gen \in {s.gen, m + 1} /\ m + 1 # s.gen
  BY <1>2, <1>5, <1>6, KeyOnIs
<1>8. /\ h \in 0 .. m /\ host.gen <= h /\ s.size = host.size
      /\ \A n \in h .. m : S[n].size = host.size /\ (S[n].gen = host.gen => S[h].gen = host.gen)
      /\ host.size = S[h].size /\ host.cell = S[h].cell /\ host.cur = S[h].cur
  <2>1. h \in 0 .. m
    BY <1>1 DEF Matches
  <2>2. m \in h .. m
    BY <1>2, <2>1
  <2>. QED
    BY <1>1, <1>2, <2>1, <2>2 DEF Matches
<1>9. Knows(p, host, s)
  BY <1>1, <1>2, SoundKnows
<1>10. Adds(p, q) /\ Tells(p, q, s, t, host) /\ Leads(p, q, s, t) /\ q.held = r.held
  <2>. DEFINE n == m + 1
  <2>1. /\ PredictorInv(p, host.size) /\ Glyphs(host) /\ Glyphs(s) /\ s.size = host.size /\ p.cur = s.cur
        /\ Knows(p, host, s) /\ p.over = scene.over /\ n # s.gen
        /\ r = ReadByte(p.held, byte) /\ t = KeyOn(s, r.token, n)
    BY <1>1, <1>4, <1>5, <1>6, <1>7, <1>8, <1>9
  <2>. HIDE DEF n
  <2>2. Adds(p, q) /\ Tells(p, q, s, t, host) /\ Leads(p, q, s, t) /\ Holds(q, r)
    BY ONLY <2>1, byte # "erase", q = PredictByte(p, byte, host), ByteForetold
  <2>. QED
    BY <2>2 DEF Holds
<1>11. PredictorInv(q, host.size) /\ Keeps(p, q)
  BY <1>1, PredictByteOK DEF Glyphs
<1>12. p.sent \in Nat /\ q.sent = p.sent /\ DOMAIN q.cells \subseteq PositionsOf(host.size)
  BY <1>1, <1>11 DEF PredictorInv, Guessing, Numbers, CellsOK, Keeps
<1>13. Awaits(p)
  BY <1>1, AwaitsOK
<1>14. DOMAIN t.cell = DOMAIN s.cell /\ DOMAIN q.cells \subseteq DOMAIN s.cell
  BY <1>6, <1>7, <1>8, <1>12 DEF Glyphs
<1>15. host.gen \in 0 .. h /\ h \in 0 .. Len(st)
  BY <1>8
<1>16. Sound(q, host, S2, st2) /\ Traced(q, h, S2, st2)
  <2>1. GoesOn(S, S2, st, s, t)
    BY <1>2, <1>7, <1>14 DEF GoesOn
  <2>. QED
    BY ONLY <2>1, <1>1, <1>3, <1>10, <1>12, <1>13, <1>14, <1>15, OneMore,
            st \in Seq(Elements), item \in Elements, st2 = Append(st, item), item.frame = p.sent + 1
<1>17. Matches(host, h, S2, st2)
  <2>1. S2[h] = S[h]
    BY <1>2, <1>8
  <2>2. ASSUME NEW n \in h .. m + 1
        PROVE  S2[n].size = host.size /\ (S2[n].gen = host.gen => S2[h].gen = host.gen)
    <3>1. CASE n \in h .. m
      <4>1. n \in 0 .. m
        BY <1>2, <1>8, <3>1
      <4>. QED
        BY <1>2, <1>8, <2>1, <3>1, <4>1
    <3>2. CASE n = m + 1
      <4>1. S2[n] = t /\ t.size = host.size
        BY <1>2, <1>7, <1>8, <3>2
      <4>2. host.gen # m + 1 /\ m \in h .. m
        BY <1>2, <1>8
      <4>3. t.gen = host.gen => s.gen = host.gen
        BY <1>7, <4>2
      <4>. QED
        BY <1>2, <1>8, <2>1, <4>1, <4>2, <4>3
    <3>. QED
      BY <1>2, <1>8, <3>1, <3>2
  <2>3. h \in 0 .. m + 1
    BY <1>2, <1>8
  <2>. QED
    BY <1>2, <1>8, <2>1, <2>2, <2>3 DEF Matches
<1>18. q.over = scene.over /\ q.cur = t.cur
  <2>1. q.cur = t.cur
    BY <1>1, <1>10 DEF Leads
  <2>. QED
    BY <1>1, <1>11, <2>1 DEF Keeps
<1>19. Grows(p, q, p.sent + 1)
  BY <1>10, <1>12 DEF Grows, Adds, Leads, Newest
<1>. QED
  BY <1>2, <1>5, <1>10, <1>11, <1>16, <1>17, <1>18, <1>19 DEF OnTrack, S2, next, t

\* A read without an erasure, byte by byte.
LEMMA ReadTracked ==
    ASSUME NEW st \in Seq(Elements), scene.size \in Sizes, scene.prompts = FALSE,
           NEW bytes \in Seq(Bytes), ~Erases(bytes), NEW f \in Nat,
           NEW p, p.sent + 1 = f, NEW host, NEW h, OnTrack(p, host, h, st), Glyphs(host), host.gen \in Nat
    PROVE  LET q == PredictAll(p, bytes, host)
           IN  OnTrack(q, host, h, st \o ItemsAt(bytes, f)) /\ Keeps(p, q) /\ Grows(p, q, f)
<1>. DEFINE Good(s) == LET q == PredictAll(p, s, host)
                       IN  OnTrack(q, host, h, st \o ItemsAt(s, f)) /\ Keeps(p, q) /\ Grows(p, q, f)
            S == {k \in Nat : \A s \in Seq(Bytes) : Len(s) = k /\ ~Erases(s) => Good(s)}
<1>1. 0 \in S
  <2>1. \A s \in Seq(Bytes) : Len(s) = 0 => s = << >>
    BY EmptySeq
  <2>2. PredictAll(p, << >>, host) = p
    BY PredictingNothing
  <2>3. ItemsAt(<< >>, f) = << >>
    BY DEF ItemsAt
  <2>4. st \o << >> = st
    BY ConcatEmptySeq
  <2>5. Good(<< >>)
    BY <2>2, <2>3, <2>4 DEF Keeps, Grows
  <2>. QED
    BY <2>1, <2>5
<1>2. ASSUME NEW k \in Nat, k \in S
      PROVE  k + 1 \in S
  <2>. SUFFICES ASSUME NEW s \in Seq(Bytes), Len(s) = k + 1, ~Erases(s)
                PROVE  Good(s)
    OBVIOUS
  <2>. DEFINE t == Front(s)
              e == Last(s)
              item == [byte |-> e, size |-> <<1, 1>>, frame |-> f]
              r == PredictAll(p, t, host)
              m == ItemsAt(t, f)
              x == st \o m
              y == st \o ItemsAt(s, f)
              q == PredictAll(p, s, host)
  <2>1. /\ t \in Seq(Bytes) /\ e \in Bytes /\ Len(t) = k /\ s = Append(t, e)
        /\ e = s[k + 1] /\ \A i \in 1 .. k : t[i] = s[i]
    BY FrontAndLast
  <2>2. e # "erase" /\ ~Erases(t)
    <3>1. DOMAIN s = 1 .. k + 1 /\ DOMAIN t = 1 .. k
      BY <2>1, LenProperties
    <3>. HIDE DEF t, e
    <3>. QED
      BY <2>1, <3>1 DEF Erases
  <2>. HIDE DEF t, e
  <2>3. item \in Elements /\ ItemsAt(s, f) = Append(m, item)
    BY <2>1, ItemsGrow
  <2>4. item.byte = e /\ item.frame = f
    OBVIOUS
  <2>5. m \in Seq(Elements)
    BY <2>1, ItemsAreElements
  <2>6. OnTrack(r, host, h, x) /\ Keeps(p, r) /\ Grows(p, r, f)
    BY <1>2, <2>1, <2>2
  <2>7. q = PredictByte(r, e, host)
    BY <2>1, PredictingUnrolls
  <2>. HIDE DEF item, r, m, q
  <2>8. y = Append(x, item) /\ x \in Seq(Elements)
    BY <2>3, <2>5, JoinOneMore
  <2>. HIDE DEF x, y
  <2>9. item.frame = r.sent + 1
    BY <2>4, <2>6 DEF Keeps
  <2>10. OnTrack(q, host, h, y) /\ Keeps(r, q) /\ Grows(r, q, r.sent + 1)
    BY ONLY <2>1, <2>2, <2>3, <2>4, <2>6, <2>7, <2>8, <2>9, ByteTracked,
            scene.size \in Sizes, scene.prompts = FALSE, Glyphs(host), host.gen \in Nat
  <2>11. Keeps(p, q)
    BY <2>6, <2>10 DEF Keeps
  <2>12. Grows(p, q, f)
    BY <2>4, <2>6, <2>9, <2>10 DEF Grows
  <2>. QED
    BY <2>10, <2>11, <2>12 DEF q, y
<1>3. Len(bytes) \in S
  <2>1. Len(bytes) \in Nat
    BY LenProperties
  <2>. HIDE DEF S
  <2>. QED
    BY <1>1, <1>2, <2>1, InductiveSet
<1>. QED
  BY <1>3

-----------------------------------------------------------------------------
(***************************************************************************)
(* Judging guesses that came true.                                         *)
(***************************************************************************)

\* cull_cursor_predictions keeps the newest cursor unless all is judged.
LEMMA CullVindicated ==
    ASSUME NEW p, NEW scr, ScreenOK(scr), Guessing(p, scr.size), Anchored(p),
           p.cells # << >> => p.cursors # << >> /\ ~IsDue(p, Last(p.cursors)),
           p.cursors # << >> /\ IsDue(p, Last(p.cursors)) => p.cur = scr.cur
    PROVE  Leaves(p, CullCursors(p, scr), scr)
<1>. DEFINE q == CullCursors(p, scr)
            wrong == p.cursors # << >> /\ IsDue(p, Last(p.cursors))
                       /\ Last(p.cursors).pos # scr.cur
            due == {c \in ToSet(p.cursors) : ~IsDue(p, c)}
            waiting == Retain(p.cursors, due)
            C == [pos : PositionsOf(scr.size), epoch : Nat, exp : Nat]
            n == Len(p.cursors)
<1>1. q = IF wrong THEN IF p.pref = "experimental" THEN ClearCursors(p, scr)
                        ELSE SnapTo(Reset(p), scr)
          ELSE IF waiting = << >> /\ p.cells = << >> THEN ClearCursors(p, scr)
          ELSE [p EXCEPT !.cursors = waiting, !.active = TRUE]
  BY DEF CullCursors
<1>2. ~wrong
  BY DEF Anchored
<1>3. /\ CursorsOK(p.cursors, scr.size, Ceiling(p), p.sent) /\ p.late \in Nat /\ PredictorFields(p)
      /\ CellsOK(p.cells, scr.size, Ceiling(p), p.sent)
  BY DEF Guessing, Numbers
<1>4. /\ p.cursors \in Seq(C)
      /\ \A i \in 1 .. n : p.cursors[i].exp \in Nat
      /\ \A i, j \in 1 .. n : i < j => p.cursors[i].exp <= p.cursors[j].exp
  BY <1>3 DEF CursorsOK, GuessOK
<1>5. /\ CursorsOK(waiting, scr.size, Ceiling(p), p.sent)
      /\ \A i \in 1 .. Len(waiting) : waiting[i] \in due
      /\ p.cursors # << >> /\ Last(p.cursors) \in due =>
            waiting # << >> /\ Last(waiting) = Last(p.cursors)
  <2>. HIDE DEF due
  <2>. QED
    BY <1>3, RetainedCursors
<1>. HIDE DEF C
<1>6. n \in Nat /\ DOMAIN p.cursors = 1 .. n
      /\ (p.cursors # << >> => n \in 1 .. n /\ Last(p.cursors) = p.cursors[n])
  BY <1>4, EmptySeq, LenProperties DEF Last
<1>. HIDE DEF n
<1>7. p.cursors # << >> /\ ~IsDue(p, Last(p.cursors)) => Last(p.cursors) \in due
  BY <1>6 DEF ToSet
<1>8. ASSUME p.cursors = << >> \/ IsDue(p, Last(p.cursors))
      PROVE  waiting = << >>
  <2>. SUFFICES ASSUME waiting # << >> PROVE FALSE
    OBVIOUS
  <2>1. waiting \in Seq(C)
    BY <1>5 DEF CursorsOK, C
  <2>2. Len(waiting) \in Nat /\ Len(waiting) # 0
    BY <2>1, EmptySeq, LenProperties
  <2>3. waiting[1] \in due
    BY <1>5, <2>2
  <2>. HIDE DEF waiting
  <2>4. PICK k \in DOMAIN p.cursors : waiting[1] = p.cursors[k] /\ ~IsDue(p, p.cursors[k])
    BY <2>3 DEF ToSet
  <2>5. k \in 1 .. n /\ p.cursors # << >> /\ n \in 1 .. n
    BY <1>4, <1>6, <2>4
  <2>6. p.cursors[k].exp <= p.cursors[n].exp
    <3>1. CASE k = n
      BY <1>4, <2>5, <3>1
    <3>2. CASE k # n
      BY <1>4, <1>6, <2>5, <3>2
    <3>. QED
      BY <3>1, <3>2
  <2>7. ~IsDue(p, p.cursors[n])
    BY <1>3, <1>4, <2>4, <2>5, <2>6 DEF IsDue
  <2>. QED
    BY <1>6, <1>8, <2>5, <2>7
<1>. HIDE DEF due, waiting, q, wrong
<1>9. CASE p.cells = << >> /\ waiting = << >>
  <2>. DEFINE c == ClearCursors(p, scr)
  <2>1. /\ c.cells = p.cells /\ c.cursors = << >> /\ c.active = (p.cells # << >>)
        /\ c.cur = scr.cur /\ c.epoch = p.epoch /\ c.held = p.held
    BY ClearCursorsOK
  <2>2. q = c
    BY <1>1, <1>2, <1>9
  <2>3. p.cursors # << >> => IsDue(p, Last(p.cursors))
    BY <1>5, <1>7, <1>9
  <2>. HIDE DEF c
  <2>4. Idle(q) /\ q.cur = scr.cur /\ q.held = p.held /\ q.epoch = p.epoch
        /\ q.cells = p.cells
    BY <1>9, <2>1, <2>2 DEF Idle
  <2>. QED
    BY <2>3, <2>4 DEF Leaves, q
<1>10. CASE ~(p.cells = << >> /\ waiting = << >>)
  <2>. DEFINE yes == TRUE
              m == [p EXCEPT !.cursors = waiting]
              a == [m EXCEPT !.active = yes]
  <2>1. q = a
    BY <1>1, <1>2, <1>10
  <2>. HIDE DEF yes
  <2>2. /\ PredictorFields(m) /\ m.cursors = waiting /\ m.cells = p.cells /\ m.cur = p.cur
        /\ m.epoch = p.epoch /\ m.held = p.held
    BY <1>3, WithCursors
  <2>. HIDE DEF m
  <2>3. /\ PredictorFields(a) /\ Keeps(m, a) /\ a.active = yes
        /\ a.cells = m.cells /\ a.cursors = m.cursors /\ a.cur = m.cur
        /\ a.epoch = m.epoch /\ a.confirmed = m.confirmed
        /\ a.glitch = m.glitch /\ a.held = m.held
    BY ZenonT(30), <2>2, WithActive
  <2>. HIDE DEF a
  <2>4. waiting # << >>
    BY <1>5, <1>7, <1>10
  <2>5. p.cursors # << >> /\ ~IsDue(p, Last(p.cursors))
    BY <1>8, <2>4
  <2>6. Last(waiting) = Last(p.cursors)
    BY <1>5, <1>7, <2>5
  <2>7. /\ q.active /\ q.cells = p.cells /\ q.cursors = waiting /\ q.cur = p.cur
        /\ q.epoch = p.epoch /\ q.held = p.held
    BY <2>1, <2>2, <2>3 DEF yes
  <2>. QED
    BY <2>4, <2>5, <2>6, <2>7 DEF Leaves, q
<1>. QED
  BY <1>9, <1>10

\* confirm drops what came true, and nothing else.
LEMMA ConfirmVindicated ==
    ASSUME NEW p, NEW scr, ScreenOK(scr), PredictorInv(p, scr.size), Vindicated(p, scr), NEW repaired
    PROVE  Leaves(p, Confirm(p, scr, repaired), scr)
<1>1. Guessing(p, scr.size) /\ Anchored(p) /\ scr.size \in Sizes
  BY DEF PredictorInv, ScreenOK
<1>2. CASE p.cells = << >>
  <2>1. Confirm(p, scr, repaired) = CullCursors(p, scr)
    BY <1>2 DEF Confirm
  <2>2. p.cursors # << >> /\ IsDue(p, Last(p.cursors)) => p.cur = scr.cur
    BY DEF Vindicated
  <2>. QED
    BY <1>1, <1>2, <2>1, <2>2, CullVindicated
<1>3. CASE p.cells # << >>
  <2>. DEFINE due       == DueCells(p)
              wrong     == {pos \in due : /\ ~p.cells[pos].unknown
                                          /\ p.cells[pos].ch \notin {Empty, scr.cell[pos]}}
              first     == {pos \in wrong : \A v \in wrong : ~Precedes(v, pos)}
              judged    == IF p.pref = "experimental" THEN due
                           ELSE {pos \in due : \A v \in first : Precedes(pos, v)}
              credited  == {pos \in judged \ wrong : HasCredit(p, pos, scr)}
              confirmed == Max({p.confirmed} \cup {p.cells[pos].epoch : pos \in credited})
              q         == [Without(p, judged) EXCEPT !.confirmed = confirmed]
              glitch    == IF repaired /\ credited # {} /\ q.glitch > 0
                           THEN q.glitch - 1 ELSE q.glitch
              g         == [q EXCEPT !.glitch = glitch]
              at        == CHOOSE pos \in first : TRUE
              epoch     == p.cells[at].epoch
              result    == ConfirmCells(p, scr, repaired)
  <2>1. result = IF p.pref # "experimental" /\ first # {}
                 THEN IF epoch > confirmed THEN KillEpoch(q, epoch, scr) ELSE SnapTo(Reset(q), scr)
                 ELSE CullCursors(g, scr)
    BY DEF ConfirmCells
  <2>. HIDE DEF result
  <2>2. Confirm(p, scr, repaired) = result
    BY <1>1, <1>3 DEF Confirm, Anchored, result
  <2>3. wrong = {}
    BY DEF Vindicated, DueCells
  <2>4. first = {}
    <3>. HIDE DEF wrong
    <3>. QED
      BY <2>3
  <2>. HIDE DEF first
  <2>5. judged = due
    BY <2>4
  <2>. HIDE DEF judged
  <2>6. credited \subseteq due
    BY <2>5
  <2>7. due = {pos \in DOMAIN p.cells : IsDue(p, p.cells[pos])}
    BY DEF DueCells
  <2>. HIDE DEF wrong, due, at, credited
  <2>8. Credible(p, confirmed)
    <3>1. credited \subseteq DOMAIN p.cells
      BY <2>6, <2>7
    <3>. QED
      BY <1>1, <3>1, ConfirmedIs
  <2>. HIDE DEF confirmed
  <2>9. /\ Guessing(q, scr.size) /\ Keeps(p, q)
        /\ q.cells = CellsLeft(p, judged)
        /\ q.cursors = p.cursors /\ q.active = p.active /\ q.cur = p.cur
        /\ q.glitch = p.glitch /\ q.epoch = p.epoch /\ q.held = p.held
    <3>. DEFINE r == Judged(p, judged, confirmed)
    <3>1. q = r
      BY DEF Judged
    <3>. HIDE DEF q
    <3>2. Guessing(r, scr.size) /\ Keeps(p, r)
      BY <1>1, <2>8, JudgedOK
    <3>3. r.cells = CellsLeft(p, judged)
      BY <1>1, <2>8, JudgedOK
    <3>4. r.cursors = p.cursors
      BY <1>1, <2>8, JudgedOK
    <3>5. r.cur = p.cur /\ r.glitch = p.glitch /\ r.epoch = p.epoch /\ r.held = p.held
      BY <1>1, <2>8, JudgedOK
    <3>6. r.active = p.active
      BY <1>1, <2>8, JudgedOK
    <3>. HIDE DEF r
    <3>. QED
      BY <3>1, <3>2, <3>3, <3>4, <3>5, <3>6
  <2>. HIDE DEF q
  <2>10. PredictorFields(q) /\ q.glitch \in 0 .. 2 * GlitchRepairs
    BY <2>9 DEF Guessing, Numbers
  <2>11. glitch \in 0 .. 2 * GlitchRepairs
    <3>1. GlitchRepairs \in Nat
      BY PredictorAssumption
    <3>2. 2 * GlitchRepairs \in Nat
      BY <3>1
    <3>. QED
      BY <2>10, <3>2
  <2>. HIDE DEF glitch
  <2>12. /\ PredictorFields(g) /\ Keeps(q, g) /\ g.glitch = glitch
         /\ g.cells = q.cells /\ g.cursors = q.cursors /\ g.active = q.active /\ g.cur = q.cur
         /\ g.epoch = q.epoch /\ g.confirmed = q.confirmed /\ g.held = q.held
    BY <2>10, WithGlitch
  <2>. HIDE DEF g
  <2>13. /\ Ceiling(g) = Ceiling(q)
         /\ g.late = p.late
         /\ g.cursors = p.cursors /\ g.active = p.active /\ g.cur = p.cur
         /\ g.epoch = p.epoch /\ g.held = p.held
         /\ g.cells = CellsLeft(p, due)
    BY <2>5, <2>9, <2>12 DEF Ceiling, Keeps
  <2>14. Numbers(g)
    BY <2>9, <2>11, <2>12 DEF Guessing, Numbers, Keeps
  <2>15. Guessing(g, scr.size)
    BY <2>9, <2>12, <2>13, <2>14 DEF Guessing, Keeps
  <2>16. Anchored(g)
    BY <1>1, <1>3, <2>13 DEF Anchored
  <2>17. \A x : IsDue(g, x) <=> IsDue(p, x)
    BY <2>13 DEF IsDue
  <2>18. /\ DOMAIN g.cells = DOMAIN p.cells \ due
         /\ \A pos \in DOMAIN g.cells : g.cells[pos] = p.cells[pos]
    BY <2>13 DEF CellsLeft
  <2>19. g.cells # << >> => g.cursors # << >> /\ ~IsDue(g, Last(g.cursors))
    <3>. SUFFICES ASSUME g.cells # << >>
                  PROVE  g.cursors # << >> /\ ~IsDue(g, Last(g.cursors))
      OBVIOUS
    <3>1. DOMAIN g.cells # {}
      BY <2>15, NoCells DEF Guessing
    <3>2. PICK pos \in DOMAIN g.cells : TRUE
      BY <3>1
    <3>3. pos \in DOMAIN p.cells /\ ~IsDue(p, p.cells[pos])
      BY <2>7, <2>18, <3>2
    <3>4. p.cursors # << >> /\ p.cells[pos].exp <= Last(p.cursors).exp
      BY <3>3 DEF Vindicated
    <3>5. p.late \in Nat /\ p.cells[pos].exp \in Nat
      BY <1>1, <3>3 DEF Guessing, Numbers, CellsOK, GuessOK
    <3>6. Last(p.cursors).exp \in Nat
      BY <3>4, AwaitsOK DEF Awaits
    <3>7. ~IsDue(p, Last(p.cursors))
      BY <3>3, <3>4, <3>5, <3>6 DEF IsDue
    <3>. QED
      BY <2>13, <2>17, <3>4, <3>7
  <2>20. g.cursors # << >> /\ IsDue(g, Last(g.cursors)) => g.cur = scr.cur
    BY <2>13, <2>17 DEF Vindicated
  <2>21. Leaves(g, CullCursors(g, scr), scr)
    BY <2>15, <2>16, <2>19, <2>20, CullVindicated
  <2>22. result = CullCursors(g, scr)
    BY <2>1, <2>4
  <2>23. Leaves(p, CullCursors(g, scr), scr)
    <3>. DEFINE c == CullCursors(g, scr)
    <3>. HIDE DEF c
    <3>1. Leaves(g, c, scr)
      BY <2>21 DEF c
    <3>2. Leaves(p, c, scr)
      BY <2>7, <2>13, <2>17, <2>18, <3>1 DEF Leaves
    <3>. QED
      BY <3>2 DEF c
  <2>. QED
    BY <2>2, <2>22, <2>23
<1>. QED
  BY <1>2, <1>3

\* What is carried, by fewer frames or in a longer prefix.
LEMMA CoversDown ==
    ASSUME NEW st \in Seq(Elements), NEW k \in Nat, NEW g \in Nat, Covers(st, k, g)
    PROVE  /\ \A f \in Nat : f <= g => Covers(st, k, f)
           /\ \A l \in Nat : k <= l => Covers(st, l, g)
<1>1. \A i \in 1 .. Len(st) : st[i].frame \in Nat
  <2>1. \A i \in 1 .. Len(st) : st[i] \in Elements
    BY LenProperties
  <2>. QED
    BY <2>1 DEF Elements
<1>2. Len(st) \in Nat
  BY LenProperties
<1>. QED
  BY <1>1, <1>2 DEF Covers

\* One after the other.
LEMMA TrailsOn ==
    ASSUME NEW p, NEW q, NEW r, NEW k, NEW st, Trails(p, q, k, st), Trails(q, r, k, st)
    PROVE  Trails(p, r, k, st)
<1>2. \A pos \in DOMAIN r.cells : pos \in DOMAIN p.cells /\ r.cells[pos] = p.cells[pos]
  BY DEF Trails
<1>3. \A pos \in DOMAIN p.cells : pos \in DOMAIN r.cells \/ Covers(st, k, p.cells[pos].exp)
  BY DEF Trails
<1>4. \/ Idle(r) /\ (p.cursors # << >> => Covers(st, k, Last(p.cursors).exp))
      \/ /\ p.cursors # << >> /\ r.cursors # << >> /\ Last(r.cursors) = Last(p.cursors)
         /\ r.cur = p.cur
  <2>1. CASE Idle(q) /\ (p.cursors # << >> => Covers(st, k, Last(p.cursors).exp))
    BY <2>1 DEF Trails, Idle
  <2>2. CASE /\ p.cursors # << >> /\ q.cursors # << >> /\ Last(q.cursors) = Last(p.cursors)
             /\ q.cur = p.cur
    BY <2>2 DEF Trails
  <2>. QED
    BY <2>1, <2>2 DEF Trails
<1>. QED
  BY <1>2, <1>3, <1>4 DEF Trails

\* The same guesses follow.
LEMMA SameTrail ==
    ASSUME NEW p, NEW q, NEW k, NEW st, q.cells = p.cells,
           q.cursors = p.cursors, q.cur = p.cur, Idle(q) \/ p.cursors # << >>
    PROVE  Trails(p, q, k, st)
<1>1. Idle(q) => p.cursors = << >>
  BY DEF Idle
<1>. QED
  BY <1>1 DEF Trails

\* An idle predictor claims nothing.
LEMMA IdleSound ==
    ASSUME NEW p, NEW host, NEW S, NEW st, Idle(p)
    PROVE  Sound(p, host, S, st)
<1>1. DOMAIN p.cells = {}
  BY DEF Idle
<1>. QED
  BY <1>1 DEF Sound, Idle

\* Guesses that stay are as good as before,
LEMMA TrailsSound ==
    ASSUME NEW p, NEW q, NEW k, NEW st, NEW S, NEW host, NEW scr, scr.gen = host.gen,
           Sound(p, host, S, st), Trails(p, q, k, st), q.active => q.cursors # << >>
    PROVE  Sound(q, scr, S, st)
<1>1. CASE Idle(q)
  BY <1>1, IdleSound
<1>2. CASE /\ p.cursors # << >> /\ q.cursors # << >> /\ Last(q.cursors) = Last(p.cursors)
           /\ q.cur = p.cur
  <2>1. \A pos \in DOMAIN q.cells : q.cells[pos].exp <= Last(q.cursors).exp
    BY <1>2 DEF Sound, Trails
  <2>2. \A pos \in DOMAIN q.cells, n \in 0 .. Len(st) :
          Covers(st, n, q.cells[pos].exp) /\ S[n].gen = scr.gen =>
              q.cells[pos].unknown \/ S[n].cell[pos] = q.cells[pos].ch
    BY DEF Sound, Trails
  <2>3. \A n \in 0 .. Len(st) : Covers(st, n, Last(q.cursors).exp) => S[n].cur = q.cur
    BY <1>2 DEF Sound
  <2>. QED
    BY <1>2, <2>1, <2>2, <2>3 DEF Sound
<1>. QED
  BY <1>1, <1>2 DEF Trails

\* and what they left is shown by the k-th screen.
LEMMA TrailsTraced ==
    ASSUME NEW st \in Seq(Elements), NEW p, Awaits(p), NEW q, NEW S, NEW host,
           NEW h \in 0 .. Len(st), NEW k \in h .. Len(st),
           Sound(p, host, S, st), Traced(p, h, S, st), Trails(p, q, k, st)
    PROVE  Traced(q, k, S, st)
<1>1. Len(st) \in Nat /\ Len(st) \in 0 .. Len(st)
  BY LenProperties
<1>2. \A n \in k .. Len(st) : n \in h .. Len(st) /\ n \in 0 .. Len(st) /\ k <= n /\ k \in Nat /\ n \in Nat
  BY <1>1
<1>3. \A f \in Nat, n \in k .. Len(st) : Covers(st, k, f) => Covers(st, n, f)
  BY <1>2, CoversDown
<1>4. ASSUME NEW pos \in DOMAIN S[Len(st)].cell, NEW n \in k .. Len(st),
             pos \in DOMAIN q.cells => Covers(st, n, q.cells[pos].exp),
             S[n].gen = S[Len(st)].gen
      PROVE  S[n].cell[pos] = S[Len(st)].cell[pos]
  <2>1. pos \in DOMAIN p.cells => Covers(st, n, p.cells[pos].exp)
    <3>. SUFFICES ASSUME pos \in DOMAIN p.cells PROVE Covers(st, n, p.cells[pos].exp)
      OBVIOUS
    <3>1. CASE pos \in DOMAIN q.cells
      BY <1>4, <3>1 DEF Trails
    <3>2. CASE Covers(st, k, p.cells[pos].exp)
      BY <1>3, <3>2 DEF Awaits
    <3>. QED
      BY <3>1, <3>2 DEF Trails
  <2>. QED
    BY <1>2, <1>4, <2>1 DEF Traced
<1>5. ASSUME q.cursors = << >>, NEW n \in k .. Len(st)
      PROVE  S[n].cur = S[Len(st)].cur
  <2>1. p.cursors # << >> => Covers(st, k, Last(p.cursors).exp)
    BY <1>5 DEF Trails
  <2>2. CASE p.cursors = << >>
    BY <1>2, <2>2 DEF Traced
  <2>3. CASE p.cursors # << >>
    <3>1. Covers(st, n, Last(p.cursors).exp)
      BY <1>3, <2>1, <2>3 DEF Awaits
    <3>2. S[n].cur = p.cur
      BY <1>2, <2>3, <3>1 DEF Sound
    <3>3. S[Len(st)].cur = p.cur
      BY <1>1, <2>3, CoversAll DEF Sound
    <3>. QED
      BY <3>2, <3>3
  <2>. QED
    BY <2>2, <2>3
<1>. QED
  BY <1>4, <1>5 DEF Traced

\* What was answered early is answered later.
LEMMA TrailsUp ==
    ASSUME NEW st \in Seq(Elements), NEW p, Awaits(p), NEW q, NEW k \in Nat, NEW l \in Nat, k <= l,
           Trails(p, q, k, st)
    PROVE  Trails(p, q, l, st)
<1>1. \A f \in Nat : Covers(st, k, f) => Covers(st, l, f)
  BY CoversDown
<1>. QED
  BY <1>1 DEF Trails, Awaits

\* confirm, against the screen that answers the frames acknowledged, or
\* before anything predicted is.
LEMMA ConfirmTracked ==
    ASSUME NEW st \in Seq(Elements), NEW scr, ScreenOK(scr), NEW p, PredictorInv(p, scr.size),
           NEW S, NEW host, scr.gen = host.gen, Sound(p, host, S, st),
           NEW k \in 0 .. Len(st), Covers(st, k, p.late),
           \/ scr.cell = S[k].cell /\ scr.cur = S[k].cur /\ scr.gen = S[k].gen
           \/ NotYet(p, k, st),
           NEW repaired
    PROVE  LET q == Confirm(p, scr, repaired)
           IN  /\ PredictorInv(q, scr.size) /\ Keeps(p, q)
               /\ Trails(p, q, k, st) /\ Sound(q, scr, S, st) /\ q.epoch = p.epoch
<1>. DEFINE q == Confirm(p, scr, repaired)
<1>1. p.late \in Nat /\ Awaits(p) /\ Len(st) \in Nat
  BY AwaitsOK, LenProperties DEF PredictorInv, Guessing, Numbers
<1>2. \A f \in Nat : f <= p.late => Covers(st, k, f)
  BY <1>1, CoversDown
<1>3. \A pos \in DOMAIN p.cells : IsDue(p, p.cells[pos]) => Covers(st, k, p.cells[pos].exp)
  BY <1>1, <1>2 DEF IsDue, Awaits
<1>4. p.cursors # << >> /\ IsDue(p, Last(p.cursors)) => Covers(st, k, Last(p.cursors).exp)
  BY <1>1, <1>2 DEF IsDue, Awaits
<1>5. Vindicated(p, scr)
  <2>1. \A pos \in DOMAIN p.cells : p.cursors # << >> /\ p.cells[pos].exp <= Last(p.cursors).exp
    BY DEF Sound
  <2>2. CASE NotYet(p, k, st)
    BY <1>3, <1>4, <2>1, <2>2 DEF NotYet, Vindicated
  <2>3. CASE scr.cell = S[k].cell /\ scr.cur = S[k].cur /\ scr.gen = S[k].gen
    <3>1. \A pos \in DOMAIN p.cells :
            IsDue(p, p.cells[pos]) => p.cells[pos].unknown \/ p.cells[pos].ch = scr.cell[pos]
      BY <1>3, <2>3 DEF Sound
    <3>2. p.cursors # << >> /\ IsDue(p, Last(p.cursors)) => p.cur = scr.cur
      BY <1>4, <2>3 DEF Sound
    <3>. QED
      BY <2>1, <3>1, <3>2 DEF Vindicated
  <2>. QED
    BY <2>2, <2>3
<1>6. Leaves(p, q, scr)
  BY <1>5, ConfirmVindicated
<1>7. PredictorInv(q, scr.size) /\ Keeps(p, q)
  BY ConfirmOK
<1>. HIDE DEF q
<1>8. Trails(p, q, k, st)
  BY <1>3, <1>4, <1>6 DEF Leaves, Trails
<1>9. (q.active => q.cursors # << >>) /\ q.epoch = p.epoch
  BY <1>6 DEF Leaves, Idle
<1>10. Sound(q, scr, S, st)
  BY <1>8, <1>9, TrailsSound
<1>. QED
  BY <1>7, <1>8, <1>9, <1>10 DEF q

\* An idle predictor stays idle, and follows the host's cursor.
LEMMA ConfirmIdle ==
    ASSUME NEW scr, ScreenOK(scr), NEW p, PredictorInv(p, scr.size), Idle(p), NEW repaired
    PROVE  LET q == Confirm(p, scr, repaired)
           IN  /\ PredictorInv(q, scr.size) /\ Keeps(p, q) /\ Idle(q)
<1>. DEFINE q == Confirm(p, scr, repaired)
<1>1. DOMAIN p.cells = {} /\ p.cursors = << >>
  BY DEF Idle
<1>2. Vindicated(p, scr)
  BY <1>1 DEF Vindicated
<1>3. Leaves(p, q, scr)
  BY <1>2, ConfirmVindicated
<1>4. PredictorInv(q, scr.size) /\ Keeps(p, q)
  BY ConfirmOK
<1>. HIDE DEF q
<1>5. Idle(q)
  BY <1>1, <1>3 DEF Leaves
<1>. QED
  BY <1>4, <1>5 DEF q

\* However long they wait.
LEMMA AgedTracked ==
    ASSUME NEW p, NEW q, NEW c, NEW k, NEW st, NEW S, NEW scr, NEW size, PredictorInv(c, size), NEW age,
           q = SampleAge(c, age), Trails(p, c, k, st), Sound(c, scr, S, st)
    PROVE  /\ PredictorInv(q, size) /\ Trails(p, q, k, st) /\ Sound(q, scr, S, st)
           /\ q.epoch = c.epoch
<1>1. PredictorInv(q, size) /\ SameGuesses(c, q) /\ q.active = c.active
  BY SampleAgeOK
<1>2. Idle(c) => Idle(q)
  BY <1>1 DEF Idle, SameGuesses
<1>3. Idle(q) \/ c.cursors # << >>
  BY <1>2 DEF Trails
<1>4. Trails(c, q, k, st)
  BY <1>1, <1>3, SameTrail DEF SameGuesses
<1>5. Trails(p, q, k, st)
  BY <1>4, TrailsOn
<1>6. q.active => q.cursors # << >>
  BY <1>1 DEF Sound, SameGuesses
<1>7. Sound(q, scr, S, st)
  BY <1>4, <1>6, TrailsSound
<1>. QED
  BY <1>1, <1>5, <1>7 DEF SameGuesses

\* A screen on which the predictions stay.
LEMMA FramedTracked ==
    ASSUME NEW st \in Seq(Elements), NEW v, PredictorInv(v.pr, v.host.size), v.pr.active,
           NEW S, Sound(v.pr, v.host, S, st), NEW k \in 0 .. Len(st), Covers(st, k, v.pr.late),
           NEW frame, ScreenOK(frame), ~Moved(v, frame),
           frame.cell = S[k].cell /\ frame.cur = S[k].cur /\ frame.gen = S[k].gen,
           NEW repaired, NEW age
    PROVE  LET q == Framed(v, frame, repaired, age)
           IN  /\ PredictorInv(q, frame.size) /\ Trails(v.pr, q, k, st) /\ Sound(q, frame, S, st)
               /\ q.epoch = v.pr.epoch
<1>. DEFINE p == v.pr
            c == Confirm(p, frame, repaired)
            q == Framed(v, frame, repaired, age)
<1>1. frame.gen = v.host.gen /\ frame.size = v.host.size
  BY DEF Moved
<1>2. q = SampleAge(c, age)
  BY DEF Framed, SetCursor
<1>3. PredictorInv(c, frame.size) /\ Trails(p, c, k, st) /\ Sound(c, frame, S, st)
      /\ c.epoch = p.epoch
  <2>1. PredictorInv(p, frame.size) /\ Sound(p, v.host, S, st) /\ Covers(st, k, p.late)
    BY <1>1
  <2>2. \/ frame.cell = S[k].cell /\ frame.cur = S[k].cur /\ frame.gen = S[k].gen
        \/ NotYet(p, k, st)
    OBVIOUS
  <2>. HIDE DEF p
  <2>. QED
    BY ONLY <1>1, <2>1, <2>2, ConfirmTracked, st \in Seq(Elements), ScreenOK(frame), k \in 0 .. Len(st)
<1>. HIDE DEF c, q
<1>4. PredictorInv(q, frame.size) /\ Trails(p, q, k, st) /\ Sound(q, frame, S, st)
      /\ q.epoch = p.epoch
  BY <1>2, <1>3, AgedTracked
<1>. QED
  BY <1>4 DEF q

\* A screen when nothing is predicted, or on which predictions do not stay.
LEMMA FramedIdle ==
    ASSUME NEW v, ScreenOK(v.host), PredictorInv(v.pr, v.host.size),
           NEW frame, ScreenOK(frame), Idle(v.pr) \/ Moved(v, frame), NEW repaired, NEW age
    PROVE  LET q == Framed(v, frame, repaired, age)
           IN  PredictorInv(q, frame.size) /\ Idle(q)
<1>. DEFINE r == Reset(v.pr)
            p == IF Moved(v, frame) THEN r ELSE v.pr
            s == SetCursor(p, frame)
            c == Confirm(s, frame, repaired)
            q == SampleAge(c, age)
<1>1. Framed(v, frame, repaired, age) = q
  BY DEF Framed
<1>2. PredictorInv(r, v.host.size) /\ Idle(r)
  BY ResetIs DEF PredictorInv, Idle
<1>3. PredictorInv(p, v.host.size) /\ Idle(p)
  <2>. HIDE DEF r
  <2>. QED
    BY <1>2
<1>. HIDE DEF p
<1>4. PredictorInv(s, frame.size) /\ Idle(s)
  <2>1. ~p.active
    BY <1>3 DEF Idle
  <2>2. /\ PredictorInv(s, frame.size) /\ s.cells = p.cells /\ s.active = p.active
        /\ s.cursors = p.cursors
    BY <1>3, <2>1, SetCursorOK
  <2>. HIDE DEF s
  <2>. QED
    BY <1>3, <2>2 DEF Idle
<1>. HIDE DEF s
<1>5. PredictorInv(c, frame.size) /\ Idle(c)
  BY <1>4, ConfirmIdle
<1>. HIDE DEF c
<1>6. PredictorInv(q, frame.size) /\ SameGuesses(c, q) /\ q.active = c.active
  BY <1>5, SampleAgeOK
<1>. HIDE DEF q
<1>7. Idle(q)
  BY <1>5, <1>6 DEF Idle, SameGuesses
<1>. QED
  BY <1>1, <1>6, <1>7

\* The frames sent and acknowledged change no prediction.
LEMMA InformedSame ==
    ASSUME NEW v, NEW size, PredictorInv(v.pr, size), NEW sent \in Nat, NEW late \in Nat, late <= sent
    PROVE  LET a == Informed(v, sent, late)
           IN  /\ PredictorInv(a, size) /\ SameButFrames(v.pr, a)
               /\ a.late = Larger(v.pr.late, late)
<1>. DEFINE m == SetWatermarks(v.pr, sent, late)
            a == ObserveLateAck(m, v.updated)
<1>1. PredictorInv(m, size) /\ SameButFrames(v.pr, m) /\ m.late = Larger(v.pr.late, late)
  BY SetWatermarksOK
<1>. HIDE DEF m
<1>2. PredictorInv(a, size) /\ SameButFrames(m, a) /\ a.late = m.late
  BY <1>1, ObserveLateAckOK
<1>3. Informed(v, sent, late) = a
  BY DEF Informed, m
<1>. HIDE DEF a
<1>4. PredictorInv(a, size) /\ SameButFrames(v.pr, a) /\ a.late = Larger(v.pr.late, late)
  BY <1>1, <1>2 DEF SameButFrames
<1>. QED
  BY <1>3, <1>4

\* Judging again with the frames acknowledged.
LEMMA RejudgedTracked ==
    ASSUME NEW st \in Seq(Elements), NEW v, ScreenOK(v.host), PredictorInv(v.pr, v.host.size),
           NEW S, Sound(v.pr, v.host, S, st), NEW k \in 0 .. Len(st),
           NEW sent \in Nat, NEW late \in Nat, late <= sent, Covers(st, k, Larger(v.pr.late, late)),
           v.host = S[k] \/ NotYet(v.pr, k, st), NEW repaired, NEW age
    PROVE  LET q == Rejudged(v, sent, late, repaired, age)
           IN  /\ PredictorInv(q, v.host.size) /\ Trails(v.pr, q, k, st) /\ Sound(q, v.host, S, st)
               /\ q.epoch = v.pr.epoch
<1>. DEFINE p == v.pr
            scr == v.host
            a == Informed(v, sent, late)
            c == Confirm(a, scr, repaired)
            q == Rejudged(v, sent, late, repaired, age)
<1>1. q = IF p.cells = << >> /\ ~p.active THEN a ELSE SampleAge(c, age)
  BY DEF Rejudged
<1>2. /\ PredictorInv(a, scr.size) /\ SameButFrames(p, a)
      /\ a.late = Larger(p.late, late)
  BY InformedSame
<1>3. Anchored(p) /\ p.active \in BOOLEAN
  BY DEF PredictorInv, Guessing
<1>. HIDE DEF a, q
<1>4. a.active => a.cursors # << >>
  BY <1>2 DEF Sound, SameButFrames
<1>5. Trails(p, a, k, st)
  <2>1. Idle(a) \/ p.cursors # << >>
    <3>1. p.cursors = << >> => ~p.active
      BY DEF Sound
    <3>2. ~p.active => p.cells = << >>
      BY <1>3 DEF Anchored
    <3>. QED
      BY <1>2, <3>1, <3>2 DEF Idle, SameButFrames
  <2>. QED
    BY <1>2, <2>1, SameTrail DEF SameButFrames
<1>6. Sound(a, scr, S, st)
  BY <1>4, <1>5, TrailsSound
<1>7. CASE p.cells = << >> /\ ~p.active
  BY <1>1, <1>2, <1>5, <1>6, <1>7 DEF q, SameButFrames
<1>8. CASE ~(p.cells = << >> /\ ~p.active)
  <2>1. NotYet(p, k, st) => NotYet(a, k, st)
    BY <1>2 DEF NotYet, SameButFrames
  <2>2. Covers(st, k, a.late)
    BY <1>2
  <2>3. PredictorInv(c, scr.size) /\ Trails(a, c, k, st) /\ Sound(c, scr, S, st)
        /\ c.epoch = a.epoch
    BY <1>2, <1>6, <2>1, <2>2, ConfirmTracked
  <2>. HIDE DEF c
  <2>4. q = SampleAge(c, age)
    BY <1>1, <1>8
  <2>5. Trails(p, c, k, st)
    BY <1>5, <2>3, TrailsOn
  <2>6. PredictorInv(q, scr.size) /\ Trails(p, q, k, st) /\ Sound(q, scr, S, st)
        /\ q.epoch = c.epoch
    BY ONLY <2>3, <2>4, <2>5, AgedTracked
  <2>. QED
    BY <1>2, <2>3, <2>6 DEF q, SameButFrames
<1>. QED
  BY <1>7, <1>8

\* Nothing comes of nothing.
LEMMA RejudgedIdle ==
    ASSUME NEW v, ScreenOK(v.host), PredictorInv(v.pr, v.host.size), Idle(v.pr),
           NEW sent \in Nat, NEW late \in Nat, late <= sent, NEW repaired, NEW age
    PROVE  Idle(Rejudged(v, sent, late, repaired, age))
<1>1. Rejudged(v, sent, late, repaired, age) = Informed(v, sent, late)
  BY DEF Rejudged, Idle
<1>2. SameButFrames(v.pr, Informed(v, sent, late))
  BY InformedSame
<1>. QED
  BY <1>1, <1>2 DEF Idle, SameButFrames

-----------------------------------------------------------------------------
(***************************************************************************)
(* The host's screen and the stream.                                       *)
(***************************************************************************)

\* Then the screens differ in size from none of them, and one that scrolled
\* has its number from there.
LEMMA ScreensRest ==
    ASSUME NEW st \in Seq(Elements), scene.size \in Sizes, scene.prompts = FALSE,
           NEW h \in 0 .. Len(st), Rests(st, h), NEW n \in h .. Len(st)
    PROVE  LET S == ScreensOf(st)
           IN  S[n].size = S[h].size /\ (S[n].gen = S[h].gen \/ S[n].gen > h)
<1>. DEFINE S == ScreensOf(st)
            Good(k) == S[k].size = S[h].size /\ (S[k].gen = S[h].gen \/ S[k].gen > h)
            T == {k \in Nat : h + k <= Len(st) => Good(h + k)}
<1>0. h \in Nat /\ Len(st) \in Nat /\ \A i \in 1 .. Len(st) : st[i] \in Elements
  BY LenProperties
<1>1. 0 \in T
  BY <1>0
<1>2. ASSUME NEW k \in Nat, k \in T
      PROVE  k + 1 \in T
  <2>. SUFFICES ASSUME h + (k + 1) <= Len(st) PROVE Good(h + (k + 1))
    OBVIOUS
  <2>. DEFINE a == h + k
              app == AppOf(st, a)
              next == AppOf(st, a + 1)
              item == st[a + 1]
  <2>1. a \in Nat /\ a + 1 <= Len(st) /\ a <= Len(st) /\ h + (k + 1) = a + 1 /\ a + 1 \in h + 1 .. Len(st)
        /\ a \in 0 .. Len(st) /\ a + 1 \in 0 .. Len(st) /\ a + 1 > h
    BY <1>0
  <2>2. Good(a)
    BY <1>2, <2>1
  <2>3. S[a] = app.scr /\ S[a + 1] = next.scr
    BY <2>1 DEF ScreensOf
  <2>4. Echoing(app, a)
    BY <2>1, EchoesAll
  <2>5. item.byte # "resize"
    BY <2>1 DEF Rests
  <2>6. next = Absorb(app, item)
    BY <2>1, AppOfNext
  <2>. HIDE DEF a, app, next, item, S
  <2>. DEFINE r == ReadByte(app.held, item.byte)
  <2>7. r = ReadByte(app.held, item.byte)
    OBVIOUS
  <2>. HIDE DEF r
  <2>8. next.scr = KeyOn(app.scr, r.token, a + 1)
    BY <2>1, <2>4, <2>5, <2>6, <2>7, EchoesKey
  <2>9. Glyphs(app.scr)
    BY <2>4 DEF Echoing
  <2>10. next.scr.size = app.scr.size /\ next.scr.gen \in {app.scr.gen, a + 1}
    BY <2>8, <2>9, KeyOnIs
  <2>. QED
    BY <2>1, <2>2, <2>3, <2>10
<1>3. n - h \in T
  <2>1. n - h \in Nat
    BY <1>0
  <2>. HIDE DEF T
  <2>. QED
    BY <1>1, <1>2, <2>1, InductiveSet
<1>4. h + (n - h) = n /\ n <= Len(st)
  BY <1>0
<1>. QED
  BY <1>3, <1>4

\* An idle predictor's guesses are not answered yet: there are none.
LEMMA IdleNotYet ==
    ASSUME NEW p, NEW k, NEW st, Idle(p)
    PROVE  NotYet(p, k, st)
<1>1. DOMAIN p.cells = {}
  BY DEF Idle
<1>. QED
  BY <1>1 DEF NotYet, Idle

\* Rest goes on.
LEMMA RestsOn ==
    ASSUME NEW st \in Seq(Elements), NEW h \in Nat, NEW n \in Nat, h <= n, Rests(st, h)
    PROVE  Rests(st, n)
<1>1. Len(st) \in Nat
  BY LenProperties
<1>. QED
  BY <1>1 DEF Rests

\* A screen of the server: predictions stay on it only as it answers them.
LEMMA FrameTracked ==
    ASSUME NEW st \in Seq(Elements), NEW v, PredictorInv(v.pr, v.host.size), v.pr.active,
           NEW S, NEW done, NEW h, Abreast(v, S, st, done, h), NEW n \in done .. Len(st),
           Covers(st, n, v.pr.late),
           NEW frame, ScreenOK(frame), frame = S[n], ~Moved(v, frame), NEW repaired, NEW age
    PROVE  LET q == Framed(v, frame, repaired, age)
           IN  /\ PredictorInv(q, frame.size) /\ Trails(v.pr, q, n, st) /\ Sound(q, frame, S, st)
               /\ q.epoch = v.pr.epoch /\ h <= n
<1>1. /\ done \in Nat /\ h \in Nat /\ Len(st) \in Nat /\ n \in 0 .. Len(st) /\ n \in Nat /\ done <= n
      /\ h = done \/ h = done + 1
      /\ Sound(v.pr, v.host, S, st)
  BY LenProperties DEF Abreast
<1>2. h <= n
  <2>. SUFFICES ASSUME ~(h <= n) PROVE FALSE
    OBVIOUS
  <2>1. h # done /\ n = done
    BY <1>1
  <2>2. S[h].size # S[done].size /\ v.host.size = S[h].size
    BY <2>1 DEF Abreast, Idle
  <2>. QED
    BY <2>1, <2>2 DEF Moved
<1>3. LET q == Framed(v, frame, repaired, age)
      IN  /\ PredictorInv(q, frame.size) /\ Trails(v.pr, q, n, st) /\ Sound(q, frame, S, st)
          /\ q.epoch = v.pr.epoch
  <2>1. /\ n \in 0 .. Len(st) /\ Sound(v.pr, v.host, S, st)
        /\ frame.cell = S[n].cell /\ frame.cur = S[n].cur /\ frame.gen = S[n].gen
    BY <1>1
  <2>. QED
    BY ONLY <2>1, FramedTracked, st \in Seq(Elements), PredictorInv(v.pr, v.host.size), v.pr.active,
            Covers(st, n, v.pr.late), ScreenOK(frame), ~Moved(v, frame)
<1>. QED
  BY <1>2, <1>3

\* After it the host is abreast of the stream again.
LEMMA FrameSettles ==
    ASSUME NEW st \in Seq(Elements), NEW S, Echoed(S, st), NEW v, NEW done, NEW h,
           Abreast(v, S, st, done, h), NEW n \in done .. Len(st),
           NEW u, u.host = S[n], Idle(u.pr) \/ (h <= n /\ Sound(u.pr, u.host, S, st))
    PROVE  Abreast(u, S, st, n, Later(h, n))
<1>1. /\ done \in Nat /\ h \in Nat /\ Len(st) \in Nat /\ n \in 0 .. Len(st) /\ n \in Nat /\ done <= n
      /\ h = done \/ h = done + 1
      /\ h \in 0 .. Len(st) /\ Rests(st, h)
  BY LenProperties DEF Abreast
<1>2. u.host.gen \in 0 .. n
  BY <1>1 DEF Echoed
<1>3. Sound(u.pr, u.host, S, st)
  BY IdleSound
<1>4. CASE h <= n
  <2>1. Rests(st, n)
    BY <1>1, <1>4, RestsOn
  <2>. QED
    BY <1>1, <1>2, <1>3, <1>4, <2>1 DEF Abreast, Later
<1>5. CASE ~(h <= n)
  <2>1. n = done /\ h = n + 1 /\ h # done /\ h # n
    BY <1>1, <1>5
  <2>2. Idle(u.pr) /\ NotYet(u.pr, n, st)
    BY <1>5, IdleNotYet
  <2>3. S[h].size # S[n].size
    BY <2>1 DEF Abreast
  <2>4. u.host.gen \in 0 .. h
    BY <1>1, <1>2, <2>1
  <2>. QED
    BY <1>1, <1>3, <1>5, <2>1, <2>2, <2>3, <2>4 DEF Abreast, Later
<1>. QED
  BY <1>4, <1>5

\* What it does not answer is still guessed, if what was dropped for it was
\* answered.
LEMMA FrameTraces ==
    ASSUME NEW st \in Seq(Elements), NEW S, NEW v, Awaits(v.pr), NEW done, NEW h,
           Abreast(v, S, st, done, h), Traced(v.pr, h, S, st), NEW n \in done .. Len(st),
           NEW u,
           \/ h <= n /\ Trails(v.pr, u.pr, n, st)
           \/ Idle(u.pr) /\ (v.pr.cursors # << >> => Covers(st, n, Last(v.pr.cursors).exp))
    PROVE  Traced(u.pr, Later(h, n), S, st)
<1>1. /\ done \in Nat /\ h \in Nat /\ Len(st) \in Nat /\ n \in 0 .. Len(st) /\ n \in Nat /\ done <= n
      /\ h = done \/ h = done + 1
      /\ h \in 0 .. Len(st) /\ Sound(v.pr, v.host, S, st)
  BY LenProperties DEF Abreast
<1>2. CASE h <= n /\ Trails(v.pr, u.pr, n, st)
  <2>1. n \in h .. Len(st) /\ Later(h, n) = n
    BY <1>1, <1>2 DEF Later
  <2>. QED
    BY <1>1, <1>2, <2>1, TrailsTraced
<1>3. CASE Idle(u.pr) /\ (v.pr.cursors # << >> => Covers(st, n, Last(v.pr.cursors).exp))
  <2>1. DOMAIN u.pr.cells = {}
    BY <1>3 DEF Idle
  <2>2. \A pos \in DOMAIN v.pr.cells : Covers(st, n, v.pr.cells[pos].exp)
    <3>. SUFFICES ASSUME NEW pos \in DOMAIN v.pr.cells PROVE Covers(st, n, v.pr.cells[pos].exp)
      OBVIOUS
    <3>1. v.pr.cursors # << >> /\ v.pr.cells[pos].exp <= Last(v.pr.cursors).exp
      BY <1>1 DEF Sound
    <3>2. v.pr.cells[pos].exp \in Nat /\ Last(v.pr.cursors).exp \in Nat
      BY <3>1 DEF Awaits
    <3>. QED
      BY <1>1, <1>3, <3>1, <3>2, CoversDown
  <2>3. Trails(v.pr, u.pr, n, st)
    BY <1>3, <2>1, <2>2 DEF Trails
  <2>4. CASE h <= n
    BY <1>2, <2>3, <2>4
  <2>5. CASE ~(h <= n)
    <3>1. n = done /\ h # done /\ Later(h, n) = h /\ h \in h .. Len(st)
      BY <1>1, <2>5 DEF Later
    <3>2. NotYet(v.pr, n, st)
      BY <3>1 DEF Abreast
    <3>3. v.pr.cursors = << >> /\ DOMAIN v.pr.cells = {}
      BY <1>3, <2>2, <3>2 DEF NotYet
    <3>4. Trails(v.pr, u.pr, h, st)
      BY <1>3, <2>1, <3>3 DEF Trails
    <3>. QED
      BY <1>1, <3>1, <3>4, TrailsTraced
  <2>. QED
    BY <2>4, <2>5
<1>. QED
  BY <1>2, <1>3

\* No screen: predictions may be dropped as answered, on the one shown.
LEMMA KeptTracked ==
    ASSUME NEW st \in Seq(Elements), NEW S, NEW v, Awaits(v.pr), NEW done, NEW h,
           Abreast(v, S, st, done, h), NEW u, u.host = v.host, Sound(u.pr, u.host, S, st),
           Trails(v.pr, u.pr, done, st)
    PROVE  /\ Abreast(u, S, st, done, h)
           /\ Traced(v.pr, h, S, st) => Traced(u.pr, h, S, st)
<1>1. /\ done \in Nat /\ h \in Nat /\ Len(st) \in Nat /\ h \in 0 .. Len(st) /\ h \in h .. Len(st)
      /\ done <= h /\ Sound(v.pr, v.host, S, st)
  BY LenProperties DEF Abreast
<1>2. NotYet(v.pr, done, st) => NotYet(u.pr, done, st)
  BY DEF NotYet, Trails, Idle
<1>3. Idle(v.pr) => Idle(u.pr)
  BY DEF Trails, Idle
<1>4. Abreast(u, S, st, done, h)
  BY <1>2, <1>3 DEF Abreast
<1>5. Trails(v.pr, u.pr, h, st)
  BY <1>1, TrailsUp
<1>6. Traced(v.pr, h, S, st) => Traced(u.pr, h, S, st)
  BY <1>1, <1>5, TrailsTraced
<1>. QED
  BY <1>4, <1>6

\* Nothing is predicted unless something is active.
LEMMA InactiveIdle ==
    ASSUME NEW p, NEW size, PredictorInv(p, size)
    PROVE  p.active \/ Idle(p)
BY DEF PredictorInv, Anchored, Idle

\* A new screen: nothing is predicted on it, or what is goes on.
LEMMA ShownTracked ==
    ASSUME NEW st \in Seq(Elements), NEW S, NEW v, ScreenOK(v.host), PredictorInv(v.pr, v.host.size),
           NEW done, NEW h, Abreast(v, S, st, done, h), NEW n \in done .. Len(st), Covers(st, n, v.pr.late),
           ScreenOK(S[n]), NEW repaired, NEW age, NEW w, Paints(v, w, S[n], repaired, age)
    PROVE  /\ v.pr.active /\ ~Moved(v, w.host) => w.pr.epoch = v.pr.epoch
           /\ \/ Idle(w.pr) /\ (Idle(v.pr) \/ Moved(v, w.host))
              \/ /\ v.pr.active /\ ~Moved(v, w.host)
                 /\ h <= n /\ Trails(v.pr, w.pr, n, st) /\ Sound(w.pr, w.host, S, st)
<1>. DEFINE frame == S[n]
<1>1. /\ w.host = frame /\ w.pr = Framed(v, frame, repaired, age) /\ ScreenOK(frame) /\ frame = S[n]
  BY DEF Paints
<1>. HIDE DEF frame
<1>2. CASE v.pr.active /\ ~Moved(v, frame)
  <2>1. LET q == Framed(v, frame, repaired, age)
        IN  /\ PredictorInv(q, frame.size) /\ Trails(v.pr, q, n, st) /\ Sound(q, frame, S, st)
            /\ q.epoch = v.pr.epoch /\ h <= n
    BY <1>1, <1>2, FrameTracked
  <2>. QED
    BY <1>1, <1>2, <2>1
<1>3. CASE ~(v.pr.active /\ ~Moved(v, frame))
  <2>1. Idle(v.pr) \/ Moved(v, frame)
    BY <1>3, InactiveIdle
  <2>2. Idle(Framed(v, frame, repaired, age))
    BY ONLY <1>1, <2>1, FramedIdle, ScreenOK(v.host), PredictorInv(v.pr, v.host.size)
  <2>. QED
    BY <1>1, <1>3, <2>1, <2>2
<1>. QED
  BY <1>2, <1>3

\* Both together.
LEMMA NewsTracked ==
    ASSUME NEW st \in Seq(Elements), NEW S, Echoed(S, st),
           NEW v, ScreenOK(v.host), PredictorInv(v.pr, v.host.size),
           NEW done, NEW h, Abreast(v, S, st, done, h), NEW n \in done .. Len(st), Covers(st, n, v.pr.late),
           ScreenOK(S[n]), NEW repaired, NEW age, NEW w, Paints(v, w, S[n], repaired, age),
           PredictorInv(w.pr, w.host.size), w.pr.late = v.pr.late,
           NEW sent \in Nat, NEW late \in Nat, late <= sent, Covers(st, n, late),
           NEW u, Hears(w, u, sent, late, repaired, age)
    PROVE  /\ Abreast(u, S, st, n, Later(h, n))
           /\ v.pr.active /\ ~Moved(v, u.host) => u.pr.epoch = v.pr.epoch
           /\ \/ Idle(u.pr)
              \/ h <= n /\ Trails(v.pr, u.pr, n, st)
<1>0. /\ w.host = S[n] /\ u.host = w.host /\ u.pr = Rejudged(w, sent, late, repaired, age)
      /\ ScreenOK(w.host)
  BY DEF Paints, Hears
<1>1. /\ v.pr.active /\ ~Moved(v, w.host) => w.pr.epoch = v.pr.epoch
      /\ \/ Idle(w.pr) /\ (Idle(v.pr) \/ Moved(v, w.host))
         \/ /\ v.pr.active /\ ~Moved(v, w.host)
            /\ h <= n /\ Trails(v.pr, w.pr, n, st) /\ Sound(w.pr, w.host, S, st)
  BY ShownTracked
<1>2. CASE Idle(w.pr) /\ (Idle(v.pr) \/ Moved(v, w.host))
  <2>1. Idle(u.pr)
    BY ONLY <1>0, <1>2, RejudgedIdle, PredictorInv(w.pr, w.host.size), sent \in Nat, late \in Nat, late <= sent
  <2>2. Abreast(u, S, st, n, Later(h, n))
    BY ONLY <1>0, <2>1, FrameSettles, st \in Seq(Elements), Echoed(S, st), Abreast(v, S, st, done, h),
            n \in done .. Len(st)
  <2>. QED
    BY <1>0, <1>2, <2>1, <2>2 DEF Idle
<1>3. CASE /\ v.pr.active /\ ~Moved(v, w.host)
           /\ h <= n /\ Trails(v.pr, w.pr, n, st) /\ Sound(w.pr, w.host, S, st)
  <2>1. n \in 0 .. Len(st)
    BY LenProperties DEF Abreast
  <2>2. Covers(st, n, Larger(w.pr.late, late)) /\ (w.host = S[n] \/ NotYet(w.pr, n, st))
    BY <1>0 DEF Larger
  <2>3. LET q == Rejudged(w, sent, late, repaired, age)
        IN  /\ PredictorInv(q, w.host.size) /\ Trails(w.pr, q, n, st) /\ Sound(q, w.host, S, st)
            /\ q.epoch = w.pr.epoch
    BY ONLY <1>0, <1>3, <2>1, <2>2, RejudgedTracked, st \in Seq(Elements), PredictorInv(w.pr, w.host.size),
            sent \in Nat, late \in Nat, late <= sent
  <2>4. Trails(v.pr, u.pr, n, st) /\ Sound(u.pr, u.host, S, st) /\ u.pr.epoch = v.pr.epoch
    BY <1>0, <1>1, <1>3, <2>3, TrailsOn
  <2>5. Abreast(u, S, st, n, Later(h, n))
    BY ONLY <1>0, <1>3, <2>4, FrameSettles, st \in Seq(Elements), Echoed(S, st), Abreast(v, S, st, done, h),
            n \in done .. Len(st)
  <2>. QED
    BY <1>3, <2>4, <2>5
<1>. QED
  BY <1>1, <1>2, <1>3

\* Or only the frames acknowledged.
LEMMA AcksTracked ==
    ASSUME NEW st \in Seq(Elements), NEW S, NEW v, ScreenOK(v.host), PredictorInv(v.pr, v.host.size),
           NEW done, NEW h, Abreast(v, S, st, done, h), Covers(st, done, v.pr.late),
           NEW sent \in Nat, NEW late \in Nat, late <= sent, Covers(st, done, late), NEW repaired, NEW age,
           NEW u, Hears(v, u, sent, late, repaired, age)
    PROVE  /\ Abreast(u, S, st, done, h)
           /\ Traced(v.pr, h, S, st) => Traced(u.pr, h, S, st)
<1>1. u.host = v.host /\ u.pr = Rejudged(v, sent, late, repaired, age)
  BY DEF Hears
<1>2. done \in 0 .. Len(st) /\ Sound(v.pr, v.host, S, st)
  BY DEF Abreast
<1>3. v.host = S[done] \/ NotYet(v.pr, done, st)
  BY DEF Abreast
<1>4. Covers(st, done, Larger(v.pr.late, late))
  BY DEF Larger
<1>5. LET q == Rejudged(v, sent, late, repaired, age)
      IN  /\ PredictorInv(q, v.host.size) /\ Trails(v.pr, q, done, st) /\ Sound(q, v.host, S, st)
          /\ q.epoch = v.pr.epoch
  BY ONLY <1>2, <1>3, <1>4, RejudgedTracked, st \in Seq(Elements), ScreenOK(v.host),
          PredictorInv(v.pr, v.host.size), sent \in Nat, late \in Nat, late <= sent
<1>6. Awaits(v.pr)
  BY AwaitsOK
<1>7. Trails(v.pr, u.pr, done, st) /\ Sound(u.pr, u.host, S, st)
  BY <1>1, <1>5
<1>. QED
  BY ONLY <1>1, <1>6, <1>7, KeptTracked, st \in Seq(Elements), Abreast(v, S, st, done, h)

\* Idle it stays, whatever comes.
LEMMA StaysIdle ==
    ASSUME NEW v, ScreenOK(v.host), PredictorInv(v.pr, v.host.size), Idle(v.pr),
           NEW frame, ScreenOK(frame), NEW repaired, NEW age,
           NEW w, w = v \/ Paints(v, w, frame, repaired, age), PredictorInv(w.pr, w.host.size),
           NEW sent \in Nat, NEW late \in Nat, late <= sent
    PROVE  Idle(w.pr) /\ Idle(Rejudged(w, sent, late, repaired, age))
<1>1. Idle(w.pr) /\ ScreenOK(w.host)
  <2>1. Idle(Framed(v, frame, repaired, age))
    BY FramedIdle
  <2>. QED
    BY <2>1 DEF Paints
<1>. QED
  BY <1>1, RejudgedIdle

-----------------------------------------------------------------------------
(***************************************************************************)
(* The loop, where nothing went astray.                                    *)
(***************************************************************************)

\* What the loop's invariant says of its parts.
LEMMA MainParts ==
    ASSUME MainInv
    PROVE  /\ SessionShape /\ PipeInv(d) /\ ScreenOK(d.host) /\ PredictorInv(d.pr, d.host.size)
           /\ stream \in Seq(Elements) /\ Len(stream) \in Nat
           /\ remote.done \in 0 .. Len(stream) /\ remote.done \in Nat
           /\ remote.sent \in Nat /\ remote.echo \in Nat /\ remote.echo <= remote.sent
           /\ d.pr.late \in Nat /\ d.pr.sent \in Nat /\ d.pr.late <= d.pr.sent
           /\ scene.size \in Sizes /\ scene.sizes \subseteq Sizes /\ scene.prompts \in BOOLEAN
           /\ scene.over \in BOOLEAN
<1>1. SessionShape /\ PipeInv(d) /\ SessionInv
  BY DEF MainInv, InputInv, DisplayInv
<1>2. ScreenOK(d.host) /\ PredictorInv(d.pr, d.host.size)
  BY <1>1 DEF PipeInv, Sized
<1>3. d.pr.late \in Nat /\ d.pr.sent \in Nat /\ d.pr.late <= d.pr.sent
  BY <1>2 DEF PredictorInv, Guessing, Numbers
<1>4. /\ stream \in Seq(Elements) /\ Len(stream) \in Nat
      /\ remote.done \in 0 .. Len(stream) /\ remote.done \in Nat
      /\ remote.sent \in Nat /\ remote.echo \in Nat /\ remote.echo <= remote.sent
  BY <1>1, SessionNumbers DEF SessionInv
<1>5. scene.size \in Sizes /\ scene.sizes \subseteq Sizes
  BY <1>1, SceneShape
<1>6. scene.prompts \in BOOLEAN /\ scene.over \in BOOLEAN
  BY <1>1, ScenesAssumption DEF SessionShape
<1>. QED
  BY <1>1, <1>2, <1>3, <1>4, <1>5, <1>6

\* At the start screen and application are empty.
LEMMA TrueInvInit == Init => TrueInv
<1>. SUFFICES ASSUME Init PROVE TrueInv
  OBVIOUS
<1>. DEFINE S == ScreensOf(stream)
            n == NewPipeline(scene.size, scene.pref, scene.over)
            q == NewPredictor(scene.pref, scene.over)
            pr == SetWatermarks(n.pr, 1, 0)
            empty == EmptyScreen(scene.size)
            overlay == scene.pref \in {"always", "experimental"}
            no == FALSE
<1>1. MainInv
  BY MainInvInit
<1>2. d = [n EXCEPT !.pr = pr] /\ stream = << >> /\ remote.done = 0
  BY DEF Init
<1>3. n = [host |-> empty, shown |-> NotShown, pr |-> q, overlay |-> overlay, notice |-> NoNotice,
           updated |-> no]
  BY DEF NewPipeline
<1>4. Idle(q) /\ q.over = scene.over
  <2>1. q.cells = << >> /\ q.cursors = << >> /\ q.over = scene.over /\ q.active = FALSE
    BY DEF NewPredictor
  <2>. QED
    BY <2>1 DEF Idle
<1>5. PredictorInv(q, scene.size)
  BY <1>1, MainParts, NewPredictorInv, ScenesAssumption DEF SessionShape
<1>. HIDE DEF n, q, empty, overlay, no
<1>6. PipeFields(n) /\ n.host = empty /\ n.pr = q
  BY <1>3, PipeOf
<1>7. SameButFrames(q, pr)
  <2>. DEFINE one == 1
              none == 0
  <2>1. one \in Nat /\ none \in Nat /\ none <= one
    OBVIOUS
  <2>. HIDE DEF one, none
  <2>2. SameButFrames(q, SetWatermarks(q, one, none))
    BY <1>5, <2>1, SetWatermarksOK
  <2>. QED
    BY <1>6, <2>2 DEF one, none
<1>. HIDE DEF pr
<1>8. d.host = empty /\ d.pr = pr
  BY <1>2, <1>6, WithPr
<1>9. Idle(d.pr) /\ d.pr.over = scene.over
  BY <1>4, <1>7, <1>8 DEF Idle, SameButFrames
<1>10. Len(stream) = 0 /\ stream \in Seq(Elements) /\ S[0] = AppOf(stream, 0).scr
  BY <1>1, <1>2, MainParts DEF ScreensOf
<1>11. AppOf(stream, 0).scr = empty
  <2>1. AppOf(stream, 0) = Start(scene.size)
    BY <1>10, AppOfNothing
  <2>2. Start(scene.size).scr = EmptyScreen(scene.size)
    BY DEF Start
  <2>. QED
    BY <2>1, <2>2 DEF empty
<1>12. d.host = S[0] /\ d.host.gen = 0
  BY <1>8, <1>10, <1>11 DEF EmptyScreen, empty
<1>. HIDE DEF S
<1>13. Known(d, S, stream, remote.done)
  BY <1>2, <1>9, <1>10, <1>12 DEF Known, Covers
<1>14. Abreast(d, S, stream, remote.done, 0)
  BY <1>2, <1>9, <1>10, <1>12, IdleSound DEF Abreast, Rests
<1>15. Traced(d.pr, 0, S, stream)
  BY <1>10 DEF Traced
<1>16. Guessed(d, S, stream, remote.done, phase = "running")
  BY <1>10, <1>14, <1>15 DEF Guessed
<1>. QED
  BY <1>9, <1>13, <1>16 DEF TrueInv, S

\* The same guesses, shown otherwise.
LEMMA SameGuessed ==
    ASSUME NEW v, NEW u, NEW S, NEW st, NEW done,
           u.host = v.host, SameGuesses(v.pr, u.pr), u.pr.active => v.pr.active
    PROVE  /\ Known(v, S, st, done) => Known(u, S, st, done)
           /\ \A live \in BOOLEAN : Guessed(v, S, st, done, live) => Guessed(u, S, st, done, live)
<1>1. Idle(v.pr) => Idle(u.pr)
  BY DEF Idle, SameGuesses
<1>2. \A h : Sound(v.pr, v.host, S, st) => Sound(u.pr, u.host, S, st)
  BY DEF Sound, SameGuesses
<1>3. \A h : Traced(v.pr, h, S, st) => Traced(u.pr, h, S, st)
  BY DEF Traced, SameGuesses
<1>4. NotYet(v.pr, done, st) => NotYet(u.pr, done, st)
  BY DEF NotYet, SameGuesses
<1>5. \A h : Abreast(v, S, st, done, h) => Abreast(u, S, st, done, h)
  BY <1>1, <1>2, <1>4 DEF Abreast
<1>6. Known(v, S, st, done) => Known(u, S, st, done)
  BY <1>1 DEF Known, SameGuesses
<1>7. u.pr.pref = v.pr.pref /\ u.pr.wait = v.pr.wait
  BY DEF SameGuesses
<1>. QED
  BY <1>3, <1>5, <1>6, <1>7 DEF Guessed

\* AdaptDisplay and Tick.
LEMMA TrueInvShow ==
    ASSUME MainInv, MainInv', TrueInv, AdaptDisplay \/ Tick
    PROVE  TrueInv'
<1>1. UNCHANGED <<stream, remote, scene, astray, phase>> /\ PipeInv(d)
  BY MainParts DEF AdaptDisplay, Tick
<1>2. d'.host = d.host /\ SameGuesses(d.pr, d'.pr) /\ (d'.pr.active => d.pr.active)
  <2>1. CASE AdaptDisplay
    <3>1. PICK srtt \in scene.srtts : d' = FollowSrtt(d, srtt)
      BY <2>1 DEF AdaptDisplay
    <3>. QED
      BY <1>1, <3>1, FollowSrttOK
  <2>2. CASE Tick
    <3>1. PICK age \in scene.ages : d' = PipelineTick(d, age)
      BY <2>2 DEF Tick
    <3>. QED
      BY <1>1, <3>1, PipelineTickOK
  <2>. QED
    BY <2>1, <2>2
<1>3. ScreensOf(stream)' = ScreensOf(stream)
  <2>1. stream' \in Seq(Elements)
    BY <1>1, MainParts
  <2>2. ScreensOf(stream)' = ScreensOf(stream')
    BY <1>1, <2>1, ScreensStay
  <2>. QED
    BY <1>1, <2>2
<1>. DEFINE S == ScreensOf(stream)
            live == phase = "running"
<1>4. Known(d', S, stream, remote.done) /\ (Guessed(d, S, stream, remote.done, live) =>
                                            Guessed(d', S, stream, remote.done, live))
  <2>1. Known(d, S, stream, remote.done) /\ live \in BOOLEAN
    BY DEF TrueInv
  <2>. HIDE DEF S, live
  <2>. QED
    BY ONLY <1>2, <2>1, SameGuessed
<1>5. d'.pr.over = d.pr.over
  BY <1>2 DEF SameGuesses
<1>. HIDE DEF live
<1>6. (~astray /\ ~scene.prompts => Guessed(d', S, stream, remote.done, live)) /\ d'.pr.over = scene.over
  BY <1>4, <1>5 DEF TrueInv, live
<1>. QED
  BY <1>1, <1>3, <1>4, <1>6 DEF TrueInv, live

\* The application's screens.
LEMMA ScreenIs ==
    ASSUME MainInv, NEW n \in 0 .. Len(stream)
    PROVE  ScreensOf(stream)[n] = ScreenAfter(n) /\ ScreenOK(ScreensOf(stream)[n])
<1>1. ScreensOf(stream)[n] = ScreenAfter(n)
  BY DEF ScreensOf, AppOf, ScreenAfter, AppAfter
<1>2. SessionShape
  BY MainParts
<1>. QED
  BY <1>1, <1>2, ScreenAfterOK

\* They are those of an application that echoes, where it does not prompt.
LEMMA ScreensAreEchoes ==
    ASSUME MainInv, ~scene.prompts
    PROVE  Echoed(ScreensOf(stream), stream)
<1>1. stream \in Seq(Elements) /\ scene.size \in Sizes /\ scene.prompts = FALSE
  BY MainParts
<1>. QED
  BY ONLY <1>1, ScreensEcho

\* A turn of the loop that polls is such a step, for some results.
LEMMA PollSteps ==
    ASSUME MainInv, Poll
    PROVE  \E r \in PollResults, repaired \in BOOLEAN, age \in scene.ages :
              \E w, u : Polled(r, repaired, age, w, u)
<1>1. PICK r \in PollResults, repaired \in BOOLEAN, age \in scene.ages, late \in {FALSE, scene.quiet} :
        LET polled == FrameThenAcks(r, repaired, age)
        IN  /\ d' = SetNotification(polled, NoticeDue(late))
            /\ remote' = r
            /\ astray' = ((astray \/ LostTrack(d.pr, polled.pr, r)) /\ ~Recovered(polled.pr, r))
  BY DEF Poll
<1>. DEFINE S == ScreensOf(stream)
            frame == S[r.done]
            h == OnHostFrame(d, frame, repaired, age)
            w == IF News(r) THEN h ELSE d
            u == SetFrames(w, r.sent, r.echo, repaired, age)
            notice == NoticeDue(late)
<1>2. PipeInv(d) /\ SessionShape /\ Len(stream) \in Nat
  BY MainParts
<1>3. /\ r.sent \in Nat /\ r.echo \in Nat /\ r.done \in 0 .. Len(stream) /\ r.echo <= r.sent
  <2>1. r.sent \in Nat /\ r.echo \in Nat /\ r.done \in Nat /\ r.done <= Len(stream) /\ remote.sent <= r.sent
    BY <1>2, PollNumbers
  <2>2. r.echo \in remote.echo .. remote.sent /\ remote.sent \in Nat /\ remote.echo \in Nat
    BY MainParts DEF PollResults
  <2>. QED
    BY <1>2, <2>1, <2>2
<1>4. frame = ScreenAfter(r.done) /\ ScreenOK(frame)
  BY <1>3, ScreenIs
<1>5. FrameThenAcks(r, repaired, age) = u
  BY <1>4 DEF FrameThenAcks
<1>. HIDE DEF frame
<1>6. /\ PipeInv(h) /\ h.pr.late = d.pr.late /\ h.pr.over = d.pr.over /\ h.pr.pref = d.pr.pref
      /\ h.pr.wait = d.pr.wait
      /\ h.host = frame /\ h.pr = Framed(d, frame, repaired, age)
  BY <1>2, <1>4, OnHostFrameOK
<1>. HIDE DEF h
<1>7. /\ PipeInv(w) /\ w.pr.late = d.pr.late /\ w.pr.over = d.pr.over /\ w.pr.pref = d.pr.pref
      /\ w.pr.wait = d.pr.wait
      /\ IF News(r) THEN Paints(d, w, frame, repaired, age) ELSE w = d
  BY <1>2, <1>6 DEF Paints
<1>. HIDE DEF w
<1>8. /\ PipeInv(u) /\ u.host = w.host /\ FramesSeen(w.pr, u.pr, r.sent, r.echo)
      /\ u.pr = Rejudged(w, r.sent, r.echo, repaired, age)
  BY <1>3, <1>7, SetFramesOK
<1>. HIDE DEF u, notice
<1>9. d' = SetNotification(u, notice) /\ remote' = r
      /\ astray' = ((astray \/ LostTrack(d.pr, u.pr, r)) /\ ~Recovered(u.pr, r))
  BY <1>1, <1>5 DEF notice
<1>10. d'.host = u.host /\ d'.pr = u.pr
  BY <1>8, <1>9, SetNotificationOK
<1>11. PredictorInv(w.pr, w.host.size) /\ Hears(w, u, r.sent, r.echo, repaired, age)
  BY <1>7, <1>8 DEF PipeInv, Sized, Hears
<1>12. u.pr.pref = d.pr.pref /\ u.pr.over = d.pr.over /\ (u.pr.wait = d.pr.wait \/ u.pr.wait = 0)
  BY <1>7, <1>8 DEF FramesSeen
<1>13. Polled(r, repaired, age, w, u)
  BY <1>7, <1>9, <1>10, <1>11, <1>12 DEF Polled, frame
<1>. QED
  BY <1>13

\* What a poll answers.
LEMMA PollCovers ==
    ASSUME MainInv, TrueInv, NEW r \in PollResults
    PROVE  /\ r.done \in remote.done .. Len(stream) /\ r.done \in 0 .. Len(stream) /\ r.done \in Nat
           /\ r.sent \in Nat /\ r.echo \in Nat /\ r.echo <= r.sent
           /\ Covers(stream, r.done, r.echo) /\ Covers(stream, r.done, d.pr.late)
<1>1. /\ SessionShape /\ Len(stream) \in Nat /\ remote.done \in Nat /\ d.pr.late \in Nat
      /\ remote.sent \in Nat /\ remote.echo \in Nat /\ stream \in Seq(Elements)
      /\ DOMAIN stream = 1 .. Len(stream) /\ \A i \in 1 .. Len(stream) : stream[i].frame \in Nat
  BY MainParts, SessionNumbers
<1>2. /\ r.sent \in Nat /\ r.echo \in Nat /\ r.done \in Nat /\ remote.sent <= r.sent
      /\ r.done <= Len(stream) /\ CarriedBy(r.echo) <= r.done
  BY <1>1, PollNumbers
<1>3. r.done \in remote.done .. Len(stream) /\ r.echo \in remote.echo .. remote.sent
  BY DEF PollResults
<1>4. Ordered(stream, remote.sent + 1)
  BY DEF MainInv, SessionInv
<1>5. Covers(stream, r.done, r.echo)
  <2>. SUFFICES ASSUME NEW i \in 1 .. Len(stream), ~(i <= r.done) PROVE ~(stream[i].frame <= r.echo)
    BY DEF Covers
  <2>1. i \in DOMAIN stream /\ i > r.done
    BY <1>1, <1>2
  <2>2. stream[i].frame > r.echo
    BY <1>1, <1>2, <1>4, <2>1, CarriedFirst
  <2>. QED
    BY <1>1, <1>2, <2>2
<1>6. Covers(stream, r.done, d.pr.late)
  <2>1. Covers(stream, remote.done, d.pr.late)
    BY DEF TrueInv, Known
  <2>2. remote.done <= r.done
    BY <1>1, <1>3
  <2>. QED
    BY <1>1, <1>2, <2>1, <2>2, CoversDown
<1>. QED
  BY <1>1, <1>2, <1>3, <1>5, <1>6

\* The last screen tells everything.
LEMMA TracedLast ==
    ASSUME NEW st \in Seq(Elements), NEW p, NEW S
    PROVE  Traced(p, Len(st), S, st)
<1>1. Len(st) \in Nat
  BY LenProperties
<1>2. \A n \in Len(st) .. Len(st) : n = Len(st)
  BY <1>1
<1>. QED
  BY <1>2 DEF Traced

\* What is known after a poll.
LEMMA PolledKnown ==
    ASSUME MainInv, MainInv', TrueInv, phase' = "running",
           NEW r \in PollResults, NEW repaired, NEW age, NEW w, NEW u, Polled(r, repaired, age, w, u)
    PROVE  Known(u, ScreensOf(stream), stream, r.done) /\ u.pr.over = scene.over
<1>. DEFINE S == ScreensOf(stream)
            frame == S[r.done]
            st == stream
<1>1. /\ Known(d, S, st, remote.done) /\ d.pr.over = scene.over
      /\ remote' = r /\ d'.pr = u.pr
      /\ IF News(r) THEN Paints(d, w, frame, repaired, age) ELSE w = d
      /\ Hears(w, u, r.sent, r.echo, repaired, age)
      /\ u.pr.pref = d.pr.pref /\ u.pr.over = d.pr.over
      /\ u.pr.wait = d.pr.wait \/ u.pr.wait = 0
      /\ PredictorInv(w.pr, w.host.size)
  BY DEF TrueInv, Polled
<1>2. /\ r.done \in 0 .. Len(st) /\ r.sent \in Nat /\ r.echo \in Nat /\ r.echo <= r.sent
      /\ Covers(st, r.done, r.echo)
  BY PollCovers
<1>3. ScreenOK(frame)
  BY <1>2, ScreenIs
<1>4. ScreenOK(d.host) /\ PredictorInv(d.pr, d.host.size)
  BY MainParts
<1>. HIDE DEF S, st
<1>5. u.host = S[r.done] \/ ~Rests(st, r.done)
  <2>1. CASE News(r)
    BY <1>1, <2>1 DEF Hears, Paints
  <2>2. CASE ~News(r)
    BY <1>1, <2>2 DEF Hears, News, Known
  <2>. QED
    BY <2>1, <2>2
<1>6. Covers(st, r.done, u.pr.late)
  <2>1. PauseInv'
    BY DEF MainInv
  <2>2. u.pr.late = r.echo
    BY <1>1, <2>1 DEF PauseInv
  <2>. QED
    BY <1>2, <2>2
<1>7. u.pr.pref = "never" \/ u.pr.wait # 0 => Idle(u.pr)
  <2>. SUFFICES ASSUME u.pr.pref = "never" \/ u.pr.wait # 0 PROVE Idle(u.pr)
    OBVIOUS
  <2>1. Idle(d.pr)
    BY <1>1 DEF Known
  <2>2. w = d \/ Paints(d, w, frame, repaired, age)
    BY <1>1
  <2>. HIDE DEF frame
  <2>3. Idle(Rejudged(w, r.sent, r.echo, repaired, age))
    BY ONLY <1>1, <1>2, <1>3, <1>4, <2>1, <2>2, StaysIdle
  <2>. QED
    BY <1>1, <2>3 DEF Hears
<1>8. u.pr.over = scene.over
  BY <1>1
<1>. QED
  BY <1>5, <1>6, <1>7, <1>8 DEF Known, S, st

\* What is guessed after one.
LEMMA PolledGuessed ==
    ASSUME MainInv, TrueInv, ~scene.prompts,
           NEW h, Abreast(d, ScreensOf(stream), stream, remote.done, h),
           NEW r \in PollResults, NEW repaired, NEW age, NEW w, NEW u, Polled(r, repaired, age, w, u)
    PROVE  LET S == ScreensOf(stream)
           IN  /\ Abreast(u, S, stream, r.done, Later(h, r.done))
               /\ News(r) /\ d.pr.active /\ ~Moved(d, u.host) => u.pr.epoch = d.pr.epoch
               /\ Traced(d.pr, h, S, stream) /\ ~LostTrack(d.pr, u.pr, r) =>
                     Traced(u.pr, Later(h, r.done), S, stream)
<1>. DEFINE S == ScreensOf(stream)
            st == stream
            n == r.done
            done == remote.done
<1>1. /\ IF News(r) THEN Paints(d, w, S[n], repaired, age) ELSE w = d
      /\ Hears(w, u, r.sent, r.echo, repaired, age)
      /\ PredictorInv(w.pr, w.host.size) /\ w.pr.late = d.pr.late
  BY DEF Polled
<1>2. /\ n \in 0 .. Len(st) /\ n \in done .. Len(st) /\ n \in Nat
      /\ r.sent \in Nat /\ r.echo \in Nat /\ r.echo <= r.sent
      /\ Covers(st, n, r.echo) /\ Covers(st, n, d.pr.late)
  BY PollCovers
<1>3. ScreenOK(S[n])
  BY <1>2, ScreenIs
<1>4. ScreenOK(d.host) /\ PredictorInv(d.pr, d.host.size) /\ st \in Seq(Elements) /\ done \in Nat
  BY MainParts
<1>5. Awaits(d.pr)
  BY <1>4, AwaitsOK
<1>6. Echoed(S, st)
  BY ScreensAreEchoes
<1>7. Abreast(d, S, st, done, h)
  OBVIOUS
<1>. HIDE DEF S
<1>8. CASE News(r)
  <2>1. Paints(d, w, S[n], repaired, age)
    BY <1>1, <1>8
  <2>. DEFINE sent == r.sent
              late == r.echo
  <2>2. sent \in Nat /\ late \in Nat /\ late <= sent /\ Covers(st, n, late) /\ Hears(w, u, sent, late, repaired, age)
    BY <1>1, <1>2
  <2>. HIDE DEF st, n, done, sent, late
  <2>3. /\ Abreast(u, S, st, n, Later(h, n))
        /\ d.pr.active /\ ~Moved(d, u.host) => u.pr.epoch = d.pr.epoch
        /\ \/ Idle(u.pr)
           \/ h <= n /\ Trails(d.pr, u.pr, n, st)
    BY ONLY <1>1, <1>2, <1>3, <1>4, <1>6, <1>7, <2>1, <2>2, NewsTracked
  <2>4. ASSUME Traced(d.pr, h, S, st), ~LostTrack(d.pr, u.pr, r)
        PROVE  Traced(u.pr, Later(h, n), S, st)
    <3>1. Idle(u.pr) => (d.pr.cursors # << >> => Covers(st, n, Last(d.pr.cursors).exp))
      <4>. SUFFICES ASSUME Idle(u.pr), d.pr.cursors # << >>
                    PROVE  Covers(st, n, Last(d.pr.cursors).exp)
        OBVIOUS
      <4>1. ~(Last(d.pr.cursors).exp > r.echo)
        BY <2>4 DEF LostTrack, Idle
      <4>2. Last(d.pr.cursors).exp \in Nat
        BY <1>5 DEF Awaits
      <4>3. Last(d.pr.cursors).exp <= late
        BY <2>2, <4>1, <4>2 DEF late
      <4>. QED
        BY <1>2, <1>4, <2>2, <4>2, <4>3, CoversDown
    <3>2. \/ h <= n /\ Trails(d.pr, u.pr, n, st)
          \/ Idle(u.pr) /\ (d.pr.cursors # << >> => Covers(st, n, Last(d.pr.cursors).exp))
      BY <2>3, <3>1
    <3>. QED
      BY ONLY <1>2, <1>4, <1>5, <1>7, <2>4, <3>2, FrameTraces
  <2>. QED
    BY <2>3, <2>4 DEF S, st, n
<1>9. CASE ~News(r)
  <2>1. w = d /\ n = done
    BY <1>1, <1>9 DEF News
  <2>. DEFINE sent == r.sent
              late == r.echo
  <2>2. sent \in Nat /\ late \in Nat /\ late <= sent /\ Covers(st, done, late) /\ Covers(st, done, d.pr.late)
        /\ Hears(d, u, sent, late, repaired, age)
    BY <1>1, <1>2, <2>1
  <2>3. Later(h, n) = h
    <3>1. h = done \/ h = done + 1
      BY <1>7 DEF Abreast
    <3>. QED
      BY <1>4, <2>1, <3>1 DEF Later
  <2>. HIDE DEF st, n, done, sent, late
  <2>4. /\ Abreast(u, S, st, done, h)
        /\ Traced(d.pr, h, S, st) => Traced(u.pr, h, S, st)
    BY ONLY <1>4, <1>7, <2>2, AcksTracked
  <2>. QED
    BY <1>9, <2>1, <2>3, <2>4 DEF S, st, n, done
<1>. QED
  BY <1>8, <1>9

\* A predictor that found its way back.
LEMMA PolledRecovered ==
    ASSUME MainInv, ~scene.prompts, NEW r, NEW u, NEW size, PredictorInv(u.pr, size), Recovered(u.pr, r),
           Known(u, ScreensOf(stream), stream, r.done)
    PROVE  Abreast(u, ScreensOf(stream), stream, r.done, r.done)
           /\ Traced(u.pr, r.done, ScreensOf(stream), stream)
<1>. DEFINE S == ScreensOf(stream)
<1>1. stream \in Seq(Elements) /\ Len(stream) \in Nat /\ Echoed(S, stream)
  BY MainParts, ScreensAreEchoes
<1>2. r.done = Len(stream) /\ Idle(u.pr)
  BY InactiveIdle DEF Recovered
<1>. HIDE DEF S
<1>3. Rests(stream, r.done)
  BY <1>1, <1>2 DEF Rests
<1>4. u.host = S[r.done]
  BY <1>3 DEF Known, S
<1>5. u.host.gen \in 0 .. r.done /\ r.done \in 0 .. Len(stream)
  BY <1>1, <1>2, <1>4 DEF Echoed
<1>6. Abreast(u, S, stream, r.done, r.done)
  BY <1>2, <1>3, <1>4, <1>5, IdleSound DEF Abreast
<1>7. Traced(u.pr, r.done, S, stream)
  BY <1>1, <1>2, TracedLast
<1>. QED
  BY <1>6, <1>7 DEF S

\* Where only sizes are left, and no size is, nothing is.
LEMMA NothingAfter ==
    ASSUME NEW st \in Seq(Elements), NEW n \in Nat, NEW l \in 0 .. Len(st), l >= n, Rests(st, l),
           \A i \in 1 .. Len(st) : i > n => st[i].byte = "resize"
    PROVE  l = Len(st)
<1>. SUFFICES ASSUME l # Len(st) PROVE FALSE
  OBVIOUS
<1>1. Len(st) \in Nat
  BY LenProperties
<1>2. l + 1 \in 1 .. Len(st) /\ l + 1 > n /\ l + 1 \in l + 1 .. Len(st)
  BY <1>1
<1>. QED
  BY <1>2 DEF Rests

\* A poll: the screen first, then the frames acknowledged.
LEMMA TrueInvPoll ==
    ASSUME MainInv, MainInv', [Next]_vars, TrueInv, Poll
    PROVE  TrueInv'
<1>1. PICK r \in PollResults, repaired \in BOOLEAN, age \in scene.ages :
        \E w, u : Polled(r, repaired, age, w, u)
  BY PollSteps
<1>2. PICK w, u : Polled(r, repaired, age, w, u)
  BY <1>1
<1>3. /\ UNCHANGED <<stream, scene, phase>> /\ phase = "running"
      /\ remote' = r /\ d'.host = u.host /\ d'.pr = u.pr
      /\ astray' = ((astray \/ LostTrack(d.pr, u.pr, r)) /\ ~Recovered(u.pr, r))
      /\ u.pr.pref = d.pr.pref
      /\ u.pr.wait = d.pr.wait \/ u.pr.wait = 0
  BY <1>2 DEF Poll, Running, Polled
<1>4. stream \in Seq(Elements) /\ Len(stream) \in Nat /\ DOMAIN stream = 1 .. Len(stream)
  BY MainParts, SessionNumbers
<1>5. ScreensOf(stream)' = ScreensOf(stream)
  <2>1. ScreensOf(stream)' = ScreensOf(stream')
    BY <1>3, <1>4, ScreensStay
  <2>. QED
    BY <1>3, <2>1
<1>6. Known(u, ScreensOf(stream), stream, r.done) /\ u.pr.over = scene.over
  BY <1>2, <1>3, PolledKnown
<1>. DEFINE S == ScreensOf(stream)
            st == stream
            n == r.done
<1>7. ASSUME ~astray', ~scene.prompts
      PROVE  \E h \in 0 .. Len(st) :
                /\ Abreast(u, S, st, n, h)
                /\ u.pr.pref # "never" /\ u.pr.wait = 0 => Traced(u.pr, h, S, st)
  <2>1. CASE Recovered(u.pr, r)
    <3>1. PredictorInv(u.pr, u.host.size)
      <4>1. PredictorInv(d'.pr, d'.host.size)
        BY DEF MainInv, DisplayInv, PipeInv, Sized
      <4>. QED
        BY <1>3, <4>1
    <3>2. Abreast(u, S, st, n, n) /\ Traced(u.pr, n, S, st)
      BY <1>6, <1>7, <2>1, <3>1, PolledRecovered
    <3>3. n \in 0 .. Len(st)
      BY <3>2 DEF Abreast
    <3>. QED
      BY <3>2, <3>3
  <2>2. CASE ~Recovered(u.pr, r)
    <3>1. ~astray /\ ~LostTrack(d.pr, u.pr, r)
      BY <1>3, <1>7, <2>2
    <3>2. Guessed(d, S, st, remote.done, TRUE)
      BY <1>3, <1>7, <3>1 DEF TrueInv
    <3>3. PICK h \in 0 .. Len(st) :
            /\ Abreast(d, S, st, remote.done, h)
            /\ d.pr.pref # "never" /\ d.pr.wait = 0 => Traced(d.pr, h, S, st)
      BY <3>2 DEF Guessed
    <3>. DEFINE l == Later(h, n)
    <3>4. /\ Abreast(u, S, st, n, l)
          /\ Traced(d.pr, h, S, st) => Traced(u.pr, l, S, st)
      BY <1>2, <1>7, <3>1, <3>3, PolledGuessed
    <3>5. l \in 0 .. Len(st) /\ Rests(st, l)
      BY <3>4 DEF Abreast
    <3>6. ASSUME u.pr.pref # "never", u.pr.wait = 0
          PROVE  Traced(u.pr, l, S, st)
      <4>1. CASE d.pr.wait = 0
        BY <1>3, <3>3, <3>4, <3>6, <4>1
      <4>2. CASE d.pr.wait # 0
        <5>1. \A i \in DOMAIN st : i > n => st[i].byte = "resize"
          BY <1>3, <3>6, <4>2, PauseEnds
        <5>2. l >= n
          <6>1. n \in Nat /\ h \in Nat
            BY <1>4, PollCovers
          <6>. QED
            BY <6>1 DEF Later
        <5>3. l = Len(st)
          <6>1. n \in Nat /\ \A i \in 1 .. Len(st) : i > n => st[i].byte = "resize"
            BY <1>4, <5>1, PollCovers
          <6>. HIDE DEF l, n, st
          <6>. QED
            BY ONLY <1>4, <3>5, <5>2, <6>1, NothingAfter, st = stream DEF st
        <5>. QED
          BY <1>4, <5>3, TracedLast
      <4>. QED
        BY <4>1, <4>2
    <3>. QED
      BY <3>4, <3>5, <3>6
  <2>. QED
    BY <2>1, <2>2
<1>. HIDE DEF S, st, n
<1>8. ASSUME ~astray', ~scene.prompts
      PROVE  Guessed(d', S, st, n, TRUE)
  <2>1. PICK h \in 0 .. Len(st) :
          /\ Abreast(u, S, st, n, h)
          /\ u.pr.pref # "never" /\ u.pr.wait = 0 => Traced(u.pr, h, S, st)
    BY <1>7, <1>8
  <2>2. Abreast(d', S, st, n, h)
    BY <1>3, <2>1 DEF Abreast
  <2>. QED
    BY <1>3, <2>1, <2>2 DEF Guessed
<1>9. Known(d', S, st, n) /\ d'.pr.over = scene.over
  BY <1>3, <1>6 DEF Known, S, st, n
<1>10. S = ScreensOf(stream)' /\ st = stream' /\ n = remote'.done /\ scene' = scene /\ phase' = "running"
  BY <1>3, <1>5 DEF S, st, n
<1>. QED
  BY <1>8, <1>9, <1>10 DEF TrueInv

\* While it drains, screens come without acknowledgements.
LEMMA TrueInvDrain ==
    ASSUME MainInv, MainInv', TrueInv, Drain
    PROVE  /\ TrueInv'
           /\ ~astray /\ ~scene.prompts /\ d.pr.active /\ ~Moved(d, d'.host) /\ d'.host # d.host =>
                 d'.pr.epoch = d.pr.epoch
<1>1. PICK r \in PollResults, repaired \in BOOLEAN, age \in scene.ages :
        /\ d' = IF News(r) THEN OnHostFrame(d, ScreenAfter(r.done), repaired, age) ELSE d
        /\ remote' = r
  BY DEF Drain
<1>. DEFINE S == ScreensOf(stream)
            st == stream
            n == r.done
            done == remote.done
            frame == S[n]
<1>2. /\ UNCHANGED <<stream, scene, astray, phase>> /\ phase = "draining"
  BY DEF Drain
<1>3. /\ PipeInv(d) /\ st \in Seq(Elements) /\ Len(st) \in Nat /\ done \in Nat
      /\ ScreenOK(d.host) /\ PredictorInv(d.pr, d.host.size)
  BY MainParts
<1>4. /\ n \in 0 .. Len(st) /\ n \in done .. Len(st) /\ n \in Nat /\ Covers(st, n, d.pr.late)
  BY PollCovers
<1>5. frame = ScreenAfter(n) /\ ScreenOK(frame)
  BY <1>4, ScreenIs
<1>6. ScreensOf(stream)' = S
  <2>1. ScreensOf(stream)' = ScreensOf(stream')
    BY <1>2, <1>3, ScreensStay
  <2>. QED
    BY <1>2, <2>1
<1>. HIDE DEF S
<1>7. CASE News(r)
  <2>1. d' = OnHostFrame(d, frame, repaired, age)
    BY <1>1, <1>5, <1>7
  <2>. HIDE DEF frame
  <2>2. /\ d'.pr.pref = d.pr.pref /\ d'.pr.late = d.pr.late /\ d'.pr.wait = d.pr.wait
        /\ d'.pr.over = d.pr.over
        /\ d'.host = frame /\ d'.pr = Framed(d, frame, repaired, age)
    BY <1>3, <1>5, <2>1, OnHostFrameOK
  <2>3. Paints(d, d', S[n], repaired, age)
    BY <2>2 DEF Paints, frame
  <2>4. Known(d', S, st, n)
    <3>1. Known(d, S, st, done)
      BY DEF TrueInv, S
    <3>2. Idle(d.pr) => Idle(d'.pr)
      BY <1>3, <1>5, <2>2, FramedIdle
    <3>. QED
      BY <1>4, <2>2, <3>1, <3>2 DEF Known, frame
  <2>5. ASSUME ~astray, ~scene.prompts
        PROVE  /\ Guessed(d', S, st, n, FALSE)
               /\ d.pr.active /\ ~Moved(d, d'.host) => d'.pr.epoch = d.pr.epoch
    <3>0. Guessed(d, S, st, done, FALSE)
      <4>1. phase # "running"
        BY <1>2
      <4>. QED
        BY <2>5, <4>1 DEF TrueInv, S, Guessed
    <3>1. PICK h \in 0 .. Len(st) : Abreast(d, S, st, done, h)
      BY <3>0 DEF Guessed
    <3>2. Echoed(S, st) /\ ScreenOK(S[n])
      BY <1>5, <2>5, ScreensAreEchoes DEF S, frame
    <3>. DEFINE w == d'
    <3>3. w.host = S[n] /\ Paints(d, w, S[n], repaired, age)
      BY <2>2, <2>3 DEF frame
    <3>. HIDE DEF w, st, n, done
    <3>4. /\ d.pr.active /\ ~Moved(d, w.host) => w.pr.epoch = d.pr.epoch
          /\ \/ Idle(w.pr) /\ (Idle(d.pr) \/ Moved(d, w.host))
             \/ /\ d.pr.active /\ ~Moved(d, w.host)
                /\ h <= n /\ Trails(d.pr, w.pr, n, st) /\ Sound(w.pr, w.host, S, st)
      BY ONLY <1>3, <1>4, <3>1, <3>2, <3>3, ShownTracked
    <3>5. Abreast(w, S, st, n, Later(h, n))
      BY ONLY <1>3, <1>4, <3>1, <3>2, <3>3, <3>4, FrameSettles
    <3>6. Later(h, n) \in 0 .. Len(st)
      BY <3>5 DEF Abreast
    <3>. QED
      BY <3>4, <3>5, <3>6 DEF Guessed, w
  <2>. HIDE DEF st, n
  <2>6. S = ScreensOf(stream)' /\ st = stream' /\ n = remote'.done /\ scene' = scene /\ astray' = astray
        /\ phase' # "running"
    BY <1>1, <1>2, <1>6 DEF st, n
  <2>7. d'.pr.over = scene.over
    BY <2>2 DEF TrueInv
  <2>8. Guessed(d', S, st, n, FALSE) => Guessed(d', S, st, n, phase' = "running")
    BY <2>6
  <2>. QED
    BY <2>4, <2>5, <2>6, <2>7, <2>8 DEF TrueInv
<1>8. CASE ~News(r)
  <2>1. d' = d /\ n = done /\ phase' = phase
    BY <1>1, <1>2, <1>8 DEF News
  <2>2. TrueInv'
    BY <1>1, <1>2, <1>6, <2>1 DEF TrueInv, S
  <2>. QED
    BY <2>1, <2>2
<1>. QED
  BY <1>7, <1>8

\* Nothing comes true or false at the end of the input.
LEMMA TrueInvEnd ==
    ASSUME MainInv, TrueInv, EndOfInput \/ UNCHANGED vars
    PROVE  TrueInv'
<1>1. UNCHANGED <<d, stream, remote, scene, astray>> /\ (phase' = phase \/ phase' = "draining")
  BY DEF EndOfInput, vars
<1>2. ScreensOf(stream)' = ScreensOf(stream)
  <2>1. stream' \in Seq(Elements)
    BY <1>1, MainParts
  <2>2. ScreensOf(stream)' = ScreensOf(stream')
    BY <1>1, <2>1, ScreensStay
  <2>. QED
    BY <1>1, <2>2
<1>3. \A S, live : Guessed(d, S, stream, remote.done, live) =>
        Guessed(d, S, stream, remote.done, FALSE)
  BY DEF Guessed
<1>4. phase' = phase \/ (phase' = "running") = FALSE
  BY <1>1
<1>. QED
  BY <1>1, <1>2, <1>3, <1>4 DEF TrueInv

\* One element more that waits for a later frame.
LEMMA CoversMore ==
    ASSUME NEW st \in Seq(Elements), NEW more \in Seq(Elements), NEW k \in Nat, NEW f \in Nat,
           Covers(st, k, f), \A i \in 1 .. Len(more) : more[i].frame > f
    PROVE  Covers(st \o more, k, f)
<1>. DEFINE y == st \o more
<1>1. /\ Len(st) \in Nat /\ Len(more) \in Nat /\ Len(y) = Len(st) + Len(more)
      /\ \A i \in 1 .. Len(y) : y[i] = IF i <= Len(st) THEN st[i] ELSE more[i - Len(st)]
  BY ConcatProperties, LenProperties
<1>2. \A i \in 1 .. Len(more) : more[i].frame \in Nat
  <2>1. \A i \in 1 .. Len(more) : more[i] \in Elements
    BY LenProperties
  <2>. QED
    BY <2>1 DEF Elements
<1>. HIDE DEF y
<1>3. ASSUME NEW i \in 1 .. Len(y), y[i].frame <= f
      PROVE  i <= k
  <2>1. CASE i <= Len(st)
    <3>1. i \in 1 .. Len(st) /\ y[i] = st[i]
      BY <1>1, <2>1
    <3>. QED
      BY <1>3, <3>1 DEF Covers
  <2>2. CASE ~(i <= Len(st))
    <3>1. i - Len(st) \in 1 .. Len(more) /\ y[i] = more[i - Len(st)]
      BY <1>1, <2>2
    <3>2. more[i - Len(st)].frame > f /\ more[i - Len(st)].frame \in Nat
      BY <1>2, <3>1
    <3>. QED
      BY <1>3, <3>1, <3>2
  <2>. QED
    BY <2>1, <2>2
<1>. QED
  BY <1>3 DEF Covers, y

\* An element more in the stream makes one screen more, and changes none.
LEMMA OneScreenMore ==
    ASSUME NEW st \in Seq(Elements), NEW item \in Elements
    PROVE  OneLonger(st, Append(st, item), item)
<1>1. ASSUME NEW st2, st2 = Append(st, item)
      PROVE  OneLonger(st, st2, item)
  <2>1. /\ st2 \in Seq(Elements) /\ Len(st2) = Len(st) + 1
        /\ \A n \in 0 .. Len(st) : AppOf(st2, n) = AppOf(st, n)
        /\ \A n \in 0 .. Len(st) : ScreensOf(st2)[n] = ScreensOf(st)[n]
        /\ AppOf(st2, Len(st2)) = Absorb(AppOf(st, Len(st)), item)
        /\ ScreensOf(st2)[Len(st2)] = AppOf(st2, Len(st2)).scr
    BY ONLY ScreensGrow, st \in Seq(Elements), item \in Elements, <1>1
  <2>. QED
    BY <2>1 DEF OneLonger
<1>. QED
  BY <1>1

\* A size: the host's screen is in step at once, and nothing is predicted.
LEMMA TrueInvResize ==
    ASSUME MainInv, MainInv', TrueInv, Resize
    PROVE  TrueInv'
<1>1. PICK size \in scene.sizes \ {d.host.size} :
        /\ stream' = Append(stream, [byte |-> "resize", size |-> size, frame |-> remote.sent + 1])
        /\ d' = ResizePipeline(d, size)
  BY DEF Resize
<1>. DEFINE item == [byte |-> "resize", size |-> size, frame |-> remote.sent + 1]
            st == stream
            st2 == stream'
            m == Len(st)
            S == ScreensOf(st)
            S2 == ScreensOf(st2)
            done == remote.done
<1>2. /\ UNCHANGED <<remote, scene, phase>> /\ phase = "running"
      /\ ~astray' => ~astray /\ done = m
  BY DEF Resize, Running
<1>3. /\ PipeInv(d) /\ ScreenOK(d.host) /\ st \in Seq(Elements) /\ m \in Nat
      /\ done \in 0 .. m /\ done \in Nat /\ remote.sent \in Nat /\ remote.echo \in Nat
      /\ remote.echo <= remote.sent /\ d.pr.late \in Nat
      /\ scene.size \in Sizes /\ scene.sizes \subseteq Sizes /\ scene.prompts \in BOOLEAN
  BY MainParts
<1>4. size \in Sizes /\ size # d.host.size
  BY <1>3
<1>5. /\ Keeps(d.pr, d'.pr) /\ d'.host = ResizeScreen(d.host, size) /\ Idle(d'.pr)
  BY <1>1, <1>3, <1>4, ResizePipelineOK
<1>6. item \in Elements /\ item.byte = "resize" /\ item.size = size /\ item.frame = remote.sent + 1
  BY <1>3, <1>4 DEF Elements
<1>. HIDE DEF item
<1>7. /\ st2 = Append(st, item) /\ st2 = st \o <<item>>
      /\ st2 \in Seq(Elements) /\ Len(st2) = m + 1 /\ st2[m + 1] = item
  BY <1>1, <1>3, <1>6, AppendProperties, AppendIsConcat DEF item
<1>8. /\ \A n \in 0 .. m : S2[n] = S[n]
      /\ AppOf(st2, m + 1) = Absorb(AppOf(st, m), item)
      /\ S2[m + 1] = AppOf(st2, m + 1).scr
  <2>1. OneLonger(st, Append(st, item), item)
    BY ONLY <1>3, <1>6, OneScreenMore
  <2>. QED
    BY <1>7, <2>1 DEF OneLonger
<1>9. (ScreensOf(stream))' = S2
  BY <1>2, <1>7, ScreensStay
<1>10. d.pr.late = remote.echo /\ d'.pr.late = d.pr.late /\ d'.pr.over = d.pr.over
  <2>1. PauseInv
    BY DEF MainInv
  <2>. QED
    BY <1>2, <1>5, <2>1 DEF PauseInv, Keeps
<1>. HIDE DEF S, S2, st2
<1>11. Known(d', S2, st2, done)
  <2>1. ~Rests(st2, done)
    <3>1. m + 1 \in done + 1 .. Len(st2)
      BY <1>3, <1>7
    <3>. QED
      BY <1>6, <1>7, <3>1 DEF Rests
  <2>2. Covers(st, done, d'.pr.late)
    BY <1>10 DEF TrueInv, Known
  <2>3. <<item>> \in Seq(Elements) /\ Len(<<item>>) = 1 /\ <<item>>[1] = item
    BY <1>6
  <2>4. item.frame > d'.pr.late /\ d'.pr.late \in Nat
    BY <1>3, <1>6, <1>10
  <2>5. \A i \in 1 .. Len(<<item>>) : <<item>>[i].frame > d'.pr.late
    BY <2>3, <2>4
  <2>6. Covers(st2, done, d'.pr.late)
    BY ONLY <1>3, <1>7, <2>2, <2>3, <2>4, <2>5, CoversMore
  <2>. QED
    BY <1>5, <2>1, <2>6 DEF Known
<1>12. ASSUME ~astray', ~scene.prompts
       PROVE  Abreast(d', S2, st2, done, m + 1) /\ Traced(d'.pr, m + 1, S2, st2)
  <2>. DEFINE app == AppOf(st, m)
              next == AppOf(st2, m + 1)
              scr == ResizeScreen(app.scr, size)
  <2>1. Guessed(d, S, st, done, TRUE)
    BY <1>2, <1>12 DEF TrueInv, S
  <2>2. PICK h \in 0 .. m : Abreast(d, S, st, done, h)
    BY <2>1 DEF Guessed
  <2>3. done = m /\ h = done /\ d.host = S[m]
    <3>1. h = done \/ h = done + 1
      BY <2>2 DEF Abreast
    <3>2. done = m
      BY <1>2, <1>12
    <3>3. h = done
      BY <1>3, <3>1, <3>2
    <3>. QED
      BY <2>2, <3>2, <3>3 DEF Abreast
  <2>4. S[m] = app.scr
    BY <1>3 DEF ScreensOf, S
  <2>5. Echoing(app, m)
    <3>1. m \in 0 .. Len(st) /\ scene.prompts = FALSE
      BY <1>3, <1>12
    <3>. QED
      BY ONLY <1>3, <3>1, EchoesAll
  <2>6. next = Absorb(app, item) /\ S2[m + 1] = next.scr
    BY <1>8
  <2>7. scr = ResizeScreen(app.scr, item.size)
    BY <1>6
  <2>8. d'.host = scr
    BY <1>5, <2>3, <2>4
  <2>9. scr.size = size /\ scr.gen = app.scr.gen + 1
    BY DEF ResizeScreen
  <2>. HIDE DEF app, next, scr
  <2>10. /\ Echoing(next, m + 1) /\ next.scr.size = item.size /\ next.scr.cell = scr.cell
         /\ next.scr.cur = scr.cur
    BY ONLY <1>3, <1>4, <1>6, <2>5, <2>6, <2>7, EchoesSize
  <2>11. d'.host.gen \in 0 .. m + 1
    BY <1>3, <2>5, <2>8, <2>9 DEF Echoing
  <2>12. S2[m + 1].size # S2[done].size
    BY <1>3, <1>4, <1>6, <1>8, <2>3, <2>6, <2>10
  <2>13. NotYet(d'.pr, done, st2) /\ Sound(d'.pr, d'.host, S2, st2)
    BY <1>5, IdleNotYet, IdleSound
  <2>14. Rests(st2, m + 1)
    BY <1>3, <1>7 DEF Rests
  <2>15. /\ d'.host.size = S2[m + 1].size /\ d'.host.cell = S2[m + 1].cell
         /\ d'.host.cur = S2[m + 1].cur
    BY <1>6, <2>6, <2>8, <2>9, <2>10
  <2>16. m + 1 # done /\ m + 1 = done + 1 /\ m + 1 \in 0 .. Len(st2) /\ done \in 0 .. Len(st2)
    BY <1>3, <1>7, <2>3
  <2>17. Abreast(d', S2, st2, done, m + 1)
    BY <2>11, <2>12, <2>13, <2>14, <2>15, <2>16 DEF Abreast
  <2>. QED
    BY <1>7, <2>17, TracedLast
<1>13. ASSUME ~astray', ~scene.prompts
       PROVE  Guessed(d', S2, st2, done, TRUE)
  <2>1. m + 1 \in 0 .. Len(st2)
    BY <1>3, <1>7
  <2>. QED
    BY <1>12, <1>13, <2>1 DEF Guessed
<1>14. S2 = ScreensOf(stream)' /\ st2 = stream' /\ done = remote'.done /\ scene' = scene /\ phase' = "running"
  BY <1>2, <1>9 DEF st2
<1>15. d'.pr.over = scene.over
  BY <1>10 DEF TrueInv
<1>. QED
  BY <1>11, <1>13, <1>14, <1>15 DEF TrueInv

\* What is typed changes the size of no screen.
LEMMA ItemsRest ==
    ASSUME NEW bytes \in Seq(Bytes), NEW f \in Nat
    PROVE  LET more == ItemsAt(bytes, f)
           IN  /\ more \in Seq(Elements)
               /\ \A i \in 1 .. Len(more) : more[i].byte # "resize" /\ more[i].frame = f
<1>1. ItemsAt(bytes, f) \in Seq(Elements) /\ Len(ItemsAt(bytes, f)) = Len(bytes)
  BY ItemsAreElements
<1>2. DOMAIN bytes = 1 .. Len(bytes) /\ \A i \in 1 .. Len(bytes) : bytes[i] \in Bytes
  BY LenProperties
<1>3. \A b \in Bytes : b # "resize"
  BY DEF Bytes
<1>4. ASSUME NEW i \in 1 .. Len(bytes)
      PROVE  ItemsAt(bytes, f)[i].byte # "resize" /\ ItemsAt(bytes, f)[i].frame = f
  BY <1>2, <1>3 DEF ItemsAt
<1>. QED
  BY <1>1, <1>4

\* A longer stream, by its elements.
LEMMA Longer ==
    ASSUME NEW st \in Seq(Elements), NEW more \in Seq(Elements)
    PROVE  LET st2 == st \o more
           IN  /\ st2 \in Seq(Elements) /\ Len(st) \in Nat /\ Len(st2) \in Nat /\ Len(st) <= Len(st2)
               /\ \A i \in 1 .. Len(st) : i \in 1 .. Len(st2) /\ st2[i] = st[i]
               /\ \A i \in 1 .. Len(st2) :
                     i \notin 1 .. Len(st) => i - Len(st) \in 1 .. Len(more) /\ st2[i] = more[i - Len(st)]
               /\ \A n \in 0 .. Len(st) : n \in 0 .. Len(st2) /\ ScreensOf(st2)[n] = ScreensOf(st)[n]
<1>. DEFINE st2 == st \o more
<1>1. /\ Len(st) \in Nat /\ Len(more) \in Nat /\ Len(st2) = Len(st) + Len(more) /\ st2 \in Seq(Elements)
      /\ \A i \in 1 .. Len(st2) : st2[i] = IF i <= Len(st) THEN st[i] ELSE more[i - Len(st)]
  BY ConcatProperties, LenProperties
<1>2. \A n \in 0 .. Len(st) : AppOf(st2, n) = AppOf(st, n)
  BY AppOfLonger
<1>. HIDE DEF st2
<1>3. \A n \in 0 .. Len(st) : n \in 0 .. Len(st2) /\ ScreensOf(st2)[n] = ScreensOf(st)[n]
  BY <1>1, <1>2 DEF ScreensOf
<1>4. \A i \in 1 .. Len(st) : i \in 1 .. Len(st2) /\ st2[i] = st[i]
  BY <1>1
<1>5. \A i \in 1 .. Len(st2) :
          i \notin 1 .. Len(st) => i - Len(st) \in 1 .. Len(more) /\ st2[i] = more[i - Len(st)]
  BY <1>1
<1>. QED
  BY <1>1, <1>3, <1>4, <1>5 DEF st2

\* The host's screen is as abreast of a stream as before if keys are added.
LEMMA AbreastOn ==
    ASSUME NEW st \in Seq(Elements), NEW bytes \in Seq(Bytes), NEW f \in Nat,
           NEW v, NEW done, NEW h, Abreast(v, ScreensOf(st), st, done, h),
           NEW st2, st2 = st \o ItemsAt(bytes, f), NEW w, w.host = v.host,
           Sound(w.pr, w.host, ScreensOf(st2), st2),
           h = done \/ NotYet(w.pr, done, st2),
           Idle(w.pr) \/ v.host.size = ScreensOf(st)[h].size
    PROVE  Abreast(w, ScreensOf(st2), st2, done, h)
<1>. DEFINE more == ItemsAt(bytes, f)
            S == ScreensOf(st)
            S2 == ScreensOf(st2)
<1>1. /\ done \in 0 .. Len(st) /\ h \in 0 .. Len(st) /\ (h = done \/ h = done + 1)
      /\ Rests(st, h) /\ v.host.gen \in 0 .. h
      /\ h # done => S[h].size # S[done].size
      /\ \/ /\ v.host.size = S[h].size /\ v.host.cell = S[h].cell /\ v.host.cur = S[h].cur
            /\ h = done => v.host = S[done]
         \/ h # done /\ v.host = S[done] /\ Idle(v.pr)
  BY DEF Abreast
<1>2. /\ more \in Seq(Elements)
      /\ \A i \in 1 .. Len(more) : more[i].byte # "resize" /\ more[i].frame = f
  BY ItemsRest
<1>. HIDE DEF more
<1>3. /\ st2 \in Seq(Elements) /\ Len(st) \in Nat /\ Len(st2) \in Nat /\ Len(st) <= Len(st2)
      /\ \A i \in 1 .. Len(st) : i \in 1 .. Len(st2) /\ st2[i] = st[i]
      /\ \A i \in 1 .. Len(st2) :
            i \notin 1 .. Len(st) => i - Len(st) \in 1 .. Len(more) /\ st2[i] = more[i - Len(st)]
      /\ \A n \in 0 .. Len(st) : n \in 0 .. Len(st2) /\ S2[n] = S[n]
  <2>1. st2 = st \o more
    BY DEF more
  <2>. QED
    BY <1>2, <2>1, Longer
<1>. HIDE DEF S, S2
<1>4. Rests(st2, h)
  <2>1. ASSUME NEW j \in h + 1 .. Len(st2)
        PROVE  st2[j].byte # "resize"
    <3>1. j \in 1 .. Len(st2) /\ j \in Nat
      BY <1>1, <1>3
    <3>2. CASE j \in 1 .. Len(st)
      <4>1. j \in h + 1 .. Len(st)
        BY <3>2
      <4>. QED
        BY <1>1, <1>3, <3>2, <4>1 DEF Rests
    <3>3. CASE j \notin 1 .. Len(st)
      BY <1>2, <1>3, <3>1, <3>3
    <3>. QED
      BY <3>2, <3>3
  <2>. QED
    BY <2>1 DEF Rests
<1>5. S2[h] = S[h] /\ S2[done] = S[done] /\ h \in 0 .. Len(st2) /\ done \in 0 .. Len(st2)
  BY <1>1, <1>3
<1>6. Sound(w.pr, w.host, S2, st2) /\ (Idle(w.pr) \/ v.host.size = S[h].size)
  BY DEF S, S2
<1>. QED
  BY <1>1, <1>4, <1>5, <1>6 DEF Abreast, S2

\* The part of the predictor's cursor: it is where the application's is.
LEMMA CursorFollows ==
    ASSUME NEW st \in Seq(Elements), NEW S, NEW v, ScreenOK(v.host), PredictorInv(v.pr, v.host.size),
           NEW h \in 0 .. Len(st), v.host.cur = S[h].cur,
           Sound(v.pr, v.host, S, st), Traced(v.pr, h, S, st)
    PROVE  LET c == Synced(v)
           IN  /\ PredictorInv(c, v.host.size) /\ Keeps(v.pr, c) /\ c.held = v.pr.held
               /\ c.cells = v.pr.cells /\ c.cursors = v.pr.cursors /\ c.cur = S[Len(st)].cur
               /\ Sound(c, v.host, S, st) /\ Traced(c, h, S, st)
<1>. DEFINE c == Synced(v)
            q == SetCursor(v.pr, v.host)
<1>1. Len(st) \in Nat /\ Len(st) \in 0 .. Len(st)
  BY LenProperties
<1>2. CASE v.pr.active
  <2>1. c = v.pr
    BY <1>2 DEF Synced
  <2>. HIDE DEF c
  <2>2. v.pr.cursors # << >>
    BY <1>2 DEF Sound
  <2>3. Covers(st, Len(st), Last(v.pr.cursors).exp)
    BY CoversAll
  <2>4. v.pr.cur = S[Len(st)].cur
    BY <1>1, <2>2, <2>3 DEF Sound
  <2>5. Keeps(v.pr, v.pr)
    BY DEF Keeps
  <2>. QED
    BY <2>1, <2>4, <2>5 DEF c
<1>3. CASE ~v.pr.active
  <2>1. c = q
    BY <1>3 DEF Synced
  <2>2. /\ PredictorInv(q, v.host.size) /\ Keeps(v.pr, q)
        /\ q.cells = v.pr.cells /\ q.active = v.pr.active
        /\ q.cursors = v.pr.cursors /\ q.held = v.pr.held /\ q.cur = v.host.cur
    BY <1>3, SetCursorOK
  <2>. HIDE DEF c, q
  <2>3. Idle(v.pr)
    BY <1>3, InactiveIdle
  <2>4. Idle(q) /\ v.pr.cursors = << >>
    BY <2>2, <2>3 DEF Idle
  <2>5. h \in h .. Len(st)
    BY <1>1
  <2>6. S[h].cur = S[Len(st)].cur
    BY <2>4, <2>5 DEF Traced
  <2>7. Sound(q, v.host, S, st)
    BY <2>4, IdleSound
  <2>8. Traced(q, h, S, st)
    BY <2>2 DEF Traced
  <2>. QED
    BY <2>1, <2>2, <2>6, <2>7, <2>8 DEF c
<1>. QED
  BY <1>2, <1>3

\* A guess an earlier screen did not answer is not answered by it later,
\* and none made now is.
LEMMA GrowsNotYet ==
    ASSUME NEW st \in Seq(Elements), NEW more \in Seq(Elements), NEW st2, st2 = st \o more,
           NEW f \in Nat, \A i \in 1 .. Len(st) : st[i].frame <= f,
           NEW done \in Nat, done + 1 \in 1 .. Len(st),
           NEW p, NEW q, NotYet(p, done, st), Grows(p, q, f)
    PROVE  NotYet(q, done, st2)
<1>1. \A i \in 1 .. Len(st) : i \in 1 .. Len(st2) /\ st2[i] = st[i]
  BY Longer
<1>2. \A g : Covers(st2, done, g) => Covers(st, done, g)
  BY <1>1 DEF Covers
<1>3. ~Covers(st2, done, f)
  <2>1. done + 1 \in 1 .. Len(st2) /\ st2[done + 1].frame <= f /\ ~(done + 1 <= done)
    BY <1>1
  <2>. QED
    BY <2>1 DEF Covers
<1>4. ASSUME NEW pos \in DOMAIN q.cells
      PROVE  ~Covers(st2, done, q.cells[pos].exp)
  BY <1>2, <1>3 DEF Grows, NotYet
<1>5. q.cursors # << >> => ~Covers(st2, done, Last(q.cursors).exp)
  BY <1>2, <1>3 DEF Grows, NotYet
<1>. QED
  BY <1>4, <1>5 DEF NotYet

\* A host's screen of the size of the application's is that of h.
LEMMA SameSizeMatches ==
    ASSUME NEW st \in Seq(Elements), scene.size \in Sizes, scene.prompts = FALSE,
           NEW v, NEW done, NEW h, Abreast(v, ScreensOf(st), st, done, h), ScreenOK(v.host),
           v.host.size = ScreensOf(st)[Len(st)].size
    PROVE  /\ v.host.size = ScreensOf(st)[h].size /\ v.host.cur = ScreensOf(st)[h].cur
           /\ Matches(v.host, h, ScreensOf(st), st) /\ Glyphs(v.host) /\ v.host.gen \in Nat
<1>. DEFINE S == ScreensOf(st)
<1>1. /\ h \in 0 .. Len(st) /\ Rests(st, h) /\ v.host.gen \in 0 .. h
      /\ h # done => S[h].size # S[done].size
      /\ \/ /\ v.host.size = S[h].size /\ v.host.cell = S[h].cell /\ v.host.cur = S[h].cur
         \/ h # done /\ v.host = S[done]
  BY DEF Abreast
<1>2. Len(st) \in Nat /\ Len(st) \in h .. Len(st)
  BY <1>1, LenProperties
<1>3. \A n \in h .. Len(st) : S[n].size = S[h].size /\ (S[n].gen = S[h].gen \/ S[n].gen > h)
  <2>1. ASSUME NEW n \in h .. Len(st)
        PROVE  S[n].size = S[h].size /\ (S[n].gen = S[h].gen \/ S[n].gen > h)
    BY <1>1, ScreensRest
  <2>. QED
    BY <2>1
<1>4. Echoed(S, st)
  BY ScreensEcho
<1>5. v.host.size = S[Len(st)].size
  OBVIOUS
<1>. HIDE DEF S
<1>6. v.host.size = S[h].size /\ v.host.cell = S[h].cell /\ v.host.cur = S[h].cur
  BY <1>1, <1>2, <1>3, <1>5
<1>7. Glyphs(v.host)
  <2>1. Glyphs(S[h])
    BY <1>1, <1>4 DEF Echoed
  <2>. QED
    BY <1>6, <2>1 DEF Glyphs
<1>8. v.host.gen \in Nat /\ v.host.gen <= h
  BY <1>1
<1>9. ASSUME NEW n \in h .. Len(st)
      PROVE  S[n].size = v.host.size /\ (S[n].gen = v.host.gen => S[h].gen = v.host.gen)
  <2>1. n \in 0 .. Len(st)
    BY <1>1, <1>2
  <2>2. S[n].gen \in 0 .. n
    BY <1>4, <2>1 DEF Echoed
  <2>. QED
    BY <1>1, <1>3, <1>6, <1>8, <2>2
<1>10. Matches(v.host, h, S, st)
  BY <1>1, <1>6, <1>8, <1>9 DEF Matches
<1>. QED
  BY <1>6, <1>7, <1>8, <1>10 DEF S

\* A read that is predicted.
LEMMA TypedTracked ==
    ASSUME NEW st \in Seq(Elements), scene.size \in Sizes, scene.prompts = FALSE,
           NEW bytes \in Seq(Bytes), ~Erases(bytes), NEW f \in Nat,
           \A i \in 1 .. Len(st) : st[i].frame <= f,
           NEW v, ScreenOK(v.host), PredictorInv(v.pr, v.host.size), v.pr.over = scene.over,
           v.pr.sent + 1 = f, v.pr.held = AppOf(st, Len(st)).held,
           v.host.size = AppOf(st, Len(st)).scr.size,
           NEW done, NEW h, Abreast(v, ScreensOf(st), st, done, h), Traced(v.pr, h, ScreensOf(st), st),
           NEW st2, st2 = st \o ItemsAt(bytes, f),
           NEW w, w.host = v.host, w.pr = PredictAll(Synced(v), bytes, v.host)
    PROVE  Abreast(w, ScreensOf(st2), st2, done, h) /\ Traced(w.pr, h, ScreensOf(st2), st2)
<1>. DEFINE S == ScreensOf(st)
            S2 == ScreensOf(st2)
            m == Len(st)
            c == Synced(v)
            q == PredictAll(c, bytes, v.host)
<1>1. m \in Nat /\ m \in 0 .. m /\ S[m] = AppOf(st, m).scr
  BY LenProperties DEF ScreensOf
<1>2. /\ v.host.size = S[h].size /\ v.host.cur = S[h].cur
      /\ Matches(v.host, h, S, st) /\ Glyphs(v.host) /\ v.host.gen \in Nat
  <2>1. v.host.size = ScreensOf(st)[Len(st)].size
    BY <1>1
  <2>. QED
    BY <2>1, SameSizeMatches
<1>3. /\ h \in 0 .. m /\ done \in 0 .. m /\ (h = done \/ h = done + 1)
      /\ h # done => NotYet(v.pr, done, st)
      /\ Sound(v.pr, v.host, S, st)
  BY DEF Abreast
<1>4. /\ PredictorInv(c, v.host.size) /\ Keeps(v.pr, c) /\ c.held = v.pr.held
      /\ c.cells = v.pr.cells /\ c.cursors = v.pr.cursors /\ c.cur = S[m].cur
      /\ Sound(c, v.host, S, st) /\ Traced(c, h, S, st)
  <2>. HIDE DEF S
  <2>1. Traced(v.pr, h, S, st)
    BY DEF S
  <2>. QED
    BY <1>2, <1>3, <2>1, CursorFollows
<1>. HIDE DEF c
<1>5. OnTrack(c, v.host, h, st) /\ c.sent + 1 = f
  BY <1>1, <1>2, <1>4 DEF OnTrack, Keeps
<1>6. OnTrack(q, v.host, h, st2) /\ Grows(c, q, f)
  BY <1>2, <1>5, ReadTracked
<1>. HIDE DEF q
<1>7. w.pr = q
  BY DEF c, q
<1>8. Sound(q, v.host, S2, st2) /\ Traced(q, h, S2, st2)
  BY <1>6 DEF OnTrack
<1>9. h = done \/ NotYet(q, done, st2)
  <2>1. ASSUME h # done
        PROVE  NotYet(q, done, st2)
    <3>1. NotYet(c, done, st)
      BY <1>3, <1>4, <2>1 DEF NotYet
    <3>2. done \in Nat /\ done + 1 \in 1 .. Len(st)
      BY <1>1, <1>3, <2>1
    <3>3. ItemsAt(bytes, f) \in Seq(Elements)
      BY ItemsAreElements
    <3>. QED
      BY <1>6, <3>1, <3>2, <3>3, GrowsNotYet
  <2>. QED
    BY <2>1
<1>10. Abreast(w, ScreensOf(st2), st2, done, h)
  BY <1>2, <1>7, <1>8, <1>9, AbreastOn
<1>. QED
  BY <1>7, <1>8, <1>10

\* What keystroke makes of a predictor.
LEMMA KeystrokeIs ==
    ASSUME NEW p, NEW scr, ScreenOK(scr), PredictorInv(p, scr.size), p.pref # "never",
           p.wait # 0 => Idle(p), NEW bytes \in Seq(Bytes)
    PROVE  LET q == Keystroke(p, bytes, scr)
           IN  /\ q.wait # 0 => Idle(q)
               /\ q.wait = 0 => p.wait = 0 /\ ~Erases(bytes)
               /\ q.wait = 0 /\ ~(Len(p.held) + Len(bytes) > BulkInput) =>
                     q = PredictAll(p, bytes, scr)
<1>. DEFINE q == Keystroke(p, bytes, scr)
<1>1. Guessing(p, scr.size) /\ p.sent \in Nat /\ p.wait \in Nat /\ p.wait <= p.sent + 1
  BY DEF PredictorInv, Guessing, Numbers
<1>2. NextFrame(p) \in Nat /\ NextFrame(p) = p.sent + 1 /\ NextFrame(p) # 0
  BY <1>1 DEF NextFrame
<1>3. /\ PredictorInv(Reset(p), scr.size) /\ Keeps(p, Reset(p)) /\ Idle(Reset(p))
  BY <1>1, ResetIs DEF Idle
<1>4. CASE p.wait # 0
  <2>. DEFINE k == [p EXCEPT !.wait = Pause(p)]
  <2>1. q = IF bytes = << >> THEN p ELSE k
    BY <1>4 DEF Keystroke
  <2>2. Pause(p) \in Nat /\ Pause(p) <= p.sent + 1 /\ Pause(p) # 0
    BY <1>1, <1>2 DEF Pause
  <2>3. k.wait = Pause(p) /\ k.cells = p.cells /\ k.active = p.active /\ k.cursors = p.cursors
    BY <2>2, WaitOK
  <2>. HIDE DEF q, k
  <2>4. Idle(q) /\ q.wait # 0
    BY <1>4, <2>1, <2>2, <2>3 DEF Idle
  <2>. QED
    BY <2>4 DEF q
<1>5. CASE p.wait = 0 /\ Erases(bytes)
  <2>. DEFINE r == Reset(p)
              k == [r EXCEPT !.wait = NextFrame(p)]
  <2>1. q = k
    BY <1>5 DEF Keystroke
  <2>2. r.sent = p.sent
    BY <1>3 DEF Keeps
  <2>. HIDE DEF r
  <2>3. PredictorInv(r, scr.size) /\ NextFrame(p) <= r.sent + 1 /\ Idle(r)
    BY <1>1, <1>2, <1>3, <2>2 DEF r
  <2>4. k.wait = NextFrame(p) /\ k.cells = r.cells /\ k.active = r.active /\ k.cursors = r.cursors
    BY <1>2, <2>3, WaitOK
  <2>. HIDE DEF q, k
  <2>5. Idle(q) /\ q.wait # 0
    BY <1>2, <2>1, <2>3, <2>4 DEF Idle
  <2>. QED
    BY <2>5 DEF q
<1>6. CASE p.wait = 0 /\ ~Erases(bytes) /\ Len(p.held) + Len(bytes) > BulkInput
  <2>1. q = Reset(p)
    BY <1>6 DEF Keystroke
  <2>2. q.wait = 0
    BY <1>3, <1>6, <2>1 DEF Keeps
  <2>. QED
    BY <1>6, <2>2
<1>7. CASE p.wait = 0 /\ ~Erases(bytes) /\ ~(Len(p.held) + Len(bytes) > BulkInput)
  <2>1. q = PredictAll(p, bytes, scr)
    BY <1>7 DEF Keystroke, PredictAll
  <2>2. Keeps(p, PredictAll(p, bytes, scr))
    BY PredictAllOK
  <2>3. q.wait = 0
    BY <1>7, <2>1, <2>2 DEF Keeps
  <2>. QED
    BY <1>7, <2>1, <2>3
<1>. QED
  BY <1>4, <1>5, <1>6, <1>7

\* set_cursor leaves an idle predictor idle.
LEMMA SyncedIs ==
    ASSUME NEW v, ScreenOK(v.host), PredictorInv(v.pr, v.host.size)
    PROVE  LET c == Synced(v)
           IN  /\ PredictorInv(c, v.host.size) /\ Keeps(v.pr, c) /\ c.held = v.pr.held
               /\ c.cells = v.pr.cells /\ c.cursors = v.pr.cursors /\ c.active = v.pr.active
<1>. DEFINE c == Synced(v)
            q == SetCursor(v.pr, v.host)
<1>1. CASE v.pr.active
  <2>1. c = v.pr
    BY <1>1 DEF Synced
  <2>. HIDE DEF c
  <2>. QED
    BY <2>1 DEF c, Keeps
<1>2. CASE ~v.pr.active
  <2>1. c = q
    BY <1>2 DEF Synced
  <2>2. /\ PredictorInv(q, v.host.size) /\ Keeps(v.pr, q)
        /\ q.cells = v.pr.cells /\ q.active = v.pr.active
        /\ q.cursors = v.pr.cursors /\ q.held = v.pr.held
    BY <1>2, SetCursorOK
  <2>. HIDE DEF c, q
  <2>. QED
    BY <2>1, <2>2 DEF c
<1>. QED
  BY <1>1, <1>2

\* on_keystroke, of a predictor that is idle where it may not predict.
LEMMA OnKeystrokeTypes ==
    ASSUME NEW v, PipeInv(v), v.pr.pref = "never" \/ v.pr.wait # 0 => Idle(v.pr), NEW bytes \in Seq(Bytes)
    PROVE  Typed(v, OnKeystroke(v, bytes), bytes)
<1>. DEFINE w == OnKeystroke(v, bytes)
            c == Synced(v)
            q == Keystroke(c, bytes, v.host)
<1>1. /\ w.pr.pref = v.pr.pref /\ w.pr.late = v.pr.late /\ w.host = v.host
      /\ IF v.pr.pref = "never" THEN w = v ELSE w.pr = q
  BY OnKeystrokeOK
<1>2. ScreenOK(v.host) /\ PredictorInv(v.pr, v.host.size)
  BY DEF PipeInv, Sized
<1>. HIDE DEF w
<1>3. CASE v.pr.pref = "never"
  BY <1>1, <1>3 DEF Typed, w
<1>4. CASE v.pr.pref # "never"
  <2>1. /\ PredictorInv(c, v.host.size) /\ Keeps(v.pr, c) /\ c.held = v.pr.held
        /\ c.cells = v.pr.cells /\ c.cursors = v.pr.cursors /\ c.active = v.pr.active
    BY <1>2, SyncedIs
  <2>. HIDE DEF c
  <2>2. c.pref # "never" /\ (c.wait # 0 => Idle(c))
    BY <1>4, <2>1 DEF Keeps, Idle
  <2>3. /\ q.wait # 0 => Idle(q)
        /\ q.wait = 0 => c.wait = 0 /\ ~Erases(bytes)
        /\ q.wait = 0 /\ ~(Len(c.held) + Len(bytes) > BulkInput) => q = PredictAll(c, bytes, v.host)
    BY <1>2, <2>1, <2>2, KeystrokeIs
  <2>4. KeepsButWait(c, q)
    BY <1>2, <2>1, KeystrokeOK
  <2>. HIDE DEF q
  <2>5. w.pr = q
    BY <1>1, <1>4 DEF q
  <2>6. q.over = v.pr.over /\ c.wait = v.pr.wait
    BY <2>1, <2>4 DEF Keeps, KeepsButWait
  <2>. QED
    BY <1>1, <1>4, <2>1, <2>3, <2>5, <2>6 DEF Typed, w, c
<1>. QED
  BY <1>3, <1>4

\* The end of the program is announced, and no more.
LEMMA TypedNoted ==
    ASSUME NEW v, NEW w, NEW bytes, Typed(v, w, bytes), NEW u, u.host = w.host, u.pr = w.pr
    PROVE  Typed(v, u, bytes)
BY DEF Typed

\* What is known after a read.
LEMMA TypedKnown ==
    ASSUME NEW st \in Seq(Elements), NEW bytes \in Seq(Bytes), NEW f \in Nat,
           NEW v, NEW w, Typed(v, w, bytes), v.pr.late \in Nat, v.pr.late < f,
           NEW done \in 0 .. Len(st), Known(v, ScreensOf(st), st, done),
           NEW st2, st2 = st \o ItemsAt(bytes, f)
    PROVE  Known(w, ScreensOf(st2), st2, done)
<1>. DEFINE more == ItemsAt(bytes, f)
            S == ScreensOf(st)
            S2 == ScreensOf(st2)
<1>1. /\ more \in Seq(Elements)
      /\ \A i \in 1 .. Len(more) : more[i].byte # "resize" /\ more[i].frame = f
  BY ItemsRest
<1>. HIDE DEF more
<1>2. st2 = st \o more
  BY DEF more
<1>3. /\ Len(st) \in Nat /\ Len(st2) \in Nat /\ Len(st) <= Len(st2)
      /\ \A i \in 1 .. Len(st) : i \in 1 .. Len(st2) /\ st2[i] = st[i]
      /\ \A n \in 0 .. Len(st) : S2[n] = S[n]
  BY <1>1, <1>2, Longer
<1>4. /\ v.host = S[done] \/ ~Rests(st, done)
      /\ Covers(st, done, v.pr.late)
  BY DEF Known
<1>. HIDE DEF S, S2
<1>5. done \in Nat
  BY <1>3
<1>6. v.host = S2[done] \/ ~Rests(st2, done)
  <2>1. CASE v.host = S[done]
    BY <1>3, <2>1
  <2>2. CASE ~Rests(st, done)
    <3>1. PICK j \in done + 1 .. Len(st) : st[j].byte = "resize"
      BY <2>2 DEF Rests
    <3>2. j \in 1 .. Len(st) /\ j \in done + 1 .. Len(st2)
      BY <1>3, <1>5
    <3>. QED
      BY <1>3, <3>1, <3>2 DEF Rests
  <2>. QED
    BY <1>4, <2>1, <2>2
<1>7. Covers(st2, done, v.pr.late)
  <2>1. \A i \in 1 .. Len(more) : more[i].frame > v.pr.late
    BY <1>1
  <2>. QED
    BY ONLY <1>1, <1>2, <1>4, <1>5, <2>1, v.pr.late \in Nat, st \in Seq(Elements), CoversMore
<1>8. w.host = v.host /\ w.pr.late = v.pr.late /\ (w.pr.pref = "never" \/ w.pr.wait # 0 => Idle(w.pr))
  BY DEF Typed
<1>. QED
  BY <1>6, <1>7, <1>8 DEF Known, S2

\* What is guessed after a read.
LEMMA TypedGuessed ==
    ASSUME NEW st \in Seq(Elements), scene.size \in Sizes, scene.prompts = FALSE,
           NEW bytes \in Seq(Bytes), NEW f \in Nat, \A i \in 1 .. Len(st) : st[i].frame <= f,
           NEW v, ScreenOK(v.host), PredictorInv(v.pr, v.host.size), v.pr.over = scene.over,
           v.pr.sent + 1 = f, NEW done, Guessed(v, ScreensOf(st), st, done, TRUE),
           NEW w, Typed(v, w, bytes), w.pr.wait = 0 => ~Astray(v, AppOf(st, Len(st)), bytes),
           NEW st2, st2 = st \o ItemsAt(bytes, f)
    PROVE  Guessed(w, ScreensOf(st2), st2, done, TRUE)
<1>. DEFINE S == ScreensOf(st)
            S2 == ScreensOf(st2)
            app == AppOf(st, Len(st))
<1>1. PICK h \in 0 .. Len(st) :
         /\ Abreast(v, S, st, done, h)
         /\ v.pr.pref # "never" /\ v.pr.wait = 0 => Traced(v.pr, h, S, st)
  BY DEF Guessed
<1>2. h \in 0 .. Len(st2)
  <2>1. ItemsAt(bytes, f) \in Seq(Elements)
    BY ItemsAreElements
  <2>. QED
    BY <2>1, Longer
<1>3. w.host = v.host /\ w.pr.pref = v.pr.pref
  BY DEF Typed
<1>4. CASE w.pr.pref = "never" \/ w.pr.wait # 0
  <2>1. Idle(w.pr)
    BY <1>4 DEF Typed
  <2>2. Sound(w.pr, w.host, S2, st2) /\ NotYet(w.pr, done, st2)
    BY <2>1, IdleSound, IdleNotYet
  <2>3. Abreast(w, S2, st2, done, h)
    BY <1>1, <1>3, <2>1, <2>2, AbreastOn
  <2>. QED
    BY <1>2, <1>4, <2>3 DEF Guessed
<1>5. CASE w.pr.pref # "never" /\ w.pr.wait = 0
  <2>1. /\ v.pr.wait = 0 /\ ~Erases(bytes)
        /\ ~(Len(v.pr.held) + Len(bytes) > BulkInput) => w.pr = PredictAll(Synced(v), bytes, v.host)
    BY <1>5 DEF Typed
  <2>2. /\ v.pr.held = app.held /\ v.host.size = app.scr.size
        /\ ~(Len(v.pr.held) + Len(bytes) > BulkInput)
    BY <1>5 DEF Astray
  <2>3. Traced(v.pr, h, S, st)
    BY <1>1, <1>3, <1>5, <2>1
  <2>4. Abreast(w, S2, st2, done, h) /\ Traced(w.pr, h, S2, st2)
    BY <1>1, <1>3, <2>1, <2>2, <2>3, TypedTracked
  <2>. QED
    BY <1>2, <2>4 DEF Guessed
<1>. QED
  BY <1>4, <1>5

\* What is typed is predicted on the screen that the host has.
LEMMA TrueInvStdin ==
    ASSUME MainInv, MainInv', TrueInv, Stdin
    PROVE  TrueInv' /\ d'.host = d.host
<1>. DEFINE f == remote.sent + 1
            m == Len(stream)
            done == remote.done
            S == ScreensOf(stream)
<1>1. PICK read \in scene.reads :
        LET p == ProcessInput(esc, read)
            typed == OnKeystroke(d, p.forward)
            app == AppAfter(Len(stream))
        IN  /\ stream' = stream \o Items(p.forward)
            /\ d' = IF p.quit THEN SetNotification(typed, "exiting") ELSE typed
            /\ astray' = \/ astray
                         \/ /\ typed.pr.wait = 0
                            /\ \/ d.pr.held # app.held \/ d.host.size # app.scr.size
                               \/ Len(d.pr.held) + Len(p.forward) > BulkInput
  BY DEF Stdin
<1>. DEFINE p == ProcessInput(esc, read)
            bytes == p.forward
            typed == OnKeystroke(d, bytes)
            st2 == stream \o ItemsAt(bytes, f)
            S2 == ScreensOf(st2)
            app == AppOf(stream, m)
<1>2. UNCHANGED <<remote, scene>> /\ phase = "running"
  BY DEF Stdin, Running
<1>3. /\ PipeInv(d) /\ ScreenOK(d.host) /\ PredictorInv(d.pr, d.host.size)
      /\ stream \in Seq(Elements) /\ m \in Nat /\ done \in 0 .. m
      /\ remote.sent \in Nat /\ remote.echo \in Nat /\ remote.echo <= remote.sent
      /\ scene.size \in Sizes /\ scene.prompts \in BOOLEAN
  BY MainParts
<1>4. bytes \in Seq(Bytes)
  <2>1. InputInv
    BY DEF MainInv
  <2>. DEFINE x == FlattenSeq(input)
  <2>2. Tracks(x \o read, ProcessInput(esc, read), Sent)
    BY <1>2, <2>1, ReadTracks
  <2>3. Tracks(x \o read, p, Sent)
    BY <2>2
  <2>. HIDE DEF x, p
  <2>. HIDE DEF p
  <2>. QED
    BY <2>3 DEF Tracks
<1>5. /\ stream' = st2
      /\ d' = IF p.quit THEN SetNotification(typed, "exiting") ELSE typed
      /\ ~astray' => ~astray /\ (typed.pr.wait = 0 => ~Astray(d, app, bytes))
  <2>1. AppAfter(Len(stream)) = app
    BY DEF AppAfter, AppOf
  <2>2. Items(bytes) = ItemsAt(bytes, f)
    BY DEF Items, ItemsAt
  <2>. QED
    BY <1>1, <2>1, <2>2 DEF Astray
<1>6. /\ d.pr.sent = remote.sent /\ d.pr.late = remote.echo
      /\ \A i \in 1 .. m : stream[i].frame <= f
  <2>1. PauseInv /\ SessionInv
    BY DEF MainInv
  <2>. QED
    BY <1>2, <2>1 DEF PauseInv, SessionInv, Ordered
<1>. HIDE DEF p, bytes
<1>7. Known(d, S, stream, done) /\ (d.pr.pref = "never" \/ d.pr.wait # 0 => Idle(d.pr))
      /\ d.pr.over = scene.over
  BY DEF TrueInv, Known
<1>8. PipeInv(typed) /\ Typed(d, typed, bytes)
  <2>1. Typed(d, typed, bytes)
    BY <1>3, <1>4, <1>7, OnKeystrokeTypes
  <2>2. PipeInv(typed)
    BY <1>3, <1>4, OnKeystrokeOK
  <2>. QED
    BY <2>1, <2>2
<1>. HIDE DEF typed
<1>9. d'.pr = typed.pr /\ d'.host = typed.host
  <2>. DEFINE n == SetNotification(typed, "exiting")
  <2>1. n.pr = typed.pr /\ n.host = typed.host
    BY <1>8, SetNotificationOK
  <2>2. d' = n \/ d' = typed
    BY <1>5
  <2>. HIDE DEF n
  <2>. QED
    BY <2>1, <2>2
<1>10. Typed(d, d', bytes)
  BY <1>8, <1>9, TypedNoted
<1>11. f \in Nat /\ d.pr.late \in Nat /\ d.pr.late < f /\ d.pr.sent + 1 = f
  BY <1>3, <1>6
<1>. HIDE DEF f, S2
<1>12. Known(d', S2, st2, done)
  BY <1>3, <1>4, <1>7, <1>10, <1>11, TypedKnown DEF S2
<1>13. d'.pr.over = scene.over
  BY <1>7, <1>10 DEF Typed
<1>14. ASSUME ~astray', ~scene.prompts
       PROVE  Guessed(d', S2, st2, done, TRUE)
  <2>1. Guessed(d, S, stream, done, TRUE)
    BY <1>2, <1>5, <1>14 DEF TrueInv
  <2>2. d'.pr.wait = 0 => ~Astray(d, app, bytes)
    BY <1>5, <1>9, <1>14
  <2>3. scene.prompts = FALSE
    BY <1>3, <1>14
  <2>. QED
    BY <1>3, <1>4, <1>6, <1>7, <1>10, <1>11, <2>1, <2>2, <2>3, TypedGuessed DEF S2
<1>15. ScreensOf(stream)' = S2
  <2>1. stream' \in Seq(Elements)
    <3>1. SessionShape'
      BY DEF MainInv, InputInv
    <3>. QED
      BY <3>1 DEF SessionShape
  <2>. QED
    BY <1>2, <1>5, <2>1, ScreensStay DEF S2
<1>. HIDE DEF st2
<1>16. Guessed(d', S2, st2, done, TRUE) => \A live \in BOOLEAN : Guessed(d', S2, st2, done, live)
  BY DEF Guessed
<1>17. (phase = "running")' \in BOOLEAN
  OBVIOUS
<1>18. ~astray' /\ ~scene'.prompts => Guessed(d', S2, st2, done, (phase = "running")')
  BY <1>2, <1>14, <1>16, <1>17
<1>19. TrueInv'
  BY <1>2, <1>5, <1>12, <1>13, <1>15, <1>18 DEF TrueInv
<1>. QED
  BY <1>10, <1>19 DEF Typed

\* No step breaks it.
LEMMA TrueInvNext == MainInv /\ TrueInv /\ [Next]_vars => MainInv' /\ TrueInv'
<1>. SUFFICES ASSUME MainInv, TrueInv, [Next]_vars PROVE MainInv' /\ TrueInv'
  OBVIOUS
<1>1. MainInv'
  BY MainInvNext
<1>. QED
  BY <1>1, TrueInvShow, TrueInvPoll, TrueInvStdin, TrueInvResize, TrueInvDrain, TrueInvEnd DEF Next

\* So whatever the session does, every guess is accounted for: the screens the
\* application will show, once it has read what the guess was made from, agree
\* with it, and what is not guessed the host's screen shows already.
THEOREM TrueInvariance == Spec => [](MainInv /\ TrueInv)
<1>1. Init => MainInv /\ TrueInv
  BY MainInvInit, TrueInvInit
<1>. QED
  BY <1>1, TrueInvNext, PTL DEF Spec

\* The elements that the frames up to f carry are some of the stream's, and
\* none comes after them that is promised to these frames.
LEMMA CarriedCovers ==
    ASSUME MainInv, NEW f \in Nat
    PROVE  CarriedBy(f) \in 0 .. Len(stream) /\ Covers(stream, CarriedBy(f), f)
<1>. DEFINE m == Len(stream)
            C == {i \in DOMAIN stream : stream[i].frame <= f}
<1>1. /\ SessionShape /\ Ordered(stream, remote.sent + 1) /\ m \in Nat /\ DOMAIN stream = 1 .. m
      /\ \A i \in 1 .. m : stream[i].frame \in Nat
  BY MainParts, SessionNumbers DEF MainInv, SessionInv
<1>2. CarriedBy(f) \in 0 .. m
  <2>1. IsFiniteSet(1 .. m) /\ Cardinality(1 .. m) = m
    <3>1. m \in Int /\ 1 \in Int
      BY <1>1
    <3>. HIDE DEF m
    <3>2. IsFiniteSet(1 .. m) /\ Cardinality(1 .. m) = IF 1 > m THEN 0 ELSE m - 1 + 1
      BY <3>1, FS_Interval
    <3>3. m \in Nat
      BY <1>1
    <3>. QED
      BY <3>2, <3>3
  <2>2. C \subseteq 1 .. m
    BY <1>1
  <2>3. IsFiniteSet(C) /\ Cardinality(C) <= m
    BY <2>1, <2>2, FS_Subset
  <2>4. Cardinality(C) \in Nat
    BY <2>3, FS_CardinalityType
  <2>5. CarriedBy(f) = Cardinality(C)
    BY DEF CarriedBy
  <2>. HIDE DEF C
  <2>. QED
    BY <1>1, <2>3, <2>4, <2>5
<1>3. CarriedBy(f) \in Nat /\ CarriedBy(f) <= CarriedBy(f)
  BY <1>2
<1>4. ASSUME NEW i \in 1 .. m, stream[i].frame <= f
      PROVE  i <= CarriedBy(f)
  <2>1. ~(i > CarriedBy(f)) \/ stream[i].frame > f
    BY <1>1, <1>3, CarriedFirst
  <2>. QED
    BY <1>1, <1>3, <1>4, <2>1
<1>. QED
  BY <1>2, <1>4 DEF Covers

\* In every loop, whatever is typed, resized and shown and in whatever order
\* screens and acknowledgements come: a glyph predicted for an application
\* that echoes is what its screen shows once it has the input of the frame it
\* waits for, or is marked unknown, unless that screen scrolled. This is the
\* promise of PredictionEngine::keystroke.
THEOREM PredictionsHold == Spec => []PredictionsComeTrue
<1>1. MainInv /\ TrueInv => PredictionsComeTrue
  <2>1. SUFFICES ASSUME MainInv, TrueInv, ~astray, ~scene.prompts, NEW pos \in DOMAIN d.pr.cells
        PROVE  LET guess == d.pr.cells[pos]
               IN  \/ guess.unknown \/ Answer(guess).gen # d.host.gen
                   \/ guess.ch = Answer(guess).cell[pos]
    BY DEF PredictionsComeTrue
  <2>. DEFINE guess == d.pr.cells[pos]
              n == CarriedBy(guess.exp)
              S == ScreensOf(stream)
  <2>2. guess.exp \in Nat
    BY <2>1, MainParts, AwaitsOK DEF Awaits
  <2>3. n \in 0 .. Len(stream) /\ Covers(stream, n, guess.exp)
    BY <2>1, <2>2, CarriedCovers
  <2>4. Sound(d.pr, d.host, S, stream)
    BY <2>1 DEF TrueInv, Guessed, Abreast
  <2>5. S[n] = Answer(guess)
    BY <2>1, <2>3, ScreenIs DEF Answer
  <2>. HIDE DEF S, n
  <2>6. S[n].gen = d.host.gen => guess.unknown \/ S[n].cell[pos] = guess.ch
    BY <2>1, <2>3, <2>4 DEF Sound
  <2>. QED
    BY <2>5, <2>6
<1>. QED
  BY <1>1, TrueInvariance, PTL

\* Such an application never proves a prediction wrong: a screen that comes
\* while something is predicted, and that kept its rows, ends no epoch. What
\* confirm would reject, and what cull_cursor_predictions would, it never
\* finds, though a frame may be acknowledged before its screen comes and come
\* before it is acknowledged.
THEOREM NothingRefuted == Spec => NeverRefuted
<1>. DEFINE Steady == ~astray /\ ~scene.prompts /\ d.pr.active /\ d'.host # d.host
                      /\ ~Moved(d, d'.host) /\ stream' = stream
                      => d'.pr.epoch = d.pr.epoch
<1>1. MainInv /\ TrueInv /\ MainInv' /\ [Next]_vars => [Steady]_vars
  <2>1. SUFFICES ASSUME MainInv, TrueInv, MainInv', [Next]_vars,
                        ~astray, ~scene.prompts, d.pr.active, d'.host # d.host,
                        ~Moved(d, d'.host), stream' = stream
        PROVE  d'.pr.epoch = d.pr.epoch
    OBVIOUS
  <2>2. CASE AdaptDisplay
    <3>1. PICK srtt \in scene.srtts : d' = FollowSrtt(d, srtt)
      BY <2>2 DEF AdaptDisplay
    <3>2. d'.host = d.host
      BY <2>1, <3>1, MainParts, FollowSrttOK
    <3>. QED
      BY <2>1, <3>2
  <2>3. CASE Poll
    <3>1. PICK r \in PollResults, repaired \in BOOLEAN, age \in scene.ages :
            \E w, u : Polled(r, repaired, age, w, u)
      BY <2>1, <2>3, PollSteps
    <3>2. PICK w, u : Polled(r, repaired, age, w, u)
      BY <3>1
    <3>3. d'.host = u.host /\ d'.pr = u.pr /\ u.host = w.host /\ (~News(r) => w = d)
      BY <3>2 DEF Polled, Hears
    <3>4. News(r)
      BY <2>1, <3>3
    <3>5. PICK h \in 0 .. Len(stream) : Abreast(d, ScreensOf(stream), stream, remote.done, h)
      BY <2>1 DEF TrueInv, Guessed
    <3>6. News(r) /\ d.pr.active /\ ~Moved(d, u.host) => u.pr.epoch = d.pr.epoch
      BY <2>1, <3>2, <3>5, PolledGuessed
    <3>. QED
      BY <2>1, <3>3, <3>4, <3>6
  <2>4. CASE Tick
    <3>1. PICK age \in scene.ages : d' = PipelineTick(d, age)
      BY <2>4 DEF Tick
    <3>2. d'.host = d.host
      BY <2>1, <3>1, MainParts, PipelineTickOK
    <3>. QED
      BY <2>1, <3>2
  <2>5. CASE Stdin
    BY <2>1, <2>5, TrueInvStdin
  <2>6. CASE Resize
    <3>1. PICK item : stream' = Append(stream, item)
      BY <2>6 DEF Resize
    <3>2. stream \in Seq(Elements)
      BY <2>1, MainParts
    <3>3. Append(stream, item) # stream
      BY <3>2
    <3>. QED
      BY <2>1, <3>1, <3>3
  <2>7. CASE EndOfInput \/ UNCHANGED vars
    BY <2>1, <2>7 DEF EndOfInput, vars
  <2>8. CASE Drain
    BY <2>1, <2>8, TrueInvDrain
  <2>. QED
    BY <2>1, <2>2, <2>3, <2>4, <2>5, <2>6, <2>7, <2>8 DEF Next
<1>. QED
  BY <1>1, TrueInvariance, PTL DEF NeverRefuted, Spec
=============================================================================
