---------------------------- MODULE Client_proofs ----------------------------
(***************************************************************************)
(* What the steps of flush_ticks() (Client.tla) preserve, for              *)
(* Session_proofs.tla to cite.                                             *)
(*                                                                         *)
(* A state number stands for how many of the user's actions the state      *)
(* holds.  Neither the code nor the model records that; the lemmas below   *)
(* are about any function V that says it: a call that numbers a new state  *)
(* extends V, and whatever the client queues, logs or sends is the part of *)
(* the user's input between the values of V at two numbers.                *)
(***************************************************************************)
EXTENDS Client, Transport_proofs, FiniteSetTheorems

-----------------------------------------------------------------------------
(***************************************************************************)
(* Parts of a sequence.                                                    *)
(***************************************************************************)

\* The elements of log after the first "from", up to the one at "to".
Part(log, from, to) == SubSeq(log, from + 1, to)

\* A part of the log is a sequence of its elements, in their order.
LEMMA PartProperties ==
    ASSUME NEW S, NEW log \in Seq(S), NEW from \in Nat, NEW to \in Nat, to <= Len(log)
    PROVE  /\ Part(log, from, to) \in Seq(S)
           /\ Len(Part(log, from, to)) = IF from <= to THEN to - from ELSE 0
           /\ \A i \in 1 .. to - from : Part(log, from, to)[i] = log[from + i]
<1>1. \A i \in from + 1 .. to : log[i] \in S
  BY LenProperties, ElementOfSeq
<1>2. /\ SubSeq(log, from + 1, to) \in Seq(S)
      /\ Len(SubSeq(log, from + 1, to))
           = IF from + 1 <= to THEN to - (from + 1) + 1 ELSE 0
      /\ \A i \in 1 .. to - (from + 1) + 1 :
            SubSeq(log, from + 1, to)[i] = log[(from + 1) + i - 1]
  BY <1>1, SubSeqProperties, from + 1 \in Int, to \in Int
<1>. QED
  BY <1>2 DEF Part

\* The same for a part that reaches the end.
LEMMA RestProperties ==
    ASSUME NEW S, NEW log \in Seq(S), NEW from \in Nat, from <= Len(log)
    PROVE  /\ Part(log, from, Len(log)) \in Seq(S)
           /\ Len(Part(log, from, Len(log))) = Len(log) - from
           /\ Len(Part(log, from, Len(log))) \in Nat
           /\ \A i \in 1 .. Len(log) - from : Part(log, from, Len(log))[i] = log[from + i]
<1>. DEFINE to == Len(log)
<1>1. to \in Nat /\ to <= Len(log)
  BY LenProperties
<1>2. from <= to
  OBVIOUS
<1>. HIDE DEF to
<1>3. /\ Part(log, from, to) \in Seq(S)
      /\ Len(Part(log, from, to)) = IF from <= to THEN to - from ELSE 0
      /\ \A i \in 1 .. to - from : Part(log, from, to)[i] = log[from + i]
  BY <1>1, PartProperties
<1>4. Len(Part(log, from, to)) = to - from /\ to - from \in Nat
  BY <1>1, <1>2, <1>3
<1>. QED
  BY <1>3, <1>4 DEF to

\* Nothing lies between a position and itself, everything between the ends.
LEMMA PartEnds ==
    ASSUME NEW S, NEW log \in Seq(S)
    PROVE  /\ \A n \in Nat : Part(log, n, n) = << >>
           /\ Part(log, 0, Len(log)) = log
           /\ \A n \in Nat : From(log, n) = Part(log, n, Len(log))
<1>1. \A n \in Nat : Part(log, n, n) = << >>
  BY SubSeqEmpty DEF Part
<1>2. Part(log, 0, Len(log)) = log
  BY SubSeqFull DEF Part
<1>. QED
  BY <1>1, <1>2 DEF From, Part

\* New input leaves the earlier parts as they are and extends the last one.
LEMMA PartOfLonger ==
    ASSUME NEW S, NEW log \in Seq(S), NEW a \in S, NEW from \in Nat
    PROVE  /\ \A to \in Nat : to <= Len(log) =>
                 Part(Append(log, a), from, to) = Part(log, from, to)
           /\ from <= Len(log) =>
                 Append(Part(log, from, Len(log)), a)
                   = Part(Append(log, a), from, Len(log) + 1)
<1>. DEFINE more == Append(log, a)
<1>1. /\ more \in Seq(S) /\ Len(more) = Len(log) + 1 /\ Len(log) \in Nat
      /\ \A i \in 1 .. Len(log) : more[i] = log[i]
      /\ more[Len(log) + 1] = a
  BY AppendProperties, LenProperties
<1>. HIDE DEF more
<1>4. more \in Seq(S)
  BY <1>1
<1>5. Len(log) \in Nat
  BY <1>1
<1>2. ASSUME NEW to \in Nat, to <= Len(log)
      PROVE  Part(more, from, to) = Part(log, from, to)
  <2>. DEFINE p == Part(more, from, to)
              q == Part(log, from, to)
  <2>4. to <= Len(more)
    BY <1>1, <1>2
  <2>1. /\ p \in Seq(S) /\ Len(p) = (IF from <= to THEN to - from ELSE 0)
        /\ \A i \in 1 .. to - from : p[i] = more[from + i]
    BY <1>4, <2>4, PartProperties
  <2>2. /\ q \in Seq(S) /\ Len(q) = (IF from <= to THEN to - from ELSE 0)
        /\ \A i \in 1 .. to - from : q[i] = log[from + i]
    BY <1>2, PartProperties
  <2>. HIDE DEF p, q
  <2>3. \A i \in 1 .. Len(p) : p[i] = q[i]
    <3>. SUFFICES ASSUME NEW i \in 1 .. Len(p) PROVE p[i] = q[i]
      OBVIOUS
    <3>1. i \in 1 .. to - from
      BY <2>1
    <3>2. from + i \in 1 .. Len(log)
      BY <1>2, <1>5, <3>1
    <3>. QED
      BY <1>1, <2>1, <2>2, <3>1, <3>2
  <2>. QED
    BY <2>1, <2>2, <2>3, SeqEqual DEF p, q
<1>3. ASSUME from <= Len(log)
      PROVE  Append(Part(log, from, Len(log)), a) = Part(more, from, Len(log) + 1)
  <2>. DEFINE part == Part(log, from, Len(log))
              p == Append(part, a)
              q == Part(more, from, Len(log) + 1)
  <2>1. /\ part \in Seq(S) /\ Len(part) = Len(log) - from
        /\ \A i \in 1 .. Len(log) - from : part[i] = log[from + i]
    BY <1>3, RestProperties
  <2>. HIDE DEF part
  <2>2. /\ p \in Seq(S) /\ Len(p) = Len(part) + 1
        /\ \A i \in 1 .. Len(part) : p[i] = part[i]
        /\ p[Len(part) + 1] = a
    BY <2>1, AppendProperties
  <2>3. /\ q \in Seq(S) /\ Len(q) = Len(log) + 1 - from
        /\ \A i \in 1 .. Len(log) + 1 - from : q[i] = more[from + i]
    <3>1. Len(log) + 1 \in Nat /\ Len(log) + 1 <= Len(more) /\ from <= Len(log) + 1
      BY <1>1, <1>3
    <3>. QED
      BY <1>4, <3>1, PartProperties
  <2>. HIDE DEF p, q
  <2>4. Len(p) = Len(q)
    BY <1>3, <1>5, <2>1, <2>2, <2>3
  <2>5. \A i \in 1 .. Len(p) : p[i] = q[i]
    <3>. SUFFICES ASSUME NEW i \in 1 .. Len(p) PROVE p[i] = q[i]
      OBVIOUS
    <3>1. CASE i \in 1 .. Len(part)
      <4>1. i \in 1 .. Len(log) - from /\ from + i \in 1 .. Len(log)
        BY <1>3, <1>5, <2>1, <3>1
      <4>2. i \in 1 .. Len(log) + 1 - from
        BY <1>3, <1>5, <4>1
      <4>. QED
        BY <1>1, <2>1, <2>2, <2>3, <3>1, <4>1, <4>2
    <3>2. CASE i = Len(part) + 1
      <4>1. i \in 1 .. Len(log) + 1 - from /\ from + i = Len(log) + 1
        BY <1>3, <1>5, <2>1, <3>2
      <4>. QED
        BY <1>1, <2>2, <2>3, <3>2, <4>1
    <3>. QED
      BY <1>3, <1>5, <2>1, <2>2, <3>1, <3>2
  <2>6. p = q
    BY <2>2, <2>3, <2>4, <2>5, SeqEqual
  <2>. QED
    BY <2>6 DEF p, q, part
<1>. QED
  BY <1>2, <1>3 DEF more

\* Adjacent parts join.
LEMMA PartsJoin ==
    ASSUME NEW S, NEW log \in Seq(S), NEW from \in Nat, NEW mid \in Nat, NEW to \in Nat,
           from <= mid, mid <= to, to <= Len(log)
    PROVE  Part(log, from, mid) \o Part(log, mid, to) = Part(log, from, to)
<1>1. from + 1 \in 1 .. Len(log) + 1 /\ mid \in (from + 1) - 1 .. Len(log)
      /\ to \in mid .. Len(log)
  BY LenProperties
<1>. QED
  BY <1>1, ConcatAdjacentSubSeq DEF Part

\* A part of the rest of the log is a part of the log.
LEMMA PartOfRest ==
    ASSUME NEW S, NEW log \in Seq(S), NEW from \in Nat, from <= Len(log), NEW n \in Nat
    PROVE  /\ From(Part(log, from, Len(log)), n) = Part(log, from + n, Len(log))
           /\ Len(Part(log, from, Len(log))) = Len(log) - from
<1>. DEFINE rest == Part(log, from, Len(log))
            p == Part(rest, n, Len(rest))
            q == Part(log, from + n, Len(log))
<1>1. Len(log) \in Nat /\ from + n \in Nat
  BY LenProperties
<1>2. /\ rest \in Seq(S) /\ Len(rest) = Len(log) - from
      /\ \A i \in 1 .. Len(log) - from : rest[i] = log[from + i]
  BY RestProperties
<1>3. Len(rest) \in Nat /\ rest \in Seq(S)
  BY <1>1, <1>2
<1>. HIDE DEF rest
<1>4. /\ p \in Seq(S) /\ Len(p) = (IF n <= Len(rest) THEN Len(rest) - n ELSE 0)
      /\ \A i \in 1 .. Len(rest) - n : p[i] = rest[n + i]
  <2>. DEFINE to == Len(rest)
  <2>1. to \in Nat /\ to <= Len(rest)
    BY <1>3
  <2>. HIDE DEF to
  <2>2. /\ Part(rest, n, to) \in Seq(S)
        /\ Len(Part(rest, n, to)) = (IF n <= to THEN to - n ELSE 0)
        /\ \A i \in 1 .. to - n : Part(rest, n, to)[i] = rest[n + i]
    BY ZenonT(40), <1>3, <2>1, PartProperties
  <2>. QED
    BY <2>2 DEF to
<1>5. /\ q \in Seq(S)
      /\ Len(q) = (IF from + n <= Len(log) THEN Len(log) - (from + n) ELSE 0)
      /\ \A i \in 1 .. Len(log) - (from + n) : q[i] = log[(from + n) + i]
  <2>. DEFINE to == Len(log)
              start == from + n
  <2>1. to \in Nat /\ to <= Len(log) /\ start \in Nat
    BY <1>1
  <2>. HIDE DEF to, start
  <2>2. /\ Part(log, start, to) \in Seq(S)
        /\ Len(Part(log, start, to)) = (IF start <= to THEN to - start ELSE 0)
        /\ \A i \in 1 .. to - start : Part(log, start, to)[i] = log[start + i]
    BY ZenonT(40), <2>1, PartProperties
  <2>. QED
    BY <2>2 DEF to, start
<1>. HIDE DEF p, q
<1>6. Len(p) = Len(q)
  BY <1>1, <1>2, <1>4, <1>5
<1>7. \A i \in 1 .. Len(p) : p[i] = q[i]
  <2>. SUFFICES ASSUME NEW i \in 1 .. Len(p) PROVE p[i] = q[i]
    OBVIOUS
  <2>1. /\ i \in 1 .. Len(rest) - n /\ n + i \in 1 .. Len(log) - from
        /\ i \in 1 .. Len(log) - (from + n) /\ from + (n + i) = (from + n) + i
    BY <1>1, <1>2, <1>4
  <2>. QED
    BY <1>2, <1>4, <1>5, <2>1
<1>8. p = q
  BY <1>4, <1>5, <1>6, <1>7, SeqEqual
<1>. QED
  BY <1>2, <1>3, <1>8, PartEnds DEF rest, p, q

\* A longer input has the parts of the shorter one.
LEMMA PartsStay ==
    ASSUME NEW S, NEW log \in Seq(S), NEW a \in S
    PROVE  \A from, to \in Nat : to <= Len(log) =>
              Part(Append(log, a), from, to) = Part(log, from, to)
<1>. SUFFICES ASSUME NEW from \in Nat
              PROVE  \A to \in Nat : to <= Len(log) =>
                        Part(Append(log, a), from, to) = Part(log, from, to)
  OBVIOUS
<1>. QED
  BY PartOfLonger

-----------------------------------------------------------------------------
(***************************************************************************)
(* What the numbers of a client stand for.                                 *)
(***************************************************************************)

\* V grows with the number, starts from nothing, and says of every number
\* still to be given out what it says of the last one.
Marks(V, log, t) ==
    /\ V \in [Nat -> Nat] /\ V[0] = 0
    /\ \A m, n \in Nat : m <= n => V[m] <= V[n]
    /\ \A n \in Nat : t.sentNum <= n => V[n] = V[t.sentNum]
    /\ V[t.sentNum] <= Len(log)

\* A queued state carries the input between its base and itself; none has
\* the number of the shutdown.
Queued(V, log, t) ==
    \A s \in t.outbound : s.new # ShutdownNum /\ s.diff = Part(log, V[s.old], V[s.new])

\* The newest state that is queued, or the acknowledged one, holds as much
\* as the last number stands for.
AtTip(V, t) ==
    V[t.acked] = V[t.sentNum] \/ \E s \in t.outbound : V[s.new] = V[t.sentNum]

\* The log is what the user did since the last acknowledged state, and the
\* counts recorded with it agree with V and miss no growth of V.
Logged(V, log, c) ==
    /\ c.actions = Part(log, V[c.lastAcked], Len(log))
    /\ \A k \in c.counts : k.state <= c.t.sentNum /\ V[k.state] = V[c.lastAcked] + k.count
    /\ \A n \in c.lastAcked .. c.t.sentNum :
          V[n] = V[c.lastAcked] \/ \E k \in c.counts : k.state <= n /\ V[k.state] = V[n]

\* ackedCount is never left standing, and no count passes the log's end.
Bounded(c) ==
    /\ c.ackedCount = 0 /\ c.lastAcked <= c.t.acked
    /\ \A k \in c.counts : k.count <= Len(c.actions)

\* What an instruction carries: the input from its base on, up to its own
\* number or, when it is a shutdown that need not be whole, up to less.
Leads(V, log, old, new, diff, whole) ==
    \E k \in V[old] .. V[new] :
        /\ new # ShutdownNum \/ whole => k = V[new]
        /\ diff = Part(log, V[old], k)

\* Everything V says of the numbers up to the last one stays true.
Extends(W, V, t) == \A n \in Nat : n <= t.sentNum => W[n] = V[n]

-----------------------------------------------------------------------------
(***************************************************************************)
(* tick() as the client sees it.                                           *)
(***************************************************************************)

\* Later numbers change nothing in what V says.
LEMMA MarksLater ==
    ASSUME NEW Diff, NEW t \in TransportState(Diff), NEW u \in TransportState(Diff),
           t.sentNum <= u.sentNum, NEW V, NEW log, Marks(V, log, t)
    PROVE  Marks(V, log, u) /\ V[u.sentNum] = V[t.sentNum]
<1>1. t.sentNum \in Nat /\ u.sentNum \in Nat
  BY Fields, CapAssumption
<1>2. V[u.sentNum] = V[t.sentNum]
  BY <1>1 DEF Marks
<1>3. \A n \in Nat : u.sentNum <= n => t.sentNum <= n
  BY <1>1
<1>. QED
  BY <1>1, <1>2, <1>3 DEF Marks

\* The queue of u is that of t: some states may have left it, marks of what
\* was sent may have changed, but nothing newer than all of u's is gone.
Carried(t, u) ==
    /\ u.acked = t.acked
    /\ \A s \in u.outbound : \E r \in t.outbound :
          r.old = s.old /\ r.new = s.new /\ r.diff = s.diff
    /\ \A r \in t.outbound : \E s \in u.outbound : r.new <= s.new

\* Flags of the sending half that no tick touches.
SameFlags(t, u) ==
    /\ u.shutdown = t.shutdown /\ u.rebase = t.rebase /\ u.overflowed = t.overflowed
    /\ u.attached = t.attached /\ u.quenched = t.quenched

\* What carries the queue on keeps what V says of it.
LEMMA CarriedKeeps ==
    ASSUME NEW Diff, NEW t \in TransportState(Diff), NEW u \in TransportState(Diff),
           Sound(t), Sound(u), Carried(t, u), t.sentNum <= u.sentNum,
           NEW V, NEW log, Marks(V, log, t), Queued(V, log, t)
    PROVE  Queued(V, log, u) /\ (AtTip(V, t) => AtTip(V, u))
<1>1. Queued(V, log, u)
  BY DEF Queued, Carried
<1>2. V[u.sentNum] = V[t.sentNum] /\ u.sentNum \in Nat
  BY MarksLater, Fields, CapAssumption
<1>3. ASSUME NEW r \in t.outbound, V[r.new] = V[t.sentNum]
      PROVE  \E s \in u.outbound : V[s.new] = V[u.sentNum]
  <2>1. PICK s \in u.outbound : r.new <= s.new
    BY DEF Carried
  <2>2. r.new \in Nat /\ s.new \in Nat /\ s.new <= u.sentNum
    BY DEF TransportState, OutboundState, Sound
  <2>3. V[r.new] <= V[s.new] /\ V[s.new] <= V[u.sentNum]
    BY <1>2, <2>1, <2>2 DEF Marks
  <2>4. V[s.new] \in Nat /\ V[u.sentNum] \in Nat
    BY <1>2, <2>2 DEF Marks
  <2>. QED
    BY <1>2, <1>3, <2>3, <2>4
<1>4. AtTip(V, t) => AtTip(V, u)
  BY <1>2, <1>3 DEF AtTip, Carried
<1>. QED
  BY <1>1, <1>4

\* Dropping superseded states keeps the newest.
LEMMA DropCarries ==
    ASSUME NEW Diff, NEW t \in TransportState(Diff), Sound(t)
    PROVE  LET d == DropSuperseded(t)
           IN  Carried(t, d) /\ SameFlags(t, d) /\ d.sentNum = t.sentNum
<1>. DEFINE left == {s \in t.outbound : s.sent \/ \A r \in t.outbound : ~r.sent => r.new <= s.new}
            d == DropSuperseded(t)
<1>1. d.outbound = left /\ d.acked = t.acked /\ SameFlags(t, d) /\ d.sentNum = t.sentNum
  BY DEF DropSuperseded, TransportState, SameFlags
<1>2. ASSUME NEW r \in t.outbound
      PROVE  \E s \in left : r.new <= s.new
  <2>1. CASE r.sent
    <3>1. r \in left /\ r.new \in Nat
      BY <2>1 DEF TransportState, OutboundState
    <3>. QED
      BY <3>1
  <2>2. CASE ~r.sent
    <3>. DEFINE Q == Unsent(t)
    <3>1. Q # {} /\ Q \subseteq t.outbound /\ r \in Q
      BY <2>2 DEF Unsent
    <3>2. t.sentNum \in Nat /\ \A s \in Q : s.new \in Nat /\ s.new <= t.sentNum
      BY <3>1, CapAssumption DEF TransportState, OutboundState, Sound
    <3>. HIDE DEF Q
    <3>3. Back(Q) \in Q /\ \A q \in Q : q.new <= Back(Q).new
      BY <3>1, <3>2, BackIsLast
    <3>4. Back(Q) \in left
      BY <3>1, <3>3 DEF Q, Unsent
    <3>. QED
      BY <3>1, <3>3, <3>4
  <2>. QED
    BY <2>1, <2>2
<1>3. left \subseteq t.outbound
  OBVIOUS
<1>. HIDE DEF left, d
<1>. QED
  BY <1>1, <1>2, <1>3 DEF Carried, d

\* The tail of tick() leaves the queue alone and sends what it is given.
LEMMA TransmitContent ==
    ASSUME NEW Diff, NEW t \in TransportState(Diff), NEW old, NEW new, NEW diff, NEW outcome
    PROVE  LET r == Transmit(t, old, new, diff, outcome)
           IN  /\ r.t.outbound = t.outbound /\ r.t.acked = t.acked
               /\ SameFlags(t, r.t) /\ r.t.sentNum = t.sentNum
               /\ \A m \in r.out : m.old = old /\ m.new = new /\ m.diff = diff
<1>. DEFINE times == IF outcome = "none" THEN Recorded(t.sentTimes, new) ELSE t.sentTimes
            told == t.peerShutdownAcked \/ t.ackNum = ShutdownNum
            u == [t EXCEPT !.force = FALSE, !.ackPending = FALSE, !.sentAck = t.ackNum,
                           !.peerShutdownAcked = told, !.fault = outcome,
                           !.sentTimes = times]
            r == Transmit(t, old, new, diff, outcome)
<1>1. r.t = u
  BY DEF Transmit
<1>2. \A m \in r.out : m.old = old /\ m.new = new /\ m.diff = diff
  BY DEF Transmit
<1>. HIDE DEF times, told, r
<1>3. u.outbound = t.outbound /\ u.acked = t.acked /\ u.sentNum = t.sentNum
  BY DEF TransportState
<1>4. SameFlags(t, u)
  BY DEF TransportState, SameFlags
<1>. HIDE DEF u
<1>. QED
  BY <1>1, <1>2, <1>3, <1>4 DEF SameFlags, r

\* What a tick that ends as r does to the queue of t, and what it sends.
Ticks(V, log, whole, t, r) ==
    /\ Carried(t, r.t) /\ SameFlags(t, r.t) /\ t.sentNum <= r.t.sentNum
    /\ \A m \in r.out :
          m.new <= r.t.sentNum /\ Leads(V, log, m.old, m.new, m.diff, whole)

\* The empty state stands for what its base, the newest one, stands for.
LEMMA TransmitEmptyTicks ==
    ASSUME NEW Diff, NEW t \in TransportState(Diff), Sound(t), ~t.shutdown,
           t.sentNum + 1 < ShutdownNum, NEW outcome, NEW whole \in BOOLEAN,
           NEW S, NEW log \in Seq(S), NEW V, Marks(V, log, t), AtTip(V, t),
           NoDiff = << >>
    PROVE  Ticks(V, log, whole, t, TransmitEmpty(t, outcome))
<1>. DEFINE tip == IF t.outbound = {} THEN t.acked ELSE Back(t.outbound).new
            new == t.sentNum + 1
            u == [t EXCEPT !.sentNum = new]
            r == TransmitEmpty(t, outcome)
<1>1. new \in Nat /\ new \in 0 .. ShutdownNum /\ t.sentNum # ShutdownNum
      /\ t.sentNum \in Nat /\ t.sentNum <= new
  BY CapAssumption, Fields DEF Sound
<1>2. u \in TransportState(Diff) /\ u.sentNum = new /\ u.outbound = t.outbound
      /\ u.acked = t.acked /\ SameFlags(t, u)
  BY <1>1 DEF TransportState, SameFlags
<1>3. r = Transmit(u, tip, new, NoDiff, outcome)
  BY <1>1 DEF TransmitEmpty
<1>4. tip \in Nat /\ V[tip] = V[t.sentNum]
  <2>1. CASE t.outbound = {}
    BY <2>1, Fields DEF AtTip
  <2>2. CASE t.outbound # {}
    <3>1. tip = Back(t.outbound).new /\ Back(t.outbound) \in t.outbound
          /\ \A s \in t.outbound : s.new <= tip
      BY <2>2, BackOfQueue
    <3>2. \A s \in t.outbound : s.new \in Nat /\ t.acked < s.new /\ s.new <= t.sentNum
      BY DEF TransportState, OutboundState, Sound
    <3>3. tip \in Nat /\ tip <= t.sentNum /\ t.acked <= tip /\ t.acked \in Nat
      BY <3>1, <3>2, Fields
    <3>4. V[t.sentNum] <= V[tip]
      BY <1>1, <3>1, <3>2, <3>3 DEF AtTip, Marks
    <3>5. V[tip] <= V[t.sentNum] /\ V[tip] \in Nat /\ V[t.sentNum] \in Nat
      BY <1>1, <3>3 DEF Marks
    <3>. QED
      BY <3>3, <3>4, <3>5
  <2>. QED
    BY <2>1, <2>2
<1>. HIDE DEF tip, new, u, r
<1>5. V[new] = V[tip] /\ V[tip] \in Nat
  BY <1>1, <1>4 DEF Marks
<1>6. Leads(V, log, tip, new, NoDiff, whole)
  <2>1. V[new] \in V[tip] .. V[new] /\ NoDiff = Part(log, V[tip], V[new])
    BY <1>5, PartEnds
  <2>. QED
    BY <2>1 DEF Leads
<1>7. /\ r.t.outbound = u.outbound /\ r.t.acked = u.acked
      /\ SameFlags(u, r.t) /\ r.t.sentNum = u.sentNum
      /\ \A m \in r.out : m.old = tip /\ m.new = new /\ m.diff = NoDiff
  BY <1>2, <1>3, TransmitContent
<1>8. \A s \in t.outbound : s.new <= s.new
  BY DEF TransportState, OutboundState
<1>. QED
  BY <1>1, <1>2, <1>6, <1>7, <1>8 DEF Ticks, Carried, SameFlags, r

\* The shutdown carries the newest queued state, or nothing at all.
LEMMA TransmitShutdownTicks ==
    ASSUME NEW Diff, NEW t \in TransportState(Diff), Sound(t), t.shutdown,
           t.tries < ShutdownRetries, NEW outcome, NEW whole \in BOOLEAN,
           NEW S, NEW log \in Seq(S), NEW V, Marks(V, log, t), Queued(V, log, t),
           whole => AtTip(V, t), NoDiff = << >>
    PROVE  Ticks(V, log, whole, t, TransmitShutdown(t, outcome))
<1>. DEFINE u == [t EXCEPT !.sentNum = ShutdownNum, !.tries = t.tries + 1]
            last == Back(t.outbound)
            old == IF t.outbound = {} THEN t.acked ELSE last.old
            diff == IF t.outbound = {} THEN NoDiff ELSE last.diff
            top == IF t.outbound = {} THEN t.acked ELSE last.new
            r == TransmitShutdown(t, outcome)
<1>1. t.sentNum \in Nat /\ t.sentNum <= ShutdownNum /\ ShutdownNum \in Nat
      /\ t.acked \in Nat /\ t.acked <= t.sentNum
  BY CapAssumption, Fields DEF Sound
<1>2. u \in TransportState(Diff) /\ u.sentNum = ShutdownNum /\ u.outbound = t.outbound
      /\ u.acked = t.acked /\ SameFlags(t, u)
  <2>1. t.tries + 1 \in 0 .. ShutdownRetries /\ ShutdownNum \in 0 .. ShutdownNum
    BY <1>1, CapAssumption DEF TransportState
  <2>. QED
    BY <2>1 DEF TransportState, SameFlags
<1>3. r = Transmit(u, old, ShutdownNum, diff, outcome)
  BY DEF TransmitShutdown
<1>4. /\ old \in Nat /\ top \in Nat /\ old <= top /\ top <= t.sentNum
      /\ diff = Part(log, V[old], V[top])
      /\ whole => V[top] = V[t.sentNum]
  <2>1. CASE t.outbound = {}
    <3>1. V[t.acked] \in Nat
      BY <1>1 DEF Marks
    <3>2. whole => V[t.acked] = V[t.sentNum]
      BY <2>1 DEF AtTip
    <3>. QED
      BY <1>1, <2>1, <3>1, <3>2, PartEnds
  <2>2. CASE t.outbound # {}
    <3>1. last \in t.outbound /\ \A s \in t.outbound : s.new <= last.new
      BY <2>2, BackOfQueue
    <3>. HIDE DEF last
    <3>2. \A s \in t.outbound : /\ s.new \in Nat /\ s.old \in Nat /\ s.old < s.new
                                /\ t.acked < s.new /\ s.new <= t.sentNum
      BY DEF TransportState, OutboundState, Sound
    <3>3. last.diff = Part(log, V[last.old], V[last.new])
      BY <3>1 DEF Queued
    <3>4. ASSUME whole PROVE V[last.new] = V[t.sentNum]
      <4>1. V[t.sentNum] <= V[last.new]
        BY SMTT(30), <1>1, <3>1, <3>2, <3>4 DEF AtTip, Marks
      <4>2. V[last.new] <= V[t.sentNum] /\ V[last.new] \in Nat /\ V[t.sentNum] \in Nat
        BY <1>1, <3>1, <3>2 DEF Marks
      <4>. QED
        BY <4>1, <4>2
    <3>. QED
      BY <2>2, <3>1, <3>2, <3>3, <3>4
  <2>. QED
    BY <2>1, <2>2
<1>. HIDE DEF old, diff, top, last, u, r
<1>5. V[ShutdownNum] = V[t.sentNum]
  BY <1>1 DEF Marks
<1>6. V[top] \in V[old] .. V[ShutdownNum]
  <2>1. V[old] \in Nat /\ V[top] \in Nat /\ V[ShutdownNum] \in Nat
    BY <1>1, <1>4 DEF Marks
  <2>2. V[old] <= V[top] /\ V[top] <= V[t.sentNum]
    BY <1>1, <1>4 DEF Marks
  <2>. QED
    BY <1>5, <2>1, <2>2
<1>7. Leads(V, log, old, ShutdownNum, diff, whole)
  BY <1>4, <1>5, <1>6 DEF Leads
<1>8. /\ r.t.outbound = u.outbound /\ r.t.acked = u.acked
      /\ SameFlags(u, r.t) /\ r.t.sentNum = u.sentNum
      /\ \A m \in r.out : m.old = old /\ m.new = ShutdownNum /\ m.diff = diff
  BY <1>2, <1>3, TransmitContent
<1>9. \A s \in t.outbound : s.new <= s.new
  BY DEF TransportState, OutboundState
<1>. QED
  BY <1>1, <1>2, <1>7, <1>8, <1>9 DEF Ticks, Carried, SameFlags, r

\* A queued state carries its own part of the input.
LEMMA TransmitQueuedTicks ==
    ASSUME NEW Diff, NEW t \in TransportState(Diff), Sound(t), NEW s \in t.outbound,
           NEW outcome, NEW whole \in BOOLEAN, NEW log, NEW V, Marks(V, log, t),
           Queued(V, log, t)
    PROVE  Ticks(V, log, whole, t, TransmitQueued(t, s, outcome))
<1>. DEFINE s1 == [s EXCEPT !.sent = TRUE]
            queue == (t.outbound \ {s}) \cup {s1}
            early == t.immediate /\ s.sent
            u == [t EXCEPT !.outbound = queue, !.immediate = early]
            r == TransmitQueued(t, s, outcome)
<1>1. s \in OutboundState(Diff)
  BY DEF TransportState
<1>2. s1 \in OutboundState(Diff) /\ s1.old = s.old /\ s1.new = s.new /\ s1.diff = s.diff
  BY <1>1 DEF OutboundState
<1>. HIDE DEF s1
<1>3. queue \in SUBSET OutboundState(Diff)
  BY <1>2 DEF TransportState
<1>4. early \in BOOLEAN
  BY DEF TransportState
<1>5. \A q \in queue : q \in t.outbound \/ q = s1
  OBVIOUS
<1>6. s1 \in queue /\ \A q \in t.outbound : q \in queue \/ q = s
  OBVIOUS
<1>. HIDE DEF queue, early
<1>7. u \in TransportState(Diff) /\ u.outbound = queue /\ u.acked = t.acked
      /\ u.sentNum = t.sentNum
  BY <1>3, <1>4 DEF TransportState
<1>8. SameFlags(t, u)
  BY DEF TransportState, SameFlags
<1>9. r = Transmit(u, s.old, s.new, s.diff, outcome)
  BY DEF TransmitQueued, s1, queue, early
<1>. HIDE DEF u, r
<1>10. /\ r.t.outbound = u.outbound /\ r.t.acked = u.acked
       /\ SameFlags(u, r.t) /\ r.t.sentNum = u.sentNum
       /\ \A m \in r.out : m.old = s.old /\ m.new = s.new /\ m.diff = s.diff
  BY <1>7, <1>9, TransmitContent
<1>11. \A q \in t.outbound : q.new \in Nat
  BY DEF TransportState, OutboundState
<1>12. Carried(t, r.t)
  BY <1>2, <1>5, <1>6, <1>7, <1>10, <1>11 DEF Carried
<1>13. Leads(V, log, s.old, s.new, s.diff, whole)
  <2>1. s.old \in Nat /\ s.new \in Nat /\ s.old <= s.new
    BY <1>1 DEF OutboundState, Sound
  <2>2. V[s.new] \in V[s.old] .. V[s.new]
    BY <2>1 DEF Marks
  <2>. QED
    BY <2>2 DEF Leads, Queued
<1>14. t.sentNum \in Nat /\ s.new <= t.sentNum
  BY Fields, CapAssumption DEF Sound
<1>. QED
  BY <1>7, <1>8, <1>10, <1>12, <1>13, <1>14 DEF Ticks, SameFlags, r

\* One tick.
LEMMA TickTicks ==
    ASSUME NEW Diff, NEW t \in TransportState(Diff), Sound(t),
           NEW now, NEW outcome,
           LET u == TickResult(t, now, outcome).t
           IN  u.sentNum < ShutdownNum \/ u.shutdown,
           NEW whole \in BOOLEAN, NEW S, NEW log \in Seq(S), NEW V,
           Marks(V, log, t), Queued(V, log, t), whole \/ ~t.shutdown => AtTip(V, t),
           NoDiff = << >>
    PROVE  Ticks(V, log, whole, t, TickResult(t, now, outcome))
<1>. DEFINE d == DropSuperseded(t)
            r == TickResult(t, now, outcome)
<1>1. /\ d \in TransportState(Diff) /\ Sound(d)
      /\ Carried(t, d) /\ SameFlags(t, d) /\ d.sentNum = t.sentNum
  BY DropSupersededSound, DropCarries
<1>. HIDE DEF d, r
<1>2. t.sentNum \in Nat /\ t.sentNum <= d.sentNum
  BY <1>1, Fields, CapAssumption
<1>3. /\ Marks(V, log, d) /\ Queued(V, log, d)
      /\ whole \/ ~d.shutdown => AtTip(V, d)
  BY <1>1, <1>2, MarksLater, CarriedKeeps DEF SameFlags
<1>. SUFFICES Ticks(V, log, whole, d, r) \/ r = [t |-> d, out |-> {}]
  <2>1. ASSUME Ticks(V, log, whole, d, r) PROVE Ticks(V, log, whole, t, r)
    <3>1. Carried(t, r.t)
      <4>1. \A q \in t.outbound : q.new \in Nat
        BY DEF TransportState, OutboundState
      <4>2. \A q \in d.outbound : q.new \in Nat
        BY <1>1 DEF TransportState, OutboundState
      <4>3. Carried(t, d) /\ Carried(d, r.t)
        BY <1>1, <2>1 DEF Ticks
      <4>4. \A q \in r.t.outbound : \E p \in d.outbound : q.new = p.new
        BY <4>3 DEF Carried
      <4>5. ASSUME NEW q \in t.outbound
            PROVE  \E p \in r.t.outbound : q.new <= p.new
        <5>1. PICK o \in d.outbound : q.new <= o.new
          BY <4>3 DEF Carried
        <5>2. PICK p \in r.t.outbound : o.new <= p.new
          BY <4>3 DEF Carried
        <5>3. q.new \in Nat /\ o.new \in Nat /\ p.new \in Nat
          BY <4>1, <4>2, <4>4
        <5>. QED
          BY <5>1, <5>2, <5>3
      <4>6. \A p \in r.t.outbound : \E q \in t.outbound :
               q.old = p.old /\ q.new = p.new /\ q.diff = p.diff
        BY <4>3 DEF Carried
      <4>. QED
        BY <4>3, <4>5, <4>6 DEF Carried
    <3>2. SameFlags(t, r.t)
      BY <1>1, <2>1 DEF Ticks, SameFlags
    <3>. QED
      BY <1>1, <2>1, <3>1, <3>2 DEF Ticks
  <2>2. ASSUME r = [t |-> d, out |-> {}] PROVE Ticks(V, log, whole, t, r)
    BY <1>1, <1>2, <2>2 DEF Ticks
  <2>. QED
    BY <2>1, <2>2 DEF r
<1>4. CASE ~SendDue(d, now)
  BY <1>4 DEF TickResult, d, r
<1>5. CASE SendDue(d, now) /\ d.shutdown
  <2>1. r = TransmitShutdown(d, outcome)
    BY <1>5 DEF TickResult, d, r
  <2>2. ~(d.tries >= ShutdownRetries)
    BY <1>5 DEF SendDue, ShutdownDue, ShutdownTimedOut
  <2>3. d.tries < ShutdownRetries
    BY <1>1, <2>2, CapAssumption, Fields
  <2>. QED
    BY <1>1, <1>3, <1>5, <2>1, <2>3, TransmitShutdownTicks
<1>6. CASE SendDue(d, now) /\ ~d.shutdown /\ Candidates(d, now) # {}
  <2>. DEFINE Q == Candidates(d, now)
  <2>1. r = TransmitQueued(d, Back(Q), outcome)
    BY <1>6 DEF TickResult, d, r
  <2>2. Q \subseteq d.outbound
    BY DEF Candidates, Unsent, Overdue
  <2>3. d.sentNum \in Nat /\ \A s \in d.outbound : s.new \in Nat /\ s.new <= d.sentNum
    BY SMTT(30), <1>1, CapAssumption DEF TransportState, OutboundState, Sound
  <2>. HIDE DEF Q
  <2>4. Back(Q) \in Q
    BY <1>6, <2>2, <2>3, BackIsLast DEF Q
  <2>. QED
    BY <1>1, <1>3, <2>1, <2>2, <2>4, TransmitQueuedTicks
<1>7. CASE SendDue(d, now) /\ ~d.shutdown /\ Candidates(d, now) = {}
  <2>1. r = TransmitEmpty(d, outcome)
    BY <1>7 DEF TickResult, d, r
  <2>2. d.sentNum # ShutdownNum
    BY <1>1, <1>7 DEF Sound
  <2>3. r.t.sentNum = d.sentNum + 1 /\ r.t.shutdown = d.shutdown
    <3>. DEFINE tip == IF d.outbound = {} THEN d.acked ELSE Back(d.outbound).new
                u == [d EXCEPT !.sentNum = d.sentNum + 1]
    <3>. HIDE DEF tip
    <3>1. d.sentNum + 1 \in 0 .. ShutdownNum
      BY <1>1, <2>2, CapAssumption, Fields
    <3>2. u \in TransportState(Diff) /\ u.sentNum = d.sentNum + 1 /\ u.shutdown = d.shutdown
      BY <1>1, <3>1 DEF TransportState
    <3>3. r = Transmit(u, tip, d.sentNum + 1, NoDiff, outcome)
      BY <2>1, <2>2 DEF TransmitEmpty, tip
    <3>. HIDE DEF u
    <3>. QED
      BY <3>2, <3>3, TransmitKeeps
  <2>4. d.sentNum + 1 < ShutdownNum
    BY <1>7, <2>3 DEF r
  <2>. QED
    BY <1>1, <1>3, <1>7, <2>1, <2>4, TransmitEmptyTicks
<1>. QED
  BY <1>4, <1>5, <1>6, <1>7

\* A tick of an endpoint whose numbers are used up leaves them used up.
LEMMA TickOutOfNumbers ==
    ASSUME NEW Diff, NEW t \in TransportState(Diff), t.sentNum = ShutdownNum, ~t.shutdown,
           \A s \in t.outbound : s.new <= ShutdownNum,
           NEW now, NEW outcome
    PROVE  LET u == TickResult(t, now, outcome).t
           IN  u.sentNum = ShutdownNum /\ ~u.shutdown
<1>. DEFINE d == DropSuperseded(t)
            r == TickResult(t, now, outcome)
<1>1. /\ d \in TransportState(Diff) /\ d.outbound \subseteq t.outbound
      /\ d.sentNum = ShutdownNum /\ ~d.shutdown
  BY DEF DropSuperseded, TransportState
<1>. HIDE DEF d
<1>2. CASE ~SendDue(d, now)
  BY <1>1, <1>2 DEF TickResult, d
<1>3. CASE SendDue(d, now) /\ Candidates(d, now) # {}
  <2>. DEFINE Q == Candidates(d, now)
              s == Back(Q)
              s1 == [s EXCEPT !.sent = TRUE]
              queue == (d.outbound \ {s}) \cup {s1}
              early == d.immediate /\ s.sent
              u == [d EXCEPT !.outbound = queue, !.immediate = early]
  <2>1. r = TransmitQueued(d, s, outcome)
    BY <1>1, <1>3 DEF TickResult, d
  <2>2. Q \subseteq d.outbound
    BY DEF Candidates, Unsent, Overdue
  <2>3. ShutdownNum \in Nat /\ \A q \in Q : q.new \in Nat /\ q.new <= ShutdownNum
    BY SMTT(30), <1>1, <2>2, CapAssumption DEF TransportState, OutboundState
  <2>. HIDE DEF Q
  <2>4. Back(Q) \in Q
    BY <1>3, <2>2, <2>3, BackIsLast DEF Q
  <2>5. s \in OutboundState(Diff)
    BY <1>1, <2>2, <2>4 DEF TransportState
  <2>. HIDE DEF s
  <2>6. s1 \in OutboundState(Diff) /\ early \in BOOLEAN
    BY <1>1, <2>5 DEF OutboundState, TransportState
  <2>. HIDE DEF s1, early
  <2>7. queue \in SUBSET OutboundState(Diff)
    BY <1>1, <2>6 DEF TransportState
  <2>. HIDE DEF queue
  <2>8. u \in TransportState(Diff) /\ u.sentNum = ShutdownNum /\ ~u.shutdown
    BY <1>1, <2>6, <2>7 DEF TransportState
  <2>9. r = Transmit(u, s.old, s.new, s.diff, outcome)
    BY <2>1 DEF TransmitQueued, s1, queue, early
  <2>. HIDE DEF u, r
  <2>. QED
    BY <2>8, <2>9, TransmitKeeps DEF r
<1>4. CASE SendDue(d, now) /\ Candidates(d, now) = {}
  <2>. DEFINE tip == IF d.outbound = {} THEN d.acked ELSE Back(d.outbound).new
              u == [d EXCEPT !.sentNum = ShutdownNum]
  <2>. HIDE DEF tip
  <2>1. r = TransmitEmpty(d, outcome)
    BY <1>1, <1>4 DEF TickResult, d
  <2>2. ShutdownNum \in 0 .. ShutdownNum
    BY CapAssumption
  <2>3. u \in TransportState(Diff) /\ u.sentNum = ShutdownNum /\ ~u.shutdown
    BY <1>1, <2>2 DEF TransportState
  <2>4. r = Transmit(u, tip, ShutdownNum, NoDiff, outcome)
    BY <1>1, <2>1 DEF TransmitEmpty, tip
  <2>. HIDE DEF u, r
  <2>. QED
    BY <2>3, <2>4, TransmitKeeps DEF r
<1>. QED
  BY <1>2, <1>3, <1>4

-----------------------------------------------------------------------------
(***************************************************************************)
(* The client between its calls.                                           *)
(***************************************************************************)

\* V tells what the client's numbers stand for.  The newest queued state
\* misses input only until the next flush ("dirty"), or until a queue that an
\* overflow broke was rebased; a shutdown started in between would leave it
\* missing ("whole" is that none did).
Faithful(V, log, c, whole) ==
    /\ Sound(c.t) /\ Bounded(c)
    /\ Marks(V, log, c.t) /\ Queued(V, log, c.t)
    /\ ~c.t.shutdown => Logged(V, log, c)
    /\ ~c.t.shutdown /\ ~c.dirty => V[c.t.sentNum] = Len(log)
    /\ ~c.t.rebase /\ (whole \/ ~c.t.shutdown) => AtTip(V, c.t)
    /\ c.t.rebase => ~c.t.overflowed
    /\ whole /\ c.t.shutdown => ~c.t.rebase

\* The fields of a client.
LEMMA ClientFields ==
    ASSUME NEW S, NEW c \in ClientState(S)
    PROVE  /\ c.t \in TransportState(Seq(S)) /\ c.actions \in Seq(S)
           /\ c.ackedCount \in Nat /\ c.lastAcked \in Nat
           /\ c.counts \subseteq [state : Nat, count : Nat]
           /\ {c.dirty, c.known, c.initial, c.dead} \subseteq BOOLEAN
           /\ c.t.sentNum \in Nat /\ c.t.acked \in Nat
<1>1. /\ c.t \in TransportState(Seq(S)) /\ c.actions \in Seq(S)
      /\ c.ackedCount \in Nat /\ c.lastAcked \in Nat
      /\ c.counts \subseteq [state : Nat, count : Nat]
  BY DEF ClientState
<1>2. {c.dirty, c.known, c.initial, c.dead} \subseteq BOOLEAN
  BY DEF ClientState
<1>. QED
  BY <1>1, <1>2, Fields, CapAssumption

\* What the arrival of an acknowledgement does to the sending half: nothing,
\* or the acknowledged state moves up to it and the states it covers leave
\* the queue, with newer ones only when an overflow makes a rebase necessary.
Acknowledges(t, u, ack) ==
    /\ u.sentNum = t.sentNum /\ u.shutdown = t.shutdown
    /\ \/ /\ u.acked = t.acked /\ u.outbound = t.outbound
          /\ u.rebase = t.rebase /\ u.overflowed = t.overflowed
       \/ /\ u.acked = ack /\ t.acked < ack /\ ack <= t.sentNum
          /\ u.outbound \subseteq t.outbound /\ ~u.overflowed
          /\ t.overflowed \/ u.rebase = t.rebase
          /\ ~u.rebase => \A s \in t.outbound : s.new > ack => s \in u.outbound

\* process_received_ack does one of the two.
LEMMA ProcessAckAcknowledges ==
    ASSUME NEW Diff, NEW t \in TransportState(Diff), NEW ack
    PROVE  Acknowledges(t, ProcessAck(t, ack), ack)
<1>. DEFINE known == ack \in Listed(t.sentTimes) /\ ack > t.acked /\ ack <= t.sentNum
            left == {s \in t.outbound : s.new > ack}
            usable == {s \in left : s.old >= ack}
            queue == IF t.overflowed THEN usable ELSE left
            cut == IF t.overflowed THEN usable # left ELSE t.rebase
            quick == t.immediate \/ left = {}
            times == Drained(t.sentTimes, ack)
            heard == [t EXCEPT !.sentTimes = times]
            moved == [t EXCEPT !.sentTimes = times, !.acked = ack, !.localThrow = ack,
                               !.immediate = quick, !.outbound = queue,
                               !.rebase = cut, !.overflowed = FALSE]
            a == ProcessAck(t, ack)
<1>1. CASE ~known
  <2>1. a = heard
    BY <1>1 DEF ProcessAck
  <2>. HIDE DEF times, a
  <2>2. /\ heard.sentNum = t.sentNum /\ heard.shutdown = t.shutdown
        /\ heard.acked = t.acked /\ heard.outbound = t.outbound
        /\ heard.rebase = t.rebase /\ heard.overflowed = t.overflowed
    BY DEF TransportState
  <2>. QED
    BY <2>1, <2>2 DEF Acknowledges, a
<1>2. CASE known
  <2>1. a = moved
    BY <1>2 DEF ProcessAck
  <2>2. t.acked < ack /\ ack <= t.sentNum
    BY <1>2
  <2>3. queue \subseteq t.outbound
    OBVIOUS
  <2>4. ~cut => \A s \in t.outbound : s.new > ack => s \in queue
    OBVIOUS
  <2>5. t.overflowed \/ cut = t.rebase
    OBVIOUS
  <2>. HIDE DEF times, queue, cut, quick, a
  <2>6. /\ moved.sentNum = t.sentNum /\ moved.shutdown = t.shutdown
        /\ moved.acked = ack /\ moved.outbound = queue
        /\ moved.rebase = cut /\ moved.overflowed = FALSE
    BY DEF TransportState
  <2>. HIDE DEF moved
  <2>. QED
    BY <2>1, <2>2, <2>3, <2>4, <2>5, <2>6 DEF Acknowledges, a
<1>. QED
  BY <1>1, <1>2

\* A complete instruction does that and no more to the sending half, and the
\* first one there is makes an endpoint attached.
LEMMA RecvAcknowledges ==
    ASSUME NEW Diff, NEW t \in TransportState(Diff), Sound(t),
           NEW m \in Instruction(Diff), m.throw <= t.ackNum, NEW quiet
    PROVE  LET u == RecvResult(t, m, quiet).t
           IN  /\ Acknowledges(t, u, m.ack)
               /\ t.attached => u.attached
               /\ t.received = {0} /\ ~t.quenched /\ m.old = 0 /\ m.new # 0
                  => u.attached
<1>. DEFINE a == ProcessAck(t, m.ack)
            p == Prune(a, m.throw)
            u == RecvResult(t, m, quiet).t
            Same(x, y) == /\ x.sentNum = y.sentNum /\ x.shutdown = y.shutdown
                          /\ x.acked = y.acked /\ x.outbound = y.outbound
                          /\ x.rebase = y.rebase /\ x.overflowed = y.overflowed
<1>1. m.ack \in Nat /\ m.throw \in Nat
  BY DEF Instruction
<1>2. /\ a \in TransportState(Diff) /\ Sound(a) /\ Acknowledges(t, a, m.ack)
      /\ a.received = t.received /\ a.throw = t.throw /\ a.ackNum = t.ackNum
  BY <1>1, ProcessAckSound, ProcessAckAcknowledges
<1>3. a.attached = t.attached /\ a.quenched = t.quenched
  BY DEF ProcessAck, TransportState
<1>. HIDE DEF a
<1>4. p \in TransportState(Diff)
  BY <1>1, <1>2, PruneSound
<1>5. Same(p, a)
  BY <1>2 DEF Prune, TransportState
<1>6. p.attached = a.attached /\ p.quenched = a.quenched
  BY <1>2 DEF Prune, TransportState
<1>. HIDE DEF p
<1>7. Same(Accept(p, m), p) /\ Accept(p, m).attached
  BY <1>4 DEF Accept, TransportState
<1>8. u \in {a, p, Accept(p, m)}
  BY DEF RecvResult, a, p
<1>9. ASSUME ~Same(u, a)
      PROVE  FALSE
  BY <1>5, <1>7, <1>8, <1>9
<1>10. Acknowledges(t, u, m.ack)
  BY <1>2, <1>9 DEF Acknowledges
<1>11. t.attached => u.attached
  BY <1>3, <1>6, <1>7, <1>8
<1>12. ASSUME t.received = {0}, ~t.quenched, m.old = 0, m.new # 0
       PROVE  u.attached
  <2>1. Acceptable(a, m)
    BY <1>2, <1>12 DEF Acceptable
  <2>2. ~Quenched(p, quiet)
    BY <1>3, <1>6, <1>12 DEF Quenched
  <2>3. u = Accept(p, m)
    BY <2>1, <2>2 DEF RecvResult, a, p
  <2>. QED
    BY <1>7, <2>3
<1>. QED
  BY <1>10, <1>11, <1>12

\* c after an instruction arrived.
Received(c, m, quiet, dead) ==
    [c EXCEPT !.t = RecvResult(c.t, m, quiet).t, !.dead = dead]

\* An instruction from the peer keeps the client faithful; the shutdown of a
\* client that "whole" is about finds no overflow.
LEMMA RecvFaithful ==
    ASSUME NEW S, NEW c \in ClientState(S), NEW log, NEW V, NEW whole \in BOOLEAN,
           Faithful(V, log, c, whole), whole /\ c.t.shutdown => ~c.t.overflowed,
           NEW m \in Instruction(Seq(S)), m.throw <= c.t.ackNum,
           m.throw <= m.old, m.old < m.new, NEW quiet \in BOOLEAN, NEW dead \in BOOLEAN
    PROVE  LET d == Received(c, m, quiet, dead)
           IN  d \in ClientState(S) /\ Faithful(V, log, d, whole)
<1>. DEFINE u == RecvResult(c.t, m, quiet).t
            d == [c EXCEPT !.t = u, !.dead = dead]
<1>1. c.t \in TransportState(Seq(S)) /\ Sound(c.t)
  BY ClientFields DEF Faithful
<1>2. u \in TransportState(Seq(S)) /\ Sound(u) /\ c.t.acked <= u.acked
  BY <1>1, RecvSound DEF Receives
<1>3. Acknowledges(c.t, u, m.ack)
  BY <1>1, RecvAcknowledges
<1>. HIDE DEF u
<1>4. d \in ClientState(S)
  BY <1>2 DEF ClientState
<1>5. /\ d.t = u /\ d.actions = c.actions /\ d.ackedCount = c.ackedCount
      /\ d.lastAcked = c.lastAcked /\ d.counts = c.counts /\ d.dirty = c.dirty
  BY DEF ClientState
<1>. HIDE DEF d
<1>6. /\ c.lastAcked \in Nat /\ c.t.acked \in Nat /\ c.t.sentNum \in Nat
      /\ u.acked \in Nat /\ u.sentNum = c.t.sentNum /\ u.shutdown = c.t.shutdown
  BY <1>2, <1>3, ClientFields, Fields DEF Acknowledges
<1>7. Bounded(d)
  BY <1>2, <1>5, <1>6 DEF Bounded, Faithful
<1>8. Marks(V, log, u) /\ (~u.shutdown => Logged(V, log, d))
      /\ (~u.shutdown /\ ~d.dirty => V[u.sentNum] = Len(log))
  BY SMTT(30), <1>5, <1>6 DEF Marks, Logged, Faithful
<1>9. Queued(V, log, u)
  BY <1>3 DEF Queued, Acknowledges, Faithful
<1>10. ASSUME ~u.rebase, whole \/ ~u.shutdown
       PROVE  AtTip(V, u)
  <2>1. ~c.t.rebase /\ AtTip(V, c.t)
    BY <1>3, <1>6, <1>10 DEF Acknowledges, Faithful
  <2>2. CASE u.acked = c.t.acked /\ u.outbound = c.t.outbound
    BY <1>6, <2>1, <2>2 DEF AtTip
  <2>3. CASE /\ u.acked = m.ack /\ c.t.acked < m.ack /\ m.ack <= c.t.sentNum
             /\ \A s \in c.t.outbound : s.new > m.ack => s \in u.outbound
    <3>1. \A n \in Nat : n <= m.ack /\ V[n] = V[c.t.sentNum] => V[m.ack] = V[c.t.sentNum]
      <4>. SUFFICES ASSUME NEW n \in Nat, n <= m.ack, V[n] = V[c.t.sentNum]
                    PROVE  V[m.ack] = V[c.t.sentNum]
        OBVIOUS
      <4>1. m.ack \in Nat
        BY <1>6, <2>3
      <4>2. V[n] <= V[m.ack] /\ V[m.ack] <= V[c.t.sentNum]
        BY <1>6, <2>3, <4>1 DEF Marks, Faithful
      <4>3. V[m.ack] \in Nat /\ V[c.t.sentNum] \in Nat
        BY <1>6, <4>1 DEF Marks, Faithful
      <4>. QED
        BY <4>2, <4>3
    <3>2. CASE V[c.t.acked] = V[c.t.sentNum]
      BY <1>6, <2>3, <3>1, <3>2 DEF AtTip
    <3>3. ASSUME NEW s \in c.t.outbound, V[s.new] = V[c.t.sentNum]
          PROVE  AtTip(V, u)
      <4>1. s.new \in Nat /\ m.ack \in Nat
        BY <1>1, <1>6, <2>3 DEF TransportState, OutboundState
      <4>2. CASE s.new > m.ack
        BY <1>6, <2>3, <3>3, <4>2 DEF AtTip
      <4>3. CASE s.new <= m.ack
        BY <1>6, <2>3, <3>1, <3>3, <4>1, <4>3 DEF AtTip
      <4>. QED
        BY <4>1, <4>2, <4>3
    <3>. QED
      BY <2>1, <3>2, <3>3 DEF AtTip
  <2>. QED
    BY <1>3, <1>10, <2>2, <2>3 DEF Acknowledges
<1>11. u.rebase => ~u.overflowed
  BY <1>3 DEF Acknowledges, Faithful
<1>12. whole /\ u.shutdown => ~u.rebase
  BY <1>3 DEF Acknowledges, Faithful
<1>13. Faithful(V, log, d, whole)
  BY <1>2, <1>5, <1>7, <1>8, <1>9, <1>10, <1>11, <1>12 DEF Faithful
<1>. QED
  BY <1>4, <1>13 DEF d, u, Received

\* A new action only lengthens the log.
LEMMA SendActionFaithful ==
    ASSUME NEW S, NEW c \in ClientState(S), ~c.dead, NEW a \in S, NEW log \in Seq(S),
           NEW V, NEW whole \in BOOLEAN, Faithful(V, log, c, whole)
    PROVE  LET d == SendAction(c, a)
           IN  d \in ClientState(S) /\ Faithful(V, Append(log, a), d, whole)
<1>. DEFINE more == Append(log, a)
            actions == Append(c.actions, a)
            d == [c EXCEPT !.actions = actions, !.dirty = TRUE]
<1>1. SendAction(c, a) = d
  BY DEF SendAction
<1>2. actions \in Seq(S) /\ Len(actions) = Len(c.actions) + 1 /\ Len(c.actions) \in Nat
  BY ClientFields, AppendProperties, LenProperties
<1>3. Len(more) = Len(log) + 1 /\ Len(log) \in Nat
  BY AppendProperties, LenProperties
<1>4. \A from, to \in Nat : to <= Len(log) => Part(more, from, to) = Part(log, from, to)
  BY PartsStay
<1>. HIDE DEF more
<1>5. d \in ClientState(S)
  BY <1>2 DEF ClientState
<1>6. /\ d.t = c.t /\ d.actions = actions /\ d.ackedCount = c.ackedCount
      /\ d.lastAcked = c.lastAcked /\ d.counts = c.counts /\ d.dirty = TRUE
  BY DEF ClientState
<1>. HIDE DEF d
<1>7. c.t \in TransportState(Seq(S)) /\ Sound(c.t) /\ c.lastAcked \in Nat
      /\ c.t.sentNum \in Nat /\ c.t.acked \in Nat
  BY ClientFields DEF Faithful
<1>8. Marks(V, more, c.t)
  <2>1. V[c.t.sentNum] \in Nat /\ V[c.t.sentNum] <= Len(log)
    BY <1>7 DEF Faithful, Marks
  <2>2. V[c.t.sentNum] <= Len(more)
    BY <1>3, <2>1
  <2>. QED
    BY <2>2 DEF Faithful, Marks
<1>9. \A n \in Nat : n <= c.t.sentNum => V[n] \in Nat /\ V[n] <= Len(log)
  <2>. SUFFICES ASSUME NEW n \in Nat, n <= c.t.sentNum
                PROVE  V[n] \in Nat /\ V[n] <= Len(log)
    OBVIOUS
  <2>1. V[n] <= V[c.t.sentNum] /\ V[c.t.sentNum] <= Len(log)
    BY <1>7 DEF Faithful, Marks
  <2>2. V[n] \in Nat /\ V[c.t.sentNum] \in Nat
    BY <1>7 DEF Faithful, Marks
  <2>. QED
    BY <1>3, <2>1, <2>2
<1>10. Queued(V, more, c.t)
  <2>. SUFFICES ASSUME NEW s \in c.t.outbound
                PROVE  s.new # ShutdownNum /\ s.diff = Part(more, V[s.old], V[s.new])
    BY DEF Queued
  <2>1. s.old \in Nat /\ s.new \in Nat /\ s.old <= c.t.sentNum /\ s.new <= c.t.sentNum
    BY <1>7 DEF TransportState, OutboundState, Sound
  <2>. QED
    BY <1>4, <1>9, <2>1 DEF Faithful, Queued
<1>11. Bounded(d)
  <2>1. \A k \in c.counts : k.count \in Nat /\ k.count <= Len(c.actions)
    BY ClientFields DEF Faithful, Bounded
  <2>. QED
    BY <1>2, <1>6, <2>1 DEF Faithful, Bounded
<1>12. ~c.t.shutdown => Logged(V, more, d)
  <2>. SUFFICES ASSUME ~c.t.shutdown PROVE Logged(V, more, d)
    OBVIOUS
  <2>1. c.lastAcked <= c.t.sentNum
    BY <1>7 DEF Faithful, Bounded, Sound
  <2>2. V[c.lastAcked] \in Nat /\ V[c.lastAcked] <= Len(log)
    BY <1>7, <1>9, <2>1
  <2>3. actions = Part(more, V[c.lastAcked], Len(more))
    BY <1>3, <2>2, PartOfLonger DEF Faithful, Logged, more
  <2>. QED
    BY <1>6, <2>3 DEF Faithful, Logged
<1>13. Faithful(V, more, d, whole)
  BY <1>6, <1>8, <1>10, <1>11, <1>12 DEF Faithful
<1>. QED
  BY <1>1, <1>5, <1>13 DEF more

-----------------------------------------------------------------------------
(***************************************************************************)
(* The client on its way through flush_ticks().                            *)
(***************************************************************************)

\* Before the new state is queued: a rebase is no longer awaited, and a
\* client with nothing new to queue misses nothing.
Ready(V, log, c, whole) ==
    /\ Sound(c.t) /\ Bounded(c)
    /\ Marks(V, log, c.t) /\ Queued(V, log, c.t)
    /\ ~c.t.rebase
    /\ ~c.t.shutdown => Logged(V, log, c)
    /\ ~c.t.shutdown /\ ~c.dirty => V[c.t.sentNum] = Len(log) /\ AtTip(V, c.t)
    /\ whole /\ c.t.shutdown => AtTip(V, c.t)

\* What no step before tick() touches.
SameClient(c, d) ==
    /\ d.initial = c.initial /\ d.dead = c.dead
    /\ d.t.shutdown = c.t.shutdown /\ d.t.acked = c.t.acked
    /\ d.t.ackNum = c.t.ackNum /\ d.t.received = c.t.received
    /\ d.t.attached = c.t.attached /\ d.t.quenched = c.t.quenched

\* What V says of the numbers of a client.
LEMMA MarksRange ==
    ASSUME NEW S, NEW c \in ClientState(S), NEW log \in Seq(S), NEW V,
           Marks(V, log, c.t)
    PROVE  /\ \A n \in Nat : V[n] \in Nat /\ V[n] <= Len(log) /\ V[n] <= V[c.t.sentNum]
           /\ Len(log) \in Nat
<1>1. c.t.sentNum \in Nat /\ Len(log) \in Nat
  BY ClientFields, LenProperties
<1>2. ASSUME NEW n \in Nat
      PROVE  V[n] \in Nat /\ V[n] <= Len(log) /\ V[n] <= V[c.t.sentNum]
  <2>1. V[n] \in Nat /\ V[c.t.sentNum] \in Nat
    BY <1>1 DEF Marks
  <2>2. V[n] <= V[c.t.sentNum]
    <3>1. CASE n <= c.t.sentNum
      BY <1>1, <3>1 DEF Marks
    <3>2. CASE c.t.sentNum <= n
      <4>1. V[n] = V[c.t.sentNum]
        BY <3>2 DEF Marks
      <4>. QED
        BY <2>1, <4>1
    <3>. QED
      BY <1>1, <3>1, <3>2
  <2>3. V[c.t.sentNum] <= Len(log)
    BY DEF Marks
  <2>. QED
    BY <1>1, <2>1, <2>2, <2>3
<1>. QED
  BY <1>1, <1>2

\* A client whose log is empty misses nothing.
LEMMA EmptyLog ==
    ASSUME NEW S, NEW c \in ClientState(S), NEW log \in Seq(S), NEW V,
           Sound(c.t), Bounded(c), Marks(V, log, c.t), Logged(V, log, c),
           c.actions = << >>
    PROVE  V[c.t.sentNum] = Len(log) /\ AtTip(V, c.t)
<1>1. /\ c.lastAcked \in Nat /\ c.t.acked \in Nat /\ c.t.sentNum \in Nat
      /\ c.lastAcked <= c.t.acked /\ c.t.acked <= c.t.sentNum
  BY ClientFields DEF Bounded, Sound
<1>2. /\ V[c.lastAcked] \in Nat /\ V[c.lastAcked] <= Len(log) /\ Len(log) \in Nat
      /\ V[c.t.acked] \in Nat /\ V[c.t.sentNum] \in Nat /\ V[c.t.sentNum] <= Len(log)
  BY <1>1, MarksRange
<1>3. V[c.lastAcked] <= V[c.t.acked] /\ V[c.t.acked] <= V[c.t.sentNum]
  BY <1>1 DEF Marks
<1>4. Len(c.actions) = Len(log) - V[c.lastAcked]
  <2>. DEFINE from == V[c.lastAcked]
  <2>1. from \in Nat /\ from <= Len(log) /\ c.actions = Part(log, from, Len(log))
    BY <1>2 DEF Logged
  <2>. HIDE DEF from
  <2>2. Len(c.actions) = Len(log) - from
    BY <2>1, RestProperties
  <2>. QED
    BY <2>2 DEF from
<1>5. Len(c.actions) = 0
  BY EmptySeq
<1>6. V[c.lastAcked] = Len(log)
  BY <1>2, <1>4, <1>5
<1>. QED
  BY <1>2, <1>3, <1>6 DEF AtTip

\* A broken chain of bases makes the client cut its next state anew, if it
\* has anything to cut.
LEMMA ForceKnownBaseReady ==
    ASSUME NEW S, NEW c \in ClientState(S), NEW log \in Seq(S), NEW V,
           NEW whole \in BOOLEAN, Faithful(V, log, c, whole), NEW fresh
    PROVE  LET d == ForceKnownBase(c, fresh)
           IN  /\ d \in ClientState(S) /\ Ready(V, log, d, whole) /\ SameClient(c, d)
               /\ d.t.sentNum = c.t.sentNum /\ d.lastAcked = c.lastAcked
<1>. DEFINE broken == c.t.rebase \/ ProspectiveChainExpired(c.t, fresh)
            u == TakeRebase(c.t)
            known == c.known \/ broken
            dirty == c.dirty \/ (broken /\ c.actions # << >>)
            d == [c EXCEPT !.t = u, !.known = known, !.dirty = dirty]
<1>1. ForceKnownBase(c, fresh) = d
  BY DEF ForceKnownBase
<1>2. c.t \in TransportState(Seq(S)) /\ c.t.sentNum \in Nat /\ c.t.acked \in Nat
  BY ClientFields
<1>3. u \in TransportState(Seq(S)) /\ Sound(u)
  BY <1>2, FlagsSound DEF Faithful
<1>4. /\ u.sentNum = c.t.sentNum /\ u.acked = c.t.acked /\ u.outbound = c.t.outbound
      /\ u.shutdown = c.t.shutdown /\ u.rebase = FALSE /\ u.ackNum = c.t.ackNum
      /\ u.received = c.t.received /\ u.attached = c.t.attached
      /\ u.quenched = c.t.quenched
  BY <1>2 DEF TakeRebase, TransportState
<1>5. known \in BOOLEAN /\ dirty \in BOOLEAN
  BY ClientFields
<1>6. ~dirty => ~c.dirty /\ (broken => c.actions = << >>)
  OBVIOUS
<1>7. c.t.rebase => broken
  OBVIOUS
<1>. HIDE DEF u, known, dirty, broken
<1>8. d \in ClientState(S)
  BY <1>3, <1>5 DEF ClientState
<1>9. /\ d.t = u /\ d.actions = c.actions /\ d.ackedCount = c.ackedCount
      /\ d.lastAcked = c.lastAcked /\ d.counts = c.counts /\ d.dirty = dirty
      /\ d.initial = c.initial /\ d.dead = c.dead
  BY DEF ClientState
<1>. HIDE DEF d
<1>10. Marks(V, log, u) /\ Queued(V, log, u) /\ Bounded(d)
       /\ (~u.shutdown => Logged(V, log, d))
  BY SMTT(30), <1>4, <1>9 DEF Faithful, Marks, Queued, Bounded, Logged
<1>11. AtTip(V, c.t) => AtTip(V, u)
  BY <1>4 DEF AtTip
<1>12. ~c.t.shutdown /\ ~dirty => V[u.sentNum] = Len(log) /\ AtTip(V, u)
  <2>. SUFFICES ASSUME ~c.t.shutdown, ~dirty
                PROVE  V[u.sentNum] = Len(log) /\ AtTip(V, u)
    OBVIOUS
  <2>1. V[u.sentNum] = Len(log)
    BY <1>4, <1>6 DEF Faithful
  <2>2. CASE ~c.t.rebase
    BY <1>11, <2>1, <2>2 DEF Faithful
  <2>3. CASE c.t.rebase
    <3>1. c.actions = << >>
      BY <1>6, <1>7, <2>3
    <3>2. AtTip(V, c.t)
      BY <3>1, EmptyLog DEF Faithful
    <3>. QED
      BY <1>11, <2>1, <3>2
  <2>. QED
    BY <2>2, <2>3
<1>13. whole /\ c.t.shutdown => AtTip(V, u)
  BY <1>11 DEF Faithful
<1>14. Ready(V, log, d, whole)
  BY <1>3, <1>4, <1>9, <1>10, <1>12, <1>13 DEF Ready
<1>15. SameClient(c, d)
  BY <1>4, <1>9 DEF SameClient
<1>. QED
  BY <1>1, <1>4, <1>8, <1>9, <1>14, <1>15

\* A bounded set of naturals that is not empty has a greatest member.
LEMMA MaxIsGreatest ==
    ASSUME NEW N \in SUBSET Nat, N # {}, NEW bound \in Nat, \A n \in N : n <= bound
    PROVE  Max(N) \in N /\ \A n \in N : n <= Max(N)
<1>. DEFINE Gaps == {bound - n : n \in N}
<1>1. Gaps \in SUBSET Nat /\ Gaps # {}
  OBVIOUS
<1>. HIDE DEF Gaps
<1>2. PICK g \in Gaps : \A h \in Gaps : g <= h
  BY <1>1, LeastExists
<1>3. PICK x \in N : g = bound - x
  BY <1>2 DEF Gaps
<1>4. \A n \in N : x >= n
  <2>. SUFFICES ASSUME NEW n \in N PROVE n <= x
    OBVIOUS
  <2>1. g <= bound - n
    BY <1>2 DEF Gaps
  <2>. QED
    BY <2>1, <1>3
<1>5. Max(N) \in N /\ \A n \in N : Max(N) >= n
  BY <1>3, <1>4 DEF Max
<1>. QED
  BY <1>5

\* The counts that stay, once the first upTo actions left the log.
Shortened(counts, upTo) ==
    {[k EXCEPT !.count = IF @ > upTo THEN @ - upTo ELSE 0] : k \in counts}

\* ReleaseAcked as a record of its parts: the log loses exactly the actions
\* the acknowledged state is known to cover.
LEMMA ReleaseAckedShape ==
    ASSUME NEW S, NEW c \in ClientState(S), Bounded(c)
    PROVE  LET d == ReleaseAcked(c)
               later == {k \in c.counts : k.state > c.t.acked}
           IN  \/ d = c /\ c.lastAcked = c.t.acked
               \/ \E n \in 0 .. Len(c.actions) :
                     /\ \A k \in c.counts : k.state <= c.t.acked => k.count <= n
                     /\ n = 0 \/ \E k \in c.counts : k.state <= c.t.acked /\ k.count = n
                     /\ d.t = c.t /\ d.dirty = c.dirty
                     /\ d.lastAcked = c.t.acked /\ d.ackedCount = 0
                     /\ d.actions = From(c.actions, n)
                     /\ d.counts = Shortened(later, n)
                     /\ d.initial = c.initial /\ d.dead = c.dead
                     /\ d \in ClientState(S)
<1>. DEFINE acked == c.t.acked
            tops == {c.ackedCount} \cup {k.count : k \in Covered(c)}
            upTo == Max(tops)
            later == {k \in c.counts : k.state > acked}
            fewer == Shortened(later, upTo)
            rest == From(c.actions, upTo)
            d1 == [c EXCEPT !.lastAcked = acked, !.counts = later, !.ackedCount = upTo]
            d2 == [c EXCEPT !.lastAcked = acked, !.counts = fewer,
                            !.actions = rest, !.ackedCount = 0]
<1>1. /\ c.ackedCount = 0 /\ c.lastAcked \in Nat /\ acked \in Nat /\ c.lastAcked <= acked
      /\ Len(c.actions) \in Nat /\ c.actions \in Seq(S)
      /\ \A k \in c.counts : /\ k \in [state : Nat, count : Nat] /\ k.state \in Nat
                             /\ k.count \in Nat /\ k.count <= Len(c.actions)
  BY ClientFields, LenProperties DEF Bounded
<1>2. CASE acked <= c.lastAcked
  BY <1>1, <1>2 DEF ReleaseAcked
<1>3. CASE ~(acked <= c.lastAcked)
  <2>1. tops \in SUBSET Nat /\ tops # {} /\ \A n \in tops : n <= Len(c.actions)
    BY <1>1 DEF Covered
  <2>2. upTo \in tops /\ \A n \in tops : n <= upTo
    BY <1>1, <2>1, MaxIsGreatest
  <2>3. /\ upTo \in 0 .. Len(c.actions)
        /\ \A k \in c.counts : k.state <= acked => k.count <= upTo
        /\ upTo = 0 \/ \E k \in c.counts : k.state <= acked /\ k.count = upTo
    <3>1. \A n \in tops : n = 0 \/ \E k \in c.counts : k.state <= acked /\ k.count = n
      BY <1>1 DEF Covered
    <3>2. \A k \in c.counts : k.state <= acked => k.count \in tops
      BY DEF Covered
    <3>. HIDE DEF upTo, tops
    <3>3. upTo \in 0 .. Len(c.actions)
      BY <1>1, <2>1, <2>2
    <3>. QED
      BY <2>2, <3>1, <3>2, <3>3
  <2>4. ReleaseAcked(c) = IF upTo = 0 \/ upTo > Len(c.actions) THEN d1 ELSE d2
    BY <1>3 DEF ReleaseAcked, Shortened
  <2>5. \A k \in later : k \in c.counts
    OBVIOUS
  <2>6. later \in SUBSET [state : Nat, count : Nat]
    BY <1>1
  <2>. HIDE DEF upTo, later
  <2>7. fewer \in SUBSET [state : Nat, count : Nat]
    <3>. SUFFICES ASSUME NEW k \in later
                  PROVE  [k EXCEPT !.count = IF @ > upTo THEN @ - upTo ELSE 0]
                           \in [state : Nat, count : Nat]
      BY DEF Shortened
    <3>1. (IF k.count > upTo THEN k.count - upTo ELSE 0) \in Nat
      BY <1>1, <2>3, <2>5
    <3>. QED
      BY <1>1, <2>5, <3>1
  <2>8. rest \in Seq(S)
    <3>1. upTo \in Nat /\ upTo <= Len(c.actions)
      BY <1>1, <2>3
    <3>2. rest = Part(c.actions, upTo, Len(c.actions))
      BY <1>1, <3>1, PartEnds
    <3>. QED
      BY <1>1, <3>1, <3>2, RestProperties
  <2>. HIDE DEF rest
  <2>9. CASE upTo = 0
    <3>1. d1.actions = From(c.actions, upTo) /\ d1.actions = c.actions
      BY <1>1, <2>9, PartEnds DEF ClientState
    <3>2. fewer = later
      <4>1. \A k \in later : [k EXCEPT !.count = IF @ > upTo THEN @ - upTo ELSE 0] = k
        <5>. SUFFICES ASSUME NEW k \in later
                      PROVE  [k EXCEPT !.count = IF @ > upTo THEN @ - upTo ELSE 0] = k
          OBVIOUS
        <5>1. (IF k.count > upTo THEN k.count - upTo ELSE 0) = k.count
          BY <1>1, <2>5, <2>9
        <5>2. k \in [state : Nat, count : Nat]
          BY <1>1, <2>5
        <5>. QED
          BY <5>1, <5>2
      <4>. QED
        BY <4>1 DEF Shortened
    <3>3. d1 \in ClientState(S)
      BY <1>1, <2>6, <2>9 DEF ClientState
    <3>4. /\ d1.t = c.t /\ d1.dirty = c.dirty /\ d1.lastAcked = acked
          /\ d1.ackedCount = 0 /\ d1.counts = later
          /\ d1.initial = c.initial /\ d1.dead = c.dead
      BY <2>9 DEF ClientState
    <3>5. ReleaseAcked(c) = d1
      BY <2>4, <2>9
    <3>. HIDE DEF d1, fewer
    <3>6. fewer = Shortened(later, upTo)
      BY DEF fewer
    <3>. QED
      BY <2>3, <3>1, <3>2, <3>3, <3>4, <3>5, <3>6 DEF later
  <2>10. CASE upTo # 0
    <3>1. ReleaseAcked(c) = d2
      BY <1>1, <2>3, <2>4, <2>10
    <3>. HIDE DEF fewer
    <3>2. d2 \in ClientState(S)
      BY <1>1, <2>7, <2>8 DEF ClientState
    <3>3. /\ d2.t = c.t /\ d2.dirty = c.dirty /\ d2.lastAcked = acked
          /\ d2.ackedCount = 0 /\ d2.counts = fewer /\ d2.actions = rest
          /\ d2.initial = c.initial /\ d2.dead = c.dead
      BY DEF ClientState
    <3>. HIDE DEF d2
    <3>4. fewer = Shortened(later, upTo) /\ rest = From(c.actions, upTo)
      BY DEF fewer, rest
    <3>. QED
      BY <2>3, <3>1, <3>2, <3>3, <3>4 DEF later
  <2>. QED
    BY <2>9, <2>10
<1>. QED
  BY <1>2, <1>3

\* The actions that leave the log are those V says the acknowledged state
\* holds beyond the one before.
LEMMA CoveredCount ==
    ASSUME NEW S, NEW c \in ClientState(S), NEW log \in Seq(S), NEW V,
           Sound(c.t), Bounded(c), Marks(V, log, c.t), Logged(V, log, c), NEW n \in Nat,
           \A k \in c.counts : k.state <= c.t.acked => k.count <= n,
           n = 0 \/ \E k \in c.counts : k.state <= c.t.acked /\ k.count = n
    PROVE  V[c.t.acked] = V[c.lastAcked] + n
<1>. DEFINE acked == c.t.acked
<1>1. /\ c.lastAcked \in Nat /\ acked \in Nat /\ c.t.sentNum \in Nat
      /\ c.lastAcked <= acked /\ acked <= c.t.sentNum
      /\ c.counts \subseteq [state : Nat, count : Nat]
  BY ClientFields DEF Bounded, Sound
<1>2. V[acked] \in Nat /\ V[c.lastAcked] \in Nat /\ V[c.lastAcked] <= V[acked]
  BY <1>1 DEF Marks
<1>3. \A k \in c.counts : /\ k.state \in Nat /\ k.count \in Nat
                          /\ V[k.state] = V[c.lastAcked] + k.count
                          /\ k.state <= acked => V[k.state] <= V[acked]
  BY <1>1 DEF Marks, Logged
<1>4. V[c.lastAcked] + n <= V[acked]
  BY <1>2, <1>3
<1>5. V[acked] <= V[c.lastAcked] + n
  <2>1. V[acked] = V[c.lastAcked] \/ \E k \in c.counts : k.state <= acked /\ V[k.state] = V[acked]
    <3>1. acked \in c.lastAcked .. c.t.sentNum
      BY <1>1
    <3>. QED
      BY <3>1 DEF Logged
  <2>. QED
    BY <1>2, <1>3, <2>1
<1>. QED
  BY <1>2, <1>4, <1>5

\* Actions leave the log when the state that holds them is acknowledged.
LEMMA ReleaseAckedReady ==
    ASSUME NEW S, NEW c \in ClientState(S), NEW log \in Seq(S), NEW V,
           NEW whole \in BOOLEAN, Ready(V, log, c, whole)
    PROVE  LET d == ReleaseAcked(c)
           IN  /\ d \in ClientState(S) /\ Ready(V, log, d, whole) /\ SameClient(c, d)
               /\ d.t = c.t /\ d.lastAcked = c.t.acked
<1>. DEFINE d == ReleaseAcked(c)
            acked == c.t.acked
            later == {k \in c.counts : k.state > acked}
<1>1. CASE d = c /\ c.lastAcked = acked
  BY <1>1 DEF SameClient
<1>2. ASSUME NEW n \in 0 .. Len(c.actions),
             \A k \in c.counts : k.state <= acked => k.count <= n,
             n = 0 \/ \E k \in c.counts : k.state <= acked /\ k.count = n,
             d.t = c.t, d.dirty = c.dirty,
             d.lastAcked = acked, d.ackedCount = 0,
             d.actions = From(c.actions, n),
             d.counts = Shortened(later, n),
             d.initial = c.initial, d.dead = c.dead, d \in ClientState(S)
      PROVE  Ready(V, log, d, whole) /\ SameClient(c, d)
  <2>1. /\ Len(c.actions) \in Nat /\ c.actions \in Seq(S)
        /\ c.lastAcked \in Nat /\ acked \in Nat /\ c.t.sentNum \in Nat
        /\ c.lastAcked <= acked /\ acked <= c.t.sentNum
        /\ c.counts \subseteq [state : Nat, count : Nat]
        /\ \A k \in c.counts : /\ k.state \in Nat /\ k.count \in Nat
                               /\ k.count <= Len(c.actions)
    BY ClientFields, LenProperties DEF Bounded, Ready, Sound
  <2>2. n \in Nat /\ n <= Len(c.actions)
    BY <1>2, <2>1
  <2>. HIDE DEF d
  <2>3. /\ From(c.actions, n) = Part(c.actions, n, Len(c.actions))
        /\ Len(From(c.actions, n)) = Len(c.actions) - n
    <3>1. From(c.actions, n) = Part(c.actions, n, Len(c.actions))
      BY <2>1, <2>2, PartEnds
    <3>2. Len(Part(c.actions, n, Len(c.actions))) = Len(c.actions) - n
      BY <2>1, <2>2, RestProperties
    <3>. QED
      BY <3>1, <3>2
  <2>4. \A j \in d.counts : \E k \in c.counts :
           /\ k.state > acked /\ j.state = k.state
           /\ j.count = IF k.count > n THEN k.count - n ELSE 0
    BY <1>2, <2>1 DEF Shortened
  <2>5. \A k \in c.counts : k.state > acked =>
           \E j \in d.counts : j.state = k.state
    <3>. SUFFICES ASSUME NEW k \in c.counts, k.state > acked
                  PROVE  \E j \in d.counts : j.state = k.state
      OBVIOUS
    <3>. DEFINE j == [k EXCEPT !.count = IF @ > n THEN @ - n ELSE 0]
    <3>1. j \in d.counts
      BY <1>2 DEF Shortened
    <3>2. j.state = k.state
      BY <2>1
    <3>. QED
      BY <3>1, <3>2
  <2>6. Bounded(d)
    <3>1. \A j \in d.counts : j.count <= Len(c.actions) - n
      BY <2>1, <2>2, <2>4
    <3>. QED
      BY <1>2, <2>1, <2>3, <3>1 DEF Bounded
  <2>7. ASSUME ~c.t.shutdown
        PROVE  Logged(V, log, d)
    <3>1. Logged(V, log, c) /\ Marks(V, log, c.t) /\ Bounded(c) /\ Sound(c.t)
      BY <2>7 DEF Ready
    <3>2. V[acked] = V[c.lastAcked] + n
      BY <1>2, <2>2, <3>1, CoveredCount
    <3>3. V[c.lastAcked] \in Nat /\ V[c.lastAcked] <= Len(log) /\ V[acked] \in Nat
      BY <2>1, <3>1, MarksRange
    <3>4. d.actions = Part(log, V[acked], Len(log))
      <4>1. From(Part(log, V[c.lastAcked], Len(log)), n) = Part(log, V[c.lastAcked] + n, Len(log))
        BY <2>2, <3>3, PartOfRest
      <4>. QED
        BY <1>2, <3>1, <3>2, <4>1 DEF Logged
    <3>5. \A k \in c.counts : /\ V[k.state] = V[c.lastAcked] + k.count
                              /\ k.state <= c.t.sentNum
                              /\ k.state > acked => V[acked] <= V[k.state]
      <4>1. \A k \in c.counts : /\ V[k.state] = V[c.lastAcked] + k.count
                                /\ k.state <= c.t.sentNum
        BY <3>1 DEF Logged
      <4>2. \A k \in c.counts : k.state > acked => V[acked] <= V[k.state]
        <5>. SUFFICES ASSUME NEW k \in c.counts, k.state > acked
                      PROVE  V[acked] <= V[k.state]
          OBVIOUS
        <5>1. k.state \in Nat /\ acked \in Nat /\ acked <= k.state
          BY <2>1
        <5>. QED
          BY <3>1, <5>1 DEF Marks
      <4>. QED
        BY <4>1, <4>2
    <3>6. \A j \in d.counts : j.state <= d.t.sentNum /\ V[j.state] = V[acked] + j.count
      <4>. SUFFICES ASSUME NEW j \in d.counts
                    PROVE  j.state <= c.t.sentNum /\ V[j.state] = V[acked] + j.count
        BY <1>2
      <4>1. PICK k \in c.counts : /\ k.state > acked /\ j.state = k.state
                                  /\ j.count = IF k.count > n THEN k.count - n ELSE 0
        BY <2>4
      <4>2. k.count >= n
        BY <2>1, <2>2, <3>2, <3>3, <3>5, <4>1
      <4>3. j.count = k.count - n
        BY <2>1, <2>2, <4>1, <4>2
      <4>4. V[j.state] = V[c.lastAcked] + k.count /\ j.state <= c.t.sentNum
        BY <3>5, <4>1
      <4>5. k.count \in Nat
        BY <2>1
      <4>. QED
        BY <2>2, <3>2, <3>3, <4>3, <4>4, <4>5
    <3>7. ASSUME NEW i \in acked .. d.t.sentNum
          PROVE  V[i] = V[acked] \/ \E j \in d.counts : j.state <= i /\ V[j.state] = V[i]
      <4>1. i \in Nat /\ i \in c.lastAcked .. c.t.sentNum /\ acked <= i
        BY <1>2, <2>1
      <4>2. V[acked] <= V[i] /\ V[i] \in Nat
        BY <2>1, <3>1, <4>1 DEF Marks
      <4>3. CASE V[i] = V[c.lastAcked]
        BY <2>2, <3>2, <3>3, <4>2, <4>3
      <4>4. ASSUME NEW k \in c.counts, k.state <= i, V[k.state] = V[i]
            PROVE  V[i] = V[acked] \/ \E j \in d.counts : j.state <= i /\ V[j.state] = V[i]
        <5>1. CASE k.state > acked
          BY <2>5, <4>4, <5>1
        <5>2. CASE k.state <= acked
          <6>1. V[k.state] <= V[acked]
            BY <2>1, <3>1, <5>2 DEF Marks
          <6>. QED
            BY <3>3, <4>2, <4>4, <6>1
        <5>. QED
          BY <2>1, <5>1, <5>2
      <4>. QED
        BY <3>1, <4>1, <4>3, <4>4 DEF Logged
    <3>. QED
      BY <1>2, <3>4, <3>6, <3>7 DEF Logged
  <2>. QED
    BY <1>2, <2>6, <2>7 DEF Ready, SameClient
<1>. QED
  <2>1. Bounded(c)
    BY DEF Ready
  <2>. HIDE DEF d, acked, later
  <2>2. \/ d = c /\ c.lastAcked = acked
        \/ \E n \in 0 .. Len(c.actions) :
              /\ \A k \in c.counts : k.state <= acked => k.count <= n
              /\ n = 0 \/ \E k \in c.counts : k.state <= acked /\ k.count = n
              /\ d.t = c.t /\ d.dirty = c.dirty
              /\ d.lastAcked = acked /\ d.ackedCount = 0
              /\ d.actions = From(c.actions, n)
              /\ d.counts = Shortened(later, n)
              /\ d.initial = c.initial /\ d.dead = c.dead
              /\ d \in ClientState(S)
    BY <2>1, ReleaseAckedShape DEF d, acked, later
  <2>3. CASE d = c /\ c.lastAcked = acked
    BY <1>1, <2>3 DEF d, acked
  <2>4. CASE \E n \in 0 .. Len(c.actions) :
              /\ \A k \in c.counts : k.state <= acked => k.count <= n
              /\ n = 0 \/ \E k \in c.counts : k.state <= acked /\ k.count = n
              /\ d.t = c.t /\ d.dirty = c.dirty
              /\ d.lastAcked = acked /\ d.ackedCount = 0
              /\ d.actions = From(c.actions, n)
              /\ d.counts = Shortened(later, n)
              /\ d.initial = c.initial /\ d.dead = c.dead
              /\ d \in ClientState(S)
    BY <1>2, <2>4 DEF d, acked
  <2>. QED
    BY <2>2, <2>3, <2>4

\* A cull spares the newest state.
LEMMA KeptKeepsLast ==
    ASSUME NEW N \in SUBSET Nat, IsFiniteSet(N), NEW x \in N, \A n \in N : n <= x
    PROVE  x \in Kept(N)
<1>1. {k \in N : k < x} = N \ {x}
  <2>1. \A k \in N : k < x <=> k # x
    <3>1. x \in Nat /\ \A k \in N : k \in Nat /\ k <= x
      OBVIOUS
    <3>. QED
      BY <3>1
  <2>. QED
    BY <2>1
<1>2. Cardinality(N) \in Nat /\ Cardinality(N \ {x}) = Cardinality(N) - 1
  BY FS_RemoveElement, FS_CardinalityType
<1>3. Cardinality(N) - 1 # Cardinality(N) - CullKeep
  BY <1>2, CapAssumption
<1>4. Cardinality({k \in N : k < x}) # Cardinality(N) - CullKeep
  BY <1>1, <1>2, <1>3
<1>. QED
  BY <1>4 DEF Kept

\* Flags that queueing a state does not touch.
SameMode(t, u) ==
    /\ u.shutdown = t.shutdown /\ u.rebase = t.rebase
    /\ u.attached = t.attached /\ u.quenched = t.quenched

\* u is t after a state was queued.
Queueing(t, u, old, diff) ==
    /\ u.sentNum = t.sentNum + 1 /\ u.acked = t.acked
    /\ \A s \in u.outbound :
          s \in t.outbound \/ (s.old = old /\ s.new = t.sentNum + 1 /\ s.diff = diff)
    /\ \E s \in u.outbound : s.new = t.sentNum + 1
    /\ SameMode(t, u)

\* A state queued on a base the transport knows keeps that base, and stays.
LEMMA SetPendingFromShape ==
    ASSUME NEW Diff, NEW t \in TransportState(Diff), Sound(t), ~t.shutdown,
           NEW old \in {t.acked} \cup NumsOf(t.outbound), NEW diff \in Diff
    PROVE  Queueing(t, SetPendingFrom(t, old, diff), old, diff)
<1>. DEFINE s0 == [old |-> old, new |-> t.sentNum + 1, diff |-> diff, sent |-> FALSE]
            queue == t.outbound \cup {s0}
            left == {s \in queue : s.new \in Kept(NumsOf(queue))}
            over == t.overflowed \/ Cardinality(queue) > SentStateCap
            u == [t EXCEPT !.sentNum = t.sentNum + 1, !.outbound = left, !.overflowed = over]
<1>1. SetPendingFrom(t, old, diff) = u
  BY DEF SetPendingFrom
<1>2. t.sentNum \in Nat /\ \A s \in t.outbound : s.new \in Nat /\ s.new <= t.sentNum
  BY Fields, CapAssumption DEF TransportState, OutboundState, Sound
<1>3. s0.old = old /\ s0.new = t.sentNum + 1 /\ s0.diff = diff
  OBVIOUS
<1>4. left \subseteq queue /\ s0 \in queue
  OBVIOUS
<1>5. NumsOf(queue) \in SUBSET (0 .. t.sentNum + 1)
  BY <1>2, <1>3 DEF NumsOf
<1>6. s0.new \in NumsOf(queue)
  BY DEF NumsOf
<1>. HIDE DEF s0, queue
<1>7. IsFiniteSet(NumsOf(queue))
  BY <1>2, <1>5, FS_Interval, FS_Subset, 0 \in Int, t.sentNum + 1 \in Int
<1>8. NumsOf(queue) \in SUBSET Nat /\ \A n \in NumsOf(queue) : n <= s0.new
  BY <1>2, <1>3, <1>5
<1>9. s0.new \in Kept(NumsOf(queue))
  BY <1>6, <1>7, <1>8, KeptKeepsLast
<1>10. s0 \in left
  BY <1>4, <1>9
<1>. HIDE DEF left, over
<1>11. u.sentNum = t.sentNum + 1 /\ u.outbound = left /\ u.acked = t.acked
  BY DEF TransportState
<1>12. SameMode(t, u)
  BY DEF TransportState, SameMode
<1>. HIDE DEF u
<1>. QED
  BY <1>1, <1>3, <1>4, <1>10, <1>11, <1>12 DEF queue, Queueing

\* The base and the cut QueueInput chooses.
InputBases(c, fresh, saves) ==
    IF c.known \/ ~saves THEN {}
    ELSE {k \in ProspectiveBases(c, fresh) : k.count > c.ackedCount}

InputBase(c, bases) == IF bases = {} THEN c.t.acked ELSE Max({k.state : k \in bases})

InputCut(c, bases) ==
    IF bases = {} THEN c.ackedCount
    ELSE (CHOOSE k \in bases : k.state = InputBase(c, bases)).count

\* The base is acknowledged or queued, and the cut is where it ends in the
\* log.
LEMMA InputBaseKnown ==
    ASSUME NEW S, NEW c \in ClientState(S), Sound(c.t), Bounded(c), NEW fresh, NEW saves
    PROVE  LET bases == InputBases(c, fresh, saves)
               old == InputBase(c, bases)
               cut == InputCut(c, bases)
           IN  \/ old = c.t.acked /\ cut = 0
               \/ old \in NumsOf(c.t.outbound) /\ cut <= Len(c.actions)
                    /\ \E k \in c.counts : k.state = old /\ k.count = cut
<1>. DEFINE bases == InputBases(c, fresh, saves)
            old == InputBase(c, bases)
            cut == InputCut(c, bases)
            run == ProspectiveRun(c.t, fresh)
<1>1. CASE bases = {}
  BY <1>1 DEF InputBase, InputCut, Bounded
<1>2. CASE bases # {}
  <2>1. /\ bases \subseteq c.counts /\ run # {}
        /\ \A k \in bases : k.state = Max(run) /\ k.count <= Len(c.actions)
    BY <1>2 DEF InputBases, ProspectiveBases
  <2>2. /\ c.t.sentNum \in Nat
        /\ \A s \in c.t.outbound : s.new \in Nat /\ s.new <= c.t.sentNum
    BY ClientFields DEF TransportState, OutboundState, Sound
  <2>3. run \subseteq NumsOf(c.t.outbound)
    BY DEF ProspectiveRun
  <2>4. run \in SUBSET Nat /\ \A n \in run : n <= c.t.sentNum
    BY <2>2, <2>3 DEF NumsOf
  <2>. HIDE DEF run, bases
  <2>5. Max(run) \in run
    BY <2>1, <2>2, <2>4, MaxIsGreatest
  <2>6. {k.state : k \in bases} = {Max(run)}
    BY <1>2, <2>1
  <2>7. Max({k.state : k \in bases}) = Max(run)
    <3>1. {Max(run)} \in SUBSET Nat /\ \A n \in {Max(run)} : n <= c.t.sentNum
      BY <2>4, <2>5
    <3>2. Max({Max(run)}) \in {Max(run)}
      BY <2>2, <3>1, MaxIsGreatest
    <3>. QED
      BY <2>6, <3>2
  <2>8. old = Max(run)
    BY <1>2, <2>7 DEF InputBase
  <2>. DEFINE k0 == CHOOSE k \in bases : k.state = old
  <2>9. k0 \in bases /\ k0.state = old
    BY <1>2, <2>1, <2>8
  <2>10. cut = k0.count
    BY <1>2 DEF InputCut
  <2>. QED
    BY <2>1, <2>3, <2>5, <2>8, <2>9, <2>10 DEF bases
<1>. QED
  BY <1>1, <1>2

\* After the new state was queued: it stands for the whole input, and the
\* newest queued state, or the acknowledged one, for as much.
Sendable(V, log, c, whole) ==
    /\ Sound(c.t) /\ Bounded(c)
    /\ Marks(V, log, c.t) /\ Queued(V, log, c.t)
    /\ ~c.t.rebase
    /\ ~c.t.shutdown => Logged(V, log, c) /\ V[c.t.sentNum] = Len(log)
    /\ whole \/ ~c.t.shutdown => AtTip(V, c.t)

\* V after the next number was given to the whole log.
Marked(V, log, t) == [n \in Nat |-> IF n <= t.sentNum THEN V[n] ELSE Len(log)]

\* V stays true when the next number is given to the whole log.
LEMMA MarkedExtends ==
    ASSUME NEW S, NEW c \in ClientState(S), NEW log \in Seq(S), NEW V,
           Marks(V, log, c.t), NEW u \in TransportState(Seq(S)),
           u.sentNum = c.t.sentNum + 1
    PROVE  LET W == Marked(V, log, c.t)
           IN  Marks(W, log, u) /\ Extends(W, V, c.t) /\ W[u.sentNum] = Len(log)
<1>. DEFINE W == Marked(V, log, c.t)
            last == c.t.sentNum
<1>1. last \in Nat /\ u.sentNum \in Nat /\ u.sentNum = last + 1
  BY ClientFields
<1>2. \A n \in Nat : V[n] \in Nat /\ V[n] <= Len(log)
  BY MarksRange
<1>3. Len(log) \in Nat
  BY MarksRange
<1>4. W = [n \in Nat |-> IF n <= last THEN V[n] ELSE Len(log)]
  BY DEF Marked
<1>. HIDE DEF last, W
<1>5. W \in [Nat -> Nat]
  BY <1>2, <1>3, <1>4
<1>6. \A n \in Nat : n <= last => W[n] = V[n]
  BY <1>4
<1>7. \A n \in Nat : ~(n <= last) => W[n] = Len(log)
  BY <1>4
<1>8. W[u.sentNum] = Len(log)
  BY <1>1, <1>7
<1>9. W[0] = 0
  BY SMTT(30), <1>1, <1>6 DEF Marks
<1>10. ASSUME NEW m \in Nat, NEW n \in Nat, m <= n
       PROVE  W[m] <= W[n]
  <2>1. CASE n <= last
    <3>1. m <= last
      BY <1>1, <1>10, <2>1
    <3>. QED
      BY <1>6, <1>10, <2>1, <3>1 DEF Marks
  <2>2. CASE ~(n <= last)
    <3>1. W[m] = V[m] \/ W[m] = Len(log)
      BY <1>6, <1>7
    <3>. QED
      BY <1>2, <1>3, <1>7, <2>2, <3>1
  <2>. QED
    BY <2>1, <2>2
<1>11. ASSUME NEW n \in Nat, u.sentNum <= n
       PROVE  W[n] = W[u.sentNum]
  <2>1. ~(n <= last)
    BY <1>1, <1>11
  <2>. QED
    BY <1>7, <1>8, <2>1
<1>12. W[u.sentNum] <= Len(log)
  BY <1>3, <1>8
<1>13. Marks(W, log, u)
  BY <1>5, <1>9, <1>10, <1>11, <1>12 DEF Marks
<1>14. Extends(W, V, c.t)
  BY <1>6 DEF Extends, last
<1>. QED
  BY <1>8, <1>13, <1>14 DEF W

\* The transport u of client c once a state of the whole log was queued, and
\* W the function that knows of it.
Pending(c, u, old, diff, V, W, log) ==
    /\ Queueing(c.t, u, old, diff)
    /\ Marks(W, log, u) /\ Extends(W, V, c.t) /\ W[c.t.sentNum + 1] = Len(log)

\* And it explains the state that set_pending_from queues.
LEMMA PendingMarked ==
    ASSUME NEW S, NEW c \in ClientState(S), Sound(c.t), ~c.t.shutdown,
           NEW log \in Seq(S), NEW V, Marks(V, log, c.t),
           c.t.sentNum + 1 < ShutdownNum,
           NEW old \in {c.t.acked} \cup NumsOf(c.t.outbound), NEW diff \in Seq(S)
    PROVE  Pending(c, SetPendingFrom(c.t, old, diff), old, diff,
                   V, Marked(V, log, c.t), log)
<1>. DEFINE t == c.t
            u == SetPendingFrom(t, old, diff)
            Diff == Seq(S)
<1>1. t \in TransportState(Diff) /\ Sound(t) /\ ~t.shutdown
      /\ old \in {t.acked} \cup NumsOf(t.outbound) /\ diff \in Diff
  BY ClientFields
<1>3. Queueing(t, u, old, diff)
  <2>. HIDE DEF Diff, t
  <2>. QED
    BY <1>1, SetPendingFromShape
<1>4. old \in Nat
  BY <1>1 DEF TransportState, OutboundState, NumsOf
<1>5. u \in TransportState(Seq(S))
  <2>. HIDE DEF Diff
  <2>1. u \in TransportState(Diff)
    BY <1>1, <1>4, SetPendingFromSound
  <2>. QED
    BY <2>1 DEF Diff
<1>. HIDE DEF u
<1>6. /\ Marks(Marked(V, log, c.t), log, u) /\ Extends(Marked(V, log, c.t), V, c.t)
      /\ Marked(V, log, c.t)[u.sentNum] = Len(log)
  BY ZenonT(40), <1>3, <1>5, MarkedExtends DEF Queueing
<1>7. u.sentNum = c.t.sentNum + 1
  BY <1>3 DEF Queueing
<1>8. Marked(V, log, c.t)[c.t.sentNum + 1] = Len(log)
  BY <1>6, <1>7
<1>. QED
  BY <1>3, <1>6, <1>8 DEF u, t, Pending

\* A new state cut from the log at its base.
LEMMA QueuedInput ==
    ASSUME NEW S, NEW c \in ClientState(S), NEW log \in Seq(S), NEW V,
           NEW whole \in BOOLEAN, Ready(V, log, c, whole), ~c.t.shutdown,
           c.lastAcked = c.t.acked, c.t.sentNum + 1 < ShutdownNum,
           NEW old, NEW cut,
           \/ old = c.t.acked /\ cut = 0
           \/ old \in NumsOf(c.t.outbound) /\ cut <= Len(c.actions)
                /\ \E k \in c.counts : k.state = old /\ k.count = cut,
           NEW d \in ClientState(S),
           d.t = SetPendingFrom(c.t, old, From(c.actions, cut)),
           d.actions = c.actions, d.ackedCount = c.ackedCount, d.lastAcked = c.lastAcked,
           d.counts = c.counts \cup {[state |-> d.t.sentNum, count |-> Len(c.actions)]},
           Sound(d.t)
    PROVE  LET W == Marked(V, log, c.t)
           IN  Extends(W, V, c.t) /\ Sendable(W, log, d, whole)
<1>. DEFINE W == Marked(V, log, c.t)
            diff == From(c.actions, cut)
            last == c.t.sentNum
<1>1. /\ c.t \in TransportState(Seq(S)) /\ Sound(c.t) /\ Bounded(c)
      /\ Marks(V, log, c.t) /\ Queued(V, log, c.t) /\ Logged(V, log, c) /\ ~c.t.rebase
  BY ClientFields DEF Ready
<1>2. /\ last \in Nat /\ c.t.acked \in Nat /\ c.t.acked <= last
      /\ Len(c.actions) \in Nat /\ c.actions \in Seq(S)
      /\ c.counts \subseteq [state : Nat, count : Nat]
      /\ \A s \in c.t.outbound : s.old \in Nat /\ s.new \in Nat
                                 /\ s.old <= last /\ s.new <= last
  <2>1. /\ c.actions \in Seq(S) /\ c.counts \subseteq [state : Nat, count : Nat]
        /\ last \in Nat /\ c.t.acked \in Nat
    BY ClientFields
  <2>2. Len(c.actions) \in Nat
    BY <2>1, LenProperties
  <2>3. \A s \in c.t.outbound : s.old \in Nat /\ s.new \in Nat
                                /\ s.old < s.new /\ s.new <= last
    BY <1>1 DEF TransportState, OutboundState, Sound
  <2>4. \A s \in c.t.outbound : s.old <= last
    BY <2>1, <2>3
  <2>5. c.t.acked <= last
    BY <1>1 DEF Sound
  <2>. QED
    BY <2>1, <2>2, <2>3, <2>4, <2>5
<1>3. /\ old \in {c.t.acked} \cup NumsOf(c.t.outbound) /\ old \in Nat /\ old <= last
      /\ cut \in Nat /\ cut <= Len(c.actions) /\ V[old] = V[c.lastAcked] + cut
  <2>1. CASE old = c.t.acked /\ cut = 0
    <3>1. V[c.t.acked] \in Nat
      BY <1>1, <1>2, MarksRange
    <3>. QED
      BY <1>2, <2>1, <3>1
  <2>2. ASSUME old \in NumsOf(c.t.outbound), cut <= Len(c.actions),
               NEW k \in c.counts, k.state = old, k.count = cut
        PROVE  /\ old \in Nat /\ old <= last
               /\ cut \in Nat /\ V[old] = V[c.lastAcked] + cut
    <3>1. k.count \in Nat /\ V[k.state] = V[c.lastAcked] + k.count
      BY <1>1, <1>2 DEF Logged
    <3>. QED
      BY <1>2, <2>2, <3>1 DEF NumsOf
  <2>. QED
    BY <2>1, <2>2
<1>4. diff = Part(log, V[old], Len(log)) /\ diff \in Seq(S)
  <2>1. V[c.lastAcked] \in Nat /\ V[c.lastAcked] <= Len(log)
    BY <1>1, ClientFields, MarksRange
  <2>2. From(Part(log, V[c.lastAcked], Len(log)), cut) = Part(log, V[c.lastAcked] + cut, Len(log))
    BY <1>3, <2>1, PartOfRest
  <2>3. diff = Part(log, V[old], Len(log))
    BY <1>1, <1>3, <2>2 DEF Logged
  <2>4. Part(c.actions, cut, Len(c.actions)) \in Seq(S)
    BY <1>2, <1>3, RestProperties
  <2>5. diff \in Seq(S)
    BY <1>2, <1>3, <2>4, PartEnds
  <2>. QED
    BY <2>3, <2>5
<1>. HIDE DEF diff, W
<1>5. /\ d.t.sentNum = last + 1 /\ d.t.acked = c.t.acked
      /\ \A s \in d.t.outbound : \/ s \in c.t.outbound
                                 \/ s.old = old /\ s.new = last + 1 /\ s.diff = diff
      /\ \E s \in d.t.outbound : s.new = last + 1
      /\ SameMode(c.t, d.t)
      /\ Marks(W, log, d.t) /\ Extends(W, V, c.t) /\ W[last + 1] = Len(log)
  <2>. DEFINE u == SetPendingFrom(c.t, old, diff)
  <2>1. d.t = u
    BY DEF diff
  <2>2. old \in {c.t.acked} \cup NumsOf(c.t.outbound) /\ diff \in Seq(S)
    BY <1>3, <1>4
  <2>3. Pending(c, u, old, diff, V, W, log)
    BY <1>1, <2>2, PendingMarked DEF W
  <2>. HIDE DEF u
  <2>. QED
    BY <2>1, <2>3 DEF Pending, Queueing
<1>9. Queued(W, log, d.t)
  <2>. SUFFICES ASSUME NEW s \in d.t.outbound
                PROVE  s.new # ShutdownNum /\ s.diff = Part(log, W[s.old], W[s.new])
    BY DEF Queued
  <2>1. CASE s \in c.t.outbound
    <3>1. W[s.old] = V[s.old] /\ W[s.new] = V[s.new]
      BY <1>2, <1>5, <2>1 DEF Extends
    <3>. QED
      BY <1>1, <2>1, <3>1 DEF Queued
  <2>2. CASE s.old = old /\ s.new = last + 1 /\ s.diff = diff
    <3>1. W[old] = V[old]
      BY <1>3, <1>5 DEF Extends
    <3>2. last + 1 # ShutdownNum
      BY <1>2, CapAssumption
    <3>. QED
      BY <1>4, <1>5, <2>2, <3>1, <3>2
  <2>. QED
    BY <1>5, <2>1, <2>2
<1>10. Bounded(d)
  BY <1>1, <1>2, <1>5 DEF Bounded
<1>11. AtTip(W, d.t)
  BY <1>5 DEF AtTip
<1>12. Logged(W, log, d)
  <2>1. W[c.lastAcked] = V[c.lastAcked] /\ V[c.lastAcked] \in Nat /\ V[c.lastAcked] <= Len(log)
    BY <1>1, <1>2, <1>5, ClientFields, MarksRange DEF Extends
  <2>2. Len(c.actions) = Len(log) - V[c.lastAcked]
    <3>1. c.actions = Part(log, V[c.lastAcked], Len(log))
      BY <1>1 DEF Logged
    <3>2. Len(Part(log, V[c.lastAcked], Len(log))) = Len(log) - V[c.lastAcked]
      BY <2>1, PartOfRest
    <3>. QED
      BY <3>1, <3>2
  <2>3. Len(log) \in Nat
    BY LenProperties
  <2>4. \A k \in d.counts : k.state <= d.t.sentNum /\ W[k.state] = W[c.lastAcked] + k.count
    <3>1. ASSUME NEW k \in c.counts
          PROVE  k.state <= d.t.sentNum /\ W[k.state] = W[c.lastAcked] + k.count
      <4>1. k.state \in Nat /\ k.state <= last /\ V[k.state] = V[c.lastAcked] + k.count
        BY <1>1, <1>2 DEF Logged
      <4>2. W[k.state] = V[k.state]
        BY <1>5, <4>1 DEF Extends
      <4>. QED
        BY <1>2, <1>5, <2>1, <4>1, <4>2
    <3>2. W[last + 1] = W[c.lastAcked] + Len(c.actions) /\ last + 1 <= d.t.sentNum
      BY SMTT(30), <1>2, <1>5, <2>1, <2>2, <2>3
    <3>. QED
      BY <1>5, <3>1, <3>2
  <2>5. ASSUME NEW n \in c.lastAcked .. d.t.sentNum
        PROVE  W[n] = W[c.lastAcked] \/ \E k \in d.counts : k.state <= n /\ W[k.state] = W[n]
    <3>1. CASE n <= last
      <4>1. n \in c.lastAcked .. last /\ n \in Nat /\ W[n] = V[n]
        BY <1>2, <1>5, <3>1, ClientFields DEF Extends
      <4>2. V[n] = V[c.lastAcked] \/ \E k \in c.counts : k.state <= n /\ V[k.state] = V[n]
        BY <1>1, <4>1 DEF Logged
      <4>3. ASSUME NEW k \in c.counts, k.state <= n, V[k.state] = V[n]
            PROVE  k \in d.counts /\ W[k.state] = W[n]
        <5>1. k.state \in Nat /\ k.state <= last
          BY <1>1, <1>2 DEF Logged
        <5>. QED
          BY <1>5, <4>1, <4>3, <5>1 DEF Extends
      <4>. QED
        BY <2>1, <4>1, <4>2, <4>3
    <3>2. CASE n = last + 1
      <4>. DEFINE k0 == [state |-> last + 1, count |-> Len(c.actions)]
      <4>1. k0 \in d.counts /\ k0.state = last + 1 /\ last + 1 <= last + 1
        BY <1>2, <1>5
      <4>. QED
        BY <3>2, <4>1
    <3>. QED
      BY <1>2, <1>5, <3>1, <3>2, ClientFields
  <2>6. d.actions = Part(log, W[d.lastAcked], Len(log))
    BY <1>1, <2>1 DEF Logged
  <2>. QED
    BY <2>4, <2>5, <2>6 DEF Logged
<1>13. Sendable(W, log, d, whole)
  BY <1>1, <1>5, <1>9, <1>10, <1>11, <1>12 DEF Sendable, SameMode
<1>. QED
  BY <1>5, <1>13 DEF W

\* What queueing the new state does to a client.
Queues(S, V, log, c, d, whole) ==
    /\ d \in ClientState(S) /\ SameClient(c, d)
    /\ d.lastAcked = c.lastAcked /\ c.t.sentNum <= d.t.sentNum
    /\ \E W : Extends(W, V, c.t) /\ Sendable(W, log, d, whole)

\* Nothing to queue.
LEMMA NothingQueued ==
    ASSUME NEW S, NEW c \in ClientState(S), NEW log \in Seq(S), NEW V,
           NEW whole \in BOOLEAN, Ready(V, log, c, whole),
           c.t.shutdown \/ ~c.dirty \/ c.actions = << >>,
           NEW d \in ClientState(S), SameClient(c, d), d.t = c.t,
           d.actions = c.actions, d.ackedCount = c.ackedCount, d.lastAcked = c.lastAcked,
           c.t.shutdown \/ d.counts = c.counts,
           \A k \in d.counts : k.count <= Len(d.actions)
    PROVE  Queues(S, V, log, c, d, whole)
<1>1. Bounded(d)
  BY DEF Ready, Bounded
<1>2. ASSUME ~c.t.shutdown
      PROVE  Logged(V, log, d) /\ V[c.t.sentNum] = Len(log) /\ AtTip(V, c.t)
  <2>1. Logged(V, log, c) /\ Logged(V, log, d)
    BY <1>2 DEF Ready, Logged
  <2>2. CASE ~c.dirty
    BY <1>2, <2>1, <2>2 DEF Ready
  <2>3. CASE c.actions = << >>
    BY <2>1, <2>3, EmptyLog DEF Ready
  <2>. QED
    BY <1>2, <2>1, <2>2, <2>3
<1>3. Sendable(V, log, d, whole)
  BY <1>1, <1>2 DEF Ready, Sendable
<1>4. Extends(V, V, c.t) /\ c.t.sentNum <= c.t.sentNum
  BY ClientFields DEF Extends
<1>. QED
  BY <1>3, <1>4 DEF Queues

\* Queueing a new state of the whole log, if there is anything new.
LEMMA QueueInputQueues ==
    ASSUME NEW S, NEW c \in ClientState(S), NEW log \in Seq(S), NEW V,
           NEW whole \in BOOLEAN, Ready(V, log, c, whole), c.lastAcked = c.t.acked,
           NEW fresh, NEW saves,
           LET d == QueueInput(c, fresh, saves)
           IN  d.t.sentNum # ShutdownNum \/ d.t.shutdown
    PROVE  Queues(S, V, log, c, QueueInput(c, fresh, saves), whole)
<1>. DEFINE bases == InputBases(c, fresh, saves)
            old == InputBase(c, bases)
            cut == InputCut(c, bases)
            diff == From(c.actions, cut)
            u == SetPendingFrom(c.t, old, diff)
            more == c.counts \cup {[state |-> u.sentNum, count |-> Len(c.actions)]}
            still == [c EXCEPT !.dirty = FALSE]
            queued == [c EXCEPT !.dirty = FALSE, !.known = FALSE, !.t = u, !.counts = more]
            d == QueueInput(c, fresh, saves)
<1>1. d = IF ~c.dirty THEN c
          ELSE IF From(c.actions, c.ackedCount) = NoDiff THEN still ELSE queued
  BY DEF QueueInput, InputBases, InputBase, InputCut
<1>2. /\ Sound(c.t) /\ Bounded(c) /\ c.ackedCount = 0
      /\ \A k \in c.counts : k.count <= Len(c.actions)
  BY DEF Ready, Bounded
<1>3. /\ c.actions \in Seq(S) /\ Len(c.actions) \in Nat
      /\ c.counts \subseteq [state : Nat, count : Nat]
      /\ c.t \in TransportState(Seq(S)) /\ c.t.sentNum \in 0 .. ShutdownNum
      /\ c.t.sentNum \in Nat
  BY ClientFields, LenProperties, Fields
<1>4. From(c.actions, c.ackedCount) = c.actions
  BY <1>2, <1>3, PartEnds
<1>5. SameClient(c, c)
  BY DEF SameClient
<1>6. CASE ~c.dirty
  BY <1>1, <1>2, <1>5, <1>6, NothingQueued
<1>7. CASE c.dirty /\ c.actions = << >>
  <2>1. d = still
    BY <1>1, <1>4, <1>7, NoDiffAssumption
  <2>2. still \in ClientState(S)
    BY DEF ClientState
  <2>3. /\ still.t = c.t /\ still.actions = c.actions /\ still.ackedCount = c.ackedCount
        /\ still.lastAcked = c.lastAcked /\ still.counts = c.counts
        /\ still.initial = c.initial /\ still.dead = c.dead
    BY DEF ClientState
  <2>. HIDE DEF still, d
  <2>4. SameClient(c, still)
    BY <2>3 DEF SameClient
  <2>5. Queues(S, V, log, c, still, whole)
    BY <1>2, <1>7, <2>2, <2>3, <2>4, NothingQueued
  <2>. QED
    BY <2>1, <2>5 DEF d
<1>8. CASE c.dirty /\ c.actions # << >>
  <2>1. d = queued
    BY <1>1, <1>4, <1>8, NoDiffAssumption
  <2>2. \/ old = c.t.acked /\ cut = 0
        \/ old \in NumsOf(c.t.outbound) /\ cut <= Len(c.actions)
             /\ \E k \in c.counts : k.state = old /\ k.count = cut
    BY <1>2, InputBaseKnown
  <2>. HIDE DEF bases, old, cut
  <2>3. cut \in Nat /\ cut <= Len(c.actions) /\ old \in Nat
        /\ old \in {c.t.acked} \cup NumsOf(c.t.outbound)
    BY <1>3, <2>2, ClientFields
  <2>4. diff \in Seq(S)
    BY <1>3, <2>3, PartEnds, RestProperties
  <2>. HIDE DEF diff
  <2>5. /\ u \in TransportState(Seq(S)) /\ Sound(u) /\ SendSide(c.t, u)
        /\ SameMode(c.t, u) /\ c.t.sentNum <= u.sentNum
        /\ c.t.shutdown \/ c.t.sentNum + 1 < ShutdownNum
        /\ c.t.shutdown => u = c.t
    <3>3. SendSide(c.t, c.t) /\ SameMode(c.t, c.t) /\ c.t.sentNum <= c.t.sentNum
      BY <1>3 DEF SendSide, SameMode
    <3>1. CASE c.t.shutdown
      <4>1. u = c.t
        BY <3>1 DEF SetPendingFrom
      <4>. HIDE DEF u
      <4>. QED
        BY <1>2, <1>3, <3>1, <3>3, <4>1
    <3>2. CASE ~c.t.shutdown
      <4>. DEFINE t == c.t
                  v == SetPendingFrom(t, old, diff)
                  Diff == Seq(S)
      <4>1. t \in TransportState(Diff) /\ Sound(t) /\ ~t.shutdown /\ diff \in Diff
            /\ old \in {t.acked} \cup NumsOf(t.outbound)
        BY <1>2, <1>3, <2>3, <2>4, <3>2
      <4>2. v.sentNum = t.sentNum + 1 /\ SameMode(t, v) /\ v = u
        <5>. HIDE DEF Diff, t
        <5>1. Queueing(t, v, old, diff)
          BY <4>1, SetPendingFromShape
        <5>. QED
          BY <5>1 DEF t, Queueing
      <4>3. d.t = u
        BY <2>1 DEF ClientState
      <4>. HIDE DEF u, d
      <4>4. u.sentNum # ShutdownNum \/ u.shutdown
        BY <4>3 DEF d
      <4>5. ~u.shutdown
        BY <3>2, <4>2 DEF SameMode
      <4>6. t.sentNum + 1 < ShutdownNum /\ t.sentNum <= u.sentNum
        BY <1>2, <1>3, <3>2, <4>2, <4>4, <4>5, CapAssumption DEF Sound
      <4>7. u \in TransportState(Diff) /\ Sound(u) /\ SendSide(t, u)
        <5>. HIDE DEF Diff
        <5>. QED
          BY <2>3, <4>1, <4>6, SetPendingFromSound DEF u
      <4>. QED
        BY <3>2, <4>2, <4>6, <4>7
    <3>. QED
      BY <3>1, <3>2
  <2>. HIDE DEF u, d
  <2>6. more \in SUBSET [state : Nat, count : Nat] /\ \A k \in more : k.count <= Len(c.actions)
    <3>1. u.sentNum \in Nat
      BY <2>5, Fields, CapAssumption
    <3>. QED
      BY <1>2, <1>3, <3>1
  <2>7. /\ queued.t = u /\ queued.actions = c.actions /\ queued.ackedCount = c.ackedCount
        /\ queued.lastAcked = c.lastAcked /\ queued.counts = more
        /\ queued.initial = c.initial /\ queued.dead = c.dead
    BY DEF ClientState
  <2>8. queued \in ClientState(S)
    BY <2>5, <2>6 DEF ClientState
  <2>. HIDE DEF queued
  <2>9. SameClient(c, queued)
    BY <2>5, <2>7 DEF SameClient, SendSide, SameMode
  <2>10. CASE c.t.shutdown
    BY <2>1, <2>5, <2>6, <2>7, <2>8, <2>9, <2>10, NothingQueued DEF d
  <2>11. CASE ~c.t.shutdown
    <3>. DEFINE W == Marked(V, log, c.t)
    <3>1. Extends(W, V, c.t) /\ Sendable(W, log, queued, whole)
      <4>1. c.t.sentNum + 1 < ShutdownNum /\ ~c.t.shutdown
        BY <2>5, <2>11
      <4>2. /\ queued.t = SetPendingFrom(c.t, old, From(c.actions, cut))
            /\ queued.actions = c.actions /\ queued.ackedCount = c.ackedCount
            /\ queued.lastAcked = c.lastAcked /\ Sound(queued.t)
            /\ queued.counts
                 = c.counts \cup {[state |-> queued.t.sentNum, count |-> Len(c.actions)]}
        BY <2>5, <2>7 DEF u, diff
      <4>. QED
        BY <2>2, <2>8, <4>1, <4>2, QueuedInput
    <3>. QED
      BY <2>1, <2>5, <2>7, <2>8, <2>9, <3>1 DEF Queues, d
  <2>. QED
    BY <2>10, <2>11
<1>. QED
  BY <1>6, <1>7, <1>8, ClientFields

\* What no step of a flush touches.
SameLink(c, d) ==
    /\ d.initial = c.initial /\ d.t.shutdown = c.t.shutdown /\ d.t.acked = c.t.acked
    /\ d.t.received = c.t.received /\ d.t.attached = c.t.attached
    /\ d.t.quenched = c.t.quenched

\* What a flush of client c that ends as r does: afterwards every action is
\* in the newest state, and what was sent is what V, extended, says.
Flushes(S, V, log, c, r, whole) ==
    /\ r.c \in ClientState(S) /\ SameLink(c, r.c) /\ c.t.sentNum <= r.c.t.sentNum
    /\ r.c.lastAcked = c.t.acked /\ ~r.c.t.rebase
    /\ \E W : /\ Extends(W, V, c.t) /\ Faithful(W, log, r.c, whole)
              /\ ~r.c.t.shutdown => W[r.c.t.sentNum] = Len(log)
              /\ \A m \in r.out : Leads(W, log, m.old, m.new, m.diff, whole)
    /\ \A m \in r.out : /\ m \in Instruction(Seq(S)) /\ m.throw <= c.t.acked
                        /\ m.old < m.new /\ m.new <= r.c.t.sentNum

\* Lowering the datagram size marks states unsent, nothing else.
LEMMA SetMaxFragmentPayloadCarries ==
    ASSUME NEW Diff, NEW t \in TransportState(Diff)
    PROVE  LET u == SetMaxFragmentPayload(t)
           IN  Carried(t, u) /\ SameFlags(t, u) /\ u.sentNum = t.sentNum
<1>. DEFINE queue == {[s EXCEPT !.sent = FALSE] : s \in t.outbound}
            u == [t EXCEPT !.outbound = queue, !.force = TRUE]
<1>1. SetMaxFragmentPayload(t) = u
  BY DEF SetMaxFragmentPayload
<1>2. ASSUME NEW r \in t.outbound
      PROVE  /\ r.new \in Nat
             /\ [r EXCEPT !.sent = FALSE].old = r.old
             /\ [r EXCEPT !.sent = FALSE].new = r.new
             /\ [r EXCEPT !.sent = FALSE].diff = r.diff
  BY DEF TransportState, OutboundState
<1>3. \A s \in queue : \E r \in t.outbound :
         r.old = s.old /\ r.new = s.new /\ r.diff = s.diff
  BY <1>2
<1>4. \A r \in t.outbound : \E s \in queue : r.new <= s.new
  <2>. SUFFICES ASSUME NEW r \in t.outbound PROVE \E s \in queue : r.new <= s.new
    OBVIOUS
  <2>1. [r EXCEPT !.sent = FALSE] \in queue
    OBVIOUS
  <2>2. r.new <= [r EXCEPT !.sent = FALSE].new
    BY <1>2
  <2>. QED
    BY <2>1, <2>2
<1>. HIDE DEF queue
<1>5. u.outbound = queue /\ u.acked = t.acked /\ u.sentNum = t.sentNum /\ SameFlags(t, u)
  BY DEF TransportState, SameFlags
<1>. HIDE DEF u
<1>. QED
  BY <1>1, <1>3, <1>4, <1>5 DEF Carried

\* tick() and the socket that may refuse its datagram, after the new state
\* was queued.
LEMMA TickAndSendFlushes ==
    ASSUME NEW S, NEW c \in ClientState(S), NEW log \in Seq(S), NEW V,
           NEW whole \in BOOLEAN, Sendable(V, log, c, whole), c.lastAcked = c.t.acked,
           NEW now, NEW outcome \in Faulted, NEW refused,
           LET u == TickResult(c.t, now, outcome).t
           IN  u.sentNum < ShutdownNum \/ u.shutdown
    PROVE  Flushes(S, V, log, c, TickAndSend(c, now, outcome, refused), whole)
<1>. DEFINE Diff == Seq(S)
            t == c.t
            q == TickResult(t, now, outcome)
            v == IF refused /\ q.out # {} THEN SetMaxFragmentPayload(q.t) ELSE q.t
            gone == q.t.fault # "none"
            d == [c EXCEPT !.t = v, !.dead = gone]
            r == TickAndSend(c, now, outcome, refused)
<1>1. r.c = d /\ r.out = q.out
  BY DEF TickAndSend
<1>2. /\ t \in TransportState(Diff) /\ Sound(t) /\ NoDiff \in Diff
      /\ Marks(V, log, t) /\ Queued(V, log, t) /\ (whole \/ ~t.shutdown => AtTip(V, t))
  <2>1. NoDiff \in Diff
    BY NoDiffAssumption, EmptySeq
  <2>. QED
    BY <2>1, ClientFields DEF Sendable
<1>3. /\ c.lastAcked \in Nat /\ t.acked \in Nat /\ t.sentNum \in Nat
      /\ gone \in BOOLEAN
  BY ClientFields
<1>4. q.t.sentNum < ShutdownNum \/ q.t.shutdown
  OBVIOUS
<1>. HIDE DEF Diff, t, q
<1>5. Sends(Diff, t, q)
  <2>1. q.t.sentNum = ShutdownNum => q.t.shutdown
    BY <1>4, CapAssumption
  <2>. QED
    BY <1>2, <2>1, TickSound DEF q
<1>6. Ticks(V, log, whole, t, q)
  BY <1>2, <1>4, TickTicks, NoDiffAssumption DEF q
<1>7. /\ v \in TransportState(Diff) /\ Sound(v) /\ SendSide(t, v) /\ Carried(t, v)
      /\ SameFlags(t, v) /\ v.sentNum = q.t.sentNum /\ t.sentNum <= v.sentNum
  <2>1. /\ q.t \in TransportState(Diff) /\ Sound(q.t) /\ SendSide(t, q.t)
        /\ Carried(t, q.t) /\ SameFlags(t, q.t) /\ t.sentNum <= q.t.sentNum
    BY <1>5, <1>6 DEF Sends, Ticks
  <2>2. CASE v = q.t
    BY <2>1, <2>2
  <2>3. CASE v = SetMaxFragmentPayload(q.t)
    <3>1. /\ v \in TransportState(Diff) /\ Sound(v) /\ SendSide(q.t, v)
          /\ Carried(q.t, v) /\ SameFlags(q.t, v) /\ v.sentNum = q.t.sentNum
      BY <2>1, <2>3, FlagsSound, SetMaxFragmentPayloadCarries
    <3>2. SendSide(t, v)
      BY <2>1, <3>1, SendSideTransitive
    <3>3. \A x \in t.outbound, y \in q.t.outbound, z \in v.outbound :
             x.new \in Nat /\ y.new \in Nat /\ z.new \in Nat
      BY <1>2, <2>1, <3>1 DEF TransportState, OutboundState
    <3>4. Carried(t, v)
      <4>1. v.acked = t.acked
        BY <2>1, <3>1 DEF Carried
      <4>2. \A z \in v.outbound : \E x \in t.outbound :
               x.old = z.old /\ x.new = z.new /\ x.diff = z.diff
        BY SMTT(30), <2>1, <3>1 DEF Carried
      <4>3. ASSUME NEW x \in t.outbound
            PROVE  \E z \in v.outbound : x.new <= z.new
        <5>1. PICK y \in q.t.outbound : x.new <= y.new
          BY <2>1 DEF Carried
        <5>2. PICK z \in v.outbound : y.new <= z.new
          BY <3>1 DEF Carried
        <5>. QED
          BY <3>3, <5>1, <5>2
      <4>. QED
        BY <4>1, <4>2, <4>3 DEF Carried
    <3>5. SameFlags(t, v)
      BY <2>1, <3>1 DEF SameFlags
    <3>. QED
      BY <2>1, <3>1, <3>2, <3>4, <3>5
  <2>. QED
    BY <2>2, <2>3
<1>8. Marks(V, log, v) /\ V[v.sentNum] = V[t.sentNum]
  BY <1>2, <1>7, MarksLater
<1>9. Queued(V, log, v) /\ (AtTip(V, t) => AtTip(V, v))
  BY <1>2, <1>7, CarriedKeeps
<1>. HIDE DEF v, gone
<1>10. d \in ClientState(S)
  BY <1>3, <1>7 DEF ClientState, Diff
<1>11. /\ d.t = v /\ d.actions = c.actions /\ d.ackedCount = c.ackedCount
       /\ d.lastAcked = c.lastAcked /\ d.counts = c.counts /\ d.initial = c.initial
  BY DEF ClientState
<1>. HIDE DEF d
<1>12. Bounded(d)
  BY <1>7, <1>11 DEF Sendable, Bounded, Carried, t
<1>13. ASSUME ~v.shutdown
       PROVE  Logged(V, log, d) /\ V[v.sentNum] = Len(log)
  <2>1. ~t.shutdown
    BY <1>7, <1>13 DEF SameFlags
  <2>2. Logged(V, log, c) /\ V[t.sentNum] = Len(log)
    BY <2>1 DEF Sendable, t
  <2>3. d.actions = Part(log, V[d.lastAcked], Len(log))
    BY <1>11, <2>2 DEF Logged
  <2>4. \A k \in d.counts : k.state <= v.sentNum /\ V[k.state] = V[d.lastAcked] + k.count
    <3>. SUFFICES ASSUME NEW k \in c.counts
                  PROVE  k.state <= v.sentNum /\ V[k.state] = V[c.lastAcked] + k.count
      BY <1>11
    <3>1. k.state \in Nat /\ v.sentNum \in Nat
      BY <1>7, ClientFields, Fields, CapAssumption
    <3>. QED
      BY <1>3, <1>7, <2>2, <3>1 DEF Logged, t
  <2>5. ASSUME NEW n \in d.lastAcked .. v.sentNum
        PROVE  V[n] = V[d.lastAcked] \/ \E k \in d.counts : k.state <= n /\ V[k.state] = V[n]
    <3>1. n \in Nat /\ c.lastAcked <= n /\ c.lastAcked <= t.sentNum
      <4>1. t.acked <= t.sentNum
        BY <1>2 DEF Sound
      <4>. QED
        BY <1>3, <1>11, <2>5, <4>1 DEF t
    <3>2. CASE n <= t.sentNum
      <4>1. n \in c.lastAcked .. t.sentNum
        BY <1>3, <3>1, <3>2
      <4>. QED
        BY <1>11, <2>2, <4>1 DEF Logged, t
    <3>3. CASE t.sentNum <= n
      <4>1. V[n] = V[t.sentNum]
        BY <1>2, <3>1, <3>3 DEF Marks
      <4>2. t.sentNum \in c.lastAcked .. t.sentNum
        BY <1>3, <3>1
      <4>3. V[t.sentNum] = V[c.lastAcked]
            \/ \E k \in c.counts : k.state <= t.sentNum /\ V[k.state] = V[t.sentNum]
        BY <2>2, <4>2 DEF Logged, t
      <4>4. \A k \in c.counts : k.state <= t.sentNum => k.state <= n
        BY <1>3, <3>1, <3>3, ClientFields
      <4>. QED
        BY <1>11, <4>1, <4>3, <4>4
    <3>. QED
      BY <1>3, <3>1, <3>2, <3>3
  <2>6. V[v.sentNum] = Len(log)
    BY <1>8, <2>2
  <2>. QED
    BY <1>11, <2>3, <2>4, <2>5, <2>6 DEF Logged
<1>14. ~v.rebase
  BY <1>7 DEF SameFlags, Sendable, t
<1>15. whole \/ ~v.shutdown => AtTip(V, v)
  BY <1>2, <1>7, <1>9 DEF SameFlags
<1>16. Faithful(V, log, d, whole)
  BY <1>7, <1>8, <1>9, <1>11, <1>12, <1>13, <1>14, <1>15 DEF Faithful
<1>17. SameLink(c, d)
  BY <1>7, <1>11 DEF SameLink, SameFlags, SendSide, t
<1>18. Extends(V, V, t)
  BY DEF Extends
<1>19. \A m \in q.out : /\ m \in Instruction(Seq(S)) /\ m.throw <= t.acked
                        /\ m.old < m.new /\ m.new <= v.sentNum
                        /\ Leads(V, log, m.old, m.new, m.diff, whole)
  BY <1>5, <1>6, <1>7 DEF Sends, SendSide, Announces, Ticks, Diff
<1>. HIDE DEF r
<1>. QED
  BY <1>1, <1>7, <1>10, <1>11, <1>13, <1>14, <1>16, <1>17, <1>18, <1>19 DEF Flushes, t, r

\* Also a state that took the last number leaves a queue of numbers.
LEMMA QueueInputTyped ==
    ASSUME NEW S, NEW c \in ClientState(S), Sound(c.t), Bounded(c), NEW fresh, NEW saves
    PROVE  LET d == QueueInput(c, fresh, saves)
               u == d.t
           IN  /\ u \in TransportState(Seq(S)) /\ (u.shutdown <=> c.t.shutdown)
               /\ \A s \in u.outbound : s.new <= ShutdownNum
               /\ {"t", "dead"} \subseteq DOMAIN d
<1>. DEFINE Diff == Seq(S)
            bases == InputBases(c, fresh, saves)
            old == InputBase(c, bases)
            cut == InputCut(c, bases)
            diff == From(c.actions, cut)
            t == c.t
            base == IF old \in {t.acked} \cup NumsOf(t.outbound) THEN old ELSE t.acked
            s0 == [old |-> base, new |-> t.sentNum + 1, diff |-> diff, sent |-> FALSE]
            queue == t.outbound \cup {s0}
            kept == {s \in queue : s.new \in Kept(NumsOf(queue))}
            over == t.overflowed \/ Cardinality(queue) > SentStateCap
            u == [t EXCEPT !.sentNum = t.sentNum + 1, !.outbound = kept, !.overflowed = over]
<1>1. /\ t \in TransportState(Diff) /\ t.sentNum \in 0 .. ShutdownNum
      /\ \A s \in t.outbound : s.new \in Nat /\ s.new <= t.sentNum
  BY ClientFields, Fields, CapAssumption DEF Sound, TransportState, OutboundState
<1>2. \/ old = c.t.acked /\ cut = 0
      \/ old \in NumsOf(c.t.outbound) /\ cut <= Len(c.actions)
           /\ \E k \in c.counts : k.state = old /\ k.count = cut
  BY InputBaseKnown
<1>3. /\ QueueInput(c, fresh, saves).t \in {t, SetPendingFrom(t, old, diff)}
      /\ {"t", "dead"} \subseteq DOMAIN QueueInput(c, fresh, saves)
  <2>1. QueueInput(c, fresh, saves)
          \in {c, [c EXCEPT !.dirty = FALSE],
               [c EXCEPT !.dirty = FALSE, !.known = FALSE,
                         !.t = SetPendingFrom(t, old, diff),
                         !.counts = @ \cup {[state |-> SetPendingFrom(t, old, diff).sentNum,
                                             count |-> Len(c.actions)]}]}
    BY DEF QueueInput, InputBases, InputBase, InputCut
  <2>. HIDE DEF old, diff
  <2>. QED
    BY <2>1 DEF ClientState
<1>4. SetPendingFrom(t, old, diff) \in {t, u} /\ (t.shutdown => SetPendingFrom(t, old, diff) = t)
  BY DEF SetPendingFrom
<1>. HIDE DEF bases, old, cut
<1>5. cut \in Nat /\ cut <= Len(c.actions) /\ old \in Nat
  BY <1>2, ClientFields, LenProperties DEF NumsOf, TransportState, OutboundState
<1>6. diff \in Diff
  BY <1>5, ClientFields, PartEnds, RestProperties
<1>7. ASSUME ~t.shutdown
      PROVE  /\ u \in TransportState(Diff) /\ ~u.shutdown
             /\ \A s \in u.outbound : s.new <= ShutdownNum
  <2>1. t.sentNum # ShutdownNum
    BY <1>7 DEF Sound
  <2>2. t.sentNum + 1 \in 0 .. ShutdownNum /\ ShutdownNum \in Nat
    BY <1>1, <2>1, CapAssumption
  <2>. HIDE DEF diff, Diff, t
  <2>3. base \in Nat
    BY <1>1, <1>5 DEF TransportState
  <2>. HIDE DEF base
  <2>4. s0 \in OutboundState(Diff) /\ s0.new <= ShutdownNum
    BY <1>6, <2>2, <2>3 DEF OutboundState
  <2>5. kept \subseteq t.outbound \cup {s0}
    OBVIOUS
  <2>6. over \in BOOLEAN
    BY <1>1 DEF TransportState
  <2>. HIDE DEF s0, kept, over
  <2>7. kept \in SUBSET OutboundState(Diff) /\ \A s \in kept : s.new <= ShutdownNum
    BY <1>1, <2>2, <2>4, <2>5 DEF TransportState
  <2>8. u \in TransportState(Diff)
    BY <1>1, <2>2, <2>6, <2>7 DEF TransportState
  <2>9. u.outbound = kept /\ u.shutdown = t.shutdown
    BY <1>1 DEF TransportState
  <2>. QED
    BY <1>7, <2>7, <2>8, <2>9
<1>8. \A s \in t.outbound : s.new <= ShutdownNum
  BY <1>1, CapAssumption
<1>. HIDE DEF u, diff
<1>. QED
  BY <1>1, <1>3, <1>4, <1>7, <1>8

\* A tick leaves a record of the same fields.
LEMMA TickDomain ==
    ASSUME NEW Diff, NEW t \in TransportState(Diff), NEW now, NEW outcome
    PROVE  DOMAIN TickResult(t, now, outcome).t = DOMAIN t
<1>. DEFINE d == DropSuperseded(t)
<1>1. DOMAIN d = DOMAIN t
  BY DEF DropSuperseded
<1>2. \A u, old, new, diff : DOMAIN Transmit(u, old, new, diff, outcome).t = DOMAIN u
  BY DEF Transmit
<1>. HIDE DEF d
<1>3. DOMAIN TransmitShutdown(d, outcome).t = DOMAIN d
  BY <1>2 DEF TransmitShutdown
<1>4. DOMAIN TransmitQueued(d, Back(Candidates(d, now)), outcome).t = DOMAIN d
  <2>. DEFINE s == Back(Candidates(d, now))
              queue == (d.outbound \ {s}) \cup {[s EXCEPT !.sent = TRUE]}
              early == d.immediate /\ s.sent
              u == [d EXCEPT !.outbound = queue, !.immediate = early]
  <2>1. TransmitQueued(d, s, outcome) = Transmit(u, s.old, s.new, s.diff, outcome)
    BY DEF TransmitQueued
  <2>. HIDE DEF s, queue, early
  <2>2. DOMAIN u = DOMAIN d
    OBVIOUS
  <2>. HIDE DEF u
  <2>. QED
    BY <1>2, <2>1, <2>2 DEF s
<1>5. DOMAIN TransmitEmpty(d, outcome).t = DOMAIN d
  BY <1>2 DEF TransmitEmpty
<1>. QED
  BY <1>1, <1>3, <1>4, <1>5 DEF TickResult, d

\* A whole flush.
LEMMA FlushTicksFlushes ==
    ASSUME NEW S, NEW c \in ClientState(S), ~c.dead, NEW log \in Seq(S), NEW V,
           NEW whole \in BOOLEAN, Faithful(V, log, c, whole),
           NEW at, NEW saves, NEW outcome \in Faulted, NEW refused,
           LET u == FlushTicks(c, at, saves, outcome, refused).c.t
           IN  u.sentNum < ShutdownNum \/ u.shutdown
    PROVE  Flushes(S, V, log, c, FlushTicks(c, at, saves, outcome, refused), whole)
<1>. DEFINE c1 == ForceKnownBase(c, at.fresh)
            c2 == ReleaseAcked(c1)
            c3 == QueueInput(c2, at.fresh, saves)
            q == TickResult(c3.t, at.now, outcome)
            r == FlushTicks(c, at, saves, outcome, refused)
<1>1. r = TickAndSend(c3, at.now, outcome, refused)
  BY DEF FlushTicks, ProcessAcks
<1>2. /\ c1 \in ClientState(S) /\ Ready(V, log, c1, whole) /\ SameClient(c, c1)
      /\ c1.t.sentNum = c.t.sentNum
  BY ForceKnownBaseReady
<1>. HIDE DEF c1
<1>3. /\ c2 \in ClientState(S) /\ Ready(V, log, c2, whole) /\ SameClient(c1, c2)
      /\ c2.t = c1.t /\ c2.lastAcked = c1.t.acked
  BY <1>2, ReleaseAckedReady
<1>. HIDE DEF c2
<1>4. /\ c3.t \in TransportState(Seq(S)) /\ (c3.t.shutdown <=> c2.t.shutdown)
      /\ \A s \in c3.t.outbound : s.new <= ShutdownNum
      /\ {"t", "dead"} \subseteq DOMAIN c3
  BY <1>3, QueueInputTyped DEF Ready
<1>. HIDE DEF c3
<1>5. r.c.t \in {q.t, SetMaxFragmentPayload(q.t)}
  <2>. DEFINE v == IF refused /\ q.out # {} THEN SetMaxFragmentPayload(q.t) ELSE q.t
              gone == q.t.fault # "none"
  <2>1. r.c = [c3 EXCEPT !.t = v, !.dead = gone] /\ v \in {q.t, SetMaxFragmentPayload(q.t)}
    BY <1>1 DEF TickAndSend
  <2>. HIDE DEF v, gone, r, q
  <2>2. r.c.t = v
    BY <1>4, <2>1
  <2>. QED
    BY <2>1, <2>2
<1>6. r.c.t.sentNum = q.t.sentNum /\ r.c.t.shutdown = q.t.shutdown
  <2>1. {"sentNum", "shutdown"} \subseteq DOMAIN q.t
    <3>1. DOMAIN q.t = DOMAIN c3.t
      BY <1>4, TickDomain
    <3>. QED
      BY <1>4, <3>1 DEF TransportState
  <2>. HIDE DEF q, r
  <2>. QED
    BY <1>5, <2>1 DEF SetMaxFragmentPayload
<1>7. c3.t.sentNum # ShutdownNum \/ c3.t.shutdown
  <2>. SUFFICES ASSUME c3.t.sentNum = ShutdownNum, ~c3.t.shutdown PROVE FALSE
    OBVIOUS
  <2>1. q.t.sentNum = ShutdownNum /\ ~q.t.shutdown
    BY <1>4, TickOutOfNumbers
  <2>. HIDE DEF q, r
  <2>2. r.c.t.sentNum = ShutdownNum /\ ~r.c.t.shutdown
    BY <1>6, <2>1
  <2>3. ~(ShutdownNum < ShutdownNum)
    BY CapAssumption
  <2>. QED
    BY <2>2, <2>3 DEF r
<1>8. Queues(S, V, log, c2, c3, whole)
  BY <1>3, <1>7, QueueInputQueues DEF c3
<1>9. /\ c3 \in ClientState(S) /\ SameClient(c2, c3)
      /\ c3.lastAcked = c2.lastAcked /\ c2.t.sentNum <= c3.t.sentNum
      /\ \E W : Extends(W, V, c2.t) /\ Sendable(W, log, c3, whole)
  BY <1>8 DEF Queues
<1>10. PICK W : Extends(W, V, c2.t) /\ Sendable(W, log, c3, whole)
  BY <1>9
<1>11. c3.lastAcked = c3.t.acked
  BY <1>3, <1>9 DEF SameClient
<1>12. q.t.sentNum < ShutdownNum \/ q.t.shutdown
  <2>. HIDE DEF q
  <2>. QED
    BY <1>6
<1>13. Flushes(S, W, log, c3, r, whole)
  BY <1>1, <1>9, <1>10, <1>11, <1>12, TickAndSendFlushes
<1>. HIDE DEF r, q
<1>14. PICK X : /\ Extends(X, W, c3.t) /\ Faithful(X, log, r.c, whole)
                /\ ~r.c.t.shutdown => X[r.c.t.sentNum] = Len(log)
                /\ \A m \in r.out : Leads(X, log, m.old, m.new, m.diff, whole)
  BY <1>13 DEF Flushes
<1>15. /\ c.t.sentNum \in Nat /\ c2.t.sentNum = c.t.sentNum
       /\ c3.t.sentNum \in Nat /\ r.c.t.sentNum \in Nat
       /\ c3.t.sentNum <= r.c.t.sentNum /\ r.c \in ClientState(S)
       /\ c3.t.acked = c.t.acked
  BY <1>2, <1>3, <1>9, <1>13, ClientFields DEF Flushes, SameClient
<1>16. Extends(X, V, c.t)
  BY <1>9, <1>10, <1>14, <1>15 DEF Extends
<1>17. c.t.sentNum <= r.c.t.sentNum
  BY <1>9, <1>15
<1>18. SameLink(c, r.c)
  BY <1>2, <1>3, <1>9, <1>13 DEF Flushes, SameLink, SameClient
<1>. QED
  BY <1>13, <1>14, <1>15, <1>16, <1>17, <1>18 DEF Flushes, r

\* A tick takes at most one number.
LEMMA TickNumbers ==
    ASSUME NEW Diff, NEW t \in TransportState(Diff), ~t.shutdown, NEW now, NEW outcome,
           t.sentNum # ShutdownNum
    PROVE  TickResult(t, now, outcome).t.sentNum \in {t.sentNum, t.sentNum + 1}
<1>. DEFINE d == DropSuperseded(t)
            s == Back(Candidates(d, now))
<1>1. /\ {"sentNum", "outbound", "immediate", "shutdown"} \subseteq DOMAIN d
      /\ d.sentNum = t.sentNum /\ ~d.shutdown
  BY DEF DropSuperseded, TransportState
<1>2. \A u, old, new, diff :
         "sentNum" \in DOMAIN u => Transmit(u, old, new, diff, outcome).t.sentNum = u.sentNum
  BY DEF Transmit
<1>. HIDE DEF d
<1>3. TransmitQueued(d, s, outcome).t.sentNum = d.sentNum
  <2>. DEFINE queue == (d.outbound \ {s}) \cup {[s EXCEPT !.sent = TRUE]}
              early == d.immediate /\ s.sent
              u == [d EXCEPT !.outbound = queue, !.immediate = early]
  <2>1. TransmitQueued(d, s, outcome) = Transmit(u, s.old, s.new, s.diff, outcome)
    BY DEF TransmitQueued
  <2>. HIDE DEF s, queue, early
  <2>2. "sentNum" \in DOMAIN u /\ u.sentNum = d.sentNum
    BY <1>1
  <2>. HIDE DEF u
  <2>. QED
    BY <1>2, <2>1, <2>2
<1>4. TransmitEmpty(d, outcome).t.sentNum = t.sentNum + 1
  <2>. DEFINE tip == IF d.outbound = {} THEN d.acked ELSE Back(d.outbound).new
              u == [d EXCEPT !.sentNum = t.sentNum + 1]
  <2>1. TransmitEmpty(d, outcome) = Transmit(u, tip, t.sentNum + 1, NoDiff, outcome)
    BY <1>1 DEF TransmitEmpty
  <2>2. "sentNum" \in DOMAIN u /\ u.sentNum = t.sentNum + 1
    BY <1>1
  <2>. HIDE DEF u, tip
  <2>. QED
    BY <1>2, <2>1, <2>2
<1>. QED
  BY <1>1, <1>3, <1>4 DEF TickResult, d, s

\* And a flush takes at most two.
LEMMA FlushNumbers ==
    ASSUME NEW S, NEW c \in ClientState(S), ~c.dead, NEW log \in Seq(S), NEW V,
           NEW whole \in BOOLEAN, Faithful(V, log, c, whole), ~c.t.shutdown,
           c.t.sentNum + 2 < ShutdownNum,
           NEW at, NEW saves, NEW outcome, NEW refused
    PROVE  FlushTicks(c, at, saves, outcome, refused).c.t.sentNum < ShutdownNum
<1>. DEFINE c1 == ForceKnownBase(c, at.fresh)
            c2 == ReleaseAcked(c1)
            c3 == QueueInput(c2, at.fresh, saves)
            q == TickResult(c3.t, at.now, outcome)
            r == FlushTicks(c, at, saves, outcome, refused)
<1>1. r = TickAndSend(c3, at.now, outcome, refused)
  BY DEF FlushTicks, ProcessAcks
<1>2. /\ c1 \in ClientState(S) /\ Ready(V, log, c1, whole) /\ SameClient(c, c1)
      /\ c1.t.sentNum = c.t.sentNum
  BY ForceKnownBaseReady
<1>. HIDE DEF c1
<1>3. /\ c2 \in ClientState(S) /\ Ready(V, log, c2, whole) /\ SameClient(c1, c2)
      /\ c2.t = c1.t
  BY <1>2, ReleaseAckedReady
<1>. HIDE DEF c2
<1>4. /\ c3.t \in TransportState(Seq(S)) /\ ~c3.t.shutdown
      /\ {"t", "dead"} \subseteq DOMAIN c3
  BY <1>2, <1>3, QueueInputTyped DEF Ready, SameClient
<1>5. c3.t.sentNum \in {c2.t.sentNum, c2.t.sentNum + 1}
  <2>. DEFINE bases == InputBases(c2, at.fresh, saves)
              old == InputBase(c2, bases)
              cut == InputCut(c2, bases)
              u == SetPendingFrom(c2.t, old, From(c2.actions, cut))
              more == c2.counts \cup {[state |-> u.sentNum, count |-> Len(c2.actions)]}
  <2>1. c3 \in {c2, [c2 EXCEPT !.dirty = FALSE],
                [c2 EXCEPT !.dirty = FALSE, !.known = FALSE, !.t = u, !.counts = more]}
    BY DEF QueueInput, InputBases, InputBase, InputCut
  <2>2. u.sentNum \in {c2.t.sentNum, c2.t.sentNum + 1}
    <3>. HIDE DEF old, cut
    <3>. QED
      BY <1>3 DEF SetPendingFrom, ClientState, TransportState
  <2>. HIDE DEF u, more, c3
  <2>. QED
    BY <1>3, <2>1, <2>2 DEF ClientState
<1>. HIDE DEF c3
<1>6. c.t.sentNum \in Nat /\ ShutdownNum \in Nat /\ c.t.sentNum + 2 < ShutdownNum
  BY ClientFields, CapAssumption
<1>11. c3.t.sentNum \in {c.t.sentNum, c.t.sentNum + 1}
  <2>1. c2.t.sentNum = c.t.sentNum
    BY <1>2, <1>3
  <2>. QED
    BY <1>5, <2>1
<1>. DEFINE n == c.t.sentNum
            n3 == c3.t.sentNum
<1>12. n \in Nat /\ n + 2 < ShutdownNum /\ n3 \in {n, n + 1} /\ ShutdownNum \in Nat
  BY <1>6, <1>11
<1>. HIDE DEF n, n3
<1>7. c3.t.sentNum # ShutdownNum
  <2>1. n3 # ShutdownNum
    BY <1>12
  <2>. QED
    BY <2>1 DEF n3
<1>8. q.t.sentNum \in {c3.t.sentNum, c3.t.sentNum + 1}
  BY <1>4, <1>7, TickNumbers
<1>9. "sentNum" \in DOMAIN q.t
  <2>1. DOMAIN q.t = DOMAIN c3.t
    BY <1>4, TickDomain
  <2>. QED
    BY <1>4, <2>1 DEF TransportState
<1>10. r.c.t.sentNum = q.t.sentNum
  <2>. DEFINE v == IF refused /\ q.out # {} THEN SetMaxFragmentPayload(q.t) ELSE q.t
              gone == q.t.fault # "none"
  <2>1. r.c = [c3 EXCEPT !.t = v, !.dead = gone] /\ v \in {q.t, SetMaxFragmentPayload(q.t)}
    BY <1>1 DEF TickAndSend
  <2>. HIDE DEF v, gone, r, q
  <2>2. r.c.t = v
    BY <1>4, <2>1
  <2>. QED
    BY <1>9, <2>1, <2>2 DEF SetMaxFragmentPayload
<1>13. q.t.sentNum \in {n3, n3 + 1}
  BY <1>8 DEF n3
<1>. DEFINE m == q.t.sentNum
<1>14. r.c.t.sentNum = m /\ m \in {n3, n3 + 1}
  BY <1>10, <1>13
<1>. HIDE DEF m
<1>15. m < ShutdownNum
  BY <1>12, <1>14
<1>16. r.c.t.sentNum < ShutdownNum
  BY <1>14, <1>15
<1>. QED
  BY <1>16 DEF r

-----------------------------------------------------------------------------
(***************************************************************************)
(* The first client, and the one that closes.                              *)
(***************************************************************************)

\* V before any number was given out.
NoMarks == [n \in Nat |-> 0]

\* A client that was just dialled has the terminal's size to send.
LEMMA DialledFaithful ==
    ASSUME NEW S, NEW a \in S, NEW whole \in BOOLEAN
    PROVE  /\ Dialled(a) \in ClientState(S) /\ ~Dialled(a).dead /\ ~Dialled(a).initial
           /\ Faithful(NoMarks, <<a>>, Dialled(a), whole)
           /\ ~Dialled(a).t.shutdown /\ Dialled(a).t.received = {0}
           /\ Dialled(a).t.acked = 0 /\ Dialled(a).t.sentNum = 0
           /\ ~Dialled(a).t.quenched
<1>. DEFINE t == ForceNextSend(NewTransport(FALSE))
            c == Dialled(a)
            log == <<a>>
            V == NoMarks
<1>1. t = [NewTransport(FALSE) EXCEPT !.force = TRUE]
  BY DEF ForceNextSend
<1>2. /\ t.sentNum = 0 /\ t.acked = 0 /\ t.outbound = {} /\ t.localThrow = 0
      /\ t.received = {0} /\ t.ackNum = 0 /\ t.throw = 0 /\ t.tries = 0
      /\ ~t.shutdown /\ ~t.quenched /\ ~t.rebase /\ ~t.overflowed
  BY <1>1 DEF NewTransport
<1>3. t \in TransportState(Seq(S))
  <2>1. NewTransport(FALSE) \in TransportState(Seq(S))
    BY CapAssumption DEF NewTransport, TransportState
  <2>. QED
    BY <1>1, <2>1 DEF TransportState
<1>. HIDE DEF t
<1>4. Sound(t)
  BY <1>2, CapAssumption DEF Sound
<1>5. log \in Seq(S) /\ Len(log) = 1
  OBVIOUS
<1>6. c = [t |-> t, actions |-> log, ackedCount |-> 0, lastAcked |-> 0,
           counts |-> {}, dirty |-> TRUE, known |-> FALSE,
           initial |-> FALSE, dead |-> FALSE]
  BY DEF Dialled, t
<1>. HIDE DEF c, log
<1>7. c \in ClientState(S)
  BY <1>3, <1>5, <1>6 DEF ClientState
<1>8. /\ c.t = t /\ c.actions = log /\ c.ackedCount = 0 /\ c.lastAcked = 0
      /\ c.counts = {} /\ c.dirty /\ ~c.initial /\ ~c.dead
  BY <1>6
<1>9. V \in [Nat -> Nat] /\ \A n \in Nat : V[n] = 0
  BY DEF NoMarks
<1>. HIDE DEF V
<1>10. Marks(V, log, t)
  BY <1>2, <1>5, <1>9 DEF Marks
<1>11. Queued(V, log, t) /\ AtTip(V, t)
  BY <1>2 DEF Queued, AtTip
<1>12. Bounded(c)
  BY <1>2, <1>8 DEF Bounded
<1>13. Logged(V, log, c)
  <2>1. log = Part(log, 0, Len(log))
    BY <1>5, PartEnds
  <2>2. \A n \in 0 .. 0 : V[n] = V[0]
    BY <1>9
  <2>. QED
    BY <1>2, <1>8, <1>9, <2>1, <2>2 DEF Logged
<1>14. Faithful(V, log, c, whole)
  BY <1>2, <1>4, <1>8, <1>10, <1>11, <1>12, <1>13 DEF Faithful
<1>. QED
  BY <1>2, <1>7, <1>8, <1>14 DEF c, log, V

\* c with its shutdown started, and what that does not touch.
InShutdown(c, initial) == [c EXCEPT !.initial = initial, !.t = StartShutdown(@)]

ShutsDown(c, d, initial) ==
    /\ d.t.shutdown /\ ~d.t.rebase /\ d.initial = initial /\ d.dead = c.dead
    /\ d.t.sentNum = c.t.sentNum /\ d.t.acked = c.t.acked /\ d.lastAcked = c.lastAcked
    /\ d.t.received = c.t.received /\ d.t.attached = c.t.attached
    /\ d.t.quenched = c.t.quenched

\* A shutdown that starts when no rebase is awaited leaves a client that is
\* at the tip: its newest queued state is what the shutdown will carry.
LEMMA StartShutdownFaithful ==
    ASSUME NEW S, NEW c \in ClientState(S), NEW log, NEW V, NEW whole \in BOOLEAN,
           Faithful(V, log, c, whole), ~c.t.rebase,
           NEW initial \in BOOLEAN
    PROVE  /\ InShutdown(c, initial) \in ClientState(S)
           /\ Faithful(V, log, InShutdown(c, initial), whole)
           /\ ShutsDown(c, InShutdown(c, initial), initial)
<1>. DEFINE t == c.t
            u == StartShutdown(t)
            d == [c EXCEPT !.initial = initial, !.t = u]
            Diff == Seq(S)
<1>1. t \in TransportState(Diff) /\ Sound(t)
  BY ClientFields DEF Faithful
<1>. HIDE DEF t, Diff
<1>2. u \in TransportState(Diff) /\ Sound(u)
  BY <1>1, FlagsSound
<1>3. /\ u.shutdown /\ u.rebase = t.rebase /\ u.sentNum = t.sentNum /\ u.acked = t.acked
      /\ u.outbound = t.outbound /\ u.received = t.received /\ u.attached = t.attached
      /\ u.quenched = t.quenched
  BY <1>1 DEF StartShutdown, TransportState
<1>. HIDE DEF u
<1>4. d \in ClientState(S)
  BY <1>2 DEF ClientState, Diff
<1>5. /\ d.t = u /\ d.actions = c.actions /\ d.ackedCount = c.ackedCount
      /\ d.lastAcked = c.lastAcked /\ d.counts = c.counts /\ d.dead = c.dead
      /\ d.initial = initial
  BY DEF ClientState
<1>. HIDE DEF d
<1>6. Bounded(d) /\ Marks(V, log, u) /\ Queued(V, log, u)
  BY <1>3, <1>5 DEF Faithful, Bounded, Marks, Queued, t
<1>7. whole => AtTip(V, u)
  BY <1>3 DEF Faithful, AtTip, t
<1>8. Faithful(V, log, d, whole)
  BY <1>2, <1>3, <1>5, <1>6, <1>7 DEF Faithful, t
<1>9. ShutsDown(c, d, initial)
  BY <1>3, <1>5 DEF ShutsDown, t
<1>. QED
  BY <1>4, <1>8, <1>9 DEF d, u, t, InShutdown

=============================================================================
