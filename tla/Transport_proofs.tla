-------------------------- MODULE Transport_proofs --------------------------
(***************************************************************************)
(* What the operators of Transport.tla guarantee about one endpoint, each  *)
(* proved once for the proofs of the modules built on it to cite by name.  *)
(***************************************************************************)
EXTENDS Transport, WellFoundedInduction, SequenceTheorems, TLAPS

-----------------------------------------------------------------------------
(***************************************************************************)
(* Extrema of sets of naturals.                                            *)
(***************************************************************************)

\* A set of naturals that is not empty has a least member.
LEMMA LeastExists ==
    ASSUME NEW S \in SUBSET Nat, S # {}
    PROVE  \E x \in S : \A y \in S : x <= y
<1>1. \E x \in S : \A y \in S : <<y, x>> \notin OpToRel(<, Nat)
  BY NatLessThanWellFounded, WFMin, Zenon
<1>2. PICK x \in S : \A y \in S : <<y, x>> \notin OpToRel(<, Nat)
  BY <1>1
<1>3. \A y \in S : ~(y < x)
  BY <1>2 DEF OpToRel
<1>. QED
  BY <1>3

\* Min returns a member that bounds the set from below.
LEMMA MinIsLeast ==
    ASSUME NEW S \in SUBSET Nat, S # {}
    PROVE  Min(S) \in S /\ \A y \in S : Min(S) <= y
BY LeastExists DEF Min

\* A bounded queue that is not empty has a back.
LEMMA BackIsLast ==
    ASSUME NEW Q, Q # {}, NEW bound \in Nat,
           \A s \in Q : s.new \in Nat /\ s.new <= bound
    PROVE  Back(Q) \in Q /\ \A r \in Q : r.new <= Back(Q).new
<1>. DEFINE Gaps == {bound - s.new : s \in Q}
<1>1. Gaps \in SUBSET Nat /\ Gaps # {}
  OBVIOUS
<1>. HIDE DEF Gaps
<1>2. PICK g \in Gaps : \A h \in Gaps : g <= h
  BY <1>1, LeastExists
<1>3. PICK s \in Q : g = bound - s.new
  BY <1>2 DEF Gaps
<1>4. \A r \in Q : r.new <= s.new
  <2>. SUFFICES ASSUME NEW r \in Q PROVE r.new <= s.new
    OBVIOUS
  <2>1. g <= bound - r.new
    BY <1>2 DEF Gaps
  <2>. QED
    BY <2>1, <1>3
<1>. QED
  BY <1>3, <1>4 DEF Back

\* A cull adds nothing.
LEMMA KeptIsSubset == ASSUME NEW N PROVE Kept(N) \subseteq N
BY DEF Kept

\* Send times stay a sequence of numbers, whatever is culled or drained.
LEMMA SendTimesAreTyped ==
    ASSUME NEW times \in Seq(Nat), NEW num \in Nat
    PROVE  Recorded(times, num) \in Seq(Nat) /\ Drained(times, num) \in Seq(Nat)
<1>. DEFINE all == Append(times, num)
            cut == Len(all) - CullKeep
            at == CHOOSE i \in DOMAIN times : times[i] = num
<1>1. all \in Seq(Nat) /\ Len(all) \in Nat
  BY AppendProperties
<1>2. \A i \in 1 .. Len(all) : all[i] \in Nat
  BY <1>1
<1>. HIDE DEF all
<1>3. ASSUME Len(all) > SentStateCap
      PROVE  SubSeq(all, 1, cut) \o SubSeq(all, cut + 2, Len(all)) \in Seq(Nat)
  <2>1. cut \in Int /\ cut + 2 \in Int /\ 1 <= cut + 2 /\ cut <= Len(all)
    BY <1>1, <1>3, CapAssumption
  <2>2. SubSeq(all, 1, cut) \in Seq(Nat)
    BY <1>1, <1>2, <2>1, SubSeqProperties
  <2>3. SubSeq(all, cut + 2, Len(all)) \in Seq(Nat)
    BY <1>1, <1>2, <2>1, SubSeqProperties
  <2>. QED
    BY <2>2, <2>3, ConcatProperties
<1>4. Recorded(times, num) \in Seq(Nat)
  <2>. DEFINE rest == SubSeq(all, 1, cut) \o SubSeq(all, cut + 2, Len(all))
  <2>1. Recorded(times, num) = IF num \in Listed(times) THEN times
                               ELSE IF Len(all) <= SentStateCap THEN all ELSE rest
    BY DEF Recorded, all
  <2>2. Len(all) > SentStateCap => rest \in Seq(Nat)
    BY <1>3
  <2>. HIDE DEF rest
  <2>. QED
    BY <1>1, <2>1, <2>2, CapAssumption
<1>5. ASSUME num \in Listed(times)
      PROVE  SubSeq(times, at, Len(times)) \in Seq(Nat)
  <2>1. at \in 1 .. Len(times)
    BY <1>5 DEF Listed
  <2>. HIDE DEF at
  <2>2. \A i \in at .. Len(times) : times[i] \in Nat
    BY <2>1
  <2>. QED
    BY <2>1, <2>2, SubSeqProperties
<1>6. Drained(times, num) \in Seq(Nat)
  BY <1>5 DEF Drained
<1>. QED
  BY <1>4, <1>6

-----------------------------------------------------------------------------
(***************************************************************************)
(* The invariant of one endpoint.                                          *)
(***************************************************************************)

\* Queued states sit between the acknowledged state and the last number
\* given out; the received window runs from the throwaway watermark to the
\* newest state, which is in it.
Sound(t) ==
    /\ t.localThrow = t.acked /\ t.acked <= t.sentNum
    /\ t.sentNum = ShutdownNum => t.shutdown
    /\ \A s \in t.outbound : s.old < s.new /\ t.acked < s.new /\ s.new <= t.sentNum
    /\ t.ackNum \in t.received
    /\ \A n \in t.received : t.throw <= n /\ n <= t.ackNum

\* The numbers of an endpoint.
LEMMA Fields ==
    ASSUME NEW Diff, NEW t \in TransportState(Diff)
    PROVE  /\ t.sentNum \in 0 .. ShutdownNum /\ t.tries \in 0 .. ShutdownRetries
           /\ {t.acked, t.localThrow, t.ackNum, t.sentAck, t.throw} \subseteq Nat
           /\ t.outbound \subseteq OutboundState(Diff) /\ t.received \subseteq Nat
BY DEF TransportState

\* What a call on the sending side of t leaves alone: the receiving half, the
\* acknowledged state, and the reach of the queue back into the past.
SendSide(t, u) ==
    /\ u.acked = t.acked /\ u.ackNum = t.ackNum
    /\ u.received = t.received /\ u.throw = t.throw
    /\ t.peerShutdownAcked => u.peerShutdownAcked
    /\ \A s \in u.outbound : t.acked <= s.old \/ \E r \in t.outbound : r.old = s.old

\* What an instruction says of the endpoint that has just sent it.
Announces(u, m) ==
    /\ m.throw <= u.acked /\ \A s \in u.outbound : m.throw <= s.old
    /\ m.throw <= m.old /\ m.old < m.new
    /\ m.ack = u.ackNum
    /\ m.ack = ShutdownNum => u.peerShutdownAcked

\* set_pending_from queues a state on a base that is queued or acknowledged
\* and moves nothing else of the endpoint.
LEMMA SetPendingFromSound ==
    ASSUME NEW Diff, NEW t \in TransportState(Diff), Sound(t),
           NEW old \in Nat, NEW diff \in Diff, t.sentNum + 1 < ShutdownNum
    PROVE  LET u == SetPendingFrom(t, old, diff)
           IN  u \in TransportState(Diff) /\ Sound(u) /\ SendSide(t, u)
<1>. DEFINE base == IF old \in {t.acked} \cup NumsOf(t.outbound) THEN old ELSE t.acked
            s0 == [old |-> base, new |-> t.sentNum + 1, diff |-> diff, sent |-> FALSE]
            queue == t.outbound \cup {s0}
            kept == {s \in queue : s.new \in Kept(NumsOf(queue))}
            over == t.overflowed \/ Cardinality(queue) > SentStateCap
            u == [t EXCEPT !.sentNum = t.sentNum + 1, !.outbound = kept, !.overflowed = over]
<1>1. CASE t.shutdown
  BY <1>1 DEF SetPendingFrom, SendSide
<1>2. CASE ~t.shutdown
  <2>1. SetPendingFrom(t, old, diff) = u
    BY <1>2 DEF SetPendingFrom
  <2>2. base \in Nat /\ t.acked <= base /\ base <= t.sentNum
    BY CapAssumption DEF Sound, TransportState, OutboundState, NumsOf
  <2>3. s0 \in OutboundState(Diff)
    BY <2>2, CapAssumption DEF OutboundState, TransportState
  <2>. HIDE DEF base
  <2>4. kept \subseteq t.outbound \cup {s0}
    OBVIOUS
  <2>5. over \in BOOLEAN
    BY DEF TransportState
  <2>. HIDE DEF kept, s0, over
  <2>6. u \in TransportState(Diff)
    <3>1. kept \in SUBSET OutboundState(Diff)
      BY <2>3, <2>4 DEF TransportState
    <3>2. t.sentNum + 1 \in 0 .. ShutdownNum
      BY CapAssumption DEF TransportState
    <3>. QED
      BY <2>5, <3>1, <3>2 DEF TransportState
  <2>7. /\ u.sentNum = t.sentNum + 1 /\ u.outbound = kept
        /\ u.acked = t.acked /\ u.localThrow = t.localThrow
        /\ u.shutdown = t.shutdown /\ u.ackNum = t.ackNum
        /\ u.received = t.received /\ u.throw = t.throw
        /\ u.peerShutdownAcked = t.peerShutdownAcked
    BY DEF TransportState
  <2>8. s0.old = base /\ s0.new = t.sentNum + 1
    BY DEF s0
  <2>. HIDE DEF u
  <2>9. Sound(u)
    BY SMTT(30), <2>2, <2>4, <2>7, <2>8, CapAssumption DEF Sound, TransportState, OutboundState
  <2>10. SendSide(t, u)
    BY <2>2, <2>4, <2>7, <2>8 DEF SendSide
  <2>. QED
    BY <2>1, <2>6, <2>9, <2>10
<1>. QED
  BY <1>1, <1>2

\* The small calls only raise flags or mark queued states unsent again.
LEMMA FlagsSound ==
    ASSUME NEW Diff, NEW t \in TransportState(Diff), Sound(t),
           NEW u \in {TakeRebase(t), SetMaxFragmentPayload(t), StartShutdown(t)}
    PROVE  u \in TransportState(Diff) /\ Sound(u) /\ SendSide(t, u)
<1>1. TakeRebase(t) \in TransportState(Diff) /\ Sound(TakeRebase(t))
      /\ SendSide(t, TakeRebase(t))
  BY DEF TakeRebase, TransportState, Sound, SendSide
<1>2. StartShutdown(t) \in TransportState(Diff) /\ Sound(StartShutdown(t))
      /\ SendSide(t, StartShutdown(t))
  <2>. DEFINE u0 == [t EXCEPT !.shutdown = TRUE, !.force = TRUE]
  <2>1. u0 \in TransportState(Diff)
    BY DEF TransportState
  <2>2. Sound(u0) /\ SendSide(t, u0)
    BY DEF TransportState, Sound, SendSide
  <2>3. SendSide(t, t)
    BY DEF SendSide
  <2>4. StartShutdown(t) \in {t, u0}
    BY DEF StartShutdown
  <2>. QED
    BY <2>1, <2>2, <2>3, <2>4
<1>. DEFINE fresh == {[s EXCEPT !.sent = FALSE] : s \in t.outbound}
            v == SetMaxFragmentPayload(t)
<1>3. v \in TransportState(Diff) /\ Sound(v) /\ SendSide(t, v)
  <2>1. fresh \in SUBSET OutboundState(Diff)
    <3>1. t.outbound \subseteq OutboundState(Diff)
      BY DEF TransportState
    <3>2. \A s \in OutboundState(Diff) : [s EXCEPT !.sent = FALSE] \in OutboundState(Diff)
      BY DEF OutboundState
    <3>. QED
      BY <3>1, <3>2
  <2>2. \A s \in fresh : \E r \in t.outbound : r.old = s.old /\ r.new = s.new
    BY DEF OutboundState, TransportState
  <2>3. v = [t EXCEPT !.outbound = fresh, !.force = TRUE]
    BY DEF SetMaxFragmentPayload
  <2>. HIDE DEF fresh, v
  <2>4. v \in TransportState(Diff)
    BY <2>1, <2>3 DEF TransportState
  <2>5. Sound(v)
    BY <2>2, <2>3 DEF TransportState, Sound
  <2>6. SendSide(t, v)
    BY <2>2, <2>3 DEF TransportState, SendSide
  <2>. QED
    BY <2>4, <2>5, <2>6
<1>. QED
  BY <1>1, <1>2, <1>3

\* Steps of the sending half compose.
LEMMA SendSideTransitive ==
    ASSUME NEW t, NEW u, NEW v, SendSide(t, u), SendSide(u, v)
    PROVE  SendSide(t, v)
BY DEF SendSide

-----------------------------------------------------------------------------
(***************************************************************************)
(* tick().                                                                 *)
(***************************************************************************)

\* Dropping superseded states only shortens the queue.
LEMMA DropSupersededSound ==
    ASSUME NEW Diff, NEW t \in TransportState(Diff), Sound(t)
    PROVE  LET d == DropSuperseded(t)
           IN  /\ d \in TransportState(Diff) /\ Sound(d) /\ SendSide(t, d)
               /\ d.shutdown = t.shutdown
BY DEF DropSuperseded, TransportState, Sound, SendSide

\* The watermark never passes the base of a queued state.
LEMMA ThrowawayBelow ==
    ASSUME NEW Diff, NEW t \in TransportState(Diff)
    PROVE  /\ Throwaway(t) \in Nat /\ Throwaway(t) <= t.localThrow
           /\ \A s \in t.outbound : Throwaway(t) <= s.old
<1>. DEFINE bases == {t.localThrow} \cup {s.old : s \in t.outbound}
<1>1. bases \in SUBSET Nat /\ bases # {}
  BY DEF TransportState, OutboundState
<1>2. Min(bases) \in bases /\ \A b \in bases : Min(bases) <= b
  BY <1>1, MinIsLeast
<1>. QED
  BY <1>1, <1>2 DEF Throwaway

\* How a tick can end.
Faulted == {"none", "too_large", "exhausted"}

\* The tail of tick(): what leaves carries a watermark at or below its base
\* and the endpoint's newest acknowledgement.
LEMMA TransmitSound ==
    ASSUME NEW Diff, NEW t \in TransportState(Diff), Sound(t),
           NEW old \in Nat, NEW new \in Nat, NEW diff \in Diff, NEW outcome \in Faulted,
           old < new,
           t.acked <= old \/ \E s \in t.outbound : s.old = old
    PROVE  LET r == Transmit(t, old, new, diff, outcome)
           IN  /\ r.t \in TransportState(Diff) /\ Sound(r.t) /\ SendSide(t, r.t)
               /\ \A m \in r.out : m \in Instruction(Diff) /\ Announces(r.t, m)
<1>. DEFINE r == Transmit(t, old, new, diff, outcome)
            times == IF outcome = "none" THEN Recorded(t.sentTimes, new) ELSE t.sentTimes
            told == t.peerShutdownAcked \/ t.ackNum = ShutdownNum
            u == [t EXCEPT !.force = FALSE, !.ackPending = FALSE, !.sentAck = t.ackNum,
                           !.peerShutdownAcked = told, !.fault = outcome,
                           !.sentTimes = times]
            m0 == [old |-> old, new |-> new, diff |-> diff,
                   ack |-> t.ackNum, throw |-> Throwaway(t)]
<1>1. r.t = u /\ r.out \subseteq {m0}
  BY DEF Transmit, told
<1>2. times \in Seq(Nat)
  BY SendTimesAreTyped DEF TransportState
<1>3. told \in BOOLEAN
  BY DEF TransportState
<1>. HIDE DEF times, told
<1>4. u \in TransportState(Diff)
  <2>1. t.ackNum \in Nat /\ outcome \in {"none", "too_large", "exhausted"}
    BY DEF TransportState, Faulted
  <2>. QED
    BY <1>2, <1>3, <2>1 DEF TransportState
<1>5. /\ u.sentNum = t.sentNum /\ u.outbound = t.outbound
      /\ u.acked = t.acked /\ u.localThrow = t.localThrow
      /\ u.shutdown = t.shutdown /\ u.ackNum = t.ackNum
      /\ u.received = t.received /\ u.throw = t.throw
      /\ u.peerShutdownAcked = told
  BY DEF TransportState
<1>. HIDE DEF u
<1>6. Sound(u) /\ SendSide(t, u)
  BY <1>5 DEF Sound, SendSide, told
<1>7. m0 \in Instruction(Diff)
  BY ThrowawayBelow DEF Instruction, TransportState
<1>8. Announces(u, m0)
  <2>1. /\ Throwaway(t) \in Nat /\ Throwaway(t) <= t.acked
        /\ \A s \in t.outbound : Throwaway(t) <= s.old
    BY ThrowawayBelow DEF Sound
  <2>2. Throwaway(t) <= old
    BY <2>1 DEF TransportState
  <2>. QED
    BY <1>5, <2>1, <2>2 DEF Announces, told
<1>. HIDE DEF r, m0
<1>. QED
  BY <1>1, <1>4, <1>6, <1>7, <1>8 DEF r

\* The tail of tick() numbers nothing and does not end or begin a shutdown.
LEMMA TransmitKeeps ==
    ASSUME NEW Diff, NEW t \in TransportState(Diff), NEW old, NEW new, NEW diff, NEW outcome
    PROVE  LET u == Transmit(t, old, new, diff, outcome).t
           IN  u.sentNum = t.sentNum /\ u.shutdown = t.shutdown
BY DEF Transmit, TransportState

\* What a tick that sends must establish, whichever state it sends.
Sends(Diff, t, r) ==
    /\ r.t \in TransportState(Diff) /\ Sound(r.t) /\ SendSide(t, r.t)
    /\ \A m \in r.out : m \in Instruction(Diff) /\ Announces(r.t, m)

\* tick() may put any state of the queue on the wire.
LEMMA TransmitQueuedSound ==
    ASSUME NEW Diff, NEW t \in TransportState(Diff), Sound(t),
           NEW s \in t.outbound, NEW outcome \in Faulted
    PROVE  Sends(Diff, t, TransmitQueued(t, s, outcome))
<1>. DEFINE s1 == [s EXCEPT !.sent = TRUE]
            queue == (t.outbound \ {s}) \cup {s1}
            early == t.immediate /\ s.sent
            u == [t EXCEPT !.outbound = queue, !.immediate = early]
<1>1. s \in OutboundState(Diff)
  BY DEF TransportState
<1>2. s1 \in OutboundState(Diff) /\ s1.old = s.old /\ s1.new = s.new
  BY <1>1 DEF OutboundState
<1>. HIDE DEF s1
<1>3. queue \in SUBSET OutboundState(Diff)
  BY <1>2 DEF TransportState
<1>4. s1 \in queue /\ queue \subseteq t.outbound \cup {s1}
  OBVIOUS
<1>5. early \in BOOLEAN
  BY DEF TransportState
<1>. HIDE DEF queue, early
<1>6. u \in TransportState(Diff) /\ u.outbound = queue
  BY <1>3, <1>5 DEF TransportState
<1>7. Sound(u)
  BY <1>2, <1>4 DEF Sound, TransportState
<1>8. SendSide(t, u)
  BY <1>2, <1>4 DEF SendSide, TransportState
<1>9. TransmitQueued(t, s, outcome) = Transmit(u, s.old, s.new, s.diff, outcome)
  BY DEF TransmitQueued, s1, queue, early
<1>. HIDE DEF u
<1>10. s.old \in Nat /\ s.new \in Nat /\ s.diff \in Diff /\ s.old < s.new
  BY <1>1 DEF OutboundState, Sound
<1>11. \E r \in u.outbound : r.old = s.old
  BY <1>2, <1>4, <1>6
<1>12. Sends(Diff, u, Transmit(u, s.old, s.new, s.diff, outcome))
  BY <1>6, <1>7, <1>10, <1>11, TransmitSound DEF Sends
<1>. QED
  BY <1>8, <1>9, <1>12, SendSideTransitive DEF Sends

\* The back of the queue of a sound endpoint.
LEMMA BackOfQueue ==
    ASSUME NEW Diff, NEW t \in TransportState(Diff), Sound(t), t.outbound # {}
    PROVE  /\ Back(t.outbound) \in t.outbound
           /\ \A r \in t.outbound : r.new <= Back(t.outbound).new
<1>1. t.sentNum \in Nat /\ \A s \in t.outbound : s.new \in Nat /\ s.new <= t.sentNum
  BY CapAssumption DEF TransportState, OutboundState, Sound
<1>. QED
  BY <1>1, BackIsLast

\* tick() may number an empty state above everything queued.
LEMMA TransmitEmptySound ==
    ASSUME NEW Diff, NoDiff \in Diff, NEW t \in TransportState(Diff), Sound(t),
           ~t.shutdown, t.sentNum + 1 < ShutdownNum, NEW outcome \in Faulted
    PROVE  Sends(Diff, t, TransmitEmpty(t, outcome))
<1>. DEFINE tip == IF t.outbound = {} THEN t.acked ELSE Back(t.outbound).new
            new == t.sentNum + 1
            u == [t EXCEPT !.sentNum = new]
<1>1. new \in Nat /\ new \in 0 .. ShutdownNum /\ t.sentNum # ShutdownNum
  BY CapAssumption DEF TransportState, Sound
<1>2. tip \in Nat /\ t.acked <= tip /\ tip < new
  BY BackOfQueue, Fields, CapAssumption DEF OutboundState, Sound
<1>. HIDE DEF tip
<1>3. u \in TransportState(Diff)
  BY <1>1 DEF TransportState
<1>4. Sound(u) /\ SendSide(t, u) /\ u.acked <= tip
  BY SMTT(30), <1>1, <1>2, CapAssumption DEF TransportState, OutboundState, Sound, SendSide
<1>5. TransmitEmpty(t, outcome) = Transmit(u, tip, new, NoDiff, outcome)
  BY <1>1 DEF TransmitEmpty, tip
<1>. HIDE DEF u, new
<1>6. Sends(Diff, u, Transmit(u, tip, new, NoDiff, outcome))
  BY <1>1, <1>2, <1>3, <1>4, TransmitSound DEF Sends
<1>. QED
  BY <1>4, <1>5, <1>6, SendSideTransitive DEF Sends

\* In shutdown tick() may renumber the back of the queue as u64::MAX.
LEMMA TransmitShutdownSound ==
    ASSUME NEW Diff, NoDiff \in Diff, NEW t \in TransportState(Diff), Sound(t),
           t.shutdown, t.acked # ShutdownNum, t.tries < ShutdownRetries,
           NEW outcome \in Faulted
    PROVE  Sends(Diff, t, TransmitShutdown(t, outcome))
<1>. DEFINE u == [t EXCEPT !.sentNum = ShutdownNum, !.tries = t.tries + 1]
            last == Back(t.outbound)
<1>1. ShutdownNum \in Nat /\ t.acked \in Nat /\ t.acked < ShutdownNum
  BY CapAssumption DEF TransportState, Sound
<1>2. t.tries + 1 \in 0 .. ShutdownRetries /\ ShutdownNum \in 0 .. ShutdownNum
  BY CapAssumption DEF TransportState
<1>3. u \in TransportState(Diff)
  BY <1>1, <1>2 DEF TransportState
<1>4. Sound(u) /\ SendSide(t, u) /\ u.acked = t.acked /\ u.outbound = t.outbound
  BY <1>1, CapAssumption DEF TransportState, OutboundState, Sound, SendSide
<1>5. CASE t.outbound = {}
  <2>1. TransmitShutdown(t, outcome) = Transmit(u, t.acked, ShutdownNum, NoDiff, outcome)
    BY <1>5 DEF TransmitShutdown
  <2>. HIDE DEF u
  <2>2. Sends(Diff, u, Transmit(u, t.acked, ShutdownNum, NoDiff, outcome))
    BY <1>1, <1>3, <1>4, TransmitSound DEF Sends
  <2>. QED
    BY <1>4, <2>1, <2>2, SendSideTransitive DEF Sends
<1>6. CASE t.outbound # {}
  <2>1. TransmitShutdown(t, outcome) = Transmit(u, last.old, ShutdownNum, last.diff, outcome)
    BY <1>6 DEF TransmitShutdown
  <2>2. last \in t.outbound
    BY <1>6, BackOfQueue
  <2>. HIDE DEF u, last
  <2>3. last.old \in Nat /\ last.diff \in Diff /\ last.old < ShutdownNum
    BY <2>2, CapAssumption DEF TransportState, OutboundState, Sound
  <2>4. Sends(Diff, u, Transmit(u, last.old, ShutdownNum, last.diff, outcome))
    BY <1>1, <1>3, <1>4, <2>2, <2>3, TransmitSound DEF Sends
  <2>. QED
    BY <1>4, <2>1, <2>4, SendSideTransitive DEF Sends
<1>. QED
  BY <1>5, <1>6

\* One tick keeps its endpoint sound, leaves the receiving half alone and
\* sends only what it can answer for.
LEMMA TickSound ==
    ASSUME NEW Diff, NoDiff \in Diff, NEW t \in TransportState(Diff), Sound(t),
           NEW now, NEW outcome \in Faulted,
           LET u == TickResult(t, now, outcome).t
           IN  u.sentNum = ShutdownNum => u.shutdown
    PROVE  Sends(Diff, t, TickResult(t, now, outcome))
<1>. DEFINE d == DropSuperseded(t)
            r == TickResult(t, now, outcome)
<1>1. d \in TransportState(Diff) /\ Sound(d) /\ SendSide(t, d)
  BY DropSupersededSound
<1>. SUFFICES Sends(Diff, d, r) \/ r = [t |-> d, out |-> {}]
  BY <1>1, SendSideTransitive DEF Sends
<1>2. CASE ~SendDue(d, now)
  BY <1>2 DEF TickResult
<1>3. CASE SendDue(d, now) /\ d.shutdown
  <2>1. r = TransmitShutdown(d, outcome)
    BY <1>3 DEF TickResult
  <2>2. d.acked # ShutdownNum /\ ~(d.tries >= ShutdownRetries)
    BY <1>3 DEF SendDue, ShutdownDue, ShutdownAcknowledged, ShutdownTimedOut
  <2>3. d.tries < ShutdownRetries
    BY <1>1, <2>2, CapAssumption, Fields
  <2>. QED
    BY <1>1, <1>3, <2>1, <2>2, <2>3, TransmitShutdownSound
<1>4. CASE SendDue(d, now) /\ ~d.shutdown /\ Candidates(d, now) # {}
  <2>. DEFINE Q == Candidates(d, now)
  <2>1. r = TransmitQueued(d, Back(Q), outcome)
    BY <1>4 DEF TickResult
  <2>2. Q \subseteq d.outbound
    BY DEF Candidates, Unsent, Overdue
  <2>3. d.sentNum \in Nat /\ \A s \in d.outbound : s.new \in Nat /\ s.new <= d.sentNum
    BY SMTT(30), <1>1, CapAssumption DEF TransportState, OutboundState, Sound
  <2>. HIDE DEF Q, d
  <2>4. Back(Q) \in Q
    BY <1>4, <2>2, <2>3, BackIsLast DEF Q
  <2>. QED
    BY <1>1, <2>1, <2>2, <2>4, TransmitQueuedSound
<1>5. CASE SendDue(d, now) /\ ~d.shutdown /\ Candidates(d, now) = {}
  <2>1. r = TransmitEmpty(d, outcome)
    BY <1>5 DEF TickResult
  <2>2. d.sentNum # ShutdownNum
    BY <1>1, <1>5 DEF Sound
  <2>3. r.t.sentNum = d.sentNum + 1 /\ r.t.shutdown = d.shutdown
    <3>. DEFINE tip == IF d.outbound = {} THEN d.acked ELSE Back(d.outbound).new
                u == [d EXCEPT !.sentNum = d.sentNum + 1]
    <3>. HIDE DEF tip, d
    <3>1. d.sentNum + 1 \in 0 .. ShutdownNum
      BY <1>1, <2>2, CapAssumption, Fields
    <3>2. u \in TransportState(Diff) /\ u.sentNum = d.sentNum + 1 /\ u.shutdown = d.shutdown
      BY <1>1, <3>1 DEF TransportState
    <3>3. r = Transmit(u, tip, d.sentNum + 1, NoDiff, outcome)
      BY <2>1, <2>2 DEF TransmitEmpty, tip
    <3>. HIDE DEF u, r
    <3>. QED
      BY <3>2, <3>3, TransmitKeeps
  <2>4. d.sentNum + 1 < ShutdownNum
    <3>1. d.sentNum \in 0 .. ShutdownNum
      BY <1>1, Fields
    <3>2. d.sentNum + 1 # ShutdownNum
      BY <1>5, <2>3
    <3>. QED
      BY <2>2, <3>1, <3>2, CapAssumption
  <2>. QED
    BY <1>1, <1>5, <2>1, <2>4, TransmitEmptySound
<1>. QED
  BY <1>2, <1>3, <1>4, <1>5

-----------------------------------------------------------------------------
(***************************************************************************)
(* Receiving an instruction.                                               *)
(***************************************************************************)

\* What the arrival of m may do to t: the acknowledged state moves forward to
\* the one m names or not at all, likewise the watermark; the window loses
\* only what lies below the watermark and gains only what lies above it.
Receives(t, m, u) ==
    /\ t.acked <= u.acked /\ u.acked \in {t.acked, m.ack}
    /\ u.outbound \subseteq t.outbound
    /\ u.throw \in {t.throw, m.throw}
    /\ \A n \in t.received : u.throw <= n => n \in u.received
    /\ \A n \in u.received \ t.received : u.throw < n
    /\ u.peerShutdownAcked = t.peerShutdownAcked

\* Any acknowledgement leaves the endpoint sound, its queue no longer and its
\* receiving half alone; the acknowledged state moves to it or not at all.
LEMMA ProcessAckSound ==
    ASSUME NEW Diff, NEW t \in TransportState(Diff), Sound(t), NEW ack \in Nat
    PROVE  LET a == ProcessAck(t, ack)
           IN  /\ a \in TransportState(Diff) /\ Sound(a)
               /\ t.acked <= a.acked /\ a.acked \in {t.acked, ack}
               /\ a.outbound \subseteq t.outbound
               /\ a.received = t.received /\ a.throw = t.throw /\ a.ackNum = t.ackNum
               /\ a.peerShutdownAcked = t.peerShutdownAcked
<1>. DEFINE known == ack \in Listed(t.sentTimes)
            times == Drained(t.sentTimes, ack)
            left == {s \in t.outbound : s.new > ack}
            usable == {s \in left : s.old >= ack}
            queue == IF t.overflowed THEN usable ELSE left
            cut == IF t.overflowed THEN usable # left ELSE t.rebase
            quick == t.immediate \/ left = {}
            heard == [t EXCEPT !.sentTimes = times]
            moved == [t EXCEPT !.sentTimes = times, !.acked = ack, !.localThrow = ack,
                               !.immediate = quick, !.outbound = queue,
                               !.rebase = cut, !.overflowed = FALSE]
            a == ProcessAck(t, ack)
<1>1. times \in Seq(Nat)
  BY SendTimesAreTyped DEF TransportState
<1>2. quick \in BOOLEAN /\ cut \in BOOLEAN
  BY DEF TransportState
<1>3. queue \subseteq t.outbound /\ \A s \in queue : s.new > ack
  OBVIOUS
<1>4. CASE ~(known /\ ack > t.acked /\ ack <= t.sentNum)
  <2>1. a = heard
    BY <1>4 DEF ProcessAck
  <2>. HIDE DEF times
  <2>2. heard \in TransportState(Diff)
    BY <1>1 DEF TransportState
  <2>3. /\ heard.sentNum = t.sentNum /\ heard.shutdown = t.shutdown
        /\ heard.acked = t.acked /\ heard.localThrow = t.localThrow
        /\ heard.outbound = t.outbound /\ heard.received = t.received
        /\ heard.throw = t.throw /\ heard.ackNum = t.ackNum
        /\ heard.peerShutdownAcked = t.peerShutdownAcked
    BY DEF TransportState
  <2>. HIDE DEF heard
  <2>4. Sound(heard)
    BY <2>3 DEF Sound
  <2>. QED
    BY <2>1, <2>2, <2>3, <2>4, Fields
<1>5. CASE known /\ ack > t.acked /\ ack <= t.sentNum
  <2>1. a = moved
    BY <1>5 DEF ProcessAck
  <2>. HIDE DEF times, queue, cut, quick
  <2>2. moved \in TransportState(Diff)
    BY <1>1, <1>2, <1>3 DEF TransportState
  <2>3. /\ moved.sentNum = t.sentNum /\ moved.shutdown = t.shutdown
        /\ moved.acked = ack /\ moved.localThrow = ack /\ moved.outbound = queue
        /\ moved.received = t.received /\ moved.throw = t.throw
        /\ moved.ackNum = t.ackNum /\ moved.peerShutdownAcked = t.peerShutdownAcked
    BY DEF TransportState
  <2>. HIDE DEF moved
  <2>4. Sound(moved)
    BY <1>3, <1>5, <2>3, CapAssumption, Fields DEF Sound, OutboundState
  <2>. QED
    BY <1>3, <1>5, <2>1, <2>2, <2>3, <2>4, Fields
<1>. QED
  BY <1>4, <1>5

\* A watermark up to the newest state leaves exactly the states from it on.
LEMMA PruneSound ==
    ASSUME NEW Diff, NEW t \in TransportState(Diff), Sound(t),
           NEW throw \in Nat, throw <= t.ackNum
    PROVE  LET p == Prune(t, throw)
           IN  /\ p \in TransportState(Diff) /\ Sound(p)
               /\ p.throw \in {t.throw, throw} /\ t.throw <= p.throw /\ throw <= p.throw
               /\ p.received = {n \in t.received : p.throw <= n}
               /\ p.acked = t.acked /\ p.outbound = t.outbound
               /\ p.peerShutdownAcked = t.peerShutdownAcked
<1>. DEFINE held == {n \in t.received : n >= throw}
            v == [t EXCEPT !.throw = throw, !.received = held]
<1>1. CASE ~(throw > t.throw)
  <2>1. t.received = {n \in t.received : t.throw <= n}
    BY DEF Sound
  <2>. QED
    BY <1>1, <2>1 DEF Prune, TransportState
<1>2. CASE throw > t.throw
  <2>1. Prune(t, throw) = v
    BY <1>2 DEF Prune
  <2>2. held \in SUBSET Nat /\ held = {n \in t.received : throw <= n}
    BY DEF TransportState
  <2>3. t.ackNum \in held /\ \A n \in held : throw <= n /\ n <= t.ackNum
    BY DEF Sound, TransportState
  <2>. HIDE DEF held
  <2>4. v \in TransportState(Diff)
    BY <2>2 DEF TransportState
  <2>5. Sound(v)
    BY <2>3 DEF Sound, TransportState
  <2>6. /\ v.throw = throw /\ v.received = held /\ v.acked = t.acked
        /\ v.outbound = t.outbound /\ v.peerShutdownAcked = t.peerShutdownAcked
    BY DEF TransportState
  <2>7. t.throw <= throw
    BY <1>2 DEF TransportState
  <2>. HIDE DEF v
  <2>. QED
    BY <2>1, <2>2, <2>4, <2>5, <2>6, <2>7
<1>. QED
  BY <1>1, <1>2

\* Accepting a state above the watermark keeps the receiving half sound.
LEMMA AcceptSound ==
    ASSUME NEW Diff, NEW t \in TransportState(Diff), Sound(t),
           NEW m \in Instruction(Diff), t.throw < m.new
    PROVE  LET u == Accept(t, m)
           IN  /\ u \in TransportState(Diff) /\ Sound(u)
               /\ u.throw = t.throw /\ u.received = t.received \cup {m.new}
               /\ u.acked = t.acked /\ u.outbound = t.outbound
               /\ u.peerShutdownAcked = t.peerShutdownAcked
<1>. DEFINE full == t.quenched \/ Cardinality(t.received) > ReceivedStateCap
            got == t.received \cup {m.new}
            top == IF m.new > t.ackNum THEN m.new ELSE t.ackNum
            owed == t.ackPending \/ m.diff # NoDiff \/ m.new = ShutdownNum
            u == [t EXCEPT !.quenched = full, !.received = got, !.attached = TRUE,
                           !.ackNum = top, !.ackPending = owed]
<1>1. Accept(t, m) = u
  BY DEF Accept
<1>2. full \in BOOLEAN /\ owed \in BOOLEAN
  BY DEF TransportState
<1>3. got \in SUBSET Nat /\ top \in Nat
  BY DEF TransportState, Instruction
<1>4. top \in got /\ \A n \in got : t.throw <= n /\ n <= top
  BY DEF Sound, TransportState, Instruction
<1>. HIDE DEF full, owed, got, top
<1>5. u \in TransportState(Diff)
  BY <1>2, <1>3 DEF TransportState
<1>6. Sound(u)
  BY <1>4 DEF Sound, TransportState
<1>. QED
  BY SMTT(30), <1>1, <1>5, <1>6 DEF TransportState, got

\* A complete instruction of a sender that keeps its promises arrives.
LEMMA RecvSound ==
    ASSUME NEW Diff, NEW t \in TransportState(Diff), Sound(t),
           NEW m \in Instruction(Diff), m.throw <= t.ackNum,
           m.throw <= m.old, m.old < m.new, NEW quiet \in BOOLEAN
    PROVE  LET u == RecvResult(t, m, quiet).t
           IN  u \in TransportState(Diff) /\ Sound(u) /\ Receives(t, m, u)
<1>. DEFINE a == ProcessAck(t, m.ack)
            p == Prune(a, m.throw)
            u == RecvResult(t, m, quiet).t
<1>1. m.ack \in Nat /\ m.throw \in Nat /\ m.old \in Nat /\ m.new \in Nat
  BY DEF Instruction
<1>2. /\ a \in TransportState(Diff) /\ Sound(a)
      /\ t.acked <= a.acked /\ a.acked \in {t.acked, m.ack}
      /\ a.outbound \subseteq t.outbound
      /\ a.received = t.received /\ a.throw = t.throw /\ a.ackNum = t.ackNum
      /\ a.peerShutdownAcked = t.peerShutdownAcked
  BY <1>1, ProcessAckSound
<1>. HIDE DEF a
<1>3. /\ p \in TransportState(Diff) /\ Sound(p)
      /\ p.throw \in {a.throw, m.throw} /\ a.throw <= p.throw /\ m.throw <= p.throw
      /\ p.received = {n \in a.received : p.throw <= n}
      /\ p.acked = a.acked /\ p.outbound = a.outbound
      /\ p.peerShutdownAcked = a.peerShutdownAcked
  BY <1>1, <1>2, PruneSound
<1>. HIDE DEF p
<1>4. CASE ~Acceptable(a, m)
  <2>1. u = a
    BY <1>4 DEF RecvResult, a
  <2>. QED
    BY <1>2, <2>1 DEF Receives
<1>5. CASE Acceptable(a, m) /\ Quenched(p, quiet)
  <2>1. u = p
    BY <1>5 DEF RecvResult, a, p
  <2>. QED
    BY <1>2, <1>3, <2>1 DEF Receives
<1>6. CASE Acceptable(a, m) /\ ~Quenched(p, quiet)
  <2>1. u = Accept(p, m)
    BY <1>6 DEF RecvResult, a, p
  <2>2. p.throw < m.new
    <3>1. a.throw <= m.old
      BY <1>2, <1>6 DEF Acceptable, Sound
    <3>. QED
      BY <1>1, <1>2, <1>3, <3>1, Fields DEF Instruction
  <2>3. /\ u \in TransportState(Diff) /\ Sound(u)
        /\ u.throw = p.throw /\ u.received = p.received \cup {m.new}
        /\ u.acked = p.acked /\ u.outbound = p.outbound
        /\ u.peerShutdownAcked = p.peerShutdownAcked
    BY <1>3, <2>1, <2>2, AcceptSound
  <2>. HIDE DEF u
  <2>. QED
    BY <1>2, <1>3, <2>2, <2>3 DEF Receives, u
<1>. QED
  BY <1>4, <1>5, <1>6

=============================================================================
