------------------------ MODULE RemoteScreen_proofs ------------------------
(***************************************************************************)
(* The properties of RemoteScreen for any screens, caps, bounds and        *)
(* faults.                                                                 *)
(***************************************************************************)
EXTENDS RemoteScreen, SspLink_proofs, FiniteSetTheorems

-----------------------------------------------------------------------------
(***************************************************************************)
(* The inductive invariant.  That snapshots are exact needs the same of    *)
(* everything that may still become one: the states the server has queued  *)
(* and the instructions under way.                                         *)
(***************************************************************************)

\* The diff leads from state a of h to state b.
Follows(h, a, b, diff) ==
    /\ a \in DOMAIN h /\ b \in DOMAIN h
    /\ h[b] = ApplyHostMessage(h[a], diff)

\* The server's states are numbered without a gap, its echo acknowledgement
\* only grows, and from the tip of its queue on they all show the same.
HostIsOrdered ==
    LET t == ep[Server] IN
    /\ DOMAIN host = 0 .. t.sentNum
    /\ \A n \in DOMAIN host : host[n] \in HostState
    /\ \A j, k \in DOMAIN host : j <= k => host[j].echo <= host[k].echo
    /\ ~t.shutdown /\ ~t.overflowed
    /\ Tip(t) \in DOMAIN host
    /\ \A n \in DOMAIN host : Tip(t) <= n => host[n] = host[t.sentNum]

\* Whatever is queued or under way leads from one host state to another.
DiffsFollow ==
    /\ \A s \in ep[Server].outbound : Follows(host, s.old, s.new, s.diff)
    /\ \A m \in net[Client] : Follows(host, m.old, m.new, m.diff)

\* The terminal reaches no further than its newest state, which it holds.
ViewIsBounded ==
    /\ dead \in BOOLEAN
    /\ view = [states |-> view.states, latest |-> view.latest,
               displayed |-> view.displayed, echo |-> view.echo]
    /\ DOMAIN view.states \subseteq Nat /\ view.latest \in Nat
    /\ \A n \in DOMAIN view.states : n <= view.latest
    /\ view.latest \in DOMAIN view.states
    /\ view.displayed = view.states[view.latest].screen
    /\ view.echo \in Nat

SInv ==
    /\ IInv
    /\ HostIsOrdered /\ DiffsFollow /\ ViewIsBounded
    /\ ListedStatesHeld /\ SnapshotsAreExact /\ DisplayIsNewest

-----------------------------------------------------------------------------
(***************************************************************************)
(* What a transport that is not shutting down says.                        *)
(***************************************************************************)

\* The states queued in u were queued in t.
Requeues(t, u) ==
    \A s \in u.outbound : \E q \in t.outbound :
        q.old = s.old /\ q.new = s.new /\ q.diff = s.diff

\* What a tick leaves of t.
Continues(t, u) ==
    /\ ~u.shutdown /\ u.overflowed = t.overflowed
    /\ Tip(u) = Tip(t) /\ Requeues(t, u)
    /\ u.sentNum \in {t.sentNum, t.sentNum + 1}

\* What t may say in a tick that leaves u: a state of its queue, or an empty
\* one above its tip.
Says(t, u, m) ==
    \/ \E q \in t.outbound : m.old = q.old /\ m.new = q.new /\ m.diff = q.diff
    \/ /\ m.old = Tip(t) /\ m.diff = NoDiff
       /\ m.new = t.sentNum + 1 /\ u.sentNum = t.sentNum + 1

\* A queue with the same back has the same tip.
LEMMA SameTip ==
    ASSUME NEW Diff, NEW t \in TransportState(Diff), NEW u \in TransportState(Diff),
           Sound(t), Sound(u), u.acked = t.acked, Requeues(t, u),
           t.outbound # {} => \E s \in u.outbound : s.new = Back(t.outbound).new
    PROVE  Tip(u) = Tip(t)
<1>1. CASE t.outbound = {}
  BY <1>1 DEF Tip, Requeues
<1>2. CASE t.outbound # {}
  <2>1. PICK s \in u.outbound : s.new = Back(t.outbound).new
    BY <1>2
  <2>2. /\ Back(u.outbound) \in u.outbound /\ s.new <= Back(u.outbound).new
        /\ \A r \in t.outbound : r.new <= Back(t.outbound).new
    BY <1>2, <2>1, BackOfQueue
  <2>3. Back(u.outbound).new <= Back(t.outbound).new
    BY <2>2 DEF Requeues
  <2>4. s.new \in Nat /\ Back(u.outbound).new \in Nat
    BY <2>2 DEF TransportState, OutboundState
  <2>. QED
    BY <1>2, <2>1, <2>2, <2>3, <2>4 DEF Tip
<1>. QED
  BY <1>1, <1>2

\* The tail of tick() leaves queue and numbering alone.
LEMMA TransmitLeaves ==
    ASSUME NEW Diff, NEW t \in TransportState(Diff),
           NEW old, NEW new, NEW diff, NEW outcome
    PROVE  LET r == Transmit(t, old, new, diff, outcome)
           IN  /\ r.t.sentNum = t.sentNum /\ r.t.shutdown = t.shutdown
               /\ r.t.acked = t.acked /\ r.t.outbound = t.outbound
               /\ r.t.overflowed = t.overflowed
               /\ \A m \in r.out : m.old = old /\ m.new = new /\ m.diff = diff
<1>. DEFINE r == Transmit(t, old, new, diff, outcome)
<1>1. /\ r.t.sentNum = t.sentNum /\ r.t.shutdown = t.shutdown
      /\ r.t.acked = t.acked /\ r.t.outbound = t.outbound
      /\ r.t.overflowed = t.overflowed
  BY DEF Transmit, TransportState
<1>2. r.out \subseteq {[old |-> old, new |-> new, diff |-> diff,
                       ack |-> t.ackNum, throw |-> Throwaway(t)]}
  BY DEF Transmit
<1>. QED
  BY <1>1, <1>2

\* Dropping superseded states keeps the back of the queue.
LEMMA DropContinues ==
    ASSUME NEW Diff, NEW t \in TransportState(Diff), Sound(t), ~t.shutdown
    PROVE  LET d == DropSuperseded(t)
           IN  d \in TransportState(Diff) /\ Sound(d) /\ Continues(t, d)
                /\ d.outbound \subseteq t.outbound /\ d.sentNum = t.sentNum
<1>. DEFINE d == DropSuperseded(t)
<1>1. d \in TransportState(Diff) /\ Sound(d) /\ d.shutdown = t.shutdown
  BY DropSupersededSound
<1>2. /\ d.acked = t.acked /\ d.sentNum = t.sentNum /\ d.overflowed = t.overflowed
      /\ d.outbound = {s \in t.outbound : s.sent \/ \A r \in t.outbound : ~r.sent => r.new <= s.new}
  BY DEF DropSuperseded, TransportState
<1>. HIDE DEF d
<1>3. t.outbound # {} => Back(t.outbound) \in d.outbound
  BY <1>2, BackOfQueue
<1>4. Tip(d) = Tip(t)
  BY <1>1, <1>2, <1>3, SameTip DEF Requeues
<1>. QED
  BY <1>1, <1>2, <1>4 DEF Continues, Requeues, d

\* A tick of a transport that is not shutting down goes on from where it was
\* and sends a queued state or an empty one.
LEMMA TickSays ==
    ASSUME NEW Diff, NEW t \in TransportState(Diff), Sound(t), ~t.shutdown,
           NEW now \in Clock(t), NEW outcome \in Faulted
    PROVE  LET r == TickResult(t, now, outcome)
           IN  Continues(t, r.t) /\ \A m \in r.out : Says(t, r.t, m)
<1>. DEFINE d == DropSuperseded(t)
            r == TickResult(t, now, outcome)
<1>1. /\ d \in TransportState(Diff) /\ Sound(d) /\ Continues(t, d)
      /\ d.outbound \subseteq t.outbound /\ d.sentNum = t.sentNum
  BY DropContinues
<1>2. t.sentNum \in Nat /\ t.sentNum # ShutdownNum /\ ~d.shutdown
  BY <1>1, CapAssumption DEF TransportState, Sound, Continues
<1>3. CASE ~SendDue(d, now)
  <2>1. r = [t |-> d, out |-> {}]
    BY <1>3 DEF TickResult
  <2>. QED
    BY <1>1, <2>1
<1>4. CASE SendDue(d, now) /\ Candidates(d, now) # {}
  <2>. DEFINE Q == Candidates(d, now)
              s == Back(Q)
              s1 == [s EXCEPT !.sent = TRUE]
              queue == (d.outbound \ {s}) \cup {s1}
              early == d.immediate /\ s.sent
              u == [d EXCEPT !.outbound = queue, !.immediate = early]
  <2>1. r = Transmit(u, s.old, s.new, s.diff, outcome)
    BY <1>2, <1>4 DEF TickResult, TransmitQueued
  <2>2. Q \subseteq d.outbound
    BY DEF Candidates, Unsent, Overdue
  <2>3. d.sentNum \in Nat /\ \A q \in d.outbound : q.new \in Nat /\ q.new <= d.sentNum
    BY SMTT(30), <1>1, CapAssumption DEF TransportState, OutboundState, Sound
  <2>. HIDE DEF Q, d
  <2>4. s \in d.outbound
    BY <1>4, <2>2, <2>3, BackIsLast DEF Q
  <2>5. s \in OutboundState(Diff)
    BY <1>1, <2>4 DEF TransportState
  <2>6. s1 \in OutboundState(Diff) /\ s1.old = s.old /\ s1.new = s.new /\ s1.diff = s.diff
    BY <2>5 DEF OutboundState
  <2>. HIDE DEF s, s1
  <2>7. u \in TransportState(Diff)
    <3>1. early \in BOOLEAN
      BY <1>1, <2>5 DEF TransportState, OutboundState
    <3>2. queue \in SUBSET OutboundState(Diff)
      BY <1>1, <2>6 DEF TransportState
    <3>. HIDE DEF early, queue
    <3>. QED
      BY <1>1, <3>1, <3>2 DEF TransportState
  <2>8. /\ u.acked = d.acked /\ u.sentNum = d.sentNum /\ u.shutdown = d.shutdown
        /\ u.overflowed = d.overflowed /\ u.outbound = queue
        /\ u.localThrow = d.localThrow /\ u.ackNum = d.ackNum
        /\ u.received = d.received /\ u.throw = d.throw
    BY <1>1 DEF TransportState
  <2>. HIDE DEF u, early
  <2>9. Sound(u) /\ Requeues(d, u)
    BY <1>1, <2>4, <2>6, <2>8 DEF Sound, Requeues
  <2>10. Tip(u) = Tip(d)
    <3>1. d.outbound # {} => \E q \in u.outbound : q.new = Back(d.outbound).new
      BY <1>1, <2>6, <2>8, BackOfQueue
    <3>. QED
      BY <1>1, <2>7, <2>8, <2>9, <3>1, SameTip
  <2>. HIDE DEF r, queue
  <2>11. /\ r.t.sentNum = u.sentNum /\ r.t.shutdown = u.shutdown
         /\ r.t.acked = u.acked /\ r.t.outbound = u.outbound
         /\ r.t.overflowed = u.overflowed
         /\ \A m \in r.out : m.old = s.old /\ m.new = s.new /\ m.diff = s.diff
    BY <2>1, <2>7, TransmitLeaves
  <2>12. Tip(r.t) = Tip(t)
    BY <1>1, <2>10, <2>11 DEF Tip, Continues
  <2>13. Requeues(t, r.t)
    BY <1>1, <2>9, <2>11 DEF Requeues
  <2>14. \A m \in r.out : Says(t, r.t, m)
    BY <1>1, <2>4, <2>11 DEF Says
  <2>. QED
    BY <1>1, <2>8, <2>11, <2>12, <2>13, <2>14 DEF Continues, r
<1>5. CASE SendDue(d, now) /\ Candidates(d, now) = {}
  <2>. DEFINE tip == Tip(d)
              u == [d EXCEPT !.sentNum = d.sentNum + 1]
  <2>1. r = Transmit(u, tip, d.sentNum + 1, NoDiff, outcome)
    BY <1>1, <1>2, <1>5 DEF TickResult, TransmitEmpty, Tip
  <2>. HIDE DEF tip, d
  <2>2. d.sentNum + 1 \in 0 .. ShutdownNum
    <3>1. d.sentNum \in 0 .. ShutdownNum
      BY <1>1, Fields
    <3>. QED
      BY <1>1, <1>2, <3>1, CapAssumption
  <2>3. u \in TransportState(Diff)
    BY <1>1, <2>2 DEF TransportState
  <2>4. /\ u.acked = d.acked /\ u.sentNum = d.sentNum + 1 /\ u.shutdown = d.shutdown
        /\ u.overflowed = d.overflowed /\ u.outbound = d.outbound
    BY <1>1 DEF TransportState
  <2>. HIDE DEF u
  <2>. QED
    BY SMTT(30), <1>1, <2>1, <2>3, <2>4, TransmitLeaves DEF Continues, Requeues, Says, Tip, tip
<1>. QED
  BY <1>3, <1>4, <1>5

-----------------------------------------------------------------------------
(***************************************************************************)
(* What an arriving instruction does.                                      *)
(***************************************************************************)

\* An acknowledgement moves the tip forward or not at all.
LEMMA RecvContinues ==
    ASSUME NEW Diff, NEW t \in TransportState(Diff), Sound(t), ~t.overflowed,
           NEW m \in Instruction(Diff), NEW quiet \in BOOLEAN
    PROVE  LET u == RecvResult(t, m, quiet).t
           IN  /\ u.sentNum = t.sentNum /\ u.shutdown = t.shutdown /\ ~u.overflowed
               /\ u.outbound \subseteq t.outbound
               /\ Tip(t) <= Tip(u) /\ Tip(u) \in 0 .. t.sentNum
<1>. DEFINE a == ProcessAck(t, m.ack)
            u == RecvResult(t, m, quiet).t
            left == {s \in t.outbound : s.new > m.ack}
<1>. SUFFICES /\ u.sentNum = t.sentNum /\ u.shutdown = t.shutdown /\ ~u.overflowed
              /\ u.outbound \subseteq t.outbound
              /\ Tip(t) <= Tip(u) /\ Tip(u) \in 0 .. t.sentNum
  OBVIOUS
<1>1. /\ u.sentNum = a.sentNum /\ u.shutdown = a.shutdown /\ u.overflowed = a.overflowed
      /\ u.outbound = a.outbound /\ u.acked = a.acked
  <2>1. a \in TransportState(Diff)
    BY ProcessAckSound DEF Instruction
  <2>. HIDE DEF a
  <2>2. u \in {a, Prune(a, m.throw), Accept(Prune(a, m.throw), m)}
    BY DEF RecvResult, a
  <2>. HIDE DEF u
  <2>3. \A p \in {a, Prune(a, m.throw)} :
            /\ p \in TransportState(Diff)
            /\ p.sentNum = a.sentNum /\ p.shutdown = a.shutdown
            /\ p.overflowed = a.overflowed /\ p.outbound = a.outbound /\ p.acked = a.acked
    <3>. DEFINE kept == {n \in a.received : n >= m.throw}
    <3>1. kept \in SUBSET Nat /\ m.throw \in Nat
      BY <2>1 DEF TransportState, Instruction
    <3>2. Prune(a, m.throw) \in {a, [a EXCEPT !.throw = m.throw, !.received = kept]}
      BY DEF Prune
    <3>. DEFINE b == [a EXCEPT !.throw = m.throw, !.received = kept]
    <3>. HIDE DEF kept
    <3>3. /\ b \in TransportState(Diff)
          /\ b.sentNum = a.sentNum /\ b.shutdown = a.shutdown
          /\ b.overflowed = a.overflowed /\ b.outbound = a.outbound /\ b.acked = a.acked
      BY <2>1, <3>1 DEF TransportState
    <3>. QED
      BY <2>1, <3>2, <3>3
  <2>. DEFINE p == Prune(a, m.throw)
  <2>4. /\ Accept(p, m).sentNum = p.sentNum /\ Accept(p, m).shutdown = p.shutdown
        /\ Accept(p, m).overflowed = p.overflowed
        /\ Accept(p, m).outbound = p.outbound /\ Accept(p, m).acked = p.acked
    BY <2>3 DEF Accept, TransportState
  <2>. HIDE DEF p
  <2>. QED
    BY <2>2, <2>3, <2>4 DEF p
<1>2. /\ a.sentNum = t.sentNum /\ a.shutdown = t.shutdown /\ ~a.overflowed
      /\ \/ a.outbound = t.outbound /\ a.acked = t.acked
         \/ /\ a.outbound = left /\ a.acked = m.ack
            /\ t.acked < m.ack /\ m.ack <= t.sentNum
  BY DEF ProcessAck, TransportState
<1>3. m.ack \in Nat /\ t.acked \in Nat /\ t.sentNum \in Nat /\ t.acked <= t.sentNum
  BY CapAssumption DEF Instruction, TransportState, Sound
<1>4. \A s \in t.outbound : s.new \in Nat /\ t.acked < s.new /\ s.new <= t.sentNum
  BY DEF TransportState, OutboundState, Sound
<1>. HIDE DEF a, u
<1>5. Tip(t) \in 0 .. t.sentNum
  BY <1>3, <1>4, BackOfQueue DEF Tip
<1>6. CASE a.outbound = t.outbound /\ a.acked = t.acked
  BY <1>1, <1>2, <1>5, <1>6 DEF Tip
<1>7. CASE /\ a.outbound = left /\ a.acked = m.ack
           /\ t.acked < m.ack /\ m.ack <= t.sentNum
  <2>1. CASE left = {}
    <3>1. Tip(t) <= m.ack
      BY <1>3, <1>4, <1>7, <2>1, BackOfQueue DEF Tip
    <3>2. Tip(u) = m.ack
      BY <1>1, <1>7, <2>1 DEF Tip
    <3>. QED
      BY <1>1, <1>2, <1>3, <1>7, <2>1, <3>1, <3>2
  <2>2. CASE left # {}
    <3>1. /\ Back(left) \in left /\ \A r \in left : r.new <= Back(left).new
      BY <1>3, <1>4, <2>2, BackIsLast
    <3>2. t.outbound # {} /\ Back(t.outbound) \in t.outbound
          /\ Back(left).new <= Back(t.outbound).new
      BY <3>1, BackOfQueue
    <3>3. Back(t.outbound) \in left
      BY <1>3, <1>4, <3>1, <3>2
    <3>4. Tip(u) = Back(left).new /\ Tip(t) = Back(t.outbound).new
      BY <1>1, <1>7, <2>2, <3>2 DEF Tip
    <3>. QED
      BY <1>1, <1>2, <1>3, <1>4, <1>7, <3>1, <3>2, <3>3, <3>4
  <2>. QED
    BY <2>1, <2>2
<1>. QED
  BY <1>2, <1>6, <1>7

\* An accepted state is new and its base is listed; the window then holds it
\* and what it held above the watermark.  Otherwise the window only shrinks.
LEMMA RecvWindow ==
    ASSUME NEW Diff, NEW t \in TransportState(Diff), Sound(t),
           NEW m \in Instruction(Diff), NEW quiet \in BOOLEAN
    PROVE  LET r == RecvResult(t, m, quiet)
           IN  IF r.accepted
               THEN /\ m.old \in t.received /\ m.new \notin t.received
                    /\ r.t.received \subseteq {n \in t.received : r.t.throw <= n} \cup {m.new}
                    /\ r.t.ackNum = IF m.new > t.ackNum THEN m.new ELSE t.ackNum
               ELSE r.t.received \subseteq t.received /\ r.t.ackNum = t.ackNum
<1>. DEFINE a == ProcessAck(t, m.ack)
            kept == {n \in a.received : n >= m.throw}
            b == [a EXCEPT !.throw = m.throw, !.received = kept]
            p == Prune(a, m.throw)
            r == RecvResult(t, m, quiet)
<1>1. a \in TransportState(Diff) /\ Sound(a)
  BY ProcessAckSound DEF Instruction
<1>2. a.received = t.received /\ a.ackNum = t.ackNum /\ a.throw = t.throw
  BY DEF ProcessAck, TransportState
<1>. HIDE DEF a
<1>3. p \in {a, b}
  BY DEF Prune
<1>4. b.received = kept /\ b.throw = m.throw /\ b.ackNum = t.ackNum
  BY <1>1, <1>2 DEF TransportState
<1>5. b \in TransportState(Diff)
  <2>1. kept \in SUBSET Nat /\ m.throw \in Nat
    BY <1>1 DEF TransportState, Instruction
  <2>. HIDE DEF kept
  <2>. QED
    BY <1>1, <2>1 DEF TransportState
<1>. HIDE DEF b
<1>6. /\ p \in TransportState(Diff) /\ p.ackNum = t.ackNum
      /\ p.received = {n \in t.received : p.throw <= n}
  <2>1. CASE p = a
    BY <1>1, <1>2, <2>1 DEF Sound
  <2>2. \A n \in a.received : n \in Nat /\ m.throw \in Nat
    BY <1>1 DEF TransportState, Instruction
  <2>3. CASE p = b
    BY <1>2, <1>4, <1>5, <2>2, <2>3
  <2>. QED
    BY <1>3, <2>1, <2>3
<1>. HIDE DEF p
<1>7. /\ Accept(p, m).received = p.received \cup {m.new}
      /\ Accept(p, m).throw = p.throw
      /\ Accept(p, m).ackNum = IF m.new > p.ackNum THEN m.new ELSE p.ackNum
  BY <1>6 DEF Accept, TransportState
<1>8. \/ ~r.accepted /\ r.t \in {a, p}
      \/ r.accepted /\ Acceptable(a, m) /\ r.t = Accept(p, m)
  BY DEF RecvResult, a, p
<1>. HIDE DEF r
<1>9. CASE ~r.accepted /\ r.t \in {a, p}
  BY <1>2, <1>6, <1>9 DEF r
<1>10. CASE r.accepted /\ Acceptable(a, m) /\ r.t = Accept(p, m)
  BY <1>2, <1>6, <1>7, <1>10 DEF Acceptable, r
<1>. QED
  BY <1>8, <1>9, <1>10

-----------------------------------------------------------------------------
(***************************************************************************)
(* Drawing: a new state becomes the tip of the queue.                      *)
(***************************************************************************)

\* A cull spares the newest entry.
LEMMA CullKeepsNewest ==
    ASSUME NEW bound \in Nat, NEW N \in SUBSET (0 .. bound), NEW b \in N,
           \A n \in N : n <= b
    PROVE  b \in Kept(N)
<1>1. IsFiniteSet(N)
  <2>1. 0 \in Int /\ bound \in Int
    OBVIOUS
  <2>2. IsFiniteSet(0 .. bound)
    BY <2>1, FS_Interval
  <2>. QED
    BY <2>2, FS_Subset
<1>2. Cardinality(N) \in Nat /\ Cardinality(N \ {b}) = Cardinality(N) - 1
  <2>1. Cardinality(N) \in Nat
    BY <1>1, FS_CardinalityType
  <2>2. Cardinality(N \ {b}) = IF b \in N THEN Cardinality(N) - 1 ELSE Cardinality(N)
    BY <1>1, FS_RemoveElement
  <2>. QED
    BY <2>1, <2>2
<1>3. {k \in N : k < b} = N \ {b}
  <2>1. \A k \in N : k \in Nat /\ b \in Nat /\ k <= b
    OBVIOUS
  <2>2. \A k \in N : k < b <=> k # b
    BY <2>1
  <2>. QED
    BY <2>2
<1>. QED
  BY <1>2, <1>3, CapAssumption DEF Kept

\* The queue gains the new state, which is its tip from then on.
LEMMA SubmitExtends ==
    ASSUME NEW Diff, NEW t \in TransportState(Diff), Sound(t), ~t.shutdown,
           NEW old \in {t.acked} \cup NumsOf(t.outbound), NEW diff \in Diff
    PROVE  LET u == SetPendingFrom(t, old, diff)
           IN  /\ u.sentNum = t.sentNum + 1 /\ ~u.shutdown
               /\ Tip(u) = t.sentNum + 1
               /\ \A s \in u.outbound :
                     \/ s \in t.outbound
                     \/ s.old = old /\ s.new = t.sentNum + 1 /\ s.diff = diff
<1>. DEFINE new == t.sentNum + 1
            s0 == [old |-> old, new |-> new, diff |-> diff, sent |-> FALSE]
            queue == t.outbound \cup {s0}
            kept == {s \in queue : s.new \in Kept(NumsOf(queue))}
            over == t.overflowed \/ Cardinality(queue) > SentStateCap
            u == SetPendingFrom(t, old, diff)
<1>1. u.sentNum = new /\ u.shutdown = t.shutdown /\ u.outbound = kept
  <2>1. u = [t EXCEPT !.sentNum = new, !.outbound = kept, !.overflowed = over]
    BY DEF SetPendingFrom
  <2>. HIDE DEF new, kept, over, u
  <2>. QED
    BY <2>1 DEF TransportState
<1>2. new \in Nat /\ \A s \in queue : s.new \in Nat /\ s.new <= new
  BY CapAssumption DEF TransportState, OutboundState, Sound
<1>3. \A s \in queue : s \in t.outbound \/ s = s0
  OBVIOUS
<1>. HIDE DEF u, s0, new
<1>4. s0.old = old /\ s0.new = new /\ s0.diff = diff
  BY DEF s0
<1>5. s0 \in kept
  <2>1. s0 \in queue
    OBVIOUS
  <2>. HIDE DEF queue
  <2>2. /\ NumsOf(queue) \in SUBSET (0 .. new) /\ new \in NumsOf(queue)
        /\ \A n \in NumsOf(queue) : n <= new
    BY <1>2, <1>4, <2>1 DEF NumsOf
  <2>3. new \in Kept(NumsOf(queue))
    BY <1>2, <2>2, CullKeepsNewest
  <2>4. s0.new \in Kept(NumsOf(queue))
    BY <1>4, <2>3
  <2>. QED
    BY <2>1, <2>4
<1>6. Back(kept) \in kept /\ \A s \in kept : s.new <= Back(kept).new
  BY <1>2, <1>5, BackIsLast
<1>7. Tip(u) = new
  <2>1. Tip(u) = Back(kept).new
    BY <1>1, <1>5 DEF Tip
  <2>2. new <= Back(kept).new
    BY <1>4, <1>5, <1>6
  <2>3. Back(kept).new \in Nat /\ Back(kept).new <= new
    BY <1>2, <1>6
  <2>. QED
    BY <1>2, <2>1, <2>2, <2>3
<1>. QED
  BY <1>1, <1>3, <1>4, <1>7 DEF new, u

-----------------------------------------------------------------------------
(***************************************************************************)
(* One step.                                                               *)
(***************************************************************************)

\* What NeverRewinds asks of one step.
Forward ==
    /\ view'.latest >= view.latest /\ view'.echo >= view.echo
    /\ view'.displayed # view.displayed => view'.latest > view.latest

\* A step that leaves the terminal and the client's window alone keeps what
\* relates them, however the server's states grow.
LEMMA ViewSideKept ==
    ASSUME SInv, view' = view, dead' = dead,
           ep'[Client].received = ep[Client].received,
           ep'[Client].ackNum = ep[Client].ackNum,
           DOMAIN host \subseteq DOMAIN host',
           \A n \in DOMAIN host : host'[n] = host[n]
    PROVE  /\ ViewIsBounded' /\ ListedStatesHeld' /\ SnapshotsAreExact' /\ DisplayIsNewest'
           /\ Forward
<1>1. ViewIsBounded' /\ ListedStatesHeld'
  BY DEF SInv, ViewIsBounded, ListedStatesHeld
<1>2. SnapshotsAreExact'
  BY DEF SInv, SnapshotsAreExact
<1>3. DisplayIsNewest'
  BY DEF SInv, DisplayIsNewest
<1>4. Forward
  BY DEF Forward, SInv, ViewIsBounded
<1>. QED
  BY <1>1, <1>2, <1>3, <1>4

\* What leads from one host state to another still does when there are more.
LEMMA FollowsKept ==
    ASSUME NEW a, NEW b, NEW diff, Follows(host, a, b, diff),
           DOMAIN host \subseteq DOMAIN host',
           \A n \in DOMAIN host : host'[n] = host[n]
    PROVE  Follows(host', a, b, diff)
BY DEF Follows

\* What the server draws: a diff from a screen it has to one it did not have.
LEMMA DrawPicks ==
    ASSUME SInv, Draw
    PROVE  \E old \in 0 .. ep[Server].sentNum, diff \in Diffs \ {NoDiff},
              state \in HostState :
              /\ old \in {ep[Server].acked} \cup NumsOf(ep[Server].outbound)
              /\ state = ApplyHostMessage(host[old], diff)
              /\ state.echo >= host[ep[Server].sentNum].echo
              /\ ep' = [ep EXCEPT ![Server] = SetPendingFrom(ep[Server], old, diff)]
              /\ ~ep'[Server].overflowed
              /\ host' = Hosting(ep[Server].sentNum + 1, state)
<1>. DEFINE t == ep[Server]
<1>1. t \in TransportState(Diffs) /\ Sound(t)
  BY DEF SInv, IInv, TypeOK, Endpoints
<1>2. /\ DOMAIN host = 0 .. t.sentNum
      /\ \A n \in DOMAIN host : host[n] \in HostState
      /\ \A j, k \in DOMAIN host : j <= k => host[j].echo <= host[k].echo
  BY DEF SInv, HostIsOrdered
<1>3. PICK old \in {t.acked} \cup NumsOf(t.outbound),
           screen \in Screens, echo \in {Newest.echo, t.ackNum} :
         LET diff == [from |-> host[old].screen, to |-> screen, echo |-> echo]
         IN  /\ echo >= Newest.echo
             /\ diff \in Diffs
             /\ ep' = [ep EXCEPT ![Server] = SetPendingFrom(t, old, diff)]
             /\ ~ep'[Server].overflowed
             /\ host' = Hosting(t.sentNum + 1, [screen |-> screen, echo |-> echo])
  BY DEF Draw
<1>. DEFINE diff == [from |-> host[old].screen, to |-> screen, echo |-> echo]
            state == [screen |-> screen, echo |-> echo]
<1>4. t.sentNum \in Nat /\ t.ackNum \in Nat /\ old \in 0 .. t.sentNum
  BY <1>1, CapAssumption DEF Sound, NumsOf, TransportState, OutboundState
<1>5. host[old] \in HostState /\ Newest \in HostState /\ host[old].echo <= Newest.echo
  BY <1>2, <1>4 DEF Newest
<1>6. echo \in Nat
  BY <1>4, <1>5 DEF HostState
<1>7. diff \in HostDiff /\ state \in HostState
  BY <1>5, <1>6 DEF HostDiff, HostState
<1>8. diff # NoDiff
  BY <1>7, DiffsAssumption
<1>9. state = ApplyHostMessage(host[old], diff)
  BY <1>3, <1>5, <1>6, <1>7 DEF ApplyHostMessage, AtLeast, HostState
<1>. QED
  BY <1>3, <1>4, <1>7, <1>8, <1>9 DEF Newest

\* Every step of the screens is a step of the link.
LEMMA StepIsLinkStep == SInv /\ [ScreenNext]_screenVars => [Next]_vars
<1>. SUFFICES ASSUME SInv, [ScreenNext]_screenVars PROVE [Next]_vars
  OBVIOUS
<1>1. Client \in Endpoints /\ Server \in Endpoints
  BY DEF Endpoints
<1>2. ASSUME Draw PROVE Submit(Server)
  <2>1. PICK old \in 0 .. ep[Server].sentNum, diff \in Diffs \ {NoDiff} :
           ep' = [ep EXCEPT ![Server] = SetPendingFrom(ep[Server], old, diff)]
    BY <1>2, DrawPicks
  <2>2. old \in 0 .. MaxNum[Server]
    <3>1. ep[Server] \in TransportState(Diffs)
      BY <1>1 DEF SInv, IInv, TypeOK
    <3>2. ep[Server].sentNum < MaxNum[Server] /\ MaxNum[Server] \in Nat
      BY <1>1, <1>2, LinkAssumption DEF Draw, CanNumber, Endpoints
    <3>. QED
      BY SMTT(30), <3>1, <3>2, CapAssumption DEF TransportState
  <2>. QED
    BY <1>2, <2>1, <2>2 DEF Draw, Submit
<1>3. ASSUME ServerTick PROVE Tick(Server)
  BY <1>3 DEF ServerTick
<1>4. ASSUME ServerReceive PROVE Receive(Server)
  BY <1>4 DEF ServerReceive
<1>5. ASSUME ClientTick PROVE Tick(Client)
  BY <1>5 DEF ClientTick
<1>6. ASSUME ClientReceive PROVE Receive(Client)
  BY <1>6 DEF ClientReceive, Receive
<1>7. ASSUME UNCHANGED screenVars PROVE UNCHANGED vars
  BY <1>7 DEF screenVars, vars
<1>. QED
  BY <1>1, <1>2, <1>3, <1>4, <1>5, <1>6, <1>7 DEF ScreenNext, Next

\* What a step owes besides the link's own invariant.
StepHolds ==
    /\ HostIsOrdered' /\ DiffsFollow' /\ ViewIsBounded'
    /\ ListedStatesHeld' /\ SnapshotsAreExact' /\ DisplayIsNewest'
    /\ Forward

\* Drawing.
LEMMA DrawStep == ASSUME SInv, Draw PROVE StepHolds
<1>. DEFINE t == ep[Server]
            num == t.sentNum + 1
<1>1. PICK old \in 0 .. t.sentNum, diff \in Diffs \ {NoDiff}, state \in HostState :
         /\ old \in {t.acked} \cup NumsOf(t.outbound)
         /\ state = ApplyHostMessage(host[old], diff)
         /\ state.echo >= host[t.sentNum].echo
         /\ ep' = [ep EXCEPT ![Server] = SetPendingFrom(t, old, diff)]
         /\ ~ep'[Server].overflowed
         /\ host' = Hosting(num, state)
  BY DrawPicks
<1>. DEFINE u == SetPendingFrom(t, old, diff)
<1>2. t \in TransportState(Diffs) /\ Sound(t) /\ ep \in [Endpoints -> TransportState(Diffs)]
  BY DEF SInv, IInv, TypeOK, Endpoints
<1>3. /\ DOMAIN host = 0 .. t.sentNum /\ ~t.shutdown
      /\ \A n \in DOMAIN host : host[n] \in HostState
      /\ \A j, k \in DOMAIN host : j <= k => host[j].echo <= host[k].echo
  BY DEF SInv, HostIsOrdered
<1>4. u.sentNum = num /\ ~u.shutdown /\ Tip(u) = num
      /\ \A s \in u.outbound :
            s \in t.outbound \/ (s.old = old /\ s.new = num /\ s.diff = diff)
  <2>. HIDE DEF t
  <2>1. old \in {t.acked} \cup NumsOf(t.outbound) /\ diff \in Diffs
    BY <1>1
  <2>. QED
    BY SMTT(30), <1>2, <1>3, <2>1, SubmitExtends
<1>5. ep'[Server] = u /\ ep'[Client] = ep[Client] /\ net' = net
  BY <1>1, <1>2, LinkAssumption DEF Endpoints, Draw
<1>6. t.sentNum \in Nat
  BY <1>2, CapAssumption DEF TransportState
<1>. HIDE DEF u
<1>7. /\ DOMAIN host' = 0 .. num /\ host'[num] = state
      /\ \A n \in DOMAIN host : n \in DOMAIN host' /\ host'[n] = host[n]
  BY <1>1, <1>3, <1>6 DEF Hosting
<1>8. HostIsOrdered'
  <2>1. \A n \in DOMAIN host' : host'[n] \in HostState
    BY <1>3, <1>6, <1>7
  <2>2. \A j, k \in DOMAIN host' : j <= k => host'[j].echo <= host'[k].echo
    <3>. SUFFICES ASSUME NEW j \in DOMAIN host', NEW k \in DOMAIN host', j <= k
                  PROVE  host'[j].echo <= host'[k].echo
      OBVIOUS
    <3>1. CASE k # num
      BY <1>3, <1>6, <1>7, <3>1
    <3>2. CASE j = num /\ k = num
      BY <1>7, <3>2 DEF HostState
    <3>3. CASE j # num /\ k = num
      <4>1. host'[j].echo <= host[t.sentNum].echo
        BY <1>3, <1>6, <1>7, <3>3
      <4>2. host'[j].echo \in Nat /\ host[t.sentNum].echo \in Nat /\ state.echo \in Nat
        BY <1>3, <1>6, <2>1 DEF HostState
      <4>. QED
        BY <1>1, <1>7, <3>3, <4>1, <4>2
    <3>. QED
      BY <1>6, <1>7, <3>1, <3>2, <3>3
  <2>3. Tip(u) \in DOMAIN host' /\ \A n \in DOMAIN host' : Tip(u) <= n => n = num
    BY <1>4, <1>6, <1>7
  <2>. QED
    BY <1>1, <1>3, <1>4, <1>5, <1>7, <2>1, <2>2, <2>3 DEF HostIsOrdered
<1>9. DiffsFollow'
  <2>1. \A s \in t.outbound : Follows(host, s.old, s.new, s.diff)
    BY DEF SInv, DiffsFollow
  <2>2. \A m \in net[Client] : Follows(host, m.old, m.new, m.diff)
    BY DEF SInv, DiffsFollow
  <2>3. Follows(host', old, num, diff)
    BY SMTT(30), <1>1, <1>3, <1>6, <1>7 DEF Follows
  <2>4. \A s \in u.outbound : Follows(host', s.old, s.new, s.diff)
    BY <1>4, <1>7, <2>1, <2>3, FollowsKept
  <2>5. \A m \in net[Client] : Follows(host', m.old, m.new, m.diff)
    BY <1>7, <2>2, FollowsKept
  <2>. QED
    BY <1>5, <2>4, <2>5 DEF DiffsFollow
<1>10. /\ ViewIsBounded' /\ ListedStatesHeld' /\ SnapshotsAreExact' /\ DisplayIsNewest'
       /\ Forward
  <2>1. view' = view /\ dead' = dead
    BY DEF Draw
  <2>. QED
    BY <1>5, <1>7, <2>1, ViewSideKept
<1>. QED
  BY <1>8, <1>9, <1>10 DEF StepHolds

\* The server's tick.
LEMMA ServerTickStep == ASSUME SInv, ServerTick PROVE StepHolds
<1>. DEFINE t == ep[Server]
<1>1. t \in TransportState(Diffs) /\ Sound(t) /\ ep \in [Endpoints -> TransportState(Diffs)]
      /\ net \in [Endpoints -> SUBSET Instruction(Diffs)]
  BY DEF SInv, IInv, TypeOK, Endpoints
<1>2. /\ DOMAIN host = 0 .. t.sentNum /\ ~t.shutdown /\ ~t.overflowed
      /\ \A n \in DOMAIN host : host[n] \in HostState
      /\ \A j, k \in DOMAIN host : j <= k => host[j].echo <= host[k].echo
      /\ Tip(t) \in DOMAIN host
      /\ \A n \in DOMAIN host : Tip(t) <= n => host[n] = host[t.sentNum]
  BY DEF SInv, HostIsOrdered
<1>3. PICK now \in Clock(t), outcome \in Faulted :
         LET r == TickResult(t, now, outcome)
         IN  /\ ep' = [ep EXCEPT ![Server] = r.t]
             /\ net' \in {net, [net EXCEPT ![Client] = net[Client] \cup r.out]}
  <2>1. PICK r \in TickResults(Server) :
           /\ ep' = [ep EXCEPT ![Server] = r.t]
           /\ net' \in {net, [net EXCEPT ![Client] = net[Client] \cup r.out]}
    BY LinkAssumption DEF ServerTick, Tick, Other
  <2>2. PICK now \in Clock(t), outcome \in Faulted : r = TickResult(t, now, outcome)
    BY <2>1, LinkAssumption DEF TickResults, Faulted
  <2>. QED
    BY <2>1, <2>2
<1>. DEFINE r == TickResult(t, now, outcome)
            u == r.t
<1>4. Continues(t, u) /\ \A m \in r.out : Says(t, u, m)
  BY <1>1, <1>2, TickSays
<1>5. ep'[Server] = u /\ ep'[Client] = ep[Client] /\ net'[Client] \subseteq net[Client] \cup r.out
  BY <1>1, <1>3, LinkAssumption DEF Endpoints
<1>6. t.sentNum \in Nat
  BY <1>1, CapAssumption DEF TransportState
<1>7. host' = IF u.sentNum \in DOMAIN host THEN host ELSE Hosting(u.sentNum, host[Tip(t)])
  BY <1>5 DEF ServerTick
<1>. HIDE DEF r, u
<1>8. /\ DOMAIN host' = 0 .. u.sentNum
      /\ u.sentNum \in {t.sentNum, t.sentNum + 1}
      /\ \A n \in DOMAIN host : n \in DOMAIN host' /\ host'[n] = host[n]
      /\ u.sentNum = t.sentNum + 1 => host'[u.sentNum] = host[Tip(t)]
  <2>1. u.sentNum \in {t.sentNum, t.sentNum + 1}
    BY <1>4 DEF Continues
  <2>2. CASE u.sentNum = t.sentNum
    BY <1>2, <1>6, <1>7, <2>2
  <2>3. CASE u.sentNum = t.sentNum + 1
    <3>1. host' = Hosting(u.sentNum, host[Tip(t)])
      BY <1>2, <1>6, <1>7, <2>3
    <3>. QED
      BY <1>2, <1>6, <2>3, <3>1 DEF Hosting
  <2>. QED
    BY <2>1, <2>2, <2>3
<1>9. host[Tip(t)] = host[t.sentNum] /\ Tip(t) \in 0 .. t.sentNum
  BY <1>2, <1>6
<1>10. \A n \in DOMAIN host' : host'[n] = IF n \in DOMAIN host THEN host[n] ELSE host[t.sentNum]
  BY <1>2, <1>6, <1>8, <1>9
<1>11. HostIsOrdered'
  <2>1. \A n \in DOMAIN host' : host'[n] \in HostState
    BY <1>2, <1>6, <1>10
  <2>2. \A j, k \in DOMAIN host' : j <= k => host'[j].echo <= host'[k].echo
    <3>. SUFFICES ASSUME NEW j \in DOMAIN host', NEW k \in DOMAIN host', j <= k
                  PROVE  host'[j].echo <= host'[k].echo
      OBVIOUS
    <3>1. CASE k \in DOMAIN host
      BY <1>2, <1>6, <1>8, <1>10, <3>1
    <3>2. CASE k \notin DOMAIN host
      <4>1. host'[k] = host[t.sentNum]
        BY <1>10, <3>2
      <4>2. CASE j \in DOMAIN host
        BY <1>2, <1>6, <1>10, <4>1, <4>2
      <4>3. CASE j \notin DOMAIN host
        <5>1. host'[j] = host'[k] /\ host'[k].echo \in Nat
          BY <1>10, <2>1, <4>1, <4>3 DEF HostState
        <5>. QED
          BY <5>1
      <4>. QED
        BY <4>2, <4>3
    <3>. QED
      BY <3>1, <3>2
  <2>3. Tip(u) = Tip(t) /\ ~u.shutdown /\ ~u.overflowed
    BY <1>2, <1>4 DEF Continues
  <2>4. \A n \in DOMAIN host' : Tip(t) <= n => host'[n] = host[t.sentNum]
    BY <1>2, <1>10
  <2>5. u.sentNum \in DOMAIN host' /\ Tip(t) <= u.sentNum /\ Tip(t) \in DOMAIN host'
    BY <1>2, <1>6, <1>8, <1>9
  <2>. QED
    BY <1>5, <1>8, <2>1, <2>2, <2>3, <2>4, <2>5 DEF HostIsOrdered
<1>12. DiffsFollow'
  <2>1. \A s \in t.outbound : Follows(host', s.old, s.new, s.diff)
    BY <1>8, FollowsKept DEF SInv, DiffsFollow
  <2>2. \A m \in net[Client] : Follows(host', m.old, m.new, m.diff)
    BY <1>8, FollowsKept DEF SInv, DiffsFollow
  <2>3. \A s \in u.outbound : Follows(host', s.old, s.new, s.diff)
    BY <1>4, <2>1 DEF Continues, Requeues
  <2>4. ASSUME NEW m \in r.out PROVE Follows(host', m.old, m.new, m.diff)
    <3>1. CASE \E q \in t.outbound : m.old = q.old /\ m.new = q.new /\ m.diff = q.diff
      BY <2>1, <3>1
    <3>2. CASE /\ m.old = Tip(t) /\ m.diff = NoDiff
               /\ m.new = t.sentNum + 1 /\ u.sentNum = t.sentNum + 1
      <4>1. host'[m.new] = host'[m.old] /\ m.new \in DOMAIN host' /\ m.old \in DOMAIN host'
        BY <1>2, <1>6, <1>8, <3>2
      <4>. QED
        BY <3>2, <4>1, DiffsAssumption DEF Follows, ApplyHostMessage
    <3>. QED
      BY <1>4, <2>4, <3>1, <3>2 DEF Says
  <2>. QED
    BY <1>5, <2>2, <2>3, <2>4 DEF DiffsFollow
<1>13. /\ ViewIsBounded' /\ ListedStatesHeld' /\ SnapshotsAreExact' /\ DisplayIsNewest'
       /\ Forward
  <2>1. view' = view /\ dead' = dead
    BY DEF ServerTick
  <2>. QED
    BY <1>5, <1>8, <2>1, ViewSideKept
<1>. QED
  BY <1>11, <1>12, <1>13 DEF StepHolds

\* An instruction reaches the server.
LEMMA ServerReceiveStep == ASSUME SInv, ServerReceive PROVE StepHolds
<1>. DEFINE t == ep[Server]
<1>1. t \in TransportState(Diffs) /\ Sound(t) /\ ep \in [Endpoints -> TransportState(Diffs)]
      /\ net \in [Endpoints -> SUBSET Instruction(Diffs)]
  BY DEF SInv, IInv, TypeOK, Endpoints
<1>2. /\ DOMAIN host = 0 .. t.sentNum /\ ~t.shutdown /\ ~t.overflowed
      /\ \A n \in DOMAIN host : host[n] \in HostState
      /\ \A j, k \in DOMAIN host : j <= k => host[j].echo <= host[k].echo
      /\ Tip(t) \in DOMAIN host
      /\ \A n \in DOMAIN host : Tip(t) <= n => host[n] = host[t.sentNum]
  BY DEF SInv, HostIsOrdered
<1>3. PICK m \in net[Server], quiet \in BOOLEAN, copy \in BOOLEAN :
         /\ ep' = [ep EXCEPT ![Server] = RecvResult(t, m, quiet).t]
         /\ net' = [net EXCEPT ![Server] = IF copy THEN net[Server] ELSE net[Server] \ {m}]
  BY DEF ServerReceive, Receive
<1>. DEFINE u == RecvResult(t, m, quiet).t
<1>4. m \in Instruction(Diffs)
  BY <1>1 DEF Endpoints
<1>5. /\ u.sentNum = t.sentNum /\ u.shutdown = t.shutdown /\ ~u.overflowed
      /\ u.outbound \subseteq t.outbound
      /\ Tip(t) <= Tip(u) /\ Tip(u) \in 0 .. t.sentNum
  BY <1>1, <1>2, <1>4, RecvContinues
<1>6. ep'[Server] = u /\ ep'[Client] = ep[Client] /\ net'[Client] = net[Client]
  BY <1>1, <1>3, LinkAssumption DEF Endpoints
<1>7. host' = host /\ view' = view /\ dead' = dead
  BY DEF ServerReceive
<1>8. t.sentNum \in Nat
  BY <1>1, CapAssumption DEF TransportState
<1>. HIDE DEF u
<1>9. HostIsOrdered'
  <2>1. \A n \in DOMAIN host : Tip(u) <= n => host[n] = host[t.sentNum]
    BY <1>2, <1>5, <1>8
  <2>. QED
    BY <1>2, <1>5, <1>6, <1>7, <2>1 DEF HostIsOrdered
<1>10. DiffsFollow'
  BY <1>5, <1>6, <1>7 DEF DiffsFollow, SInv
<1>11. /\ ViewIsBounded' /\ ListedStatesHeld' /\ SnapshotsAreExact' /\ DisplayIsNewest'
       /\ Forward
  BY <1>6, <1>7, ViewSideKept
<1>. QED
  BY <1>9, <1>10, <1>11 DEF StepHolds

\* The client's tick: its window and what the server says stay as they are.
LEMMA ClientTickStep == ASSUME SInv, ClientTick PROVE StepHolds
<1>. DEFINE t == ep[Client]
<1>1. t \in TransportState(Diffs) /\ Sound(t) /\ ep \in [Endpoints -> TransportState(Diffs)]
      /\ net \in [Endpoints -> SUBSET Instruction(Diffs)]
  BY DEF SInv, IInv, TypeOK, Endpoints
<1>2. PICK r \in TickResults(Client) :
         /\ r.t.sentNum <= MaxNum[Client] \/ r.t.shutdown
         /\ ep' = [ep EXCEPT ![Client] = r.t]
         /\ net' \in {net, [net EXCEPT ![Server] = net[Server] \cup r.out]}
  BY DEF ClientTick, Tick, Other
<1>3. PICK now \in Clock(t), outcome \in Faulted : r = TickResult(t, now, outcome)
  BY <1>2, LinkAssumption DEF TickResults, Faulted
<1>4. SendSide(t, r.t)
  <2>1. NoDiff \in Diffs /\ (r.t.sentNum = ShutdownNum => r.t.shutdown)
    BY <1>2, LinkAssumption, CapAssumption DEF Endpoints
  <2>2. Sends(Diffs, t, r)
    BY <1>1, <1>2, <1>3, <2>1, TickSound
  <2>. QED
    BY <2>2 DEF Sends
<1>5. /\ ep'[Server] = ep[Server] /\ ep'[Client] = r.t /\ net'[Client] = net[Client]
  BY <1>1, <1>2, LinkAssumption DEF Endpoints
<1>6. host' = host /\ view' = view /\ dead' = dead
  BY DEF ClientTick
<1>7. HostIsOrdered' /\ DiffsFollow'
  BY <1>5, <1>6 DEF HostIsOrdered, DiffsFollow, SInv
<1>8. ep'[Client].received = ep[Client].received /\ ep'[Client].ackNum = ep[Client].ackNum
  BY <1>4, <1>5 DEF SendSide
<1>9. /\ ViewIsBounded' /\ ListedStatesHeld' /\ SnapshotsAreExact' /\ DisplayIsNewest'
      /\ Forward
  BY <1>6, <1>8, ViewSideKept
<1>. QED
  BY <1>7, <1>9 DEF StepHolds

\* poll(): what the transport accepts, the terminal takes over.
LEMMA ClientReceiveStep == ASSUME SInv, IInv', ClientReceive PROVE StepHolds
<1>. DEFINE t == ep[Client]
<1>1. t \in TransportState(Diffs) /\ Sound(t) /\ ep \in [Endpoints -> TransportState(Diffs)]
      /\ net \in [Endpoints -> SUBSET Instruction(Diffs)]
  BY DEF SInv, IInv, TypeOK, Endpoints
<1>2. PICK m \in net[Client], quiet \in BOOLEAN, copy \in BOOLEAN, oversized \in Sizes :
         LET r == RecvResult(t, m, quiet)
             a == ApplyHostState(view, m.old, m.new, r.t.throw, m.diff, oversized)
         IN  /\ ep' = [ep EXCEPT ![Client] = r.t]
             /\ net' = [net EXCEPT ![Client] = IF copy THEN net[Client] ELSE net[Client] \ {m}]
             /\ view' = IF r.accepted THEN a.v ELSE view
             /\ dead' = (r.accepted /\ a.rejected)
  BY DEF ClientReceive
<1>. DEFINE r == RecvResult(t, m, quiet)
            a == ApplyHostState(view, m.old, m.new, r.t.throw, m.diff, oversized)
<1>3. m \in Instruction(Diffs) /\ Follows(host, m.old, m.new, m.diff)
  BY <1>1 DEF Endpoints, SInv, DiffsFollow
<1>4. IF r.accepted
      THEN /\ m.old \in t.received /\ m.new \notin t.received
           /\ r.t.received \subseteq {n \in t.received : r.t.throw <= n} \cup {m.new}
           /\ r.t.ackNum = IF m.new > t.ackNum THEN m.new ELSE t.ackNum
      ELSE r.t.received \subseteq t.received /\ r.t.ackNum = t.ackNum
  BY <1>1, <1>3, RecvWindow
<1>5. /\ view' = IF r.accepted THEN a.v ELSE view
      /\ dead' = (r.accepted /\ a.rejected)
      /\ ep'[Client] = r.t /\ ep'[Server] = ep[Server] /\ net'[Client] \subseteq net[Client]
  BY <1>1, <1>2, LinkAssumption DEF Endpoints
<1>6. host' = host /\ ~dead
  BY DEF ClientReceive
<1>7. HostIsOrdered' /\ DiffsFollow'
  BY <1>5, <1>6 DEF HostIsOrdered, DiffsFollow, SInv
<1>8. /\ t.received \subseteq DOMAIN view.states
      /\ view.latest = t.ackNum
      /\ view.displayed = host[view.latest].screen /\ view.echo = host[view.latest].echo
      /\ \A n \in DOMAIN view.states : n \in DOMAIN host /\ view.states[n] = host[n]
      /\ \A n \in DOMAIN view.states : n <= view.latest
      /\ DOMAIN view.states \subseteq Nat /\ view.latest \in Nat
      /\ view.latest \in DOMAIN view.states /\ view.echo \in Nat
      /\ view.displayed = view.states[view.latest].screen
  BY <1>6 DEF SInv, ListedStatesHeld, DisplayIsNewest, SnapshotsAreExact, ViewIsBounded
<1>9. r.t.throw <= r.t.ackNum /\ m.new \in Nat /\ r.t.throw \in Nat
  <2>1. Sound(r.t) /\ r.t \in TransportState(Diffs)
    BY <1>5 DEF IInv, TypeOK, Endpoints
  <2>. QED
    BY <1>3, <2>1 DEF Sound, TransportState, Instruction
<1>10. CASE view' = view /\ (~dead' => r.t.received \subseteq DOMAIN view.states /\ r.t.ackNum = t.ackNum)
            /\ dead' \in BOOLEAN
  <2>1. ViewIsBounded' /\ SnapshotsAreExact'
    BY <1>6, <1>10 DEF SInv, ViewIsBounded, SnapshotsAreExact
  <2>2. ListedStatesHeld' /\ DisplayIsNewest'
    BY <1>5, <1>6, <1>8, <1>10 DEF ListedStatesHeld, DisplayIsNewest
  <2>3. Forward
    BY <1>8, <1>10 DEF Forward
  <2>. QED
    BY <1>7, <2>1, <2>2, <2>3 DEF StepHolds
<1>. HIDE DEF r, a
<1>11. CASE ~r.accepted
  BY <1>4, <1>5, <1>8, <1>10, <1>11
<1>12. CASE r.accepted /\ m.new \in DOMAIN view.states
  <2>1. a = [v |-> view, rejected |-> FALSE]
    BY <1>12 DEF ApplyHostState, a
  <2>2. r.t.received \subseteq DOMAIN view.states /\ r.t.ackNum = t.ackNum
    BY <1>4, <1>8, <1>9, <1>12
  <2>. QED
    BY <1>5, <1>10, <1>12, <2>1, <2>2
<1>13. CASE /\ r.accepted /\ m.new \notin DOMAIN view.states
            /\ m.old \notin DOMAIN view.states \/ oversized
  <2>1. a = [v |-> view, rejected |-> TRUE]
    BY <1>13 DEF ApplyHostState, a
  <2>. QED
    BY <1>5, <1>10, <1>13, <2>1
<1>14. CASE /\ r.accepted /\ m.new \notin DOMAIN view.states
            /\ ~(m.old \notin DOMAIN view.states \/ oversized)
  <2>. DEFINE next == Paint(view, m.old, m.diff)
              kept == Retain(view, r.t.throw)
              states == [n \in kept \cup {m.new} |-> IF n = m.new THEN next ELSE view.states[n]]
              held == [view EXCEPT !.states = states]
  <2>1. a.v = Show(held, m.new, next) /\ ~a.rejected
    BY <1>14 DEF ApplyHostState, a
  <2>2. next = host[m.new] /\ m.new \in DOMAIN host
    BY <1>3, <1>8, <1>14 DEF Follows, Paint
  <2>3. view = [states |-> view.states, latest |-> view.latest,
                displayed |-> view.displayed, echo |-> view.echo]
    BY DEF SInv, ViewIsBounded
  <2>4. DOMAIN states = kept \cup {m.new} /\ kept \subseteq DOMAIN view.states
        /\ \A n \in DOMAIN states : n \in DOMAIN host /\ states[n] = host[n]
    BY <1>8, <2>2 DEF Retain
  <2>5. \A n \in DOMAIN view.states : r.t.throw <= n => n \in kept
    BY <1>8, <1>9 DEF Retain
  <2>6. \A j, k \in DOMAIN host : j <= k => host[j].echo <= host[k].echo
    BY DEF SInv, HostIsOrdered
  <2>7. host[m.new].echo \in Nat /\ view.latest \in DOMAIN host
    BY <1>8, <2>2 DEF SInv, HostIsOrdered, HostState
  <2>. HIDE DEF next, kept, states
  <2>8. held = [states |-> states, latest |-> view.latest,
                displayed |-> view.displayed, echo |-> view.echo]
    BY <2>3
  <2>9. r.t.received \subseteq DOMAIN states
    BY <1>4, <1>8, <1>14, <2>4, <2>5
  <2>. HIDE DEF held
  <2>10. CASE m.new <= view.latest
    <3>1. view' = held /\ dead' = FALSE
      BY <1>5, <1>14, <2>1, <2>8, <2>10 DEF Show
    <3>2. r.t.ackNum = view.latest
      BY <1>4, <1>8, <1>9, <1>14, <2>10
    <3>3. view.latest \in kept
      BY <1>8, <1>9, <2>5, <3>2
    <3>4. ViewIsBounded'
      <4>1. \A n \in DOMAIN states : n \in Nat /\ n <= view.latest
        BY <1>8, <1>9, <2>4, <2>10
      <4>2. view.displayed = states[view.latest].screen
        BY <1>8, <2>4, <3>3
      <4>. QED
        BY <1>8, <2>4, <2>8, <3>1, <3>3, <4>1, <4>2 DEF ViewIsBounded
    <3>5. SnapshotsAreExact' /\ ListedStatesHeld'
      BY <1>5, <1>6, <2>4, <2>8, <2>9, <3>1 DEF SnapshotsAreExact, ListedStatesHeld
    <3>6. DisplayIsNewest'
      BY <1>5, <1>6, <1>8, <2>7, <2>8, <3>1, <3>2 DEF DisplayIsNewest
    <3>7. Forward
      BY <1>8, <2>8, <3>1 DEF Forward
    <3>. QED
      BY <1>7, <3>4, <3>5, <3>6, <3>7 DEF StepHolds
  <2>11. CASE m.new > view.latest
    <3>1. AtLeast(view.echo, next.echo) = host[m.new].echo
      BY <1>8, <1>9, <2>2, <2>6, <2>7, <2>11 DEF AtLeast
    <3>2. view' = [states |-> states, latest |-> m.new,
                   displayed |-> host[m.new].screen, echo |-> host[m.new].echo]
      <4>1. view' = [held EXCEPT !.latest = m.new, !.displayed = next.screen,
                                 !.echo = AtLeast(held.echo, next.echo)]
        BY <1>5, <1>8, <1>9, <1>14, <2>1, <2>8, <2>11 DEF Show
      <4>. QED
        BY <2>2, <2>8, <3>1, <4>1
    <3>3. dead' = FALSE /\ r.t.ackNum = m.new
      BY <1>4, <1>5, <1>8, <1>9, <1>14, <2>1, <2>11
    <3>4. ViewIsBounded'
      <4>1. \A n \in DOMAIN states : n \in Nat /\ n <= m.new
        BY <1>8, <1>9, <2>4, <2>11
      <4>. QED
        BY <1>9, <2>2, <2>4, <2>7, <3>2, <3>3, <4>1 DEF ViewIsBounded
    <3>5. SnapshotsAreExact' /\ ListedStatesHeld'
      BY <1>5, <1>6, <2>4, <2>9, <3>2 DEF SnapshotsAreExact, ListedStatesHeld
    <3>6. DisplayIsNewest'
      BY <1>5, <1>6, <2>2, <3>2, <3>3 DEF DisplayIsNewest
    <3>7. Forward
      <4>1. view.echo <= host[m.new].echo
        BY <1>8, <1>9, <2>2, <2>6, <2>7, <2>11
      <4>. QED
        BY <1>8, <1>9, <2>7, <2>11, <3>2, <4>1 DEF Forward
    <3>. QED
      BY <1>7, <3>4, <3>5, <3>6, <3>7 DEF StepHolds
  <2>. QED
    BY <1>8, <1>9, <2>10, <2>11
<1>. QED
  BY <1>11, <1>12, <1>13, <1>14

-----------------------------------------------------------------------------
(***************************************************************************)
(* The theorems.                                                           *)
(***************************************************************************)

\* Every step keeps the inductive invariant and moves the display forward.
LEMMA ScreenStep == SInv /\ [ScreenNext]_screenVars => SInv' /\ Forward
<1>. SUFFICES ASSUME SInv, [ScreenNext]_screenVars PROVE SInv' /\ Forward
  OBVIOUS
<1>1. IInv'
  BY StepIsLinkStep, NextHolds DEF SInv
<1>2. CASE Draw
  BY <1>1, <1>2, DrawStep DEF StepHolds, SInv
<1>3. CASE ServerTick
  BY <1>1, <1>3, ServerTickStep DEF StepHolds, SInv
<1>4. CASE ServerReceive
  BY <1>1, <1>4, ServerReceiveStep DEF StepHolds, SInv
<1>5. CASE ClientTick
  BY <1>1, <1>5, ClientTickStep DEF StepHolds, SInv
<1>6. CASE ClientReceive
  BY <1>1, <1>6, ClientReceiveStep DEF StepHolds, SInv
<1>7. CASE UNCHANGED screenVars
  <2>1. ep' = ep /\ net' = net /\ view' = view /\ dead' = dead /\ host' = host
    BY <1>7 DEF screenVars
  <2>2. HostIsOrdered' /\ DiffsFollow'
    BY <2>1 DEF SInv, HostIsOrdered, DiffsFollow
  <2>3. /\ ViewIsBounded' /\ ListedStatesHeld' /\ SnapshotsAreExact' /\ DisplayIsNewest'
        /\ Forward
    BY <2>1, ViewSideKept
  <2>. QED
    BY <1>1, <2>2, <2>3 DEF SInv
<1>. QED
  BY <1>2, <1>3, <1>4, <1>5, <1>6, <1>7 DEF ScreenNext

\* A new server and a new client satisfy it.
LEMMA ScreenInitHolds == ScreenInit => SInv
<1>. SUFFICES ASSUME ScreenInit PROVE SInv
  OBVIOUS
<1>1. IInv
  BY InitHolds DEF ScreenInit
<1>2. ep[Server] = NewTransport(TRUE) /\ ep[Client] = NewTransport(FALSE) /\ net[Client] = {}
  BY LinkAssumption DEF ScreenInit, Init, Endpoints
<1>3. BlankState \in HostState /\ BlankState.screen = Blank /\ BlankState.echo = 0
  BY ScreenAssumption DEF BlankState, HostState
<1>4. DOMAIN host = {0} /\ host[0] = BlankState
  BY DEF ScreenInit
<1>5. /\ view = [states |-> view.states, latest |-> view.latest,
                 displayed |-> view.displayed, echo |-> view.echo]
      /\ DOMAIN view.states = {0} /\ view.states[0] = BlankState
      /\ view.latest = 0 /\ view.displayed = Blank /\ view.echo = 0
  BY DEF ScreenInit, NewView
<1>6. HostIsOrdered
  <2>1. /\ ep[Server].sentNum = 0 /\ ~ep[Server].shutdown /\ ~ep[Server].overflowed
        /\ Tip(ep[Server]) = 0
    BY <1>2 DEF NewTransport, Tip
  <2>. HIDE DEF BlankState
  <2>. QED
    BY <1>3, <1>4, <2>1 DEF HostIsOrdered
<1>7. DiffsFollow
  BY <1>2 DEF DiffsFollow, NewTransport
<1>8. ViewIsBounded /\ SnapshotsAreExact
  <2>1. dead = FALSE
    BY DEF ScreenInit
  <2>. HIDE DEF BlankState
  <2>2. ViewIsBounded
    <3>1. \A n \in DOMAIN view.states : n \in Nat /\ n <= view.latest
      BY <1>5
    <3>2. /\ view.latest \in DOMAIN view.states /\ view.latest \in Nat /\ view.echo \in Nat
          /\ view.displayed = view.states[view.latest].screen
      BY <1>3, <1>5
    <3>. QED
      BY <1>5, <2>1, <3>1, <3>2, Zenon DEF ViewIsBounded
  <2>3. SnapshotsAreExact
    BY <1>4, <1>5 DEF SnapshotsAreExact
  <2>. QED
    BY <2>2, <2>3
<1>9. ListedStatesHeld /\ DisplayIsNewest
  BY <1>2, <1>3, <1>4, <1>5 DEF ListedStatesHeld, DisplayIsNewest, NewTransport
<1>. QED
  BY <1>1, <1>6, <1>7, <1>8, <1>9 DEF SInv

\* The inductive invariant holds in every reachable state.
THEOREM ScreenInvariance == ScreenSpec => []SInv
<1>1. SInv /\ [ScreenNext]_screenVars => SInv'
  BY ScreenStep
<1>. QED
  BY ScreenInitHolds, <1>1, PTL DEF ScreenSpec

\* Server, terminal and path behave as a link of two transports: what is
\* proved of SspLink holds here.
THEOREM ScreenIsLink == ScreenSpec => Spec
<1>1. ScreenInit => Init
  BY DEF ScreenInit
<1>2. SInv /\ [ScreenNext]_screenVars => [Next]_vars
  BY StepIsLinkStep
<1>. QED
  BY ScreenInvariance, <1>1, <1>2, PTL DEF ScreenSpec, Spec

\* The records keep their types, and no screen of the client is ever garbled.
THEOREM ScreensAreTyped == ScreenSpec => []ScreenTypeOK
<1>1. SInv => ScreenTypeOK
  <2>. SUFFICES ASSUME SInv PROVE ScreenTypeOK
    OBVIOUS
  <2>1. TypeOK
    BY DEF SInv, IInv
  <2>2. ep[Server].sentNum \in 0 .. ShutdownNum
    BY <2>1 DEF TypeOK, TransportState, Endpoints
  <2>3. /\ DOMAIN host \subseteq Nums /\ \A n \in DOMAIN host : host[n] \in HostState
    BY <2>2, CapAssumption DEF SInv, HostIsOrdered, Nums
  <2>4. \A n \in DOMAIN view.states : n \in DOMAIN host /\ view.states[n] = host[n]
    BY DEF SInv, SnapshotsAreExact
  <2>5. /\ dead \in BOOLEAN /\ view.latest \in DOMAIN view.states /\ view.echo \in Nat
        /\ view.displayed = view.states[view.latest].screen
    BY DEF SInv, ViewIsBounded
  <2>. QED
    BY <2>1, <2>3, <2>4, <2>5 DEF ScreenTypeOK, HostState
<1>. QED
  BY ScreenInvariance, <1>1, PTL

\* No order of arrival, prune or retransmission makes the terminal reject a
\* host state because its base is gone.
THEOREM BasesAreHeld == ScreenSpec => []ListedStatesHeld
<1>1. SInv => ListedStatesHeld
  BY DEF SInv
<1>. QED
  BY ScreenInvariance, <1>1, PTL

\* Every snapshot is the server's screen of that number.
THEOREM SnapshotsMatch == ScreenSpec => []SnapshotsAreExact
<1>1. SInv => SnapshotsAreExact
  BY DEF SInv
<1>. QED
  BY ScreenInvariance, <1>1, PTL

\* The display shows the newest acknowledged screen.
THEOREM DisplayIsCurrent == ScreenSpec => []DisplayIsNewest
<1>1. SInv => DisplayIsNewest
  BY DEF SInv
<1>. QED
  BY ScreenInvariance, <1>1, PTL

\* Display and echo acknowledgement never go back.
THEOREM DisplayMovesForward == ScreenSpec => NeverRewinds
<1>1. SInv /\ [ScreenNext]_screenVars => [Forward]_screenVars
  BY ScreenStep
<1>. QED
  BY ScreenInvariance, <1>1, PTL DEF NeverRewinds, Forward, ScreenSpec
=============================================================================
