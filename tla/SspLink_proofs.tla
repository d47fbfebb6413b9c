--------------------------- MODULE SspLink_proofs ---------------------------
(***************************************************************************)
(* The safety of the link, for any bounds, queue caps and fault sets: type *)
(* correctness, and the four properties the runs of SspLink check.         *)
(***************************************************************************)
EXTENDS SspLink, Transport_proofs

-----------------------------------------------------------------------------
(***************************************************************************)
(* The inductive invariant.  That an endpoint's acknowledged state is held *)
(* by its peer is not inductive by itself: the peer may prune on a         *)
(* watermark, and a late acknowledgement may be taken.  So it is stated    *)
(* together with what every instruction under way may still cause.         *)
(***************************************************************************)

\* What holds between an endpoint e, as the one that submits states, and its
\* peer p, as the one that keeps them.
HeldBy(e, p) ==
    /\ ep[e].acked \in ep[p].received
    /\ ep[e].acked = ShutdownNum => ep[p].peerShutdownAcked
    /\ \A s \in ep[e].outbound : ep[p].throw <= s.old

\* What instructions from e to p may make p discard.
Discards(e, p) ==
    \A m \in net[p] :
        /\ m.throw <= ep[e].acked
        /\ \A s \in ep[e].outbound : m.throw <= s.old
        /\ m.throw <= m.old /\ m.old < m.new

\* What acknowledgements from p to e may make e believe: those still news to
\* e name states that p holds.
Acknowledges(e, p) ==
    \A m \in net[e] :
        /\ ep[e].acked <= m.ack => m.ack \in ep[p].received
        /\ m.ack = ShutdownNum => ep[p].peerShutdownAcked

Agree(e, p) == HeldBy(e, p) /\ Discards(e, p) /\ Acknowledges(e, p)

IInv ==
    /\ TypeOK
    /\ \A e \in Endpoints : Sound(ep[e]) /\ Agree(e, Other(e))

\* What NoStateTwice asks of one step.
NewAboveThrow ==
    \A e \in Endpoints : \A n \in ep'[e].received \ ep[e].received : n > ep'[e].throw

-----------------------------------------------------------------------------

\* The two endpoints are each other's peer and there is no third.
LEMMA OtherEndpoint ==
    ASSUME NEW e \in Endpoints
    PROVE  Other(e) \in Endpoints /\ Other(e) # e /\ Other(Other(e)) = e
           /\ \A f \in Endpoints : f = e \/ f = Other(e)
BY LinkAssumption DEF Endpoints, Other

\* Two new transports and an empty path satisfy the inductive invariant.
LEMMA InitHolds == Init => IInv
<1>. SUFFICES ASSUME Init PROVE IInv
  OBVIOUS
<1>1. \A b \in BOOLEAN : NewTransport(b) \in TransportState(Diffs) /\ Sound(NewTransport(b))
  BY CapAssumption DEF NewTransport, TransportState, Sound
<1>2. \A e \in Endpoints : ep[e] \in TransportState(Diffs) /\ Sound(ep[e]) /\ net[e] = {}
  BY <1>1 DEF Init
<1>3. \A e \in Endpoints : ep[e].acked = 0 /\ ep[e].received = {0} /\ ep[e].outbound = {}
  BY DEF Init, NewTransport
<1>4. TypeOK
  BY <1>2 DEF TypeOK, Init
<1>5. \A e \in Endpoints : Agree(e, Other(e))
  BY <1>2, <1>3, OtherEndpoint, CapAssumption DEF Agree, HeldBy, Discards, Acknowledges
<1>. QED
  BY <1>2, <1>4, <1>5 DEF IInv

\* A step on the sending side of e: its queue, its flags or its clock move,
\* and what it sends, if anything, may get under way.
LEMMA SendStep ==
    ASSUME IInv, NEW e \in Endpoints,
           NEW u \in TransportState(Diffs), Sound(u), SendSide(ep[e], u),
           NEW out, \A m \in out : m \in Instruction(Diffs) /\ Announces(u, m),
           ep' = [ep EXCEPT ![e] = u],
           net' \in {net, [net EXCEPT ![Other(e)] = net[Other(e)] \cup out]}
    PROVE  IInv' /\ NewAboveThrow
<1>. DEFINE p == Other(e)
<1>1. p \in Endpoints /\ p # e /\ Other(p) = e /\ \A f \in Endpoints : f = e \/ f = p
  BY OtherEndpoint
<1>2. /\ ep \in [Endpoints -> TransportState(Diffs)]
      /\ net \in [Endpoints -> SUBSET Instruction(Diffs)]
  BY DEF IInv, TypeOK
<1>3. ep'[e] = u /\ ep'[p] = ep[p]
  BY <1>1, <1>2
<1>4. net'[e] = net[e] /\ net'[p] \subseteq net[p] \cup out
  BY <1>1, <1>2
<1>5. TypeOK'
  BY <1>1, <1>2 DEF TypeOK
<1>6. /\ Sound(ep[e]) /\ Sound(ep[p]) /\ HeldBy(e, p) /\ Discards(e, p) /\ Acknowledges(e, p)
      /\ HeldBy(p, e) /\ Discards(p, e) /\ Acknowledges(p, e)
  BY <1>1 DEF IInv, Agree
<1>. HIDE DEF p
<1>7. /\ u.acked = ep[e].acked /\ u.ackNum = ep[e].ackNum
      /\ u.received = ep[e].received /\ u.throw = ep[e].throw
      /\ ep[e].peerShutdownAcked => u.peerShutdownAcked
      /\ \A s \in u.outbound : ep[e].acked <= s.old \/ \E r \in ep[e].outbound : r.old = s.old
  BY DEF SendSide
<1>8. ep[p].throw <= ep[e].acked
  BY <1>6 DEF HeldBy, Sound
<1>9. /\ ep[e] \in TransportState(Diffs) /\ ep[p] \in TransportState(Diffs)
      /\ net[e] \in SUBSET Instruction(Diffs) /\ net[p] \in SUBSET Instruction(Diffs)
  BY <1>1, <1>2
<1>10. /\ ep[p].throw \in Nat /\ ep[e].acked \in Nat
       /\ \A s \in u.outbound : s.old \in Nat
       /\ \A m \in net[p] : m.throw \in Nat
  BY <1>9 DEF TransportState, OutboundState, Instruction
<1>11. Agree(e, p)'
  <2>1. HeldBy(e, p)'
    BY <1>3, <1>6, <1>7, <1>8, <1>10 DEF HeldBy
  <2>2. Discards(e, p)'
    <3>. SUFFICES ASSUME NEW m \in net'[p]
                  PROVE  /\ m.throw <= u.acked
                         /\ \A s \in u.outbound : m.throw <= s.old
                         /\ m.throw <= m.old /\ m.old < m.new
      BY <1>3 DEF Discards
    <3>1. CASE m \in net[p]
      BY <3>1, <1>6, <1>7, <1>10 DEF Discards
    <3>2. CASE m \in out
      BY <3>2 DEF Announces
    <3>. QED
      BY <1>4, <3>1, <3>2
  <2>3. Acknowledges(e, p)'
    BY <1>3, <1>4, <1>6, <1>7 DEF Acknowledges
  <2>. QED
    BY <2>1, <2>2, <2>3 DEF Agree
<1>12. Agree(p, e)'
  <2>1. HeldBy(p, e)'
    BY <1>3, <1>6, <1>7 DEF HeldBy
  <2>2. Discards(p, e)'
    BY <1>3, <1>4, <1>6 DEF Discards
  <2>3. Acknowledges(p, e)'
    <3>. SUFFICES ASSUME NEW m \in net'[p]
                  PROVE  /\ ep[p].acked <= m.ack => m.ack \in u.received
                         /\ m.ack = ShutdownNum => u.peerShutdownAcked
      BY <1>3 DEF Acknowledges
    <3>1. CASE m \in net[p]
      BY <3>1, <1>6, <1>7 DEF Acknowledges
    <3>2. CASE m \in out
      BY <3>2 DEF Announces, Sound
    <3>. QED
      BY <1>4, <3>1, <3>2
  <2>. QED
    BY <2>1, <2>2, <2>3 DEF Agree
<1>13. \A f \in Endpoints : Sound(ep'[f]) /\ Agree(f, Other(f))'
  BY <1>1, <1>3, <1>6, <1>11, <1>12 DEF p
<1>14. NewAboveThrow
  BY <1>1, <1>3, <1>7 DEF NewAboveThrow
<1>. QED
  BY <1>5, <1>13, <1>14 DEF IInv

\* The same without a datagram.
LEMMA QuietStep ==
    ASSUME IInv, NEW e \in Endpoints,
           NEW u \in TransportState(Diffs), Sound(u), SendSide(ep[e], u),
           ep' = [ep EXCEPT ![e] = u], net' = net
    PROVE  IInv' /\ NewAboveThrow
<1>. DEFINE out == {}
<1>1. \A m \in out : m \in Instruction(Diffs) /\ Announces(u, m)
  OBVIOUS
<1>. HIDE DEF out
<1>2. net' \in {net, [net EXCEPT ![Other(e)] = net[Other(e)] \cup out]}
  OBVIOUS
<1>. QED
  BY <1>1, <1>2, SendStep

\* An instruction reaches e.
LEMMA ReceiveStep ==
    ASSUME IInv, NEW e \in Endpoints, NEW m \in net[e], NEW u,
           u \in TransportState(Diffs), Sound(u), Receives(ep[e], m, u),
           ep' = [ep EXCEPT ![e] = u],
           net' \in {net, [net EXCEPT ![e] = net[e] \ {m}]}
    PROVE  IInv' /\ NewAboveThrow
<1>. DEFINE p == Other(e)
<1>1. p \in Endpoints /\ p # e /\ Other(p) = e /\ \A f \in Endpoints : f = e \/ f = p
  BY OtherEndpoint
<1>2. /\ ep \in [Endpoints -> TransportState(Diffs)]
      /\ net \in [Endpoints -> SUBSET Instruction(Diffs)]
  BY DEF IInv, TypeOK
<1>3. ep'[e] = u /\ ep'[p] = ep[p]
  BY <1>1, <1>2
<1>4. net'[p] = net[p] /\ net'[e] \subseteq net[e]
  BY <1>1, <1>2
<1>5. TypeOK'
  BY <1>1, <1>2 DEF TypeOK
<1>6. /\ Sound(ep[e]) /\ Sound(ep[p]) /\ HeldBy(e, p) /\ Discards(e, p) /\ Acknowledges(e, p)
      /\ HeldBy(p, e) /\ Discards(p, e) /\ Acknowledges(p, e)
  BY <1>1 DEF IInv, Agree
<1>. HIDE DEF p
<1>7. /\ ep[e] \in TransportState(Diffs) /\ ep[p] \in TransportState(Diffs)
      /\ m \in Instruction(Diffs) /\ net[p] \in SUBSET Instruction(Diffs)
  BY <1>1, <1>2
<1>8. /\ ep[e].acked \in Nat /\ ep[e].throw \in Nat /\ ep[p].acked \in Nat
      /\ u.acked \in Nat /\ u.throw \in Nat /\ m.throw \in Nat /\ m.ack \in Nat
      /\ u.received \in SUBSET Nat
      /\ \A k \in net[p] : k.throw \in Nat /\ k.ack \in Nat
      /\ \A s \in ep[p].outbound : s.old \in Nat
  BY <1>7 DEF TransportState, OutboundState, Instruction
<1>9. /\ ep[e].acked <= u.acked /\ u.acked \in {ep[e].acked, m.ack}
      /\ u.outbound \subseteq ep[e].outbound /\ u.throw \in {ep[e].throw, m.throw}
      /\ \A n \in ep[e].received : u.throw <= n => n \in u.received
      /\ \A n \in u.received \ ep[e].received : u.throw < n
      /\ u.peerShutdownAcked = ep[e].peerShutdownAcked
  BY DEF Receives
<1>10. u.throw <= ep[p].acked
  <2>1. ep[e].throw <= ep[p].acked
    BY <1>6 DEF HeldBy, Sound
  <2>2. m.throw <= ep[p].acked
    BY <1>6 DEF Discards
  <2>. QED
    BY <1>9, <2>1, <2>2
<1>11. Agree(e, p)'
  <2>1. u.acked \in ep[p].received
    BY <1>6, <1>9 DEF HeldBy, Acknowledges
  <2>2. u.acked = ShutdownNum => ep[p].peerShutdownAcked
    BY <1>6, <1>9 DEF HeldBy, Acknowledges
  <2>3. HeldBy(e, p)'
    BY <1>3, <1>6, <1>9, <2>1, <2>2 DEF HeldBy
  <2>4. Discards(e, p)'
    BY <1>3, <1>4, <1>6, <1>8, <1>9 DEF Discards
  <2>5. Acknowledges(e, p)'
    <3>. SUFFICES ASSUME NEW k \in net'[e]
                  PROVE  /\ u.acked <= k.ack => k.ack \in ep[p].received
                         /\ k.ack = ShutdownNum => ep[p].peerShutdownAcked
      BY <1>3 DEF Acknowledges
    <3>1. k \in net[e] /\ k.ack \in Nat
      BY <1>2, <1>4 DEF Instruction
    <3>. QED
      BY <1>6, <1>8, <1>9, <3>1 DEF Acknowledges
  <2>. QED
    BY <2>3, <2>4, <2>5 DEF Agree
<1>12. Agree(p, e)'
  <2>1. HeldBy(p, e)'
    <3>1. ep[p].acked \in u.received
      BY <1>6, <1>9, <1>10 DEF HeldBy
    <3>2. \A s \in ep[p].outbound : u.throw <= s.old
      BY <1>6, <1>9 DEF HeldBy, Discards
    <3>. QED
      BY <1>3, <1>6, <1>9, <3>1, <3>2 DEF HeldBy
  <2>2. Discards(p, e)'
    BY <1>3, <1>4, <1>6 DEF Discards
  <2>3. Acknowledges(p, e)'
    <3>. SUFFICES ASSUME NEW k \in net[p], ep[p].acked <= k.ack
                  PROVE  k.ack \in u.received
      BY <1>3, <1>4, <1>6, <1>9 DEF Acknowledges
    <3>1. k.ack \in ep[e].received
      BY <1>6 DEF Acknowledges
    <3>2. u.throw <= k.ack
      BY <1>8, <1>10
    <3>. QED
      BY <1>9, <3>1, <3>2
  <2>. QED
    BY <2>1, <2>2, <2>3 DEF Agree
<1>13. \A f \in Endpoints : Sound(ep'[f]) /\ Agree(f, Other(f))'
  BY <1>1, <1>3, <1>6, <1>11, <1>12 DEF p
<1>14. NewAboveThrow
  BY <1>1, <1>3, <1>8, <1>9 DEF NewAboveThrow
<1>. QED
  BY <1>5, <1>13, <1>14 DEF IInv

-----------------------------------------------------------------------------

\* Every step keeps the inductive invariant, and what it accepts lies above
\* the watermark.
LEMMA NextHolds == IInv /\ [Next]_vars => IInv' /\ NewAboveThrow
<1>. SUFFICES ASSUME IInv, [Next]_vars PROVE IInv' /\ NewAboveThrow
  OBVIOUS
<1>1. \A e \in Endpoints : ep[e] \in TransportState(Diffs) /\ Sound(ep[e])
  BY DEF IInv, TypeOK
<1>2. ASSUME NEW e \in Endpoints, Submit(e) PROVE IInv' /\ NewAboveThrow
  <2>1. PICK old \in 0 .. MaxNum[e], diff \in Diffs \ {NoDiff} :
           ep' = [ep EXCEPT ![e] = SetPendingFrom(ep[e], old, diff)]
    BY <1>2 DEF Submit
  <2>2. old \in Nat /\ ep[e].sentNum + 1 < ShutdownNum
    <3>1. ep[e].sentNum \in Nat
      BY <1>1, CapAssumption, Fields
    <3>. QED
      BY <1>2, <3>1, LinkAssumption, CapAssumption DEF Submit, CanNumber, Endpoints
  <2>. DEFINE u == SetPendingFrom(ep[e], old, diff)
  <2>3. u \in TransportState(Diffs) /\ Sound(u) /\ SendSide(ep[e], u)
    BY <1>1, <2>2, SetPendingFromSound
  <2>. HIDE DEF u
  <2>4. net' = net
    BY <1>2 DEF Submit
  <2>. QED
    BY <2>1, <2>3, <2>4, QuietStep DEF u
<1>3. ASSUME NEW e \in Endpoints, ShrinkFragments(e) \/ Shutdown(e)
      PROVE  IInv' /\ NewAboveThrow
  <2>1. PICK u \in {SetMaxFragmentPayload(ep[e]), StartShutdown(ep[e])} :
           ep' = [ep EXCEPT ![e] = u] /\ net' = net
    BY <1>3 DEF ShrinkFragments, Shutdown
  <2>2. u \in TransportState(Diffs) /\ Sound(u) /\ SendSide(ep[e], u)
    BY <1>1, FlagsSound
  <2>. QED
    BY <2>1, <2>2, QuietStep
<1>4. ASSUME NEW e \in Endpoints, Tick(e) PROVE IInv' /\ NewAboveThrow
  <2>1. PICK r \in TickResults(e) :
           /\ r.t.sentNum <= MaxNum[e] \/ r.t.shutdown
           /\ ep' = [ep EXCEPT ![e] = r.t]
           /\ net' \in {net, [net EXCEPT ![Other(e)] = net[Other(e)] \cup r.out]}
    BY <1>4 DEF Tick
  <2>2. PICK now \in Clock(ep[e]), outcome \in {"none"} \cup Faults :
           r = TickResult(ep[e], now, outcome)
    BY <2>1 DEF TickResults
  <2>3. outcome \in Faulted /\ NoDiff \in Diffs
    BY LinkAssumption DEF Faulted
  <2>4. r.t.sentNum = ShutdownNum => r.t.shutdown
    BY <2>1, LinkAssumption, CapAssumption DEF Endpoints
  <2>5. Sends(Diffs, ep[e], r)
    BY <1>1, <2>1, <2>2, <2>3, <2>4, TickSound
  <2>. QED
    BY <2>1, <2>5, SendStep DEF Sends
<1>5. ASSUME NEW e \in Endpoints, Receive(e) PROVE IInv' /\ NewAboveThrow
  <2>1. PICK m \in net[e], quiet \in BOOLEAN :
           /\ ep' = [ep EXCEPT ![e] = RecvResult(ep[e], m, quiet).t]
           /\ net' \in {net, [net EXCEPT ![e] = net[e] \ {m}]}
    <3>1. PICK m \in net[e], quiet \in BOOLEAN, copy \in BOOLEAN :
             /\ ep' = [ep EXCEPT ![e] = RecvResult(ep[e], m, quiet).t]
             /\ net' = [net EXCEPT ![e] = IF copy THEN net[e] ELSE net[e] \ {m}]
      BY <1>5 DEF Receive
    <3>2. net = [net EXCEPT ![e] = net[e]]
      BY DEF IInv, TypeOK
    <3>. QED
      BY <3>1, <3>2
  <2>. DEFINE p == Other(e)
              u == RecvResult(ep[e], m, quiet).t
  <2>2. p \in Endpoints /\ Other(p) = e
    BY OtherEndpoint
  <2>3. m \in Instruction(Diffs)
    BY DEF IInv, TypeOK
  <2>4. HeldBy(p, e) /\ Discards(p, e)
    BY <2>2 DEF IInv, Agree
  <2>5. m.throw <= ep[p].acked /\ m.throw <= m.old /\ m.old < m.new
    BY <2>4 DEF Discards
  <2>6. ep[p].acked <= ep[e].ackNum
    BY <1>1, <2>4 DEF HeldBy, Sound
  <2>7. m.throw <= ep[e].ackNum
    <3>1. ep[p].acked \in Nat /\ ep[e].ackNum \in Nat
      BY <1>1, <2>2, Fields
    <3>. QED
      BY <2>3, <2>5, <2>6, <3>1 DEF Instruction
  <2>8. u \in TransportState(Diffs) /\ Sound(u) /\ Receives(ep[e], m, u)
    BY <1>1, <2>3, <2>5, <2>7, RecvSound
  <2>. HIDE DEF u
  <2>. QED
    BY <2>1, <2>8, ReceiveStep DEF u
<1>6. ASSUME UNCHANGED vars PROVE IInv' /\ NewAboveThrow
  BY <1>6 DEF vars, IInv, TypeOK, Agree, HeldBy, Discards, Acknowledges, NewAboveThrow
<1>. QED
  BY <1>2, <1>3, <1>4, <1>5, <1>6 DEF Next

-----------------------------------------------------------------------------
(***************************************************************************)
(* The theorems.                                                           *)
(***************************************************************************)

\* The inductive invariant holds in every reachable state of the link.
THEOREM Invariance == Spec => []IInv
<1>1. IInv /\ [Next]_vars => IInv'
  BY NextHolds
<1>. QED
  BY InitHolds, <1>1, PTL DEF Spec

\* Every record keeps its type: in particular no endpoint ever counts more
\* shutdown attempts than SHUTDOWN_RETRIES, and only an endpoint in shutdown
\* reaches the number u64::MAX.
THEOREM TypeCorrect == Spec => []TypeOK
<1>1. IInv => TypeOK
  BY DEF IInv
<1>. QED
  BY Invariance, <1>1, PTL

\* The peer of an endpoint holds the state its new diffs start from.
THEOREM BaseIsHeld == Spec => []KnownBaseHeld
<1>1. IInv => KnownBaseHeld
  BY DEF IInv, Agree, HeldBy, KnownBaseHeld
<1>. QED
  BY Invariance, <1>1, PTL

\* No watermark, delivered or under way, passes the base of a queued state.
THEOREM QueueIsApplicable == Spec => []QueuedBaseKept
<1>1. IInv => QueuedBaseKept
  BY DEF IInv, Agree, HeldBy, Discards, QueuedBaseKept
<1>. QED
  BY Invariance, <1>1, PTL

\* An acknowledged shutdown is one the peer accepted and answered.
THEOREM ShutdownIsMutual == Spec => []ShutdownAgreed
<1>1. IInv => ShutdownAgreed
  BY DEF IInv, Agree, HeldBy, ShutdownAgreed, ShutdownAcknowledged
<1>. QED
  BY Invariance, <1>1, PTL

\* No state is handed to the application twice.
THEOREM StatesAreDistinct == Spec => NoStateTwice
<1>1. IInv /\ [Next]_vars => [NewAboveThrow]_vars
  BY NextHolds
<1>. QED
  BY Invariance, <1>1, PTL DEF NoStateTwice, NewAboveThrow, Spec
=============================================================================
