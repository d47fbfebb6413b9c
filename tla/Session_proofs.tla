---------------------------- MODULE Session_proofs ----------------------------
(***************************************************************************)
(* Theorems about Session.tla, for every value of its constants.           *)
(*                                                                         *)
(* The invariant says that some function V from state numbers to positions *)
(* in the user's input explains everything there is: what the client holds *)
(* (Faithful, from Client_proofs.tla), what is under way to the server and *)
(* what the server has rebuilt are all parts of the input between two      *)
(* values of V.  "calm" is whether the shutdown is among the numbers V     *)
(* explains; it is when the shutdown starts with no overflow unresolved.   *)
(***************************************************************************)
EXTENDS Session, Client_proofs

-----------------------------------------------------------------------------
(***************************************************************************)
(* The invariant.                                                          *)
(***************************************************************************)

\* Every instruction under way builds on an older state and carries what V
\* says, and so does every state of the server.
PathStands(V, calm) ==
    \A m \in toServer : /\ m.old < m.new /\ m.new <= client.t.sentNum
                        /\ Leads(V, typed, m.old, m.new, m.diff, calm)

UserStands(V, calm) ==
    \A n \in DOMAIN user : /\ n <= client.t.sentNum
                           /\ Leads(V, typed, 0, n, user[n], calm)

\* A shutdown that followed the user's wish to quit stands for all input.
Carries(V) ==
    phase # "running" /\ ~client.initial /\ client.t.shutdown
        => V[client.t.sentNum] = Len(typed)

Holds(V, calm) ==
    /\ Faithful(V, typed, client, calm)
    /\ PathStands(V, calm) /\ UserStands(V, calm)
    /\ calm => Carries(V)

\* The server keeps what the client takes for acknowledged, and what it may
\* still come to take for it: no watermark passes the last acknowledged state.
AcksHeld ==
    /\ client.lastAcked \in DOMAIN user /\ client.t.acked \in DOMAIN user
    /\ \A m \in toClient : /\ m.ack >= client.t.acked => m.ack \in DOMAIN user
                           /\ m.old = 0 /\ m.throw = 0 /\ m.new > 0
    /\ \A m \in toServer : m.throw <= client.lastAcked

\* Until the first host state the window is as it was at the start, and no
\* acknowledgement has been processed.
NotHeard ==
    ~client.t.attached =>
        client.t.received = {0} /\ ~client.t.quenched /\ ~client.t.rebase

\* A shutdown starts when the user quits or when the server never answers.
Closing == client.t.shutdown => client.initial \/ phase # "running"

SInv(calm) ==
    TypeOK /\ (\E V : Holds(V, calm)) /\ AcksHeld /\ NotHeard /\ Closing

\* No overflow is unresolved while a shutdown is under way: what the theorems
\* about the shutdown assume, because the code loses input without it.
Calm == client.t.shutdown => ~client.t.overflowed

-----------------------------------------------------------------------------
(***************************************************************************)
(* Facts the steps share.                                                  *)
(***************************************************************************)

\* The values of the constants, and the sequences they are about.
LEMMA SessionFacts ==
    /\ 1 \in Actions /\ NoDiff \in Seq(Actions) /\ ShutdownNum \in Nat \ {0}
    /\ Outcomes \subseteq Faulted
<1>1. NoDiff \in Seq(Actions)
  BY NoDiffAssumption, EmptySeq
<1>. QED
  BY <1>1, SessionAssumption, CapAssumption DEF Actions, Faulted

\* What V says of old numbers does not change when it is extended.
LEMMA LeadsExtended ==
    ASSUME NEW V, NEW W, NEW log, NEW old \in Nat, NEW new \in Nat, NEW diff, NEW whole,
           W[old] = V[old], W[new] = V[new], Leads(V, log, old, new, diff, whole)
    PROVE  Leads(W, log, old, new, diff, whole)
BY DEF Leads

\* Nor when the input grows.
LEMMA LeadsOfLonger ==
    ASSUME NEW S, NEW c \in ClientState(S), NEW log \in Seq(S), NEW a \in S, NEW V,
           Marks(V, log, c.t), NEW old \in Nat, NEW new \in Nat, NEW diff, NEW whole,
           Leads(V, log, old, new, diff, whole)
    PROVE  Leads(V, Append(log, a), old, new, diff, whole)
<1>1. PICK k \in V[old] .. V[new] :
         /\ new # ShutdownNum \/ whole => k = V[new]
         /\ diff = Part(log, V[old], k)
  BY DEF Leads
<1>2. V[old] \in Nat /\ V[new] \in Nat /\ V[new] <= Len(log) /\ Len(log) \in Nat
  BY MarksRange
<1>3. k \in Nat /\ k <= Len(log)
  BY <1>1, <1>2
<1>4. Part(Append(log, a), V[old], k) = Part(log, V[old], k)
  BY <1>2, <1>3, PartsStay
<1>. QED
  BY <1>1, <1>4 DEF Leads

\* A diff applied to its base continues it.
LEMMA LeadsOn ==
    ASSUME NEW S, NEW c \in ClientState(S), NEW log \in Seq(S), NEW V,
           Marks(V, log, c.t), NEW old \in Nat, NEW new \in Nat, NEW base, NEW diff,
           NEW whole, old # ShutdownNum,
           Leads(V, log, 0, old, base, whole), Leads(V, log, old, new, diff, whole)
    PROVE  Leads(V, log, 0, new, base \o diff, whole)
<1>1. PICK k \in V[old] .. V[new] :
         /\ new # ShutdownNum \/ whole => k = V[new]
         /\ diff = Part(log, V[old], k)
  BY DEF Leads
<1>2. /\ V[old] \in Nat /\ V[new] \in Nat /\ V[new] <= Len(log) /\ Len(log) \in Nat
      /\ V[0] = 0
  BY MarksRange DEF Marks
<1>3. base = Part(log, 0, V[old])
  BY <1>2 DEF Leads
<1>4. k \in Nat /\ k <= Len(log) /\ V[old] <= k /\ k <= V[new]
  BY <1>1, <1>2
<1>5. base \o diff = Part(log, 0, k)
  <2>. DEFINE mid == V[old]
  <2>1. mid \in Nat /\ 0 <= mid /\ mid <= k /\ 0 \in Nat
    BY <1>2, <1>4
  <2>. HIDE DEF mid
  <2>2. Part(log, 0, mid) \o Part(log, mid, k) = Part(log, 0, k)
    BY <1>4, <2>1, PartsJoin
  <2>. QED
    BY <1>1, <1>3, <2>2 DEF mid
<1>. QED
  BY SMTT(30), <1>1, <1>2, <1>4, <1>5 DEF Leads

-----------------------------------------------------------------------------
(***************************************************************************)
(* The client's steps.                                                     *)
(***************************************************************************)

\* The parts of the invariant that follow from the client's flush, whatever
\* flags of the client are set before it (c) or after it (d).
FlushedTo(W, r, calm) ==
    /\ Faithful(W, typed, r.c, calm)
    /\ PathStands(W, calm)' /\ UserStands(W, calm)' /\ AcksHeld'
    /\ ~r.c.t.shutdown => W[r.c.t.sentNum] = Len(typed)

\* A flush of the client, whichever flags are set around it, keeps the parts of
\* the invariant about the path, the server and the acknowledged states.
LEMMA FlushStep ==
    ASSUME NEW calm \in BOOLEAN, TypeOK, AcksHeld,
           NEW c \in ClientState(Actions), c.t.sentNum = client.t.sentNum,
           c.t.acked = client.t.acked, c.lastAcked = client.lastAcked,
           NEW V, Faithful(V, typed, c, calm), PathStands(V, calm), UserStands(V, calm),
           NEW r, Flushes(Actions, V, typed, c, r, calm),
           client'.t.sentNum = r.c.t.sentNum, client'.t.acked = r.c.t.acked,
           client'.lastAcked = r.c.lastAcked, toServer' \in {toServer, toServer \cup r.out},
           UNCHANGED <<user, toClient, typed>>
    PROVE  /\ toServer' \subseteq Instruction(Seq(Actions))
           /\ \E W : Extends(W, V, c.t) /\ FlushedTo(W, r, calm)
<1>1. PICK W : /\ Extends(W, V, c.t) /\ Faithful(W, typed, r.c, calm)
               /\ ~r.c.t.shutdown => W[r.c.t.sentNum] = Len(typed)
               /\ \A m \in r.out : Leads(W, typed, m.old, m.new, m.diff, calm)
  BY DEF Flushes
<1>2. /\ r.c \in ClientState(Actions) /\ SameLink(c, r.c)
      /\ c.t.sentNum <= r.c.t.sentNum /\ r.c.lastAcked = c.t.acked
      /\ \A m \in r.out : /\ m \in Instruction(Seq(Actions)) /\ m.throw <= c.t.acked
                          /\ m.old < m.new /\ m.new <= r.c.t.sentNum
  BY DEF Flushes
<1>3. r.c.t.acked = c.t.acked
  BY <1>2 DEF SameLink
<1>4. /\ c.t.sentNum \in Nat /\ c.t.acked \in Nat /\ c.lastAcked \in Nat
      /\ r.c.t.sentNum \in Nat /\ c.lastAcked <= c.t.acked
  BY <1>2, ClientFields DEF Faithful, Bounded
<1>5. toServer \subseteq Instruction(Seq(Actions)) /\ DOMAIN user \subseteq Nat
  BY SessionFacts DEF TypeOK
<1>6. toServer' \subseteq Instruction(Seq(Actions))
  BY <1>2, <1>5
<1>7. \A m \in Instruction(Seq(Actions)) : m.old \in Nat /\ m.new \in Nat /\ m.throw \in Nat
  BY DEF Instruction
<1>8. \A n \in Nat : n <= c.t.sentNum => W[n] = V[n] /\ n <= r.c.t.sentNum
  BY <1>1, <1>2, <1>4 DEF Extends
<1>9. PathStands(W, calm)'
  <2>1. ASSUME NEW m \in toServer
        PROVE  /\ m.old < m.new /\ m.new <= r.c.t.sentNum
               /\ Leads(W, typed, m.old, m.new, m.diff, calm)
    <3>1. /\ m.old \in Nat /\ m.new \in Nat /\ m.old < m.new /\ m.new <= c.t.sentNum
          /\ Leads(V, typed, m.old, m.new, m.diff, calm)
      BY <1>5, <1>7 DEF PathStands
    <3>2. m.old <= c.t.sentNum
      BY <1>4, <3>1
    <3>. QED
      BY <1>8, <3>1, <3>2, LeadsExtended
  <2>. QED
    BY <1>1, <1>2, <2>1 DEF PathStands
<1>10. UserStands(W, calm)'
  <2>1. ASSUME NEW n \in DOMAIN user
        PROVE  n <= r.c.t.sentNum /\ Leads(W, typed, 0, n, user[n], calm)
    <3>1. n \in Nat /\ n <= c.t.sentNum /\ Leads(V, typed, 0, n, user[n], calm)
      BY <1>5 DEF UserStands
    <3>2. 0 \in Nat /\ 0 <= c.t.sentNum
      BY <1>4
    <3>. QED
      BY <1>8, <3>1, <3>2, LeadsExtended
  <2>. QED
    BY <2>1 DEF UserStands
<1>11. AcksHeld'
  <2>1. client'.lastAcked \in DOMAIN user /\ client'.t.acked \in DOMAIN user
    BY <1>2, <1>3 DEF AcksHeld
  <2>2. \A m \in toServer' : m.throw <= client'.lastAcked
    <3>1. \A m \in toServer : m.throw \in Nat /\ m.throw <= c.lastAcked
      BY <1>5, <1>7 DEF AcksHeld
    <3>2. \A m \in toServer : m.throw <= c.t.acked
      BY <1>4, <3>1
    <3>. QED
      BY <1>2, <3>2
  <2>. QED
    BY <1>3, <2>1, <2>2 DEF AcksHeld
<1>. QED
  BY <1>1, <1>6, <1>9, <1>10, <1>11 DEF FlushedTo

\* A result of FlushResults that Flushed lets happen.
LEMMA FlushResultFlushes ==
    ASSUME NEW calm \in BOOLEAN, typed \in Seq(Actions),
           NEW c \in ClientState(Actions), ~c.dead, NEW V, Faithful(V, typed, c, calm),
           NEW r \in FlushResults(c), NEW arrives, Flushed(r, arrives)
    PROVE  /\ Flushes(Actions, V, typed, c, r, calm)
           /\ toServer' \in {toServer, toServer \cup r.out}
<1>1. PICK at \in Readings(c), saves \in Savings, outcome \in Outcomes, refused \in Refusals :
         r = FlushTicks(c, at, saves, outcome, refused)
  BY DEF FlushResults
<1>2. r.c.t.sentNum < ShutdownNum \/ r.c.t.shutdown
  BY DEF Flushed, WithinBounds
<1>3. outcome \in Faulted
  BY SessionFacts
<1>4. Flushes(Actions, V, typed, c, r, calm)
  BY <1>1, <1>2, <1>3, FlushTicksFlushes
<1>. QED
  BY <1>4 DEF Flushed

\* Once V says that a number stands for all input, later ones do.
LEMMA AllStaysAll ==
    ASSUME NEW S, NEW c \in ClientState(S), NEW d \in ClientState(S),
           c.t.sentNum <= d.t.sentNum, NEW log \in Seq(S), NEW V, NEW W,
           Extends(W, V, c.t), Marks(W, log, d.t), V[c.t.sentNum] = Len(log)
    PROVE  W[d.t.sentNum] = Len(log)
<1>1. c.t.sentNum \in Nat /\ d.t.sentNum \in Nat
  BY ClientFields
<1>2. W[c.t.sentNum] = Len(log)
  BY <1>1 DEF Extends
<1>3. W[c.t.sentNum] <= W[d.t.sentNum] /\ W[d.t.sentNum] <= Len(log)
  BY <1>1 DEF Marks
<1>4. W[d.t.sentNum] \in Nat /\ Len(log) \in Nat
  BY <1>1, LenProperties DEF Marks
<1>. QED
  BY <1>2, <1>3, <1>4

\* The flush of a poll keeps the invariant.
LEMMA FlushActionHolds ==
    ASSUME NEW calm \in BOOLEAN, SInv(calm), Flush
    PROVE  SInv(calm)'
<1>1. TypeOK /\ AcksHeld /\ NotHeard /\ Closing /\ ~client.dead
      /\ client \in ClientState(Actions) /\ typed \in Seq(Actions)
  BY DEF SInv, TypeOK, Flush
<1>2. PICK V : Holds(V, calm)
  BY DEF SInv
<1>3. UNCHANGED <<user, host, toClient, typed, phase>>
  BY DEF Flush
<1>4. PICK r \in FlushResults(client), arrives \in BOOLEAN :
         client' = r.c /\ Flushed(r, arrives)
  BY DEF Flush
<1>5. /\ Flushes(Actions, V, typed, client, r, calm)
      /\ toServer' \in {toServer, toServer \cup r.out}
  BY <1>1, <1>2, <1>4, FlushResultFlushes DEF Holds
<1>6. /\ r.c \in ClientState(Actions) /\ SameLink(client, r.c) /\ ~r.c.t.rebase
      /\ client.t.sentNum <= r.c.t.sentNum
  BY <1>5 DEF Flushes
<1>7. PICK W : Extends(W, V, client.t) /\ FlushedTo(W, r, calm)
  BY <1>1, <1>2, <1>3, <1>4, <1>5, FlushStep DEF Holds
<1>8. toServer' \subseteq Instruction(Seq(Actions))
  BY <1>1, <1>2, <1>3, <1>4, <1>5, FlushStep DEF Holds
<1>9. TypeOK'
  BY <1>1, <1>3, <1>4, <1>6, <1>8 DEF TypeOK
<1>10. calm => Carries(W)'
  <2>. SUFFICES ASSUME calm, phase # "running", ~client.initial, client.t.shutdown
                PROVE  W[r.c.t.sentNum] = Len(typed)
    BY <1>3, <1>4, <1>6 DEF Carries, SameLink
  <2>1. V[client.t.sentNum] = Len(typed)
    BY <1>2 DEF Holds, Carries
  <2>2. Marks(W, typed, r.c.t)
    BY <1>7 DEF FlushedTo, Faithful
  <2>. QED
    BY <1>1, <1>6, <1>7, <2>1, <2>2, AllStaysAll
<1>11. Holds(W, calm)'
  BY <1>3, <1>4, <1>7, <1>10 DEF Holds, FlushedTo
<1>12. NotHeard' /\ Closing'
  BY <1>1, <1>3, <1>4, <1>6 DEF NotHeard, Closing, SameLink
<1>. QED
  BY <1>7, <1>9, <1>11, <1>12 DEF SInv, FlushedTo

\* So does the one with which a client gives up on the server: no rebase is
\* awaited then, for nothing was ever acknowledged.
LEMMA InitialTimeoutHolds ==
    ASSUME NEW calm \in BOOLEAN, SInv(calm), InitialTimeout
    PROVE  SInv(calm)'
<1>. DEFINE c == InShutdown(client, TRUE)
<1>1. TypeOK /\ AcksHeld /\ NotHeard /\ Closing /\ ~client.dead /\ ~client.t.attached
      /\ client \in ClientState(Actions) /\ typed \in Seq(Actions)
  BY DEF SInv, TypeOK, InitialTimeout
<1>2. PICK V : Holds(V, calm)
  BY DEF SInv
<1>3. UNCHANGED <<user, host, toClient, typed, phase>>
  BY DEF InitialTimeout
<1>4. PICK r \in FlushResults(c), arrives \in BOOLEAN :
         client' = r.c /\ Flushed(r, arrives)
  BY DEF InitialTimeout, InShutdown
<1>5. /\ c \in ClientState(Actions) /\ Faithful(V, typed, c, calm)
      /\ ShutsDown(client, c, TRUE)
  <2>1. ~client.t.rebase
    BY <1>1 DEF NotHeard
  <2>2. Faithful(V, typed, client, calm)
    BY <1>2 DEF Holds
  <2>. QED
    BY <1>1, <2>1, <2>2, StartShutdownFaithful
<1>. HIDE DEF c
<1>6. /\ Flushes(Actions, V, typed, c, r, calm)
      /\ toServer' \in {toServer, toServer \cup r.out}
  BY <1>1, <1>4, <1>5, FlushResultFlushes DEF ShutsDown
<1>7. /\ r.c \in ClientState(Actions) /\ SameLink(c, r.c) /\ ~r.c.t.rebase
  BY <1>6 DEF Flushes
<1>8. /\ toServer' \subseteq Instruction(Seq(Actions))
      /\ \E W : Extends(W, V, c.t) /\ FlushedTo(W, r, calm)
  BY <1>1, <1>2, <1>3, <1>4, <1>5, <1>6, FlushStep DEF Holds, ShutsDown
<1>9. PICK W : FlushedTo(W, r, calm)
  BY <1>8
<1>10. TypeOK'
  BY <1>1, <1>3, <1>4, <1>7, <1>8 DEF TypeOK
<1>11. Holds(W, calm)'
  BY <1>3, <1>4, <1>5, <1>7, <1>9 DEF Holds, FlushedTo, Carries, SameLink, ShutsDown
<1>12. NotHeard' /\ Closing'
  BY <1>1, <1>3, <1>4, <1>5, <1>7 DEF NotHeard, Closing, SameLink, ShutsDown
<1>. QED
  BY <1>9, <1>10, <1>11, <1>12 DEF SInv, FlushedTo

\* And the one that graceful_shutdown makes first: it leaves all input in the
\* newest state, which the shutdown then stands for.
LEMMA QuitHolds ==
    ASSUME NEW calm \in BOOLEAN, SInv(calm), Quit
    PROVE  SInv(calm)'
<1>1. TypeOK /\ AcksHeld /\ NotHeard /\ Closing /\ ~client.dead
      /\ client \in ClientState(Actions) /\ typed \in Seq(Actions)
  BY DEF SInv, TypeOK, Quit
<1>2. PICK V : Holds(V, calm)
  BY DEF SInv
<1>3. UNCHANGED <<user, host, toClient, typed>> /\ phase = "running" /\ phase' = "quitting"
  BY DEF Quit
<1>4. PICK r \in FlushResults(client), arrives \in BOOLEAN :
         /\ client' = IF r.c.t.fault = "too_large" THEN r.c
                       ELSE [r.c EXCEPT !.t = StartShutdown(@)]
         /\ Flushed(r, arrives)
  BY DEF Quit
<1>5. /\ Flushes(Actions, V, typed, client, r, calm)
      /\ toServer' \in {toServer, toServer \cup r.out}
  BY <1>1, <1>2, <1>4, FlushResultFlushes DEF Holds
<1>6. /\ r.c \in ClientState(Actions) /\ SameLink(client, r.c) /\ ~r.c.t.rebase
      /\ client.t.sentNum <= r.c.t.sentNum
  BY <1>5 DEF Flushes
<1>. DEFINE d == InShutdown(r.c, r.c.initial)
<1>7. client' \in {r.c, d}
  <2>1. [r.c EXCEPT !.t = StartShutdown(@)] = [r.c EXCEPT !.initial = r.c.initial,
                                                         !.t = StartShutdown(@)]
    BY <1>6 DEF ClientState
  <2>. QED
    BY <1>4, <2>1 DEF InShutdown
<1>8. r.c.initial \in BOOLEAN
  BY <1>6 DEF ClientState
<1>9. \A W : Faithful(W, typed, r.c, calm)
        => d \in ClientState(Actions) /\ Faithful(W, typed, d, calm)
             /\ ShutsDown(r.c, d, r.c.initial)
  BY <1>6, <1>8, StartShutdownFaithful
<1>. HIDE DEF d
<1>10. PICK X : Faithful(X, typed, r.c, calm)
  BY <1>5 DEF Flushes
<1>11. /\ client'.t.sentNum = r.c.t.sentNum /\ client'.t.acked = r.c.t.acked
       /\ client'.lastAcked = r.c.lastAcked /\ client' \in ClientState(Actions)
  BY <1>6, <1>7, <1>9, <1>10 DEF ShutsDown
<1>12. /\ toServer' \subseteq Instruction(Seq(Actions))
       /\ \E W : Extends(W, V, client.t) /\ FlushedTo(W, r, calm)
  BY <1>1, <1>2, <1>3, <1>5, <1>11, FlushStep DEF Holds
<1>13. PICK W : Extends(W, V, client.t) /\ FlushedTo(W, r, calm)
  BY <1>12
<1>14. TypeOK'
  BY <1>1, <1>3, <1>11, <1>12 DEF TypeOK
<1>15. Faithful(W, typed, client', calm)
  BY <1>7, <1>9, <1>13 DEF FlushedTo
<1>16. calm => Carries(W)'
  <2>. SUFFICES ASSUME ~client'.initial PROVE W[client'.t.sentNum] = Len(typed)
    BY <1>3 DEF Carries
  <2>1. ~r.c.initial
    BY <1>7, <1>9, <1>10 DEF ShutsDown
  <2>2. ~client.initial /\ ~client.t.shutdown
    BY <1>1, <1>3, <1>6, <2>1 DEF Closing, SameLink
  <2>3. ~r.c.t.shutdown
    BY <1>6, <2>2 DEF SameLink
  <2>. QED
    BY <1>11, <1>13, <2>3 DEF FlushedTo
<1>17. Holds(W, calm)'
  BY <1>3, <1>13, <1>15, <1>16 DEF Holds, FlushedTo
<1>18. NotHeard'
  <2>1. NotHeard' \/ client' # r.c
    BY <1>1, <1>6 DEF NotHeard, SameLink
  <2>2. NotHeard' \/ client' # d
    BY <1>1, <1>6, <1>9, <1>10 DEF NotHeard, SameLink, ShutsDown
  <2>. QED
    BY <1>7, <2>1, <2>2
<1>19. Closing'
  BY <1>3 DEF Closing
<1>. QED
  BY <1>13, <1>14, <1>17, <1>18, <1>19 DEF SInv, FlushedTo

\* An action of the user makes the input longer and nothing else.
LEMMA TypeHolds ==
    ASSUME NEW calm \in BOOLEAN, SInv(calm), Type
    PROVE  SInv(calm)'
<1>. DEFINE a == Len(typed) + 1
<1>1. /\ TypeOK /\ AcksHeld /\ NotHeard /\ Closing /\ ~client.dead /\ phase = "running"
      /\ client \in ClientState(Actions) /\ typed \in Seq(Actions)
      /\ Len(typed) < MaxActions
  BY DEF SInv, TypeOK, Type
<1>2. PICK V : Holds(V, calm)
  BY DEF SInv
<1>3. /\ client' = SendAction(client, a) /\ typed' = Append(typed, a)
      /\ UNCHANGED <<user, host, toServer, toClient, phase>>
  BY DEF Type
<1>4. a \in Actions
  <2>1. Len(typed) \in Nat
    BY <1>1, LenProperties
  <2>. QED
    BY <1>1, <2>1, SessionAssumption DEF Actions
<1>. HIDE DEF a
<1>5. typed' \in Seq(Actions)
  BY <1>1, <1>3, <1>4, AppendProperties
<1>6. client' \in ClientState(Actions) /\ Faithful(V, typed', client', calm)
  BY <1>1, <1>2, <1>3, <1>4, SendActionFaithful DEF Holds
<1>7. client'.t = client.t /\ client'.lastAcked = client.lastAcked
      /\ client'.initial = client.initial
  BY <1>1, <1>3 DEF SendAction, ClientState
<1>8. Marks(V, typed, client.t)
  BY <1>2 DEF Holds, Faithful
<1>9. PathStands(V, calm)'
  <2>1. \A m \in toServer : m.old \in Nat /\ m.new \in Nat
    BY <1>1 DEF TypeOK, Instruction
  <2>2. \A m \in toServer : /\ m.old < m.new /\ m.new <= client.t.sentNum
                            /\ Leads(V, typed, m.old, m.new, m.diff, calm)
    BY <1>2 DEF Holds, PathStands
  <2>3. \A m \in toServer : Leads(V, typed', m.old, m.new, m.diff, calm)
    BY <1>1, <1>3, <1>4, <1>8, <2>1, <2>2, LeadsOfLonger
  <2>. QED
    BY <1>3, <1>7, <2>2, <2>3 DEF PathStands
<1>10. UserStands(V, calm)'
  <2>1. \A n \in DOMAIN user : n \in Nat /\ 0 \in Nat
    BY <1>1, SessionFacts DEF TypeOK
  <2>2. \A n \in DOMAIN user : /\ n <= client.t.sentNum
                               /\ Leads(V, typed, 0, n, user[n], calm)
    BY <1>2 DEF Holds, UserStands
  <2>3. \A n \in DOMAIN user : Leads(V, typed', 0, n, user[n], calm)
    BY <1>1, <1>3, <1>4, <1>8, <2>1, <2>2, LeadsOfLonger
  <2>. QED
    BY <1>3, <1>7, <2>2, <2>3 DEF UserStands
<1>11. Holds(V, calm)'
  BY <1>1, <1>3, <1>6, <1>9, <1>10 DEF Holds, Carries
<1>12. AcksHeld' /\ NotHeard' /\ Closing'
  BY <1>1, <1>3, <1>7 DEF AcksHeld, NotHeard, Closing
<1>13. TypeOK'
  BY <1>1, <1>3, <1>5, <1>6 DEF TypeOK
<1>. QED
  BY <1>11, <1>12, <1>13 DEF SInv

\* What the server sends moves the acknowledged state to one the server holds.
\* A shutdown that is to be whole must not meet an overflow then.
LEMMA ReceiveHolds ==
    ASSUME NEW calm \in BOOLEAN, SInv(calm), calm => Calm, Receive
    PROVE  SInv(calm)'
<1>1. /\ TypeOK /\ AcksHeld /\ NotHeard /\ Closing
      /\ client \in ClientState(Actions) /\ typed \in Seq(Actions)
      /\ toClient \subseteq Instruction(Seq(Actions))
  BY DEF SInv, TypeOK
<1>2. PICK V : Holds(V, calm)
  BY DEF SInv
<1>3. PICK m \in toClient, quiet \in BOOLEAN, rejects \in Rejections, copy \in BOOLEAN :
         /\ client' = [client EXCEPT !.t = RecvResult(client.t, m, quiet).t,
                                     !.dead = RecvResult(client.t, m, quiet).accepted
                                                /\ rejects]
         /\ toClient' = IF copy THEN toClient ELSE toClient \ {m}
  BY Zenon DEF Receive
<1>4. UNCHANGED <<user, host, toServer, typed, phase>>
  BY DEF Receive
<1>. DEFINE u == RecvResult(client.t, m, quiet).t
            dead == RecvResult(client.t, m, quiet).accepted /\ rejects
<1>5. /\ m \in Instruction(Seq(Actions)) /\ m.old = 0 /\ m.throw = 0 /\ m.new > 0
      /\ m.new \in Nat /\ m.new # 0
      /\ m.ack >= client.t.acked => m.ack \in DOMAIN user
  BY <1>1 DEF AcksHeld, Instruction
<1>6. /\ client.t \in TransportState(Seq(Actions)) /\ Sound(client.t)
      /\ client.t.ackNum \in Nat /\ client.t.acked \in Nat
  BY <1>1, <1>2, ClientFields, Fields DEF Holds, Faithful
<1>7. m.throw <= client.t.ackNum /\ m.throw <= m.old /\ m.old < m.new
  BY <1>5, <1>6
<1>8. u \in TransportState(Seq(Actions)) /\ Receives(client.t, m, u)
  BY <1>5, <1>6, <1>7, RecvSound
<1>9. /\ Acknowledges(client.t, u, m.ack)
      /\ client.t.attached => u.attached
      /\ client.t.received = {0} /\ ~client.t.quenched => u.attached
  BY <1>5, <1>6, <1>7, RecvAcknowledges
<1>10. client' \in ClientState(Actions) /\ Faithful(V, typed, client', calm)
  <2>1. calm /\ client.t.shutdown => ~client.t.overflowed
    BY DEF Calm
  <2>2. Faithful(V, typed, client, calm)
    BY <1>2 DEF Holds
  <2>3. dead \in BOOLEAN
    OBVIOUS
  <2>. HIDE DEF dead
  <2>4. /\ Received(client, m, quiet, dead) \in ClientState(Actions)
        /\ Faithful(V, typed, Received(client, m, quiet, dead), calm)
    BY <1>1, <1>5, <1>7, <2>1, <2>2, <2>3, RecvFaithful
  <2>. QED
    BY <1>3, <2>4 DEF dead, Received
<1>. HIDE DEF u, dead
<1>11. client'.t = u /\ client'.lastAcked = client.lastAcked /\ client'.initial = client.initial
  BY <1>1, <1>3 DEF ClientState, u, dead
<1>12. u.sentNum = client.t.sentNum /\ u.shutdown = client.t.shutdown
  BY <1>9 DEF Acknowledges
<1>13. TypeOK'
  BY <1>1, <1>3, <1>4, <1>10 DEF TypeOK
<1>14. Holds(V, calm)'
  BY <1>2, <1>4, <1>10, <1>11, <1>12 DEF Holds, PathStands, UserStands, Carries
<1>15. AcksHeld'
  <2>1. /\ client.t.acked <= u.acked /\ u.acked \in {client.t.acked, m.ack}
        /\ u.acked \in Nat
    BY <1>8, Fields DEF Receives
  <2>2. u.acked \in DOMAIN user
    BY <1>1, <1>5, <2>1 DEF AcksHeld
  <2>3. ASSUME NEW k \in toClient'
        PROVE  /\ k.ack >= u.acked => k.ack \in DOMAIN user
               /\ k.old = 0 /\ k.throw = 0 /\ k.new > 0
    <3>1. k \in toClient /\ k.ack \in Nat
      BY <1>1, <1>3 DEF Instruction
    <3>. QED
      BY <1>1, <1>6, <2>1, <3>1 DEF AcksHeld
  <2>. QED
    BY <1>1, <1>4, <1>11, <2>2, <2>3 DEF AcksHeld
<1>16. NotHeard'
  BY <1>1, <1>9, <1>11 DEF NotHeard
<1>17. Closing'
  BY <1>1, <1>4, <1>11, <1>12 DEF Closing
<1>. QED
  BY <1>13, <1>14, <1>15, <1>16, <1>17 DEF SInv

\* The end of the client, and of the program around it.
LEMMA EndHolds ==
    ASSUME NEW calm \in BOOLEAN, SInv(calm), GiveUp \/ Close
    PROVE  SInv(calm)'
<1>1. /\ TypeOK /\ AcksHeld /\ NotHeard /\ Closing
      /\ client \in ClientState(Actions)
  BY DEF SInv, TypeOK
<1>2. PICK V : Holds(V, calm)
  BY DEF SInv
<1>3. UNCHANGED <<user, host, toServer, toClient, typed>>
  BY DEF GiveUp, Close
<1>4. /\ client' \in ClientState(Actions)
      /\ client'.t = client.t /\ client'.actions = client.actions
      /\ client'.ackedCount = client.ackedCount /\ client'.lastAcked = client.lastAcked
      /\ client'.counts = client.counts /\ client'.dirty = client.dirty
      /\ client'.initial = client.initial
  <2>1. CASE GiveUp
    BY <1>1, <2>1 DEF GiveUp, ClientState
  <2>2. CASE Close
    BY <1>1, <2>2 DEF Close
  <2>. QED
    BY <2>1, <2>2
<1>5. phase' = phase \/ (phase = "quitting" /\ phase' = "closed")
  BY DEF GiveUp, Close
<1>6. Faithful(V, typed, client', calm)
  BY <1>2, <1>4 DEF Holds, Faithful, Bounded, Logged
<1>7. Holds(V, calm)'
  BY <1>2, <1>3, <1>4, <1>5, <1>6 DEF Holds, PathStands, UserStands, Carries
<1>8. TypeOK'
  BY <1>1, <1>3, <1>4, <1>5 DEF TypeOK
<1>9. AcksHeld' /\ NotHeard' /\ Closing'
  BY <1>1, <1>3, <1>4, <1>5 DEF AcksHeld, NotHeard, Closing
<1>. QED
  BY <1>7, <1>8, <1>9 DEF SInv

-----------------------------------------------------------------------------
(***************************************************************************)
(* The server's steps.                                                     *)
(***************************************************************************)

\* What the server holds after it took an instruction.
LEMMA ServerApplyHolds ==
    ASSUME NEW calm \in BOOLEAN, SInv(calm), NEW m \in toServer,
           user' = ServerApply(m), toServer' \subseteq toServer,
           UNCHANGED <<client, host, toClient, typed, phase>>
    PROVE  SInv(calm)'
<1>1. /\ TypeOK /\ AcksHeld /\ NotHeard /\ Closing
      /\ client \in ClientState(Actions) /\ typed \in Seq(Actions)
      /\ toServer \subseteq Instruction(Seq(Actions))
  BY DEF SInv, TypeOK
<1>2. PICK V : Holds(V, calm)
  BY DEF SInv
<1>3. Marks(V, typed, client.t) /\ Bounded(client)
  BY <1>2 DEF Holds, Faithful
<1>4. /\ m.old \in Nat /\ m.new \in Nat /\ m.throw \in Nat /\ m.diff \in Seq(Actions)
      /\ m.old < m.new /\ m.new <= client.t.sentNum
      /\ Leads(V, typed, m.old, m.new, m.diff, calm) /\ m.throw <= client.lastAcked
  BY <1>1, <1>2 DEF Holds, PathStands, AcksHeld, Instruction
<1>5. /\ client.t.sentNum \in 0 .. ShutdownNum /\ ShutdownNum \in Nat
      /\ client.t.acked \in Nat /\ client.lastAcked \in Nat
      /\ client.lastAcked <= client.t.acked
  BY <1>1, <1>3, ClientFields, Fields, CapAssumption DEF Bounded
<1>6. m.new \in 0 .. ShutdownNum /\ m.old # ShutdownNum
  BY <1>4, <1>5
<1>. DEFINE kept == {k \in DOMAIN user : k >= m.throw} \cup {m.new}
            next == [n \in kept |-> IF n = m.new THEN user[m.old] \o m.diff ELSE user[n]]
<1>7. user' = user \/ (m.old \in DOMAIN user /\ user' = next)
  BY DEF ServerApply
<1>8. CASE user' = user
  <2>1. TypeOK' /\ AcksHeld' /\ NotHeard' /\ Closing'
    BY <1>1, <1>8 DEF TypeOK, AcksHeld, NotHeard, Closing
  <2>2. Holds(V, calm)'
    BY <1>2, <1>8 DEF Holds, PathStands, UserStands, Carries
  <2>. QED
    BY <2>1, <2>2 DEF SInv
<1>9. CASE m.old \in DOMAIN user /\ user' = next
  <2>1. DOMAIN user' = kept
    BY <1>9
  <2>2. \A n \in kept : user'[n] = IF n = m.new THEN user[m.old] \o m.diff ELSE user[n]
    BY <1>9
  <2>. HIDE DEF next
  <2>3. user[m.old] \in Seq(Actions)
    BY <1>1, <1>9 DEF TypeOK
  <2>4. user[m.old] \o m.diff \in Seq(Actions)
    BY <1>4, <2>3, ConcatProperties
  <2>5. TypeOK'
    <3>1. kept \subseteq 0 .. ShutdownNum
      BY <1>1, <1>6 DEF TypeOK
    <3>2. \A n \in kept : user'[n] \in Seq(Actions)
      BY <1>1, <2>2, <2>4 DEF TypeOK
    <3>. QED
      BY <1>1, <2>1, <3>1, <3>2 DEF TypeOK
  <2>6. \A n \in DOMAIN user : n >= client.lastAcked => n \in kept
    <3>. SUFFICES ASSUME NEW n \in DOMAIN user, n >= client.lastAcked PROVE n \in kept
      OBVIOUS
    <3>1. n \in Nat
      BY <1>1, <1>5 DEF TypeOK
    <3>. QED
      BY <1>4, <1>5, <3>1
  <2>7. AcksHeld'
    <3>1. client.lastAcked \in kept /\ client.t.acked \in kept
      BY <1>1, <1>5, <2>6 DEF AcksHeld
    <3>2. ASSUME NEW k \in toClient, k.ack >= client.t.acked
          PROVE  k.ack \in kept
      <4>1. k.ack \in DOMAIN user /\ k.ack \in Nat
        BY <1>1, <1>5, <3>2 DEF AcksHeld, TypeOK
      <4>. QED
        BY <1>5, <2>6, <3>2, <4>1
    <3>. QED
      BY <1>1, <2>1, <3>1, <3>2 DEF AcksHeld
  <2>8. UserStands(V, calm)'
    <3>. SUFFICES ASSUME NEW n \in kept
                  PROVE  n <= client.t.sentNum /\ Leads(V, typed, 0, n, user'[n], calm)
      BY <2>1 DEF UserStands
    <3>1. CASE n # m.new
      <4>1. n \in DOMAIN user /\ user'[n] = user[n]
        BY <2>2, <3>1
      <4>. QED
        BY <1>2, <4>1 DEF Holds, UserStands
    <3>2. CASE n = m.new
      <4>1. Leads(V, typed, 0, m.old, user[m.old], calm)
        BY <1>2, <1>9 DEF Holds, UserStands
      <4>2. Leads(V, typed, 0, m.new, user[m.old] \o m.diff, calm)
        BY <1>1, <1>3, <1>4, <1>6, <4>1, LeadsOn
      <4>. QED
        BY <1>4, <2>2, <3>2, <4>2
    <3>. QED
      BY <3>1, <3>2
  <2>9. Holds(V, calm)'
    BY <1>2, <2>8 DEF Holds, PathStands, Carries
  <2>. QED
    BY <1>1, <2>5, <2>7, <2>9 DEF SInv, NotHeard, Closing
<1>. QED
  BY <1>7, <1>8, <1>9

\* The newest of the server's states.
LEMMA AckNumIsHeld ==
    ASSUME NEW calm, SInv(calm)
    PROVE  AckNum \in DOMAIN user /\ AckNum \in Nat /\ \A n \in DOMAIN user : n <= AckNum
<1>1. DOMAIN user \subseteq 0 .. ShutdownNum /\ DOMAIN user # {} /\ ShutdownNum \in Nat
  BY CapAssumption DEF SInv, TypeOK, AcksHeld
<1>2. DOMAIN user \in SUBSET Nat /\ \A n \in DOMAIN user : n <= ShutdownNum
  BY <1>1
<1>. QED
  BY <1>1, <1>2, MaxIsGreatest DEF AckNum

\* The server acknowledges a state it holds.
LEMMA ServerSendHolds ==
    ASSUME NEW calm \in BOOLEAN, SInv(calm), ServerSend
    PROVE  SInv(calm)'
<1>1. /\ TypeOK /\ AcksHeld /\ NotHeard /\ Closing
      /\ AckNum \in DOMAIN user /\ AckNum \in Nat
  BY AckNumIsHeld DEF SInv
<1>2. PICK n \in {host, host + 1} \cap 1 .. MaxHost, diff \in {NoDiff, <<1>>} :
         /\ host' = n
         /\ toClient' = toClient \cup
              {[old |-> 0, new |-> n, diff |-> diff, ack |-> AckNum, throw |-> 0]}
  BY DEF ServerSend
<1>3. UNCHANGED <<client, user, toServer, typed, phase>>
  BY DEF ServerSend
<1>4. n \in Nat /\ n > 0 /\ n \in 0 .. MaxHost
  BY SessionAssumption
<1>5. diff \in Seq(Actions)
  <2>1. <<1>> \in Seq(Actions)
    BY SessionFacts
  <2>. QED
    BY <1>2, <2>1, SessionFacts
<1>. DEFINE m == [old |-> 0, new |-> n, diff |-> diff, ack |-> AckNum, throw |-> 0]
<1>6. m \in Instruction(Seq(Actions))
  BY <1>1, <1>4, <1>5 DEF Instruction
<1>7. TypeOK'
  BY <1>1, <1>2, <1>3, <1>4, <1>6 DEF TypeOK
<1>8. AcksHeld' /\ NotHeard' /\ Closing'
  BY <1>1, <1>2, <1>3, <1>4 DEF AcksHeld, NotHeard, Closing
<1>9. \A V : Holds(V, calm) => Holds(V, calm)'
  BY <1>3 DEF Holds, PathStands, UserStands, Carries
<1>. QED
  BY <1>7, <1>8, <1>9 DEF SInv

-----------------------------------------------------------------------------
(***************************************************************************)
(* The first state, and every step.                                        *)
(***************************************************************************)

\* The first flush takes at most two numbers.
LEMMA FirstFlush ==
    ASSUME NEW r \in FlushResults(Dialled(1)), NEW calm \in BOOLEAN
    PROVE  /\ r.c.t.sentNum < ShutdownNum
           /\ Flushes(Actions, NoMarks, <<1>>, Dialled(1), r, calm)
<1>. DEFINE c == Dialled(1)
            V == NoMarks
            log == <<1>>
<1>1. /\ c \in ClientState(Actions) /\ ~c.dead /\ Faithful(V, log, c, calm)
      /\ ~c.t.shutdown /\ c.t.sentNum = 0
  BY SessionFacts, DialledFaithful
<1>. HIDE DEF c, V
<1>2. log \in Seq(Actions)
  BY SessionFacts
<1>3. PICK at \in Readings(c), saves \in Savings, outcome \in Outcomes, refused \in Refusals :
         r = FlushTicks(c, at, saves, outcome, refused)
  BY DEF FlushResults, c
<1>4. c.t.sentNum + 2 < ShutdownNum
  BY <1>1, SessionAssumption, SessionFacts
<1>. HIDE DEF log
<1>5. r.c.t.sentNum < ShutdownNum
  BY <1>1, <1>2, <1>3, <1>4, FlushNumbers
<1>6. outcome \in Faulted
  BY SessionFacts
<1>7. Flushes(Actions, V, log, c, r, calm)
  BY <1>1, <1>2, <1>3, <1>5, <1>6, FlushTicksFlushes
<1>. QED
  BY <1>5, <1>7 DEF c, V, log

\* A session starts with its first flush.
LEMMA InitHolds ==
    ASSUME NEW calm \in BOOLEAN, Init
    PROVE  SInv(calm)
<1>. DEFINE c == Dialled(1)
            V == NoMarks
<1>1. PICK r \in FlushResults(c), arrives \in BOOLEAN :
         client = r.c /\ toServer = IF arrives THEN r.out ELSE {}
  BY DEF Init
<1>2. /\ user = [n \in {0} |-> << >>] /\ host = 0 /\ toClient = {}
      /\ typed = <<1>> /\ phase = "running"
  BY DEF Init
<1>3. /\ c \in ClientState(Actions) /\ ~c.dead /\ ~c.initial
      /\ Faithful(V, typed, c, calm) /\ ~c.t.shutdown /\ c.t.received = {0}
      /\ c.t.acked = 0 /\ c.t.sentNum = 0 /\ ~c.t.quenched
  BY <1>2, SessionFacts, DialledFaithful
<1>. HIDE DEF c, V
<1>4. typed \in Seq(Actions) /\ << >> \in Seq(Actions)
  BY <1>2, SessionFacts, EmptySeq
<1>5. Flushes(Actions, V, typed, c, r, calm)
  BY <1>1, <1>2, FirstFlush DEF c, V
<1>6. /\ r.c \in ClientState(Actions) /\ SameLink(c, r.c) /\ r.c.lastAcked = 0
       /\ ~r.c.t.rebase
       /\ \A m \in r.out : /\ m \in Instruction(Seq(Actions)) /\ m.throw <= 0
                           /\ m.old < m.new /\ m.new <= r.c.t.sentNum
  BY <1>3, <1>5 DEF Flushes
<1>7. PICK W : /\ Faithful(W, typed, r.c, calm)
                /\ \A m \in r.out : Leads(W, typed, m.old, m.new, m.diff, calm)
  BY <1>5 DEF Flushes
<1>8. /\ ~r.c.t.shutdown /\ r.c.t.acked = 0 /\ r.c.t.received = {0}
       /\ ~r.c.t.quenched
  BY <1>3, <1>6 DEF SameLink
<1>9. toServer \subseteq r.out
  BY <1>1
<1>10. TypeOK
  <2>1. DOMAIN user = {0} /\ user[0] = << >> /\ 0 \in 0 .. ShutdownNum /\ 0 \in 0 .. MaxHost
    BY <1>2, SessionFacts, SessionAssumption
  <2>. QED
    BY <1>1, <1>2, <1>4, <1>6, <1>9, <2>1 DEF TypeOK
<1>11. PathStands(W, calm)
  BY <1>1, <1>6, <1>7, <1>9 DEF PathStands
<1>12. UserStands(W, calm)
  <2>1. Marks(W, typed, r.c.t) /\ W[0] = 0
    BY <1>7 DEF Faithful, Marks
  <2>2. Part(typed, 0, 0) = << >>
    BY <1>4, PartEnds
  <2>3. 0 \in W[0] .. W[0] /\ Part(typed, W[0], 0) = << >>
    BY <2>1, <2>2
  <2>4. Leads(W, typed, 0, 0, << >>, calm)
    BY <2>1, <2>3 DEF Leads
  <2>5. r.c.t.sentNum \in Nat
    BY <1>6, ClientFields
  <2>6. 0 <= r.c.t.sentNum
    BY <2>5
  <2>. QED
    BY <1>1, <1>2, <2>4, <2>6 DEF UserStands
<1>13. Carries(W)
  BY <1>2 DEF Carries
<1>14. Holds(W, calm)
  BY <1>1, <1>7, <1>11, <1>12, <1>13 DEF Holds
<1>15. AcksHeld
  <2>1. DOMAIN user = {0}
    BY <1>2
  <2>. QED
    BY <1>1, <1>2, <1>6, <1>8, <1>9, <2>1 DEF AcksHeld
<1>16. NotHeard /\ Closing
  BY <1>1, <1>6, <1>8 DEF NotHeard, Closing
<1>. QED
  BY <1>10, <1>14, <1>15, <1>16 DEF SInv

\* One step, whoever takes it.
LEMMA StepHolds ==
    ASSUME NEW calm \in BOOLEAN, SInv(calm), calm => Calm, [Next]_vars
    PROVE  SInv(calm)'
<1>1. CASE Type
  BY <1>1, TypeHolds
<1>2. CASE Flush
  BY <1>2, FlushActionHolds
<1>3. CASE Receive
  BY <1>3, ReceiveHolds
<1>4. CASE InitialTimeout
  BY <1>4, InitialTimeoutHolds
<1>5. CASE GiveUp \/ Close
  BY <1>5, EndHolds
<1>6. CASE Quit
  BY <1>6, QuitHolds
<1>7. CASE ServerReceive
  <2>1. PICK m \in toServer, copy \in BOOLEAN :
           /\ user' = ServerApply(m)
           /\ toServer' = IF copy THEN toServer ELSE toServer \ {m}
    BY <1>7 DEF ServerReceive
  <2>2. toServer' \subseteq toServer /\ UNCHANGED <<client, host, toClient, typed, phase>>
    BY <1>7, <2>1 DEF ServerReceive
  <2>. QED
    BY <2>1, <2>2, ServerApplyHolds
<1>8. CASE ServerSend
  BY <1>8, ServerSendHolds
<1>9. CASE UNCHANGED vars
  <2>1. PICK V : Holds(V, calm)
    BY DEF SInv
  <2>2. UNCHANGED <<client, user, host, toServer, toClient, typed, phase>>
    BY <1>9 DEF vars
  <2>3. Holds(V, calm)'
    BY <2>1, <2>2 DEF Holds, PathStands, UserStands, Carries
  <2>4. TypeOK' /\ AcksHeld' /\ NotHeard' /\ Closing'
    BY <2>2 DEF SInv, TypeOK, AcksHeld, NotHeard, Closing
  <2>. QED
    BY <2>3, <2>4 DEF SInv
<1>. QED
  BY <1>1, <1>2, <1>3, <1>4, <1>5, <1>6, <1>7, <1>8, <1>9 DEF Next

-----------------------------------------------------------------------------
(***************************************************************************)
(* The theorems.                                                           *)
(***************************************************************************)

\* The invariant with no assumption about overflows, and the one for runs
\* whose shutdowns meet none.
AnyInv == SInv(FALSE)
CalmInv == SInv(TRUE)

\* Client, server and what is under way stay explained by some V.
THEOREM SessionInvariance == Spec => []AnyInv
<1>1. Init => AnyInv
  BY InitHolds DEF AnyInv
<1>2. AnyInv /\ [Next]_vars => AnyInv'
  BY StepHolds DEF AnyInv
<1>. QED
  BY <1>1, <1>2, PTL DEF Spec

\* And so does the shutdown, when it meets no overflow.
THEOREM CalmInvariance == Spec /\ []Calm => []CalmInv
<1>1. Init => CalmInv
  BY InitHolds DEF CalmInv
<1>2. CalmInv /\ Calm /\ [Next]_vars => CalmInv'
  BY StepHolds DEF CalmInv
<1>. QED
  BY <1>1, <1>2, PTL DEF Spec

\* Client, server and the instructions under way keep their types, and the
\* attempts of a shutdown stay within SHUTDOWN_RETRIES.
THEOREM SessionIsTyped == Spec => []TypeOK
<1>1. AnyInv => TypeOK
  BY DEF AnyInv, SInv
<1>. QED
  BY <1>1, SessionInvariance, PTL

\* What V says of a state of the server.
LEMMA UserIsPart ==
    ASSUME NEW calm \in BOOLEAN, SInv(calm), NEW V, Holds(V, calm), NEW n \in DOMAIN user
    PROVE  /\ \E k \in Nat : /\ k <= V[n] /\ k <= Len(typed) /\ V[n] <= Len(typed)
                             /\ user[n] = Part(typed, 0, k)
                             /\ n # ShutdownNum \/ calm => k = V[n]
           /\ n \in Nat /\ typed \in Seq(Actions)
<1>1. /\ client \in ClientState(Actions) /\ typed \in Seq(Actions)
      /\ n \in 0 .. ShutdownNum /\ ShutdownNum \in Nat
  BY SessionFacts DEF SInv, TypeOK
<1>2. n \in Nat
  BY <1>1
<1>3. Marks(V, typed, client.t) /\ Leads(V, typed, 0, n, user[n], calm) /\ V[0] = 0
  BY DEF Holds, Faithful, UserStands, Marks
<1>4. V[n] \in Nat /\ V[n] <= Len(typed) /\ Len(typed) \in Nat
  BY <1>1, <1>2, <1>3, MarksRange
<1>5. PICK k \in 0 .. V[n] : /\ n # ShutdownNum \/ calm => k = V[n]
                             /\ user[n] = Part(typed, 0, k)
  BY <1>3 DEF Leads
<1>6. k \in Nat /\ k <= V[n] /\ k <= Len(typed)
  BY <1>4, <1>5
<1>. QED
  BY <1>1, <1>2, <1>4, <1>5, <1>6

\* However optimistic bases, retransmissions, empty states, culls and
\* rebases combine, every state the server rebuilds is a prefix of what the
\* user did.
THEOREM InputStaysPrefix == Spec => []InputIsPrefix
<1>1. ASSUME AnyInv, NEW n \in DOMAIN user
      PROVE  IsPrefix(user[n], typed)
  <2>1. SInv(FALSE) /\ \E V : Holds(V, FALSE)
    BY <1>1 DEF AnyInv, SInv
  <2>2. PICK V : Holds(V, FALSE)
    BY Zenon, <2>1
  <2>3. PICK k \in Nat : k <= Len(typed) /\ user[n] = Part(typed, 0, k)
    BY <2>1, <2>2, UserIsPart
  <2>4. typed \in Seq(Actions)
    BY <2>1 DEF SInv, TypeOK
  <2>5. Len(user[n]) = k
    BY <2>3, <2>4, PartProperties
  <2>6. SubSeq(user[n], 1, k) = user[n]
    BY <2>3, <2>4, <2>5, PartProperties, SubSeqFull
  <2>7. SubSeq(typed, 1, k) = user[n]
    BY <2>3 DEF Part
  <2>. QED
    BY <2>3, <2>5, <2>6, <2>7 DEF IsPrefix
<1>2. AnyInv => InputIsPrefix
  BY <1>1 DEF InputIsPrefix
<1>. QED
  BY <1>2, SessionInvariance, PTL

\* The log and the server's copy of the last acknowledged state together are
\* everything the user did.
THEOREM NothingIsForgotten == Spec => []NothingForgotten
<1>1. ASSUME AnyInv, ~client.t.shutdown
      PROVE  /\ client.lastAcked \in DOMAIN user
             /\ user[client.lastAcked] \o From(client.actions, client.ackedCount) = typed
  <2>1. SInv(FALSE) /\ \E V : Holds(V, FALSE)
    BY <1>1 DEF AnyInv, SInv
  <2>2. PICK V : Holds(V, FALSE)
    BY Zenon, <2>1
  <2>. DEFINE n == client.lastAcked
  <2>3. /\ n \in DOMAIN user /\ client \in ClientState(Actions) /\ typed \in Seq(Actions)
    BY <2>1 DEF SInv, AcksHeld, TypeOK
  <2>4. /\ Sound(client.t) /\ Bounded(client) /\ Logged(V, typed, client)
    BY <1>1, <2>2 DEF Holds, Faithful
  <2>5. n # ShutdownNum
    <3>1. /\ n \in Nat /\ client.t.acked \in Nat /\ ShutdownNum \in Nat
          /\ client.t.sentNum \in 0 .. ShutdownNum
      BY <2>3, ClientFields, Fields, SessionFacts
    <3>2. n <= client.t.acked /\ client.t.acked <= client.t.sentNum
      BY <2>4 DEF Sound, Bounded
    <3>3. client.t.sentNum # ShutdownNum
      BY <1>1, <2>4 DEF Sound
    <3>. QED
      BY <3>1, <3>2, <3>3
  <2>6. client.actions = Part(typed, V[n], Len(typed)) /\ client.ackedCount = 0
    BY <2>4 DEF Logged, Bounded
  <2>7. PICK k \in Nat : /\ k <= Len(typed) /\ k = V[n] /\ user[n] = Part(typed, 0, k)
    BY <2>1, <2>2, <2>3, <2>5, UserIsPart
  <2>8. Len(typed) \in Nat /\ 0 \in Nat /\ 0 <= k
    BY <2>3, <2>7, LenProperties
  <2>9. From(client.actions, 0) = client.actions
    <3>1. client.actions \in Seq(Actions)
      BY <2>3, ClientFields
    <3>. QED
      BY <2>8, <3>1, PartEnds
  <2>10. Part(typed, 0, k) \o Part(typed, k, Len(typed)) = Part(typed, 0, Len(typed))
    <3>1. k <= Len(typed) /\ Len(typed) <= Len(typed)
      BY <2>7, <2>8
    <3>. QED
      BY <2>3, <2>8, <3>1, PartsJoin
  <2>11. Part(typed, 0, Len(typed)) = typed
    BY <2>3, PartEnds
  <2>. QED
    BY <2>3, <2>6, <2>7, <2>9, <2>10, <2>11
<1>2. AnyInv => NothingForgotten
  BY <1>1 DEF NothingForgotten
<1>. QED
  BY <1>2, SessionInvariance, PTL

\* A shutdown the server acknowledged carried all the input queued when the
\* user quit, if no overflow was unresolved while it was under way.
THEOREM CloseCarriesInput == Spec /\ []Calm => []CloseKeepsInput
<1>1. ASSUME CalmInv, phase # "running", ~client.initial, ShutdownAcknowledged(client.t)
      PROVE  user[AckNum] = typed
  <2>1. SInv(TRUE) /\ \E V : Holds(V, TRUE)
    BY <1>1 DEF CalmInv, SInv
  <2>2. PICK V : Holds(V, TRUE)
    BY Zenon, <2>1
  <2>3. /\ client \in ClientState(Actions) /\ typed \in Seq(Actions)
        /\ client.t.acked \in DOMAIN user /\ DOMAIN user \subseteq 0 .. ShutdownNum
    BY <2>1 DEF SInv, AcksHeld, TypeOK
  <2>4. client.t.shutdown /\ client.t.acked = ShutdownNum
    BY <1>1 DEF ShutdownAcknowledged
  <2>5. /\ AckNum \in DOMAIN user /\ AckNum \in Nat /\ client.t.acked <= AckNum
    BY <2>1, <2>3, AckNumIsHeld
  <2>6. AckNum = ShutdownNum
    BY <2>3, <2>4, <2>5, SessionFacts
  <2>7. client.t.sentNum = ShutdownNum
    BY <2>2, <2>3, <2>4, ClientFields, Fields, CapAssumption DEF Holds, Faithful, Sound
  <2>8. V[ShutdownNum] = Len(typed)
    BY <1>1, <2>2, <2>4, <2>7 DEF Holds, Carries
  <2>9. PICK k \in Nat : k = V[AckNum] /\ user[AckNum] = Part(typed, 0, k)
    BY <2>1, <2>2, <2>5, UserIsPart
  <2>. QED
    BY <2>3, <2>6, <2>8, <2>9, PartEnds
<1>2. CalmInv => CloseKeepsInput
  BY <1>1 DEF CloseKeepsInput
<1>. QED
  BY <1>2, CalmInvariance, PTL

-----------------------------------------------------------------------------
(***************************************************************************)
(* The session implements the input stream.                                *)
(***************************************************************************)

\* The server never discards its newest state: no watermark passes a state
\* the client does not hold for acknowledged.
LEMMA NewestIsKept ==
    ASSUME NEW calm \in BOOLEAN, SInv(calm), ServerReceive
    PROVE  AckNum \in DOMAIN user' /\ user'[AckNum] = user[AckNum]
<1>1. /\ AckNum \in DOMAIN user /\ AckNum \in Nat /\ \A n \in DOMAIN user : n <= AckNum
  BY AckNumIsHeld
<1>2. PICK m \in toServer : user' = ServerApply(m)
  BY DEF ServerReceive
<1>3. /\ client.lastAcked <= AckNum /\ m.throw <= client.lastAcked
      /\ client.lastAcked \in Nat /\ m.throw \in Nat
  <2>1. TypeOK /\ AcksHeld
    BY DEF SInv
  <2>2. m \in Instruction(Seq(Actions)) /\ client \in ClientState(Actions)
    BY <2>1 DEF TypeOK
  <2>3. client.lastAcked \in Nat
    BY <2>2, ClientFields
  <2>. QED
    BY <1>1, <2>1, <2>2, <2>3 DEF AcksHeld, Instruction
<1>4. AckNum >= m.throw
  BY <1>1, <1>3
<1>. DEFINE top == AckNum
            kept == {k \in DOMAIN user : k >= m.throw} \cup {m.new}
            next == [n \in kept |-> IF n = m.new THEN user[m.old] \o m.diff ELSE user[n]]
<1>5. top \in DOMAIN user /\ top >= m.throw
  BY <1>1, <1>4
<1>6. user' = user \/ (m.new \notin DOMAIN user /\ user' = next)
  BY <1>2 DEF ServerApply
<1>. HIDE DEF top
<1>7. top \in DOMAIN user' /\ user'[top] = user[top]
  BY <1>5, <1>6
<1>. QED
  BY <1>7 DEF top

\* The newest state of the server holds a part of the input, and no other
\* state holds more.
SeenIsLongest ==
    /\ typed \in Seq(Actions)
    /\ \E k \in 0 .. Len(typed) :
          user[AckNum] = SubSeq(typed, 1, k) /\ Len(user[AckNum]) = k
    /\ \A n \in DOMAIN user : Len(user[n]) <= Len(user[AckNum])

\* That follows from the calm invariant: V grows with the number.
LEMMA CalmIsLongest ==
    ASSUME CalmInv
    PROVE  SeenIsLongest
<1>1. SInv(TRUE) /\ \E V : Holds(V, TRUE)
  BY Zenon DEF CalmInv, SInv
<1>2. PICK V : Holds(V, TRUE)
  BY Zenon, <1>1
<1>3. AckNum \in DOMAIN user /\ AckNum \in Nat /\ \A n \in DOMAIN user : n <= AckNum
  BY <1>1, AckNumIsHeld
<1>. DEFINE top == AckNum
            len == Len(typed)
<1>4. top \in DOMAIN user /\ top \in Nat /\ \A n \in DOMAIN user : n <= top
  BY <1>3
<1>5. /\ typed \in Seq(Actions) /\ len \in Nat
      /\ V \in [Nat -> Nat] /\ \A m, n \in Nat : m <= n => V[m] <= V[n]
  BY <1>1, <1>2, LenProperties DEF SInv, TypeOK, Holds, Faithful, Marks
<1>6. ASSUME NEW n \in DOMAIN user
      PROVE  /\ n \in Nat /\ V[n] \in Nat /\ V[n] <= len
             /\ user[n] = Part(typed, 0, V[n]) /\ Len(user[n]) = V[n]
  <2>1. /\ n \in Nat
        /\ \E k \in Nat : k <= len /\ user[n] = Part(typed, 0, k) /\ k = V[n]
    BY <1>1, <1>2, <1>6, UserIsPart
  <2>2. PICK k \in Nat : k <= len /\ user[n] = Part(typed, 0, k) /\ k = V[n]
    BY <2>1
  <2>3. Len(Part(typed, 0, k)) = k
    <3>1. 0 \in Nat /\ 0 <= k /\ k <= Len(typed) /\ k - 0 = k
      BY <2>2
    <3>. QED
      BY <1>5, <3>1, PartProperties
  <2>. QED
    BY <2>1, <2>2, <2>3
<1>. HIDE DEF top, len
<1>7. ASSUME NEW n \in DOMAIN user
      PROVE  Len(user[n]) <= Len(user[top])
  <2>1. n <= top /\ n \in Nat /\ top \in Nat
    BY <1>4, <1>6
  <2>2. V[n] <= V[top]
    BY <1>5, <2>1
  <2>3. Len(user[n]) = V[n] /\ Len(user[top]) = V[top]
    BY <1>4, <1>6
  <2>. QED
    BY <2>2, <2>3
<1>8. \E k \in 0 .. len : user[top] = SubSeq(typed, 1, k) /\ Len(user[top]) = k
  <2>1. /\ V[top] \in Nat /\ V[top] <= len /\ user[top] = Part(typed, 0, V[top])
        /\ Len(user[top]) = V[top]
    BY <1>4, <1>6
  <2>. DEFINE v == V[top]
  <2>2. v \in 0 .. len
    <3>1. v \in Nat /\ v <= len
      BY <2>1
    <3>. HIDE DEF v
    <3>. QED
      BY <1>5, <3>1
  <2>3. user[top] = SubSeq(typed, 1, V[top])
    BY <2>1 DEF Part
  <2>. QED
    BY <2>1, <2>2, <2>3
<1>. QED
  BY <1>5, <1>7, <1>8 DEF SeenIsLongest, top, len

\* What the server has seen grows to a longer prefix of the input.
LEMMA SeenAdvances ==
    ASSUME CalmInv, SeenIsLongest', ServerReceive
    PROVE  Stream!Advance
<1>1. AckNum \in DOMAIN user' /\ user'[AckNum] = user[AckNum]
  BY NewestIsKept DEF CalmInv
<1>2. typed' = typed
  BY DEF ServerReceive
<1>. DEFINE seen == user[AckNum]
            next == user'[AckNum']
<1>3. Len(seen) <= Len(next)
  BY <1>1 DEF SeenIsLongest
<1>4. PICK k \in 0 .. Len(typed) : next = SubSeq(typed, 1, k) /\ Len(next) = k
  BY <1>2 DEF SeenIsLongest
<1>5. Len(seen) \in Nat /\ Len(typed) \in Nat
  <2>1. SeenIsLongest
    BY CalmIsLongest
  <2>2. \E j \in 0 .. Len(typed) : Len(seen) = j
    BY <2>1 DEF SeenIsLongest
  <2>3. typed \in Seq(Actions)
    BY <2>1 DEF SeenIsLongest
  <2>. QED
    BY <2>2, <2>3, LenProperties
<1>6. k \in Len(seen) .. Len(typed)
  <2>1. k \in Nat /\ k <= Len(typed) /\ Len(seen) <= k
    BY <1>3, <1>4, <1>5
  <2>. HIDE DEF seen
  <2>. QED
    BY <1>5, <2>1
<1>7. next = user[AckNum]'
  OBVIOUS
<1>. QED
  BY <1>2, <1>4, <1>6, <1>7 DEF Stream!Advance

\* Over any network, with optimistic bases, empty states, culls and rebases,
\* the server's newest state is a reliable stream of the user's input, as
\* long as no shutdown meets an unresolved overflow.
THEOREM SessionIsStream == Spec /\ []Calm => ImplementsStream
<1>. DEFINE step == [Stream!Next]_<<typed, user[AckNum]>>
<1>1. Init => Stream!Init
  <2>. SUFFICES ASSUME Init PROVE Stream!Init
    OBVIOUS
  <2>1. SInv(TRUE)
    BY InitHolds
  <2>2. AckNum \in DOMAIN user
    BY <2>1, AckNumIsHeld
  <2>3. user[AckNum] = << >> /\ typed = <<1>>
    BY <2>2 DEF Init
  <2>. QED
    BY <2>3, SessionFacts DEF Stream!Init
<1>2. CalmInv => SeenIsLongest
  BY CalmIsLongest
<1>3. CalmInv /\ SeenIsLongest' /\ [Next]_vars => step
  <2>. SUFFICES ASSUME CalmInv, SeenIsLongest', [Next]_vars PROVE step
    OBVIOUS
  <2>1. CASE Type
    <3>1. Len(typed) + 1 \in Actions
      <4>1. Len(typed) \in Nat /\ Len(typed) < MaxActions
        BY <2>1, LenProperties DEF Type, CalmInv, SInv, TypeOK
      <4>. QED
        BY <4>1, SessionAssumption DEF Actions
    <3>2. typed' = Append(typed, Len(typed) + 1) /\ user' = user
      BY <2>1 DEF Type
    <3>3. user[AckNum]' = user[AckNum]
      BY <3>2 DEF AckNum
    <3>. QED
      BY <3>1, <3>2, <3>3 DEF Stream!Next, Stream!Act
  <2>2. CASE ServerReceive
    BY <2>2, SeenAdvances DEF Stream!Next
  <2>3. CASE ~Type /\ ~ServerReceive
    <3>1. user' = user /\ typed' = typed
      <4>1. Flush \/ Receive \/ InitialTimeout => UNCHANGED <<user, typed>>
        BY Zenon DEF Flush, Receive, InitialTimeout
      <4>2. GiveUp \/ Quit \/ Close \/ ServerSend => UNCHANGED <<user, typed>>
        BY Zenon DEF GiveUp, Quit, Close, ServerSend
      <4>3. UNCHANGED vars => UNCHANGED <<user, typed>>
        BY Zenon DEF vars
      <4>. QED
        BY <2>3, <4>1, <4>2, <4>3 DEF Next
    <3>2. user[AckNum]' = user[AckNum]
      BY <3>1 DEF AckNum
    <3>. QED
      BY <3>1, <3>2
  <2>. QED
    BY <2>1, <2>2, <2>3
<1>. QED
  BY <1>1, <1>2, <1>3, CalmInvariance, PTL DEF Spec, ImplementsStream, Stream!Spec

-----------------------------------------------------------------------------
(***************************************************************************)
(* Attempts of a shutdown, when no state is cut from an optimistic base.   *)
(***************************************************************************)

\* A flush puts no state into the queue but on the acknowledged state or on
\* the base of one that was there; so it is with the attempts of a shutdown;
\* and no watermark it sends passes the base of a queued state.
FlushBases(c, r) ==
    /\ \A s \in r.c.t.outbound : s.old = c.t.acked \/ \E p \in c.t.outbound : p.old = s.old
    /\ \A m \in r.out :
          /\ \A s \in r.c.t.outbound : m.throw <= s.old
          /\ c.t.shutdown =>
                /\ m.new = ShutdownNum
                /\ m.old = c.t.acked \/ \E p \in c.t.outbound : p.old = m.old

\* At the end of a flush nothing new enters the queue.
TickBases(c, r) ==
    /\ FlushBases(c, r)
    /\ \A s \in r.c.t.outbound : \E p \in c.t.outbound : p.old = s.old

SameNumbers(t, u) == u.sentNum = t.sentNum /\ u.shutdown = t.shutdown

\* In shutdown a tick sends nothing but an attempt of it.
LEMMA ShutdownTick ==
    ASSUME NEW Diff, NEW t \in TransportState(Diff), Sound(t), t.shutdown,
           NEW now, NEW outcome
    PROVE  \A m \in TickResult(t, now, outcome).out :
              /\ m.new = ShutdownNum
              /\ m.old = t.acked \/ \E p \in t.outbound : p.old = m.old
<1>. DEFINE d == DropSuperseded(t)
            u == [d EXCEPT !.sentNum = ShutdownNum, !.tries = d.tries + 1]
            last == Back(d.outbound)
            old == IF d.outbound = {} THEN d.acked ELSE last.old
            diff == IF d.outbound = {} THEN NoDiff ELSE last.diff
            r == TickResult(t, now, outcome)
            shut == TransmitShutdown(d, outcome)
            sent == Transmit(u, old, ShutdownNum, diff, outcome)
<1>1. /\ d \in TransportState(Diff) /\ Sound(d) /\ d.shutdown /\ d.acked = t.acked
      /\ \A s \in d.outbound : \E p \in t.outbound : p.old = s.old
  BY DropSupersededSound, DropCarries DEF Carried, SameFlags
<1>2. r.out = {} \/ (SendDue(d, now) /\ r = shut)
  <2>1. ~SendDue(d, now) => r.out = {}
    BY DEF TickResult
  <2>2. SendDue(d, now) => r = shut
    BY <1>1 DEF TickResult
  <2>. HIDE DEF d, r, shut
  <2>. QED
    BY Zenon, <2>1, <2>2
<1>3. shut = sent
  BY DEF TransmitShutdown
<1>4. old = d.acked \/ \E s \in d.outbound : s.old = old
  <2>1. d.outbound # {} => last \in d.outbound
    BY <1>1, BackOfQueue
  <2>. QED
    BY <2>1
<1>5. ASSUME SendDue(d, now) PROVE u \in TransportState(Diff)
  <2>. HIDE DEF d
  <2>1. ~(d.tries >= ShutdownRetries)
    BY <1>1, <1>5 DEF SendDue, ShutdownDue, ShutdownTimedOut
  <2>2. d.tries + 1 \in 0 .. ShutdownRetries /\ ShutdownNum \in 0 .. ShutdownNum
    BY <1>1, <2>1, Fields, CapAssumption
  <2>. QED
    BY <1>1, <2>2 DEF TransportState
<1>. HIDE DEF d, u, old, diff, shut, sent, r
<1>6. ASSUME NEW m \in r.out PROVE m.new = ShutdownNum /\ m.old = old
  <2>1. u \in TransportState(Diff) /\ m \in sent.out
    BY <1>2, <1>3, <1>5, <1>6
  <2>2. \A k \in sent.out : k.old = old /\ k.new = ShutdownNum
    BY <2>1, TransmitContent DEF sent
  <2>. QED
    BY <2>1, <2>2
<1>7. old = t.acked \/ \E p \in t.outbound : p.old = old
  BY <1>1, <1>4
<1>. QED
  BY <1>6, <1>7 DEF r

\* The queue after the input was queued on a known base.
LEMMA KnownInput ==
    ASSUME NEW S, NEW c \in ClientState(S), NEW fresh
    PROVE  LET u == QueueInput(c, fresh, FALSE).t
           IN  /\ \A s \in u.outbound :
                     s.old = c.t.acked \/ \E p \in c.t.outbound : p.old = s.old
               /\ c.t.shutdown => u = c.t
<1>. DEFINE t == c.t
            diff == From(c.actions, c.ackedCount)
            v == SetPendingFrom(t, t.acked, diff)
            u == QueueInput(c, fresh, FALSE).t
            s0 == [old |-> t.acked, new |-> t.sentNum + 1, diff |-> diff, sent |-> FALSE]
<1>1. t \in TransportState(Seq(S))
  BY ClientFields
<1>2. u \in {t, v}
  <2>. DEFINE more == c.counts \cup {[state |-> v.sentNum, count |-> Len(c.actions)]}
  <2>1. QueueInput(c, fresh, FALSE)
          \in {c, [c EXCEPT !.dirty = FALSE],
               [c EXCEPT !.dirty = FALSE, !.known = FALSE, !.t = v, !.counts = more]}
    BY DEF QueueInput
  <2>. HIDE DEF v, more
  <2>. QED
    BY <2>1 DEF ClientState
<1>3. v = t \/ (~t.shutdown /\ v.outbound \subseteq t.outbound \cup {s0})
  <2>. HIDE DEF t, diff
  <2>. QED
    BY <1>1 DEF SetPendingFrom, TransportState
<1>4. s0.old = t.acked
  OBVIOUS
<1>. HIDE DEF v, u, s0
<1>5. \A s \in u.outbound : s.old = t.acked \/ \E p \in t.outbound : p.old = s.old
  BY <1>2, <1>3, <1>4
<1>6. t.shutdown => u = t
  BY <1>2, <1>3
<1>. QED
  BY <1>5, <1>6 DEF u

\* The tick at the end of a flush puts nothing into the queue.
LEMMA TickKnowsBases ==
    ASSUME NEW S, NEW c \in ClientState(S), NEW log \in Seq(S), NEW V,
           NEW whole \in BOOLEAN, Sendable(V, log, c, whole),
           NEW now, NEW outcome \in Faulted, NEW refused,
           LET u == TickResult(c.t, now, outcome).t
           IN  u.sentNum < ShutdownNum \/ u.shutdown
    PROVE  TickBases(c, TickAndSend(c, now, outcome, refused))
<1>. DEFINE Diff == Seq(S)
            r == TickAndSend(c, now, outcome, refused)
            t == c.t
            q == TickResult(t, now, outcome)
            v == IF refused /\ q.out # {} THEN SetMaxFragmentPayload(q.t) ELSE q.t
            gone == q.t.fault # "none"
<1>1. r.c = [c EXCEPT !.t = v, !.dead = gone] /\ r.out = q.out
  BY DEF TickAndSend
<1>2. /\ t \in TransportState(Diff) /\ Sound(t) /\ NoDiff \in Diff
      /\ Marks(V, log, t) /\ Queued(V, log, t) /\ (whole \/ ~t.shutdown => AtTip(V, t))
  <2>1. NoDiff \in Diff
    BY NoDiffAssumption, EmptySeq
  <2>. QED
    BY <2>1, ClientFields DEF Sendable
<1>3. q.t.sentNum < ShutdownNum \/ q.t.shutdown
  OBVIOUS
<1>4. v \in {q.t, SetMaxFragmentPayload(q.t)}
  OBVIOUS
<1>. HIDE DEF Diff, t, q, v, gone, r
<1>5. Sends(Diff, t, q)
  <2>1. q.t.sentNum = ShutdownNum => q.t.shutdown
    BY <1>3, CapAssumption
  <2>. QED
    BY <1>2, <2>1, TickSound DEF q
<1>6. Ticks(V, log, whole, t, q)
  BY <1>2, <1>3, TickTicks, NoDiffAssumption DEF q
<1>7. r.c.t = v
  BY <1>1 DEF ClientState
<1>8. q.t \in TransportState(Diff) /\ \A m \in q.out : Announces(q.t, m)
  BY <1>5 DEF Sends
<1>9. \A s \in v.outbound : \E p \in q.t.outbound : p.old = s.old
  <2>1. CASE v = q.t
    BY <2>1
  <2>2. CASE v = SetMaxFragmentPayload(q.t)
    BY <1>8, <2>2, SetMaxFragmentPayloadCarries DEF Carried
  <2>. QED
    BY <1>4, <2>1, <2>2
<1>10. \A s \in q.t.outbound : \E p \in t.outbound : p.old = s.old
  BY <1>6 DEF Ticks, Carried
<1>11. \A s \in v.outbound : \E p \in t.outbound : p.old = s.old
  BY <1>9, <1>10
<1>12. \A m \in r.out, s \in v.outbound : m.throw <= s.old
  BY <1>1, <1>8, <1>9 DEF Announces
<1>13. t.shutdown => \A m \in r.out : /\ m.new = ShutdownNum
                                      /\ m.old = t.acked \/ \E p \in t.outbound : p.old = m.old
  BY <1>1, <1>2, ShutdownTick DEF q
<1>. QED
  BY <1>7, <1>11, <1>12, <1>13 DEF TickBases, FlushBases, t, r

\* A socket that refuses a datagram changes no number.
LEMMA RefusalNumbers ==
    ASSUME NEW Diff, NEW c, {"t", "dead"} \subseteq DOMAIN c,
           c.t \in TransportState(Diff), NEW now, NEW outcome, NEW refused
    PROVE  SameNumbers(TickResult(c.t, now, outcome).t,
                       TickAndSend(c, now, outcome, refused).c.t)
<1>. DEFINE q == TickResult(c.t, now, outcome)
            r == TickAndSend(c, now, outcome, refused)
            v == IF refused /\ q.out # {} THEN SetMaxFragmentPayload(q.t) ELSE q.t
            gone == q.t.fault # "none"
<1>1. r.c = [c EXCEPT !.t = v, !.dead = gone] /\ v \in {q.t, SetMaxFragmentPayload(q.t)}
  BY DEF TickAndSend
<1>2. {"sentNum", "shutdown"} \subseteq DOMAIN q.t
  <2>1. DOMAIN q.t = DOMAIN c.t
    BY TickDomain
  <2>. QED
    BY <2>1 DEF TransportState
<1>. HIDE DEF v, gone, r, q
<1>3. r.c.t = v
  BY <1>1
<1>. QED
  BY <1>1, <1>2, <1>3 DEF SameNumbers, SetMaxFragmentPayload, q, r

\* What a flush of known bases does.
LEMMA FlushKnowsBases ==
    ASSUME NEW S, NEW c \in ClientState(S), ~c.dead, NEW log \in Seq(S), NEW V,
           NEW whole \in BOOLEAN, Faithful(V, log, c, whole),
           NEW at, NEW outcome \in Faulted, NEW refused,
           LET u == FlushTicks(c, at, FALSE, outcome, refused).c.t
           IN  u.sentNum < ShutdownNum \/ u.shutdown,
           NEW r, r = FlushTicks(c, at, FALSE, outcome, refused)
    PROVE  FlushBases(c, r)
<1>. DEFINE c1 == ForceKnownBase(c, at.fresh)
            c2 == ReleaseAcked(c1)
            c3 == QueueInput(c2, at.fresh, FALSE)
            q == TickResult(c3.t, at.now, outcome)
<1>1. r = TickAndSend(c3, at.now, outcome, refused)
  BY DEF FlushTicks, ProcessAcks
<1>2. /\ c1 \in ClientState(S) /\ Ready(V, log, c1, whole) /\ SameClient(c, c1)
  BY ForceKnownBaseReady
<1>3. c1.t.outbound = c.t.outbound /\ c1.t.acked = c.t.acked /\ c1.t.shutdown = c.t.shutdown
  <2>1. c1.t = TakeRebase(c.t)
    BY DEF ForceKnownBase, ClientState
  <2>2. c.t \in TransportState(Seq(S))
    BY ClientFields
  <2>. HIDE DEF c1
  <2>. QED
    BY <2>1, <2>2 DEF TakeRebase, TransportState
<1>. HIDE DEF c1
<1>4. /\ c2 \in ClientState(S) /\ Ready(V, log, c2, whole) /\ SameClient(c1, c2)
      /\ c2.t = c1.t /\ c2.lastAcked = c1.t.acked
  BY <1>2, ReleaseAckedReady
<1>. HIDE DEF c2
<1>5. /\ \A s \in c3.t.outbound :
            s.old = c2.t.acked \/ \E p \in c2.t.outbound : p.old = s.old
      /\ c2.t.shutdown => c3.t = c2.t
  BY <1>4, KnownInput
<1>6. /\ c3.t \in TransportState(Seq(S)) /\ (c3.t.shutdown <=> c2.t.shutdown)
      /\ {"t", "dead"} \subseteq DOMAIN c3
  BY <1>4, QueueInputTyped DEF Ready
<1>7. r.c.t.sentNum < ShutdownNum \/ r.c.t.shutdown
  OBVIOUS
<1>8. q.t.sentNum < ShutdownNum \/ q.t.shutdown
  <2>. DEFINE x == TickAndSend(c3, at.now, outcome, refused)
  <2>1. SameNumbers(q.t, x.c.t)
    BY <1>6, RefusalNumbers
  <2>. HIDE DEF x, q
  <2>2. r = x
    BY <1>1 DEF x
  <2>. QED
    BY <1>7, <2>1, <2>2 DEF SameNumbers
<1>9. c3.t.sentNum # ShutdownNum \/ c3.t.shutdown
  <2>. SUFFICES ASSUME c3.t.sentNum = ShutdownNum, ~c3.t.shutdown PROVE FALSE
    OBVIOUS
  <2>1. \A s \in c3.t.outbound : s.new <= ShutdownNum
    BY <1>4, QueueInputTyped DEF Ready, c3
  <2>2. q.t.sentNum = ShutdownNum /\ ~q.t.shutdown
    BY <1>6, <2>1, TickOutOfNumbers
  <2>. HIDE DEF q
  <2>. QED
    BY <1>8, <2>2, CapAssumption
<1>10. Queues(S, V, log, c2, c3, whole)
  BY <1>4, <1>9, QueueInputQueues DEF c3
<1>. HIDE DEF c3, q
<1>11. PICK W : Sendable(W, log, c3, whole)
  BY <1>10 DEF Queues
<1>12. TickBases(c3, r)
  <2>1. c3 \in ClientState(S)
    BY <1>10 DEF Queues
  <2>. QED
    BY <1>1, <1>8, <1>11, <2>1, TickKnowsBases DEF q
<1>13. \A s \in r.c.t.outbound : s.old = c.t.acked \/ \E p \in c.t.outbound : p.old = s.old
  <2>1. c2.t.acked = c.t.acked /\ c2.t.outbound = c.t.outbound
    BY <1>3, <1>4
  <2>2. \A s \in c3.t.outbound :
           s.old = c.t.acked \/ \E p \in c.t.outbound : p.old = s.old
    BY <1>5, <2>1
  <2>. TAKE s \in r.c.t.outbound
  <2>3. PICK p \in c3.t.outbound : p.old = s.old
    BY <1>12 DEF TickBases
  <2>. QED
    BY <2>2, <2>3
<1>14. c.t.shutdown => c3.t.acked = c.t.acked /\ c3.t.outbound = c.t.outbound /\ c3.t.shutdown
  BY <1>3, <1>4, <1>5
<1>. QED
  BY <1>12, <1>13, <1>14 DEF TickBases, FlushBases

\* The base "old" is held by the server, and no instruction under way makes
\* it discard that.
BaseHeld(old) == old \in DOMAIN user /\ \A m \in toServer : m.throw <= old

\* The base of every queued state is held; so is that of every attempt of a
\* shutdown until one is accepted, and only attempts can discard it.
BasesHeld ==
    /\ \A s \in client.t.outbound : BaseHeld(s.old)
    /\ \A m \in toServer : m.new = ShutdownNum =>
          /\ ShutdownNum \notin DOMAIN user => m.old \in DOMAIN user
          /\ \A k \in toServer : k.new # ShutdownNum => k.throw <= m.old

\* The acknowledged state is held.
LEMMA AckedIsHeld ==
    ASSUME TypeOK, AcksHeld, client.lastAcked <= client.t.acked
    PROVE  BaseHeld(client.t.acked)
<1>1. client.t.acked \in Nat /\ client.lastAcked \in Nat
  BY ClientFields DEF TypeOK
<1>2. \A m \in toServer : m.throw \in Nat /\ m.throw <= client.lastAcked
  BY DEF TypeOK, AcksHeld, Instruction
<1>. QED
  BY <1>1, <1>2 DEF AcksHeld, BaseHeld

\* One result of a flush when no base is optimistic.
LEMMA FlushResultBases ==
    ASSUME Savings \subseteq {FALSE}, typed \in Seq(Actions),
           NEW c \in ClientState(Actions), ~c.dead, NEW V, Faithful(V, typed, c, FALSE),
           NEW r \in FlushResults(c), r.c.t.sentNum < ShutdownNum \/ r.c.t.shutdown
    PROVE  FlushBases(c, r)
<1>1. PICK at \in Readings(c), saves \in Savings, outcome \in Outcomes, refused \in Refusals :
         r = FlushTicks(c, at, saves, outcome, refused)
  BY DEF FlushResults
<1>2. r = FlushTicks(c, at, FALSE, outcome, refused)
  BY <1>1
<1>3. outcome \in Faulted
  BY SessionFacts
<1>. QED
  BY <1>2, <1>3, FlushKnowsBases

\* A flush, whichever flags are set around it, leaves the bases held.
LEMMA FlushHoldsBases ==
    ASSUME TypeOK, AcksHeld, BasesHeld,
           NEW c \in ClientState(Actions), c.t.outbound = client.t.outbound,
           c.t.acked = client.t.acked, c.t.sentNum = client.t.sentNum,
           NEW V, Faithful(V, typed, c, FALSE), Faithful(V, typed, client, FALSE),
           PathStands(V, FALSE),
           NEW r, Flushes(Actions, V, typed, c, r, FALSE), FlushBases(c, r),
           r.c.t.sentNum < ShutdownNum \/ r.c.t.shutdown,
           client'.t.outbound = r.c.t.outbound, toServer' \subseteq toServer \cup r.out,
           user' = user
    PROVE  BasesHeld'
<1>1. /\ client \in ClientState(Actions) /\ client.lastAcked <= client.t.acked
      /\ ShutdownNum \in Nat /\ Sound(c.t) /\ c.t.sentNum \in 0 .. ShutdownNum
      /\ \A m \in toServer : m.new \in Nat
  BY ClientFields, Fields, SessionFacts DEF TypeOK, Faithful, Bounded, Instruction
<1>2. BaseHeld(c.t.acked)
  BY <1>1, AckedIsHeld
<1>3. \A old : old = c.t.acked \/ (\E p \in c.t.outbound : p.old = old) => BaseHeld(old)
  BY <1>2 DEF BasesHeld
<1>4. ASSUME NEW s \in r.c.t.outbound
      PROVE  s.old \in DOMAIN user /\ \A m \in toServer' : m.throw <= s.old
  <2>1. BaseHeld(s.old)
    BY <1>3 DEF FlushBases
  <2>. QED
    BY <2>1 DEF BaseHeld, FlushBases
<1>5. \A s \in client'.t.outbound : BaseHeld(s.old)'
  BY <1>4 DEF BaseHeld
<1>6. ASSUME NEW m \in toServer, m.new = ShutdownNum PROVE c.t.shutdown
  <2>1. m.new <= c.t.sentNum
    BY DEF PathStands
  <2>. QED
    BY <1>1, <1>6, <2>1 DEF Sound
<1>7. ASSUME NEW m \in r.out, m.new = ShutdownNum PROVE c.t.shutdown
  <2>1. m.new <= r.c.t.sentNum /\ r.c.t.shutdown = c.t.shutdown /\ r.c.t.sentNum \in Nat
    BY ClientFields DEF Flushes, SameLink
  <2>. QED
    BY <1>1, <1>7, <2>1
<1>8. ASSUME NEW m \in toServer', m.new = ShutdownNum
      PROVE  /\ ShutdownNum \notin DOMAIN user => m.old \in DOMAIN user
             /\ \A k \in toServer' : k.new # ShutdownNum => k.throw <= m.old
  <2>1. c.t.shutdown
    BY <1>6, <1>7, <1>8
  <2>2. \A k \in r.out : k.new = ShutdownNum
    BY <2>1 DEF FlushBases
  <2>3. CASE m \in toServer
    BY <1>8, <2>2, <2>3 DEF BasesHeld
  <2>4. CASE m \in r.out
    <3>1. BaseHeld(m.old)
      BY <1>3, <2>1, <2>4 DEF FlushBases
    <3>. QED
      BY <2>2, <3>1 DEF BaseHeld
  <2>. QED
    BY <2>3, <2>4
<1>. QED
  BY <1>5, <1>8 DEF BasesHeld

\* What the server does with an instruction leaves them held.
LEMMA ServerHoldsBases ==
    ASSUME SInv(FALSE), BasesHeld, ServerReceive
    PROVE  BasesHeld'
<1>1. PICK m \in toServer : user' = ServerApply(m) /\ toServer' \subseteq toServer
  BY DEF ServerReceive
<1>2. client' = client
  BY DEF ServerReceive
<1>. DEFINE kept == {k \in DOMAIN user : k >= m.throw} \cup {m.new}
            next == [n \in kept |-> IF n = m.new THEN user[m.old] \o m.diff ELSE user[n]]
<1>3. user' = user \/ (DOMAIN user' = kept /\ m.new \in DOMAIN user')
  BY <1>1 DEF ServerApply
<1>4. /\ DOMAIN user \subseteq Nat /\ m.throw \in Nat
      /\ \A s \in client.t.outbound : s.old \in Nat
      /\ \A k \in toServer : k.old \in Nat
  <2>1. /\ DOMAIN user \subseteq 0 .. ShutdownNum /\ ShutdownNum \in Nat
        /\ toServer \subseteq Instruction(Seq(Actions))
        /\ client.t \in TransportState(Seq(Actions))
    BY ClientFields, SessionFacts DEF SInv, TypeOK
  <2>2. \A k \in toServer : k.old \in Nat /\ k.throw \in Nat
    BY <2>1 DEF Instruction
  <2>3. \A s \in client.t.outbound : s.old \in Nat
    BY <2>1 DEF TransportState, OutboundState
  <2>. QED
    BY <2>1, <2>2, <2>3
<1>5. \A n \in DOMAIN user : m.throw <= n => n \in DOMAIN user'
  BY <1>3, <1>4
<1>6. \A s \in client.t.outbound : BaseHeld(s.old)'
  BY <1>1, <1>4, <1>5 DEF BasesHeld, BaseHeld
<1>7. ASSUME NEW k \in toServer', k.new = ShutdownNum, ShutdownNum \notin DOMAIN user'
      PROVE  k.old \in DOMAIN user'
  <2>1. CASE user' = user
    BY <1>1, <1>7, <2>1 DEF BasesHeld
  <2>2. CASE DOMAIN user' = kept /\ m.new \in DOMAIN user'
    <3>1. m.new # ShutdownNum
      BY <1>7, <2>2
    <3>2. m.throw <= k.old
      BY <1>1, <1>7, <3>1 DEF BasesHeld
    <3>3. ShutdownNum \notin DOMAIN user
      <4>1. m.throw <= ShutdownNum
        <5>1. PICK V : Holds(V, FALSE)
          BY Zenon DEF SInv
        <5>2. /\ client.lastAcked <= client.t.acked /\ client.t.acked <= client.t.sentNum
              /\ m.throw <= client.lastAcked
          BY <5>1 DEF Holds, Faithful, Bounded, Sound, SInv, AcksHeld
        <5>3. /\ client.t.sentNum \in 0 .. ShutdownNum /\ ShutdownNum \in Nat
              /\ client.lastAcked \in Nat /\ client.t.acked \in Nat
          BY ClientFields, Fields, SessionFacts DEF SInv, TypeOK
        <5>. QED
          BY <1>4, <5>2, <5>3
      <4>. QED
        BY <1>5, <1>7, <4>1
    <3>. QED
      BY <1>1, <1>5, <1>7, <3>2, <3>3 DEF BasesHeld
  <2>. QED
    BY <1>3, <2>1, <2>2
<1>. QED
  BY <1>1, <1>2, <1>6, <1>7 DEF BasesHeld

\* So do the flushes of a poll, of the initial timeout and of a user who quits.
LEMMA FlushesHoldBases ==
    ASSUME Savings \subseteq {FALSE}, SInv(FALSE), BasesHeld,
           Flush \/ InitialTimeout \/ Quit
    PROVE  BasesHeld'
<1>. DEFINE shut == InShutdown(client, TRUE)
<1>1. /\ TypeOK /\ AcksHeld /\ NotHeard /\ ~client.dead /\ client \in ClientState(Actions)
      /\ typed \in Seq(Actions)
  BY DEF SInv, TypeOK, Flush, InitialTimeout, Quit
<1>2. PICK V : Holds(V, FALSE)
  BY Zenon DEF SInv
<1>3. Faithful(V, typed, client, FALSE) /\ PathStands(V, FALSE)
  BY Zenon, <1>2 DEF Holds
<1>4. user' = user
  BY DEF Flush, InitialTimeout, Quit
<1>5. shut.t.outbound = client.t.outbound /\ shut.dead = client.dead
  <2>1. client.t \in TransportState(Seq(Actions))
    BY <1>1, ClientFields
  <2>. QED
    BY <1>1, <2>1 DEF InShutdown, StartShutdown, ClientState, TransportState
<1>. HIDE DEF shut
<1>6. \E c \in {client, shut} : \E r \in FlushResults(c), arrives \in BOOLEAN :
          /\ Flushed(r, arrives) /\ client'.t.outbound = r.c.t.outbound
          /\ c # client => ~client.t.attached
  <2>1. CASE Flush
    BY <2>1 DEF Flush
  <2>2. CASE InitialTimeout
    BY <2>2 DEF InitialTimeout, InShutdown, shut
  <2>3. CASE Quit
    <3>1. PICK r \in FlushResults(client), arrives \in BOOLEAN :
             /\ client' = IF r.c.t.fault = "too_large" THEN r.c
                           ELSE [r.c EXCEPT !.t = StartShutdown(@)]
             /\ Flushed(r, arrives)
      BY <2>3 DEF Quit
    <3>2. r.c \in ClientState(Actions) /\ r.c.t \in TransportState(Seq(Actions))
      BY <1>1, <1>3, <3>1, FlushResultFlushes, ClientFields DEF Flushes
    <3>3. client'.t \in {r.c.t, StartShutdown(r.c.t)}
      BY <3>1, <3>2 DEF ClientState
    <3>4. StartShutdown(r.c.t).outbound = r.c.t.outbound
      BY <3>2 DEF StartShutdown, TransportState
    <3>. QED
      BY <3>1, <3>3, <3>4
  <2>. QED
    BY <2>1, <2>2, <2>3
<1>7. PICK c \in {client, shut} : \E r \in FlushResults(c), arrives \in BOOLEAN :
          /\ Flushed(r, arrives) /\ client'.t.outbound = r.c.t.outbound
          /\ c # client => ~client.t.attached
  BY <1>6
<1>8. PICK r \in FlushResults(c), arrives \in BOOLEAN :
          /\ Flushed(r, arrives) /\ client'.t.outbound = r.c.t.outbound
          /\ c # client => ~client.t.attached
  BY <1>7
<1>9. /\ c \in ClientState(Actions) /\ Faithful(V, typed, c, FALSE) /\ ~c.dead
      /\ c.t.outbound = client.t.outbound /\ c.t.acked = client.t.acked
      /\ c.t.sentNum = client.t.sentNum
  <2>1. CASE c = client
    BY <1>1, <1>3, <2>1
  <2>2. CASE c # client
    <3>1. ~client.t.rebase
      BY <1>1, <1>8, <2>2 DEF NotHeard
    <3>2. /\ shut \in ClientState(Actions) /\ Faithful(V, typed, shut, FALSE)
          /\ ShutsDown(client, shut, TRUE)
      BY <1>1, <1>3, <3>1, StartShutdownFaithful DEF shut
    <3>. QED
      BY <1>1, <1>5, <2>2, <3>2 DEF ShutsDown
  <2>. QED
    BY <2>1, <2>2
<1>10. /\ Flushes(Actions, V, typed, c, r, FALSE)
      /\ toServer' \in {toServer, toServer \cup r.out}
  BY <1>1, <1>8, <1>9, FlushResultFlushes
<1>11. r.c.t.sentNum < ShutdownNum \/ r.c.t.shutdown
  BY <1>8 DEF Flushed, WithinBounds
<1>12. FlushBases(c, r)
  BY <1>1, <1>8, <1>9, <1>11, FlushResultBases
<1>. QED
  BY <1>1, <1>3, <1>4, <1>8, <1>9, <1>10, <1>11, <1>12, FlushHoldsBases

\* At the start only state 0 is a base.
LEMMA InitHoldsBases ==
    ASSUME Savings \subseteq {FALSE}, Init
    PROVE  BasesHeld
<1>. DEFINE c == Dialled(1)
            V == NoMarks
<1>1. PICK r \in FlushResults(c), arrives \in BOOLEAN :
         client = r.c /\ toServer = IF arrives THEN r.out ELSE {}
  BY DEF Init
<1>2. typed = <<1>> /\ 0 \in DOMAIN user
  BY DEF Init
<1>3. /\ c \in ClientState(Actions) /\ ~c.dead /\ Faithful(V, typed, c, FALSE)
      /\ c.t.acked = 0
  BY <1>2, SessionFacts, DialledFaithful
<1>4. c.t.outbound = {}
  BY DEF Dialled, ForceNextSend, NewTransport
<1>5. r.c.t.sentNum < ShutdownNum /\ Flushes(Actions, V, typed, c, r, FALSE)
  BY <1>1, <1>2, FirstFlush
<1>. HIDE DEF c, V
<1>6. typed \in Seq(Actions)
  BY <1>2, SessionFacts
<1>7. FlushBases(c, r)
  BY <1>1, <1>3, <1>5, <1>6, FlushResultBases
<1>8. \A s \in client.t.outbound : BaseHeld(s.old)
  <2>1. \A s \in r.c.t.outbound : s.old = 0
    BY <1>3, <1>4, <1>7 DEF FlushBases
  <2>2. \A m \in r.out, s \in r.c.t.outbound : m.throw <= s.old
    BY <1>7 DEF FlushBases
  <2>. QED
    BY <1>1, <1>2, <2>1, <2>2 DEF BaseHeld
<1>9. \A m \in toServer : m.new # ShutdownNum
  <2>1. r.c.t.sentNum \in Nat /\ \A m \in r.out : m.new <= r.c.t.sentNum
    BY <1>5, ClientFields DEF Flushes
  <2>. QED
    BY <1>1, <1>5, <2>1, SessionFacts
<1>. QED
  BY <1>8, <1>9 DEF BasesHeld

\* Every other step leaves the queue, the server and the path alone, or lets
\* acknowledged states leave the queue.
LEMMA StepHoldsBases ==
    ASSUME Savings \subseteq {FALSE}, SInv(FALSE), BasesHeld, [Next]_vars
    PROVE  BasesHeld'
<1>1. client \in ClientState(Actions) /\ client.t \in TransportState(Seq(Actions))
  BY ClientFields DEF SInv, TypeOK
<1>2. ASSUME client'.t.outbound \subseteq client.t.outbound, UNCHANGED <<user, toServer>>
      PROVE  BasesHeld'
  BY <1>2 DEF BasesHeld, BaseHeld
<1>3. CASE Flush \/ InitialTimeout \/ Quit
  BY <1>3, FlushesHoldBases
<1>4. CASE ServerReceive
  BY <1>4, ServerHoldsBases
<1>5. CASE Type
  BY <1>1, <1>2, <1>5 DEF Type, SendAction, ClientState
<1>6. CASE Receive
  <2>1. PICK m \in toClient, quiet \in BOOLEAN, rejects \in Rejections, copy \in BOOLEAN :
           /\ client' = [client EXCEPT !.t = RecvResult(client.t, m, quiet).t,
                                       !.dead = RecvResult(client.t, m, quiet).accepted
                                                  /\ rejects]
           /\ toClient' = IF copy THEN toClient ELSE toClient \ {m}
    BY Zenon, <1>6 DEF Receive
  <2>. DEFINE u == RecvResult(client.t, m, quiet).t
  <2>2. client'.t = u
    BY <1>1, <2>1 DEF ClientState
  <2>3. Acknowledges(client.t, u, m.ack)
    <3>1. PICK V : Holds(V, FALSE)
      BY Zenon DEF SInv
    <3>2. Sound(client.t) /\ client.t.ackNum \in Nat
      BY <1>1, <3>1, Fields DEF Holds, Faithful
    <3>3. m \in Instruction(Seq(Actions)) /\ m.throw = 0
      BY <2>1 DEF SInv, TypeOK, AcksHeld
    <3>4. m.throw <= client.t.ackNum
      BY <3>2, <3>3
    <3>. QED
      BY <1>1, <3>2, <3>3, <3>4, RecvAcknowledges
  <2>. HIDE DEF u
  <2>4. u.outbound \subseteq client.t.outbound
    BY <2>3 DEF Acknowledges
  <2>. QED
    BY <1>2, <1>6, <2>2, <2>4 DEF Receive
<1>7. CASE GiveUp \/ Close \/ ServerSend \/ UNCHANGED vars
  <2>1. client'.t = client.t /\ UNCHANGED <<user, toServer>>
    BY <1>1, <1>7 DEF GiveUp, Close, ServerSend, vars, ClientState
  <2>. QED
    BY <1>2, <2>1
<1>. QED
  BY <1>3, <1>4, <1>5, <1>6, <1>7 DEF Next

\* When the size comparison never favours an optimistic base, every attempt
\* of a shutdown builds on a state the server holds, so that one attempt
\* getting through is enough.  (When it does, the run SessionCloseIncomplete
\* shows that this fails.)
THEOREM CloseReachesBase ==
    ASSUME Savings \subseteq {FALSE}
    PROVE  Spec => []CloseFindsBase
<1>1. Init => BasesHeld
  BY InitHoldsBases
<1>2. BasesHeld /\ AnyInv /\ [Next]_vars => BasesHeld'
  BY StepHoldsBases DEF AnyInv
<1>3. BasesHeld => CloseFindsBase
  BY DEF BasesHeld, CloseFindsBase
<1>. QED
  BY <1>1, <1>2, <1>3, SessionInvariance, PTL DEF Spec

=============================================================================
