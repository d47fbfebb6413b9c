--------------------------- MODULE Sockets_proofs ---------------------------
(***************************************************************************)
(* Proofs about Sockets.tla for any candidates, also more than MaxPorts,   *)
(* and any limits (SocketsAssumption).  Its fairness is not used: every    *)
(* theorem here is a safety property.                                      *)
(***************************************************************************)
EXTENDS Sockets, SequenceTheorems, TLAPS

\* What a socket is.
Sort ==
    [peer : Hosts, up : BOOLEAN, down : BOOLEAN, out : BOOLEAN, back : BOOLEAN,
     heard : BOOLEAN]

-----------------------------------------------------------------------------
(***************************************************************************)
(* The inductive invariant.                                                *)
(***************************************************************************)

\* The units since dialling, until the session is attached or given up: the
\* clock of the initial timeout stops when its shutdown starts another.
Elapsed == IF closing = NotClosing THEN sinceContact ELSE ConnectWithin + 1 + closing

\* Only an address of the server carries datagrams, hears us or answers.
PathsAreReal ==
    \A i \in DOMAIN sockets :
        sockets[i].up \/ sockets[i].down \/ sockets[i].heard \/ sockets[i].back
            => sockets[i].peer \in real

\* How many sockets the limit has closed after so many hops.
Closed(hops) ==
    IF hops = 0 \/ Len(Candidates) + hops <= MaxPorts THEN 0
    ELSE Len(Candidates) + hops - MaxPorts

\* The sockets of the candidates and of that many hops to the first of them,
\* less the oldest that the limit has closed.
HopList(s, hops) ==
    /\ Len(s) = Len(Candidates) + hops - Closed(hops)
    /\ \A i \in DOMAIN s :
         s[i].peer = IF i + Closed(hops) <= Len(Candidates) THEN Candidates[i + Closed(hops)]
                     ELSE Candidates[1]

\* Until attachment the sockets are such a list, and each hop took its time.
HopsAreTimed ==
    ~attached =>
        /\ remote = Candidates[1]
        /\ \E hops \in 0 .. HopsWhileConnecting :
             HopList(sockets, hops) /\ HopAfter * hops + sinceChoice <= Elapsed

\* The initial timeout is noticed in the unit it passes in.
ConnectIsTimed ==
    ~attached => IF closing = NotClosing THEN ~due => sinceContact <= ConnectWithin
                 ELSE sinceContact = ConnectWithin + 1

CloseIsTimed == ~due => closing < CloseWithin

\* A hop away from a newest socket without an answer is kept off by the late
\* acknowledgements, each for an interval.
TrialIsShort ==
    /\ attached /\ ~answered => sinceChoice <= HopAfter * (Queued - owed) + sinceRoundtrip
    /\ ~due => ~HopDue

SocketsInv ==
    /\ sockets \in Seq(Sort) /\ TypeOK
    /\ PathsAreReal /\ LeadsToServer
    /\ HopsAreTimed /\ ConnectIsTimed /\ CloseIsTimed
    /\ TrialIsShort

-----------------------------------------------------------------------------
(***************************************************************************)
(* Lemmas.                                                                 *)
(***************************************************************************)

\* The limits are numbers, and there is a candidate.
LEMMA Limits ==
    /\ MaxPorts \in Nat \ {0} /\ HopAfter \in Nat \ {0} /\ ConnectWithin \in Nat \ {0}
    /\ CloseWithin \in Nat \ {0} /\ OldAge \in Nat /\ MaxFaults \in Nat
    /\ Queued \in Nat /\ OldAge >= HopAfter
BY SocketsAssumption

\* The candidates are a sequence of addresses, at least one.
LEMMA CandidatesAreHosts ==
    /\ Len(Candidates) \in Nat \ {0} /\ DOMAIN Candidates = 1 .. Len(Candidates)
    /\ \A i \in DOMAIN Candidates : Candidates[i] \in Hosts
BY SocketsAssumption, EmptySeq, LenProperties DEF Hosts, ToSet

\* What the late acknowledgements so far have kept off.
LEMMA KeptOff ==
    \A n \in 0 .. Queued :
        /\ HopAfter * (Queued - n) \in Nat
        /\ HopAfter * (Queued - n + 1) = HopAfter * (Queued - n) + HopAfter
BY Limits

\* As many hops as time allows fit in the division HopsWhileConnecting.
LEMMA HopsFit ==
    ASSUME NEW hops \in Nat, HopAfter * hops <= ConnectWithin + CloseWithin
    PROVE  hops <= HopsWhileConnecting
<1>. DEFINE time == ConnectWithin + CloseWithin
            whole == time \div HopAfter
<1>1. time \in Nat /\ HopAfter \in Nat \ {0}
  BY Limits
<1>. HIDE DEF time
<1>2. /\ whole \in Nat
      /\ time < HopAfter * (whole + 1)
  BY <1>1
<1>. HIDE DEF whole
<1>3. ASSUME hops >= whole + 1 PROVE FALSE
  <2>1. HopAfter * (whole + 1) <= HopAfter * hops
    BY <1>1, <1>2, <1>3
  <2>. QED
    BY <1>1, <1>2, <2>1 DEF time
<1>. QED
  BY <1>2, <1>3 DEF HopsWhileConnecting, time, whole

\* How many sockets the limit closed is a number, and leaves a socket.
LEMMA ClosedFits ==
    ASSUME NEW hops \in Nat
    PROVE  /\ Closed(hops) \in Nat
           /\ Len(Candidates) + hops - Closed(hops) >= 1
           /\ hops > 0 => Len(Candidates) + hops - Closed(hops) <= MaxPorts
BY Limits, CandidatesAreHosts DEF Closed

\* A list of sockets is in order: not empty, and longer than the limit only as
\* dialled.
LEMMA ListFits ==
    ASSUME NEW s \in Seq(Sort), NEW hops \in Nat, HopList(s, hops)
    PROVE  /\ s # << >>
           /\ Len(s) <= MaxPorts \/ [i \in DOMAIN s |-> s[i].peer] = Candidates
<1>1. Len(s) \in Nat /\ DOMAIN s = 1 .. Len(s) /\ Len(s) >= 1
  BY ClosedFits, CandidatesAreHosts, LenProperties DEF HopList
<1>2. s # << >>
  BY <1>1
<1>3. CASE hops > 0
  BY <1>2, <1>3, ClosedFits DEF HopList
<1>4. CASE hops = 0
  <2>1. Closed(hops) = 0
    BY <1>4 DEF Closed
  <2>2. /\ DOMAIN s = DOMAIN Candidates
        /\ \A i \in DOMAIN s : s[i].peer = Candidates[i]
    BY <1>1, <1>4, <2>1, CandidatesAreHosts DEF HopList
  <2>3. Candidates = [i \in DOMAIN Candidates |-> Candidates[i]]
    BY SocketsAssumption
  <2>4. [i \in DOMAIN s |-> s[i].peer] = [i \in DOMAIN Candidates |-> Candidates[i]]
    BY <2>2
  <2>. QED
    BY <1>2, <2>3, <2>4
<1>. QED
  BY <1>3, <1>4

\* Rewriting every socket in place gives sockets, as many as before.
LEMMA InPlace ==
    ASSUME NEW s \in Seq(Sort), NEW e, DOMAIN e = DOMAIN s, \A j \in DOMAIN s : e[j] \in Sort,
           e = [j \in DOMAIN s |-> e[j]]
    PROVE  e \in Seq(Sort) /\ Len(e) = Len(s) /\ DOMAIN e = 1 .. Len(s)
<1>1. Len(s) \in Nat /\ DOMAIN s = 1 .. Len(s)
  BY LenProperties
<1>2. e \in [1 .. Len(s) -> Sort]
  BY <1>1
<1>3. e \in Seq(Sort)
  BY <1>1, <1>2, SeqDef
<1>. QED
  BY <1>1, <1>3, LenProperties

\* The parts of the invariant a step keeps that only rewrites the flags of
\* sockets and moves no clock.
SameSockets ==
    /\ sockets' \in Seq(Sort) /\ Len(sockets') = Len(sockets)
    /\ DOMAIN sockets' = DOMAIN sockets
    /\ \A i \in DOMAIN sockets : sockets'[i].peer = sockets[i].peer

\* Datagrams that move between client and server touch neither clocks nor
\* what the client knows.
LEMMA NetworkKeeps ==
    ASSUME SocketsInv, SameSockets, UNCHANGED <<Unmoved, answered>>, PathsAreReal',
           news' \in {"none", "heard", "answered"}, faults' \in 0 .. MaxFaults
    PROVE  SocketsInv'
<1>. USE DEF Unmoved, clocks
<1>1. TypeOK'
  <2>1. \A i \in DOMAIN sockets' : sockets'[i] \in Sort
    BY LenProperties DEF SameSockets
  <2>2. [j \in DOMAIN sockets' |-> sockets'[j].peer] = [j \in DOMAIN sockets |-> sockets[j].peer]
    BY DEF SameSockets
  <2>3. sockets' # << >>
    BY EmptySeq, LenProperties DEF SameSockets, SocketsInv, TypeOK
  <2>. QED
    BY <2>1, <2>2, <2>3 DEF SocketsInv, TypeOK, SameSockets, Sort
<1>2. LeadsToServer' /\ HopsAreTimed'
  BY DEF SocketsInv, LeadsToServer, HopsAreTimed, HopList, Elapsed, SameSockets
<1>3. ConnectIsTimed' /\ CloseIsTimed' /\ TrialIsShort'
  BY DEF SocketsInv, ConnectIsTimed, CloseIsTimed, TrialIsShort, HopDue
<1>. QED
  BY <1>1, <1>2, <1>3 DEF SocketsInv, SameSockets

\* A datagram is heard, answered or lost, or a path fails.
LEMMA PathStep ==
    ASSUME SocketsInv, NEW i \in DOMAIN sockets, Hear(i) \/ Reply(i) \/ Lose(i) \/ Fail(i)
    PROVE  SocketsInv'
<1>1. /\ sockets \in Seq(Sort) /\ \A j \in DOMAIN sockets : sockets[j] \in Sort
      /\ news \in {"none", "heard", "answered"} /\ faults \in 0 .. MaxFaults
  BY LenProperties DEF SocketsInv, TypeOK
<1>2. UNCHANGED <<Unmoved, answered>>
  BY DEF Hear, Reply, Lose, Fail
<1>3. news' \in {"none", "heard", "answered"}
  BY <1>1 DEF Hear, Reply, Lose, Fail
<1>4. faults' \in 0 .. MaxFaults
  <2>1. CASE Hear(i) \/ Reply(i) \/ Lose(i)
    BY <1>1, <2>1 DEF Hear, Reply, Lose
  <2>2. CASE Fail(i)
    <3>1. faults < MaxFaults /\ faults' = faults + 1
      BY <2>2 DEF Fail
    <3>. QED
      BY <1>1, <3>1, Limits
  <2>. QED
    BY <2>1, <2>2
<1>5. /\ sockets' = [j \in DOMAIN sockets |-> sockets'[j]]
      /\ \A j \in DOMAIN sockets : /\ sockets'[j] \in Sort
                                   /\ sockets'[j].peer = sockets[j].peer
  <2>1. CASE Hear(i)
    BY <1>1, <2>1 DEF Hear, Sort
  <2>2. CASE Reply(i)
    BY <1>1, <2>2 DEF Reply, Sort
  <2>3. CASE Lose(i)
    <3>1. CASE sockets' = [sockets EXCEPT ![i].out = FALSE]
      BY <1>1, <3>1 DEF Sort
    <3>2. CASE sockets' = [sockets EXCEPT ![i].back = FALSE]
      BY <1>1, <3>2 DEF Sort
    <3>. QED
      BY <2>3, <3>1, <3>2 DEF Lose
  <2>4. CASE Fail(i)
    <3>1. PICK still \in BOOLEAN :
            sockets' = [sockets EXCEPT ![i].up = FALSE, ![i].down = still]
      BY <2>4 DEF Fail
    <3>. QED
      BY <1>1, <3>1 DEF Sort
  <2>. QED
    BY <2>1, <2>2, <2>3, <2>4
<1>6. SameSockets
  BY <1>1, <1>5, InPlace, LenProperties DEF SameSockets
<1>7. PathsAreReal'
  <2>1. real' = real /\ PathsAreReal /\ DOMAIN sockets' = DOMAIN sockets
    BY <1>2, <1>6 DEF Unmoved, SocketsInv, SameSockets
  <2>2. CASE Hear(i)
    BY ZenonT(40), <1>1, <2>1, <2>2 DEF Hear, Sort, PathsAreReal
  <2>3. CASE Reply(i)
    BY <1>1, <2>1, <2>3 DEF Reply, Sort, PathsAreReal
  <2>4. CASE Lose(i)
    BY SMTT(30), <1>1, <2>1, <2>4 DEF Lose, Sort, PathsAreReal
  <2>5. CASE Fail(i)
    BY ZenonT(40), <1>1, <2>1, <2>5 DEF Fail, Sort, PathsAreReal
  <2>. QED
    BY <2>2, <2>3, <2>4, <2>5
<1>. QED
  BY <1>2, <1>3, <1>4, <1>6, <1>7, NetworkKeeps

\* The client dies; nothing the invariant speaks of moves.
LEMMA GiveUpStep == ASSUME SocketsInv, GiveUp PROVE SocketsInv'
BY DEF GiveUp, clocks, SocketsInv, TypeOK, PathsAreReal, LeadsToServer, HopsAreTimed, HopList,
       ConnectIsTimed, CloseIsTimed, TrialIsShort, HopDue, Elapsed

\* A unit of time passes: before attachment it is elapsed as well.
LEMMA WaitStep == ASSUME SocketsInv, Wait PROVE SocketsInv'
<1>1. TypeOK'
  <2>1. /\ sinceChoice' \in 0 .. OldAge + 1 /\ sinceRoundtrip' \in 0 .. HopAfter
        /\ sinceContact' \in 0 .. ConnectWithin + 1 /\ closing' \in NotClosing .. CloseWithin
    BY Limits DEF SocketsInv, TypeOK, Wait, Aged, NotClosing
  <2>2. /\ UNCHANGED <<sockets, remote, attached, dead, small, owed, news, real, answered, faults>>
        /\ due' = TRUE
    BY DEF Wait
  <2>. QED
    BY <2>1, <2>2 DEF SocketsInv, TypeOK
<1>2. sockets' \in Seq(Sort) /\ PathsAreReal' /\ LeadsToServer'
  BY DEF Wait, SocketsInv, PathsAreReal, LeadsToServer
<1>3. HopsAreTimed' /\ ConnectIsTimed' /\ CloseIsTimed'
  <2>1. sinceChoice \in Nat /\ sinceContact \in Nat /\ closing \in Int
    BY Limits DEF SocketsInv, TypeOK, NotClosing
  <2>2. ~attached => Elapsed' = Elapsed + 1
    BY <2>1, Limits DEF Wait, SocketsInv, TypeOK, ConnectIsTimed, CloseIsTimed, Elapsed, Aged,
                        NotClosing
  <2>3. sinceChoice' <= sinceChoice + 1
    BY <2>1, Limits DEF Wait, Aged
  <2>4. sinceChoice' \in Int /\ Elapsed \in Int
    BY <2>1, Limits DEF Wait, Aged, Elapsed
  <2>5. HopsAreTimed'
    <3>. SUFFICES ASSUME ~attached
                  PROVE  /\ remote' = Candidates[1]
                         /\ \E hops \in 0 .. HopsWhileConnecting :
                              /\ HopList(sockets, hops)
                              /\ HopAfter * hops + sinceChoice' <= Elapsed'
      BY DEF Wait, HopsAreTimed, HopList
    <3>1. PICK hops \in 0 .. HopsWhileConnecting :
            HopList(sockets, hops) /\ HopAfter * hops + sinceChoice <= Elapsed
      BY DEF SocketsInv, HopsAreTimed
    <3>2. HopAfter * hops \in Int
      BY Limits
    <3>3. HopAfter * hops + sinceChoice' <= Elapsed'
      BY <2>1, <2>2, <2>3, <2>4, <3>1, <3>2
    <3>. QED
      BY <3>1, <3>3 DEF Wait, SocketsInv, HopsAreTimed
  <2>6. ConnectIsTimed' /\ CloseIsTimed'
    BY <2>1, Limits DEF Wait, SocketsInv, TypeOK, ConnectIsTimed, CloseIsTimed, Aged, NotClosing
  <2>. QED
    BY <2>5, <2>6
<1>4. TrialIsShort'
  <2>1. Queued - owed \in Nat /\ HopAfter * (Queued - owed) \in Nat
    BY Limits DEF SocketsInv, TypeOK
  <2>. DEFINE late == HopAfter * (Queued - owed)
  <2>2. late' = late /\ late \in Nat
    BY <2>1 DEF Wait
  <2>3. attached /\ ~answered => sinceChoice <= late + sinceRoundtrip
    BY DEF SocketsInv, TrialIsShort
  <2>. HIDE DEF late
  <2>4. ~HopDue /\ sinceChoice \in Nat /\ sinceRoundtrip \in 0 .. HopAfter
    BY Limits DEF Wait, SocketsInv, TypeOK, TrialIsShort
  <2>5. attached /\ ~answered => sinceChoice' <= late + sinceRoundtrip'
    BY <2>2, <2>3, <2>4, Limits DEF Wait, HopDue, Aged
  <2>6. (attached /\ ~answered => sinceChoice <= late + sinceRoundtrip)'
    BY <2>2, <2>5 DEF Wait
  <2>. QED
    BY <2>6 DEF Wait, TrialIsShort, late
<1>. QED
  BY <1>1, <1>2, <1>3, <1>4 DEF SocketsInv

\* The sockets a flush may send on: what the invariant says of sockets.
Line(s) ==
    /\ s \in Seq(Sort) /\ s # << >>
    /\ attached => Len(s) <= MaxPorts
    /\ \A i \in DOMAIN s :
        /\ s[i].up \/ s[i].down \/ s[i].heard \/ s[i].back => s[i].peer \in real
        /\ attached => s[i].peer = remote

\* Sending changes no more than what is under way to the server.
LEMMA SentKeeps ==
    ASSUME NEW s, Line(s), Sent(s), small \in BOOLEAN
    PROVE  /\ sockets' \in Seq(Sort) /\ Len(sockets') = Len(s) /\ DOMAIN sockets' = DOMAIN s
           /\ small' \in BOOLEAN /\ due' \in BOOLEAN
           /\ \A i \in DOMAIN s :
                /\ sockets'[i].peer = s[i].peer /\ sockets'[i].up = s[i].up
                /\ sockets'[i].down = s[i].down /\ sockets'[i].heard = s[i].heard
                /\ sockets'[i].back = s[i].back
<1>1. s \in Seq(Sort) /\ Len(s) \in Nat /\ DOMAIN s = 1 .. Len(s)
      /\ \A j \in DOMAIN s : s[j] \in Sort
  BY LenProperties DEF Line
<1>2. small' \in BOOLEAN /\ due' \in BOOLEAN
  BY DEF Sent
<1>3. PICK before : sockets' = [j \in DOMAIN s |-> [s[j] EXCEPT !.out = @ \/ j \in before]]
  BY DEF Sent
<1>4. /\ sockets' = [j \in DOMAIN s |-> sockets'[j]] /\ DOMAIN sockets' = DOMAIN s
      /\ \A i \in DOMAIN s :
           /\ sockets'[i] \in Sort
           /\ sockets'[i].peer = s[i].peer /\ sockets'[i].up = s[i].up
           /\ sockets'[i].down = s[i].down /\ sockets'[i].heard = s[i].heard
           /\ sockets'[i].back = s[i].back
  <2>1. \A i \in DOMAIN s : sockets'[i] = [s[i] EXCEPT !.out = @ \/ i \in before]
    BY <1>3
  <2>. QED
    BY <1>1, <1>3, <2>1 DEF Sort
<1>5. sockets' \in Seq(Sort) /\ Len(sockets') = Len(s)
  BY <1>1, <1>4, InPlace
<1>. QED
  BY <1>2, <1>4, <1>5

\* The open sockets are such a line.
LEMMA SocketsLine == ASSUME SocketsInv PROVE Line(sockets)
BY DEF SocketsInv, TypeOK, PathsAreReal, LeadsToServer, Line

\* Before attachment a hop is due only while time is left for it.
LEMMA TimeToHop ==
    ASSUME SocketsInv, Flush, HopDue, ~attached,
           NEW hops \in Nat, HopAfter * hops + sinceChoice <= Elapsed
    PROVE  hops + 1 <= HopsWhileConnecting /\ HopAfter * (hops + 1) <= Elapsed
<1>1. sinceChoice \in Nat /\ sinceContact \in 0 .. ConnectWithin + 1 /\ closing \in Int
  BY Limits DEF SocketsInv, TypeOK, NotClosing
<1>2. Elapsed \in Nat /\ Elapsed <= ConnectWithin + CloseWithin
  BY <1>1, Limits DEF Flush, ShutdownTimedOut, NotClosing, Elapsed, SocketsInv, TypeOK
<1>3. sinceChoice >= HopAfter
  BY DEF HopDue
<1>4. HopAfter * (hops + 1) = HopAfter * hops + HopAfter /\ HopAfter * hops \in Nat
  BY Limits
<1>5. HopAfter * (hops + 1) <= Elapsed
  BY <1>1, <1>2, <1>3, <1>4, Limits
<1>6. HopAfter * (hops + 1) \in Nat /\ hops + 1 \in Nat
  BY Limits
<1>7. HopAfter * (hops + 1) <= ConnectWithin + CloseWithin
  BY <1>2, <1>5, <1>6, Limits
<1>. QED
  BY <1>5, <1>6, <1>7, HopsFit

\* The limit keeps the newest sockets, in order.
LEMMA NewestKept ==
    ASSUME NEW s \in Seq(Sort)
    PROVE  LET kept == NewestOnly(s)
               shut == Len(s) - Len(kept)
           IN  /\ kept \in Seq(Sort)
               /\ Len(kept) = IF Len(s) > MaxPorts THEN MaxPorts ELSE Len(s)
               /\ \A i \in DOMAIN kept : i + shut \in DOMAIN s /\ kept[i] = s[i + shut]
<1>. DEFINE kept == NewestOnly(s)
            first == Len(s) - MaxPorts + 1
<1>1. Len(s) \in Nat /\ DOMAIN s = 1 .. Len(s)
  BY LenProperties
<1>2. CASE Len(s) <= MaxPorts
  BY <1>1, <1>2, Limits DEF NewestOnly, Newer
<1>3. CASE Len(s) > MaxPorts
  <2>1. kept = SubSeq(s, first, Len(s)) /\ first \in 1 .. Len(s)
    BY <1>1, <1>3, Limits DEF NewestOnly, Newer
  <2>2. Len(s) - first + 1 = MaxPorts
    BY <1>1, Limits
  <2>. HIDE DEF kept
  <2>3. /\ kept \in Seq(Sort) /\ Len(kept) = MaxPorts /\ DOMAIN kept = 1 .. MaxPorts
        /\ \A i \in 1 .. MaxPorts : kept[i] = s[first + i - 1]
    BY <1>1, <1>3, <2>1, <2>2, Limits, SubSeqProperties, LenProperties
  <2>4. \A i \in 1 .. MaxPorts : first + i - 1 = i + (Len(s) - MaxPorts)
    BY <1>1, Limits
  <2>5. \A i \in 1 .. MaxPorts : i + (Len(s) - MaxPorts) \in 1 .. Len(s)
    BY <1>1, <1>3, Limits
  <2>. QED
    BY <1>1, <1>3, <2>3, <2>4, <2>5 DEF kept
<1>. QED
  BY <1>1, <1>2, <1>3, Limits

\* A new socket.
LEMMA SocketIsSort ==
    ASSUME NEW peer \in Hosts, NEW works \in BOOLEAN
    PROVE  LET new == Socket(peer, works)
           IN  /\ new \in Sort /\ new.peer = peer /\ new.up = works /\ new.down = works
               /\ new.heard = FALSE /\ new.back = FALSE
BY DEF Socket, Sort

\* A new socket joins the line, in place of the oldest beyond the limit.
LEMMA HopLine ==
    ASSUME SocketsInv
    PROVE  LET s == NewestOnly(Append(sockets, Socket(remote, remote \in real)))
           IN  /\ Line(s)
               /\ attached => Len(s) >= Len(sockets)
               /\ \A hops \in Nat :
                    ~attached /\ HopList(sockets, hops) => HopList(s, hops + 1)
<1>. DEFINE new == Socket(remote, remote \in real)
            all == Append(sockets, new)
            s == NewestOnly(all)
<1>1. new \in Sort /\ new.peer = remote
      /\ (new.up \/ new.down \/ new.heard \/ new.back => new.peer \in real)
  <2>1. remote \in Hosts /\ (remote \in real) \in BOOLEAN
    BY DEF SocketsInv, TypeOK
  <2>. QED
    BY <2>1, SocketIsSort
<1>. HIDE DEF new
<1>2. /\ sockets \in Seq(Sort) /\ Len(sockets) \in Nat /\ DOMAIN sockets = 1 .. Len(sockets)
      /\ attached => Len(sockets) <= MaxPorts
  BY LenProperties DEF SocketsInv, TypeOK
<1>3. /\ all \in Seq(Sort) /\ Len(all) = Len(sockets) + 1
      /\ DOMAIN all = 1 .. Len(sockets) + 1
      /\ \A i \in DOMAIN sockets : all[i] = sockets[i]
      /\ all[Len(sockets) + 1] = new
  BY <1>1, <1>2, AppendProperties, LenProperties
<1>. HIDE DEF all
<1>4. \A i \in DOMAIN all :
        /\ all[i].up \/ all[i].down \/ all[i].heard \/ all[i].back => all[i].peer \in real
        /\ attached => all[i].peer = remote
  <2>. SUFFICES ASSUME NEW i \in DOMAIN all
                PROVE  /\ all[i].up \/ all[i].down \/ all[i].heard \/ all[i].back
                            => all[i].peer \in real
                       /\ attached => all[i].peer = remote
    OBVIOUS
  <2>1. CASE i \in DOMAIN sockets
    BY <1>3, <2>1 DEF SocketsInv, PathsAreReal, LeadsToServer
  <2>2. CASE i = Len(sockets) + 1
    BY <1>1, <1>3, <2>2
  <2>. QED
    BY <1>2, <1>3, <2>1, <2>2
<1>5. /\ s \in Seq(Sort) /\ Len(s) = IF Len(all) > MaxPorts THEN MaxPorts ELSE Len(all)
      /\ \A i \in DOMAIN s : /\ i + (Len(all) - Len(s)) \in DOMAIN all
                            /\ s[i] = all[i + (Len(all) - Len(s))]
  BY <1>3, NewestKept
<1>. HIDE DEF s
<1>6. Len(s) \in Nat \ {0} /\ DOMAIN s = 1 .. Len(s) /\ s # << >> /\ Len(s) <= MaxPorts
  BY <1>2, <1>3, <1>5, Limits, LenProperties, EmptySeq
<1>7. Line(s)
  BY <1>4, <1>5, <1>6 DEF Line
<1>8. attached => Len(s) >= Len(sockets)
  BY <1>2, <1>3, <1>5, Limits
<1>9. ASSUME NEW hops \in Nat, ~attached, HopList(sockets, hops)
      PROVE  HopList(s, hops + 1)
  <2>1. /\ Len(Candidates) \in Nat \ {0} /\ Closed(hops) \in Nat /\ Closed(hops + 1) \in Nat
        /\ Len(sockets) = Len(Candidates) + hops - Closed(hops)
    <3>1. hops + 1 \in Nat
      OBVIOUS
    <3>2. Closed(hops) \in Nat /\ Closed(hops + 1) \in Nat
      BY <3>1, ClosedFits
    <3>. QED
      BY <1>9, <3>2, CandidatesAreHosts DEF HopList
  <2>2. /\ Len(s) = Len(Candidates) + (hops + 1) - Closed(hops + 1)
        /\ Len(all) - Len(s) = Closed(hops + 1) - Closed(hops)
    <3>1. Closed(hops + 1) = IF Len(Candidates) + hops + 1 <= MaxPorts THEN 0
                             ELSE Len(Candidates) + hops + 1 - MaxPorts
      BY <2>1, Limits DEF Closed
    <3>2. Closed(hops) = IF hops = 0 \/ Len(Candidates) + hops <= MaxPorts THEN 0
                         ELSE Len(Candidates) + hops - MaxPorts
      BY DEF Closed
    <3>3. Len(s) = IF Len(sockets) + 1 > MaxPorts THEN MaxPorts ELSE Len(sockets) + 1
      BY <1>3, <1>5
    <3>. DEFINE rest == Closed(hops + 1)
                past == Closed(hops)
                many == Len(Candidates)
                open == Len(sockets)
    <3>4. /\ many \in Nat \ {0} /\ open = many + hops - past /\ open \in Nat
          /\ rest = IF many + hops + 1 <= MaxPorts THEN 0 ELSE many + hops + 1 - MaxPorts
          /\ past = IF hops = 0 \/ many + hops <= MaxPorts THEN 0 ELSE many + hops - MaxPorts
          /\ Len(s) = IF open + 1 > MaxPorts THEN MaxPorts ELSE open + 1
          /\ Len(all) = open + 1
      BY <1>2, <1>3, <2>1, <3>1, <3>2, <3>3
    <3>. HIDE DEF rest, past, many, open
    <3>5. Len(s) = many + (hops + 1) - rest /\ Len(all) - Len(s) = rest - past
      <4>1. CASE hops = 0
        BY <3>4, <4>1, Limits
      <4>2. CASE hops > 0 /\ many + hops <= MaxPorts
        BY <3>4, <4>2, Limits
      <4>3. CASE hops > 0 /\ many + hops > MaxPorts
        BY <3>4, <4>3, Limits
      <4>. QED
        BY <3>4, <4>1, <4>2, <4>3, Limits
    <3>. QED
      BY <3>5 DEF rest, past, many
  <2>3. \A i \in DOMAIN sockets :
          sockets[i].peer = IF i + Closed(hops) <= Len(Candidates)
                            THEN Candidates[i + Closed(hops)] ELSE Candidates[1]
    BY <1>9 DEF HopList
  <2>4. new.peer = Candidates[1]
    BY <1>1, <1>9 DEF SocketsInv, HopsAreTimed
  <2>. DEFINE rest == Closed(hops + 1)
              past == Closed(hops)
  <2>5. rest \in Nat /\ past \in Nat
    BY <2>1
  <2>6. /\ Len(sockets) = Len(Candidates) + hops - past
        /\ Len(all) - Len(s) = rest - past
        /\ \A i \in DOMAIN sockets :
             sockets[i].peer = IF i + past <= Len(Candidates)
                               THEN Candidates[i + past] ELSE Candidates[1]
    BY <2>1, <2>2, <2>3
  <2>. HIDE DEF rest, past
  <2>7. ASSUME NEW i \in DOMAIN s
        PROVE  s[i].peer = IF i + rest <= Len(Candidates)
                           THEN Candidates[i + rest] ELSE Candidates[1]
    <3>. DEFINE k == i + (rest - past)
    <3>1. k \in 1 .. Len(sockets) + 1 /\ s[i] = all[k] /\ k + past = i + rest /\ i \in Nat
      BY <1>3, <1>5, <1>6, <2>5, <2>6, <2>7
    <3>. HIDE DEF k
    <3>2. CASE k \in DOMAIN sockets
      <4>1. s[i].peer = sockets[k].peer
        BY <1>3, <3>1, <3>2
      <4>2. sockets[k].peer = IF k + past <= Len(Candidates)
                              THEN Candidates[k + past] ELSE Candidates[1]
        BY <2>6, <3>2
      <4>. QED
        BY <3>1, <4>1, <4>2
    <3>3. CASE k = Len(sockets) + 1
      <4>1. s[i].peer = Candidates[1]
        BY <1>3, <2>4, <3>1, <3>3
      <4>2. i + rest = Len(Candidates) + hops + 1
        BY <2>1, <2>5, <2>6, <3>1, <3>3
      <4>3. i + rest > Len(Candidates)
        BY <2>1, <4>2
      <4>. QED
        BY <2>1, <2>5, <3>1, <4>1, <4>3
    <3>. QED
      BY <1>2, <3>1, <3>2, <3>3
  <2>8. \A i \in DOMAIN s : s[i].peer = IF i + Closed(hops + 1) <= Len(Candidates)
                                       THEN Candidates[i + Closed(hops + 1)] ELSE Candidates[1]
    BY <2>7 DEF rest
  <2>. QED
    BY <2>2, <2>8 DEF HopList
<1>. QED
  BY <1>7, <1>8, <1>9 DEF s, all, new

\* What a flush sends on: a line no shorter than before once attached, and
\* until then a list of candidates and hops, each of which took its time.
FlushList(s) ==
    /\ Line(s) /\ Sent(s) /\ (HopPort \/ KeepPort)
    /\ attached => Len(s) >= Len(sockets)
    /\ ~attached => \E hops \in 0 .. HopsWhileConnecting :
                      HopList(s, hops) /\ HopAfter * hops + sinceChoice' <= Elapsed

LEMMA FlushLine == ASSUME SocketsInv, Flush PROVE \E s : FlushList(s)
<1>1. Len(sockets) \in Nat /\ Line(sockets) /\ sinceChoice \in Nat /\ Elapsed \in Int
  BY SocketsLine, LenProperties, Limits DEF SocketsInv, TypeOK, Elapsed, NotClosing
<1>2. PICK hops : ~attached =>
        /\ hops \in 0 .. HopsWhileConnecting
        /\ HopList(sockets, hops) /\ HopAfter * hops + sinceChoice <= Elapsed
  BY DEF SocketsInv, HopsAreTimed
<1>3. CASE KeepPort
  <2>1. Sent(sockets) /\ sinceChoice' = sinceChoice
    BY <1>3 DEF KeepPort
  <2>2. FlushList(sockets)
    BY <1>1, <1>2, <1>3, <2>1 DEF FlushList
  <2>. QED
    BY <2>2
<1>4. CASE HopPort
  <2>. DEFINE s == NewestOnly(Append(sockets, Socket(remote, remote \in real)))
  <2>1. sinceChoice' = 0 /\ HopDue /\ (Sent(s) \/ Sent(sockets))
    BY <1>4 DEF HopPort
  <2>2. /\ Line(s) /\ (attached => Len(s) >= Len(sockets))
        /\ ~attached => HopList(s, hops + 1)
    BY <1>2, HopLine
  <2>. HIDE DEF s
  <2>3. ~attached => /\ hops \in Nat /\ hops + 1 <= HopsWhileConnecting
                     /\ HopAfter * (hops + 1) <= Elapsed
    BY <1>2, <2>1, TimeToHop
  <2>4. CASE Sent(s)
    <3>1. ~attached => hops + 1 \in 0 .. HopsWhileConnecting
      BY <1>2, <2>3
    <3>2. ~attached => HopAfter * (hops + 1) \in Int
      BY <2>3, Limits
    <3>3. ~attached => HopAfter * (hops + 1) + sinceChoice' <= Elapsed
      BY <1>1, <2>1, <2>3, <3>2
    <3>. QED
      BY <1>4, <2>2, <2>4, <3>1, <3>3 DEF FlushList
  <2>5. CASE Sent(sockets)
    <3>1. ~attached => HopAfter * hops \in Int
      BY <2>3, Limits
    <3>2. ~attached => HopAfter * hops + sinceChoice' <= Elapsed
      BY <1>1, <1>2, <2>1, <3>1
    <3>. QED
      BY <1>1, <1>2, <1>4, <2>5, <3>2 DEF FlushList
  <2>. QED
    BY <2>1, <2>4, <2>5
<1>. QED
  BY <1>3, <1>4 DEF Flush

\* A flush that hops or not keeps the clocks in order with the sockets.
LEMMA FlushStep ==
    ASSUME SocketsInv, Flush
    PROVE  SocketsInv' /\ (attached => Len(sockets') >= Len(sockets))
<1>1. PICK s : FlushList(s)
  BY FlushLine
<1>2. /\ sockets' \in Seq(Sort) /\ Len(sockets') = Len(s) /\ DOMAIN sockets' = DOMAIN s
      /\ small' \in BOOLEAN /\ due' \in BOOLEAN
      /\ \A i \in DOMAIN s :
           /\ sockets'[i].peer = s[i].peer /\ sockets'[i].up = s[i].up
           /\ sockets'[i].down = s[i].down /\ sockets'[i].heard = s[i].heard
           /\ sockets'[i].back = s[i].back
  BY <1>1, SentKeeps DEF SocketsInv, TypeOK, FlushList
<1>3. /\ UNCHANGED <<remote, sinceRoundtrip, sinceContact, attached, dead, real>>
      /\ closing' = IF closing = NotClosing /\ ~attached /\ sinceContact > ConnectWithin
                    THEN 0 ELSE closing
      /\ closing < CloseWithin
  BY Limits DEF Flush, ShutdownTimedOut, SocketsInv, TypeOK, NotClosing
<1>4. HopsAreTimed'
  <2>. SUFFICES ASSUME ~attached
                PROVE  /\ remote' = Candidates[1]
                       /\ \E hops \in 0 .. HopsWhileConnecting :
                            /\ HopList(sockets', hops)
                            /\ HopAfter * hops + sinceChoice' <= Elapsed'
    BY <1>3 DEF HopsAreTimed, HopList
  <2>1. Elapsed' = Elapsed
    <3>1. closing # NotClosing => closing' # NotClosing /\ closing' = closing
      BY <1>3 DEF NotClosing
    <3>2. sinceContact > ConnectWithin => sinceContact = ConnectWithin + 1
      BY Limits DEF SocketsInv, TypeOK
    <3>. QED
      BY <1>3, <3>1, <3>2, Limits DEF Elapsed, NotClosing
  <2>2. PICK hops \in 0 .. HopsWhileConnecting :
          HopList(s, hops) /\ HopAfter * hops + sinceChoice' <= Elapsed
    BY <1>1 DEF FlushList
  <2>3. HopList(sockets', hops)
    BY <1>2, <2>2 DEF HopList
  <2>. QED
    BY <1>3, <2>1, <2>2, <2>3 DEF SocketsInv, HopsAreTimed
<1>5. TypeOK'
  <2>1. \A i \in DOMAIN sockets' : sockets'[i] \in Sort
    BY <1>2, LenProperties
  <2>2. /\ sinceChoice' \in 0 .. OldAge + 1 /\ owed' \in 0 .. Queued /\ answered' \in BOOLEAN
        /\ news' \in {"none", "heard", "answered"} /\ faults' \in 0 .. MaxFaults
    <3>1. CASE KeepPort
      BY <3>1 DEF KeepPort, SocketsInv, TypeOK
    <3>2. CASE HopPort
      <4>1. sinceChoice' = 0 /\ (faults' = faults \/ (faults < MaxFaults /\ faults' = faults + 1))
        BY <3>2 DEF HopPort
      <4>2. owed' \in {owed, Queued} /\ answered' \in {answered, FALSE} /\ news' \in {news, "none"}
        BY <3>2, Zenon DEF HopPort
      <4>3. faults \in 0 .. MaxFaults /\ owed \in 0 .. Queued
        BY DEF SocketsInv, TypeOK
      <4>4. /\ faults' \in 0 .. MaxFaults /\ sinceChoice' \in 0 .. OldAge + 1
            /\ owed' \in 0 .. Queued
        BY <4>1, <4>2, <4>3, Limits
      <4>. QED
        BY <4>2, <4>4 DEF SocketsInv, TypeOK
    <3>. QED
      BY <1>1, <3>1, <3>2 DEF FlushList
  <2>3. closing' \in NotClosing .. CloseWithin
    BY <1>3, Limits DEF SocketsInv, TypeOK, NotClosing
  <2>4. /\ sockets' # << >>
        /\ \/ Len(sockets') <= MaxPorts
           \/ ~attached' /\ [i \in DOMAIN sockets' |-> sockets'[i].peer] = Candidates
    <3>1. CASE attached
      <4>1. s \in Seq(Sort) /\ s # << >> /\ Len(s) <= MaxPorts
        BY <1>1, <3>1 DEF FlushList, Line
      <4>2. Len(s) \in Nat \ {0}
        BY <4>1, EmptySeq, LenProperties
      <4>. QED
        BY <1>2, <4>1, <4>2, EmptySeq
    <3>2. CASE ~attached
      <4>1. PICK hops \in 0 .. HopsWhileConnecting : HopList(sockets', hops)
        BY <1>3, <1>4, <3>2 DEF HopsAreTimed, HopList
      <4>. QED
        BY <1>2, <1>3, <3>2, <4>1, ListFits
    <3>. QED
      BY <3>1, <3>2
  <2>. QED
    BY <1>2, <1>3, <2>1, <2>2, <2>3, <2>4 DEF SocketsInv, TypeOK, Sort
<1>6. PathsAreReal' /\ LeadsToServer'
  BY <1>1, <1>2, <1>3 DEF FlushList, Line, PathsAreReal, LeadsToServer, SocketsInv
<1>7. ConnectIsTimed' /\ CloseIsTimed'
  BY <1>3, Limits DEF SocketsInv, TypeOK, ConnectIsTimed, CloseIsTimed, NotClosing
<1>8. TrialIsShort'
  <2>1. CASE KeepPort
    BY <1>3, <2>1 DEF KeepPort, HopDue, SocketsInv, TrialIsShort
  <2>2. CASE HopPort
    <3>1. sinceChoice' = 0 /\ sinceRoundtrip' \in Nat /\ ~HopDue'
      BY <1>3, <2>2, Limits DEF HopPort, HopDue, SocketsInv, TypeOK
    <3>2. HopAfter * (Queued - owed') \in Nat
      <4>1. owed' \in 0 .. Queued
        BY <1>5 DEF TypeOK
      <4>. QED
        BY <4>1, KeptOff
    <3>3. sinceChoice' <= HopAfter * (Queued - owed') + sinceRoundtrip'
      BY <3>1, <3>2
    <3>. QED
      BY <3>1, <3>3 DEF TrialIsShort
  <2>. QED
    BY <1>1, <2>1, <2>2 DEF FlushList
<1>9. attached => Len(sockets') >= Len(sockets)
  BY <1>1, <1>2 DEF FlushList
<1>. QED
  BY <1>2, <1>4, <1>5, <1>6, <1>7, <1>8, <1>9 DEF SocketsInv

\* What arrives leaves the sockets it came on; nothing else of them changes.
LEMMA TakenIsLine ==
    ASSUME SocketsInv, NEW arrived
    PROVE  LET taken == [j \in DOMAIN sockets |->
                            [sockets[j] EXCEPT !.back = @ /\ j \notin arrived]]
           IN  /\ taken \in Seq(Sort) /\ Len(taken) = Len(sockets)
               /\ DOMAIN taken = 1 .. Len(sockets)
               /\ \A j \in DOMAIN taken :
                    /\ taken[j].peer = sockets[j].peer
                    /\ taken[j].up \/ taken[j].down \/ taken[j].heard \/ taken[j].back
                         => taken[j].peer \in real
<1>. DEFINE taken == [j \in DOMAIN sockets |->
                        [sockets[j] EXCEPT !.back = @ /\ j \notin arrived]]
<1>1. /\ sockets \in Seq(Sort) /\ DOMAIN sockets = 1 .. Len(sockets)
      /\ \A j \in DOMAIN sockets : sockets[j] \in Sort
  BY LenProperties DEF SocketsInv
<1>2. \A j \in DOMAIN sockets : taken[j] = [sockets[j] EXCEPT !.back = @ /\ j \notin arrived]
  OBVIOUS
<1>3. taken = [j \in DOMAIN sockets |-> taken[j]] /\ DOMAIN taken = DOMAIN sockets
  OBVIOUS
<1>. HIDE DEF taken
<1>4. \A j \in DOMAIN sockets :
        /\ taken[j] \in Sort
        /\ taken[j].peer = sockets[j].peer /\ taken[j].up = sockets[j].up
        /\ taken[j].down = sockets[j].down /\ taken[j].heard = sockets[j].heard
        /\ taken[j].back => sockets[j].back
  <2>. SUFFICES ASSUME NEW j \in DOMAIN sockets
                PROVE  /\ taken[j] \in Sort
                       /\ taken[j].peer = sockets[j].peer /\ taken[j].up = sockets[j].up
                       /\ taken[j].down = sockets[j].down /\ taken[j].heard = sockets[j].heard
                       /\ taken[j].back => sockets[j].back
    OBVIOUS
  <2>. DEFINE b == sockets[j].back /\ j \notin arrived
  <2>1. sockets[j] \in Sort
    BY <1>1
  <2>2. taken[j] = [sockets[j] EXCEPT !.back = b]
    BY <1>2
  <2>3. b \in BOOLEAN /\ (b => sockets[j].back)
    BY <2>1 DEF Sort
  <2>. HIDE DEF b
  <2>. QED
    BY <2>1, <2>2, <2>3 DEF Sort
<1>5. taken \in Seq(Sort) /\ Len(taken) = Len(sockets)
  BY <1>1, <1>3, <1>4, InPlace
<1>6. \A j \in DOMAIN sockets :
        taken[j].up \/ taken[j].down \/ taken[j].heard \/ taken[j].back => taken[j].peer \in real
  BY <1>4 DEF SocketsInv, PathsAreReal
<1>. QED
  BY <1>1, <1>3, <1>4, <1>5, <1>6 DEF taken

\* Attachment keeps the socket the first state came on; pruning, the newest.
LEMMA KeptIsLine ==
    ASSUME NEW s \in Seq(Sort), Len(s) \in Nat \ {0}, NEW i \in DOMAIN s
    PROVE  /\ Attach(s, i) \in Seq(Sort) /\ Len(Attach(s, i)) = 1 /\ Attach(s, i)[1] = s[i]
           /\ PruneOldSockets(s) \in Seq(Sort)
           /\ Len(PruneOldSockets(s)) \in 1 .. Len(s)
           /\ Len(PruneOldSockets(s)) < Len(s) => sinceChoice > OldAge
           /\ \A k \in DOMAIN PruneOldSockets(s) :
                \E j \in DOMAIN s : PruneOldSockets(s)[k] = s[j]
<1>1. Len(s) \in Nat \ {0} /\ DOMAIN s = 1 .. Len(s) /\ \A j \in DOMAIN s : s[j] \in Sort
  BY LenProperties
<1>2. /\ Attach(s, i) \in Seq(Sort) /\ Len(Attach(s, i)) = 1 /\ Attach(s, i)[1] = s[i]
  BY <1>1 DEF Attach
<1>3. /\ <<Last(s)>> \in Seq(Sort) /\ Len(<<Last(s)>>) = 1 /\ DOMAIN <<Last(s)>> = {1}
      /\ <<Last(s)>>[1] = s[Len(s)] /\ Len(s) \in DOMAIN s
  BY <1>1 DEF Last
<1>4. CASE Len(s) > 1 /\ sinceChoice > OldAge
  BY <1>2, <1>3, <1>4, Limits DEF PruneOldSockets
<1>5. CASE ~(Len(s) > 1 /\ sinceChoice > OldAge)
  BY <1>1, <1>2, <1>5 DEF PruneOldSockets
<1>. QED
  BY <1>4, <1>5

\* What pruning spares: a newest socket that answered, or one that was kept for
\* long enough by late acknowledgements.
Spares ==
    attached /\ Len(sockets') < Len(sockets)
        => answered' \/ HopAfter * (Queued - owed' + 1) > OldAge

\* What a state of the server acknowledges sets the clock of round trips, and
\* the late acknowledgements pay for what they keep off.
LEMMA AcknowledgeKeeps ==
    ASSUME SocketsInv, attached, NEW arrived, Acknowledge(arrived), sinceChoice' = sinceChoice
    PROVE  /\ sinceRoundtrip' \in 0 .. HopAfter /\ owed' \in 0 .. Queued
           /\ answered' \in BOOLEAN /\ (answered => answered') /\ news' \in {"none", news}
           /\ ~answered' => sinceChoice <= HopAfter * (Queued - owed') + sinceRoundtrip'
<1>. DEFINE paid(n) == HopAfter * (Queued - n)
<1>1. /\ sinceRoundtrip \in 0 .. HopAfter /\ owed \in 0 .. Queued /\ answered \in BOOLEAN
      /\ sinceChoice \in Nat /\ HopAfter \in Nat
  BY Limits DEF SocketsInv, TypeOK
<1>2. paid(owed) \in Nat /\ (owed > 0 => paid(owed - 1) = paid(owed) + HopAfter)
  BY <1>1, Limits
<1>3. ~answered => sinceChoice <= paid(owed) + sinceRoundtrip
  BY DEF SocketsInv, TrialIsShort
<1>. HIDE DEF paid
<1>4. CASE UNCHANGED <<sinceRoundtrip, owed, answered, news>>
  BY <1>1, <1>3, <1>4 DEF paid
<1>5. CASE OldState
  <2>1. /\ sinceRoundtrip' \in 0 .. HopAfter /\ owed' = owed /\ answered' = answered /\ news' = news
        /\ sinceRoundtrip' >= sinceChoice \/ sinceRoundtrip' = HopAfter
    BY <1>1, <1>5 DEF OldState
  <2>2. ~answered => sinceChoice <= paid(owed) + sinceRoundtrip'
    BY <1>1, <1>2, <1>3, <2>1
  <2>. QED
    BY <1>1, <2>1, <2>2 DEF paid
<1>6. CASE Late
  <2>1. /\ sinceRoundtrip' \in 0 .. HopAfter /\ owed > 0 /\ owed' = owed - 1
        /\ answered' = answered /\ news' = news
    BY <1>6 DEF Late
  <2>2. ~answered => sinceChoice <= paid(owed - 1) + sinceRoundtrip'
    BY <1>1, <1>2, <1>3, <2>1
  <2>3. owed' \in 0 .. Queued /\ (~answered' => sinceChoice <= paid(owed') + sinceRoundtrip')
    BY <1>1, <2>1, <2>2, Limits
  <2>. QED
    BY <1>1, <2>1, <2>3 DEF paid
<1>7. CASE Anew(arrived)
  BY <1>1, <1>7 DEF Anew
<1>. QED
  BY <1>4, <1>5, <1>6, <1>7 DEF Acknowledge

\* A poll that receives attaches the session to an address of the server, and
\* prunes only beside a newest socket that was answered.
LEMMA PollStep ==
    ASSUME SocketsInv, PollReceives
    PROVE  SocketsInv' /\ Spares
<1>1. PICK arrived \in SUBSET {j \in DOMAIN sockets : sockets[j].back} :
        arrived # {} /\ Receive(arrived)
  BY DEF PollReceives
<1>. DEFINE taken == [j \in DOMAIN sockets |->
                        [sockets[j] EXCEPT !.back = @ /\ j \notin arrived]]
<1>2. PICK i \in arrived :
        /\ sockets' = PruneOldSockets(IF attached THEN taken ELSE Attach(taken, i))
        /\ remote' = IF attached THEN remote ELSE sockets[i].peer
  BY <1>1 DEF Receive
<1>3. /\ taken \in Seq(Sort) /\ Len(taken) = Len(sockets) /\ DOMAIN taken = 1 .. Len(sockets)
      /\ \A j \in DOMAIN taken :
           /\ taken[j].peer = sockets[j].peer
           /\ taken[j].up \/ taken[j].down \/ taken[j].heard \/ taken[j].back
                => taken[j].peer \in real
  BY TakenIsLine
<1>. HIDE DEF taken
<1>4. /\ i \in DOMAIN taken /\ sockets[i].peer \in real /\ sockets[i].peer \in Hosts
      /\ Len(taken) \in Nat \ {0} /\ (attached => Len(taken) <= MaxPorts)
  BY <1>1, <1>3, LenProperties DEF SocketsInv, PathsAreReal, TypeOK, Sort
<1>5. /\ attached' = TRUE /\ sinceContact' = 0 /\ dead' \in BOOLEAN
      /\ due' = (due \/ HopDue') /\ (attached => Acknowledge(arrived))
      /\ ~attached => AttachRoundtrip
      /\ UNCHANGED <<sinceChoice, closing, small, real, faults>>
  BY <1>1 DEF Receive
<1>11. /\ sinceRoundtrip' \in 0 .. HopAfter /\ owed' \in 0 .. Queued
       /\ answered' \in BOOLEAN /\ (answered /\ attached => answered')
       /\ news' \in {"none", "heard", "answered"}
       /\ ~answered' => attached /\ sinceChoice <= HopAfter * (Queued - owed') + sinceRoundtrip'
  <2>1. CASE attached
    BY <1>5, <2>1, AcknowledgeKeeps DEF SocketsInv, TypeOK
  <2>2. CASE ~attached
    BY <1>5, <2>2, Limits DEF AttachRoundtrip
  <2>. QED
    BY <2>1, <2>2
<1>6. /\ sockets' \in Seq(Sort) /\ Len(sockets') \in 1 .. MaxPorts
      /\ \A k \in DOMAIN sockets' :
           /\ sockets'[k].peer = remote'
           /\ sockets'[k].up \/ sockets'[k].down \/ sockets'[k].heard \/ sockets'[k].back
                => sockets'[k].peer \in real
      /\ attached /\ Len(sockets') < Len(sockets) => sinceChoice > OldAge
  <2>1. CASE attached
    <3>1. sockets' = PruneOldSockets(taken) /\ remote' = remote
      BY <1>2, <2>1
    <3>2. \A j \in DOMAIN taken : taken[j].peer = remote
      BY <1>3, <2>1, LenProperties DEF SocketsInv, LeadsToServer
    <3>3. Len(taken) \in 1 .. MaxPorts
      BY <1>4, <2>1
    <3>4. /\ sockets' \in Seq(Sort) /\ Len(sockets') \in 1 .. Len(taken)
          /\ Len(sockets') < Len(taken) => sinceChoice > OldAge
          /\ \A k \in DOMAIN sockets' : \E j \in DOMAIN taken : sockets'[k] = taken[j]
      BY <1>3, <1>4, <3>1, KeptIsLine
    <3>5. Len(sockets') \in 1 .. MaxPorts
      <4>1. \A m \in 1 .. MaxPorts, n \in Int : n \in 1 .. m => n \in 1 .. MaxPorts
        BY Limits
      <4>. QED
        BY <3>3, <3>4, <4>1
    <3>. QED
      BY <1>3, <3>1, <3>2, <3>4, <3>5
  <2>2. CASE ~attached
    <3>. DEFINE one == Attach(taken, i)
    <3>1. one \in Seq(Sort) /\ Len(one) = 1 /\ one[1] = taken[i]
      BY <1>3, <1>4, KeptIsLine
    <3>2. sockets' = PruneOldSockets(one) /\ remote' = sockets[i].peer
      BY <1>2, <2>2
    <3>. HIDE DEF one
    <3>3. sockets' = one
      BY <3>1, <3>2 DEF PruneOldSockets
    <3>. QED
      <4>1. \A k \in DOMAIN sockets' : sockets'[k] = taken[i]
        BY <3>1, <3>3, LenProperties
      <4>2. taken[i].peer = remote'
        BY <1>3, <1>4, <3>2
      <4>3. one \in Seq(Sort) /\ Len(one) \in 1 .. MaxPorts
        BY <3>1, Limits
      <4>. QED
        BY <1>3, <1>4, <2>2, <3>3, <4>1, <4>2, <4>3
  <2>. QED
    BY <2>1, <2>2
<1>7. TypeOK'
  <2>1. \A k \in DOMAIN sockets' : sockets'[k] \in Sort
    BY <1>6, LenProperties
  <2>2. remote' \in Hosts /\ sockets' # << >> /\ Len(sockets') <= MaxPorts
    BY <1>2, <1>4, <1>6, EmptySeq DEF SocketsInv, TypeOK
  <2>3. attached' \in BOOLEAN /\ due' \in BOOLEAN /\ sinceContact' \in 0 .. ConnectWithin + 1
    <3>1. due \in BOOLEAN /\ HopDue' \in BOOLEAN
      BY DEF SocketsInv, TypeOK, HopDue
    <3>. QED
      BY <1>5, <3>1, Limits
  <2>4. /\ real' \subseteq Hosts /\ sinceChoice' \in 0 .. OldAge + 1
        /\ closing' \in NotClosing .. CloseWithin /\ small' \in BOOLEAN
        /\ faults' \in 0 .. MaxFaults
    BY <1>5 DEF SocketsInv, TypeOK
  <2>. QED
    BY <1>5, <1>11, <2>1, <2>2, <2>3, <2>4 DEF TypeOK, Sort
<1>8. PathsAreReal' /\ LeadsToServer'
  <2>1. remote' \in real'
    BY <1>2, <1>4, <1>5 DEF SocketsInv, LeadsToServer
  <2>. QED
    BY <1>5, <1>6, <2>1 DEF PathsAreReal, LeadsToServer
<1>9. HopsAreTimed' /\ ConnectIsTimed'
  BY <1>5 DEF HopsAreTimed, ConnectIsTimed
<1>10. CloseIsTimed' /\ TrialIsShort'
  BY <1>5, <1>11 DEF CloseIsTimed, TrialIsShort, SocketsInv
<1>12. Spares
  <2>. SUFFICES ASSUME attached, Len(sockets') < Len(sockets), ~answered'
                PROVE  HopAfter * (Queued - owed' + 1) > OldAge
    BY DEF Spares
  <2>1. sinceChoice > OldAge /\ sinceChoice \in Nat
    BY <1>6, Limits DEF SocketsInv, TypeOK
  <2>2. HopAfter * (Queued - owed' + 1) = HopAfter * (Queued - owed') + HopAfter
        /\ HopAfter * (Queued - owed') \in Nat
    <3>1. owed' \in 0 .. Queued
      BY <1>11
    <3>. QED
      BY <3>1, KeptOff
  <2>. DEFINE paid == HopAfter * (Queued - owed')
              more == HopAfter * (Queued - owed' + 1)
  <2>3. sinceChoice <= paid + sinceRoundtrip' /\ sinceRoundtrip' \in 0 .. HopAfter
    BY <1>11
  <2>4. paid \in Nat /\ more = paid + HopAfter
    BY <2>2
  <2>. HIDE DEF paid, more
  <2>5. more > OldAge
    <3>1. \A age \in 0 .. HopAfter : sinceChoice <= paid + age => sinceChoice <= paid + HopAfter
      BY <2>1, <2>4, Limits
    <3>2. sinceChoice <= paid + HopAfter
      BY <2>3, <3>1
    <3>. QED
      BY <2>1, <2>4, <3>2, Limits
  <2>. QED
    BY <2>5 DEF more
<1>. QED
  BY <1>6, <1>7, <1>8, <1>9, <1>10, <1>12 DEF SocketsInv

-----------------------------------------------------------------------------
(***************************************************************************)
(* Theorems.                                                               *)
(***************************************************************************)

\* At the start every candidate has its socket and no clock has run.
LEMMA InitHolds == Init => SocketsInv
<1>. SUFFICES ASSUME Init PROVE SocketsInv
  OBVIOUS
<1>1. /\ real \subseteq Hosts
      /\ sockets = [i \in DOMAIN Candidates |-> Socket(Candidates[i], Candidates[i] \in real)]
  BY DEF Init
<1>2. \A i \in DOMAIN Candidates :
        /\ sockets[i] \in Sort /\ sockets[i].peer = Candidates[i]
        /\ sockets[i].up \/ sockets[i].down \/ sockets[i].heard \/ sockets[i].back
             => sockets[i].peer \in real
  <2>. SUFFICES ASSUME NEW i \in DOMAIN Candidates
                PROVE  /\ sockets[i] \in Sort /\ sockets[i].peer = Candidates[i]
                       /\ sockets[i].up \/ sockets[i].down \/ sockets[i].heard \/ sockets[i].back
                            => sockets[i].peer \in real
    OBVIOUS
  <2>. DEFINE works == Candidates[i] \in real
  <2>1. works \in BOOLEAN /\ Candidates[i] \in Hosts /\ sockets[i] = Socket(Candidates[i], works)
    BY <1>1, CandidatesAreHosts
  <2>2. works => Candidates[i] \in real
    OBVIOUS
  <2>. HIDE DEF works
  <2>3. /\ sockets[i] \in Sort /\ sockets[i].peer = Candidates[i]
        /\ sockets[i].up = works /\ sockets[i].down = works
        /\ sockets[i].heard = FALSE /\ sockets[i].back = FALSE
    BY <2>1 DEF Socket, Sort
  <2>. QED
    BY <2>2, <2>3
<1>3. /\ sockets \in Seq(Sort) /\ Len(sockets) = Len(Candidates)
      /\ DOMAIN sockets = DOMAIN Candidates
  <2>1. /\ sockets \in [1 .. Len(Candidates) -> Sort] /\ Len(Candidates) \in Nat \ {0}
        /\ DOMAIN Candidates = 1 .. Len(Candidates)
    BY <1>1, <1>2, CandidatesAreHosts
  <2>. QED
    BY <2>1, SeqDef, LenProperties
<1>31. HopList(sockets, 0)
  <2>1. Closed(0) = 0
    BY DEF Closed
  <2>. QED
    BY <1>2, <1>3, <2>1, CandidatesAreHosts DEF HopList
<1>4. TypeOK
  <2>1. /\ remote \in Hosts /\ sinceChoice \in 0 .. OldAge + 1 /\ sinceRoundtrip \in 0 .. HopAfter
        /\ sinceContact \in 0 .. ConnectWithin + 1 /\ closing \in NotClosing .. CloseWithin
        /\ faults \in 0 .. MaxFaults
    BY CandidatesAreHosts, Limits DEF Init, NotClosing
  <2>2. /\ {attached, dead, small, due, answered} \subseteq BOOLEAN /\ owed \in 0 .. Queued
        /\ news \in {"none", "heard", "answered"}
    <3>1. owed = 0 /\ 0 \in 0 .. Queued
      BY Limits DEF Init
    <3>. QED
      BY <3>1 DEF Init
  <2>3. /\ sockets # << >>
        /\ \/ Len(sockets) <= MaxPorts
           \/ [i \in DOMAIN sockets |-> sockets[i].peer] = Candidates
    BY <1>3, <1>31, ListFits
  <2>. QED
    BY <1>1, <1>2, <1>3, <2>1, <2>2, <2>3 DEF TypeOK, Sort, Init
<1>5. PathsAreReal /\ LeadsToServer
  BY <1>2, <1>3 DEF PathsAreReal, LeadsToServer, Init
<1>6. HopsAreTimed
  <2>1. remote = Candidates[1] /\ HopAfter * 0 + sinceChoice <= Elapsed
    BY Limits DEF Init, Elapsed, NotClosing
  <2>2. 0 \in 0 .. HopsWhileConnecting
    BY Limits DEF HopsWhileConnecting
  <2>. QED
    BY <1>31, <2>1, <2>2 DEF HopsAreTimed
<1>7. ConnectIsTimed /\ CloseIsTimed /\ TrialIsShort
  BY Limits DEF ConnectIsTimed, CloseIsTimed, TrialIsShort, Init, NotClosing
<1>. QED
  BY <1>3, <1>4, <1>5, <1>6, <1>7 DEF SocketsInv

\* Every step keeps the invariant, and pruning spares what it should.
LEMMA NextHolds == ASSUME SocketsInv, [Next]_vars PROVE SocketsInv' /\ Spares
<1>0. Len(sockets) \in Nat
  BY LenProperties DEF SocketsInv
<1>1. CASE PollReceives
  BY <1>1, PollStep
<1>2. CASE Flush
  <2>1. SocketsInv' /\ (attached => Len(sockets') >= Len(sockets))
    BY <1>2, FlushStep
  <2>2. Len(sockets') \in Nat
    BY <2>1, LenProperties DEF SocketsInv
  <2>. QED
    BY <1>0, <2>1, <2>2 DEF Spares
<1>3. CASE GiveUp
  BY <1>0, <1>3, GiveUpStep DEF GiveUp, Spares
<1>4. CASE Wait
  BY <1>0, <1>4, WaitStep DEF Wait, Spares
<1>5. ASSUME NEW i \in DOMAIN sockets, Hear(i) \/ Reply(i) \/ Lose(i) \/ Fail(i)
      PROVE  SocketsInv' /\ Spares
  <2>1. DOMAIN sockets' = DOMAIN sockets /\ DOMAIN sockets = 1 .. Len(sockets)
    BY <1>5, LenProperties DEF Hear, Reply, Lose, Fail, SocketsInv
  <2>2. SocketsInv'
    BY <1>5, PathStep
  <2>3. DOMAIN sockets' = 1 .. Len(sockets') /\ Len(sockets') \in Nat
    BY <2>2, LenProperties DEF SocketsInv
  <2>4. Len(sockets') = Len(sockets)
    BY <1>0, <2>1, <2>3
  <2>. QED
    BY <1>0, <2>2, <2>4 DEF Spares
<1>6. CASE UNCHANGED vars
  <2>1. SocketsInv'
    BY <1>6 DEF vars, clocks, SocketsInv, TypeOK, PathsAreReal, LeadsToServer, HopsAreTimed,
                HopList, ConnectIsTimed, CloseIsTimed, TrialIsShort, HopDue, Elapsed
  <2>. QED
    BY <1>0, <1>6, <2>1 DEF vars, Spares
<1>. QED
  BY <1>1, <1>2, <1>3, <1>4, <1>5, <1>6 DEF Next

\* The inductive invariant of the sockets (client.rs, flush_ticks, poll,
\* maybe_hop_port, prune_old_sockets).
THEOREM SocketsInvariance == Spec => []SocketsInv
<1>1. SocketsInv /\ [Next]_vars => SocketsInv'
  BY NextHolds
<1>. QED
  BY <1>1, InitHolds, PTL DEF Spec

\* A client has a socket, and more than MAX_PORTS_OPEN only as it dialled them;
\* its clocks stay in range (maybe_hop_port, dial_candidates_with_size).
THEOREM SocketsAreTyped == Spec => []TypeOK
<1>1. SocketsInv => TypeOK
  BY DEF SocketsInv
<1>. QED
  BY <1>1, SocketsInvariance, PTL

\* The invariant bounds which candidates the limit has closed: each hop closes
\* one more at most, beside what is too many from the start.
LEMMA FewClosed == ASSUME SocketsInv PROVE FewCandidatesClosed
<1>. SUFFICES ASSUME ~attached, NEW k \in DOMAIN Candidates, k = 1 \/ k > Exposed
              PROVE  HasSocket(Candidates[k])
  BY DEF FewCandidatesClosed
<1>1. PICK hops \in 0 .. HopsWhileConnecting : HopList(sockets, hops)
  BY DEF SocketsInv, HopsAreTimed
<1>. DEFINE past == Closed(hops)
<1>2. /\ Len(sockets) \in Nat /\ DOMAIN sockets = 1 .. Len(sockets)
      /\ Len(Candidates) \in Nat \ {0} /\ DOMAIN Candidates = 1 .. Len(Candidates)
      /\ HopsWhileConnecting \in Int
  BY CandidatesAreHosts, LenProperties, Limits DEF SocketsInv, HopsWhileConnecting
<1>3. /\ past \in Nat /\ Len(sockets) = Len(Candidates) + hops - past /\ Len(sockets) >= 1
      /\ hops = 0 => past = 0
      /\ past = 0 \/ past = Len(Candidates) + hops - MaxPorts
  BY <1>1, <1>2, ClosedFits DEF HopList, Closed
<1>4. \A i \in DOMAIN sockets :
        sockets[i].peer = IF i + past <= Len(Candidates) THEN Candidates[i + past]
                          ELSE Candidates[1]
  BY <1>1 DEF HopList
<1>. HIDE DEF past
<1>5. CASE k = 1 /\ hops > 0
  <2>1. Len(sockets) \in DOMAIN sockets /\ Len(sockets) + past > Len(Candidates)
    BY <1>2, <1>3, <1>5
  <2>2. sockets[Len(sockets)].peer = Candidates[1]
    BY <1>2, <1>3, <1>4, <2>1
  <2>. QED
    BY <1>5, <2>1, <2>2 DEF HasSocket
<1>6. CASE k > past
  <2>1. k - past \in DOMAIN sockets /\ (k - past) + past = k /\ k <= Len(Candidates)
    BY <1>2, <1>3, <1>6
  <2>2. sockets[k - past].peer = Candidates[k]
    BY <1>4, <2>1
  <2>. QED
    BY <2>1, <2>2 DEF HasSocket
<1>7. k > past \/ (k = 1 /\ hops > 0)
  <2>1. CASE k = 1
    BY <1>1, <1>3, <2>1
  <2>2. CASE k > Exposed
    BY <1>2, <1>3, <2>2, Limits DEF Exposed
  <2>. QED
    BY <2>1, <2>2
<1>. QED
  BY <1>5, <1>6, <1>7

\* However many candidates are dialled and however long a host state takes to
\* attach the session, only the first ones, as many as hops in that time push
\* beyond MAX_PORTS_OPEN, lose their sockets, and never the very first
\* (maybe_hop_port, dial_candidates_with_size, the initial timeout of poll).
THEOREM FewAreClosed == Spec => []FewCandidatesClosed
<1>. QED
  BY FewClosed, SocketsInvariance, PTL

\* An attached client talks only to an address the server answered from.
THEOREM ServerIsFound == Spec => []LeadsToServer
<1>1. SocketsInv => LeadsToServer
  BY DEF SocketsInv
<1>. QED
  BY <1>1, SocketsInvariance, PTL

\* Sockets are closed for their age beside a newest one that had an answer, or
\* that late acknowledgements kept as long, an interval each (prune_old_sockets,
\* maybe_hop_port, process_roundtrip_ack).
THEOREM PruningIsSafe == Spec => PruneSpares
<1>1. SocketsInv /\ [Next]_vars
        => [attached /\ Len(sockets') < Len(sockets)
              => answered' \/ HopAfter * (Queued - owed' + 1) > OldAge]_vars
  BY NextHolds DEF Spares
<1>. QED
  BY <1>1, SocketsInvariance, PTL DEF Spec, PruneSpares

=============================================================================
