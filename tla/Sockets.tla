------------------------------ MODULE Sockets ------------------------------
(***************************************************************************)
(* The UDP sockets of src/src/client.rs: one per candidate address until   *)
(* the first host state attaches the session, a new one whenever round     *)
(* trips fail for too long (maybe_hop_port), the old ones closed by number *)
(* or by age, and the shutdown that the initial timeout starts.            *)
(*                                                                         *)
(* A socket stands with its path: whether it carries datagrams to the      *)
(* server (up) and answers back (down), whether there are some under way   *)
(* (out, back), and whether the server answers to it (heard).  Time is in  *)
(* units longer than the heartbeat; clocks stop once past the last         *)
(* threshold they are compared with.  The server and the network are       *)
(* external.                                                               *)
(***************************************************************************)
EXTENDS Integers, Sequences, SequencesExt

CONSTANTS Candidates,    \* the addresses dialled, in order; perhaps more than MaxPorts
          Narrow,        \* addresses whose path refuses full-size datagrams
          MaxPorts,      \* MAX_PORTS_OPEN
          Queued,        \* bound on the states queued at a hop (SENT_STATE_CAP)
          HopAfter,      \* PORT_HOP_INTERVAL
          ConnectWithin, \* INITIAL_CONNECT_TIMEOUT
          CloseWithin,   \* the shutdown timeout of the transport
          OldAge,        \* MAX_OLD_SOCKET_AGE
          MaxFaults      \* bound on path failures and failed binds

Hosts == ToSet(Candidates)

\* How often a client hops before its initial timeout is over.
HopsWhileConnecting == (ConnectWithin + CloseWithin) \div HopAfter

ASSUME SocketsAssumption ==
    /\ Candidates \in Seq(Hosts) /\ Candidates # << >> /\ IsInjective(Candidates)
    /\ Narrow \subseteq Hosts
    /\ {MaxPorts, HopAfter, ConnectWithin, CloseWithin} \subseteq Nat \ {0}
    /\ {OldAge, Queued, MaxFaults} \subseteq Nat /\ OldAge >= HopAfter

VARIABLES sockets,         \* the open sockets, the newest last
          remote,          \* remote_addr
          sinceChoice,     \* age of last_port_choice
          sinceRoundtrip,  \* age of last_roundtrip_success
          sinceContact,    \* age of last_remote_state, until attachment
          attached,        \* has_received_authenticated
          closing,         \* age of the shutdown, or NotClosing
          dead,
          small,           \* the fallback payload is in use
          owed,            \* how many states queued when the newest socket was
                           \* chosen may still be acknowledged late
          due,             \* the unit's datagrams are not sent yet
          news,            \* what is sent over the newest socket: nothing new,
                           \* heard by the server, or in an answer under way
          real,            \* the addresses that lead to the server
          answered,        \* history: a round trip over the newest socket
          faults

vars == <<sockets, remote, sinceChoice, sinceRoundtrip, sinceContact, attached,
          closing, dead, small, owed, due, news, real, answered, faults>>

clocks == <<sinceChoice, sinceRoundtrip, sinceContact>>

NotClosing == -1

Socket(peer, works) ==
    [peer |-> peer, up |-> works, down |-> works, out |-> FALSE, back |-> FALSE,
     heard |-> FALSE]

Newest == Len(sockets)

\* flush_ticks: every candidate's socket until attachment, then the newest.
Senders(s) == IF attached THEN {Len(s)} ELSE DOMAIN s

Aged(age, limit) == IF age < limit THEN age + 1 ELSE age

-----------------------------------------------------------------------------

\* Faulty: keeps the newest socket, as pruning does.
AttachNewest(s, i) == <<Last(s)>>

\* The socket the first state came on, alone.
Attach(s, i) == <<s[i]>>

\* prune_old_sockets
PruneOldSockets(s) == IF Len(s) > 1 /\ sinceChoice > OldAge THEN <<Last(s)>> ELSE s

\* The newest n.
Newer(s, n) == IF Len(s) > n THEN SubSeq(s, Len(s) - n + 1, Len(s)) ELSE s

\* Faulty: closes one at most, where a loop is needed.
NewestOnce(s) == IF Len(s) > MaxPorts THEN Tail(s) ELSE s

\* Faulty: closes one socket too many.
NewestFewer(s) == IF Len(s) > MaxPorts THEN Newer(s, MaxPorts - 1) ELSE s

\* The loop that closes sockets beyond MAX_PORTS_OPEN, the oldest first: all
\* the surplus of a long list of candidates at the first hop.
NewestOnly(s) == Newer(s, MaxPorts)

\* An answer on the newest socket acknowledges what was sent over it.
AnsweredAnew(arrived) == Newest \in arrived /\ news = "answered"

\* process_roundtrip_ack: the last round trip succeeded when the acknowledged
\* state was sent last.  A state in the queue when the newest socket was chosen
\* is sent again over that socket, and its acknowledgement, earned on an older
\* path, may come with any later state of the server; other states of that
\* time were sent last before it.
OldState ==
    /\ sinceRoundtrip' \in {age \in 0..HopAfter : age >= sinceChoice} \union {HopAfter}
    /\ UNCHANGED <<owed, answered, news>>

\* Faulty: a state acknowledged already is credited with each time it is sent
\* again.
LateOften == owed > 0 /\ sinceRoundtrip' \in 0..HopAfter /\ UNCHANGED <<owed, answered, news>>

Late ==
    /\ owed > 0 /\ owed' = owed - 1 /\ sinceRoundtrip' \in 0..HopAfter
    /\ UNCHANGED <<answered, news>>

Anew(arrived) ==
    /\ AnsweredAnew(arrived)
    /\ answered' = TRUE /\ news' = "none" /\ sinceRoundtrip' \in 0..HopAfter
    /\ UNCHANGED owed

\* An acknowledgement that is repeated changes nothing.
Acknowledge(arrived) ==
    \/ UNCHANGED <<sinceRoundtrip, owed, answered, news>>
    \/ OldState \/ Late \/ Anew(arrived)

\* The first host state acknowledges what went to any candidate.
AttachRoundtrip ==
    /\ sinceRoundtrip' \in 0..HopAfter /\ owed' = Queued
    /\ answered' = TRUE /\ news' = "none"

\* maybe_hop_port goes ahead.
HopDue == sinceChoice >= HopAfter /\ sinceRoundtrip >= HopAfter

\* Faulty: a late attachment calls the shutdown off half way.
ShutdownOverUnattached == ~attached /\ closing >= CloseWithin

ShutdownTimedOut == closing >= CloseWithin

-----------------------------------------------------------------------------

Init ==
    /\ real \in SUBSET Hosts
    /\ sockets = [i \in DOMAIN Candidates |-> Socket(Candidates[i], Candidates[i] \in real)]
    /\ remote = Candidates[1]
    /\ sinceChoice = 0 /\ sinceRoundtrip = 0 /\ sinceContact = 0
    /\ attached = FALSE /\ closing = NotClosing /\ dead = FALSE
    /\ small = FALSE /\ owed = 0 /\ due = TRUE /\ news = "none"
    /\ answered = FALSE /\ faults = 0

\* poll() with datagrams: the receive rounds, in which socket i brought the
\* last accepted state; attachment; pruning; an acknowledged shutdown.  A hop
\* that is due now comes with the next tick, within the unit.
Receive(arrived) ==
    LET taken == [j \in DOMAIN sockets |->
                    [sockets[j] EXCEPT !.back = @ /\ j \notin arrived]]
    IN  /\ ~dead
        /\ \E i \in arrived :
             /\ sockets' = PruneOldSockets(IF attached THEN taken ELSE Attach(taken, i))
             /\ remote' = IF attached THEN remote ELSE sockets[i].peer
        /\ attached' = TRUE
        /\ IF attached THEN Acknowledge(arrived) ELSE AttachRoundtrip
        /\ sinceContact' = 0
        /\ dead' \in {FALSE, closing # NotClosing}
        /\ UNCHANGED <<sinceChoice, closing, small, real, faults>>
        /\ due' = (due \/ HopDue')

PollReceives ==
    \E arrived \in (SUBSET {j \in DOMAIN sockets : sockets[j].back}) \ {{}} : Receive(arrived)

\* poll() when the shutdown of the initial timeout is over.
GiveUp ==
    /\ ~dead /\ closing # NotClosing /\ ShutdownTimedOut
    /\ dead' = TRUE
    /\ UNCHANGED <<sockets, remote, clocks, attached, closing, small, owed, due, news,
                   real, answered, faults>>

\* The datagrams of one tick.  A refusal for their size ends the sending and
\* makes the next ones small.
Sent(s) ==
    LET refusing == {j \in Senders(s) : ~small /\ s[j].peer \in Narrow}
        before   == {j \in Senders(s) : \A k \in refusing : j < k}
    IN  /\ sockets' = [j \in DOMAIN s |-> [s[j] EXCEPT !.out = @ \/ j \in before]]
        /\ small' = (small \/ refusing # {})
        /\ due' = (refusing # {})

\* maybe_hop_port; its clock restarts even when no socket can be opened.
HopPort ==
    /\ HopDue
    /\ sinceChoice' = 0
    /\ \/ /\ Sent(NewestOnly(Append(sockets, Socket(remote, remote \in real))))
          /\ owed' = Queued /\ answered' = FALSE /\ news' = "none"
          /\ UNCHANGED faults
       \/ /\ faults < MaxFaults /\ faults' = faults + 1
          /\ Sent(sockets)
          /\ UNCHANGED <<owed, answered, news>>

KeepPort ==
    ~HopDue /\ Sent(sockets) /\ UNCHANGED <<sinceChoice, owed, answered, news, faults>>

\* poll() with nothing to receive: the initial timeout, then flush_ticks.
Flush ==
    /\ ~dead /\ ~(closing # NotClosing /\ ShutdownTimedOut)
    /\ due
    /\ closing' = IF closing = NotClosing /\ ~attached /\ sinceContact > ConnectWithin
                  THEN 0 ELSE closing
    /\ HopPort \/ KeepPort
    /\ UNCHANGED <<remote, sinceRoundtrip, sinceContact, attached, dead, real>>

\* A unit of time passes; flush_ticks runs many times in one.
Wait ==
    /\ ~dead /\ ~due
    /\ due' = TRUE
    /\ sinceChoice' = Aged(sinceChoice, OldAge + 1)
    /\ sinceRoundtrip' = Aged(sinceRoundtrip, HopAfter)
    /\ sinceContact' = IF attached THEN 0 ELSE Aged(sinceContact, ConnectWithin + 1)
    /\ closing' = IF closing = NotClosing THEN closing ELSE Aged(closing, CloseWithin)
    /\ UNCHANGED <<sockets, remote, attached, dead, small, owed, news, real, answered,
                   faults>>

-----------------------------------------------------------------------------
(* The server and the network.                                             *)

Unmoved == <<remote, clocks, attached, closing, dead, small, owed, due, real>>

\* Datagrams of a socket the client has left are older than those of the
\* sockets it sends on, and do not change where the server answers.
Hear(i) ==
    LET late == i \notin Senders(sockets) /\ \E j \in Senders(sockets) : sockets[j].heard
    IN  /\ sockets[i].out /\ sockets[i].up
        /\ sockets' = [j \in DOMAIN sockets |->
                         [sockets[j] EXCEPT !.out = @ /\ j # i,
                                            !.heard = IF late THEN @ ELSE j = i]]
        /\ news' = IF i = Newest /\ news = "none" THEN "heard" ELSE news
        /\ UNCHANGED <<Unmoved, answered, faults>>

Reply(i) ==
    /\ sockets[i].heard /\ sockets[i].down /\ ~sockets[i].back
    /\ sockets' = [sockets EXCEPT ![i].back = TRUE]
    /\ news' = IF i = Newest /\ news = "heard" THEN "answered" ELSE news
    /\ UNCHANGED <<Unmoved, answered, faults>>

Lose(i) ==
    /\ \/ sockets[i].out /\ sockets' = [sockets EXCEPT ![i].out = FALSE] /\ UNCHANGED news
       \/ /\ sockets[i].back /\ sockets' = [sockets EXCEPT ![i].back = FALSE]
          /\ news' = IF i = Newest /\ news = "answered" THEN "heard" ELSE news
    /\ UNCHANGED <<Unmoved, answered, faults>>

\* The path of a socket fails, at least from us to the server.
Fail(i) ==
    /\ sockets[i].up /\ faults < MaxFaults
    /\ faults' = faults + 1
    /\ \E still \in BOOLEAN :
         sockets' = [sockets EXCEPT ![i].up = FALSE, ![i].down = still]
    /\ UNCHANGED <<Unmoved, answered, news>>

Next ==
    \/ PollReceives \/ Flush \/ GiveUp \/ Wait
    \/ ~dead /\ \E i \in DOMAIN sockets : Hear(i) \/ Reply(i) \/ Lose(i) \/ Fail(i)

\* Polling never stops; a working path of the newest socket loses and delays,
\* but again and again a datagram and its answer pass before the next hop, and
\* acknowledge a state that was not acknowledged before.
Fairness ==
    /\ WF_vars(Flush) /\ WF_vars(GiveUp) /\ WF_vars(Wait)
    /\ SF_vars(Hear(Newest)) /\ SF_vars(Reply(Newest))
    /\ SF_vars(\E arrived \in SUBSET DOMAIN sockets :
                 /\ Newest \in arrived /\ \A j \in arrived : sockets[j].back
                 /\ Receive(arrived) /\ answered')

Spec == Init /\ [][Next]_vars /\ Fairness

-----------------------------------------------------------------------------

\* A client has a socket, and more than MAX_PORTS_OPEN only as it dialled them
\* (maybe_hop_port, dial_candidates_with_size).
TypeOK ==
    /\ \A i \in DOMAIN sockets :
         sockets[i] \in [peer : Hosts, up : BOOLEAN, down : BOOLEAN, out : BOOLEAN,
                         back : BOOLEAN, heard : BOOLEAN]
    /\ sockets # << >>
    /\ \/ Len(sockets) <= MaxPorts
       \/ ~attached /\ [i \in DOMAIN sockets |-> sockets[i].peer] = Candidates
    /\ remote \in Hosts /\ real \subseteq Hosts
    /\ sinceChoice \in 0..OldAge + 1 /\ sinceRoundtrip \in 0..HopAfter
    /\ sinceContact \in 0..ConnectWithin + 1 /\ closing \in NotClosing..CloseWithin
    /\ {attached, dead, small, due, answered} \subseteq BOOLEAN /\ owed \in 0..Queued
    /\ news \in {"none", "heard", "answered"} /\ faults \in 0..MaxFaults

HasSocket(address) == \E i \in DOMAIN sockets : sockets[i].peer = address

\* Until a host state attaches the session, every candidate address has its
\* socket (dial_candidates_with_size: "Try every resolved bootstrap endpoint
\* until one returns an authenticated state").
CandidatesKept == ~attached => \A a \in Hosts : HasSocket(a)

\* How many of the first candidates the hops before the initial timeout may
\* push out, if positive.
Exposed == Len(Candidates) + HopsWhileConnecting - MaxPorts

\* Until a host state attaches the session, however many candidates there are
\* and however long the timeout takes, no other candidates lose their sockets
\* than the first ones that hops and the limit expose; never the first of all,
\* to which the hops go (maybe_hop_port).
FewCandidatesClosed ==
    ~attached => \A k \in DOMAIN Candidates : k = 1 \/ k > Exposed => HasSocket(Candidates[k])

\* Once attached, the client talks only to an address the server answered
\* from, on the socket it kept and on every one it opens later.
LeadsToServer ==
    attached => remote \in real /\ \A i \in DOMAIN sockets : sockets[i].peer = remote

\* Old sockets are closed for their age when the newest has had an answer.
\* An untried newest is left alone only after so many late acknowledgements
\* that each, keeping off the next hop for an interval, made up that age
\* (prune_old_sockets, maybe_hop_port, process_roundtrip_ack).
PruneSpares ==
    [][attached /\ Len(sockets') < Len(sockets)
        => answered' \/ HopAfter * (Queued - owed' + 1) > OldAge]_vars

\* Whatever paths fail, the client dies of its initial timeout or, again and
\* again, has a working newest socket that had a round trip; a shutdown the
\* timeout started is not left hanging by a late attachment.
Resumes == []<>(dead \/ (answered /\ sockets[Newest].up /\ closing = NotClosing))

=============================================================================
