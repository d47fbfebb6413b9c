------------------------------ MODULE Session ------------------------------
(***************************************************************************)
(* A client (Client.tla), the network and the server it types to.          *)
(*                                                                         *)
(* mosh-server is not part of the repository.  Here it is what the tests   *)
(* of src/src/client.rs put in its place: it rebuilds a user state from    *)
(* the base and the diff of every instruction it accepts, honours the      *)
(* throwaway watermark, acknowledges its newest state, and sends host      *)
(* states that all build on state 0, which this client never discards      *)
(* because the server never asks it to.                                    *)
(***************************************************************************)
EXTENDS Client, SequencesExt

CONSTANTS
    MaxActions,        \* bound: actions of the user, the first resize included
    MaxIdleNum,        \* bound: empty states take numbers up to this one
    MaxHost,           \* bound: host states the server numbers
    NetCap,            \* bound: distinct instructions under way per direction
    Savings,           \* outcomes of the size comparison: may it save bytes
    Outcomes,          \* of a tick: "none" and the faults it may meet
    Refusals,          \* whether a socket may refuse a datagram's size
    Rejections,        \* whether the terminal may reject a host state
    Unreachable,       \* whether 15 seconds may pass before any host state
    Quits              \* whether the user may close the session

\* The number of a shutdown (u64::MAX) is beyond those of the first flush.
ASSUME SessionAssumption ==
    /\ ShutdownNum > 2
    /\ MaxActions \in Nat \ {0} /\ MaxIdleNum \in Nat /\ MaxHost \in Nat
    /\ NetCap \in Nat
    /\ Savings \subseteq BOOLEAN /\ Refusals \subseteq BOOLEAN
    /\ Rejections \subseteq BOOLEAN
    /\ Unreachable \in BOOLEAN /\ Quits \in BOOLEAN
    /\ Outcomes \subseteq {"none", "too_large", "exhausted"}

VARIABLES
    client,            \* the Client record
    user,              \* the server's user states: number -> actions so far
    host,              \* the number of the server's newest host state
    toServer,          \* instructions under way to the server
    toClient,          \* instructions under way to the client
    typed,             \* history: every action the user made
    phase              \* the program around the client: running, quitting
                       \* (in graceful_shutdown), closed (returned from it)

vars == <<client, user, host, toServer, toClient, typed, phase>>

Actions == 1 .. MaxActions

\* Client and server keep their types; the attempts of a shutdown stay within
\* SHUTDOWN_RETRIES (Transport::tick).
TypeOK ==
    /\ client \in ClientState(Actions)
    /\ DOMAIN user \subseteq 0 .. ShutdownNum
    /\ \A n \in DOMAIN user : user[n] \in Seq(Actions)
    /\ host \in 0 .. MaxHost
    /\ toServer \subseteq Instruction(Seq(Actions))
    /\ toClient \subseteq Instruction(Seq(Actions))
    /\ typed \in Seq(Actions)
    /\ phase \in {"running", "quitting", "closed"}

-----------------------------------------------------------------------------
(***************************************************************************)
(* The client's side.                                                      *)
(***************************************************************************)

\* The user makes the next action; actions are told apart by their position.
Type ==
    /\ phase = "running" /\ ~client.dead /\ Len(typed) < MaxActions
    /\ client' = SendAction(client, Len(typed) + 1)
    /\ typed' = Append(typed, Len(typed) + 1)
    /\ UNCHANGED <<user, host, toServer, toClient, phase>>

\* Bound: there is room on the path, an empty state takes no number beyond
\* MaxIdleNum, and numbers stay below u64::MAX.
WithinBounds(r, path) ==
    /\ r.c.t.sentNum < ShutdownNum \/ r.c.t.shutdown
    /\ Cardinality(path) <= NetCap
    /\ \A m \in r.out : m.diff = NoDiff /\ m.new # ShutdownNum => m.new <= MaxIdleNum

\* A flush that ended as r: what it sent is lost or joins what is under way.
Flushed(r, arrives) ==
    LET path == IF arrives THEN toServer \cup r.out ELSE toServer
    IN  WithinBounds(r, path) /\ toServer' = path

FlushResults(c) ==
    {FlushTicks(c, at, saves, outcome, refused) :
        at \in Readings(c), saves \in Savings,
        outcome \in Outcomes, refused \in Refusals}

\* dial_candidates_with_size ends with the first flush, which carries the
\* size of the terminal.
Init ==
    /\ \E r \in FlushResults(Dialled(1)), arrives \in BOOLEAN :
          /\ client = r.c
          /\ toServer = IF arrives THEN r.out ELSE {}
    /\ user = [n \in {0} |-> << >>]
    /\ host = 0
    /\ toClient = {}
    /\ typed = <<1>>
    /\ phase = "running"

\* The shutdown is acknowledged or its attempts are spent.
ShutdownOver(expired) ==
    ShutdownAcknowledged(client.t) \/ ShutdownTimedOut(client.t, expired)

\* poll() when its tick interval passed: one flush.
Flush ==
    /\ phase # "closed" /\ ~client.dead
    /\ client.initial => ~ShutdownOver(FALSE)
    /\ \E r \in FlushResults(client), arrives \in BOOLEAN :
          /\ client' = r.c
          /\ Flushed(r, arrives)
    /\ UNCHANGED <<user, host, toClient, typed, phase>>

\* poll() takes one instruction from a socket; the terminal rejects a host
\* state it cannot apply, which ends the client.
Receive ==
    /\ phase # "closed" /\ ~client.dead
    /\ \E m \in toClient, quiet \in BOOLEAN, rejects \in Rejections, copy \in BOOLEAN :
          LET r == RecvResult(client.t, m, quiet) IN
          /\ client' = [client EXCEPT !.t = r.t, !.dead = r.accepted /\ rejects]
          /\ toClient' = IF copy THEN toClient ELSE toClient \ {m}
    /\ UNCHANGED <<user, host, toServer, typed, phase>>

\* poll() finds that no host state came for 15 seconds after dialling.
InitialTimeout ==
    /\ Unreachable /\ phase # "closed" /\ ~client.dead
    /\ ~client.initial /\ ~client.t.attached
    /\ \E r \in FlushResults([client EXCEPT !.initial = TRUE, !.t = StartShutdown(@)]),
          arrives \in BOOLEAN :
          /\ client' = r.c
          /\ Flushed(r, arrives)
    /\ UNCHANGED <<user, host, toClient, typed, phase>>

\* poll() ends the client when that shutdown is acknowledged or given up.
GiveUp ==
    /\ client.initial /\ phase # "closed" /\ ~client.dead
    /\ \E expired \in BOOLEAN : ShutdownOver(expired)
    /\ client' = [client EXCEPT !.dead = TRUE]
    /\ UNCHANGED <<user, host, toServer, toClient, typed, phase>>

\* graceful_shutdown(): what is queued is flushed, then shutdown starts,
\* unless the flush reported an error.
Quit ==
    /\ Quits /\ phase = "running" /\ ~client.dead
    /\ ~client.t.peerShutdownAcked
    /\ \E r \in FlushResults(client), arrives \in BOOLEAN :
          /\ client' = IF r.c.t.fault = "too_large" THEN r.c
                        ELSE [r.c EXCEPT !.t = StartShutdown(@)]
          /\ Flushed(r, arrives)
    /\ phase' = "quitting"
    /\ UNCHANGED <<user, host, toClient, typed>>

\* graceful_shutdown() returns: acknowledged, timed out (its own deadline may
\* pass at any moment), or the client died.
Close ==
    /\ phase = "quitting"
    /\ client.dead \/ \E expired \in BOOLEAN : ShutdownOver(expired)
    /\ phase' = "closed"
    /\ UNCHANGED <<client, user, host, toServer, toClient, typed>>

-----------------------------------------------------------------------------
(***************************************************************************)
(* The server's side.                                                      *)
(***************************************************************************)

AckNum == Max(DOMAIN user)

\* An instruction is applied once, on a base the server holds.
ServerApply(m) ==
    IF m.new \in DOMAIN user \/ m.old \notin DOMAIN user THEN user
    ELSE [n \in {k \in DOMAIN user : k >= m.throw} \cup {m.new} |->
            IF n = m.new THEN user[m.old] \o m.diff ELSE user[n]]

ServerReceive ==
    /\ \E m \in toServer, copy \in BOOLEAN :
          /\ user' = ServerApply(m)
          /\ toServer' = IF copy THEN toServer ELSE toServer \ {m}
    /\ UNCHANGED <<client, host, toClient, typed, phase>>

\* The server, once it heard from the client, sends its newest host state
\* again, or a new one.
ServerSend ==
    /\ AckNum > 0
    /\ \E n \in {host, host + 1} \cap 1 .. MaxHost, diff \in {NoDiff, <<1>>} :
          LET m == [old |-> 0, new |-> n, diff |-> diff, ack |-> AckNum, throw |-> 0]
          IN  /\ host' = n
              /\ toClient' = toClient \cup {m}
              /\ Cardinality(toClient') <= NetCap
    /\ UNCHANGED <<client, user, toServer, typed, phase>>

Next ==
    \/ Type \/ Flush \/ Receive \/ InitialTimeout \/ GiveUp \/ Quit \/ Close
    \/ ServerReceive \/ ServerSend

Spec == Init /\ [][Next]_vars

-----------------------------------------------------------------------------
(***************************************************************************)
(* Safety.                                                                 *)
(***************************************************************************)

\* However optimistic bases, retransmissions, empty states, culls and
\* rebases combine, every state the server rebuilds is a prefix of what the
\* user did: no action is lost, doubled or out of order inside it.
InputIsPrefix == \A n \in DOMAIN user : IsPrefix(user[n], typed)

\* The log and the server's copy of the last acknowledged state together are
\* everything the user did: an action leaves the log exactly when the server
\* holds it, and none is sent twice on that base.  (Once shutdown began new
\* actions have nowhere to go.)
NothingForgotten ==
    ~client.t.shutdown =>
        /\ client.lastAcked \in DOMAIN user
        /\ user[client.lastAcked] \o From(client.actions, client.ackedCount) = typed

\* The input stream a session promises, seen through the server's newest
\* user state.
Stream == INSTANCE InputStream WITH seen <- user[AckNum]

ImplementsStream == Stream!Spec

\* A shutdown the server acknowledged carried all the input queued when the
\* user quit ("Stock shutdown carries the current user state.  Flush input
\* queued in the same stdin read as EOF / the local quit command", client.rs).
\* (A client that gave up on ever hearing from the server had started its
\* shutdown before the user quit.)
CloseKeepsInput ==
    phase # "running" /\ ~client.initial /\ ShutdownAcknowledged(client.t)
        => user[AckNum] = typed

\* Until the server has accepted the shutdown, every shutdown instruction
\* that reaches it builds on a state it holds, so that one of the repeated
\* attempts getting through is enough.
CloseFindsBase ==
    ShutdownNum \notin DOMAIN user =>
        \A m \in toServer : m.new = ShutdownNum => m.old \in DOMAIN user

\* Until the server has accepted the shutdown, every shutdown instruction of
\* a quitting user that reaches it gives it all that the user did: it builds
\* on a state the server holds and brings what that state lacks ("Stock
\* shutdown carries the current user state", client.rs).
CloseIsComplete ==
    phase # "running" /\ ~client.initial /\ ShutdownNum \notin DOMAIN user =>
        \A m \in toServer : m.new = ShutdownNum =>
            m.old \in DOMAIN user /\ user[m.old] \o m.diff = typed

-----------------------------------------------------------------------------
(***************************************************************************)
(* Liveness.                                                               *)
(***************************************************************************)

\* A flush made late enough for every queued state to be due again, and what
\* it does.
LateReading(c) ==
    [fresh |-> {},
     now |-> [interval |-> TRUE, idle |-> FALSE, ackDelay |-> FALSE,
              expired |-> FALSE, overdue |-> Max({0} \cup NumsOf(c.t.outbound))]]

LateResults(c) ==
    {FlushTicks(c, LateReading(c), saves, "none", FALSE) : saves \in Savings}

\* A late flush whose datagram arrives.
LateFlush ==
    /\ phase # "closed" /\ ~client.dead
    /\ \E r \in LateResults(client) :
          /\ client' = r.c
          /\ Flushed(r, TRUE)
    /\ UNCHANGED <<user, host, toClient, typed, phase>>

\* An instruction under way is taken from the socket it reaches.
ServerTakes ==
    /\ \E m \in toServer : user' = ServerApply(m) /\ toServer' = toServer \ {m}
    /\ UNCHANGED <<client, host, toClient, typed, phase>>

ClientTakes ==
    /\ phase # "closed" /\ ~client.dead
    /\ \E m \in toClient :
          /\ client' = [client EXCEPT !.t = RecvResult(@, m, FALSE).t]
          /\ toClient' = toClient \ {m}
    /\ UNCHANGED <<user, host, toServer, typed, phase>>

\* ENABLED <<LateFlush>>_vars, written out so that TLC evaluates it quickly.
LateFlushEnabled ==
    /\ phase # "closed" /\ ~client.dead
    /\ \E r \in LateResults(client) :
          /\ WithinBounds(r, toServer \cup r.out)
          /\ r.c # client \/ ~(r.out \subseteq toServer)

\* The client polls for ever and its clock runs, so whenever it keeps having
\* something to send it flushes late now and then, and not every datagram of
\* those flushes is lost: strong fairness of LateFlush.
ClientFairness == []<>LateFlushEnabled => []<><<LateFlush>>_vars

\* Likewise the server polls and answers, and what is on the path arrives.
FairSpec ==
    /\ Spec /\ ClientFairness
    /\ SF_vars(ServerSend) /\ WF_vars(ServerTakes) /\ WF_vars(ClientTakes)

\* Over a path that keeps losing but does not lose for ever, all input
\* reaches the server, however full the queue.
InputArrives == \A k \in Actions : Len(typed) >= k ~> Len(user[AckNum]) >= k

\* The transport knows when it sent every state that waits for its
\* acknowledgement; an acknowledgement of any other state says nothing to it.
SendTimesKept ==
    \A s \in client.t.outbound : s.sent => s.new \in Listed(client.t.sentTimes)

\* And the client learns that it did, also after overflows, unless the culls
\* of the two queues go on for ever to forget states that still wait.
InputAcknowledged == <>[]SendTimesKept => <>[](client.actions = << >>)
=============================================================================
