------------------------------ MODULE SspLink ------------------------------
(***************************************************************************)
(* Two State Synchronization Protocol endpoints and the UDP path between   *)
(* them.  Each endpoint is a Transport (src/src/transport.rs); the         *)
(* repository's own tests build the same pair with new_client and          *)
(* new_server.  The application on top is arbitrary: it queues any diff    *)
(* against any base, whenever it likes.  What it learns of an overflow      *)
(* (take_rebase_required) matters to no method of the transport and is     *)
(* part of Client.tla.                                                     *)
(*                                                                         *)
(* An instruction stands for all fragments of one tick.  On the path it    *)
(* may be lost (it never enters the network, or stays there for ever),     *)
(* delayed, reordered and delivered again; an exact replay of a datagram   *)
(* the receiver still remembers (seen_seqs) changes nothing and is not a   *)
(* step, so a second delivery here is a retransmission or a replay older   *)
(* than that memory.                                                       *)
(***************************************************************************)
EXTENDS Transport

CONSTANTS
    Client, Server,    \* the two endpoints
    Diffs,             \* the diffs on the wire, the empty one included
    Faults,            \* how a tick can fail: too_large, exhausted
    Quitters,          \* the endpoints that may start a shutdown
    Shrinkers,         \* the endpoints whose datagrams may prove too long
    MaxNum,            \* bound: states numbered per endpoint before shutdown
    NetCap             \* bound: distinct instructions under way to an endpoint

ASSUME LinkAssumption ==
    /\ Client # Server
    /\ NoDiff \in Diffs
    /\ Faults \subseteq {"too_large", "exhausted"}
    /\ Quitters \subseteq {Client, Server} /\ Shrinkers \subseteq {Client, Server}
    /\ MaxNum \in [{Client, Server} -> Nat]
    /\ \A e \in {Client, Server} : MaxNum[e] < ShutdownNum
    /\ NetCap \in Nat

VARIABLES
    ep,                \* ep[e]: the transport of endpoint e
    net                \* net[e]: the instructions addressed to e

vars == <<ep, net>>

Endpoints == {Client, Server}

Other(e) == IF e = Client THEN Server ELSE Client

\* Both endpoints keep their types; the attempts of a shutdown stay within
\* SHUTDOWN_RETRIES, and numbers below u64::MAX until one starts.
TypeOK ==
    /\ ep \in [Endpoints -> TransportState(Diffs)]
    /\ net \in [Endpoints -> SUBSET Instruction(Diffs)]

Init ==
    /\ ep = [e \in Endpoints |-> NewTransport(e = Server)]
    /\ net = [e \in Endpoints |-> {}]

-----------------------------------------------------------------------------

\* An endpoint whose tick failed is abandoned by its owner.
Alive(e) == ep[e].fault = "none"

\* Bound: u64 state numbers do not run out.
CanNumber(e) == ep[e].sentNum < MaxNum[e]

\* set_pending_from with a base of the application's choice, which need not
\* be one the transport still knows.
Submit(e) ==
    /\ Alive(e) /\ CanNumber(e)
    /\ \E old \in 0 .. MaxNum[e], diff \in Diffs \ {NoDiff} :
          ep' = [ep EXCEPT ![e] = SetPendingFrom(@, old, diff)]
    /\ UNCHANGED net

\* A datagram was refused for its size.  On an empty queue this is also
\* force_next_send.
ShrinkFragments(e) ==
    /\ Alive(e) /\ e \in Shrinkers
    /\ ep' = [ep EXCEPT ![e] = SetMaxFragmentPayload(@)]
    /\ UNCHANGED net

Shutdown(e) ==
    /\ Alive(e) /\ e \in Quitters
    /\ ep' = [ep EXCEPT ![e] = StartShutdown(@)]
    /\ UNCHANGED net

\* Everything one tick can do, over the times it can be called at.
TickResults(e) ==
    {TickResult(ep[e], now, outcome) :
        now \in Clock(ep[e]), outcome \in {"none"} \cup Faults}

\* One tick: what it sends is lost or joins what is under way.
Tick(e) ==
    /\ Alive(e)
    /\ \E r \in TickResults(e) :
          /\ r.t.sentNum <= MaxNum[e] \/ r.t.shutdown
          /\ ep' = [ep EXCEPT ![e] = r.t]
          /\ \/ UNCHANGED net
             \/ /\ Cardinality(net[Other(e)] \cup r.out) <= NetCap
                /\ net' = [net EXCEPT ![Other(e)] = @ \cup r.out]

\* A complete instruction arrives; a copy of it may stay under way.
Receive(e) ==
    /\ Alive(e)
    /\ \E m \in net[e], quiet \in BOOLEAN, copy \in BOOLEAN :
          /\ ep' = [ep EXCEPT ![e] = RecvResult(@, m, quiet).t]
          /\ net' = [net EXCEPT ![e] = IF copy THEN @ ELSE @ \ {m}]

Next ==
    \E e \in Endpoints :
        \/ Submit(e) \/ ShrinkFragments(e) \/ Shutdown(e)
        \/ Tick(e) \/ Receive(e)

Spec == Init /\ [][Next]_vars

-----------------------------------------------------------------------------
(***************************************************************************)
(* Properties.                                                             *)
(***************************************************************************)

\* The state an endpoint diffs against is one its peer still holds: no
\* order of late acknowledgements, retransmissions and throwaway watermarks
\* lets the peer discard it first.
KnownBaseHeld ==
    \A e \in Endpoints : ep[e].acked \in ep[Other(e)].received

\* The peer is never told to discard the base of a state that is still
\* queued, however old that base is ("Do not tell the peer to discard a base
\* still referenced by a queued state that has not reached it yet").
QueuedBaseKept ==
    \A e \in Endpoints : \A s \in ep[e].outbound :
        /\ ep[Other(e)].throw <= s.old
        /\ \A m \in net[Other(e)] : m.throw <= s.old

\* A state once accepted is not handed to the application again, not even
\* when its number was forgotten by a prune and the instruction that carried
\* it comes back.
NoStateTwice ==
    [][\A e \in Endpoints : \A n \in ep'[e].received \ ep[e].received :
           n > ep'[e].throw]_vars

\* Whoever sees its shutdown acknowledged has a peer that accepted the
\* shutdown state and recorded that it said so.
ShutdownAgreed ==
    \A e \in Endpoints :
        ShutdownAcknowledged(ep[e]) =>
            /\ ShutdownNum \in ep[Other(e)].received
            /\ ep[Other(e)].peerShutdownAcked
=============================================================================
