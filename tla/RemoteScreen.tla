---------------------------- MODULE RemoteScreen ----------------------------
(***************************************************************************)
(* The way of a screen from the server to the display: the link of         *)
(* SspLink, a server that queues its screens as host states, and the       *)
(* client's TerminalView, to which poll() (src/src/client.rs) hands every  *)
(* state the client's transport accepts.                                   *)
(*                                                                         *)
(* The server is external.  It cuts a new host state from any state it     *)
(* still has queued or knows acknowledged, never lets its queue overflow,  *)
(* and its echo acknowledgement names a user state it received.            *)
(***************************************************************************)
EXTENDS SspLink, TerminalView

CONSTANT Sizes         \* may a host state be too big: outcomes of the check

ASSUME SizesAssumption == Sizes \subseteq BOOLEAN

ASSUME DiffsAssumption == Diffs \subseteq HostDiff \cup {NoDiff} /\ NoDiff \notin HostDiff

VARIABLES
    view,              \* the client's TerminalView
    dead,              \* the client rejected a host state
    host               \* the server's host states: number -> HostState

screenVars == <<ep, net, view, dead, host>>

Nums == 0 .. ShutdownNum

\* No screen is ever garbled.
ScreenTypeOK ==
    /\ TypeOK
    /\ DOMAIN view.states \subseteq Nums
    /\ \A n \in DOMAIN view.states : view.states[n] \in HostState
    /\ view.latest \in Nums /\ view.displayed \in Screens /\ view.echo \in Nat
    /\ dead \in BOOLEAN
    /\ DOMAIN host \subseteq Nums
    /\ \A n \in DOMAIN host : host[n] \in HostState

ScreenInit ==
    /\ Init
    /\ view = NewView
    /\ dead = FALSE
    /\ host = [n \in {0} |-> BlankState]

-----------------------------------------------------------------------------

\* The server's host states, one more.
Hosting(n, state) ==
    [k \in DOMAIN host \cup {n} |-> IF k = n THEN state ELSE host[k]]

\* The server's state with the highest number.
Newest == host[ep[Server].sentNum]

\* The server draws, or learns that input was processed, and queues the
\* result against a state of its choice.
Draw ==
    /\ Alive(Server) /\ CanNumber(Server)
    /\ \E old \in {ep[Server].acked} \cup NumsOf(ep[Server].outbound),
          screen \in Screens, echo \in {Newest.echo, ep[Server].ackNum} :
          LET diff == [from |-> host[old].screen, to |-> screen, echo |-> echo] IN
          /\ echo >= Newest.echo
          /\ diff \in Diffs
          /\ ep' = [ep EXCEPT ![Server] = SetPendingFrom(@, old, diff)]
          /\ ~ep'[Server].overflowed
          /\ host' = Hosting(ep[Server].sentNum + 1, [screen |-> screen, echo |-> echo])
    /\ UNCHANGED <<net, view, dead>>

\* The state an empty one builds on.
Tip(t) == IF t.outbound = {} THEN t.acked ELSE Back(t.outbound).new

\* The server's tick.  An empty state it numbers shows what its base shows.
ServerTick ==
    /\ Tick(Server)
    /\ LET num == ep'[Server].sentNum IN
       host' = IF num \in DOMAIN host THEN host ELSE Hosting(num, host[Tip(ep[Server])])
    /\ UNCHANGED <<view, dead>>

ServerReceive == Receive(Server) /\ UNCHANGED <<view, dead, host>>

\* The client numbers the states that carry its acknowledgements; what the
\* user types into them is the matter of Session.
ClientTick == ~dead /\ Tick(Client) /\ UNCHANGED <<view, dead, host>>

\* poll(): an accepted host state is applied to the terminal at once; a
\* rejected one ends the client.
ClientReceive ==
    /\ ~dead /\ Alive(Client)
    /\ \E m \in net[Client], quiet \in BOOLEAN, copy \in BOOLEAN, oversized \in Sizes :
          LET r == RecvResult(ep[Client], m, quiet)
              a == ApplyHostState(view, m.old, m.new, r.t.throw, m.diff, oversized)
          IN  /\ ep' = [ep EXCEPT ![Client] = r.t]
              /\ net' = [net EXCEPT ![Client] = IF copy THEN @ ELSE @ \ {m}]
              /\ view' = IF r.accepted THEN a.v ELSE view
              /\ dead' = (r.accepted /\ a.rejected)
    /\ UNCHANGED host

ScreenNext ==
    \/ Draw \/ ServerTick \/ ServerReceive
    \/ ClientTick \/ ClientReceive

ScreenSpec == ScreenInit /\ [][ScreenNext]_screenVars

-----------------------------------------------------------------------------
(***************************************************************************)
(* Properties.                                                             *)
(***************************************************************************)

\* The terminal holds every state the transport lists as a possible base,
\* although each prunes by itself, so that a host state is never rejected
\* for its base and the session does not end over it.
ListedStatesHeld == ~dead => ep[Client].received \subseteq DOMAIN view.states

\* Whatever order host states arrive in and whatever bases they were cut
\* from, the client's snapshot of a state is the server's.
SnapshotsAreExact ==
    \A n \in DOMAIN view.states : n \in DOMAIN host /\ view.states[n] = host[n]

\* The display shows the state the client acknowledges as its newest, with
\* that state's echo acknowledgement.
DisplayIsNewest ==
    ~dead =>
        /\ view.latest = ep[Client].ackNum
        /\ view.latest \in DOMAIN host
        /\ view.displayed = host[view.latest].screen
        /\ view.echo = host[view.latest].echo

\* A late older state rewinds neither the screen nor the echo
\* acknowledgement ("must not rewind the user's display or late-ack
\* watermark").
NeverRewinds ==
    [][/\ view'.latest >= view.latest /\ view'.echo >= view.echo
       /\ view'.displayed # view.displayed => view'.latest > view.latest]_screenVars
=============================================================================
