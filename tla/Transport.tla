----------------------------- MODULE Transport -----------------------------
(***************************************************************************)
(* The State Synchronization Protocol endpoint of src/src/transport.rs.    *)
(*                                                                         *)
(* A Transport is a record; each method that changes it is an operator     *)
(* from the record before the call to the record after it, because the     *)
(* client calls several methods in one uninterrupted turn.  The clock is   *)
(* not state: a method that compares timestamps takes the outcome of the   *)
(* comparison as an argument, so every timing is covered.                  *)
(*                                                                         *)
(* outbound_states is a queue in the code; numbers only enter it in        *)
(* increasing order, so a set ordered by the state number is the same      *)
(* queue: the front is the smallest, the back the largest, and the entry   *)
(* at index i is the one with i predecessors.  sent_state_times is a       *)
(* sequence: a state sent again after its entry was culled enters anew.    *)
(***************************************************************************)
EXTENDS Naturals, Sequences, FiniteSets, FiniteSetsExt

CONSTANTS
    SentStateCap,      \* SENT_STATE_CAP: length at which both queues cull
    CullKeep,          \* the 16 of "len() - 16": newest entries a cull spares
    ReceivedStateCap,  \* RECEIVED_STATE_CAP: window before the quench
    ShutdownRetries,   \* SHUTDOWN_RETRIES
    ShutdownNum,       \* u64::MAX, the number of the shutdown state
    NoDiff             \* the empty diff

ASSUME CapAssumption ==
    /\ SentStateCap \in Nat /\ CullKeep \in 2 .. SentStateCap
    /\ ReceivedStateCap \in Nat /\ ShutdownRetries \in Nat
    /\ ShutdownNum \in Nat \ {0}

-----------------------------------------------------------------------------
(***************************************************************************)
(* The record.                                                             *)
(***************************************************************************)

\* A queued state: its base, its number, its payload and whether it was
\* ever put on the wire (last_sent is Some).
OutboundState(Diff) == [old : Nat, new : Nat, diff : Diff, sent : BOOLEAN]

\* What an instruction carries besides the application's diff.
Instruction(Diff) == [old : Nat, new : Nat, diff : Diff, ack : Nat, throw : Nat]

TransportState(Diff) ==
    [sentNum : 0 .. ShutdownNum, acked : Nat, outbound : SUBSET OutboundState(Diff),
     sentTimes : Seq(Nat), overflowed : BOOLEAN, rebase : BOOLEAN,
     pacing : BOOLEAN, immediate : BOOLEAN, ackPending : BOOLEAN,
     localThrow : Nat, received : SUBSET Nat, ackNum : Nat, sentAck : Nat,
     throw : Nat, quenched : BOOLEAN, attached : BOOLEAN, force : BOOLEAN,
     shutdown : BOOLEAN, tries : 0 .. ShutdownRetries, peerShutdownAcked : BOOLEAN,
     fault : {"none", "too_large", "exhausted"}]

\* Transport::new; only a client paces its new states.
NewTransport(isServer) ==
    [sentNum |-> 0, acked |-> 0, outbound |-> {},
     sentTimes |-> <<0>>, overflowed |-> FALSE, rebase |-> FALSE,
     pacing |-> ~isServer, immediate |-> TRUE, ackPending |-> FALSE,
     localThrow |-> 0, received |-> {0}, ackNum |-> 0, sentAck |-> 0,
     throw |-> 0, quenched |-> FALSE, attached |-> FALSE, force |-> FALSE,
     shutdown |-> FALSE, tries |-> 0, peerShutdownAcked |-> FALSE,
     fault |-> "none"]

-----------------------------------------------------------------------------
(***************************************************************************)
(* Queues as ordered sets.                                                 *)
(***************************************************************************)

\* The state at the back of a queue.
Back(Q) == CHOOSE s \in Q : \A r \in Q : r.new <= s.new

\* The numbers a queue of numbers N keeps: one past the cap, the entry with
\* CullKeep - 1 successors is removed from the middle.
Kept(N) ==
    IF Cardinality(N) <= SentStateCap THEN N
    ELSE {n \in N : Cardinality({k \in N : k < n}) # Cardinality(N) - CullKeep}

NumsOf(Q) == {s.new : s \in Q}

Listed(times) == {times[i] : i \in DOMAIN times}

\* record_sent_state_time, culled in the middle like the queue of states.
Recorded(times, num) ==
    LET all == Append(times, num)
        cut == Len(all) - CullKeep
    IN  IF num \in Listed(times) THEN times
        ELSE IF Len(all) <= SentStateCap THEN all
        ELSE SubSeq(all, 1, cut) \o SubSeq(all, cut + 2, Len(all))

\* process_roundtrip_ack: the entries before an acknowledged one are drained.
Drained(times, ack) ==
    IF ack \in Listed(times)
    THEN SubSeq(times, CHOOSE i \in DOMAIN times : times[i] = ack, Len(times))
    ELSE times

-----------------------------------------------------------------------------
(***************************************************************************)
(* Queueing a new local state.                                             *)
(***************************************************************************)

\* set_pending_from: a no-op once shutdown began; an unknown base falls back
\* to the acknowledged one; overflow removes a state from the middle.
SetPendingFrom(t, old, diff) ==
    LET base  == IF old \in {t.acked} \cup NumsOf(t.outbound) THEN old ELSE t.acked
        new   == t.sentNum + 1
        queue == t.outbound \cup
                   {[old |-> base, new |-> new, diff |-> diff, sent |-> FALSE]}
        kept  == Kept(NumsOf(queue))
    IN  IF t.shutdown THEN t
        ELSE [t EXCEPT !.sentNum = new,
                       !.outbound = {s \in queue : s.new \in kept},
                       !.overflowed = @ \/ Cardinality(queue) > SentStateCap]

\* The leading run of the queue whose states were all sent less than
\* rto + ACK_DELAY ago; "fresh" is the set of such numbers.  The last of
\* the run is prospective_base_num, which is None when there is no run.
ProspectiveRun(t, fresh) ==
    {n \in NumsOf(t.outbound) :
        \A s \in t.outbound : s.new <= n => s.sent /\ s.new \in fresh}

\* Faulty: a broken chain goes unnoticed.
ChainNeverExpires(t, fresh) == FALSE

\* prospective_chain_expired: the newest state builds on one that is neither
\* acknowledged nor inside the run the peer may still be assumed to get.
ProspectiveChainExpired(t, fresh) ==
    /\ t.outbound # {}
    /\ Back(t.outbound).old # t.acked
    /\ \A n \in ProspectiveRun(t, fresh) : n < Back(t.outbound).old

\* take_rebase_required
TakeRebase(t) == [t EXCEPT !.rebase = FALSE]

\* force_next_send
ForceNextSend(t) == [t EXCEPT !.force = TRUE]

\* set_max_fragment_payload: every queued state must go out again.
SetMaxFragmentPayload(t) ==
    [t EXCEPT !.outbound = {[s EXCEPT !.sent = FALSE] : s \in @}, !.force = TRUE]

-----------------------------------------------------------------------------
(***************************************************************************)
(* Shutdown.                                                               *)
(***************************************************************************)

StartShutdown(t) ==
    IF t.shutdown THEN t ELSE [t EXCEPT !.shutdown = TRUE, !.force = TRUE]

\* Faulty: takes any acknowledgement of the last state for it.
LastStateAcknowledged(t) == t.shutdown /\ t.acked = t.sentNum

ShutdownAcknowledged(t) == t.shutdown /\ t.acked = ShutdownNum

\* Faulty: one attempt too many.
ShutdownTimedOutLate(t, expired) ==
    t.shutdown /\ (t.tries > ShutdownRetries \/ expired)

\* "expired": ACTIVE_RETRY_TIMEOUT has passed since shutdown began.
ShutdownTimedOut(t, expired) ==
    t.shutdown /\ (t.tries >= ShutdownRetries \/ expired)

-----------------------------------------------------------------------------
(***************************************************************************)
(* Sending: tick().  "now" holds the outcomes of tick's time comparisons:  *)
(*   interval  send_interval has passed since last_send                    *)
(*   idle      HEARTBEAT_INTERVAL has passed since last_send               *)
(*   ackDelay  ACK_DELAY has passed since pending_ack_since                *)
(*   expired   ACTIVE_RETRY_TIMEOUT has passed since shutdown_started      *)
(*   overdue   the number of the last sent state whose retransmission      *)
(*             time has passed, 0 when there is none                       *)
(***************************************************************************)

\* The readings possible for t: shutdown_started and pending_ack_since are
\* only set when there is something to time.  In shutdown neither delayed
\* acknowledgements nor retransmissions are looked at any more.
Clock(t) ==
    {c \in [interval : BOOLEAN, idle : BOOLEAN, ackDelay : BOOLEAN,
            expired : BOOLEAN, overdue : {0} \cup NumsOf(t.outbound)] :
        /\ c.idle => c.interval
        /\ c.ackDelay => t.ackPending
        /\ IF t.shutdown THEN ~c.ackDelay /\ c.overdue = 0 ELSE ~c.expired}

\* Only the newest state that was never sent is worth sending.
DropSuperseded(t) ==
    [t EXCEPT !.outbound =
        {s \in @ : s.sent \/ \A r \in t.outbound : ~r.sent => r.new <= s.new}]

Unsent(t) == {s \in t.outbound : ~s.sent}

\* Faulty: a sent state is never sent again.
NeverOverdue(t, now) == {}

Overdue(t, now) == {s \in t.outbound : s.sent /\ s.new = now.overdue}

UnsentDue(t, now) ==
    Unsent(t) # {} /\ (~t.pacing \/ t.immediate \/ now.interval)

AckDue(t, now) ==
    \/ t.ackPending /\ now.ackDelay
    \/ t.ackNum > t.sentAck /\ (now.idle \/ t.ackNum = ShutdownNum)

ShutdownDue(t, now) ==
    /\ t.shutdown
    /\ ~ShutdownAcknowledged(t)
    /\ ~ShutdownTimedOut(t, now.expired)
    /\ t.force \/ now.interval

SendDue(t, now) ==
    IF t.shutdown THEN ShutdownDue(t, now)
    ELSE \/ UnsentDue(t, now)
         \/ AckDue(t, now)
         \/ Overdue(t, now) # {}
         \/ t.outbound = {} /\ now.idle
         \/ t.force

\* The queued state this tick puts on the wire, if any.
Candidates(t, now) ==
    IF UnsentDue(t, now) \/ (Unsent(t) # {} /\ (AckDue(t, now) \/ t.force))
    THEN Unsent(t) ELSE Overdue(t, now)

\* Faulty: forgets the bases of queued states.
ThrowawayAcked(t) == t.localThrow

\* The peer must keep every base a queued state still refers to.
Throwaway(t) == Min({t.localThrow} \cup {s.old : s \in t.outbound})

\* The tail of tick(): the instruction <<old, new, diff>> leaves with the
\* latest acknowledgement.  outcome "too_large" fails before encryption and
\* "exhausted" during it; neither produces a datagram.
Transmit(t, old, new, diff, outcome) ==
    [t |-> [t EXCEPT !.force = FALSE, !.ackPending = FALSE,
                     !.sentAck = t.ackNum,
                     !.peerShutdownAcked = @ \/ t.ackNum = ShutdownNum,
                     !.fault = outcome,
                     !.sentTimes = IF outcome = "none" THEN Recorded(@, new) ELSE @],
     out |-> IF outcome = "none"
             THEN {[old |-> old, new |-> new, diff |-> diff,
                    ack |-> t.ackNum, throw |-> Throwaway(t)]}
             ELSE {}]

\* A state of the queue, now sent (again).
TransmitQueued(t, s, outcome) ==
    Transmit([t EXCEPT !.outbound = (@ \ {s}) \cup {[s EXCEPT !.sent = TRUE]},
                       !.immediate = @ /\ s.sent],
             s.old, s.new, s.diff, outcome)

\* Faulty: the empty state builds on the acknowledged one.
TransmitEmptyOnAcked(t, outcome) ==
    LET new == IF t.sentNum = ShutdownNum THEN ShutdownNum ELSE t.sentNum + 1
    IN  Transmit([t EXCEPT !.sentNum = new], t.acked, new, NoDiff, outcome)

\* An acknowledgement or heartbeat: an empty state with a number of its own.
TransmitEmpty(t, outcome) ==
    LET tip == IF t.outbound = {} THEN t.acked ELSE Back(t.outbound).new
        new == IF t.sentNum = ShutdownNum THEN ShutdownNum ELSE t.sentNum + 1
    IN  Transmit([t EXCEPT !.sentNum = new], tip, new, NoDiff, outcome)

\* Faulty: the shutdown state carries no input.
TransmitShutdownEmpty(t, outcome) ==
    Transmit([t EXCEPT !.sentNum = ShutdownNum, !.tries = @ + 1],
             t.acked, ShutdownNum, NoDiff, outcome)

\* The newest queued state once more, renumbered as the shutdown state.
TransmitShutdown(t, outcome) ==
    LET closing == [t EXCEPT !.sentNum = ShutdownNum, !.tries = @ + 1]
    IN  IF t.outbound = {}
        THEN Transmit(closing, t.acked, ShutdownNum, NoDiff, outcome)
        ELSE Transmit(closing, Back(t.outbound).old, ShutdownNum,
                      Back(t.outbound).diff, outcome)

\* tick(): the transport afterwards and the instructions sent (none or one).
TickResult(t, now, outcome) ==
    LET d == DropSuperseded(t)
    IN  IF ~SendDue(d, now) THEN [t |-> d, out |-> {}]
        ELSE IF d.shutdown THEN TransmitShutdown(d, outcome)
        ELSE IF Candidates(d, now) # {}
             THEN TransmitQueued(d, Back(Candidates(d, now)), outcome)
        ELSE TransmitEmpty(d, outcome)

-----------------------------------------------------------------------------
(***************************************************************************)
(* Receiving a complete instruction: recv_state_with_congestion() after    *)
(* decryption and reassembly.                                              *)
(***************************************************************************)

\* process_roundtrip_ack and the acknowledgement half.
ProcessAck(t, ack) ==
    LET known  == ack \in Listed(t.sentTimes)
        heard  == [t EXCEPT !.sentTimes = Drained(@, ack)]
        left   == {s \in t.outbound : s.new > ack}
        usable == {s \in left : s.old >= ack}
    IN  IF ~(known /\ ack > t.acked /\ ack <= t.sentNum) THEN heard
        ELSE [heard EXCEPT !.acked = ack,
                           !.localThrow = ack,
                           !.immediate = @ \/ left = {},
                           !.outbound = IF t.overflowed THEN usable ELSE left,
                           !.rebase = IF t.overflowed THEN usable # left ELSE @,
                           !.overflowed = FALSE]

\* Faulty: discards the watermark's own state.
PruneBase(t, throw) ==
    IF throw > t.throw
    THEN [t EXCEPT !.throw = throw, !.received = {n \in @ : n > throw}]
    ELSE t

\* The peer's throwaway watermark, honoured before the quench is decided.
Prune(t, throw) ==
    IF throw > t.throw
    THEN [t EXCEPT !.throw = throw, !.received = {n \in @ : n >= throw}]
    ELSE t

\* Faulty: any new number will do.
AcceptableIfNew(t, m) == m.new \notin t.received

Acceptable(t, m) == m.new \notin t.received /\ m.old \in t.received

\* "quiet": the quench deadline, if one is set, has not passed yet.
Quenched(t, quiet) ==
    Cardinality(t.received) > ReceivedStateCap /\ t.quenched /\ quiet

\* The new remote state enters the window.
Accept(t, m) ==
    [t EXCEPT !.quenched = @ \/ Cardinality(t.received) > ReceivedStateCap,
              !.received = @ \cup {m.new},
              !.attached = TRUE,
              !.ackNum = IF m.new > @ THEN m.new ELSE @,
              !.ackPending = @ \/ m.diff # NoDiff \/ m.new = ShutdownNum]

\* The transport afterwards, and whether the state goes to the application.
RecvResult(t, m, quiet) ==
    LET a == ProcessAck(t, m.ack)
        p == Prune(a, m.throw)
    IN  IF ~Acceptable(a, m) THEN [t |-> a, accepted |-> FALSE]
        ELSE IF Quenched(p, quiet) THEN [t |-> p, accepted |-> FALSE]
        ELSE [t |-> Accept(p, m), accepted |-> TRUE]
=============================================================================
