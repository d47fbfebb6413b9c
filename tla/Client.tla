------------------------------- MODULE Client -------------------------------
(***************************************************************************)
(* The session client of src/src/client.rs above its Transport: the log of *)
(* user actions the server has not acknowledged, how a new state is cut    *)
(* from that log, and the steps of flush_ticks(), which process_acks(),    *)
(* set_pending_from() and tick() share without interruption.               *)
(*                                                                         *)
(* An action (a keystroke batch or a resize) is an opaque value; a diff is *)
(* the sequence of actions it encodes.  How many bytes it encodes to is    *)
(* known only as the outcome of the size comparisons made with it.         *)
(* Sockets are left out: they decide only whether a datagram is lost.      *)
(***************************************************************************)
EXTENDS Transport, Sequences

\* An empty sequence of actions encodes to no bytes.
ASSUME NoDiffAssumption == NoDiff = << >>

(***************************************************************************)
(* The record: t the transport; actions, ackedCount, lastAcked, dirty and  *)
(* dead as in the code; counts the entries of sent_action_counts; known is *)
(* force_known_receiver_base; initial is initial_timeout_shutdown.         *)
(***************************************************************************)
ClientState(Action) ==
    [t : TransportState(Seq(Action)), actions : Seq(Action), ackedCount : Nat,
     lastAcked : Nat, counts : SUBSET [state : Nat, count : Nat],
     dirty : BOOLEAN, known : BOOLEAN, initial : BOOLEAN, dead : BOOLEAN]

\* dial_candidates_with_size up to its first flush: the first action is the
\* terminal's size and the first tick is forced.
Dialled(resize) ==
    [t |-> ForceNextSend(NewTransport(FALSE)), actions |-> <<resize>>,
     ackedCount |-> 0, lastAcked |-> 0, counts |-> {}, dirty |-> TRUE,
     known |-> FALSE, initial |-> FALSE, dead |-> FALSE]

\* send_keys and resize.
SendAction(c, action) ==
    IF c.dead THEN c
    ELSE [c EXCEPT !.actions = Append(@, action), !.dirty = TRUE]

-----------------------------------------------------------------------------

\* The log from position n on (actions[n..]).
From(log, n) == SubSeq(log, n + 1, Len(log))

\* A broken chain of optimistic bases, or a queue cut by an overflow, makes
\* the next state start from the acknowledged one.
ForceKnownBase(c, fresh) ==
    LET broken == c.t.rebase \/ ProspectiveChainExpired(c.t, fresh)
    IN  [c EXCEPT !.t = TakeRebase(@),
                  !.known = @ \/ broken,
                  !.dirty = @ \/ (broken /\ c.actions # << >>)]

\* Faulty: counts what was only sent.
CoveredBySent(c) == {k \in c.counts : k.state <= c.t.sentNum}

\* The log positions the acknowledged state is known to cover.
Covered(c) == {k \in c.counts : k.state <= c.t.acked}

\* Actions the acknowledged state contains leave the log.
ReleaseAcked(c) ==
    LET acked == c.t.acked
        upTo   == Max({c.ackedCount} \cup {k.count : k \in Covered(c)})
        later  == {k \in c.counts : k.state > acked}
    IN  IF acked <= c.lastAcked THEN c
        ELSE IF upTo = 0 \/ upTo > Len(c.actions)
             THEN [c EXCEPT !.lastAcked = acked, !.counts = later,
                            !.ackedCount = upTo]
        ELSE [c EXCEPT !.lastAcked = acked,
                       !.counts = {[k EXCEPT !.count = IF @ > upTo THEN @ - upTo ELSE 0] :
                                     k \in later},
                       !.actions = From(@, upTo),
                       !.ackedCount = 0]

\* Faulty: the acknowledgement does not shorten the log.
KeepAcked(c, fresh) == ForceKnownBase(c, fresh)

ProcessAcks(c, fresh) == ReleaseAcked(ForceKnownBase(c, fresh))

\* The optimistic base: the newest state the peer may be assumed to get, if
\* the log position it stands for was recorded and lies in the log.
ProspectiveBases(c, fresh) ==
    LET run == ProspectiveRun(c.t, fresh)
    IN  {k \in c.counts : run # {} /\ k.state = Max(run) /\ k.count <= Len(c.actions)}

\* A new state of the whole log: cut from the acknowledged state, or from
\* the optimistic base when that saves enough bytes ("saves"; it never does
\* when the base holds no action the other cut would repeat).
QueueInput(c, fresh, saves) ==
    LET bases == IF c.known \/ ~saves THEN {}
                 ELSE {k \in ProspectiveBases(c, fresh) : k.count > c.ackedCount}
        old   == IF bases = {} THEN c.t.acked ELSE Max({k.state : k \in bases})
        cut   == IF bases = {} THEN c.ackedCount
                 ELSE (CHOOSE k \in bases : k.state = old).count
        t     == SetPendingFrom(c.t, old, From(c.actions, cut))
    IN  IF ~c.dirty THEN c
        ELSE IF From(c.actions, c.ackedCount) = NoDiff THEN [c EXCEPT !.dirty = FALSE]
        ELSE [c EXCEPT !.dirty = FALSE, !.known = FALSE, !.t = t,
                       !.counts = @ \cup {[state |-> t.sentNum, count |-> Len(c.actions)]}]

\* The rest of flush_ticks: tick(), and a socket that refuses a datagram for
\* its size ("refused").  A failed tick ends the client.
TickAndSend(c, now, outcome, refused) ==
    LET r == TickResult(c.t, now, outcome)
    IN  [c   |-> [c EXCEPT !.t = IF refused /\ r.out # {}
                                 THEN SetMaxFragmentPayload(r.t) ELSE r.t,
                           !.dead = r.t.fault # "none"],
         out |-> r.out]

\* The clock readings of one flush: which queued states are fresh, and
\* tick's.  Only the leading run of fresh states counts; an overdue state is
\* not fresh.
Readings(c) ==
    LET N == NumsOf(c.t.outbound)
        Runs == {{n \in N : n <= k} : k \in {0} \cup N}
    IN  {at \in [fresh : Runs, now : Clock(c.t)] : at.now.overdue \notin at.fresh}

\* flush_ticks(): the client afterwards and the instruction it sent, if any.
FlushTicks(c, at, saves, outcome, refused) ==
    IF c.dead THEN [c |-> c, out |-> {}]
    ELSE TickAndSend(QueueInput(ProcessAcks(c, at.fresh), at.fresh, saves),
                     at.now, outcome, refused)
=============================================================================
