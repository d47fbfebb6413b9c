---------------------------- MODULE DatagramPath ----------------------------
(***************************************************************************)
(* One direction of a session below the instructions of SspLink: the       *)
(* sender cuts instructions into datagrams, the path delivers them in any  *)
(* order, any number of times or never, and the receiver refuses replays,  *)
(* keeps the newest timestamp and assembles (src/src/transport.rs and      *)
(* src/src/fragment.rs).                                                   *)
(*                                                                         *)
(* Every datagram stays on the wire: one that is never opened was lost,    *)
(* one opened again is a replay.  Datagrams are authentic; each carries    *)
(* its own timestamp, named by its sequence number.                        *)
(***************************************************************************)
EXTENDS Assembler, Sequences, SequencesExt, FiniteSets

CONSTANTS
    Payloads,          \* the values max_fragment_payload may take
    SeenCap,           \* SEEN_SEQ_CAP
    MaxSent,           \* bound: instructions sent
    MaxOpened          \* bound: datagrams opened

ASSUME PathAssumption ==
    /\ Payloads \subseteq Nat \ {0} /\ Payloads # {}
    /\ SeenCap \in Nat \ {0} /\ MaxSent \in Nat /\ MaxOpened \in Nat

VARIABLES
    sizes,             \* the size of every instruction sent, by id
    nextSeq,           \* the next packet sequence number
    payload,           \* max_fragment_payload
    wire,              \* every datagram sealed
    seen,              \* seen_seq_order
    expected,          \* expected_receiver_seq
    ts,                \* last_ts: the datagram it came with, 0 for None
    echoed,            \* the timestamp echoed last
    asm,               \* the receiver's assembler
    got,               \* the messages assembled
    opened             \* the datagrams opened, in order

pathVars ==
    <<sizes, nextSeq, payload, wire, seen, expected, ts, echoed, asm, got, opened>>

Datagram == [seq : Nat, fragment : Fragment]

\* What is under way and assembled keeps its type; the replay memory keeps
\* within its limit (Transport::remember_seq).
PathTypeOK ==
    /\ sizes \in Seq(1 .. MaxInstruction) /\ nextSeq \in Nat \ {0}
    /\ payload \in Payloads
    /\ wire \subseteq Datagram
    /\ seen \in Seq(Nat) /\ Len(seen) <= SeenCap
    /\ expected \in Nat /\ ts \in Nat /\ echoed \in Nat
    /\ asm.has \in BOOLEAN /\ asm.id \in Nat /\ asm.total \in Nat /\ asm.size \in Nat
    /\ \A i \in DOMAIN asm.slots : i \in Nat /\ asm.slots[i] \in Payload

PathInit ==
    /\ sizes = <<>> /\ nextSeq = 1 /\ payload \in Payloads /\ wire = {}
    /\ seen = <<>> /\ expected = 0 /\ ts = 0 /\ echoed = 0
    /\ asm = NewAssembler /\ got = {} /\ opened = <<>>

-----------------------------------------------------------------------------

\* Faulty: an instruction cut anew keeps the id it had.
SameId == IF sizes = <<>> THEN 1 ELSE Len(sizes)

\* instruction_id of the next instruction.
NextId == Len(sizes) + 1

\* The end of tick(): the instruction's fragments are sealed in order.
Send ==
    /\ Len(sizes) < MaxSent
    /\ \E size \in 1 .. MaxInstruction :
          /\ sizes' = Append(sizes, size)
          /\ wire' = wire \cup
                {[seq |-> nextSeq + f.num, fragment |-> f] :
                    f \in Fragments(NextId, size, payload)}
          /\ nextSeq' = nextSeq + FragmentCount(size, payload)
    /\ UNCHANGED <<payload, seen, expected, ts, echoed, asm, got, opened>>

\* set_max_fragment_payload, as seen from the path.
Shrink ==
    /\ payload' \in {p \in Payloads : p < payload}
    /\ UNCHANGED <<sizes, nextSeq, wire, seen, expected, ts, echoed, asm, got, opened>>

\* Faulty: forgets the newest when the memory is full.
RememberOldest(memory, seq) == IF Len(memory) < SeenCap THEN Append(memory, seq) ELSE memory

\* Faulty: remembers one more than the cap.
RememberOneMore(memory, seq) ==
    LET longer == Append(memory, seq)
    IN  IF Len(memory) > SeenCap THEN Tail(longer) ELSE longer

\* remember_seq
Remember(memory, seq) ==
    LET longer == Append(memory, seq)
    IN  IF Len(longer) > SeenCap THEN Tail(longer) ELSE longer

\* Faulty: takes the timestamp of any datagram.
AnyOrder(seq) == TRUE

\* in_order: late datagrams carry no news about the round trip.
InOrder(seq) == seq >= expected

\* The part of recv_state_with_congestion that opens one datagram.
Open ==
    /\ Len(opened) < MaxOpened
    /\ \E d \in wire :
          /\ d.seq \notin ToSet(seen)
          /\ seen' = Remember(seen, d.seq)
          /\ opened' = Append(opened, d.seq)
          /\ IF InOrder(d.seq)
             THEN expected' = d.seq + 1 /\ ts' = d.seq
             ELSE UNCHANGED <<expected, ts>>
          /\ LET r == Add(asm, d.fragment)
             IN  asm' = r.a /\ got' = got \cup r.out
    /\ UNCHANGED <<sizes, nextSeq, payload, wire, echoed>>

\* encrypt_fragment in the receiver's own tick: the timestamp held is echoed
\* if it is recent and forgotten either way.
Echo ==
    /\ ts # 0
    /\ echoed' \in {echoed, ts} /\ ts' = 0
    /\ UNCHANGED <<sizes, nextSeq, payload, wire, seen, expected, asm, got, opened>>

PathNext == Send \/ Shrink \/ Open \/ Echo

PathSpec == PathInit /\ [][PathNext]_pathVars

-----------------------------------------------------------------------------
(***************************************************************************)
(* Properties.                                                             *)
(***************************************************************************)

\* A message reads, from its first byte to its last, like one instruction
\* that was sent: nothing of another one, no hole, nothing cut off.
AssembledIsSent ==
    \A g \in got : \E id \in DOMAIN sizes, last \in DOMAIN g :
        /\ \A i \in DOMAIN g : i <= last /\ g[i].of = id
        /\ g[0].from = 0 /\ g[last].to = sizes[id]
        /\ \A i \in DOMAIN g : i < last => g[i].to = g[i + 1].from

\* The assembler never sits on an instruction all of whose fragments it has,
\* in whatever order they came.
CompleteIsDelivered ==
    asm.has => \E d \in wire : d.fragment.id = asm.id /\ d.fragment.num \notin DOMAIN asm.slots

\* What is counted against the limit is what is held, so an instruction of
\* legal size is not thrown away because its fragments are repeated.
SizeIsHeld ==
    asm.size = FoldSet(LAMBDA i, sum : Bytes(asm.slots[i]) + sum, 0, DOMAIN asm.slots)

\* A datagram is opened again only after SEEN_SEQ_CAP others.
ReplaysAreOld ==
    \A i, j \in DOMAIN opened : i < j /\ opened[i] = opened[j] => j - i > SeenCap

\* Timestamps are echoed in the order they were sent in, each at most once:
\* neither reordering nor a replay makes an old one measure a round trip.
EchoesMoveForward ==
    [][ts' # 0 /\ ts' # ts => ts' > ts /\ ts' > echoed]_pathVars
=============================================================================
