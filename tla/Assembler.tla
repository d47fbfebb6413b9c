----------------------------- MODULE Assembler -----------------------------
(***************************************************************************)
(* Cutting an instruction into fragments and putting it together again,    *)
(* src/src/fragment.rs.                                                    *)
(*                                                                         *)
(* An instruction is a range of bytes 0 .. size - 1; the payload of a      *)
(* fragment is the instruction it was cut from and the part of that range  *)
(* it carries.  What the bytes are (a compressed protocol buffer) is left  *)
(* out.                                                                    *)
(***************************************************************************)
EXTENDS Naturals

CONSTANT MaxInstruction    \* MAX_INSTRUCTION_BYTES

ASSUME InstructionAssumption == MaxInstruction \in Nat \ {0}

\* The bytes from .. to - 1 of instruction "of".
Payload == [of : Nat, from : Nat, to : Nat]

Fragment == [id : Nat, num : Nat, final : BOOLEAN, payload : Payload]

Bytes(p) == p.to - p.from

AtMost(a, b) == IF a < b THEN a ELSE b

-----------------------------------------------------------------------------

\* Faulty: the rest that does not fill a fragment is forgotten.
WholeFragments(size, max) == IF size < max THEN 1 ELSE size \div max

\* size.div_ceil(max); one empty fragment for no bytes.
FragmentCount(size, max) == IF size = 0 THEN 1 ELSE (size + (max - 1)) \div max

\* Fragment i of an instruction.
Cut(id, i, size, max) ==
    [id |-> id, num |-> i, final |-> i + 1 = FragmentCount(size, max),
     payload |-> [of |-> id, from |-> i * max, to |-> AtMost((i + 1) * max, size)]]

\* fragmentize_with_payload
Fragments(id, size, max) ==
    {Cut(id, i, size, max) : i \in 0 .. FragmentCount(size, max) - 1}

-----------------------------------------------------------------------------

\* slots holds the filled entries of "fragments"; total is total_num, 0 for
\* None.
NewAssembler == [has |-> FALSE, id |-> 0, slots |-> <<>>, total |-> 0, size |-> 0]

Cleared(a) == [a EXCEPT !.slots = <<>>, !.total = 0, !.size = 0]

\* Faulty: goes on filling the slots of another instruction.
KeepSlots(a, f) == [a EXCEPT !.has = TRUE, !.id = f.id]

\* A fragment of another instruction starts afresh.
SwitchTo(a, f) ==
    IF a.has /\ a.id = f.id THEN a
    ELSE [Cleared(a) EXCEPT !.has = TRUE, !.id = f.id]

\* Faulty: counts a repeated fragment once more.
CountAlways(a, f) == a.size + Bytes(f.payload)

\* A slot is counted when it is first filled.
Counted(a, f) ==
    IF f.num \in DOMAIN a.slots THEN a.size ELSE a.size + Bytes(f.payload)

Fill(a, f) ==
    [a EXCEPT !.slots = [i \in DOMAIN @ \cup {f.num} |->
                            IF i = f.num THEN f.payload ELSE a.slots[i]],
              !.size = Counted(a, f),
              !.total = IF f.final THEN f.num + 1 ELSE @]

\* Faulty: waits for one fragment more.
CompleteOneLate(a) == a.total # 0 /\ 0 .. a.total \subseteq DOMAIN a.slots

Complete(a) == a.total # 0 /\ 0 .. a.total - 1 \subseteq DOMAIN a.slots

\* Assembler::add: the assembler afterwards, and the message if f completes
\* one.  A message is the payloads in the order of their fragments.
Add(a, f) ==
    LET s == SwitchTo(a, f)
        b == Fill(s, f)
    IN  IF f.num \notin DOMAIN s.slots /\ Counted(s, f) > MaxInstruction
        THEN [a |-> Cleared(s), out |-> {}]
        ELSE IF Complete(b)
        THEN [a |-> Cleared(b), out |-> {[i \in 0 .. b.total - 1 |-> b.slots[i]]}]
        ELSE [a |-> b, out |-> {}]
=============================================================================
