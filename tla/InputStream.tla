---------------------------- MODULE InputStream ----------------------------
(***************************************************************************)
(* What a session promises about user input, whatever the network does: a  *)
(* reliable ordered stream.  The server sees the user's actions in the     *)
(* order they were made, each once, none missing in between; what it has   *)
(* seen it never loses again.                                              *)
(***************************************************************************)
EXTENDS Naturals, Sequences

CONSTANT Actions       \* what a user can do: keystroke batches, resizes

VARIABLES
    typed,             \* everything the user did, in order
    seen               \* how much of it the server's latest state holds

\* Both are sequences of actions.
TypeOK == typed \in Seq(Actions) /\ seen \in Seq(Actions)

Init == typed \in {<<a>> : a \in Actions} /\ seen = << >>

\* The user acts.
Act == \E a \in Actions : typed' = Append(typed, a) /\ UNCHANGED seen

\* The server advances to a longer prefix of the input.
Advance ==
    /\ \E n \in Len(seen) .. Len(typed) : seen' = SubSeq(typed, 1, n)
    /\ UNCHANGED typed

Next == Act \/ Advance

Spec == Init /\ [][Next]_<<typed, seen>>
=============================================================================
