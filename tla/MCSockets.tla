----------------------------- MODULE MCSockets -----------------------------
(* Candidate addresses; the path to the second needs small datagrams.  With  *)
(* three of them and two sockets, the limit closes some before attachment.   *)
EXTENDS Sockets

CONSTANTS A, B, C

TwoHosts == <<A, B>>
ThreeHosts == <<A, B, C>>
SecondNarrow == {B}

=============================================================================
