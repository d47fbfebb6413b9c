--------------------------- MODULE MCRemoteScreen ---------------------------
(***************************************************************************)
(* Small instances of RemoteScreen for TLC.                                *)
(***************************************************************************)
EXTENDS RemoteScreen, TLC

CONSTANTS MaxClientNum, MaxServerNum

MCMaxNum == Client :> MaxClientNum @@ Server :> MaxServerNum

\* The diffs of a server whose screens are Screens and whose client numbers
\* at most MaxClientNum states.
MCDiffs == {NoDiff} \cup [from : Screens, to : Screens, echo : 0 .. MaxClientNum]
=============================================================================
