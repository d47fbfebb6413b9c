----------------------------- MODULE MCSspLink -----------------------------
(***************************************************************************)
(* Small instances of SspLink for TLC.                                     *)
(***************************************************************************)
EXTENDS SspLink, TLC

CONSTANTS MaxClientNum, MaxServerNum

MCMaxNum == Client :> MaxClientNum @@ Server :> MaxServerNum
=============================================================================
