------------------------------ MODULE MCAndix ------------------------------
(***************************************************************************)
(* Instances of Andix for TLC.                                             *)
(***************************************************************************)
EXTENDS AndixInv

CONSTANTS ta1, ta2

OneTrustlet == <<ta1>>
TwoTrustlets == <<ta1, ta2>>
=============================================================================
