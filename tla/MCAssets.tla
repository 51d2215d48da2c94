------------------------------ MODULE MCAssets ------------------------------
(***************************************************************************)
(* One request at a time on two assets, for TLC.                            *)
(***************************************************************************)
EXTENDS Assets
=============================================================================
