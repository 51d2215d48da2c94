-------------------------- MODULE MCAgreementCache --------------------------
(***************************************************************************)
(* Two requests at a time on one agreement, for TLC.                       *)
(***************************************************************************)
EXTENDS AgreementCache, TLC

SessionSymmetry == Permutations(Sessions)
=============================================================================
