--------------------------- MODULE MCRefreshTokens ---------------------------
(***************************************************************************)
(* Two workers and three tokens of one user, for TLC.                       *)
(***************************************************************************)
EXTENDS RefreshTokens
=============================================================================
