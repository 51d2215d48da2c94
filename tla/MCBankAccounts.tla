--------------------------- MODULE MCBankAccounts ---------------------------
(***************************************************************************)
(* Two requests on up to three accounts with two numbers, for TLC.         *)
(***************************************************************************)
EXTENDS BankAccounts, TLC

Interchangeable == Permutations(Sessions) \cup Permutations(Numbers)
=============================================================================
