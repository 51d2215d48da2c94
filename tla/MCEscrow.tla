------------------------------ MODULE MCEscrow ------------------------------
(***************************************************************************)
(* Small instances of Escrow for TLC.  User 1 deposits, user 2 is paid;    *)
(* "other" is the escrow of another agreement of user 1, whose money a     *)
(* second payout of this one would spend.                                  *)
(***************************************************************************)
EXTENDS Escrow, TLC

CONSTANTS s1, s2, c1, c2, d1, d2

L(user, type, amount) == [user |-> user, type |-> type, amount |-> amount]

MCUsers == {1, 2}

MCLegOf ==
  "dep" :> L(1, "deposit", 2) @@ "other" :> L(1, "escrow_lock", 1)
  @@ "lock" :> L(1, "escrow_lock", 1) @@ "refund" :> L(1, "escrow_refund", 1)
  @@ "out" :> L(1, "escrow_release_out", 1) @@ "in" :> L(2, "escrow_release_in", 1)

MCReferences == DOMAIN MCLegOf

MCLock == <<"lock">>
MCRelease == <<"out", "in">>
MCRefund == <<"refund">>
MCOther == { <<"dep">>, <<"other">> }

MCOperations == { MCLock, MCRelease, MCRefund } \cup MCOther

EveryRequest ==
  { "accept", "reject", "cancel", "add", "decide", "fund", "release", "refund",
    "dispute", "review", "resolve" }

OnlyDeposits == { <<"dep">> }

HasWallet == { TRUE }
MayHaveWallet == BOOLEAN

Symmetry == Permutations(Sessions)
=============================================================================
