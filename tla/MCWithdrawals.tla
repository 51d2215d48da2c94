---------------------------- MODULE MCWithdrawals ----------------------------
(***************************************************************************)
(* Small instances of Withdrawals for TLC: user 1 has funded a wallet with *)
(* 2, withdraws 2 and may spend 1 elsewhere.                               *)
(***************************************************************************)
EXTENDS Withdrawals, TLC

CONSTANTS s1, s2

L(user, type, amount) == [user |-> user, type |-> type, amount |-> amount]

MCUsers == {1}

MCLegOf ==
  "dep" :> L(1, "deposit", 2) @@ "other" :> L(1, "escrow_lock", 1)
  @@ "wd" :> L(1, "withdrawal", 2) @@ "wdrev" :> L(1, "withdrawal_reversal", 2)

MCReferences == DOMAIN MCLegOf

MCDebit == <<"wd">>
MCReversal == <<"wdrev">>
MCOther == { <<"dep">>, <<"other">> }

MCOperations == { MCDebit, MCReversal } \cup MCOther

MCWorkers == {1, 2}

MCEvents == TransferEvents

MayHaveWallet == BOOLEAN

(* Whatever has become of the transfer when its POST breaks. *)
Anything == { "asked", "lost", "processing", "success", "failed", "reversed" }

EachItsOwn == s1 :> 1 @@ s2 :> 2
OneForBoth == s1 :> 1 @@ s2 :> 1
=============================================================================
