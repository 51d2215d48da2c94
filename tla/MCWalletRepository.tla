------------------------- MODULE MCWalletRepository -------------------------
(***************************************************************************)
(* Small instances of WalletRepository for TLC.  Two people: 1 pays, 2 is  *)
(* paid.  The references are the ones the services build: a deposit, the   *)
(* escrow lock, release and refund of an agreement, a withdrawal and its   *)
(* reversal.                                                               *)
(***************************************************************************)
EXTENDS WalletRepository, TLC

CONSTANTS s1, s2

MCUsers == {1, 2}

L(user, type, amount) == [user |-> user, type |-> type, amount |-> amount]

MCLegOf ==
  "dep" :> L(1, "deposit", 2) @@ "dep2" :> L(2, "deposit", 1)
  @@ "lock" :> L(1, "escrow_lock", 1) @@ "lock2" :> L(2, "escrow_lock", 1)
  @@ "out" :> L(1, "escrow_release_out", 1) @@ "in" :> L(2, "escrow_release_in", 1)
  @@ "out2" :> L(2, "escrow_release_out", 1) @@ "in2" :> L(1, "escrow_release_in", 1)
  @@ "refund" :> L(1, "escrow_refund", 1)
  @@ "wd" :> L(1, "withdrawal", 1) @@ "wdrev" :> L(1, "withdrawal_reversal", 1)

MCReferences == DOMAIN MCLegOf

Deposit == <<"dep">>
Lock1 == <<"lock">>
Release == <<"out", "in">>
Refund == <<"refund">>
Lock2 == <<"lock2">>
Release2 == <<"out2", "in2">>
Withdrawal == <<"wd">>
Reversal == <<"wdrev">>

MCOperations ==
  { Deposit, Lock1, Release, Refund, <<"dep2">>, Lock2, Release2, Withdrawal, Reversal }

(* The services' own order; one deposit after the other, to keep the        *)
(* instance small; and the withdrawal last: a request that keeps its wallet *)
(* overwrites what another session moves on it meanwhile.                   *)
MCRequires ==
  { <<Lock1, Release>>, <<Lock1, Refund>>, <<Lock2, Release2>>,
    <<Deposit, <<"dep2">> >>,
    <<Release, Withdrawal>>, <<Release2, Withdrawal>>, <<Withdrawal, Reversal>> }

MCRiders == { Release, Refund }
MCFollowUps == { <<Withdrawal, Reversal>> }

NoneOpened == { {} }
=============================================================================
