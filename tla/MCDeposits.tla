------------------------------ MODULE MCDeposits ------------------------------
(***************************************************************************)
(* A small instance of Deposits for TLC: one customer, with a wallet or    *)
(* without, who asks to pay 2 and pays 0, 1, 2 or 3, the charge reported   *)
(* under two dedupe keys.                                                  *)
(***************************************************************************)
EXTENDS Deposits, TLC

MCUsers == {1}
MCPayments == { "p" }
MCCharges == {0, 1, 2, 3}
MCRequested == "p" :> 2
MCPayerOf == "p" :> 1

MayHaveWallet == BOOLEAN

MCReferences == MCPayments \X MCCharges
MCLegOf == [r \in MCReferences |-> [user |-> 1, type |-> "deposit", amount |-> r[2]]]
MCOperations == { << r >> : r \in MCReferences }
MCDepositOf == [p \in MCPayments |-> [a \in MCCharges |-> << <<p, a>> >>]]

MCEvents == { "charge", "charge by reference" }
MCPaymentOf == [e \in MCEvents |-> "p"]
=============================================================================
