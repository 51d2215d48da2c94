----------------------------- MODULE LedgerBook -----------------------------
(***************************************************************************)
(* What the wallet repository promises, with no sessions, locks or         *)
(* rollbacks: one indivisible step per money movement, taken at most once  *)
(* per reference and only when every balance stays non-negative.           *)
(***************************************************************************)
EXTENDS LedgerEntries

VARIABLES
  wallet,   \* [Users -> Balance]: the balances (a missing row counts as zero)
  ledger    \* [Users -> Seq(Row)]: each wallet's rows in the order written

vars == <<wallet, ledger>>

Init ==
  /\ wallet = [u \in Users |-> Empty]
  /\ ledger = [u \in Users |-> << >>]

(* One apply_entry or apply_transfer that moves money. *)
Post(o) ==
  /\ HasNoRow(ledger, o)
  /\ Allowed(wallet, o)
  /\ wallet' = After(wallet, o)
  /\ ledger' = RecordedAll(ledger, wallet, o)

Next == \E o \in Operations : Post(o)

Spec == Init /\ [][Next]_vars

------------------------------------------------------------------------------
(***************************************************************************)
(* Both balances of every wallet are non-negative whole numbers of kobo    *)
(* (ck_wallet_available_non_negative, ck_wallet_escrow_non_negative).      *)
(***************************************************************************)
TypeOK == Typed(ledger, wallet)

(***************************************************************************)
(* Every balance is explained by the wallet's rows, in every state and not *)
(* only once everything has settled (wallet_repository.py:3-21).           *)
(***************************************************************************)
BalancesAccountedFor == AccountsFor(ledger, wallet)

(***************************************************************************)
(* No business event moves money twice: a reference has one row at most,   *)
(* in whosever wallet (ux_transaction_reference), and its row moves the    *)
(* amount the event stands for in the wallet the event names.              *)
(***************************************************************************)
EventsMoveMoneyOnce == Distinct(ledger) /\ Faithful(ledger)

(***************************************************************************)
(* Both legs of a transfer or neither are in the ledger: money is never in *)
(* nobody's wallet on its way (apply_transfer, one database transaction).  *)
(***************************************************************************)
TransfersWhole == Whole(ledger)
=============================================================================
