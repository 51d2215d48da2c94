---------------------------- MODULE LedgerEntries ----------------------------
(***************************************************************************)
(* The vocabulary of the ledger: which money movements exist, what one     *)
(* ledger row does to a wallet, and what an operation (one row, or the two *)
(* rows of a transfer) does to all wallets.  Pure operators, no state: the *)
(* abstract book (LedgerBook) and the database sessions that keep it       *)
(* (WalletRepository) both use them.                                       *)
(*                                                                         *)
(* A reference names a business event ("esc_lock_<agreement>",             *)
(* "dep_<paystack reference>", ...), and the event fixes whose wallet      *)
(* moves, in which way and by how much: LegOf is that assignment.  Amounts *)
(* are in kobo, so they are whole numbers.                                 *)
(***************************************************************************)
EXTENDS Integers, Sequences

CONSTANTS
  Users,        \* wallet owners, numbered in the ascending order of wallet.id
  References,   \* values of transaction.reference
  LegOf,        \* what the row with a reference does
  Operations    \* calls of apply_entry (<<r>>) and apply_transfer (<<out, in>>)

LedgerEntryType ==
  { "deposit", "escrow_lock", "escrow_release_out", "escrow_release_in",
    "escrow_refund", "withdrawal", "withdrawal_reversal",
    "adjustment_credit", "adjustment_debit" }

Leg == [user : Users, type : LedgerEntryType, amount : Nat]

RefsOf(o) == { o[i] : i \in DOMAIN o }

UsersOf(o) == { LegOf[r].user : r \in RefsOf(o) }

(***************************************************************************)
(* The references of different operations are different, as are the two    *)
(* legs of a transfer (":out" and ":in" suffixes).                         *)
(***************************************************************************)
ASSUME LedgerEntriesAssumption ==
  /\ Users \subseteq Nat
  /\ LegOf \in [References -> Leg]
  /\ Operations \subseteq Seq(References)
  /\ \A o \in Operations : Len(o) = 1 \/ (Len(o) = 2 /\ o[1] # o[2])
  /\ \A o, p \in Operations : o # p => RefsOf(o) \cap RefsOf(p) = {}

------------------------------------------------------------------------------
(* _LEDGER_EFFECTS: the sign each type gives its amount, per bucket. *)

AvailableSign(t) ==
  IF t \in { "deposit", "escrow_release_in", "escrow_refund",
             "withdrawal_reversal", "adjustment_credit" } THEN 1
  ELSE IF t \in { "escrow_lock", "withdrawal", "adjustment_debit" } THEN -1
  ELSE 0

EscrowSign(t) ==
  IF t = "escrow_lock" THEN 1
  ELSE IF t \in { "escrow_release_out", "escrow_refund" } THEN -1
  ELSE 0

AvailableDelta(r) == LegOf[r].amount * AvailableSign(LegOf[r].type)

EscrowDelta(r) == LegOf[r].amount * EscrowSign(LegOf[r].type)

------------------------------------------------------------------------------
(* Balances and rows. *)

Balance == [available : Nat, escrow : Nat]

Empty == [available |-> 0, escrow |-> 0]

Row == [reference : References, available_delta : Int, escrow_delta : Int,
        balance_after : Nat, escrow_after : Nat]

(* The balance a leg leaves behind, possibly negative: the caller refuses it. *)
Moved(b, r) == [available |-> b.available + AvailableDelta(r),
                escrow    |-> b.escrow + EscrowDelta(r)]

(* Mutant of LegAllowed: the escrow bucket is not looked at. *)
LegAllowedIgnoringEscrow(b, r) ==
  LegOf[r].amount > 0 /\ Moved(b, r).available >= 0

(* Mutant of LegAllowed: the available bucket is not looked at. *)
LegAllowedIgnoringAvailable(b, r) ==
  LegOf[r].amount > 0 /\ Moved(b, r).escrow >= 0

(* The refusals of _apply_ledger_entry: amount <= 0, then each bucket. *)
LegAllowed(b, r) ==
  /\ LegOf[r].amount > 0
  /\ Moved(b, r).available >= 0
  /\ Moved(b, r).escrow >= 0

AfterLeg(w, r) == [w EXCEPT ![LegOf[r].user] = Moved(@, r)]

RowOf(w, r) ==
  LET b == Moved(w[LegOf[r].user], r) IN
  [reference |-> r,
   available_delta |-> AvailableDelta(r), escrow_delta |-> EscrowDelta(r),
   balance_after |-> b.available, escrow_after |-> b.escrow]

Recorded(l, w, r) == [l EXCEPT ![LegOf[r].user] = Append(@, RowOf(w, r))]

(***************************************************************************)
(* A whole operation: its legs are applied in order, the second one to     *)
(* what the first one left (which matters when both legs are of one user). *)
(***************************************************************************)
Allowed(w, o) ==
  /\ LegAllowed(w[LegOf[o[1]].user], o[1])
  /\ Len(o) = 2 => LegAllowed(AfterLeg(w, o[1])[LegOf[o[2]].user], o[2])

After(w, o) ==
  IF Len(o) = 1 THEN AfterLeg(w, o[1]) ELSE AfterLeg(AfterLeg(w, o[1]), o[2])

(* Mutant of RecordedAll: a transfer writes only its debit row. *)
RecordedDebitOnly(l, w, o) == Recorded(l, w, o[1])

RecordedAll(l, w, o) ==
  IF Len(o) = 1
  THEN Recorded(l, w, o[1])
  ELSE Recorded(Recorded(l, w, o[1]), AfterLeg(w, o[1]), o[2])

(* ux_transaction_reference: is there a row with this reference, of anyone? *)
HasRow(l, r) == \E u \in Users : \E i \in DOMAIN l[u] : l[u][i].reference = r

HasRows(l, o) == \A r \in RefsOf(o) : HasRow(l, r)

HasNoRow(l, o) == \A r \in RefsOf(o) : ~HasRow(l, r)

------------------------------------------------------------------------------
(* What is true of balances w and ledger l that are kept properly. *)

Typed(l, w) ==
  /\ w \in [Users -> Balance]
  /\ l \in [Users -> Seq(Row)]

(***************************************************************************)
(* The invariant of wallet_repository.py, in the form the columns          *)
(* balance_after and escrow_after record it: each row takes the balance    *)
(* the row before it left by exactly its deltas, and the wallet stands     *)
(* where its last row left it.                                             *)
(***************************************************************************)
LeftBy(rows, i) ==
  IF i = 0 THEN Empty
  ELSE [available |-> rows[i].balance_after, escrow |-> rows[i].escrow_after]

Chained(rows) ==
  \A i \in 1 .. Len(rows) :
    /\ rows[i].balance_after = LeftBy(rows, i - 1).available + rows[i].available_delta
    /\ rows[i].escrow_after = LeftBy(rows, i - 1).escrow + rows[i].escrow_delta

AccountsFor(l, w) ==
  \A u \in Users : Chained(l[u]) /\ w[u] = LeftBy(l[u], Len(l[u]))

(***************************************************************************)
(* The same invariant as the docstring's query states it: each balance is  *)
(* SUM(available_delta), or SUM(escrow_delta), over the wallet's rows.     *)
(***************************************************************************)
SumOf(deltas) ==
  LET sum[i \in 0 .. Len(deltas)] == IF i = 0 THEN 0 ELSE sum[i - 1] + deltas[i]
  IN sum[Len(deltas)]

SumsUp(l, w) ==
  \A u \in Users :
    /\ w[u].available = SumOf([i \in 1 .. Len(l[u]) |-> l[u][i].available_delta])
    /\ w[u].escrow = SumOf([i \in 1 .. Len(l[u]) |-> l[u][i].escrow_delta])

(* A reference has one row at most, in whosever wallet it is. *)
Distinct(l) ==
  \A u, v \in Users : \A i \in DOMAIN l[u], j \in DOMAIN l[v] :
    l[u][i].reference = l[v][j].reference => u = v /\ i = j

(***************************************************************************)
(* A row belongs to the wallet its business event names and moves exactly  *)
(* the amount, in the direction, that the event stands for.                *)
(***************************************************************************)
Faithful(l) ==
  \A u \in Users : \A i \in DOMAIN l[u] :
    LET row == l[u][i] IN
    /\ LegOf[row.reference].user = u
    /\ LegOf[row.reference].amount > 0
    /\ row.available_delta = AvailableDelta(row.reference)
    /\ row.escrow_delta = EscrowDelta(row.reference)

(* Both rows of a transfer or neither. *)
Whole(l) == \A o \in Operations : HasRows(l, o) \/ HasNoRow(l, o)

Sound(l, w) ==
  /\ Typed(l, w)
  /\ AccountsFor(l, w)
  /\ Distinct(l)
  /\ Faithful(l)
=============================================================================
