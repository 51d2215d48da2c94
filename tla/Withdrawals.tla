----------------------------- MODULE Withdrawals -----------------------------
(***************************************************************************)
(* One withdrawal: its paystack_transaction row, its debit in the ledger,  *)
(* the transfer at the payment provider, and everything that settles it:   *)
(* the request itself (WalletService.request_withdrawal), a status read    *)
(* that asks the provider (get_withdrawal) and the transfer webhooks       *)
(* (PaystackWebhookService).                                               *)
(*                                                                         *)
(* The handlers are coroutines of a worker's event loop over a synchronous *)
(* database session: what lies between two awaits is one action, except    *)
(* that several commits are several actions.  The webhook handler for      *)
(* transfer.success awaits the provider with the row locked; a statement   *)
(* that waits for that lock stops the whole event loop of its worker.      *)
(* Money moves by the abstract book of LedgerBook.                         *)
(*                                                                         *)
(* The intent and the debit are one commit for a user who has a wallet.    *)
(* For a user who has none, ensure_wallet commits the intent, and the      *)
(* debit is another commit, or is refused.                                 *)
(***************************************************************************)
EXTENDS LedgerEntries, WebhookInbox

CONSTANTS
  Sessions,        \* concurrent requests' sessions
  Workers,         \* processes of the server
  Worker,          \* which of them runs each session
  Nobody,          \* owner of a free row lock
  Debit, Reversal, \* wd_ and wdrev_ of this withdrawal
  OtherOperations, \* money movements of the user's other business
  InitiallyHasWallet, \* may the user have a wallet row to begin with?
  BrokenAfter,     \* what may have become of a transfer whose POST ends in a 5xx,
                   \* a broken connection or an unreadable body
  RedeliversEarly, \* may an event be sent again while it is being handled?
  MaxOutages,      \* bound: failing verify_transfer calls
  MaxRestarts      \* bound: workers dying

TransferEvents == { "transfer.success", "transfer.failed", "transfer.reversed" }

ASSUME WithdrawalsAssumption ==
  /\ Events = TransferEvents
  /\ Worker \in [Sessions -> Workers]
  /\ Nobody \notin Sessions
  /\ { Debit, Reversal } \cup OtherOperations \subseteq Operations
  /\ Debit # Reversal /\ { Debit, Reversal } \cap OtherOperations = {}
  /\ InitiallyHasWallet \subseteq BOOLEAN
  /\ BrokenAfter \subseteq { "asked", "lost", "processing", "success", "failed", "reversed" }
  /\ RedeliversEarly \in BOOLEAN
  /\ MaxOutages \in Nat /\ MaxRestarts \in Nat

VARIABLES
  wallet, ledger,     \* the book
  hasWallet,          \* does the user have a wallet row?
  transaction,        \* paystack_transaction.status
  entry,              \* status of the wd_ ledger row
  lock,               \* row lock on paystack_transaction
  transfer,           \* the provider's record of the transfer
  pc, call, seen,     \* each session: what it does next, for which event, the
                      \* provider's last answer to it
  frozen,             \* sessions waiting for the lock, their event loop with them
  outages, restarts,  \* counted against the bounds
  doubtful            \* history: a POST that ended in an error has been taken for
                      \* a refusal, though the transfer had or may have arrived

book == <<wallet, ledger>>
inboxes == <<inbox, owed>>
row == <<transaction, entry>>
control == <<pc, call, seen>>
faults == <<outages, restarts, doubtful>>
vars == <<wallet, ledger, hasWallet, inbox, owed, transaction, entry, lock, transfer,
          pc, call, seen, frozen, outages, restarts, doubtful>>

Book == INSTANCE LedgerBook WITH wallet <- wallet, ledger <- ledger

TransactionStatus == { "none", "pending", "success", "failed", "refunded" }

NoCall == "none"

Init ==
  /\ Book!Init
  /\ hasWallet \in InitiallyHasWallet
  /\ InboxInit
  /\ transaction = "none"
  /\ entry = "none"
  /\ lock = Nobody
  /\ transfer = "none"
  /\ pc = [s \in Sessions |-> "idle"]
  /\ call = [s \in Sessions |-> NoCall]
  /\ seen = [s \in Sessions |-> "nothing"]
  /\ frozen = {}
  /\ outages = 0
  /\ restarts = 0
  /\ doubtful = FALSE

------------------------------------------------------------------------------
(* The event loop and the row lock. *)

(* No statement of another coroutine keeps the session's event loop busy. *)
Runs(s) == \A t \in frozen : Worker[t] = Worker[s] => t = s

Goto(s, label) ==
  /\ pc' = [pc EXCEPT ![s] = label]
  /\ UNCHANGED <<call, seen>>

Finish(s) ==
  /\ pc' = [pc EXCEPT ![s] = "idle"]
  /\ call' = [call EXCEPT ![s] = NoCall]
  /\ seen' = [seen EXCEPT ![s] = "nothing"]

(* What starts with SELECT ... FOR UPDATE or an UPDATE of the row. *)
NeedsLock == { "record", "reverse", "settle", "handle" }

(* The statement waits, and whatever else its event loop has to do. *)
Wait(s) ==
  /\ Runs(s)
  /\ pc[s] \in NeedsLock
  /\ lock # Nobody
  /\ frozen' = frozen \cup {s}
  /\ UNCHANGED <<book, hasWallet, inboxes, row, lock, transfer, control, faults>>

(* The statement has the row: it is free, and everything up to the next     *)
(* commit or await belongs to this step.                                    *)
Locked(s, label) ==
  /\ pc[s] = label
  /\ Runs(s)
  /\ lock = Nobody
  /\ frozen' = frozen \ {s}

------------------------------------------------------------------------------
(* The provider. *)

Sent == { "processing", "success", "failed", "reversed" }

(* The POST arrives and is accepted, is refused, or never arrives. *)
Receive ==
  /\ transfer = "asked"
  /\ transfer' \in { "processing", "refused", "lost" }
  /\ UNCHANGED <<book, hasWallet, inboxes, row, lock, control, frozen, faults>>

(* The bank's verdict; a transfer that succeeded may still come back. *)
Conclude ==
  /\ \/ transfer = "processing" /\ transfer' \in { "success", "failed" }
     \/ transfer = "success" /\ transfer' = "reversed"
  /\ owed' = owed \cup { CASE transfer' = "success"  -> "transfer.success"
                           [] transfer' = "failed"   -> "transfer.failed"
                           [] transfer' = "reversed" -> "transfer.reversed" }
  /\ UNCHANGED <<book, hasWallet, inbox, row, lock, control, frozen, faults>>

(* verify_transfer: an unknown reference and an outage are PaystackErrors. *)
Hear(s, next) ==
  /\ Runs(s)
  /\ \/ /\ seen' = [seen EXCEPT ![s] = IF transfer \in Sent THEN transfer ELSE "error"]
        /\ UNCHANGED outages
     \/ /\ outages < MaxOutages
        /\ seen' = [seen EXCEPT ![s] = "error"]
        /\ outages' = outages + 1
  /\ pc' = [pc EXCEPT ![s] = next]
  /\ UNCHANGED <<book, hasWallet, inboxes, row, lock, transfer, call, frozen>>
  /\ UNCHANGED <<restarts, doubtful>>

------------------------------------------------------------------------------
(* POST /wallet/withdraw. *)

(* Mutant of RequestWithdrawal: the transfer is sent before the debit. *)
RequestBeforeDebit(s) ==
  /\ pc[s] = "idle" /\ Runs(s)
  /\ transaction = "none"
  /\ transaction' = "pending" /\ entry' = "pending"
  /\ transfer' = "asked"
  /\ Goto(s, "sent")
  /\ UNCHANGED <<book, hasWallet, inboxes, lock, frozen, faults>>

(* The intent and the debit in one commit; without the money, neither. *)
RequestWithdrawal(s) ==
  /\ pc[s] = "idle" /\ Runs(s)
  /\ transaction = "none"
  /\ hasWallet
  /\ Book!Post(Debit)
  /\ transaction' = "pending" /\ entry' = "pending"
  /\ Goto(s, "post")
  /\ UNCHANGED <<hasWallet, inboxes, lock, transfer, frozen, faults>>

(* apply_entry finds no wallet, and ensure_wallet commits the intent.  A    *)
(* wallet that appears before that commit changes nothing.                  *)
EnsureWallet(s) ==
  /\ pc[s] = "idle" /\ Runs(s)
  /\ transaction = "none"
  /\ ~hasWallet /\ hasWallet' = TRUE
  /\ transaction' = "pending"
  /\ Goto(s, "debit")
  /\ UNCHANGED <<book, inboxes, entry, lock, transfer, frozen, faults>>

(* There is money only if it has come in since. *)
DebitNewWallet(s) ==
  /\ pc[s] = "debit" /\ Runs(s)
  /\ Book!Post(Debit)
  /\ entry' = "pending"
  /\ Goto(s, "post")
  /\ UNCHANGED <<hasWallet, inboxes, transaction, lock, transfer, frozen, faults>>

(* The intent stays behind, pending. *)
RefuseDebit(s) ==
  /\ pc[s] = "debit" /\ Runs(s)
  /\ ~Allowed(wallet, Debit)
  /\ Finish(s)
  /\ UNCHANGED <<book, hasWallet, inboxes, row, lock, transfer, frozen, faults>>

(* initiate_transfer sends its one POST (retries=0). *)
InitiateTransfer(s) ==
  /\ pc[s] = "post" /\ Runs(s)
  /\ transfer' = "asked"
  /\ Goto(s, "sent")
  /\ UNCHANGED <<book, hasWallet, inboxes, row, lock, frozen, faults>>

(* Mutant of HearOutcome: a timeout is taken for a refusal. *)
TimeoutIsRefusal(s) ==
  /\ pc[s] = "sent" /\ Runs(s)
  /\ \/ transfer \in Sent /\ Goto(s, "record")
     \/ Goto(s, "reverse")
  /\ UNCHANGED <<book, hasWallet, inboxes, row, lock, transfer, frozen, faults>>

Unpaid == { "refused", "lost", "failed", "reversed" }

(* Accepted; or a timeout, whatever has become of the transfer, which is    *)
(* left to the webhook; or refused, and any other error, which is reversed. *)
HearOutcome(s) ==
  /\ pc[s] = "sent" /\ Runs(s)
  /\ \/ transfer \in Sent /\ Goto(s, "record") /\ UNCHANGED doubtful
     \/ Finish(s) /\ UNCHANGED doubtful
     \/ /\ transfer \in { "refused" } \cup BrokenAfter
        /\ doubtful' = (doubtful \/ transfer \notin Unpaid)
        /\ Goto(s, "reverse")
  /\ UNCHANGED <<book, hasWallet, inboxes, row, lock, transfer, frozen, outages, restarts>>

(* The transfer's code is saved: an UPDATE of the row, which may wait for   *)
(* a webhook that has it.                                                   *)
RecordTransfer(s) ==
  /\ Locked(s, "record")
  /\ Finish(s)
  /\ UNCHANGED <<book, hasWallet, inboxes, row, lock, transfer, faults>>

Returned == HasRows(ledger, Reversal)

(* Mutant of GiveBack: the status is committed and the credit is not. *)
GiveBackLater(status) ==
  /\ transaction' = status /\ entry' = "reversed"
  /\ UNCHANGED book

(* The status, the row's status and the credit in one commit. *)
GiveBack(status) ==
  /\ Book!Post(Reversal)
  /\ transaction' = status /\ entry' = "reversed"

(* _reverse_withdrawal.  A replayed credit commits nothing, so the flushed  *)
(* statuses are rolled back when the request ends.                          *)
ReverseWithdrawal(s) ==
  /\ Locked(s, "reverse")
  /\ \/ ~Returned /\ GiveBack("failed")
     \/ Returned /\ UNCHANGED <<book, row>>
  /\ Finish(s)
  /\ UNCHANGED <<hasWallet, inboxes, lock, transfer, faults>>

------------------------------------------------------------------------------
(* GET /wallet/withdrawals/{reference}. *)

(* A plain read of the row; only a pending one is reconciled. *)
ReadStatus(s) ==
  /\ pc[s] = "idle" /\ Runs(s)
  /\ transaction = "pending"
  /\ Goto(s, "poll")
  /\ UNCHANGED <<book, hasWallet, inboxes, row, lock, transfer, frozen, faults>>

HearPoll(s) == pc[s] = "poll" /\ Hear(s, "polled")

(* Mutant of Reconcile: still on its way counts as failed. *)
ReconcileUnfinished(s) ==
  /\ pc[s] = "polled" /\ Runs(s)
  /\ CASE seen[s] = "success" -> Goto(s, "settle")
       [] seen[s] \in { "failed", "reversed", "processing" } -> Goto(s, "reverse")
       [] OTHER -> Finish(s)
  /\ UNCHANGED <<book, hasWallet, inboxes, row, lock, transfer, frozen, faults>>

(* _reconcile_pending_withdrawal resumes with the provider's answer. *)
Reconcile(s) ==
  /\ pc[s] = "polled" /\ Runs(s)
  /\ CASE seen[s] = "success" -> Goto(s, "settle")
       [] seen[s] \in { "failed", "reversed" } -> Goto(s, "reverse")
       [] OTHER -> Finish(s)
  /\ UNCHANGED <<book, hasWallet, inboxes, row, lock, transfer, frozen, faults>>

(* Written whatever the row has become since it was read. *)
Settle(s) ==
  /\ Locked(s, "settle")
  /\ transaction' = "success" /\ entry' = "completed"
  /\ Finish(s)
  /\ UNCHANGED <<book, hasWallet, inboxes, lock, transfer, faults>>

------------------------------------------------------------------------------
(* POST /wallet/webhook/paystack. *)

(* An event is claimed for handling, or is a duplicate and acknowledged. *)
Deliver(s, e) ==
  /\ pc[s] = "idle" /\ Runs(s)
  /\ e \in owed
  /\ RedeliversEarly \/ \A t \in Sessions : call[t] # e
  /\ \/ /\ Claimable(e)
        /\ Claim(e)
        /\ pc' = [pc EXCEPT ![s] = "handle"]
        /\ call' = [call EXCEPT ![s] = e]
        /\ UNCHANGED <<owed, seen>>
     \/ ~Claimable(e) /\ Acknowledge(e) /\ UNCHANGED <<inbox, control>>
  /\ UNCHANGED <<book, hasWallet, row, lock, transfer, frozen, faults>>

(* Mutant of Awaited: a transfer that succeeded is settled for good. *)
AwaitedWhilePending(e) == transaction = "pending"

(* The statuses from which an event still changes the row. *)
Awaited(e) ==
  \/ transaction = "pending"
  \/ transaction = "success" /\ e = "transfer.reversed"

(* _handle_transfer_success locks the row and, holding it, asks. *)
HandleSuccess(s) ==
  /\ Locked(s, "handle")
  /\ call[s] = "transfer.success" /\ Awaited(call[s])
  /\ lock' = s
  /\ Goto(s, "verify")
  /\ UNCHANGED <<book, hasWallet, inboxes, row, transfer, faults>>

Verdict(e) == IF e = "transfer.failed" THEN "failed" ELSE "refunded"

(* _handle_transfer_reversal; the credit's commit comes before mark's. *)
HandleReversal(s) ==
  /\ Locked(s, "handle")
  /\ call[s] # "transfer.success" /\ Awaited(call[s])
  /\ ~Returned
  /\ GiveBack(Verdict(call[s]))
  /\ Goto(s, "mark")
  /\ UNCHANGED <<hasWallet, inboxes, lock, transfer, faults>>

(* The credit is there already: mark's commit makes the statuses durable. *)
HandleReplay(s) ==
  /\ Locked(s, "handle")
  /\ call[s] # "transfer.success" /\ Awaited(call[s])
  /\ Returned
  /\ transaction' = Verdict(call[s]) /\ entry' = "reversed"
  /\ Processed(call[s])
  /\ Finish(s)
  /\ UNCHANGED <<book, hasWallet, lock, transfer, faults>>

(* already_processed. *)
HandleNothing(s) ==
  /\ Locked(s, "handle")
  /\ ~Awaited(call[s])
  /\ Processed(call[s])
  /\ Finish(s)
  /\ UNCHANGED <<book, hasWallet, row, lock, transfer, faults>>

HearVerify(s) == pc[s] = "verify" /\ Hear(s, "verified")

(* verify_failed rolls back and asks for another delivery; not_verified is  *)
(* acknowledged.  Both end the transaction that holds the lock.             *)
NotVerified(s) ==
  /\ pc[s] = "verified" /\ Runs(s)
  /\ seen[s] # "success"
  /\ IF seen[s] = "error" THEN Failed(call[s]) ELSE Processed(call[s])
  /\ lock' = Nobody
  /\ Finish(s)
  /\ UNCHANGED <<book, hasWallet, row, transfer, frozen, faults>>

Verified(s) ==
  /\ pc[s] = "verified" /\ Runs(s)
  /\ seen[s] = "success"
  /\ transaction' = "success" /\ entry' = "completed"
  /\ lock' = Nobody
  /\ Goto(s, "mark")
  /\ UNCHANGED <<book, hasWallet, inboxes, transfer, frozen, faults>>

Mark(s) ==
  /\ pc[s] = "mark" /\ Runs(s)
  /\ Processed(call[s])
  /\ Finish(s)
  /\ UNCHANGED <<book, hasWallet, row, lock, transfer, frozen, faults>>

------------------------------------------------------------------------------
(* A worker dies, with its requests and their transactions. *)
Restart(w) ==
  /\ restarts < MaxRestarts
  /\ restarts' = restarts + 1
  /\ LET dead(s) == Worker[s] = w IN
     /\ pc' = [s \in Sessions |-> IF dead(s) THEN "idle" ELSE pc[s]]
     /\ call' = [s \in Sessions |-> IF dead(s) THEN NoCall ELSE call[s]]
     /\ seen' = [s \in Sessions |-> IF dead(s) THEN "nothing" ELSE seen[s]]
     /\ frozen' = { s \in frozen : ~dead(s) }
     /\ lock' = IF lock # Nobody /\ dead(lock) THEN Nobody ELSE lock
  /\ UNCHANGED <<book, hasWallet, inboxes, row, transfer, outages, doubtful>>

(* A wallet is made when its owner first looks at it: GET /wallet/balance,  *)
(* or the wallet's socket.                                                  *)
OpenWallet ==
  /\ ~hasWallet /\ hasWallet' = TRUE
  /\ UNCHANGED <<book, inboxes, row, lock, transfer, control, frozen, faults>>

(* The user's money elsewhere, which opens the wallet too. *)
OtherMoney(o) ==
  /\ Book!Post(o)
  /\ hasWallet' = TRUE
  /\ UNCHANGED <<inboxes, row, lock, transfer, control, frozen, faults>>

(* What a handler does once it has started. *)
Proceed(s) ==
  \/ Wait(s)
  \/ DebitNewWallet(s) \/ RefuseDebit(s)
  \/ InitiateTransfer(s) \/ HearOutcome(s) \/ RecordTransfer(s) \/ ReverseWithdrawal(s)
  \/ HearPoll(s) \/ Reconcile(s) \/ Settle(s)
  \/ HandleSuccess(s) \/ HandleReversal(s) \/ HandleReplay(s) \/ HandleNothing(s)
  \/ HearVerify(s) \/ NotVerified(s) \/ Verified(s) \/ Mark(s)

Next ==
  \/ Receive \/ Conclude
  \/ \E s \in Sessions :
       \/ RequestWithdrawal(s) \/ EnsureWallet(s) \/ ReadStatus(s) \/ Proceed(s)
       \/ \E e \in Events : Deliver(s, e)
  \/ \E w \in Workers : Restart(w)
  \/ OpenWallet
  \/ \E o \in OtherOperations : OtherMoney(o)

Spec == Init /\ [][Next]_vars

(* A started handler runs on, and the provider sends an event until it is   *)
(* answered.  Nobody need withdraw, look, or fund a wallet; the bank need   *)
(* not decide.                                                              *)
Fairness ==
  /\ \A s \in Sessions : WF_vars(Proceed(s))
  /\ \A e \in Events : SF_vars(\E s \in Sessions : Deliver(s, e))

FairSpec == Spec /\ Fairness

(* The user goes on looking. *)
LookingSpec == FairSpec /\ SF_vars(\E s \in Sessions : ReadStatus(s))

------------------------------------------------------------------------------
TypeOK ==
  /\ Typed(ledger, wallet)
  /\ InboxTyped
  /\ transaction \in TransactionStatus
  /\ entry \in { "none", "pending", "completed", "reversed" }
  /\ lock \in Sessions \cup { Nobody }
  /\ transfer \in { "none", "asked", "refused", "lost" } \cup Sent
  /\ hasWallet \in BOOLEAN
  /\ pc \in [Sessions -> { "idle", "debit", "post", "sent", "record", "reverse", "poll",
                           "polled", "settle", "handle", "verify", "verified", "mark" }]
  /\ call \in [Sessions -> Events \cup { NoCall }]
  /\ seen \in [Sessions -> Sent \cup { "nothing", "error" }]
  /\ frozen \subseteq Sessions
  /\ outages \in 0 .. MaxOutages /\ restarts \in 0 .. MaxRestarts
  /\ doubtful \in BOOLEAN

(***************************************************************************)
(* "Definitively rejected, so nothing left our account. Safe to reverse"   *)
(* (wallet_service.py:356): the debit is only given back when the provider *)
(* has refused or never got the transfer, or the bank has failed or        *)
(* reversed it.  The one exception is what that comment overlooks: a POST  *)
(* that ends in a 5xx, a broken connection or an unreadable body after the *)
(* provider has it, or before (paystack_client.py:166-190).                *)
(***************************************************************************)
ReturnedOnlyIfUnpaid == Returned => transfer \in Unpaid \/ doubtful

(***************************************************************************)
(* "Never initiate a transfer for money that has not already been removed  *)
(* from the spendable balance" (wallet_service.py:279-281), nor credit a   *)
(* reversal without a debit (paystack_webhook_service.py:419-420), for a   *)
(* user without a wallet either, whose intent is committed before it.      *)
(***************************************************************************)
DebitedFirst == transfer # "none" \/ Returned => HasRows(ledger, Debit)

(***************************************************************************)
(* A withdrawal that the user is told has failed is one whose money is     *)
(* back: three writers of the status race here, one of them from a stale   *)
(* read (docs/websockets.md:70-71).                                        *)
(***************************************************************************)
FailedMeansReturned == transaction \in { "failed", "refunded" } => Returned

(***************************************************************************)
(* "A reversal can legitimately arrive after a success; a plain failure    *)
(* cannot" (paystack_webhook_service.py:400-401): nobody, a status read    *)
(* that asked too early included, takes a success back unless the bank     *)
(* has reversed the transfer, or an error has been taken for a refusal.    *)
(***************************************************************************)
SuccessKept ==
  [][ transaction = "success" /\ transaction' # "success"
        => transfer = "reversed" \/ doubtful ]_vars

(***************************************************************************)
(* "The final outcome arrives by webhook" (routers/wallet.py:117):         *)
(* what the bank decides is what the row ends up saying, through           *)
(* redeliveries, outages of verify_transfer and status reads in between,   *)
(* unless a worker has died, an event has used up its attempts, or an      *)
(* error has been taken for a refusal and the bank has paid all the same.  *)
(***************************************************************************)
Settled ==
  /\ transfer = "success" => transaction = "success" \/ doubtful
  /\ transfer \in { "failed", "reversed" } => Returned

GivenUp(e) == inbox[e].status = "failed" /\ inbox[e].attempts = MaxAttempts

OutcomeArrives ==
  transfer \in { "success", "failed", "reversed" }
    ~> Settled \/ restarts > 0 \/ \E e \in Events : GivenUp(e)

(***************************************************************************)
(* "Best effort: a failure here must not break the status read"            *)
(* (wallet_service.py:470): a status read is answered.  It is not when a   *)
(* coroutine of its worker waits for a row lock that another coroutine of  *)
(* that worker holds: sessions that share a worker break this.             *)
(***************************************************************************)
StatusReadAnswered ==
  \A s \in Sessions : pc[s] = "poll" ~> pc[s] = "idle"

(***************************************************************************)
(* "If it is still pending, this asks Paystack directly: a transfer whose  *)
(* initiate call timed out would otherwise sit pending indefinitely"       *)
(* (routers/wallet.py:145-147): a user who goes on asking about a          *)
(* withdrawal whose transfer never reached the provider gets an answer.    *)
(***************************************************************************)
LostTransferSettles ==
  transfer = "lost" /\ transaction = "pending" ~> transaction # "pending"
=============================================================================
