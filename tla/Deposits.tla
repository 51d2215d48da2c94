------------------------------- MODULE Deposits -------------------------------
(***************************************************************************)
(* Wallet funding: the intent recorded before the provider is asked for a  *)
(* payment page (WalletService.request_wallet_fund), the customer's        *)
(* payment, and the charge.success webhook that verifies and credits it    *)
(* (PaystackWebhookService._handle_charge_success).                        *)
(*                                                                         *)
(* Each session stands for a request on a worker of its own; what a lock   *)
(* waited for on a shared event loop does is in Withdrawals.  A charge may *)
(* be reported under several dedupe keys (build_dedupe_key falls back from *)
(* data.id to the reference), so that two handlers of one charge meet.     *)
(*                                                                         *)
(* The credit is one commit with the payment's status and amount for a     *)
(* payer who has a wallet.  For a payer who has none it is two:            *)
(* ensure_wallet commits what the webhook has flushed before it.  Money    *)
(* moves by the abstract book of LedgerBook.                               *)
(***************************************************************************)
EXTENDS LedgerEntries, WebhookInbox

CONSTANTS
  Payments,        \* paystack_transaction rows of type ESCROW_DEPOSIT
  Requested,       \* the amount each of them was asked for
  Charges,         \* the amounts, in the supported currency, a customer may pay
  PaymentOf,       \* the payment an event reports
  DepositOf,       \* the operation that credits a payment with an amount
  PayerOf,         \* the user a payment is of
  InitiallyHasWallet, \* may a payer have a wallet row to begin with?
  Sessions,        \* concurrent requests
  Nobody,          \* owner of a free row lock
  RedeliversEarly, \* may an event be sent again while it is being handled?
  MaxOutages,      \* bound: failing verify_transaction calls
  MaxRestarts      \* bound: workers dying

NoCharge == [amount |-> 0, currency |-> "none"]

ASSUME DepositsAssumption ==
  /\ Requested \in [Payments -> Nat]
  /\ Charges \subseteq Nat
  /\ PaymentOf \in [Events -> Payments]
  /\ DepositOf \in [Payments -> [Charges -> Operations]]
  /\ PayerOf \in [Payments -> Users]
  /\ InitiallyHasWallet \subseteq BOOLEAN
  /\ \A p \in Payments, a \in Charges :
        /\ Len(DepositOf[p][a]) = 1
        /\ LegOf[DepositOf[p][a][1]].type = "deposit"
        /\ LegOf[DepositOf[p][a][1]].amount = a
        /\ LegOf[DepositOf[p][a][1]].user = PayerOf[p]
  /\ \A p, q \in Payments, a, b \in Charges :
        DepositOf[p][a] = DepositOf[q][b] => p = q /\ a = b
  /\ Nobody \notin Sessions
  /\ RedeliversEarly \in BOOLEAN
  /\ MaxOutages \in Nat /\ MaxRestarts \in Nat

VARIABLES
  wallet, ledger,   \* the book
  hasWallet,        \* does each user have a wallet row?
  status, amount,   \* of each paystack_transaction
  ahead,            \* history: the payments whose success was committed with
                    \* the payer's wallet, before the credit
  lock,             \* its row lock
  page,             \* the provider's payment page: none, made, or given to
                    \* the customer ("open")
  paid,             \* the charge: what the customer has paid on the page
  pc, call, seen,   \* each session: what it does next, for which payment or
                    \* event, and whether verify_transaction has answered
  outages, restarts, \* counted against the bounds
  denied            \* history: the events acknowledged because verify_transaction
                    \* did not bear them out

book == <<wallet, ledger>>
inboxes == <<inbox, owed>>
row == <<status, amount, ahead>>
gateway == <<page, paid>>
control == <<pc, call, seen>>
faults == <<outages, restarts, denied>>
vars == <<wallet, ledger, hasWallet, inbox, owed, status, amount, ahead, lock,
          page, paid, pc, call, seen, outages, restarts, denied>>

Book == INSTANCE LedgerBook WITH wallet <- wallet, ledger <- ledger

PaymentStatus == { "none", "pending", "success", "failed" }

NoCall == "none"

Nothing == "nothing"

Init ==
  /\ Book!Init
  /\ InboxInit
  /\ status = [p \in Payments |-> "none"]
  /\ amount = Requested
  /\ ahead = {}
  /\ hasWallet \in [Users -> InitiallyHasWallet]
  /\ lock = [p \in Payments |-> Nobody]
  /\ page = [p \in Payments |-> "none"]
  /\ paid = [p \in Payments |-> NoCharge]
  /\ pc = [s \in Sessions |-> "idle"]
  /\ call = [s \in Sessions |-> NoCall]
  /\ seen = [s \in Sessions |-> Nothing]
  /\ outages = 0
  /\ restarts = 0
  /\ denied = {}

Start(s, label, what) ==
  /\ pc' = [pc EXCEPT ![s] = label]
  /\ call' = [call EXCEPT ![s] = what]
  /\ UNCHANGED seen

Goto(s, label) == Start(s, label, call[s])

Finish(s) ==
  /\ pc' = [pc EXCEPT ![s] = "idle"]
  /\ call' = [call EXCEPT ![s] = NoCall]
  /\ seen' = [seen EXCEPT ![s] = Nothing]

------------------------------------------------------------------------------
(* POST /wallet/fund. *)

(* Mutant of RequestFund: the row is written when the answer has come. *)
RequestUnrecorded(s, p) ==
  /\ pc[s] = "idle"
  /\ status[p] = "none" /\ \A t \in Sessions : call[t] # p
  /\ Start(s, "post", p)
  /\ UNCHANGED <<book, hasWallet, inboxes, row, lock, gateway, faults>>

(* The intent is committed before the provider is asked. *)
RequestFund(s, p) ==
  /\ pc[s] = "idle"
  /\ status[p] = "none"
  /\ status' = [status EXCEPT ![p] = "pending"]
  /\ Start(s, "post", p)
  /\ UNCHANGED <<book, hasWallet, inboxes, amount, ahead, lock, gateway, faults>>

(* initialize_transaction's one POST is accepted, refused or lost. *)
InitializeTransaction(s) ==
  /\ pc[s] = "post"
  /\ \E made \in { "none", "made" } : page' = [page EXCEPT ![call[s]] = made]
  /\ Goto(s, "asked")
  /\ UNCHANGED <<book, hasWallet, inboxes, row, lock, paid, faults>>

(* The customer is given the page. *)
HearPage(s) ==
  /\ pc[s] = "asked"
  /\ page[call[s]] = "made"
  /\ page' = [page EXCEPT ![call[s]] = "open"]
  /\ Finish(s)
  /\ UNCHANGED <<book, hasWallet, inboxes, row, lock, paid, faults>>

(* Any PaystackError, whether or not there is a page: the payment failed. *)
HearError(s) ==
  /\ pc[s] = "asked"
  /\ status' = [status EXCEPT ![call[s]] = "failed"]
  /\ Finish(s)
  /\ UNCHANGED <<book, hasWallet, inboxes, amount, ahead, lock, gateway, faults>>

(* The customer pays some amount, and the provider reports the charge. *)
Pay(p) ==
  /\ page[p] = "open"
  /\ paid[p] = NoCharge
  /\ \E a \in Charges, c \in { "NGN", "other" } :
       paid' = [paid EXCEPT ![p] = [amount |-> a, currency |-> c]]
  /\ owed' = owed \cup { e \in Events : PaymentOf[e] = p }
  /\ UNCHANGED <<book, hasWallet, inbox, row, lock, page, control, faults>>

------------------------------------------------------------------------------
(* POST /wallet/webhook/paystack. *)

(* An event is claimed for handling, or is a duplicate and acknowledged. *)
Deliver(s, e) ==
  /\ pc[s] = "idle"
  /\ e \in owed
  /\ RedeliversEarly \/ \A t \in Sessions : call[t] # e
  /\ \/ /\ Claimable(e)
        /\ Claim(e)
        /\ Start(s, "handle", e)
        /\ UNCHANGED owed
     \/ ~Claimable(e) /\ Acknowledge(e) /\ UNCHANGED <<inbox, control>>
  /\ UNCHANGED <<book, hasWallet, row, lock, gateway, faults>>

Payment(s) == PaymentOf[call[s]]

Free(s) == lock' = [lock EXCEPT ![Payment(s)] = Nobody]

(* get_paystack_transaction locks the row and keeps it over the await. *)
LockPayment(s) ==
  /\ pc[s] = "handle"
  /\ lock[Payment(s)] = Nobody
  /\ status[Payment(s)] = "pending"
  /\ lock' = [lock EXCEPT ![Payment(s)] = s]
  /\ Goto(s, "verify")
  /\ UNCHANGED <<book, hasWallet, inboxes, row, gateway, faults>>

(* unknown_reference or already_processed. *)
HandleNothing(s) ==
  /\ pc[s] = "handle"
  /\ lock[Payment(s)] = Nobody
  /\ status[Payment(s)] # "pending"
  /\ Processed(call[s])
  /\ Finish(s)
  /\ UNCHANGED <<book, hasWallet, row, lock, gateway, faults>>

(* What verify_transaction may say of a charge: settled, not (or not yet)   *)
(* settled, or settled with no amount.                                      *)
Answers == { "success", "unsettled", "no amount" }

(* verify_transaction answers, or fails in each of its three attempts. *)
HearVerify(s) ==
  /\ pc[s] = "verify"
  /\ \/ /\ \E answer \in Answers : seen' = [seen EXCEPT ![s] = answer]
        /\ UNCHANGED outages
     \/ /\ outages < MaxOutages
        /\ seen' = [seen EXCEPT ![s] = "error"]
        /\ outages' = outages + 1
  /\ pc' = [pc EXCEPT ![s] = "verified"]
  /\ UNCHANGED <<book, hasWallet, inboxes, row, lock, gateway, call, restarts, denied>>

Charge(s) == paid[Payment(s)]

(* verify_failed rolls back and asks for another delivery. *)
VerifyFailed(s) ==
  /\ pc[s] = "verified" /\ seen[s] = "error"
  /\ Failed(call[s])
  /\ Free(s)
  /\ Finish(s)
  /\ UNCHANGED <<book, hasWallet, row, gateway, faults>>

(* unsupported_currency is acknowledged, and nothing is credited. *)
IgnoreForeign(s) ==
  /\ pc[s] = "verified" /\ seen[s] \in { "success", "no amount" }
  /\ Charge(s).currency # "NGN"
  /\ Processed(call[s])
  /\ Free(s)
  /\ Finish(s)
  /\ UNCHANGED <<book, hasWallet, row, gateway, faults>>

(* not_verified and malformed are acknowledged too, paid or not. *)
NotVerified(s) ==
  /\ pc[s] = "verified"
  /\ seen[s] = "unsettled" \/ (seen[s] = "no amount" /\ Charge(s).currency = "NGN")
  /\ Processed(call[s])
  /\ denied' = denied \cup { call[s] }
  /\ Free(s)
  /\ Finish(s)
  /\ UNCHANGED <<book, hasWallet, row, gateway, outages, restarts>>

(* Mutant of CreditedAmount: what was asked for is credited, not what came. *)
RequestedAmount(s) == Requested[Payment(s)]

(* Underpaid or overpaid: what has arrived is the customer's. *)
CreditedAmount(s) == Charge(s).amount

(* The status and the amount are flushed, and apply_entry looks for the     *)
(* payer's wallet.                                                          *)
LookUpWallet(s) ==
  /\ pc[s] = "verified" /\ seen[s] = "success"
  /\ Charge(s).currency = "NGN"
  /\ Goto(s, IF hasWallet[PayerOf[Payment(s)]] THEN "credit" ELSE "open")
  /\ UNCHANGED <<book, hasWallet, inboxes, row, lock, gateway, faults>>

Succeed(s) ==
  /\ status' = [status EXCEPT ![Payment(s)] = "success"]
  /\ amount' = [amount EXCEPT ![Payment(s)] = CreditedAmount(s)]

(* ensure_wallet commits, whether or not a wallet has appeared meanwhile,   *)
(* and with it the payment's success; the row lock ends with the commit.    *)
EnsureWallet(s) ==
  /\ pc[s] = "open"
  /\ hasWallet' = [hasWallet EXCEPT ![PayerOf[Payment(s)]] = TRUE]
  /\ Succeed(s)
  /\ ahead' = ahead \cup { Payment(s) }
  /\ Free(s)
  /\ Goto(s, "credit")
  /\ UNCHANGED <<book, inboxes, gateway, faults>>

(* What the session still holds of the payment's row, if anything. *)
Drop(s) == lock' = [lock EXCEPT ![Payment(s)] = IF @ = s THEN Nobody ELSE @]

(* apply_entry refuses a zero amount: mark_failed rolls back what is still  *)
(* only flushed, and a refusal that retrying cannot help is acknowledged.   *)
RefuseCredit(s) ==
  /\ pc[s] = "credit"
  /\ ~Allowed(wallet, DepositOf[Payment(s)][CreditedAmount(s)])
  /\ inbox' = [inbox EXCEPT ![call[s]].status = "failed"]
  /\ Acknowledge(call[s])
  /\ Drop(s)
  /\ Finish(s)
  /\ UNCHANGED <<book, hasWallet, row, gateway, faults>>

(* The ledger row and the balance, in one commit with the status and the    *)
(* amount unless those have been committed already.                         *)
Credit(s) ==
  /\ pc[s] = "credit"
  /\ Book!Post(DepositOf[Payment(s)][CreditedAmount(s)])
  /\ Succeed(s)
  /\ Drop(s)
  /\ Goto(s, "mark")
  /\ UNCHANGED <<hasWallet, ahead, inboxes, gateway, faults>>

Mark(s) ==
  /\ pc[s] = "mark"
  /\ Processed(call[s])
  /\ Finish(s)
  /\ UNCHANGED <<book, hasWallet, row, lock, gateway, faults>>

------------------------------------------------------------------------------
(* A worker dies, with its request and that request's transaction. *)
Restart(s) ==
  /\ pc[s] # "idle"
  /\ restarts < MaxRestarts
  /\ restarts' = restarts + 1
  /\ Finish(s)
  /\ lock' = [p \in Payments |-> IF lock[p] = s THEN Nobody ELSE lock[p]]
  /\ UNCHANGED <<book, hasWallet, inboxes, row, gateway, outages, denied>>

(* A wallet is made when its owner first looks at it: GET /wallet/balance,  *)
(* or the wallet's socket.                                                  *)
OpenWallet(u) ==
  /\ ~hasWallet[u]
  /\ hasWallet' = [hasWallet EXCEPT ![u] = TRUE]
  /\ UNCHANGED <<book, inboxes, row, lock, gateway, control, faults>>

(* What a request does once it has started. *)
Proceed(s) ==
  \/ InitializeTransaction(s) \/ HearPage(s) \/ HearError(s)
  \/ LockPayment(s) \/ HandleNothing(s) \/ HearVerify(s)
  \/ VerifyFailed(s) \/ IgnoreForeign(s) \/ NotVerified(s)
  \/ LookUpWallet(s) \/ EnsureWallet(s) \/ RefuseCredit(s) \/ Credit(s) \/ Mark(s)

Next ==
  \/ \E s \in Sessions :
       \/ \E p \in Payments : RequestFund(s, p)
       \/ \E e \in Events : Deliver(s, e)
       \/ Proceed(s)
       \/ Restart(s)
  \/ \E p \in Payments : Pay(p)
  \/ \E u \in Users : OpenWallet(u)

Spec == Init /\ [][Next]_vars

(* A started handler runs on, and the provider sends an event until it is   *)
(* answered.  Nobody need fund a wallet, pay, or look at a wallet.          *)
Fairness ==
  /\ \A s \in Sessions : WF_vars(Proceed(s)) /\ SF_vars(LockPayment(s) \/ HandleNothing(s))
  /\ \A e \in Events : SF_vars(\E s \in Sessions : Deliver(s, e))

FairSpec == Spec /\ Fairness

------------------------------------------------------------------------------
TypeOK ==
  /\ Typed(ledger, wallet)
  /\ InboxTyped
  /\ status \in [Payments -> PaymentStatus]
  /\ amount \in [Payments -> Nat]
  /\ lock \in [Payments -> Sessions \cup { Nobody }]
  /\ page \in [Payments -> { "none", "made", "open" }]
  /\ paid \in [Payments -> { NoCharge } \cup [amount : Charges, currency : { "NGN", "other" }]]
  /\ hasWallet \in [Users -> BOOLEAN]
  /\ ahead \subseteq Payments /\ denied \subseteq Events
  /\ pc \in [Sessions -> { "idle", "post", "asked", "handle", "verify", "verified",
                           "open", "credit", "mark" }]
  /\ call \in [Sessions -> Payments \cup Events \cup { NoCall }]
  /\ \A s \in Sessions :
        /\ pc[s] \in { "post", "asked" } => call[s] \in Payments
        /\ pc[s] \notin { "idle", "post", "asked" } => call[s] \in Events
  /\ seen \in [Sessions -> Answers \cup { Nothing, "error" }]
  /\ outages \in 0 .. MaxOutages
  /\ restarts \in 0 .. MaxRestarts

CreditsOf(p) == { a \in Charges : HasRows(ledger, DepositOf[p][a]) }

(***************************************************************************)
(* "Credit what actually arrived. The money is the customer's"             *)
(* (paystack_webhook_service.py:222-224): a credit is of what the row says *)
(* and the customer paid, and of a payment that is a success, whatever was *)
(* reported twice, refused, rolled back or interrupted on the way; and a   *)
(* success has its credit.  The exception is ensure_wallet's commit        *)
(* (wallet_repository.py:239), for a payer who had no wallet when it was   *)
(* looked up: from then until the credit, for ever if the worker dies in   *)
(* between or the amount is refused, the success has none.                 *)
(***************************************************************************)
Crediting(p) == \E s \in Sessions : pc[s] = "credit" /\ Payment(s) = p

CreditedAsPaid ==
  \A p \in Payments :
    /\ CreditsOf(p) # {} => status[p] = "success" /\ CreditsOf(p) = { amount[p] }
    /\ status[p] = "success" => paid[p] = [amount |-> amount[p], currency |-> "NGN"]
    /\ status[p] = "success" /\ CreditsOf(p) = {} =>
         p \in ahead /\ (Crediting(p) \/ amount[p] = 0 \/ restarts > 0)

(***************************************************************************)
(* "If the row write happened after the Paystack call and failed, a live   *)
(* payment page would exist with no local record and the eventual          *)
(* charge.success would be dropped as unknown" (wallet_service.py:120-122):*)
(* a page the customer can pay on is that of a payment still pending, or   *)
(* credited.                                                               *)
(***************************************************************************)
OpenPageIsKnown ==
  \A p \in Payments : page[p] = "open" => status[p] \in { "pending", "success" }

(***************************************************************************)
(* "What lets Paystack's automatic retry re-drive an event that blew up    *)
(* transiently" (webhook_event_repository.py:46-47): what a customer has   *)
(* paid is in the ledger in the end, through outages of verify_transaction *)
(* and whether or not there was a wallet, unless a worker has died or each *)
(* event of the charge has used up its attempts or has been acknowledged   *)
(* because verify_transaction did not bear it out.                         *)
(***************************************************************************)
Creditable(p) == paid[p].currency = "NGN" /\ paid[p].amount > 0

GivenUp(e) == inbox[e].status = "failed" /\ inbox[e].attempts = MaxAttempts

PaidIsCredited ==
  \A p \in Payments :
    Creditable(p) ~>
      \/ CreditsOf(p) = { paid[p].amount }
      \/ restarts > 0
      \/ \A e \in Events : PaymentOf[e] = p => GivenUp(e) \/ e \in denied

(***************************************************************************)
(* "If it did not, the event has already been handled (or is being         *)
(* handled) and must be ignored" (webhook_event_repository.py:3-6): an     *)
(* event the provider no longer sends has been handled to an end, or a     *)
(* session is still handling it.                                           *)
(***************************************************************************)
DroppedWasHandled ==
  \A e \in Events :
    Creditable(PaymentOf[e]) /\ e \notin owed =>
      \/ inbox[e].status \in { "processed", "failed" }
      \/ \E s \in Sessions : call[s] = e
=============================================================================
