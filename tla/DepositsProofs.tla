---------------------------- MODULE DepositsProofs ----------------------------
(***************************************************************************)
(* What a deposit keeps for any number of payments, sessions, dedupe keys, *)
(* outages and restarts.                                                   *)
(*                                                                         *)
(* The row lock, kept over the call to the provider, makes a payment that  *)
(* is being verified one that has not been credited.  When ensure_wallet's *)
(* commit drops it before the credit, the success it commits keeps every   *)
(* other handler out, so that there is one session at most that credits a  *)
(* payment.  That its page is open makes it one that no request is still   *)
(* asking the provider for, so that an error of the provider is never      *)
(* written over a success.                                                 *)
(***************************************************************************)
EXTENDS Deposits, LedgerEntriesProofs

Asking(s) == pc[s] \in { "post", "asked" }

Verifying(s) == pc[s] \in { "verify", "verified", "open" }

(* A payment that is asked for is pending and has no page a customer knows. *)
AskedOnce ==
  /\ \A s \in Sessions : Asking(s) => status[call[s]] = "pending" /\ page[call[s]] # "open"
  /\ \A s, t \in Sessions : Asking(s) /\ Asking(t) /\ call[s] = call[t] => s = t

LockedWhileVerified ==
  \A s \in Sessions :
    Verifying(s) => lock[Payment(s)] = s /\ status[Payment(s)] # "success"

PaidOnPage == \A p \in Payments : paid[p] # NoCharge => page[p] = "open"

(* Who is about to credit p with its charge: the holder of the row, whose   *)
(* success is not committed, or the one session that has committed it.      *)
Holds(s, p) == lock[p] = s /\ status[p] # "success"

HasSucceeded(p) == status[p] = "success" /\ p \in ahead /\ amount[p] = paid[p].amount

CreditsOnce ==
  /\ \A s \in Sessions :
        pc[s] \in { "open", "credit" } => paid[Payment(s)].currency = "NGN"
  /\ \A s \in Sessions :
        pc[s] = "credit" =>
          /\ CreditsOf(Payment(s)) = {}
          /\ Holds(s, Payment(s)) \/ HasSucceeded(Payment(s))
  /\ \A s, t \in Sessions :
        pc[s] = "credit" /\ pc[t] = "credit" /\ Payment(s) = Payment(t) => s = t

IInv ==
  /\ TypeOK
  /\ AskedOnce /\ LockedWhileVerified /\ PaidOnPage /\ OpenPageIsKnown
  /\ CreditsOnce /\ CreditedAsPaid

------------------------------------------------------------------------------
(* What the constants are, one fact at a time. *)
LEMMA EventsArePayments == \A e \in Events : PaymentOf[e] \in Payments
BY DepositsAssumption

LEMMA PayersAreUsers == \A p \in Payments : PayerOf[p] \in Users
BY DepositsAssumption

LEMMA DepositsAreOperations ==
  /\ \A p \in Payments, a \in Charges : DepositOf[p][a] \in Operations
  /\ Charges \subseteq Nat
<1>1. DepositOf \in [Payments -> [Charges -> Operations]] /\ Charges \subseteq Nat
  BY DepositsAssumption
<1>. QED BY <1>1

(* A step of the book, in terms of the operators of LedgerEntries. *)
LEMMA PostOfBook ==
  ASSUME NEW o \in Operations, Book!Post(o)
  PROVE  /\ HasNoRow(ledger, o)
         /\ Allowed(wallet, o)
         /\ wallet' = After(wallet, o)
         /\ ledger' = RecordedAll(ledger, wallet, o)
<1>1. HasNoRow(ledger, o)
  BY DEF HasNoRow, HasRow, RefsOf, Book!HasNoRow, Book!HasRow, Book!RefsOf, Book!Post
<1>2. /\ \A r : Book!AvailableDelta(r) = AvailableDelta(r)
      /\ \A r : Book!EscrowDelta(r) = EscrowDelta(r)
  BY DEF AvailableDelta, EscrowDelta, AvailableSign, EscrowSign,
         Book!AvailableDelta, Book!EscrowDelta, Book!AvailableSign, Book!EscrowSign
<1>3. \A b, r : Book!Moved(b, r) = Moved(b, r)
  BY <1>2 DEF Moved, Book!Moved
<1>4. /\ \A b, r : Book!LegAllowed(b, r) <=> LegAllowed(b, r)
      /\ \A w, r : Book!AfterLeg(w, r) = AfterLeg(w, r)
      /\ \A w, r : Book!RowOf(w, r) = RowOf(w, r)
  BY <1>2, <1>3 DEF LegAllowed, AfterLeg, RowOf, Book!LegAllowed, Book!AfterLeg, Book!RowOf
<1>5. \A l, w, r : Book!Recorded(l, w, r) = Recorded(l, w, r)
  BY <1>4 DEF Recorded, Book!Recorded
<1>6. /\ Book!Allowed(wallet, o) <=> Allowed(wallet, o)
      /\ Book!After(wallet, o) = After(wallet, o)
      /\ Book!RecordedAll(ledger, wallet, o) = RecordedAll(ledger, wallet, o)
  BY <1>4, <1>5 DEF Allowed, After, RecordedAll, Book!Allowed, Book!After, Book!RecordedAll
<1>. QED
  BY <1>1, <1>6 DEF Book!Post

(* What a movement of money keeps and adds. *)
LEMMA PostKeeps ==
  ASSUME Typed(ledger, wallet), NEW o \in Operations, Book!Post(o)
  PROVE  /\ Typed(ledger', wallet')
         /\ HasRows(ledger', o)
         /\ \A p \in Operations \ {o} : HasRows(ledger', p) <=> HasRows(ledger, p)
<1>1. /\ HasNoRow(ledger, o) /\ Allowed(wallet, o)
      /\ wallet' = After(wallet, o) /\ ledger' = RecordedAll(ledger, wallet, o)
  BY PostOfBook
<1>. QED
  BY <1>1, OperationTyped, OperationRows

(* The credit of a payment is its first and does not touch the others. *)
LEMMA CreditPosted ==
  ASSUME Typed(ledger, wallet), NEW p \in Payments, NEW a \in Charges,
         CreditsOf(p) = {}, Book!Post(DepositOf[p][a])
  PROVE  /\ Typed(ledger', wallet')
         /\ \A q \in Payments : CreditsOf(q)' = IF q = p THEN { a } ELSE CreditsOf(q)
<1>0. \A q \in Payments, b \in Charges : DepositOf[q][b] \in Operations
  BY DepositsAssumption
<1>1. /\ Typed(ledger', wallet')
      /\ HasRows(ledger', DepositOf[p][a])
      /\ \A o \in Operations \ { DepositOf[p][a] } : HasRows(ledger', o) <=> HasRows(ledger, o)
  BY <1>0, PostKeeps
<1>2. ASSUME NEW q \in Payments, NEW b \in Charges, q # p \/ b # a
      PROVE  HasRows(ledger', DepositOf[q][b]) <=> HasRows(ledger, DepositOf[q][b])
  <2>1. DepositOf[q][b] # DepositOf[p][a] BY <1>2, DepositsAssumption
  <2>. QED BY <1>0, <1>1, <2>1
<1>3. \A q : CreditsOf(q)' = { b \in Charges : HasRows(ledger', DepositOf[q][b]) }
  BY DEF CreditsOf, HasRows, HasRow
<1>4. ASSUME NEW q \in Payments, q = p PROVE CreditsOf(q)' = { a }
  <2>1. HasRows(ledger', DepositOf[q][a]) BY <1>1, <1>4
  <2>2. \A b \in Charges : HasRows(ledger, DepositOf[q][b]) => FALSE BY <1>4 DEF CreditsOf
  <2>3. \A b \in Charges : b # a => ~HasRows(ledger', DepositOf[q][b]) BY <1>2, <2>2
  <2>. QED BY <1>3, <2>1, <2>3
<1>5. ASSUME NEW q \in Payments \ { p } PROVE CreditsOf(q)' = CreditsOf(q)
  BY <1>2, <1>3 DEF CreditsOf
<1>. QED BY <1>1, <1>4, <1>5

LEMMA NothingPosted ==
  ASSUME Typed(ledger, wallet), UNCHANGED book
  PROVE  Typed(ledger', wallet') /\ \A p : CreditsOf(p)' = CreditsOf(p)
BY DEF book, CreditsOf, HasRows, HasRow, Typed

(* What the status of an event's row may become. *)
LEMMA InboxKept ==
  ASSUME InboxTyped, NEW e \in Events
  PROVE  /\ Claimable(e) /\ Claim(e) /\ UNCHANGED owed => InboxTyped'
         /\ Acknowledge(e) /\ UNCHANGED inbox => InboxTyped'
         /\ Processed(e) => InboxTyped'
         /\ Failed(e) => InboxTyped'
<1>. USE DEF InboxTyped, WebhookEventStatus
<1>1. ASSUME Claimable(e), Claim(e), UNCHANGED owed PROVE InboxTyped'
  <2>1. inbox[e].attempts + 1 \in 0 .. MaxAttempts
    BY <1>1, WebhookInboxAssumption DEF Claimable, NoEvent
  <2>. QED
    BY <1>1, <2>1 DEF Claim
<1>2. ASSUME Acknowledge(e), UNCHANGED inbox PROVE InboxTyped'
  BY <1>2 DEF Acknowledge
<1>3. ASSUME Processed(e) PROVE InboxTyped'
  BY <1>3 DEF Processed, Acknowledge
<1>4. ASSUME Failed(e) PROVE InboxTyped'
  BY <1>4 DEF Failed
<1>. QED
  BY <1>1, <1>2, <1>3, <1>4

------------------------------------------------------------------------------
LEMMA InitKept == Init => IInv
<1>. SUFFICES ASSUME Init PROVE IInv
  OBVIOUS
<1>1. wallet = [u \in Users |-> Empty] /\ ledger = [u \in Users |-> << >>]
  BY DEF Init, Book!Init, Empty, Book!Empty
<1>2. Typed(ledger, wallet)
  BY <1>1 DEF Typed, Empty, Balance
<1>3. ASSUME NEW p \in Payments PROVE CreditsOf(p) = {}
  <2>1. ASSUME NEW a \in Charges PROVE ~HasRows(ledger, DepositOf[p][a])
    <3>1. RefsOf(DepositOf[p][a]) # {} BY DepositsAreOperations, OperationShape
    <3>2. \A r : ~HasRow(ledger, r) BY <1>1 DEF HasRow
    <3>. QED BY <3>1, <3>2 DEF HasRows
  <2>. QED BY <2>1 DEF CreditsOf
<1>4. TypeOK
  BY <1>2, WebhookInboxAssumption, DepositsAssumption
     DEF Init, TypeOK, InboxInit, InboxTyped, NoEvent, PaymentStatus, NoCall, Nothing
<1>5. AskedOnce /\ LockedWhileVerified /\ PaidOnPage /\ OpenPageIsKnown /\ CreditsOnce
  BY DEF Init, AskedOnce, Asking, LockedWhileVerified, Verifying, PaidOnPage, OpenPageIsKnown,
     CreditsOnce
<1>6. CreditedAsPaid
  BY <1>3 DEF Init, CreditedAsPaid
<1>. QED BY <1>4, <1>5, <1>6 DEF IInv

Labels ==
  { "idle", "post", "asked", "handle", "verify", "verified", "open", "credit", "mark" }

Handling == Labels \ { "idle", "post", "asked" }

Seen == Answers \cup { Nothing, "error" }

(***************************************************************************)
(* A step of the webhook that leaves payments, pages and money alone, and  *)
(* takes no lock but a free one, nor drops one of others.                  *)
(***************************************************************************)
LEMMA HandlingKeeps ==
  ASSUME IInv, NEW s \in Sessions, NEW label \in Handling \cup { "idle" },
         NEW c \in Events \cup { NoCall },
         pc' = [pc EXCEPT ![s] = label], call' = [call EXCEPT ![s] = c],
         seen' \in [Sessions -> Seen],
         label # "idle" => c \in Events,
         label \in { "verify", "verified", "open", "credit" } =>
           lock'[PaymentOf[c]] = s /\ status[PaymentOf[c]] # "success",
         label \in { "open", "credit" } => paid[PaymentOf[c]].currency = "NGN",
         pc[s] = "credit" /\ status[Payment(s)] = "success" =>
           amount[Payment(s)] = 0 \/ restarts' > 0,
         lock' \in [Payments -> Sessions \cup { Nobody }],
         \A p \in Payments : lock'[p] # lock[p] => lock[p] \in { s, Nobody },
         InboxTyped', UNCHANGED <<book, hasWallet, row, gateway>>,
         denied' \subseteq Events,
         outages' \in 0 .. MaxOutages, restarts' \in 0 .. MaxRestarts, restarts' >= restarts
  PROVE  IInv'
<1>1. /\ Typed(ledger', wallet') /\ \A p : CreditsOf(p)' = CreditsOf(p)
      /\ UNCHANGED <<status, amount, ahead, page, paid>>
  BY NothingPosted DEF IInv, TypeOK, row, gateway
<1>2. /\ pc \in [Sessions -> Labels] /\ pc' \in [Sessions -> Labels]
      /\ call \in [Sessions -> Payments \cup Events \cup { NoCall }]
      /\ call' \in [Sessions -> Payments \cup Events \cup { NoCall }]
      /\ pc'[s] = label /\ call'[s] = c
      /\ \A t \in Sessions : t # s => pc'[t] = pc[t] /\ call'[t] = call[t]
  BY DEF IInv, TypeOK, Labels, Handling
<1>3. TypeOK'
  <2>1. \A t \in Sessions :
          /\ pc'[t] \in { "post", "asked" } => call'[t] \in Payments
          /\ pc'[t] \notin { "idle", "post", "asked" } => call'[t] \in Events
    BY <1>2 DEF IInv, TypeOK, Handling
  <2>. QED BY <1>1, <1>2, <2>1 DEF IInv, TypeOK, Labels, Seen
<1>4. AskedOnce' /\ PaidOnPage' /\ OpenPageIsKnown'
  <2>1. \A t \in Sessions : Asking(t)' => t # s /\ Asking(t) /\ call'[t] = call[t]
    BY <1>2 DEF Asking, Handling
  <2>. QED BY <1>1, <2>1 DEF IInv, AskedOnce, PaidOnPage, OpenPageIsKnown
<1>0. /\ LockedWhileVerified
      /\ \A t \in Sessions : pc[t] \in Handling => PaymentOf[call[t]] \in Payments
  BY DepositsAssumption DEF IInv, TypeOK, Handling
<1>5. LockedWhileVerified'
  <2>. SUFFICES ASSUME NEW t \in Sessions, Verifying(t)'
                PROVE  lock'[PaymentOf[call'[t]]] = t /\ status'[PaymentOf[call'[t]]] # "success"
    BY DEF LockedWhileVerified, Payment
  <2>1. CASE t = s BY <1>1, <1>2, <2>1 DEF Verifying
  <2>2. CASE t # s
    <3>1. /\ Verifying(t) /\ call'[t] = call[t] /\ PaymentOf[call[t]] \in Payments
          /\ lock[PaymentOf[call[t]]] = t /\ status[PaymentOf[call[t]]] # "success"
      BY <1>0, <1>2, <2>2 DEF LockedWhileVerified, Verifying, Payment, Handling, Labels
    <3>2. lock'[PaymentOf[call[t]]] = t
      <4>. t \notin { s, Nobody }
        BY <2>2, DepositsAssumption
      <4>. QED BY <3>1
    <3>. QED BY <1>1, <3>1, <3>2
  <2>. QED BY <2>1, <2>2
<1>6. ASSUME NEW t \in Sessions, t # s, pc'[t] \in { "open", "credit" }
      PROVE  /\ pc[t] = pc'[t] /\ call'[t] = call[t]
             /\ PaymentOf[call[t]] \in Payments /\ PaymentOf[call[t]] = Payment(t)
  BY <1>0, <1>2, <1>6 DEF Payment, Handling, Labels
<1>7. CreditsOnce'
  <2>1. ASSUME NEW t \in Sessions, pc'[t] \in { "open", "credit" }
        PROVE  paid'[PaymentOf[call'[t]]].currency = "NGN"
    BY <1>1, <1>2, <1>6, <2>1 DEF IInv, CreditsOnce
  <2>2. ASSUME NEW t \in Sessions, t # s, pc'[t] = "credit"
        PROVE  /\ CreditsOf(Payment(t)) = {}
               /\ \/ lock'[Payment(t)] = t /\ status[Payment(t)] # "success"
                  \/ HasSucceeded(Payment(t))
    BY <1>6, <2>2, DepositsAssumption DEF IInv, CreditsOnce, Holds
  <2>3. ASSUME pc'[s] = "credit"
        PROVE  /\ PaymentOf[c] \in Payments /\ CreditsOf(PaymentOf[c]) = {}
               /\ lock'[PaymentOf[c]] = s /\ status[PaymentOf[c]] # "success"
    BY <1>2, <2>3, DepositsAssumption DEF IInv, CreditedAsPaid, Handling
  <2>4. ASSUME NEW t \in Sessions, pc'[t] = "credit"
        PROVE  /\ CreditsOf(Payment(t))' = {}
               /\ (Holds(t, Payment(t)) \/ HasSucceeded(Payment(t)))'
    BY <1>1, <1>2, <1>6, <2>2, <2>3, <2>4 DEF Holds, HasSucceeded, Payment
  <2>5. ASSUME NEW t \in Sessions, NEW r \in Sessions, pc'[t] = "credit", pc'[r] = "credit",
               PaymentOf[call'[t]] = PaymentOf[call'[r]]
        PROVE  t = r
    <3>1. CASE t # s /\ r # s BY <1>6, <2>5, <3>1 DEF IInv, CreditsOnce
    <3>2. ASSUME NEW u \in Sessions, u # s, pc'[u] = "credit", pc'[s] = "credit",
                 PaymentOf[call'[u]] = PaymentOf[c]
          PROVE  FALSE
      BY <1>6, <2>2, <2>3, <3>2, DepositsAssumption DEF HasSucceeded
    <3>. QED BY <1>2, <2>5, <3>1, <3>2
  <2>. QED BY <2>1, <2>4, <2>5 DEF CreditsOnce, Payment
<1>8. CreditedAsPaid'
  <2>1. ASSUME NEW p \in Payments, status[p] = "success", CreditsOf(p) = {}
        PROVE  p \in ahead /\ (Crediting(p)' \/ amount[p] = 0 \/ restarts' > 0)
    <3>1. p \in ahead /\ (Crediting(p) \/ amount[p] = 0 \/ restarts > 0)
      BY <2>1 DEF IInv, CreditedAsPaid
    <3>2. restarts > 0 => restarts' > 0 BY DEF IInv, TypeOK
    <3>3. ASSUME NEW t \in Sessions, pc[t] = "credit", Payment(t) = p
          PROVE  Crediting(p)' \/ amount[p] = 0 \/ restarts' > 0
      <4>1. CASE t = s BY <2>1, <3>3, <4>1
      <4>2. CASE t # s BY <1>2, <3>3, <4>2 DEF Crediting, Payment
      <4>. QED BY <4>1, <4>2
    <3>. QED BY <3>1, <3>2, <3>3 DEF Crediting
  <2>. QED BY <1>1, <2>1 DEF IInv, CreditedAsPaid
<1>. QED BY <1>3, <1>4, <1>5, <1>7, <1>8 DEF IInv

(* A verifying handler holds the lock of a payment and finishes. *)
LEMMA FinishingKeeps ==
  ASSUME IInv, NEW s \in Sessions, Verifying(s), Free(s), Finish(s), InboxTyped',
         denied' \subseteq Events, UNCHANGED <<book, hasWallet, row, gateway, outages, restarts>>
  PROVE  IInv'
<1>. DEFINE p == PaymentOf[call[s]]
<1>1. /\ lock \in [Payments -> Sessions \cup { Nobody }] /\ p \in Payments /\ lock[p] = s
      /\ lock' = [lock EXCEPT ![p] = Nobody]
  BY EventsArePayments DEF IInv, TypeOK, LockedWhileVerified, Verifying, Payment, Free
<1>2. /\ lock' \in [Payments -> Sessions \cup { Nobody }]
      /\ \A q \in Payments : lock'[q] # lock[q] => lock[q] \in { s, Nobody }
  BY <1>1
<1>3. /\ seen' \in [Sessions -> Seen]
      /\ outages' \in 0 .. MaxOutages /\ restarts' \in 0 .. MaxRestarts /\ restarts' >= restarts
      /\ pc[s] # "credit"
  BY DepositsAssumption DEF Finish, IInv, TypeOK, Seen, Verifying
<1>. QED BY <1>2, <1>3, HandlingKeeps DEF Finish

(* What a session at "credit" is about to credit. *)
LEMMA AboutToCredit ==
  ASSUME IInv, NEW s \in Sessions, pc[s] \in { "open", "credit" }
  PROVE  /\ call[s] \in Events /\ PaymentOf[call[s]] \in Payments
         /\ CreditedAmount(s) = paid[PaymentOf[call[s]]].amount
         /\ CreditedAmount(s) \in Charges /\ CreditedAmount(s) \in Nat
         /\ DepositOf[PaymentOf[call[s]]][CreditedAmount(s)] \in Operations
         /\ paid[PaymentOf[call[s]]] = [amount |-> CreditedAmount(s), currency |-> "NGN"]
         /\ page[PaymentOf[call[s]]] = "open"
         /\ CreditsOf(PaymentOf[call[s]]) = {}
<1>. DEFINE p == PaymentOf[call[s]]  a == paid[p].amount
<1>1. call[s] \in Events /\ p \in Payments /\ CreditedAmount(s) = a
  BY EventsArePayments DEF IInv, TypeOK, CreditedAmount, Charge, Payment
<1>2. paid[p].currency = "NGN" BY DEF IInv, CreditsOnce, Payment
<1>3. paid[p] # NoCharge /\ a \in Charges /\ paid[p] = [amount |-> a, currency |-> "NGN"]
  <2>1. paid[p] \in { NoCharge } \cup [amount : Charges, currency : { "NGN", "other" }]
    BY <1>1 DEF IInv, TypeOK
  <2>2. paid[p] # NoCharge BY <1>2 DEF NoCharge
  <2>3. paid[p] \in [amount : Charges, currency : { "NGN", "other" }] BY <2>1, <2>2
  <2>. QED BY <1>2, <2>2, <2>3
<1>4. page[p] = "open" BY <1>1, <1>3 DEF IInv, PaidOnPage
<1>5. CreditsOf(p) = {}
  <2>1. CASE pc[s] = "open"
    BY <1>1, <2>1 DEF IInv, CreditedAsPaid, LockedWhileVerified, Verifying, Payment
  <2>2. CASE pc[s] = "credit" BY <2>2 DEF IInv, CreditsOnce, Payment
  <2>. QED BY <2>1, <2>2
<1>6. DepositOf[p][a] \in Operations /\ a \in Nat BY <1>1, <1>3, DepositsAreOperations
<1>. QED BY <1>1, <1>3, <1>4, <1>5, <1>6

(* apply_entry refuses a deposit for one reason only. *)
LEMMA RefusedIsZero ==
  ASSUME Typed(ledger, wallet), NEW p \in Payments, NEW a \in Charges,
         ~Allowed(wallet, DepositOf[p][a])
  PROVE  a = 0
<1>. DEFINE r == DepositOf[p][a][1]
<1>1. /\ DepositOf[p][a] \in Operations /\ Len(DepositOf[p][a]) = 1 /\ a \in Nat
      /\ LegOf[r].type = "deposit" /\ LegOf[r].amount = a /\ LegOf[r].user \in Users
  BY DepositsAssumption
<1>2. ~LegAllowed(wallet[LegOf[r].user], r) BY <1>1 DEF Allowed
<1>3. /\ wallet[LegOf[r].user].available \in Nat /\ wallet[LegOf[r].user].escrow \in Nat
  BY <1>1 DEF Typed, Balance
<1>4. AvailableDelta(r) = a /\ EscrowDelta(r) = 0
  BY <1>1 DEF AvailableDelta, EscrowDelta, AvailableSign, EscrowSign
<1>. QED BY <1>1, <1>2, <1>3, <1>4 DEF LegAllowed, Moved

(* What ensure_wallet commits, and what the credit commits: the payment     *)
(* becomes, or stays, a success for what was paid.                          *)
LEMMA SuccessKeeps ==
  ASSUME IInv, NEW s \in Sessions, pc[s] \in { "open", "credit" },
         NEW label \in { "credit", "mark" },
         Succeed(s), Goto(s, label), Typed(ledger', wallet'),
         lock' \in [Payments -> Sessions \cup { Nobody }],
         \A q \in Payments : q # PaymentOf[call[s]] => lock'[q] = lock[q],
         \A q \in Payments :
           CreditsOf(q)' = IF q # PaymentOf[call[s]] THEN CreditsOf(q)
                           ELSE IF label = "mark" THEN { paid[q].amount } ELSE {},
         label = "credit" => pc[s] = "open" /\ PaymentOf[call[s]] \in ahead',
         ahead \subseteq ahead', ahead' \subseteq Payments, hasWallet' \in [Users -> BOOLEAN],
         UNCHANGED <<inboxes, gateway, faults>>
  PROVE  IInv'
<1>. DEFINE p == PaymentOf[call[s]]  a == paid[p].amount
<1>1. /\ call[s] \in Events /\ p \in Payments /\ a \in Charges /\ a \in Nat
      /\ paid[p] = [amount |-> a, currency |-> "NGN"] /\ page[p] = "open" /\ CreditsOf(p) = {}
      /\ CreditedAmount(s) = a
  BY AboutToCredit
<1>2. /\ status' = [status EXCEPT ![p] = "success"]
      /\ amount' = [amount EXCEPT ![p] = a]
      /\ pc' = [pc EXCEPT ![s] = label] /\ call' = [call EXCEPT ![s] = call[s]]
      /\ UNCHANGED <<inbox, owed, page, paid, outages, restarts, denied, seen>>
  BY <1>1 DEF Succeed, Payment, Goto, Start, inboxes, gateway, faults
<1>3. /\ status \in [Payments -> PaymentStatus] /\ amount \in [Payments -> Nat]
      /\ lock \in [Payments -> Sessions \cup { Nobody }]
      /\ pc \in [Sessions -> Labels]
      /\ call \in [Sessions -> Payments \cup Events \cup { NoCall }] /\ call' = call
  BY <1>2 DEF IInv, TypeOK, Labels
<1>4. TypeOK'
  <2>1. "success" \in PaymentStatus BY DEF PaymentStatus
  <2>2. /\ status' \in [Payments -> PaymentStatus] /\ amount' \in [Payments -> Nat]
        /\ pc' \in [Sessions -> Labels]
    BY <1>1, <1>2, <1>3, <2>1 DEF Labels
  <2>3. \A t \in Sessions :
          /\ pc'[t] \in { "post", "asked" } => call'[t] \in Payments
          /\ pc'[t] \notin { "idle", "post", "asked" } => call'[t] \in Events
    BY <1>1, <1>2, <1>3 DEF IInv, TypeOK
  <2>. QED BY <1>2, <1>3, <2>2, <2>3 DEF IInv, TypeOK, InboxTyped, Labels
(* No other session is verifying p, or about to credit it. *)
<1>5. ASSUME NEW t \in Sessions, t # s, Verifying(t) \/ pc[t] = "credit"
      PROVE  PaymentOf[call[t]] \in Payments \ { p }
  <2>1. PaymentOf[call[t]] \in Payments
    BY <1>5, EventsArePayments DEF IInv, TypeOK, Verifying
  <2>2. /\ Verifying(s) \/ Holds(s, p) => lock[p] = s /\ status[p] # "success"
        /\ Verifying(s) \/ Holds(s, p) \/ (HasSucceeded(p) /\ pc[s] = "credit")
    BY DEF IInv, LockedWhileVerified, CreditsOnce, Verifying, Holds, Payment
  <2>3. ASSUME PaymentOf[call[t]] = p PROVE FALSE
    <3>1. CASE Verifying(t)
      BY <1>5, <2>2, <2>3, <3>1, DepositsAssumption
      DEF IInv, LockedWhileVerified, HasSucceeded, Payment
    <3>2. CASE pc[t] = "credit" /\ pc[s] = "credit"
      BY <1>5, <2>3, <3>2 DEF IInv, CreditsOnce, Payment
    <3>3. CASE pc[t] = "credit" /\ pc[s] # "credit"
      <4>1. Verifying(s) /\ lock[p] = s /\ status[p] # "success"
        BY <2>2, <3>3 DEF Verifying
      <4>2. Holds(t, p) \/ HasSucceeded(p)
        BY <2>3, <3>3 DEF IInv, CreditsOnce, Payment
      <4>. QED BY <1>5, <4>1, <4>2 DEF Holds, HasSucceeded
    <3>. QED BY <1>5, <3>1, <3>2, <3>3
  <2>. QED BY <2>1, <2>3
<1>6. AskedOnce' /\ PaidOnPage' /\ OpenPageIsKnown'
  <2>1. ASSUME NEW t \in Sessions, Asking(t)'
        PROVE  Asking(t) /\ call'[t] = call[t] /\ call[t] # p /\ call[t] \in Payments
    BY <1>1, <1>2, <1>3, <2>1 DEF IInv, TypeOK, AskedOnce, Asking
  <2>2. AskedOnce' BY <1>2, <1>3, <2>1 DEF IInv, AskedOnce
  <2>. QED BY <1>2, <1>3, <2>2 DEF IInv, PaidOnPage, OpenPageIsKnown
<1>7. LockedWhileVerified'
  <2>1. ASSUME NEW t \in Sessions, Verifying(t)'
        PROVE  Verifying(t) /\ t # s /\ PaymentOf[call[t]] \in Payments \ { p }
    <3>1. t # s /\ Verifying(t) BY <1>2, <1>3, <2>1 DEF Verifying
    <3>. QED BY <1>5, <3>1
  <2>. QED BY <1>2, <1>3, <2>1 DEF IInv, LockedWhileVerified, Payment
<1>8. CreditsOnce'
  <2>1. ASSUME NEW t \in Sessions, t # s, pc'[t] \in { "open", "credit" }
        PROVE  /\ pc[t] = pc'[t] /\ PaymentOf[call[t]] \in Payments \ { p }
               /\ paid'[PaymentOf[call[t]]].currency = "NGN"
    <3>1. pc[t] = pc'[t] BY <1>2, <1>3, <2>1
    <3>2. PaymentOf[call[t]] \in Payments \ { p } BY <1>5, <2>1, <3>1 DEF Verifying
    <3>. QED BY <1>2, <2>1, <3>1, <3>2 DEF IInv, CreditsOnce, Payment
  <2>2. paid'[p].currency = "NGN" BY <1>1, <1>2
  <2>3. ASSUME NEW t \in Sessions, t # s, pc'[t] = "credit"
        PROVE  /\ CreditsOf(PaymentOf[call[t]])' = {}
               /\ Holds(t, PaymentOf[call[t]])' \/ HasSucceeded(PaymentOf[call[t]])'
    <3>1. /\ CreditsOf(PaymentOf[call[t]]) = {}
          /\ Holds(t, PaymentOf[call[t]]) \/ HasSucceeded(PaymentOf[call[t]])
      BY <2>1, <2>3 DEF IInv, CreditsOnce, Payment
    <3>. QED BY <1>2, <1>3, <2>1, <2>3, <3>1 DEF Holds, HasSucceeded
  <2>4. ASSUME pc'[s] = "credit"
        PROVE  CreditsOf(p)' = {} /\ HasSucceeded(p)'
    <3>1. label = "credit" /\ p \in ahead' BY <1>2, <1>3, <2>4
    <3>. QED BY <1>1, <1>2, <1>3, <3>1 DEF HasSucceeded
  <2>5. ASSUME NEW t \in Sessions, NEW r \in Sessions, pc'[t] = "credit", pc'[r] = "credit",
               PaymentOf[call[t]] = PaymentOf[call[r]]
        PROVE  t = r
    <3>1. CASE t # s /\ r # s BY <2>1, <2>5, <3>1 DEF IInv, CreditsOnce, Payment
    <3>2. CASE t = s \/ r = s BY <2>1, <2>5, <3>2
    <3>. QED BY <3>1, <3>2
  <2>6. \A t \in Sessions : pc'[t] \in { "open", "credit" } => paid'[PaymentOf[call[t]]].currency = "NGN"
    BY <2>1, <2>2
  <2>7. \A t \in Sessions : pc'[t] = "credit" =>
          /\ CreditsOf(PaymentOf[call[t]])' = {}
          /\ Holds(t, PaymentOf[call[t]])' \/ HasSucceeded(PaymentOf[call[t]])'
    BY <2>3, <2>4
  <2>. QED BY <1>3, <2>5, <2>6, <2>7 DEF CreditsOnce, Payment
<1>9. CreditedAsPaid'
  <2>. SUFFICES ASSUME NEW q \in Payments
                PROVE  /\ CreditsOf(q)' # {} =>
                            status'[q] = "success" /\ CreditsOf(q)' = { amount'[q] }
                       /\ status'[q] = "success" =>
                            paid'[q] = [amount |-> amount'[q], currency |-> "NGN"]
                       /\ status'[q] = "success" /\ CreditsOf(q)' = {} =>
                            q \in ahead' /\ (Crediting(q)' \/ amount'[q] = 0 \/ restarts' > 0)
    BY DEF CreditedAsPaid
  <2>1. CASE q = p
    <3>1. /\ status'[p] = "success" /\ amount'[p] = a
          /\ paid'[p] = [amount |-> a, currency |-> "NGN"]
      BY <1>1, <1>2, <1>3
    <3>2. CASE label = "mark"
      <4>1. CreditsOf(q)' = { a } BY <2>1, <3>2
      <4>. QED BY <2>1, <3>1, <4>1
    <3>3. CASE label = "credit"
      <4>1. CreditsOf(q)' = {} /\ q \in ahead' BY <2>1, <3>3
      <4>2. pc'[s] = "credit" /\ PaymentOf[call'[s]] = q BY <1>2, <1>3, <2>1, <3>3
      <4>3. Crediting(q)' BY <4>2 DEF Crediting, Payment
      <4>. QED BY <2>1, <3>1, <4>1, <4>3
    <3>. QED BY <3>2, <3>3
  <2>2. CASE q # p
    <3>1. /\ status'[q] = status[q] /\ amount'[q] = amount[q] /\ paid' = paid
          /\ restarts' = restarts /\ CreditsOf(q)' = CreditsOf(q)
      BY <1>2, <1>3, <2>2
    <3>2. Crediting(q) => Crediting(q)'
      BY <1>2, <1>3, <2>2 DEF Crediting, Payment
    <3>. QED BY <3>1, <3>2 DEF IInv, CreditedAsPaid
  <2>. QED BY <2>1, <2>2
<1>. QED BY <1>4, <1>6, <1>7, <1>8, <1>9 DEF IInv

LEMMA EnsureWalletKeeps ==
  ASSUME IInv, NEW s \in Sessions, EnsureWallet(s)
  PROVE  IInv'
<1>. DEFINE p == PaymentOf[call[s]]
<1>1. /\ pc[s] = "open" /\ p \in Payments /\ CreditsOf(p) = {}
      /\ PayerOf[p] \in Users
  BY AboutToCredit, PayersAreUsers DEF EnsureWallet
<1>2. /\ Typed(ledger', wallet')
      /\ \A q \in Payments : CreditsOf(q)' = IF q # p THEN CreditsOf(q) ELSE {}
  <2>1. Typed(ledger', wallet') /\ \A q : CreditsOf(q)' = CreditsOf(q)
    BY NothingPosted DEF EnsureWallet, IInv, TypeOK
  <2>. QED BY <1>1, <2>1
<1>3. /\ lock' \in [Payments -> Sessions \cup { Nobody }]
      /\ \A q \in Payments : q # p => lock'[q] = lock[q]
      /\ hasWallet' \in [Users -> BOOLEAN]
      /\ ahead' = ahead \cup { p } /\ ahead' \subseteq Payments
  BY <1>1 DEF EnsureWallet, Free, Payment, IInv, TypeOK
<1>4. /\ Succeed(s) /\ Goto(s, "credit") /\ UNCHANGED <<inboxes, gateway, faults>>
      /\ ahead \subseteq ahead' /\ p \in ahead'
  BY <1>3 DEF EnsureWallet
<1>. QED BY <1>1, <1>2, <1>3, <1>4, SuccessKeeps

LEMMA CreditKeeps ==
  ASSUME IInv, NEW s \in Sessions, Credit(s)
  PROVE  IInv'
<1>. DEFINE p == PaymentOf[call[s]]  a == paid[p].amount
<1>1. /\ pc[s] = "credit" /\ p \in Payments /\ a \in Charges /\ CreditsOf(p) = {}
      /\ Book!Post(DepositOf[p][a])
  BY AboutToCredit DEF Credit, Payment
<1>2. /\ Typed(ledger', wallet')
      /\ \A q \in Payments :
           CreditsOf(q)' = IF q # p THEN CreditsOf(q) ELSE { paid[q].amount }
  <2>1. /\ Typed(ledger', wallet')
        /\ \A q \in Payments : CreditsOf(q)' = IF q = p THEN { a } ELSE CreditsOf(q)
    BY <1>1, CreditPosted DEF IInv, TypeOK
  <2>. QED BY <2>1
<1>3. /\ lock' \in [Payments -> Sessions \cup { Nobody }]
      /\ \A q \in Payments : q # p => lock'[q] = lock[q]
      /\ hasWallet' \in [Users -> BOOLEAN] /\ ahead' = ahead /\ ahead \subseteq Payments
  BY <1>1 DEF Credit, Drop, Payment, IInv, TypeOK
<1>4. Succeed(s) /\ Goto(s, "mark") /\ UNCHANGED <<inboxes, gateway, faults>>
  BY DEF Credit
<1>. QED BY <1>1, <1>2, <1>3, <1>4, SuccessKeeps

(* A refusal changes no payment, and is of a charge of nothing. *)
LEMMA RefuseCreditKeeps ==
  ASSUME IInv, NEW s \in Sessions, RefuseCredit(s)
  PROVE  IInv'
<1>. DEFINE p == PaymentOf[call[s]]  a == paid[p].amount
<1>1. /\ pc[s] = "credit" /\ call[s] \in Events /\ p \in Payments /\ a \in Charges
      /\ ~Allowed(wallet, DepositOf[p][a])
  BY AboutToCredit DEF RefuseCredit, Payment
<1>2. a = 0 BY <1>1, RefusedIsZero DEF IInv, TypeOK
<1>3. status[p] = "success" => amount[p] = 0
  BY <1>1, <1>2 DEF IInv, CreditsOnce, Holds, HasSucceeded, Payment
<1>4. InboxTyped'
  BY <1>1 DEF RefuseCredit, Acknowledge, InboxTyped, WebhookEventStatus, IInv, TypeOK
<1>5. /\ lock' \in [Payments -> Sessions \cup { Nobody }]
      /\ \A q \in Payments : lock'[q] # lock[q] => lock[q] \in { s, Nobody }
  BY <1>1 DEF RefuseCredit, Drop, Payment, IInv, TypeOK
<1>6. /\ seen' \in [Sessions -> Seen] /\ denied' \subseteq Events
      /\ outages' \in 0 .. MaxOutages /\ restarts' \in 0 .. MaxRestarts /\ restarts' >= restarts
  BY DepositsAssumption DEF RefuseCredit, Finish, faults, IInv, TypeOK, Seen
<1>. QED BY <1>3, <1>4, <1>5, <1>6, HandlingKeeps DEF RefuseCredit, Finish, Payment

(* A step that no payment and no session takes part in. *)
LEMMA ElsewhereKeeps ==
  ASSUME IInv, UNCHANGED <<book, row, lock, gateway, control, faults>>,
         hasWallet' \in [Users -> BOOLEAN], InboxTyped'
  PROVE  IInv'
<1>1. /\ Typed(ledger', wallet') /\ \A p : CreditsOf(p)' = CreditsOf(p)
      /\ UNCHANGED <<status, amount, ahead, lock, page, paid, pc, call, seen>>
      /\ UNCHANGED <<outages, restarts, denied>>
  BY NothingPosted DEF IInv, TypeOK, row, gateway, control, faults
<1>2. TypeOK' BY <1>1 DEF IInv, TypeOK
<1>3. AskedOnce' /\ PaidOnPage' /\ OpenPageIsKnown'
  BY <1>1 DEF IInv, AskedOnce, Asking, PaidOnPage, OpenPageIsKnown
<1>4. LockedWhileVerified' BY <1>1 DEF IInv, LockedWhileVerified, Verifying, Payment
<1>5. CreditsOnce' BY <1>1 DEF IInv, CreditsOnce, Holds, HasSucceeded, Payment
<1>6. CreditedAsPaid' BY <1>1 DEF IInv, CreditedAsPaid, Crediting, Payment
<1>. QED BY <1>2, <1>3, <1>4, <1>5, <1>6 DEF IInv

(* A customer pays on a page that has not been paid on. *)
LEMMA PayKeeps ==
  ASSUME IInv, NEW p \in Payments, Pay(p)
  PROVE  IInv'
<1>1. /\ UNCHANGED <<inbox, hasWallet, status, amount, ahead, lock, page, pc, call, seen>>
      /\ UNCHANGED <<outages, restarts, denied>>
      /\ Typed(ledger', wallet') /\ \A q : CreditsOf(q)' = CreditsOf(q)
      /\ page[p] = "open" /\ paid[p] = NoCharge
  BY NothingPosted DEF Pay, IInv, TypeOK, row, control, faults
<1>2. /\ paid' \in [Payments -> { NoCharge } \cup [amount : Charges, currency : { "NGN", "other" }]]
      /\ \A q \in Payments \ { p } : paid'[q] = paid[q]
  BY DEF Pay, IInv, TypeOK
<1>3. owed' \subseteq Events BY DEF Pay, IInv, TypeOK, InboxTyped
<1>4. status[p] # "success"
  <2>1. paid[p].currency = "none" BY <1>1 DEF NoCharge
  <2>2. status[p] = "success" => paid[p] = [amount |-> amount[p], currency |-> "NGN"]
    BY DEF IInv, CreditedAsPaid
  <2>3. [amount |-> amount[p], currency |-> "NGN"].currency = "NGN" OBVIOUS
  <2>. QED BY <2>1, <2>2, <2>3
<1>5. TypeOK' BY <1>1, <1>2, <1>3 DEF IInv, TypeOK, InboxTyped
<1>6. AskedOnce' /\ LockedWhileVerified' /\ OpenPageIsKnown'
  BY <1>1 DEF IInv, AskedOnce, Asking, LockedWhileVerified, Verifying, Payment, OpenPageIsKnown
<1>7. PaidOnPage' BY <1>1, <1>2 DEF IInv, PaidOnPage
<1>8. CreditedAsPaid'
  <2>1. \A q \in Payments : Crediting(q)' <=> Crediting(q) BY <1>1 DEF Crediting, Payment
  <2>. QED BY <1>1, <1>2, <1>4, <2>1 DEF IInv, CreditedAsPaid
<1>9. CreditsOnce'
  <2>1. ASSUME NEW t \in Sessions, pc[t] \in { "open", "credit" }
        PROVE  PaymentOf[call[t]] \in Payments \ { p }
    <3>1. /\ PaymentOf[call[t]] \in Payments
          /\ paid[PaymentOf[call[t]]] = [amount |-> CreditedAmount(t), currency |-> "NGN"]
      BY <2>1, AboutToCredit
    <3>2. paid[p].currency = "none" BY <1>1 DEF NoCharge
    <3>. QED BY <3>1, <3>2
  <2>. QED BY <1>1, <1>2, <2>1 DEF IInv, CreditsOnce, Holds, HasSucceeded, Payment
<1>. QED BY <1>5, <1>6, <1>7, <1>8, <1>9 DEF IInv

(* The request that asks the provider for a page is the only one to touch  *)
(* the payment until the customer is given the page.                       *)
LEMMA AskingKeeps ==
  ASSUME IInv, NEW s \in Sessions,
         \/ \E p \in Payments : RequestFund(s, p)
         \/ InitializeTransaction(s) \/ HearPage(s) \/ HearError(s)
  PROVE  IInv'
<1>1. PICK p \in Payments :
        /\ RequestFund(s, p) \/ InitializeTransaction(s) \/ HearPage(s) \/ HearError(s)
        /\ pc[s] \in { "idle", "post", "asked" } /\ pc'[s] \in { "idle", "post", "asked" }
        /\ \A t \in Sessions : t # s => pc'[t] = pc[t] /\ call'[t] = call[t]
        /\ status[p] # "success" /\ status'[p] # "success"
        /\ \A q \in Payments : q # p => status'[q] = status[q]
        /\ UNCHANGED <<amount, ahead, lock, paid, restarts>>
  BY DEF RequestFund, InitializeTransaction, HearPage, HearError, Start, Goto, Finish, row, gateway,
         faults, IInv, TypeOK, AskedOnce, Asking
<1>2. Typed(ledger', wallet') /\ \A q : CreditsOf(q)' = CreditsOf(q)
  BY NothingPosted DEF RequestFund, InitializeTransaction, HearPage, HearError, IInv, TypeOK
<1>3. TypeOK' /\ AskedOnce' /\ LockedWhileVerified' /\ PaidOnPage' /\ OpenPageIsKnown'
  <2>. USE <1>2 DEF IInv, TypeOK, PaymentStatus, AskedOnce, Asking, LockedWhileVerified, Verifying,
             Payment, PaidOnPage, OpenPageIsKnown, InboxTyped,
             inboxes, row, gateway, control, faults, Start, Goto, Finish, NoCall, Nothing
  <2>1. ASSUME NEW q \in Payments, RequestFund(s, q)
        PROVE  TypeOK' /\ AskedOnce' /\ LockedWhileVerified' /\ PaidOnPage' /\ OpenPageIsKnown'
    BY <2>1 DEF RequestFund
  <2>2. CASE InitializeTransaction(s)
    BY <2>2 DEF InitializeTransaction
  <2>3. CASE HearPage(s)
    BY <2>3 DEF HearPage
  <2>4. CASE HearError(s)
    BY <2>4 DEF HearError
  <2>. QED BY <1>1, <2>1, <2>2, <2>3, <2>4
(* No session that is not asking has been touched, nor any success. *)
<1>4. ASSUME NEW t \in Sessions, pc'[t] \in { "open", "credit" } \/ pc[t] \in { "open", "credit" }
      PROVE  pc'[t] = pc[t] /\ Payment(t)' = Payment(t)
  BY <1>1, <1>4 DEF Payment
<1>5. CreditsOnce'
  <2>1. ASSUME NEW t \in Sessions, pc'[t] = "credit"
        PROVE  /\ CreditsOf(Payment(t))' = {}
               /\ (Holds(t, Payment(t)) \/ HasSucceeded(Payment(t)))'
    <3>1. /\ pc[t] = "credit" /\ Payment(t)' = Payment(t) /\ Payment(t) \in Payments
          /\ CreditsOf(Payment(t)) = {} /\ (Holds(t, Payment(t)) \/ HasSucceeded(Payment(t)))
      BY <1>4, <2>1, AboutToCredit DEF IInv, CreditsOnce, Payment
    <3>. QED BY <1>1, <1>2, <3>1 DEF Holds, HasSucceeded
  <2>2. \A t \in Sessions : pc'[t] \in { "open", "credit" } => paid'[Payment(t)'].currency = "NGN"
    BY <1>1, <1>4 DEF IInv, CreditsOnce
  <2>3. \A t, r \in Sessions :
          pc'[t] = "credit" /\ pc'[r] = "credit" /\ Payment(t)' = Payment(r)' => t = r
    BY <1>4 DEF IInv, CreditsOnce
  <2>. QED BY <2>1, <2>2, <2>3 DEF CreditsOnce
<1>6. CreditedAsPaid'
  <2>1. \A q \in Payments : Crediting(q)' <=> Crediting(q) BY <1>4 DEF Crediting
  <2>. QED BY <1>1, <1>2, <2>1 DEF IInv, CreditedAsPaid
<1>. QED BY <1>3, <1>5, <1>6 DEF IInv

(* One step per action. *)
LEMMA StepKept ==
  ASSUME IInv, [Next]_vars
  PROVE  IInv'
<1>. Typed(ledger, wallet) /\ InboxTyped
  BY DEF IInv, TypeOK
<1>a. /\ \A s \in Sessions : pc[s] \in Handling => call[s] \in Events
      /\ \A e \in Events : PaymentOf[e] \in Payments
      /\ NoCall \in Events \cup { NoCall }
      /\ { "handle", "verify", "verified", "open", "credit", "mark" } \subseteq Handling
      /\ "idle" \notin Handling
      /\ outages \in 0 .. MaxOutages /\ restarts \in 0 .. MaxRestarts
      /\ seen \in [Sessions -> Seen] /\ denied \subseteq Events
      /\ lock \in [Payments -> Sessions \cup { Nobody }]
  BY DepositsAssumption DEF IInv, TypeOK, Labels, Handling, Seen
<1>f. ASSUME NEW s \in Sessions, Finish(s)
      PROVE  seen' \in [Sessions -> Seen]
  BY <1>a, <1>f DEF Finish, Seen
<1>r. restarts >= restarts
  BY <1>a
<1>1. CASE UNCHANGED vars
  BY <1>1, ElsewhereKeeps DEF vars, book, row, gateway, control, faults, IInv, TypeOK, InboxTyped
<1>2. ASSUME NEW s \in Sessions, NEW p \in Payments, RequestFund(s, p) PROVE IInv'
  BY <1>2, AskingKeeps
<1>3. ASSUME NEW s \in Sessions, InitializeTransaction(s) \/ HearPage(s) \/ HearError(s)
      PROVE  IInv'
  BY <1>3, AskingKeeps
<1>4. ASSUME NEW p \in Payments, Pay(p) PROVE IInv'
  BY <1>4, PayKeeps
<1>5. ASSUME NEW s \in Sessions, NEW e \in Events, Deliver(s, e) PROVE IInv'
  <2>1. InboxTyped' BY <1>5, InboxKept DEF Deliver
  <2>2. CASE Start(s, "handle", e)
    BY <1>5, <1>a, <1>r, <2>1, <2>2, HandlingKeeps DEF Deliver, Start, faults
  <2>3. CASE UNCHANGED control
    BY <1>5, <2>1, <2>3, ElsewhereKeeps DEF Deliver, control, IInv, TypeOK
  <2>. QED BY <1>5, <2>2, <2>3 DEF Deliver
<1>6. ASSUME NEW s \in Sessions, LockPayment(s) PROVE IInv'
  <2>. DEFINE p == PaymentOf[call[s]]
  <2>1. /\ call[s] \in Events /\ p \in Payments /\ lock[p] = Nobody /\ status[p] = "pending"
        /\ lock' = [lock EXCEPT ![p] = s] /\ Goto(s, "verify") /\ pc[s] = "handle"
        /\ UNCHANGED <<book, hasWallet, row, gateway, outages, restarts, denied>> /\ InboxTyped'
    BY <1>6, <1>a DEF LockPayment, Payment, inboxes, InboxTyped, faults
  <2>2. /\ lock'[p] = s /\ lock' \in [Payments -> Sessions \cup { Nobody }]
        /\ \A q \in Payments : lock'[q] # lock[q] => lock[q] \in { s, Nobody }
    BY <1>a, <2>1
  <2>. QED BY <1>a, <1>r, <2>1, <2>2, HandlingKeeps DEF Goto, Start
<1>7. ASSUME NEW s \in Sessions, HandleNothing(s) PROVE IInv'
  <2>1. InboxTyped' BY <1>7, <1>a, InboxKept DEF HandleNothing
  <2>. QED BY <1>7, <1>a, <1>f, <1>r, <2>1, HandlingKeeps DEF HandleNothing, Finish, faults
<1>8. ASSUME NEW s \in Sessions, HearVerify(s) PROVE IInv'
  <2>a. seen' \in [Sessions -> Seen]
    BY <1>8, <1>a DEF HearVerify, Seen
  <2>b. outages' \in 0 .. MaxOutages
    BY <1>8, <1>a, DepositsAssumption DEF HearVerify
  <2>c. restarts' \in 0 .. MaxRestarts /\ restarts' >= restarts /\ InboxTyped' /\ denied' \subseteq Events
    BY <1>8, <1>a, <1>r DEF HearVerify, inboxes, InboxTyped
  <2>2. /\ call[s] \in Events /\ pc[s] = "verify"
        /\ lock'[PaymentOf[call[s]]] = s /\ status[PaymentOf[call[s]]] # "success"
    BY <1>8, <1>a DEF HearVerify, IInv, LockedWhileVerified, Verifying, Payment
  <2>3. call' = [call EXCEPT ![s] = call[s]]
    BY <1>8 DEF HearVerify, IInv, TypeOK
  <2>. QED BY <1>8, <1>a, <2>a, <2>b, <2>c, <2>2, <2>3, HandlingKeeps DEF HearVerify
<1>9. ASSUME NEW s \in Sessions, VerifyFailed(s) \/ IgnoreForeign(s) \/ NotVerified(s) PROVE IInv'
  <2>1. InboxTyped' BY <1>9, <1>a, InboxKept DEF VerifyFailed, IgnoreForeign, NotVerified
  <2>2. denied' \subseteq Events
    <3>1. pc[s] \in Handling /\ (UNCHANGED denied \/ denied' = denied \cup { call[s] })
      BY <1>9, <1>a DEF VerifyFailed, IgnoreForeign, NotVerified, faults
    <3>. QED BY <1>a, <3>1
  <2>. QED
    BY <1>9, <2>1, <2>2, FinishingKeeps DEF VerifyFailed, IgnoreForeign, NotVerified, Verifying, faults
<1>10. ASSUME NEW s \in Sessions, LookUpWallet(s) PROVE IInv'
  <2>. DEFINE label == IF hasWallet[PayerOf[Payment(s)]] THEN "credit" ELSE "open"
  <2>1. /\ pc[s] = "verified" /\ call[s] \in Events /\ label \in Handling
        /\ lock[PaymentOf[call[s]]] = s /\ status[PaymentOf[call[s]]] # "success"
        /\ paid[PaymentOf[call[s]]].currency = "NGN"
    BY <1>10, <1>a DEF LookUpWallet, Charge, IInv, LockedWhileVerified, Verifying, Payment
  <2>2. /\ pc' = [pc EXCEPT ![s] = label] /\ call' = [call EXCEPT ![s] = call[s]]
        /\ UNCHANGED <<book, hasWallet, inbox, owed, row, lock, gateway, outages, restarts, denied, seen>>
    BY <1>10 DEF LookUpWallet, Goto, Start, inboxes, faults
  <2>3. InboxTyped' BY <2>2 DEF InboxTyped
  <2>. HIDE DEF label
  <2>. QED BY <1>a, <1>r, <2>1, <2>2, <2>3, HandlingKeeps
<1>11. ASSUME NEW s \in Sessions, EnsureWallet(s) PROVE IInv'
  BY <1>11, EnsureWalletKeeps
<1>12. ASSUME NEW s \in Sessions, RefuseCredit(s) PROVE IInv'
  BY <1>12, RefuseCreditKeeps
<1>13. ASSUME NEW s \in Sessions, Credit(s) PROVE IInv'
  BY <1>13, CreditKeeps
<1>14. ASSUME NEW s \in Sessions, Mark(s) PROVE IInv'
  <2>1. InboxTyped' BY <1>14, <1>a, InboxKept DEF Mark
  <2>. QED BY <1>14, <1>a, <1>f, <1>r, <2>1, HandlingKeeps DEF Mark, Finish, faults
<1>15. ASSUME NEW s \in Sessions, Restart(s) PROVE IInv'
  <2>1. /\ lock' \in [Payments -> Sessions \cup { Nobody }]
        /\ \A q \in Payments : lock'[q] # lock[q] => lock[q] \in { s, Nobody }
    BY <1>15, <1>a DEF Restart
  <2>2. /\ outages' \in 0 .. MaxOutages /\ restarts' \in 0 .. MaxRestarts /\ InboxTyped'
        /\ restarts' >= restarts /\ restarts' > 0 /\ denied' \subseteq Events
    BY <1>15, <1>a, DepositsAssumption DEF Restart, inboxes, InboxTyped
  <2>. QED BY <1>15, <1>a, <1>f, <2>1, <2>2, HandlingKeeps DEF Restart, Finish
<1>16. ASSUME NEW u \in Users, OpenWallet(u) PROVE IInv'
  <2>1. InboxTyped' BY <1>16 DEF OpenWallet, inboxes, InboxTyped
  <2>2. hasWallet' \in [Users -> BOOLEAN] BY <1>16 DEF OpenWallet, IInv, TypeOK
  <2>. QED BY <1>16, <2>1, <2>2, ElsewhereKeeps DEF OpenWallet
<1>. QED
  BY <1>1, <1>2, <1>3, <1>4, <1>5, <1>6, <1>7, <1>8, <1>9, <1>10, <1>11, <1>12, <1>13, <1>14,
     <1>15, <1>16 DEF Next, Proceed

(***************************************************************************)
(* Types of the deposits' rows, locks and events.                          *)
(***************************************************************************)
THEOREM TypeCorrect == Spec => []TypeOK
<1>1. IInv => TypeOK BY DEF IInv
<1>. QED BY <1>1, InitKept, StepKept, PTL DEF Spec

(***************************************************************************)
(* A credit is of a success, once, with what the customer paid; and a      *)
(* success has its credit unless ensure_wallet committed it ahead, for a   *)
(* payer without a wallet, and the credit is still to come, was refused or *)
(* died with its worker (paystack_webhook_service.py:222-224, 242-243).    *)
(* Nothing is assumed of who has a wallet.                                 *)
(***************************************************************************)
THEOREM AlwaysCreditedAsPaid == Spec => []CreditedAsPaid
<1>1. IInv => CreditedAsPaid BY DEF IInv
<1>. QED BY <1>1, InitKept, StepKept, PTL DEF Spec

(***************************************************************************)
(* A page the customer can pay on is that of a payment the webhook finds   *)
(* pending, or already credited (wallet_service.py:120-122).               *)
(***************************************************************************)
THEOREM OpenPageIsAlwaysKnown == Spec => []OpenPageIsKnown
<1>1. IInv => OpenPageIsKnown BY DEF IInv
<1>. QED BY <1>1, InitKept, StepKept, PTL DEF Spec

------------------------------------------------------------------------------
(* A credit is a movement of the book; no other step touches it. *)
LEMMA StepOfBook ==
  ASSUME IInv, [Next]_vars
  PROVE  [Book!Next]_(Book!vars)
<1>1. ASSUME NEW s \in Sessions, Credit(s) PROVE \E o \in Operations : Book!Post(o)
  BY <1>1, AboutToCredit DEF Credit, Payment
<1>2. ASSUME NEW s \in Sessions,
             \/ \E p \in Payments : RequestFund(s, p)
             \/ \E e \in Events : Deliver(s, e)
             \/ InitializeTransaction(s) \/ HearPage(s) \/ HearError(s)
             \/ LockPayment(s) \/ HandleNothing(s) \/ HearVerify(s)
             \/ VerifyFailed(s) \/ IgnoreForeign(s) \/ NotVerified(s) \/ LookUpWallet(s)
             \/ EnsureWallet(s) \/ RefuseCredit(s) \/ Mark(s)
             \/ Restart(s)
      PROVE  UNCHANGED book
  BY <1>2 DEF RequestFund, Deliver, InitializeTransaction, HearPage, HearError, LockPayment,
     HandleNothing, HearVerify, VerifyFailed, IgnoreForeign, NotVerified, LookUpWallet,
     EnsureWallet, RefuseCredit, Mark, Restart
<1>3. (\E p \in Payments : Pay(p)) \/ (\E u \in Users : OpenWallet(u)) \/ UNCHANGED vars
        => UNCHANGED book
  BY DEF Pay, OpenWallet, vars, book
<1>. QED
  BY <1>1, <1>2, <1>3 DEF Next, Proceed, Book!Next, Book!vars, book

(***************************************************************************)
(* The credit of a payment is a movement of the ledger's book              *)
(* (paystack_webhook_service.py calls apply_entry), and the only one,      *)
(* whatever is delivered twice, late or across a crash.                    *)
(***************************************************************************)
THEOREM MoneyMovesByTheBook == Spec => Book!Spec
<1>1. Init => Book!Init
  BY DEF Init
<1>2. IInv /\ [Next]_vars => [Book!Next]_(Book!vars)
  BY StepOfBook
<1>. QED
  BY <1>1, <1>2, InitKept, StepKept, PTL DEF Spec, Book!Spec

(***************************************************************************)
(* So every balance is what the wallet's rows account for and add up to, no *)
(* reference has moved money twice and no transfer is half recorded        *)
(* (wallet_repository.py:3-21), whatever these handlers do.                *)
(***************************************************************************)
THEOREM LedgerAlwaysKept ==
  Spec => [](Sound(ledger, wallet) /\ Whole(ledger) /\ SumsUp(ledger, wallet))
<1>. DEFINE Kept == Sound(ledger, wallet) /\ Whole(ledger)
<1>1. Book!Init => Kept
  BY NothingIsKept DEF Book!Init, Book!Empty, Empty
<1>2. Kept /\ [Book!Next]_(Book!vars) => Kept'
  <2>. SUFFICES ASSUME Kept, [Book!Next]_(Book!vars) PROVE Kept'
    OBVIOUS
  <2>1. ASSUME NEW o \in Operations, Book!Post(o) PROVE Kept'
    BY <2>1, PostOfBook, OperationKeeps
  <2>2. CASE UNCHANGED Book!vars
    BY <2>2 DEF Book!vars
  <2>. QED
    BY <2>1, <2>2 DEF Book!Next
<1>3. Kept => Kept /\ SumsUp(ledger, wallet)
  BY AccountsSumUp DEF Sound
<1>. QED
  BY MoneyMovesByTheBook, <1>1, <1>2, <1>3, PTL DEF Book!Spec
=============================================================================
