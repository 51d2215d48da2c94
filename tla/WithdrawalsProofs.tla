-------------------------- MODULE WithdrawalsProofs --------------------------
(***************************************************************************)
(* What a withdrawal keeps for any number of sessions, workers, outages    *)
(* and restarts.                                                           *)
(*                                                                         *)
(* The argument has two layers.  StatusInv needs nothing of the provider:  *)
(* no transfer is asked for before the debit is in the ledger, and the     *)
(* row's statuses follow the ledger since they are committed with it.      *)
(* EvidenceInv says that whatever makes a handler give the money back, or  *)
(* call the withdrawal a success, is evidence about the transfer that      *)
(* stays good while the handler is on its way: an answer heard, an event   *)
(* owed or in hand.  A POST that ends in an error is no evidence, and once *)
(* one has been taken for a refusal the invariant promises nothing of the  *)
(* credit (doubtful), while a success is still evidence of a transfer.     *)
(***************************************************************************)
EXTENDS Withdrawals, LedgerEntriesProofs

Debited == HasRows(ledger, Debit)

Before == { "debit", "post" }

StatusInv ==
  /\ TypeOK
  /\ transaction = "none" => transfer = "none" /\ ~Returned
  /\ transfer # "none" => Debited
  /\ owed # {} => transfer # "none"
  /\ Returned => transfer # "none"
  /\ \A s \in Sessions :
       /\ pc[s] \in Before => transaction # "none" /\ transfer = "none"
       /\ pc[s] = "post" => Debited
       /\ pc[s] \in { "sent", "record", "reverse", "settle" } => transfer # "none"
       /\ call[s] \in Events \/ seen[s] \in Sent => transfer # "none"
       /\ pc[s] \in { "handle", "verify", "verified", "mark" } => call[s] \in Events
  /\ \A s, t \in Sessions : pc[s] \in Before /\ pc[t] \in Before => s = t
  /\ FailedMeansReturned

Paid == { "success", "reversed" }

EvidenceInv ==
  /\ "transfer.failed" \in owed => transfer = "failed"
  /\ "transfer.reversed" \in owed => transfer = "reversed"
  /\ \A s \in Sessions :
       /\ call[s] = "transfer.failed" => transfer = "failed"
       /\ call[s] = "transfer.reversed" => transfer = "reversed"
       /\ seen[s] \in { "failed", "reversed" } => transfer \in Unpaid
       /\ pc[s] = "reverse" => transfer \in Unpaid \/ doubtful
       /\ seen[s] = "success" \/ pc[s] = "settle" => transfer \in Paid
  /\ transaction = "success" => transfer \in Paid
  /\ ReturnedOnlyIfUnpaid

------------------------------------------------------------------------------
(* A step of the book, in terms of the operators of LedgerEntries. *)
LEMMA PostOfBook ==
  ASSUME NEW o \in Operations, Book!Post(o)
  PROVE  /\ HasNoRow(ledger, o)
         /\ Allowed(wallet, o)
         /\ wallet' = After(wallet, o)
         /\ ledger' = RecordedAll(ledger, wallet, o)
<1>1. HasNoRow(ledger, o)
  BY DEF HasNoRow, HasRow, RefsOf, Book!HasNoRow, Book!HasRow, Book!RefsOf, Book!Post
<1>2. /\ \A r : Book!AvailableDelta(r) = AvailableDelta(r)
      /\ \A r : Book!EscrowDelta(r) = EscrowDelta(r)
  BY DEF AvailableDelta, EscrowDelta, AvailableSign, EscrowSign,
         Book!AvailableDelta, Book!EscrowDelta, Book!AvailableSign, Book!EscrowSign
<1>3. \A b, r : Book!Moved(b, r) = Moved(b, r)
  BY <1>2 DEF Moved, Book!Moved
<1>4. /\ \A b, r : Book!LegAllowed(b, r) <=> LegAllowed(b, r)
      /\ \A w, r : Book!AfterLeg(w, r) = AfterLeg(w, r)
      /\ \A w, r : Book!RowOf(w, r) = RowOf(w, r)
  BY <1>2, <1>3 DEF LegAllowed, AfterLeg, RowOf, Book!LegAllowed, Book!AfterLeg, Book!RowOf
<1>5. \A l, w, r : Book!Recorded(l, w, r) = Recorded(l, w, r)
  BY <1>4 DEF Recorded, Book!Recorded
<1>6. /\ Book!Allowed(wallet, o) <=> Allowed(wallet, o)
      /\ Book!After(wallet, o) = After(wallet, o)
      /\ Book!RecordedAll(ledger, wallet, o) = RecordedAll(ledger, wallet, o)
  BY <1>4, <1>5 DEF Allowed, After, RecordedAll, Book!Allowed, Book!After, Book!RecordedAll
<1>. QED
  BY <1>1, <1>6 DEF Book!Post

(* What a movement of money keeps and adds. *)
LEMMA PostKeeps ==
  ASSUME Typed(ledger, wallet), NEW o \in Operations, Book!Post(o)
  PROVE  /\ Typed(ledger', wallet')
         /\ HasRows(ledger', o)
         /\ \A p \in Operations \ {o} : HasRows(ledger', p) <=> HasRows(ledger, p)
<1>1. /\ HasNoRow(ledger, o) /\ Allowed(wallet, o)
      /\ wallet' = After(wallet, o) /\ ledger' = RecordedAll(ledger, wallet, o)
  BY PostOfBook
<1>. QED
  BY <1>1, OperationTyped, OperationRows

LEMMA OperationsApart ==
  /\ Debit \in Operations /\ Reversal \in Operations
  /\ OtherOperations \subseteq Operations
  /\ Debit # Reversal /\ Debit \notin OtherOperations /\ Reversal \notin OtherOperations
BY WithdrawalsAssumption

(* The three ways a step can treat the money, as the two facts see them. *)
LEMMA DebitPosted ==
  ASSUME Typed(ledger, wallet), Book!Post(Debit)
  PROVE  Typed(ledger', wallet') /\ Debited' /\ Returned' = Returned
<1>1. /\ Typed(ledger', wallet') /\ HasRows(ledger', Debit)
      /\ HasRows(ledger', Reversal) <=> HasRows(ledger, Reversal)
  BY PostKeeps, OperationsApart
<1>. QED
  BY <1>1 DEF Debited, Returned, HasRows

LEMMA ReversalPosted ==
  ASSUME Typed(ledger, wallet), Book!Post(Reversal)
  PROVE  Typed(ledger', wallet') /\ Returned' /\ Debited' = Debited
<1>1. /\ Typed(ledger', wallet') /\ HasRows(ledger', Reversal)
      /\ HasRows(ledger', Debit) <=> HasRows(ledger, Debit)
  BY PostKeeps, OperationsApart
<1>. QED
  BY <1>1 DEF Debited, Returned, HasRows

LEMMA OtherPosted ==
  ASSUME Typed(ledger, wallet), NEW o \in OtherOperations, Book!Post(o)
  PROVE  Typed(ledger', wallet') /\ Returned' = Returned /\ Debited' = Debited
<1>1. /\ Typed(ledger', wallet')
      /\ HasRows(ledger', Reversal) <=> HasRows(ledger, Reversal)
      /\ HasRows(ledger', Debit) <=> HasRows(ledger, Debit)
  BY PostKeeps, OperationsApart
<1>. QED
  BY <1>1 DEF Debited, Returned, HasRows

LEMMA NothingPosted ==
  ASSUME Typed(ledger, wallet), UNCHANGED book
  PROVE  Typed(ledger', wallet') /\ Returned' = Returned /\ Debited' = Debited
<1>1. ledger' = ledger /\ wallet' = wallet
  BY DEF book
<1>. QED
  BY <1>1 DEF Debited, Returned, HasRows, HasRow, Typed

------------------------------------------------------------------------------
LEMMA InitStatus == Init => StatusInv
<1>. SUFFICES ASSUME Init PROVE StatusInv
  OBVIOUS
<1>1. wallet = [u \in Users |-> Empty] /\ ledger = [u \in Users |-> << >>]
  BY DEF Init, Book!Init, Empty, Book!Empty
<1>2. Typed(ledger, wallet)
  BY <1>1 DEF Typed, Empty, Balance
<1>3. ~Returned
  <2>1. Reversal \in Operations
    BY OperationsApart
  <2>2. RefsOf(Reversal) # {}
    BY <2>1, OperationShape
  <2>3. \A r : ~HasRow(ledger, r)
    BY <1>1 DEF HasRow
  <2>. QED
    BY <2>2, <2>3 DEF Returned, HasRows
<1>4. TypeOK
  <2>1. hasWallet \in BOOLEAN /\ doubtful \in BOOLEAN
    BY WithdrawalsAssumption DEF Init
  <2>. QED
    BY <1>2, <2>1, WebhookInboxAssumption, WithdrawalsAssumption
       DEF Init, TypeOK, InboxInit, InboxTyped, NoEvent, TransactionStatus, NoCall
<1>. QED
  BY <1>3, <1>4, WithdrawalsAssumption
     DEF TransferEvents, Init, InboxInit, StatusInv, Before, FailedMeansReturned, Sent, NoCall

(* What the status of an event's row may become. *)
LEMMA InboxKept ==
  ASSUME InboxTyped, NEW e \in Events
  PROVE  /\ Claimable(e) /\ Claim(e) /\ UNCHANGED owed => InboxTyped'
         /\ Acknowledge(e) /\ UNCHANGED inbox => InboxTyped'
         /\ Processed(e) => InboxTyped'
         /\ Failed(e) => InboxTyped'
<1>. USE DEF InboxTyped, WebhookEventStatus
<1>1. ASSUME Claimable(e), Claim(e), UNCHANGED owed PROVE InboxTyped'
  <2>1. inbox[e].attempts + 1 \in 0 .. MaxAttempts
    BY <1>1, WebhookInboxAssumption DEF Claimable, NoEvent
  <2>. QED
    BY <1>1, <2>1 DEF Claim
<1>2. ASSUME Acknowledge(e), UNCHANGED inbox PROVE InboxTyped'
  BY <1>2 DEF Acknowledge
<1>3. ASSUME Processed(e) PROVE InboxTyped'
  BY <1>3 DEF Processed, Acknowledge
<1>4. ASSUME Failed(e) PROVE InboxTyped'
  BY <1>4 DEF Failed
<1>. QED
  BY <1>1, <1>2, <1>3, <1>4

(***************************************************************************)
(* One step per action.  Most leave the money, the row and the transfer    *)
(* alone and only move a session on.                                       *)
(***************************************************************************)
LEMMA StepStatus ==
  ASSUME StatusInv, [Next]_vars
  PROVE  StatusInv'
<1>. Typed(ledger, wallet) /\ InboxTyped
  BY DEF StatusInv, TypeOK
<1>. USE DEF StatusInv, TypeOK, Before, FailedMeansReturned, TransactionStatus, Sent,
             inboxes, row, control, faults, Goto, Finish, NoCall, Runs, Awaited
<1>1. ASSUME UNCHANGED vars PROVE StatusInv'
  BY <1>1, NothingPosted DEF vars, book, InboxTyped
<1>2. ASSUME NEW s \in Sessions, Wait(s) PROVE StatusInv'
  BY <1>2, NothingPosted DEF Wait, InboxTyped
<1>3. ASSUME Receive PROVE StatusInv'
  BY <1>3, NothingPosted DEF Receive, InboxTyped
<1>4. ASSUME Conclude PROVE StatusInv'
  <2>1. InboxTyped'
    BY <1>4, WithdrawalsAssumption DEF Conclude, InboxTyped, TransferEvents
  <2>. QED
    BY <1>4, <2>1, NothingPosted DEF Conclude
<1>5. ASSUME NEW s \in Sessions, RequestWithdrawal(s) PROVE StatusInv'
  BY <1>5, DebitPosted DEF RequestWithdrawal, InboxTyped
<1>6. ASSUME NEW s \in Sessions, InitiateTransfer(s) PROVE StatusInv'
  BY <1>6, NothingPosted DEF InitiateTransfer, InboxTyped
<1>7. ASSUME NEW s \in Sessions, HearOutcome(s) PROVE StatusInv'
  <2>1. doubtful' \in BOOLEAN
    BY <1>7 DEF HearOutcome
  <2>. QED
    BY <1>7, <2>1, NothingPosted DEF HearOutcome, InboxTyped
<1>8. ASSUME NEW s \in Sessions, ReverseWithdrawal(s) PROVE StatusInv'
  <2>1. CASE Returned
    BY <1>8, <2>1, NothingPosted DEF ReverseWithdrawal, Locked, InboxTyped
  <2>2. CASE ~Returned
    BY <1>8, <2>2, ReversalPosted DEF ReverseWithdrawal, Locked, GiveBack, InboxTyped
  <2>. QED
    BY <2>1, <2>2
<1>9. ASSUME NEW s \in Sessions, ReadStatus(s) PROVE StatusInv'
  BY <1>9, NothingPosted DEF ReadStatus, InboxTyped
<1>10. ASSUME NEW s \in Sessions, HearPoll(s) \/ HearVerify(s) PROVE StatusInv'
  BY <1>10, WithdrawalsAssumption, NothingPosted DEF HearPoll, HearVerify, Hear, InboxTyped
<1>11. ASSUME NEW s \in Sessions, Reconcile(s) PROVE StatusInv'
  BY <1>11, NothingPosted DEF Reconcile, InboxTyped
<1>12. ASSUME NEW s \in Sessions, Settle(s) PROVE StatusInv'
  BY <1>12, NothingPosted DEF Settle, Locked, InboxTyped
<1>13. ASSUME NEW s \in Sessions, NEW e \in Events, Deliver(s, e) PROVE StatusInv'
  <2>1. InboxTyped'
    BY <1>13, InboxKept DEF Deliver
  <2>. QED
    BY <1>13, <2>1, NothingPosted DEF Deliver
<1>14. ASSUME NEW s \in Sessions, HandleSuccess(s) PROVE StatusInv'
  BY <1>14, NothingPosted DEF HandleSuccess, Locked, InboxTyped
<1>15. ASSUME NEW s \in Sessions, HandleReversal(s) PROVE StatusInv'
  BY <1>15, ReversalPosted DEF HandleReversal, Locked, GiveBack, Verdict, InboxTyped
<1>16. ASSUME NEW s \in Sessions, HandleReplay(s) PROVE StatusInv'
  <2>1. InboxTyped'
    BY <1>16, InboxKept DEF HandleReplay, Locked
  <2>. QED
    BY <1>16, <2>1, NothingPosted DEF HandleReplay, Locked, Verdict
<1>17. ASSUME NEW s \in Sessions, HandleNothing(s) PROVE StatusInv'
  <2>1. InboxTyped'
    BY <1>17, InboxKept DEF HandleNothing, Locked
  <2>. QED
    BY <1>17, <2>1, NothingPosted DEF HandleNothing, Locked
<1>18. ASSUME NEW s \in Sessions, NotVerified(s) PROVE StatusInv'
  <2>1. InboxTyped'
    BY <1>18, InboxKept DEF NotVerified
  <2>. QED
    BY <1>18, <2>1, NothingPosted DEF NotVerified
<1>19. ASSUME NEW s \in Sessions, Verified(s) PROVE StatusInv'
  BY <1>19, NothingPosted DEF Verified, InboxTyped
<1>20. ASSUME NEW s \in Sessions, Mark(s) PROVE StatusInv'
  <2>1. InboxTyped'
    BY <1>20, InboxKept DEF Mark
  <2>. QED
    BY <1>20, <2>1, NothingPosted DEF Mark
<1>21. ASSUME NEW w \in Workers, Restart(w) PROVE StatusInv'
  BY <1>21, WithdrawalsAssumption, NothingPosted DEF Restart, InboxTyped
<1>22. ASSUME NEW o \in OtherOperations, OtherMoney(o) PROVE StatusInv'
  BY <1>22, OtherPosted DEF OtherMoney, InboxTyped
<1>23. ASSUME NEW s \in Sessions, EnsureWallet(s) PROVE StatusInv'
  BY <1>23, NothingPosted DEF EnsureWallet, InboxTyped
<1>24. ASSUME NEW s \in Sessions, DebitNewWallet(s) PROVE StatusInv'
  BY <1>24, DebitPosted DEF DebitNewWallet, InboxTyped
<1>25. ASSUME NEW s \in Sessions, RefuseDebit(s) PROVE StatusInv'
  BY <1>25, NothingPosted DEF RefuseDebit, InboxTyped
<1>26. ASSUME NEW s \in Sessions, RecordTransfer(s) PROVE StatusInv'
  BY <1>26, NothingPosted DEF RecordTransfer, Locked, InboxTyped
<1>27. ASSUME OpenWallet PROVE StatusInv'
  BY <1>27, NothingPosted DEF OpenWallet, InboxTyped
<1>. QED
  BY <1>1, <1>2, <1>3, <1>4, <1>5, <1>6, <1>7, <1>8, <1>9, <1>10, <1>11, <1>12, <1>13,
     <1>14, <1>15, <1>16, <1>17, <1>18, <1>19, <1>20, <1>21, <1>22,
     <1>23, <1>24, <1>25, <1>26, <1>27 DEF Next, Proceed

------------------------------------------------------------------------------
LEMMA InitEvidence == Init /\ StatusInv => EvidenceInv
BY DEF Init, InboxInit, StatusInv, EvidenceInv, ReturnedOnlyIfUnpaid, NoCall

(***************************************************************************)
(* Only a step of the provider changes what has become of the transfer,    *)
(* and it never undoes what some handler has evidence of.                  *)
(***************************************************************************)
LEMMA StepEvidence ==
  ASSUME StatusInv, EvidenceInv, [Next]_vars
  PROVE  EvidenceInv'
<1>. Typed(ledger, wallet) /\ InboxTyped
  BY DEF StatusInv, TypeOK
<1>. USE DEF EvidenceInv, ReturnedOnlyIfUnpaid, Unpaid, Paid, Sent, StatusInv, Before, TypeOK,
             inboxes, row, control, faults, Goto, Finish, NoCall
<1>1. ASSUME UNCHANGED vars PROVE EvidenceInv'
  BY <1>1, NothingPosted DEF vars, book
<1>2. ASSUME NEW s \in Sessions, Wait(s) PROVE EvidenceInv'
  BY <1>2, NothingPosted DEF Wait
<1>3. ASSUME Receive PROVE EvidenceInv'
  BY <1>3, NothingPosted DEF Receive
<1>4. ASSUME Conclude PROVE EvidenceInv'
  BY <1>4, NothingPosted DEF Conclude
<1>5. ASSUME NEW s \in Sessions, RequestWithdrawal(s) PROVE EvidenceInv'
  BY <1>5, DebitPosted DEF RequestWithdrawal
<1>6. ASSUME NEW s \in Sessions, InitiateTransfer(s) PROVE EvidenceInv'
  BY <1>6, NothingPosted DEF InitiateTransfer
<1>7. ASSUME NEW s \in Sessions, HearOutcome(s) PROVE EvidenceInv'
  <2>1. doubtful => doubtful'
    BY <1>7 DEF HearOutcome
  <2>2. CASE pc' = [pc EXCEPT ![s] = "reverse"] /\ (transfer \in Unpaid \/ doubtful')
    BY <1>7, <2>1, <2>2, NothingPosted DEF HearOutcome
  <2>3. CASE pc' = [pc EXCEPT ![s] = "record"] \/ Finish(s)
    BY <1>7, <2>1, <2>3, NothingPosted DEF HearOutcome
  <2>. QED
    BY <1>7, <2>2, <2>3 DEF HearOutcome
<1>8. ASSUME NEW s \in Sessions, ReverseWithdrawal(s) PROVE EvidenceInv'
  <2>1. CASE Returned
    BY <1>8, <2>1, NothingPosted DEF ReverseWithdrawal, Locked
  <2>2. CASE ~Returned
    BY <1>8, <2>2, ReversalPosted DEF ReverseWithdrawal, Locked, GiveBack
  <2>. QED
    BY <2>1, <2>2
<1>9. ASSUME NEW s \in Sessions, ReadStatus(s) PROVE EvidenceInv'
  BY <1>9, NothingPosted DEF ReadStatus
<1>10. ASSUME NEW s \in Sessions, HearPoll(s) \/ HearVerify(s) PROVE EvidenceInv'
  BY <1>10, NothingPosted DEF HearPoll, HearVerify, Hear
<1>11. ASSUME NEW s \in Sessions, Reconcile(s) PROVE EvidenceInv'
  BY <1>11, NothingPosted DEF Reconcile
<1>12. ASSUME NEW s \in Sessions, Settle(s) PROVE EvidenceInv'
  BY <1>12, NothingPosted DEF Settle, Locked
<1>13. ASSUME NEW s \in Sessions, NEW e \in Events, Deliver(s, e) PROVE EvidenceInv'
  BY <1>13, NothingPosted DEF Deliver, Acknowledge
<1>14. ASSUME NEW s \in Sessions, HandleSuccess(s) PROVE EvidenceInv'
  BY <1>14, NothingPosted DEF HandleSuccess, Locked
<1>15. ASSUME NEW s \in Sessions, HandleReversal(s) PROVE EvidenceInv'
  <2>1. transfer \in Unpaid
    BY <1>15, WithdrawalsAssumption DEF HandleReversal, Locked, TransferEvents
  <2>. QED
    BY <1>15, <2>1, ReversalPosted DEF HandleReversal, Locked, GiveBack, Verdict
<1>16. ASSUME NEW s \in Sessions, HandleReplay(s) PROVE EvidenceInv'
  BY <1>16, NothingPosted DEF HandleReplay, Locked, Verdict, Processed, Acknowledge
<1>17. ASSUME NEW s \in Sessions, HandleNothing(s) PROVE EvidenceInv'
  BY <1>17, NothingPosted DEF HandleNothing, Locked, Processed, Acknowledge
<1>18. ASSUME NEW s \in Sessions, NotVerified(s) PROVE EvidenceInv'
  BY <1>18, NothingPosted DEF NotVerified, Processed, Failed, Acknowledge
<1>19. ASSUME NEW s \in Sessions, Verified(s) PROVE EvidenceInv'
  BY <1>19, NothingPosted DEF Verified
<1>20. ASSUME NEW s \in Sessions, Mark(s) PROVE EvidenceInv'
  BY <1>20, NothingPosted DEF Mark, Processed, Acknowledge
<1>21. ASSUME NEW w \in Workers, Restart(w) PROVE EvidenceInv'
  BY <1>21, NothingPosted DEF Restart
<1>22. ASSUME NEW o \in OtherOperations, OtherMoney(o) PROVE EvidenceInv'
  BY <1>22, OtherPosted DEF OtherMoney
<1>23. ASSUME NEW s \in Sessions, EnsureWallet(s) PROVE EvidenceInv'
  BY <1>23, NothingPosted DEF EnsureWallet
<1>24. ASSUME NEW s \in Sessions, DebitNewWallet(s) PROVE EvidenceInv'
  BY <1>24, DebitPosted DEF DebitNewWallet
<1>25. ASSUME NEW s \in Sessions, RefuseDebit(s) PROVE EvidenceInv'
  BY <1>25, NothingPosted DEF RefuseDebit
<1>26. ASSUME NEW s \in Sessions, RecordTransfer(s) PROVE EvidenceInv'
  BY <1>26, NothingPosted DEF RecordTransfer, Locked
<1>27. ASSUME OpenWallet PROVE EvidenceInv'
  BY <1>27, NothingPosted DEF OpenWallet
<1>. QED
  BY <1>1, <1>2, <1>3, <1>4, <1>5, <1>6, <1>7, <1>8, <1>9, <1>10, <1>11, <1>12, <1>13,
     <1>14, <1>15, <1>16, <1>17, <1>18, <1>19, <1>20, <1>21, <1>22,
     <1>23, <1>24, <1>25, <1>26, <1>27 DEF Next, Proceed

(* Who takes a success back has heard, or been sent, that it is no more. *)
LEMMA StepKeepsSuccess ==
  ASSUME StatusInv, EvidenceInv, Next, transaction = "success", transaction' # "success"
  PROVE  transfer = "reversed" \/ doubtful
<1>. USE DEF row, Goto, Finish
<1>1. ASSUME NEW s \in Sessions, ReverseWithdrawal(s)
      PROVE  transfer = "reversed" \/ doubtful
  BY <1>1 DEF ReverseWithdrawal, Locked, EvidenceInv, Unpaid, Paid
<1>2. ASSUME NEW s \in Sessions, HandleReversal(s) \/ HandleReplay(s)
      PROVE  transfer = "reversed"
  BY <1>2 DEF HandleReversal, HandleReplay, Awaited, EvidenceInv
<1>3. ASSUME NEW s \in Sessions, Settle(s) \/ Verified(s) PROVE FALSE
  BY <1>3 DEF Settle, Verified
<1>4. ASSUME NEW s \in Sessions, RequestWithdrawal(s) \/ EnsureWallet(s) PROVE FALSE
  BY <1>4 DEF RequestWithdrawal, EnsureWallet
<1>5. ASSUME NEW s \in Sessions,
             \/ Wait(s) \/ InitiateTransfer(s) \/ HearOutcome(s) \/ HearPoll(s)
             \/ Reconcile(s) \/ HandleSuccess(s) \/ HandleNothing(s) \/ HearVerify(s)
             \/ NotVerified(s) \/ Mark(s) \/ ReadStatus(s) \/ RecordTransfer(s)
             \/ DebitNewWallet(s) \/ RefuseDebit(s) \/ \E e \in Events : Deliver(s, e)
      PROVE  FALSE
  BY <1>5 DEF Wait, InitiateTransfer, HearOutcome, HearPoll, Reconcile, HandleSuccess,
              HandleNothing, HearVerify, Hear, NotVerified, Mark, ReadStatus, RecordTransfer,
              Locked, DebitNewWallet, RefuseDebit, Deliver
<1>6. ASSUME \/ Receive \/ Conclude \/ OpenWallet \/ \E w \in Workers : Restart(w)
             \/ \E o \in OtherOperations : OtherMoney(o)
      PROVE  FALSE
  BY <1>6 DEF Receive, Conclude, OpenWallet, Restart, OtherMoney
<1>. QED
  BY <1>1, <1>2, <1>3, <1>4, <1>5, <1>6 DEF Next, Proceed

------------------------------------------------------------------------------
LEMMA StatusAlways == Spec => []StatusInv
<1>1. Init => StatusInv
  BY InitStatus
<1>2. StatusInv /\ [Next]_vars => StatusInv'
  BY StepStatus
<1>. QED
  BY <1>1, <1>2, PTL DEF Spec

LEMMA EvidenceAlways == Spec => [](StatusInv /\ EvidenceInv)
<1>1. Init => StatusInv /\ EvidenceInv
  BY InitStatus, InitEvidence
<1>2. StatusInv /\ EvidenceInv /\ [Next]_vars => (StatusInv /\ EvidenceInv)'
  BY StepStatus, StepEvidence
<1>. QED
  BY <1>1, <1>2, PTL DEF Spec

(***************************************************************************)
(* Every variable keeps its type, and no balance goes below zero.          *)
(***************************************************************************)
THEOREM TypeCorrect == Spec => []TypeOK
<1>1. StatusInv => TypeOK
  BY DEF StatusInv
<1>. QED
  BY <1>1, StatusAlways, PTL

(***************************************************************************)
(* Whatever workers, webhooks and status reads do to the row between them, *)
(* a withdrawal shown as failed or refunded is one whose credit is in the  *)
(* ledger: _reverse_withdrawal and _handle_transfer_reversal commit the    *)
(* two together, or find the credit already there.                         *)
(***************************************************************************)
THEOREM FailedMeansReturnedAlways == Spec => []FailedMeansReturned
<1>1. StatusInv => FailedMeansReturned
  BY DEF StatusInv
<1>. QED
  BY <1>1, StatusAlways, PTL

(***************************************************************************)
(* No transfer is asked for, and no reversal credited, unless the debit is *)
(* in the ledger: request_withdrawal commits it before its first await.    *)
(***************************************************************************)
THEOREM DebitedFirstAlways == Spec => []DebitedFirst
<1>1. StatusInv => DebitedFirst
  BY DEF StatusInv, DebitedFirst, Debited
<1>. QED
  BY <1>1, StatusAlways, PTL

(***************************************************************************)
(* The debit is only given back for a transfer that has not paid,         *)
(* whatever order webhooks, redeliveries, status reads and restarts come   *)
(* in, except after request_withdrawal has taken for a refusal an error    *)
(* whose POST had, or may have, arrived.                                   *)
(***************************************************************************)
THEOREM ReturnedOnlyIfUnpaidAlways == Spec => []ReturnedOnlyIfUnpaid
<1>1. EvidenceInv => ReturnedOnlyIfUnpaid
  BY DEF EvidenceInv
<1>. QED
  BY <1>1, EvidenceAlways, PTL

(***************************************************************************)
(* With the same exception no handler, a status read that asked too early  *)
(* included, takes a success back unless the bank has reversed it.         *)
(***************************************************************************)
THEOREM SuccessAlwaysKept == Spec => SuccessKept
<1>1. StatusInv /\ EvidenceInv /\ [Next]_vars
        => [ transaction = "success" /\ transaction' # "success"
               => transfer = "reversed" \/ doubtful ]_vars
  BY StepKeepsSuccess
<1>. QED
  BY <1>1, EvidenceAlways, PTL DEF Spec, SuccessKept

------------------------------------------------------------------------------
(* The debit, the credit back and the user's other money are movements of  *)
(* the book; no other step touches it.                                     *)
LEMMA StepOfBook ==
  ASSUME [Next]_vars
  PROVE  [Book!Next]_(Book!vars)
<1>1. UNCHANGED book \/ \E o \in Operations : Book!Post(o)
  <2>1. ASSUME NEW s \in Sessions,
               \/ RequestWithdrawal(s) \/ DebitNewWallet(s)
               \/ ReverseWithdrawal(s) \/ HandleReversal(s)
        PROVE  UNCHANGED book \/ \E o \in Operations : Book!Post(o)
    BY <2>1, OperationsApart DEF RequestWithdrawal, DebitNewWallet, ReverseWithdrawal,
       HandleReversal, GiveBack
  <2>2. ASSUME NEW s \in Sessions,
               \/ ReadStatus(s) \/ Wait(s) \/ (\E e \in Events : Deliver(s, e))
               \/ HandleReplay(s) \/ HandleNothing(s) \/ Mark(s)
               \/ EnsureWallet(s) \/ RefuseDebit(s) \/ RecordTransfer(s)
        PROVE  UNCHANGED book
    BY <2>2 DEF EnsureWallet, RefuseDebit, RecordTransfer, ReadStatus, Wait, Deliver,
                HandleReplay, HandleNothing, Mark
  <2>3. ASSUME NEW s \in Sessions,
               \/ InitiateTransfer(s) \/ HearOutcome(s) \/ HearPoll(s) \/ Reconcile(s)
               \/ Settle(s)
        PROVE  UNCHANGED book
    BY <2>3 DEF InitiateTransfer, HearOutcome, HearPoll, Hear, Reconcile, Settle
  <2>4. ASSUME NEW s \in Sessions,
               HandleSuccess(s) \/ HearVerify(s) \/ NotVerified(s) \/ Verified(s)
        PROVE  UNCHANGED book
    BY <2>4 DEF HandleSuccess, HearVerify, Hear, NotVerified, Verified
  <2>5. ASSUME NEW o \in OtherOperations, OtherMoney(o) PROVE o \in Operations /\ Book!Post(o)
    BY <2>5, OperationsApart DEF OtherMoney
  <2>6. ASSUME Receive \/ Conclude \/ OpenWallet \/ (\E w \in Workers : Restart(w)) \/ UNCHANGED vars
        PROVE  UNCHANGED book
    BY <2>6 DEF Receive, Conclude, OpenWallet, Restart, vars, book
  <2>. QED
    BY <2>1, <2>2, <2>3, <2>4, <2>5, <2>6 DEF Next, Proceed
<1>. QED
  BY <1>1 DEF Book!Next, Book!vars, book

(***************************************************************************)
(* A withdrawal's debit and its return are movements of the ledger's book  *)
(* (wallet_service.py and paystack_webhook_service.py call apply_entry),   *)
(* with any number of workers, crashes and deliveries.                     *)
(***************************************************************************)
THEOREM MoneyMovesByTheBook == Spec => Book!Spec
<1>1. Init => Book!Init
  BY DEF Init
<1>2. [Next]_vars => [Book!Next]_(Book!vars)
  BY StepOfBook
<1>. QED
  BY <1>1, <1>2, PTL DEF Spec, Book!Spec

(***************************************************************************)
(* So every balance is what the wallet's rows account for and add up to, no *)
(* reference has moved money twice and no transfer is half recorded        *)
(* (wallet_repository.py:3-21), whatever these handlers do.                *)
(***************************************************************************)
THEOREM LedgerAlwaysKept ==
  Spec => [](Sound(ledger, wallet) /\ Whole(ledger) /\ SumsUp(ledger, wallet))
<1>. DEFINE Kept == Sound(ledger, wallet) /\ Whole(ledger)
<1>1. Book!Init => Kept
  BY NothingIsKept DEF Book!Init, Book!Empty, Empty
<1>2. Kept /\ [Book!Next]_(Book!vars) => Kept'
  <2>. SUFFICES ASSUME Kept, [Book!Next]_(Book!vars) PROVE Kept'
    OBVIOUS
  <2>1. ASSUME NEW o \in Operations, Book!Post(o) PROVE Kept'
    BY <2>1, PostOfBook, OperationKeeps
  <2>2. CASE UNCHANGED Book!vars
    BY <2>2 DEF Book!vars
  <2>. QED
    BY <2>1, <2>2 DEF Book!Next
<1>3. Kept => Kept /\ SumsUp(ledger, wallet)
  BY AccountsSumUp DEF Sound
<1>. QED
  BY MoneyMovesByTheBook, <1>1, <1>2, <1>3, PTL DEF Book!Spec
=============================================================================
