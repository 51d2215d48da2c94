----------------------------- MODULE EscrowProofs -----------------------------
(***************************************************************************)
(* What an agreement, its disputes and its money keep, for any number of   *)
(* conditions, disputes and amounts.                                       *)
(*                                                                         *)
(* With any number of sessions: an agreement is called completed or        *)
(* refunded only by a commit that leaves its money moved, ensure_wallet's  *)
(* excepted; the unique index keeps one live dispute; and every movement   *)
(* of money is one of the ledger's book.                                   *)
(*                                                                         *)
(* With requests that come in turn, each as slow as one likes: what a      *)
(* handler has checked is still so when it commits (InTurn), from which    *)
(* the finality of payouts, the freezing by disputes and the rest follow.  *)
(* With two at once they are false, and TLC shows it.                      *)
(*                                                                         *)
(* And, of the copies of the agreement that Redis keeps (AgreementCache),  *)
(* why one of them may be stale and what a handler answers with.           *)
(***************************************************************************)
EXTENDS Escrow, LedgerEntriesProofs

(* A step of the book, in terms of the operators of LedgerEntries. *)
LEMMA PostOfBook ==
  ASSUME NEW o \in Operations, Book!Post(o)
  PROVE  /\ HasNoRow(ledger, o)
         /\ Allowed(wallet, o)
         /\ wallet' = After(wallet, o)
         /\ ledger' = RecordedAll(ledger, wallet, o)
<1>1. HasNoRow(ledger, o)
  BY DEF HasNoRow, HasRow, RefsOf, Book!HasNoRow, Book!HasRow, Book!RefsOf, Book!Post
<1>2. /\ \A r : Book!AvailableDelta(r) = AvailableDelta(r)
      /\ \A r : Book!EscrowDelta(r) = EscrowDelta(r)
  BY DEF AvailableDelta, EscrowDelta, AvailableSign, EscrowSign,
         Book!AvailableDelta, Book!EscrowDelta, Book!AvailableSign, Book!EscrowSign
<1>3. \A b, r : Book!Moved(b, r) = Moved(b, r)
  BY <1>2 DEF Moved, Book!Moved
<1>4. /\ \A b, r : Book!LegAllowed(b, r) <=> LegAllowed(b, r)
      /\ \A w, r : Book!AfterLeg(w, r) = AfterLeg(w, r)
      /\ \A w, r : Book!RowOf(w, r) = RowOf(w, r)
  BY <1>2, <1>3 DEF LegAllowed, AfterLeg, RowOf, Book!LegAllowed, Book!AfterLeg, Book!RowOf
<1>5. \A l, w, r : Book!Recorded(l, w, r) = Recorded(l, w, r)
  BY <1>4 DEF Recorded, Book!Recorded
<1>6. /\ Book!Allowed(wallet, o) <=> Allowed(wallet, o)
      /\ Book!After(wallet, o) = After(wallet, o)
      /\ Book!RecordedAll(ledger, wallet, o) = RecordedAll(ledger, wallet, o)
  BY <1>4, <1>5 DEF Allowed, After, RecordedAll, Book!Allowed, Book!After, Book!RecordedAll
<1>. QED
  BY <1>1, <1>6 DEF Book!Post

(* What a movement of money keeps and adds. *)
LEMMA PostEarns ==
  ASSUME Typed(ledger, wallet), NEW o \in Operations, Book!Post(o)
  PROVE  /\ Typed(ledger', wallet')
         /\ HasRows(ledger', o)
         /\ \A p \in Operations : HasRows(ledger, p) => HasRows(ledger', p)
<1>1. /\ HasNoRow(ledger, o) /\ Allowed(wallet, o)
      /\ wallet' = After(wallet, o) /\ ledger' = RecordedAll(ledger, wallet, o)
  BY PostOfBook
<1>2. Typed(ledger', wallet')
  BY <1>1, OperationTyped
<1>3. /\ HasRows(ledger', o)
      /\ \A p \in Operations \ {o} : HasRows(ledger', p) <=> HasRows(ledger, p)
  BY <1>1, OperationRows
<1>. QED
  BY <1>2, <1>3

------------------------------------------------------------------------------
(* With any number of sessions: the types, and the arguments of the calls    *)
(* that are on their way, which a type of "call" alone cannot say.           *)
CallsTyped ==
  /\ DOMAIN call = Sessions
  /\ \A s \in Sessions :
       /\ pc[s] \in { "add", "decide" } => call[s][1] \in Conditions
       /\ pc[s] = "decide" => call[s][2] \in { "approved", "rejected" }
       /\ pc[s] \in { "dispute", "review", "resolve" } => call[s][1] \in Disputes
       /\ pc[s] = "resolve" => call[s][2] \in DisputeResolutionOutcome

TypeInv == TypeOK /\ CallsTyped

(* The parts of TypeInv: the agreement's own rows, and the sessions. *)
AgreementTyped ==
  /\ status \in AgreementStatus
  /\ participant \in [Parties -> ParticipantStatus]
  /\ invitation \in { "pending", "accepted", "expired" }
  /\ condition \in [Conditions -> { "absent", "pending", "approved", "rejected" }]
  /\ dispute \in [Disputes -> [status : DisputeStatus,
                               outcome : DisputeResolutionOutcome \cup { "none" }]]
  /\ hasWallet \in BOOLEAN

SessionsTyped ==
  /\ pc \in [Sessions -> Label]
  /\ seen \in [Sessions -> AgreementStatus \cup ParticipantStatus \cup { "nothing" }]
  /\ CallsTyped

AllTyped == Typed(ledger, wallet) /\ AgreementTyped /\ SessionsTyped

LEMMA TypeInvParts == TypeInv <=> AllTyped
BY DEF TypeInv, TypeOK, AllTyped, AgreementTyped, SessionsTyped

LEMMA BeginTyped ==
  ASSUME SessionsTyped, NEW s \in Sessions, NEW kind, NEW arg, NEW label \in Label,
         NEW value \in AgreementStatus \cup ParticipantStatus \cup { "nothing" },
         Begin(s, kind, arg, label, value),
         label \in { "add", "decide" } => arg[1] \in Conditions,
         label = "decide" => arg[2] \in { "approved", "rejected" },
         label \in { "dispute", "review", "resolve" } => arg[1] \in Disputes,
         label = "resolve" => arg[2] \in DisputeResolutionOutcome
  PROVE  SessionsTyped'
BY DEF Begin, SessionsTyped, CallsTyped

LEMMA GotoTyped ==
  ASSUME SessionsTyped, NEW s \in Sessions,
         NEW label \in Label \ { "add", "decide", "dispute", "review", "resolve" },
         NEW value \in AgreementStatus \cup ParticipantStatus \cup { "nothing" },
         Goto(s, label, value)
  PROVE  SessionsTyped'
BY DEF Goto, SessionsTyped, CallsTyped

LEMMA FinishTyped ==
  ASSUME SessionsTyped, NEW s \in Sessions, Finish(s)
  PROVE  SessionsTyped'
BY DEF Finish, SessionsTyped, CallsTyped, Label

LEMMA StepTypeInv ==
  ASSUME TypeInv, [Next]_vars
  PROVE  TypeInv'
<1>. /\ Lock \in Operations /\ Release \in Operations /\ Refund \in Operations
     /\ OtherOperations \subseteq Operations
     /\ Depositor \in Parties /\ Beneficiary \in Parties /\ Invitee \in Parties
  BY EscrowAssumption DEF Parties, Invitee
<1>. Typed(ledger, wallet) /\ AgreementTyped /\ SessionsTyped
  BY TypeInvParts DEF AllTyped
<1>. SUFFICES AllTyped'
  BY DEF TypeInv, TypeOK, AllTyped, AgreementTyped, SessionsTyped
<1>. USE DEF AllTyped
<1>0. UNCHANGED book => Typed(ledger', wallet')
  BY DEF book
<1>1. UNCHANGED agreement => AgreementTyped'
  BY DEF agreement, AgreementTyped
<1>2. ASSUME NEW o \in Operations, Replays(o) \/ Book!Post(o) \/ Refuses(o)
      PROVE  Typed(ledger', wallet')
  BY <1>2, <1>0, PostEarns DEF Replays, Refuses
<1>3. ASSUME NEW s \in Sessions, Check(s) PROVE AllTyped'
  <2>. status \in AgreementStatus /\ \A u \in Parties : participant[u] \in ParticipantStatus
    BY DEF AgreementTyped
  <2>1. CASE CheckAccept(s)
    BY <2>1, <1>0, <1>1, BeginTyped DEF CheckAccept, Begin, Label
  <2>2. CASE CheckReject(s)
    BY <2>2, <1>0, <1>1, BeginTyped DEF CheckReject, Begin, Label
  <2>3. CASE CheckFund(s)
    BY <2>3, <1>0, <1>1, BeginTyped DEF CheckFund, Begin, Label
  <2>4. CASE CheckRefund(s)
    BY <2>4, <1>0, <1>1, BeginTyped DEF CheckRefund, Begin, Label
  <2>5. ASSUME NEW u, CheckCancel(s, u) PROVE AllTyped'
    BY <2>5, <1>0, <1>1, BeginTyped DEF CheckCancel, Begin, Label
  <2>6. ASSUME NEW u, CheckRelease(s, u) PROVE AllTyped'
    BY <2>6, <1>0, <1>1, BeginTyped DEF CheckRelease, Begin, Label
  <2>7. ASSUME NEW u, NEW c \in Conditions, CheckAdd(s, u, c) PROVE AllTyped'
    BY <2>7, <1>0, <1>1, BeginTyped DEF CheckAdd, Begin, Label
  <2>8. ASSUME NEW c \in Conditions, NEW decision \in { "approved", "rejected" },
               CheckDecide(s, c, decision)
        PROVE  AllTyped'
    BY <2>8, <1>0, <1>1, BeginTyped DEF CheckDecide, Begin, Label
  <2>9. ASSUME NEW u, NEW d \in Disputes, CheckDispute(s, u, d) PROVE AllTyped'
    BY <2>9, <1>0, <1>1, BeginTyped DEF CheckDispute, Begin, Label
  <2>10. ASSUME NEW d \in Disputes, CheckReview(s, d) PROVE AllTyped'
    BY <2>10, <1>0, <1>1, BeginTyped DEF CheckReview, Begin, Label
  <2>11. ASSUME NEW d \in Disputes, NEW outcome \in DisputeResolutionOutcome,
                CheckResolve(s, d, outcome)
         PROVE  AllTyped'
    BY <2>11, <1>0, <1>1, BeginTyped DEF CheckResolve, Begin, Label
  <2>. QED
    BY <1>3, <2>1, <2>2, <2>3, <2>4, <2>5, <2>6, <2>7, <2>8, <2>9, <2>10, <2>11 DEF Check
<1>4. ASSUME NEW s \in Sessions, Crash(s) \/ CannotJoin(s) PROVE AllTyped'
  BY <1>4, <1>0, <1>1, FinishTyped DEF Crash, CannotJoin
<1>5. ASSUME NEW s \in Sessions, Join(s) \/ Decline(s) PROVE AllTyped'
  <2>1. SessionsTyped'
    BY <1>5, GotoTyped DEF Join, Decline, Label
  <2>2. AgreementTyped'
    BY <1>5 DEF Join, Decline, JoinAs, AgreementTyped, ParticipantStatus
  <2>. QED
    BY <1>5, <2>1, <2>2, <1>0 DEF Join, Decline
<1>6. ASSUME NEW s \in Sessions, Activate(s) \/ Cancel(s) PROVE AllTyped'
  <2>1. SessionsTyped'
    BY <1>6, FinishTyped DEF Activate, Cancel
  <2>2. AgreementTyped'
    BY <1>6 DEF Activate, Cancel, AgreementTyped, AgreementStatus
  <2>. QED
    BY <1>6, <2>1, <2>2, <1>0 DEF Activate, Cancel
<1>7. ASSUME NEW s \in Sessions, Add(s) \/ Decide(s) PROVE AllTyped'
  <2>1. SessionsTyped'
    BY <1>7, FinishTyped, GotoTyped DEF Add, Decide, Label
  <2>2. AgreementTyped'
    BY <1>7 DEF Add, Decide, AgreementTyped, SessionsTyped, CallsTyped
  <2>. QED
    BY <1>7, <2>1, <2>2, <1>0 DEF Add, Decide
<1>8. ASSUME NEW s \in Sessions, CheckAuto(s) \/ CheckPayout(s) PROVE AllTyped'
  <2>1. \/ Goto(s, "release", status)
        \/ Goto(s, "refund", status)
        \/ Finish(s)
    BY <1>8 DEF CheckAuto, CheckPayout
  <2>2. SessionsTyped'
    BY <2>1, FinishTyped, GotoTyped DEF AgreementTyped, Label
  <2>. QED
    BY <1>8, <2>2, <1>0, <1>1 DEF CheckAuto, CheckPayout
<1>9. ASSUME NEW s \in Sessions, LockEscrow(s) PROVE AllTyped'
  BY <1>9, <1>1, <1>2, FinishTyped DEF LockEscrow
<1>10. ASSUME NEW s \in Sessions, EnsureBeneficiaryWallet(s) PROVE AllTyped'
  <2>1. SessionsTyped'
    BY <1>10, GotoTyped DEF EnsureBeneficiaryWallet, Label, AgreementStatus
  <2>2. AgreementTyped'
    BY <1>10 DEF EnsureBeneficiaryWallet, WriteStatus, AgreementTyped, AgreementStatus
  <2>. QED
    BY <1>10, <2>1, <2>2, <1>0 DEF EnsureBeneficiaryWallet
<1>11. ASSUME NEW s \in Sessions, ReleaseEscrow(s) PROVE AllTyped'
  <2>1. SessionsTyped'
    BY <1>11, FinishTyped DEF ReleaseEscrow
  <2>2. AgreementTyped'
    BY <1>11 DEF ReleaseEscrow, WriteStatus, AgreementTyped, AgreementStatus
  <2>. QED
    BY <1>11, <2>1, <2>2, <1>2 DEF ReleaseEscrow
<1>12. ASSUME NEW s \in Sessions, RefundEscrow(s) PROVE AllTyped'
  <2>1. SessionsTyped'
    BY <1>12, FinishTyped DEF RefundEscrow
  <2>2. AgreementTyped'
    BY <1>12 DEF RefundEscrow, WriteStatus, AgreementTyped, AgreementStatus
  <2>. QED
    BY <1>12, <2>1, <2>2, <1>2 DEF RefundEscrow
<1>13. ASSUME NEW s \in Sessions, RaiseDispute(s) \/ MarkUnderReview(s) PROVE AllTyped'
  <2>1. SessionsTyped'
    BY <1>13, FinishTyped DEF RaiseDispute, MarkUnderReview
  <2>2. AgreementTyped'
    BY <1>13 DEF RaiseDispute, MarkUnderReview, AgreementTyped, AgreementStatus,
       DisputeStatus, SessionsTyped, CallsTyped
  <2>. QED
    BY <1>13, <2>1, <2>2, <1>0 DEF RaiseDispute, MarkUnderReview
<1>14. ASSUME NEW s \in Sessions, Resolve(s) PROVE AllTyped'
  <2>1. SessionsTyped'
    BY <1>14, GotoTyped DEF Resolve, Label
  <2>2. AgreementTyped'
    BY <1>14 DEF Resolve, AgreementTyped, AgreementStatus, DisputeStatus,
       SessionsTyped, CallsTyped
  <2>. QED
    BY <1>14, <2>1, <2>2, <1>0 DEF Resolve
<1>15. ASSUME NEW o \in OtherOperations, OtherMoney(o) PROVE AllTyped'
  <2>1. SessionsTyped'
    BY <1>15 DEF OtherMoney, SessionsTyped, CallsTyped
  <2>. QED
    BY <1>15, <2>1, <1>1, <1>2 DEF OtherMoney
<1>16. CASE OpenWallet
  BY <1>16, <1>0 DEF OpenWallet, AgreementTyped, SessionsTyped, CallsTyped
<1>17. CASE UNCHANGED vars
  BY <1>17, <1>0 DEF vars, book, AgreementTyped, SessionsTyped, CallsTyped
<1>18. ASSUME NEW s \in Sessions, FindNoWallet(s) PROVE AllTyped'
  <2>1. Goto(s, "ensure", seen[s]) /\ UNCHANGED <<book, agreement>>
    BY <1>18 DEF FindNoWallet
  <2>2. SessionsTyped'
    BY <2>1, GotoTyped DEF SessionsTyped, Label
  <2>. QED
    BY <2>1, <2>2, <1>0, <1>1
<1>. QED
  BY <1>3, <1>4, <1>5, <1>6, <1>7, <1>8, <1>9, <1>10, <1>11, <1>12, <1>13, <1>14,
     <1>15, <1>16, <1>17, <1>18 DEF Next, Commit

LEMMA InitTypeInv ==
  ASSUME Init
  PROVE  TypeInv
<1>1. wallet = [u \in Users |-> Empty] /\ ledger = [u \in Users |-> << >>]
  BY DEF Init, Book!Init, Empty, Book!Empty
<1>2. Typed(ledger, wallet)
  BY <1>1 DEF Typed, Empty, Balance
<1>3. AgreementTyped
  BY EscrowAssumption DEF Init, AgreementTyped, AgreementStatus, ParticipantStatus, NoDispute,
     DisputeStatus
<1>4. SessionsTyped
  BY DEF Init, SessionsTyped, CallsTyped, Label
<1>. QED
  BY <1>2, <1>3, <1>4, TypeInvParts DEF AllTyped

(***************************************************************************)
(* The types of the agreement, its money and its requests, whatever the    *)
(* number of sessions.                                                     *)
(***************************************************************************)
THEOREM TypeCorrect == Spec => []TypeOK
<1>1. Init => TypeInv
  BY InitTypeInv
<1>2. TypeInv /\ [Next]_vars => TypeInv'
  BY StepTypeInv
<1>3. TypeInv => TypeOK
  BY DEF TypeInv
<1>. QED
  BY <1>1, <1>2, <1>3, PTL DEF Spec

------------------------------------------------------------------------------
(* Who writes the status. *)
LEMMA StatusWriters ==
  ASSUME [Next]_vars
  PROVE  \/ status' = status
         \/ \E s \in Sessions :
              \/ Activate(s) \/ Cancel(s) \/ EnsureBeneficiaryWallet(s)
              \/ ReleaseEscrow(s) \/ RefundEscrow(s) \/ RaiseDispute(s) \/ Resolve(s)
<1>1. ASSUME NEW s \in Sessions, Check(s) \/ Crash(s) PROVE status' = status
  BY <1>1 DEF Check, Crash, CheckAccept, CheckReject, CheckFund, CheckRefund, CheckCancel,
     CheckRelease, CheckAdd, CheckDecide, CheckDispute, CheckReview, CheckResolve, Begin, agreement
<1>2. ASSUME NEW s \in Sessions,
             CannotJoin(s) \/ Join(s) \/ Decline(s) \/ Add(s) \/ Decide(s) \/ CheckAuto(s)
             \/ LockEscrow(s) \/ FindNoWallet(s) \/ MarkUnderReview(s) \/ CheckPayout(s)
      PROVE  status' = status
  BY <1>2 DEF CannotJoin, Join, Decline, Add, Decide, CheckAuto, LockEscrow, FindNoWallet,
     MarkUnderReview, CheckPayout, agreement
<1>3. (\E o \in OtherOperations : OtherMoney(o)) \/ OpenWallet \/ UNCHANGED vars
      => status' = status
  BY DEF OtherMoney, OpenWallet, vars, agreement
<1>. QED
  BY <1>1, <1>2, <1>3 DEF Next, Commit

(***************************************************************************)
(* No invariant of the requests on their way is needed: of the steps that  *)
(* write "completed" or "refunded", a release and a refund have the money  *)
(* in the very state they leave, or find it moved already.                 *)
(***************************************************************************)
LEMMA StepEarned ==
  ASSUME TypeInv, [Next]_vars
  PROVE  /\ status # "completed" /\ status' = "completed" => Released' \/ WithTheWallet
         /\ status # "refunded" /\ status' = "refunded" => Refunded'
<1>. /\ Release \in Operations /\ Refund \in Operations
  BY EscrowAssumption
<1>. Typed(ledger, wallet) /\ pc \in [Sessions -> Label]
  BY DEF TypeInv, TypeOK
<1>1. ASSUME NEW o \in Operations, Replays(o) \/ Book!Post(o) PROVE HasRows(ledger', o)
  BY <1>1, PostEarns DEF Replays, book, HasRows, HasRow
<1>2. ASSUME NEW s \in Sessions, ReleaseEscrow(s), status' # status
      PROVE  status' = "completed" /\ Released'
  <2>1. (Replays(Release) \/ Book!Post(Release)) /\ WriteStatus(s, "completed")
    BY <1>2 DEF ReleaseEscrow
  <2>. QED
    BY <1>1, <1>2, <2>1 DEF WriteStatus, Released
<1>3. ASSUME NEW s \in Sessions, RefundEscrow(s), status' # status
      PROVE  status' = "refunded" /\ Refunded'
  <2>1. (Replays(Refund) \/ Book!Post(Refund)) /\ WriteStatus(s, "refunded")
    BY <1>3 DEF RefundEscrow
  <2>. QED
    BY <1>1, <1>3, <2>1 DEF WriteStatus, Refunded
<1>4. ASSUME NEW s \in Sessions, EnsureBeneficiaryWallet(s), status' # status
      PROVE  status' = "completed" /\ WithTheWallet
  BY <1>4 DEF EnsureBeneficiaryWallet, WriteStatus, Goto, WithTheWallet
<1>5. ASSUME NEW s \in Sessions,
             Activate(s) \/ Cancel(s) \/ RaiseDispute(s) \/ Resolve(s), status' # status
      PROVE  status' \notin { "completed", "refunded" }
  BY <1>5 DEF Activate, Cancel, RaiseDispute, Resolve
<1>. QED
  BY <1>2, <1>3, <1>4, <1>5, StatusWriters

(***************************************************************************)
(* No interleaving of requests, replays, refusals or crashes calls an      *)
(* agreement completed without a release, but for the commit of            *)
(* ensure_wallet, or refunded without a refund.                            *)
(***************************************************************************)
THEOREM StatusAlwaysEarned == Spec => StatusEarned
<1>1. Init => TypeInv
  BY InitTypeInv
<1>2. TypeInv /\ [Next]_vars => TypeInv'
  BY StepTypeInv
<1>3. TypeInv /\ [Next]_vars
        => [ /\ status # "completed" /\ status' = "completed" => Released' \/ WithTheWallet
             /\ status # "refunded" /\ status' = "refunded" => Refunded' ]_vars
  BY StepEarned
<1>. QED
  BY <1>1, <1>2, <1>3, PTL DEF Spec, StatusEarned

------------------------------------------------------------------------------
(* Who writes the disputes. *)
LEMMA DisputeWriters ==
  ASSUME [Next]_vars
  PROVE  \/ dispute' = dispute
         \/ \E s \in Sessions : RaiseDispute(s) \/ MarkUnderReview(s) \/ Resolve(s)
<1>1. ASSUME NEW s \in Sessions, Check(s) \/ Crash(s) PROVE dispute' = dispute
  BY <1>1 DEF Check, Crash, CheckAccept, CheckReject, CheckFund, CheckRefund, CheckCancel,
     CheckRelease, CheckAdd, CheckDecide, CheckDispute, CheckReview, CheckResolve, Begin, agreement
<1>2. ASSUME NEW s \in Sessions,
             CannotJoin(s) \/ Join(s) \/ Activate(s) \/ Decline(s) \/ Cancel(s)
             \/ Add(s) \/ Decide(s) \/ CheckAuto(s) \/ CheckPayout(s)
      PROVE  dispute' = dispute
  BY <1>2 DEF CannotJoin, Join, Activate, Decline, Cancel, Add, Decide, CheckAuto,
     CheckPayout, agreement
<1>3. ASSUME NEW s \in Sessions,
             LockEscrow(s) \/ FindNoWallet(s) \/ EnsureBeneficiaryWallet(s)
             \/ ReleaseEscrow(s) \/ RefundEscrow(s)
      PROVE  dispute' = dispute
  BY <1>3 DEF LockEscrow, FindNoWallet, EnsureBeneficiaryWallet, ReleaseEscrow, RefundEscrow, agreement
<1>4. (\E o \in OtherOperations : OtherMoney(o)) \/ OpenWallet \/ UNCHANGED vars
      => dispute' = dispute
  BY DEF OtherMoney, OpenWallet, vars, agreement
<1>. QED
  BY <1>1, <1>2, <1>3, <1>4 DEF Next, Commit

LEMMA StepOneLive ==
  ASSUME TypeInv, OneLiveDispute, [Next]_vars
  PROVE  OneLiveDispute'
<1>. /\ dispute \in [Disputes -> [status : DisputeStatus,
                                  outcome : DisputeResolutionOutcome \cup { "none" }]]
     /\ CallsTyped
  BY DEF TypeInv, TypeOK
<1>. \A d, e \in Live : d = e
  BY DEF OneLiveDispute
<1>1. CASE dispute' = dispute
  BY <1>1 DEF OneLiveDispute, Live
<1>2. ASSUME NEW s \in Sessions, RaiseDispute(s) PROVE OneLiveDispute'
  <2>1. \/ dispute' = dispute
        \/ Live' \subseteq { call[s][1] }
    BY <1>2 DEF RaiseDispute, Live
  <2>. QED
    BY <2>1, <1>1 DEF OneLiveDispute
<1>3. ASSUME NEW s \in Sessions, MarkUnderReview(s) PROVE OneLiveDispute'
  <2>1. \/ dispute' = dispute
        \/ Live' \subseteq { call[s][1] }
    BY <1>3 DEF MarkUnderReview, Live
  <2>. QED
    BY <2>1, <1>1 DEF OneLiveDispute
<1>4. ASSUME NEW s \in Sessions, Resolve(s) PROVE OneLiveDispute'
  <2>1. Live' \subseteq Live
    BY <1>4 DEF Resolve, Live, CallsTyped
  <2>. QED
    BY <2>1 DEF OneLiveDispute
<1>. QED
  BY <1>1, <1>2, <1>3, <1>4, DisputeWriters

(***************************************************************************)
(* The partial unique index is enough: whatever requests run at once, each *)
(* acting on what it read before, two disputes are never live together.    *)
(***************************************************************************)
THEOREM DisputesAreNeverTwo == Spec => []OneLiveDispute
<1>1. Init => TypeInv /\ OneLiveDispute
  BY InitTypeInv DEF Init, OneLiveDispute, Live, NoDispute
<1>2. TypeInv /\ OneLiveDispute /\ [Next]_vars => TypeInv' /\ OneLiveDispute'
  BY StepTypeInv, StepOneLive
<1>. QED
  BY <1>1, <1>2, PTL DEF Spec

------------------------------------------------------------------------------
(***************************************************************************)
(* Requests in turn: one session, so that what a request read still holds  *)
(* when it commits.  A request may still die between its commits and the   *)
(* next one finds what it left.  Everything below fails with two sessions  *)
(* (README, "What fails in a wider instance").                             *)
(*                                                                         *)
(* InTurn is what a request that has passed its check may still count on.  *)
(***************************************************************************)
InTurn(s) ==
  /\ pc[s] \in { "join", "activate", "add" } => status = "pending"
  /\ pc[s] \in { "decline", "cancel" } => status \in { "pending", "active" } /\ ~Funded
  /\ pc[s] = "decide" => status = "active"
  /\ pc[s] = "fund" => status \notin Unfundable /\ ~Funded
  /\ pc[s] \in { "release", "ensure" } =>
       /\ status \notin Unreleasable /\ seen[s] = status /\ Funded
       /\ AllApproved \/ DecidedFor("favour_beneficiary")
  /\ pc[s] = "ensure" => ~Released
  /\ pc[s] = "refund" =>
       status \notin Unrefundable /\ seen[s] = status /\ Funded /\ ~Released
  /\ pc[s] = "dispute" =>
       status = "active" /\ Live = {} /\ dispute[call[s][1]] = NoDispute
  /\ pc[s] = "review" => dispute[call[s][1]].status = "open"
  /\ pc[s] = "resolve" => call[s][1] \in Live /\ seen[s] = status
  /\ pc[s] = "payout" => call[s][1] \in Disputes /\ dispute[call[s][1]].outcome = call[s][2]

(* What holds of the agreement between the steps of such requests. *)
Orderly == PayoutIsFinal /\ FrozenWhileDisputed /\ CancelledHoldsNothing

InTurnInv ==
  /\ TypeInv
  /\ OneLiveDispute
  /\ Orderly
  /\ \A s \in Sessions : InTurn(s)

LEMMA NothingFunded ==
  ASSUME Init
  PROVE  ~Funded /\ ~Released /\ ~Refunded
<1>1. ledger = [u \in Users |-> << >>]
  BY DEF Init, Book!Init
<1>2. \A r : ~HasRow(ledger, r)
  BY <1>1 DEF HasRow
<1>3. \A o \in Operations : RefsOf(o) # {}
  BY OperationShape
<1>. QED
  BY <1>2, <1>3, EscrowAssumption DEF HasRows, Funded, Released, Refunded

LEMMA InitInTurn ==
  ASSUME Init
  PROVE  InTurnInv
<1>1. TypeInv /\ OneLiveDispute
  BY InitTypeInv DEF Init, OneLiveDispute, Live, NoDispute
<1>3. ~Funded /\ ~Released /\ ~Refunded
  BY NothingFunded
<1>4. Orderly
  BY <1>3 DEF Init, Orderly, PayoutIsFinal, FrozenWhileDisputed, CancelledHoldsNothing, Live,
     NoDispute
<1>5. \A s \in Sessions : InTurn(s)
  BY DEF Init, InTurn
<1>. QED
  BY <1>1, <1>4, <1>5 DEF InTurnInv

(* Each movement of money is seen in its own rows only. *)
LEMMA MoneyMoves ==
  ASSUME Typed(ledger, wallet), NEW o \in Operations,
         Replays(o) \/ Book!Post(o) \/ Refuses(o)
  PROVE  /\ o # Lock => Funded' = Funded
         /\ o # Release => Released' = Released
         /\ o # Refund => Refunded' = Refunded
<1>. /\ Lock \in Operations /\ Release \in Operations /\ Refund \in Operations
  BY EscrowAssumption
<1>1. CASE Book!Post(o)
  <2>1. /\ HasNoRow(ledger, o) /\ Allowed(wallet, o)
        /\ wallet' = After(wallet, o) /\ ledger' = RecordedAll(ledger, wallet, o)
    BY <1>1, PostOfBook
  <2>2. \A p \in Operations \ {o} : HasRows(ledger', p) <=> HasRows(ledger, p)
    BY <2>1, OperationRows
  <2>. QED
    BY <2>2 DEF Funded, Released, Refunded, HasRows
<1>2. CASE Replays(o) \/ Refuses(o)
  BY <1>2 DEF Replays, Refuses, book, Funded, Released, Refunded
<1>. QED
  BY <1>1, <1>2

LEMMA NoMoneyMoves ==
  ASSUME UNCHANGED book
  PROVE  Funded' = Funded /\ Released' = Released /\ Refunded' = Refunded
BY DEF book, Funded, Released, Refunded

LEMMA AgreementLeft ==
  ASSUME UNCHANGED <<book, agreement>>
  PROVE  /\ Funded' = Funded /\ Released' = Released /\ Refunded' = Refunded
         /\ status' = status /\ dispute' = dispute /\ condition' = condition
         /\ Live' = Live /\ AllApproved' = AllApproved
         /\ \A outcome : DecidedFor(outcome)' = DecidedFor(outcome)
         /\ Orderly => Orderly'
<1>1. /\ Funded' = Funded /\ Released' = Released /\ Refunded' = Refunded
      /\ status' = status /\ dispute' = dispute /\ condition' = condition
  BY NoMoneyMoves DEF book, agreement
<1>2. Live' = Live /\ AllApproved' = AllApproved
      /\ \A outcome : DecidedFor(outcome)' = DecidedFor(outcome)
  BY <1>1 DEF Live, AllApproved, Agreed, DecidedFor
<1>. QED
  BY <1>1, <1>2 DEF Orderly, PayoutIsFinal, FrozenWhileDisputed, CancelledHoldsNothing

(* A request that has passed its check may count on what it read. *)
LEMMA CheckInTurn ==
  ASSUME InTurnInv, NEW s \in Sessions, Check(s)
  PROVE  Orderly' /\ InTurn(s)'
<1>. /\ pc \in [Sessions -> Label] /\ DOMAIN call = Sessions
     /\ seen \in [Sessions -> AgreementStatus \cup ParticipantStatus \cup { "nothing" }]
     /\ status \in AgreementStatus
     /\ Orderly
  BY DEF InTurnInv, TypeInv, TypeOK, CallsTyped
<1>0. ASSUME NEW kind, NEW arg, NEW label, NEW value, Begin(s, kind, arg, label, value)
      PROVE  /\ pc'[s] = label /\ call'[s] = arg /\ seen'[s] = value
             /\ UNCHANGED <<book, agreement>>
  BY <1>0 DEF Begin
<1>. /\ Released => status = "completed"
     /\ Live # {} => status \in { "disputed", "refunded" }
     /\ status = "cancelled" => ~Funded
  BY DEF Orderly, PayoutIsFinal, FrozenWhileDisputed, CancelledHoldsNothing
<1>1. CASE CheckAccept(s)
  <2>1. pc'[s] = "join" /\ UNCHANGED <<book, agreement>> /\ status = "pending"
    BY <1>1, <1>0 DEF CheckAccept
  <2>. QED
    BY <2>1, AgreementLeft DEF InTurn
<1>2. CASE CheckReject(s)
  <2>1. /\ pc'[s] = "decline" /\ UNCHANGED <<book, agreement>>
        /\ status \in { "pending", "active" } /\ ~(Funded /\ ~Released)
    BY <1>2, <1>0 DEF CheckReject
  <2>. QED
    BY <2>1, AgreementLeft DEF InTurn
<1>3. CASE CheckFund(s)
  <2>1. /\ pc'[s] = "fund" /\ UNCHANGED <<book, agreement>>
        /\ status \notin Unfundable /\ ~Funded
    BY <1>3, <1>0 DEF CheckFund
  <2>. QED
    BY <2>1, AgreementLeft DEF InTurn
<1>4. CASE CheckRefund(s)
  <2>1. /\ pc'[s] = "refund" /\ seen'[s] = status /\ UNCHANGED <<book, agreement>>
        /\ status \notin Unrefundable /\ Funded /\ ~Released
    BY <1>4, <1>0 DEF CheckRefund
  <2>. QED
    BY <2>1, AgreementLeft DEF InTurn
<1>5. ASSUME NEW u, CheckCancel(s, u) PROVE Orderly' /\ InTurn(s)'
  <2>1. /\ pc'[s] = "cancel" /\ UNCHANGED <<book, agreement>>
        /\ status \in { "pending", "active" } /\ ~(Funded /\ ~Released)
    BY <1>5, <1>0 DEF CheckCancel
  <2>. QED
    BY <2>1, AgreementLeft DEF InTurn
<1>6. ASSUME NEW u, CheckRelease(s, u) PROVE Orderly' /\ InTurn(s)'
  <2>1. /\ pc'[s] = "release" /\ seen'[s] = status /\ UNCHANGED <<book, agreement>>
        /\ status \notin Unreleasable /\ AllApproved /\ Funded
    BY <1>6, <1>0 DEF CheckRelease, MayRelease
  <2>. QED
    BY <2>1, AgreementLeft DEF InTurn
<1>7. ASSUME NEW u, NEW c \in Conditions, CheckAdd(s, u, c) PROVE Orderly' /\ InTurn(s)'
  <2>1. pc'[s] = "add" /\ UNCHANGED <<book, agreement>> /\ status = "pending"
    BY <1>7, <1>0 DEF CheckAdd
  <2>. QED
    BY <2>1, AgreementLeft DEF InTurn
<1>8. ASSUME NEW c \in Conditions, NEW decision \in { "approved", "rejected" },
             CheckDecide(s, c, decision)
      PROVE  Orderly' /\ InTurn(s)'
  <2>1. pc'[s] = "decide" /\ UNCHANGED <<book, agreement>> /\ status = "active"
    BY <1>8, <1>0 DEF CheckDecide
  <2>. QED
    BY <2>1, AgreementLeft DEF InTurn
<1>9. ASSUME NEW u, NEW d \in Disputes, CheckDispute(s, u, d) PROVE Orderly' /\ InTurn(s)'
  <2>1. /\ pc'[s] = "dispute" /\ call'[s] = <<d>> /\ UNCHANGED <<book, agreement>>
        /\ status = "active" /\ Live = {} /\ dispute[d] = NoDispute
    BY <1>9, <1>0 DEF CheckDispute
  <2>. QED
    BY <2>1, AgreementLeft DEF InTurn
<1>10. ASSUME NEW d \in Disputes, CheckReview(s, d) PROVE Orderly' /\ InTurn(s)'
  <2>1. /\ pc'[s] = "review" /\ call'[s] = <<d>> /\ UNCHANGED <<book, agreement>>
        /\ dispute[d].status = "open"
    BY <1>10, <1>0 DEF CheckReview
  <2>. QED
    BY <2>1, AgreementLeft DEF InTurn
<1>11. ASSUME NEW d \in Disputes, NEW outcome \in DisputeResolutionOutcome,
              CheckResolve(s, d, outcome)
       PROVE  Orderly' /\ InTurn(s)'
  <2>1. /\ pc'[s] = "resolve" /\ call'[s] = <<d, outcome>> /\ seen'[s] = status
        /\ UNCHANGED <<book, agreement>> /\ d \in Live
    BY <1>11, <1>0 DEF CheckResolve
  <2>. QED
    BY <2>1, AgreementLeft DEF InTurn
<1>. QED
  BY <1>1, <1>2, <1>3, <1>4, <1>5, <1>6, <1>7, <1>8, <1>9, <1>10, <1>11 DEF Check

(* The steps of a request that has passed its check. *)
LEMMA CommitInTurn ==
  ASSUME InTurnInv, NEW s \in Sessions, Commit(s)
  PROVE  Orderly' /\ InTurn(s)'
<1>. /\ pc \in [Sessions -> Label] /\ DOMAIN call = Sessions
     /\ seen \in [Sessions -> AgreementStatus \cup ParticipantStatus \cup { "nothing" }]
     /\ status \in AgreementStatus
     /\ dispute \in [Disputes -> [status : DisputeStatus,
                                  outcome : DisputeResolutionOutcome \cup { "none" }]]
     /\ Typed(ledger, wallet)
     /\ CallsTyped /\ OneLiveDispute /\ Orderly /\ InTurn(s)
  BY DEF InTurnInv, TypeInv, TypeOK, CallsTyped
<1>. /\ Lock \in Operations /\ Release \in Operations /\ Refund \in Operations
     /\ Lock # Release /\ Release # Refund /\ Lock # Refund
  BY EscrowAssumption
<1>. /\ Released => status = "completed"
     /\ Refunded => status = "refunded"
     /\ Live # {} => status \in { "disputed", "refunded" }
     /\ status = "disputed" => Live # {}
     /\ status = "cancelled" => ~Funded
  BY DEF Orderly, PayoutIsFinal, FrozenWhileDisputed, CancelledHoldsNothing
<1>0. /\ Finish(s) => pc'[s] = "idle"
      /\ \A label, value :
           Goto(s, label, value) => pc'[s] = label /\ seen'[s] = value /\ call' = call
  BY DEF Finish, Goto
<1>1. Finish(s) => InTurn(s)'
  BY <1>0 DEF InTurn
<1>2. CASE CannotJoin(s)
  BY <1>2, <1>1, AgreementLeft DEF CannotJoin
<1>3. CASE Join(s)
  <2>1. status = "pending" /\ pc'[s] = "activate" /\ UNCHANGED <<book, status, dispute>>
    BY <1>3, <1>0 DEF Join, InTurn
  <2>2. Live' = Live
    BY <2>1 DEF Live
  <2>. QED
    BY <2>1, <2>2, NoMoneyMoves
       DEF InTurn, Orderly, PayoutIsFinal, FrozenWhileDisputed, CancelledHoldsNothing
<1>4. CASE Activate(s)
  <2>1. /\ status = "pending" /\ status' \in { "active", "pending" } /\ Finish(s)
        /\ UNCHANGED <<book, dispute>>
    BY <1>4 DEF Activate, InTurn
  <2>2. Live' = Live
    BY <2>1 DEF Live
  <2>. QED
    BY <2>1, <2>2, <1>1, NoMoneyMoves
       DEF Orderly, PayoutIsFinal, FrozenWhileDisputed, CancelledHoldsNothing
<1>5. CASE Decline(s)
  <2>1. /\ status \in { "pending", "active" } /\ ~Funded
        /\ pc'[s] = "cancel" /\ UNCHANGED <<book, status, dispute>>
    BY <1>5, <1>0 DEF Decline, InTurn
  <2>2. Live' = Live
    BY <2>1 DEF Live
  <2>. QED
    BY <2>1, <2>2, NoMoneyMoves
       DEF InTurn, Orderly, PayoutIsFinal, FrozenWhileDisputed, CancelledHoldsNothing
<1>6. CASE Cancel(s)
  <2>1. /\ status \in { "pending", "active" } /\ ~Funded
        /\ status' = "cancelled" /\ Finish(s) /\ UNCHANGED <<book, dispute>>
    BY <1>6 DEF Cancel, InTurn
  <2>2. Live' = Live
    BY <2>1 DEF Live
  <2>. QED
    BY <2>1, <2>2, <1>1, NoMoneyMoves
       DEF Orderly, PayoutIsFinal, FrozenWhileDisputed, CancelledHoldsNothing
<1>7. CASE Add(s) \/ Decide(s)
  <2>1. UNCHANGED <<book, status, dispute>>
    BY <1>7 DEF Add, Decide
  <2>2. Live' = Live
    BY <2>1 DEF Live
  <2>3. InTurn(s)'
    <3>1. Finish(s) \/ pc'[s] = "auto"
      BY <1>7, <1>0 DEF Add, Decide
    <3>. QED
      BY <3>1, <1>1 DEF InTurn
  <2>. QED
    BY <2>1, <2>2, <2>3, NoMoneyMoves
       DEF Orderly, PayoutIsFinal, FrozenWhileDisputed, CancelledHoldsNothing
<1>8. CASE CheckAuto(s)
  <2>1. UNCHANGED <<book, agreement>>
    BY <1>8 DEF CheckAuto
  <2>2. CASE Finish(s)
    BY <2>1, <2>2, <1>1, AgreementLeft
  <2>3. CASE Goto(s, "release", status) /\ AllApproved /\ Funded /\ status \notin Unreleasable
    BY <2>1, <2>3, <1>0, AgreementLeft DEF InTurn
  <2>. QED
    BY <1>8, <2>2, <2>3 DEF CheckAuto
<1>9. CASE LockEscrow(s)
  <2>1. /\ status \notin Unfundable /\ Finish(s) /\ UNCHANGED <<status, dispute>>
        /\ Released' = Released /\ Refunded' = Refunded
    BY <1>9, MoneyMoves DEF LockEscrow, InTurn, agreement
  <2>2. Live' = Live
    BY <2>1 DEF Live
  <2>. QED
    BY <2>1, <2>2, <1>1
       DEF Orderly, PayoutIsFinal, FrozenWhileDisputed, CancelledHoldsNothing, Unfundable
<1>10. CASE EnsureBeneficiaryWallet(s)
  <2>1. /\ status \notin Unreleasable /\ seen[s] = status /\ Funded
        /\ AllApproved \/ DecidedFor("favour_beneficiary")
        /\ status' = "completed" /\ pc'[s] = "release" /\ seen'[s] = "completed"
        /\ UNCHANGED <<book, condition, dispute>>
    BY <1>10, <1>0 DEF EnsureBeneficiaryWallet, WriteStatus, InTurn
  <2>2. /\ Live' = Live /\ AllApproved' = AllApproved
        /\ DecidedFor("favour_beneficiary")' = DecidedFor("favour_beneficiary")
    BY <2>1 DEF Live, AllApproved, Agreed, DecidedFor
  <2>3. Live = {} /\ ~Refunded
    BY <2>1 DEF Unreleasable
  <2>4. Orderly'
    BY <2>1, <2>2, <2>3, NoMoneyMoves
       DEF Orderly, PayoutIsFinal, FrozenWhileDisputed, CancelledHoldsNothing
  <2>. QED
    BY <2>1, <2>2, <2>4, NoMoneyMoves DEF InTurn, Unreleasable
<1>11. CASE ReleaseEscrow(s)
  <2>1. /\ status \notin Unreleasable /\ seen[s] = status
        /\ Finish(s) /\ UNCHANGED dispute
        /\ Funded' = Funded /\ Refunded' = Refunded
    BY <1>11, MoneyMoves DEF ReleaseEscrow, InTurn
  <2>2. Live' = Live
    BY <2>1 DEF Live
  <2>3. \/ status' = "completed"
        \/ status' = status /\ Released' = Released
    BY <1>11, <2>1, NoMoneyMoves DEF ReleaseEscrow, WriteStatus, Refuses
  <2>. QED
    BY <2>1, <2>2, <2>3, <1>1
       DEF Orderly, PayoutIsFinal, FrozenWhileDisputed, CancelledHoldsNothing, Unreleasable
<1>12. CASE RefundEscrow(s)
  <2>1. /\ status \notin Unrefundable /\ seen[s] = status /\ Funded /\ ~Released
        /\ Finish(s) /\ UNCHANGED dispute
        /\ Funded' = Funded /\ Released' = Released
    BY <1>12, MoneyMoves DEF RefundEscrow, InTurn
  <2>2. Live' = Live
    BY <2>1 DEF Live
  <2>3. \/ status' = "refunded"
        \/ status' = status /\ Refunded' = Refunded
    BY <1>12, <2>1, NoMoneyMoves DEF RefundEscrow, WriteStatus, Refuses
  <2>. QED
    BY <2>1, <2>2, <2>3, <1>1
       DEF Orderly, PayoutIsFinal, FrozenWhileDisputed, CancelledHoldsNothing, Unrefundable
<1>13. CASE RaiseDispute(s)
  <2>1. /\ status = "active" /\ Live = {} /\ call[s][1] \in Disputes
        /\ dispute' = [dispute EXCEPT ![call[s][1]].status = "open"]
        /\ status' = "disputed" /\ Finish(s) /\ UNCHANGED book
    BY <1>13 DEF RaiseDispute, InTurn, CallsTyped
  <2>2. call[s][1] \in Live'
    BY <2>1 DEF Live
  <2>. QED
    BY <2>1, <2>2, <1>1, NoMoneyMoves
       DEF Orderly, PayoutIsFinal, FrozenWhileDisputed, CancelledHoldsNothing
<1>14. CASE MarkUnderReview(s)
  <2>1. /\ call[s][1] \in Disputes /\ dispute[call[s][1]].status = "open"
        /\ Finish(s) /\ UNCHANGED <<book, status>>
        /\ \/ dispute' = dispute
           \/ dispute' = [dispute EXCEPT ![call[s][1]].status = "under_review"]
    BY <1>14 DEF MarkUnderReview, InTurn, CallsTyped
  <2>2. Live' = Live
    BY <2>1 DEF Live
  <2>. QED
    BY <2>1, <2>2, <1>1, NoMoneyMoves
       DEF Orderly, PayoutIsFinal, FrozenWhileDisputed, CancelledHoldsNothing
<1>15. CASE Resolve(s)
  <2>1. /\ call[s][1] \in Live /\ seen[s] = status
        /\ dispute' = [dispute EXCEPT ![call[s][1]] =
                         [status |-> "resolved", outcome |-> call[s][2]]]
        /\ status' = IF status = "disputed" THEN "active" ELSE status
        /\ pc'[s] = "payout" /\ call' = call /\ UNCHANGED book
    BY <1>15, <1>0 DEF Resolve, InTurn
  <2>2. Live' = {}
    BY <2>1 DEF Live, OneLiveDispute
  <2>3. InTurn(s)'
    BY <2>1 DEF InTurn, Live
  <2>. QED
    BY <2>1, <2>2, <2>3, NoMoneyMoves
       DEF Orderly, PayoutIsFinal, FrozenWhileDisputed, CancelledHoldsNothing
<1>16. CASE CheckPayout(s)
  <2>1. /\ UNCHANGED <<book, agreement>> /\ call[s][1] \in Disputes
        /\ dispute[call[s][1]].outcome = call[s][2]
    BY <1>16 DEF CheckPayout, InTurn
  <2>2. CASE Finish(s)
    BY <2>1, <2>2, <1>1, AgreementLeft
  <2>3. CASE /\ Goto(s, "release", status) /\ Funded
             /\ call[s][2] = "favour_beneficiary" /\ status \notin Unreleasable
    <3>1. DecidedFor("favour_beneficiary")
      BY <2>1, <2>3 DEF DecidedFor
    <3>. QED
      BY <2>1, <2>3, <3>1, <1>0, AgreementLeft DEF InTurn
  <2>4. CASE Goto(s, "refund", status) /\ status \notin Unrefundable /\ Funded /\ ~Released
    BY <2>1, <2>4, <1>0, AgreementLeft DEF InTurn
  <2>. QED
    BY <1>16, <2>2, <2>3, <2>4 DEF CheckPayout
<1>17. CASE FindNoWallet(s)
  <2>1. /\ pc'[s] = "ensure" /\ seen'[s] = seen[s] /\ UNCHANGED <<book, agreement>>
        /\ pc[s] = "release" /\ ~Released
    BY <1>17, <1>0 DEF FindNoWallet
  <2>. QED
    BY <2>1, AgreementLeft DEF InTurn
<1>. QED
  BY <1>2, <1>3, <1>4, <1>5, <1>6, <1>7, <1>8, <1>9, <1>10, <1>11, <1>12, <1>13, <1>14,
     <1>15, <1>16, <1>17 DEF Commit

LEMMA StepInTurn ==
  ASSUME \A s, t \in Sessions : s = t, InTurnInv, [Next]_vars
  PROVE  InTurnInv'
<1>. TypeInv /\ OneLiveDispute /\ Orderly
  BY DEF InTurnInv
<1>1. TypeInv' /\ OneLiveDispute'
  BY StepTypeInv, StepOneLive
<1>. SUFFICES Orderly' /\ \A s \in Sessions : InTurn(s)'
  BY <1>1 DEF InTurnInv
<1>2. ASSUME NEW s \in Sessions, Check(s) \/ Commit(s)
      PROVE  Orderly' /\ \A t \in Sessions : InTurn(t)'
  BY <1>2, CheckInTurn, CommitInTurn
<1>3. ASSUME NEW s \in Sessions, Crash(s)
      PROVE  Orderly' /\ \A t \in Sessions : InTurn(t)'
  <2>1. pc'[s] = "idle" /\ UNCHANGED <<book, agreement>>
    BY <1>3 DEF Crash, Finish, TypeInv, TypeOK
  <2>2. InTurn(s)'
    BY <2>1 DEF InTurn
  <2>. QED
    BY <2>1, <2>2, AgreementLeft
<1>4. ASSUME UNCHANGED <<status, condition, dispute, pc, call, seen>>,
             Funded' = Funded, Released' = Released, Refunded' = Refunded
      PROVE  Orderly' /\ \A t \in Sessions : InTurn(t)'
  <2>1. /\ Live' = Live /\ AllApproved' = AllApproved
        /\ DecidedFor("favour_beneficiary")' = DecidedFor("favour_beneficiary")
    BY <1>4 DEF Live, AllApproved, Agreed, DecidedFor
  <2>2. Orderly'
    BY <1>4, <2>1 DEF Orderly, PayoutIsFinal, FrozenWhileDisputed, CancelledHoldsNothing
  <2>3. ASSUME NEW t \in Sessions PROVE InTurn(t)'
    <3>1. InTurn(t)
      BY DEF InTurnInv
    <3>. QED
      BY <1>4, <2>1, <3>1 DEF InTurn
  <2>. QED
    BY <2>2, <2>3
<1>5. ASSUME NEW o \in OtherOperations, OtherMoney(o)
      PROVE  Orderly' /\ \A t \in Sessions : InTurn(t)'
  <2>1. o \in Operations /\ o # Lock /\ o # Release /\ o # Refund
    BY EscrowAssumption
  <2>2. Funded' = Funded /\ Released' = Released /\ Refunded' = Refunded
    BY <1>5, <2>1, MoneyMoves DEF OtherMoney, TypeInv, TypeOK
  <2>. QED
    BY <1>4, <1>5, <2>2 DEF OtherMoney, agreement
<1>6. CASE OpenWallet
  BY <1>4, <1>6, NoMoneyMoves DEF OpenWallet
<1>7. CASE UNCHANGED vars
  BY <1>4, <1>7, NoMoneyMoves DEF vars, book
<1>. QED
  BY <1>2, <1>3, <1>5, <1>6, <1>7 DEF Next

(* The same, as one temporal fact for the theorems that follow. *)
LEMMA AlwaysInTurn ==
  ASSUME \A s, t \in Sessions : s = t
  PROVE  Spec => []InTurnInv
<1>1. Init => InTurnInv
  BY InitInTurn
<1>2. InTurnInv /\ [Next]_vars => InTurnInv'
  BY StepInTurn
<1>. QED
  BY <1>1, <1>2, PTL DEF Spec

(***************************************************************************)
(* Wherever a request dies, once the escrow is released the agreement is   *)
(* completed for good, and once it is refunded it is refunded for good.    *)
(***************************************************************************)
THEOREM PayoutsAreFinal ==
  ASSUME \A s, t \in Sessions : s = t
  PROVE  Spec => []PayoutIsFinal
<1>1. InTurnInv => PayoutIsFinal
  BY DEF InTurnInv, Orderly
<1>. QED
  BY <1>1, AlwaysInTurn, PTL

(***************************************************************************)
(* An agreement with a live dispute is frozen (or refunded meanwhile), and *)
(* none is left frozen without the dispute whose resolution unfreezes it.  *)
(***************************************************************************)
THEOREM DisputedIsFrozen ==
  ASSUME \A s, t \in Sessions : s = t
  PROVE  Spec => []FrozenWhileDisputed
<1>1. InTurnInv => FrozenWhileDisputed
  BY DEF InTurnInv, Orderly
<1>. QED
  BY <1>1, AlwaysInTurn, PTL

(***************************************************************************)
(* A cancelled or rejected agreement was never funded and never will be.   *)
(***************************************************************************)
THEOREM CancelledWasNeverFunded ==
  ASSUME \A s, t \in Sessions : s = t
  PROVE  Spec => []CancelledHoldsNothing
<1>1. InTurnInv => CancelledHoldsNothing
  BY DEF InTurnInv, Orderly
<1>. QED
  BY <1>1, AlwaysInTurn, PTL

------------------------------------------------------------------------------
(* Who writes the status, and who moves the escrow: with the invariant, all  *)
(* that the action properties need.                                          *)
(* The steps that do not touch the book. *)
LEMMA BookWriters ==
  ASSUME [Next]_vars
  PROVE  \/ UNCHANGED book
         \/ \E s \in Sessions : LockEscrow(s) \/ ReleaseEscrow(s) \/ RefundEscrow(s)
         \/ \E o \in OtherOperations : OtherMoney(o)
<1>1. ASSUME NEW s \in Sessions, Check(s) \/ Crash(s) PROVE UNCHANGED book
  BY <1>1 DEF Check, Crash, CheckAccept, CheckReject, CheckFund, CheckRefund, CheckCancel,
     CheckRelease, CheckAdd, CheckDecide, CheckDispute, CheckReview, CheckResolve, Begin
<1>2. ASSUME NEW s \in Sessions,
             CannotJoin(s) \/ Join(s) \/ Activate(s) \/ Decline(s) \/ Cancel(s) \/ Add(s)
             \/ Decide(s) \/ CheckAuto(s) \/ FindNoWallet(s) \/ EnsureBeneficiaryWallet(s)
             \/ RaiseDispute(s) \/ MarkUnderReview(s) \/ Resolve(s) \/ CheckPayout(s)
      PROVE  UNCHANGED book
  BY <1>2 DEF CannotJoin, Join, Activate, Decline, Cancel, Add, Decide, CheckAuto,
     FindNoWallet, EnsureBeneficiaryWallet, RaiseDispute, MarkUnderReview, Resolve, CheckPayout
<1>3. OpenWallet \/ UNCHANGED vars => UNCHANGED book
  BY DEF OpenWallet, vars, book
<1>. QED
  BY <1>1, <1>2, <1>3 DEF Next, Commit

LEMMA EscrowMovers ==
  ASSUME Typed(ledger, wallet), [Next]_vars
  PROVE  \/ Funded' = Funded /\ Released' = Released
         \/ \E s \in Sessions : LockEscrow(s) \/ ReleaseEscrow(s)
<1>. /\ Refund \in Operations /\ Release # Refund /\ Lock # Refund
     /\ OtherOperations \subseteq Operations \ { Lock, Release, Refund }
  BY EscrowAssumption
<1>1. ASSUME NEW s \in Sessions, RefundEscrow(s)
      PROVE  Funded' = Funded /\ Released' = Released
  BY <1>1, MoneyMoves DEF RefundEscrow
<1>2. ASSUME NEW o \in OtherOperations, OtherMoney(o)
      PROVE  Funded' = Funded /\ Released' = Released
  BY <1>2, MoneyMoves DEF OtherMoney
<1>. QED
  BY <1>1, <1>2, BookWriters, NoMoneyMoves

(***************************************************************************)
(* A completed, refunded or cancelled agreement keeps its status: no late  *)
(* acceptance, dispute or resolution revives it.                           *)
(***************************************************************************)
THEOREM TheDeadStayDead ==
  ASSUME \A s, t \in Sessions : s = t
  PROVE  Spec => DeadStaysDead
<1>1. ASSUME InTurnInv, [Next]_vars, status \in { "cancelled", "completed", "refunded" }
      PROVE  status' = status
  <2>. \A s \in Sessions : InTurn(s)
    BY <1>1 DEF InTurnInv
  <2>. /\ Live # {} => status \in { "disputed", "refunded" }
       /\ status = "cancelled" => ~Funded
    BY <1>1 DEF InTurnInv, Orderly, FrozenWhileDisputed, CancelledHoldsNothing
  <2>1. ASSUME NEW s \in Sessions, Activate(s) \/ Cancel(s) \/ RaiseDispute(s) PROVE FALSE
    BY <1>1, <2>1 DEF Activate, Cancel, RaiseDispute, InTurn
  <2>2. ASSUME NEW s \in Sessions, EnsureBeneficiaryWallet(s) \/ ReleaseEscrow(s)
        PROVE  status' = status
    BY <1>1, <2>2 DEF EnsureBeneficiaryWallet, ReleaseEscrow, WriteStatus, InTurn, Unreleasable
  <2>3. ASSUME NEW s \in Sessions, RefundEscrow(s) PROVE status' = status
    BY <1>1, <2>3 DEF RefundEscrow, WriteStatus, InTurn, Unrefundable
  <2>4. ASSUME NEW s \in Sessions, Resolve(s) PROVE status' = status
    BY <1>1, <2>4 DEF Resolve, InTurn
  <2>. QED
    BY <1>1, <2>1, <2>2, <2>3, <2>4, StatusWriters
<1>2. InTurnInv /\ [Next]_vars
      => [(status \in { "cancelled", "completed", "refunded" }) => status' = status]_vars
  BY <1>1
<1>. QED
  BY <1>2, AlwaysInTurn, PTL DEF Spec, DeadStaysDead

(***************************************************************************)
(* While a dispute is live the escrow is neither funded nor released.      *)
(***************************************************************************)
THEOREM DisputesFreeze ==
  ASSUME \A s, t \in Sessions : s = t
  PROVE  Spec => DisputeFreezes
<1>1. ASSUME InTurnInv, [Next]_vars, Live # {}
      PROVE  Funded' = Funded /\ Released' = Released
  <2>1. /\ \A s \in Sessions : InTurn(s)
        /\ status \in { "disputed", "refunded" }
        /\ Typed(ledger, wallet)
    BY <1>1 DEF InTurnInv, Orderly, FrozenWhileDisputed, TypeInv, TypeOK
  <2>2. ASSUME NEW s \in Sessions, LockEscrow(s) \/ ReleaseEscrow(s) PROVE FALSE
    BY <2>1, <2>2 DEF LockEscrow, ReleaseEscrow, InTurn, Unfundable, Unreleasable
  <2>. QED
    BY <1>1, <2>1, <2>2, EscrowMovers
<1>2. InTurnInv /\ [Next]_vars
      => [Live # {} => Funded' = Funded /\ Released' = Released]_vars
  BY <1>1
<1>. QED
  BY <1>2, AlwaysInTurn, PTL DEF Spec, DisputeFreezes

(***************************************************************************)
(* The beneficiary is paid only on approved conditions or by an admin's    *)
(* decision, although the payout is a later transaction than either.       *)
(***************************************************************************)
THEOREM PaidOnlyWhenDue ==
  ASSUME \A s, t \in Sessions : s = t
  PROVE  Spec => PaidWhenDue
<1>1. ASSUME InTurnInv, [Next]_vars, ~Released, Released'
      PROVE  AllApproved \/ DecidedFor("favour_beneficiary")
  <2>1. /\ \A s \in Sessions : InTurn(s)
        /\ Typed(ledger, wallet)
    BY <1>1 DEF InTurnInv, TypeInv, TypeOK
  <2>2. PICK s \in Sessions : LockEscrow(s) \/ ReleaseEscrow(s)
    BY <1>1, <2>1, EscrowMovers
  <2>3. ~LockEscrow(s)
    BY <1>1, <2>1, MoneyMoves, EscrowAssumption DEF LockEscrow
  <2>. QED
    BY <2>1, <2>2, <2>3 DEF ReleaseEscrow, InTurn
<1>2. InTurnInv /\ [Next]_vars
      => [~Released /\ Released' => AllApproved \/ DecidedFor("favour_beneficiary")]_vars
  BY <1>1
<1>. QED
  BY <1>2, AlwaysInTurn, PTL DEF Spec, PaidWhenDue

(***************************************************************************)
(* The outcome of a resolved dispute is never changed, nor is it reopened. *)
(***************************************************************************)
THEOREM DecisionsAreFinal ==
  ASSUME \A s, t \in Sessions : s = t
  PROVE  Spec => DecisionIsFinal
<1>1. ASSUME InTurnInv, [Next]_vars, NEW d \in Disputes, dispute[d].status = "resolved"
      PROVE  dispute'[d] = dispute[d]
  <2>1. /\ \A s \in Sessions : InTurn(s)
        /\ dispute \in [Disputes -> [status : DisputeStatus,
                                     outcome : DisputeResolutionOutcome \cup { "none" }]]
    BY <1>1 DEF InTurnInv, TypeInv, TypeOK
  <2>2. ASSUME NEW s \in Sessions, RaiseDispute(s) PROVE dispute'[d] = dispute[d]
    <3>1. dispute[call[s][1]] = NoDispute
      BY <2>1, <2>2 DEF RaiseDispute, InTurn
    <3>2. call[s][1] # d
      BY <1>1, <3>1 DEF NoDispute
    <3>. QED
      BY <2>1, <2>2, <3>2 DEF RaiseDispute
  <2>3. ASSUME NEW s \in Sessions, MarkUnderReview(s) PROVE dispute'[d] = dispute[d]
    <3>1. call[s][1] # d
      BY <1>1, <2>1, <2>3 DEF MarkUnderReview, InTurn
    <3>. QED
      BY <2>1, <2>3, <3>1 DEF MarkUnderReview
  <2>4. ASSUME NEW s \in Sessions, Resolve(s) PROVE dispute'[d] = dispute[d]
    <3>1. call[s][1] # d
      BY <1>1, <2>1, <2>4 DEF Resolve, InTurn, Live
    <3>. QED
      BY <2>1, <2>4, <3>1 DEF Resolve
  <2>. QED
    BY <1>1, <2>2, <2>3, <2>4, DisputeWriters
<1>2. InTurnInv /\ [Next]_vars
      => [\A d \in Disputes :
            dispute[d].status = "resolved" => dispute'[d] = dispute[d]]_vars
  BY <1>1
<1>. QED
  BY <1>2, AlwaysInTurn, PTL DEF Spec, DecisionIsFinal

------------------------------------------------------------------------------
(***************************************************************************)
(* With any number of sessions again: money leaves an escrow only after it *)
(* was put in.  A request about to pay out or give back has seen the lock  *)
(* in the ledger, and no commit of another takes a row away.               *)
(***************************************************************************)
FundedFirst == Released \/ Refunded => Funded

Paying == { "release", "ensure", "refund" }

SeenFunded == \A s \in Sessions : pc[s] \in Paying => Funded

LEMMA FundedStays ==
  ASSUME Typed(ledger, wallet), [Next]_vars, Funded
  PROVE  Funded'
<1>. /\ Lock \in Operations /\ Release \in Operations /\ Refund \in Operations
     /\ OtherOperations \subseteq Operations
  BY EscrowAssumption
<1>1. ASSUME NEW o \in Operations, Replays(o) \/ Book!Post(o) \/ Refuses(o)
      PROVE  Funded'
  BY <1>1, PostEarns, NoMoneyMoves DEF Funded, Replays, Refuses
<1>2. ASSUME NEW s \in Sessions, LockEscrow(s) \/ ReleaseEscrow(s) \/ RefundEscrow(s)
      PROVE  Funded'
  BY <1>1, <1>2 DEF LockEscrow, ReleaseEscrow, RefundEscrow
<1>3. ASSUME NEW o \in OtherOperations, OtherMoney(o) PROVE Funded'
  BY <1>1, <1>3 DEF OtherMoney
<1>. QED
  BY <1>2, <1>3, BookWriters, NoMoneyMoves

(* Who reaches the money: a check that saw the lock. *)
LEMMA PayersSawFunded ==
  ASSUME TypeInv, SeenFunded, [Next]_vars,
         NEW t \in Sessions, pc'[t] \in Paying
  PROVE  Funded
<1>. pc \in [Sessions -> Label]
  BY DEF TypeInv, TypeOK
<1>1. CASE pc[t] \in Paying
  BY <1>1 DEF SeenFunded
<1>2. CASE pc'[t] = pc[t]
  BY <1>1, <1>2
<1>3. ASSUME NEW s \in Sessions, NEW label, pc' = [pc EXCEPT ![s] = label],
             label \notin Paying
      PROVE  Funded
  BY <1>1, <1>2, <1>3
<1>4. ASSUME NEW s \in Sessions,
             \/ CheckAccept(s) \/ CheckReject(s) \/ CheckFund(s)
             \/ (\E u \in Parties : CheckCancel(s, u))
             \/ (\E u \in Parties, c \in Conditions : CheckAdd(s, u, c))
             \/ (\E c \in Conditions, decision \in { "approved", "rejected" } :
                   CheckDecide(s, c, decision))
             \/ (\E u \in Parties, d \in Disputes : CheckDispute(s, u, d))
             \/ (\E d \in Disputes : CheckReview(s, d))
             \/ (\E d \in Disputes, outcome \in DisputeResolutionOutcome :
                   CheckResolve(s, d, outcome))
      PROVE  Funded
  BY <1>3, <1>4 DEF Paying, CheckAccept, CheckReject, CheckFund, CheckCancel, CheckAdd, CheckDecide,
     CheckDispute, CheckReview, CheckResolve, Begin
<1>5. ASSUME NEW s \in Sessions,
             CheckRefund(s) \/ \E u \in Parties \cup { Admin } : CheckRelease(s, u)
      PROVE  Funded
  BY <1>5 DEF CheckRefund, CheckRelease, MayRelease
<1>6. ASSUME NEW s \in Sessions,
             \/ CannotJoin(s) \/ Join(s) \/ Activate(s) \/ Decline(s) \/ Cancel(s)
             \/ Add(s) \/ Decide(s) \/ LockEscrow(s) \/ ReleaseEscrow(s) \/ RefundEscrow(s)
             \/ RaiseDispute(s) \/ MarkUnderReview(s) \/ Resolve(s) \/ Crash(s)
      PROVE  Funded
  BY <1>3, <1>6 DEF Paying, CannotJoin, Join, Activate, Decline, Cancel, Add, Decide, LockEscrow,
     ReleaseEscrow, RefundEscrow, RaiseDispute, MarkUnderReview, Resolve, Crash, Goto, Finish
<1>7. ASSUME NEW s \in Sessions, CheckAuto(s) \/ CheckPayout(s)
      PROVE  Funded
  BY <1>3, <1>7 DEF Paying, CheckAuto, CheckPayout, Finish
<1>8. ASSUME NEW s \in Sessions, FindNoWallet(s) \/ EnsureBeneficiaryWallet(s)
      PROVE  Funded
  <2>1. pc[s] \in Paying /\ \E label : pc' = [pc EXCEPT ![s] = label]
    BY <1>8 DEF FindNoWallet, EnsureBeneficiaryWallet, Goto, Paying
  <2>. QED
    BY <1>1, <1>2, <2>1
<1>9. (\E o \in OtherOperations : OtherMoney(o)) \/ OpenWallet \/ UNCHANGED vars
      => pc' = pc
  BY DEF OtherMoney, OpenWallet, vars
<1>. QED
  BY <1>2, <1>4, <1>5, <1>6, <1>7, <1>8, <1>9 DEF Next, Check, Commit

LEMMA StepFundedFirst ==
  ASSUME TypeInv, FundedFirst, SeenFunded, [Next]_vars
  PROVE  FundedFirst' /\ SeenFunded'
<1>. Typed(ledger, wallet)
  BY DEF TypeInv, TypeOK
<1>. /\ Lock \in Operations /\ Release \in Operations /\ Refund \in Operations
     /\ Lock # Release /\ Release # Refund /\ Lock # Refund
     /\ OtherOperations \subseteq Operations \ { Lock, Release, Refund }
  BY EscrowAssumption
<1>1. Funded => Funded'
  BY FundedStays
<1>2. SeenFunded'
  BY <1>1, PayersSawFunded DEF SeenFunded
<1>3. Funded \/ (Released' = Released /\ Refunded' = Refunded)
  <2>1. ASSUME NEW s \in Sessions, LockEscrow(s)
        PROVE  Released' = Released /\ Refunded' = Refunded
    BY <2>1, MoneyMoves DEF LockEscrow
  <2>2. ASSUME NEW s \in Sessions, ReleaseEscrow(s) \/ RefundEscrow(s) PROVE Funded
    BY <2>2 DEF Paying, ReleaseEscrow, RefundEscrow, SeenFunded
  <2>3. ASSUME NEW o \in OtherOperations, OtherMoney(o)
        PROVE  Released' = Released /\ Refunded' = Refunded
    BY <2>3, MoneyMoves DEF OtherMoney
  <2>. QED
    BY <2>1, <2>2, <2>3, BookWriters, NoMoneyMoves
<1>. QED
  BY <1>1, <1>2, <1>3 DEF FundedFirst

(***************************************************************************)
(* However many requests overlap, nothing is paid out of an escrow and     *)
(* nothing is given back from it unless it was funded: every path asks     *)
(* is_agreement_funded first, in its own session's past                    *)
(* (routers/agreement.py:613, 752, condition.py:109, admin_dispute.py:176).*)
(***************************************************************************)
THEOREM OnlyFundedIsPaidOut == Spec => []FundedFirst
<1>1. Init => TypeInv /\ FundedFirst /\ SeenFunded
  BY InitTypeInv, NothingFunded DEF Init, FundedFirst, SeenFunded, Paying
<1>2. TypeInv /\ FundedFirst /\ SeenFunded /\ [Next]_vars
      => TypeInv' /\ FundedFirst' /\ SeenFunded'
  BY StepTypeInv, StepFundedFirst
<1>. QED
  BY <1>1, <1>2, PTL DEF Spec

------------------------------------------------------------------------------
(***************************************************************************)
(* The deal.  Each step of a request in turn is one event of Deal or none, *)
(* because what the request had checked is still so when it commits        *)
(* (InTurn); a dispute that is not resolved has no outcome yet, so that a  *)
(* resolution adds its own ruling to the earlier ones and takes none back. *)
(***************************************************************************)
Undecided ==
  \A d \in Disputes : dispute[d].outcome # "none" => dispute[d].status = "resolved"

LEMMA StepUndecided ==
  ASSUME InTurnInv, Undecided, [Next]_vars
  PROVE  Undecided'
<1>. /\ \A s \in Sessions : InTurn(s)
     /\ dispute \in [Disputes -> [status : DisputeStatus,
                                  outcome : DisputeResolutionOutcome \cup { "none" }]]
  BY DEF InTurnInv, TypeInv, TypeOK
<1>1. CASE dispute' = dispute
  BY <1>1 DEF Undecided
<1>2. ASSUME NEW s \in Sessions, RaiseDispute(s) PROVE Undecided'
  <2>1. dispute[call[s][1]].outcome = "none"
    BY <1>2 DEF RaiseDispute, InTurn, NoDispute
  <2>. QED
    BY <1>2, <2>1 DEF RaiseDispute, Undecided
<1>3. ASSUME NEW s \in Sessions, MarkUnderReview(s) PROVE Undecided'
  <2>1. dispute[call[s][1]].status = "open"
    BY <1>3 DEF MarkUnderReview, InTurn
  <2>. QED
    BY <1>3, <2>1 DEF MarkUnderReview, Undecided
<1>4. ASSUME NEW s \in Sessions, Resolve(s) PROVE Undecided'
  BY <1>4 DEF Resolve, Undecided
<1>. QED
  BY <1>1, <1>2, <1>3, <1>4, DisputeWriters

(* What the deal's facts depend on. *)
LEMMA FactsLeft ==
  /\ UNCHANGED book => Money' = Money
  /\ UNCHANGED condition => AllApproved' = AllApproved
  /\ UNCHANGED dispute => (Live # {})' = (Live # {}) /\ Rulings' = Rulings
<1>1. UNCHANGED book => Money' = Money
  BY NoMoneyMoves DEF Money
<1>2. UNCHANGED condition => AllApproved' = AllApproved
  BY DEF AllApproved, Agreed
<1>3. UNCHANGED dispute => (Live # {})' = (Live # {}) /\ Rulings' = Rulings
  BY DEF Live, Rulings, DecidedFor
<1>. QED
  BY <1>1, <1>2, <1>3

(* The steps that move the money of the escrow. *)
LEMMA MoneyOfDeal ==
  ASSUME InTurnInv, NEW s \in Sessions,
         LockEscrow(s) \/ ReleaseEscrow(s) \/ RefundEscrow(s)
  PROVE  [Deal!Next]_(Deal!vars)
<1>. /\ Orderly /\ InTurn(s) /\ Typed(ledger, wallet) /\ status \in AgreementStatus
  BY DEF InTurnInv, TypeInv, TypeOK
<1>. /\ Lock \in Operations /\ Release \in Operations /\ Refund \in Operations
     /\ Lock # Release /\ Release # Refund /\ Lock # Refund
  BY EscrowAssumption
<1>. /\ Released => status = "completed"
     /\ Refunded => status = "refunded"
  BY DEF Orderly, PayoutIsFinal
<1>1. CASE LockEscrow(s)
  <2>1. /\ status \in { "pending", "active" } /\ ~Funded
        /\ UNCHANGED <<status, condition, dispute>>
        /\ Released' = Released /\ Refunded' = Refunded
    BY <1>1, MoneyMoves DEF LockEscrow, InTurn, Unfundable, AgreementStatus, agreement
  <2>2. Money = "none" /\ ~Released' /\ ~Refunded'
    BY <2>1 DEF Money
  <2>3. Money' \in { "none", "held" }
    BY <2>2 DEF Money
  <2>. QED
    BY <2>1, <2>2, <2>3, FactsLeft DEF Deal!Next, Deal!Fund, Deal!vars
<1>2. CASE ReleaseEscrow(s)
  <2>1. /\ status \notin Unreleasable /\ seen[s] = status /\ Funded
        /\ AllApproved \/ DecidedFor("favour_beneficiary")
        /\ UNCHANGED <<condition, dispute>>
        /\ Funded' = Funded /\ Refunded' = Refunded
    BY <1>2, MoneyMoves DEF ReleaseEscrow, InTurn
  <2>2. ~Refunded /\ Money \in { "held", "released" }
    BY <2>1 DEF Money, Unreleasable
  <2>3. CASE UNCHANGED <<book, status>>
    BY <2>1, <2>3, FactsLeft DEF Deal!vars
  <2>4. CASE Replays(Release) /\ WriteStatus(s, "completed")
    <3>1. status = "completed"
      BY <2>4 DEF Replays, Released
    <3>. QED
      BY <2>1, <2>3, <2>4, <3>1 DEF Replays, WriteStatus
  <2>5. CASE Book!Post(Release) /\ WriteStatus(s, "completed")
    <3>1. ~Released /\ Released'
      <4>1. HasNoRow(ledger, Release) /\ HasRows(ledger', Release)
        BY <2>5, PostOfBook, PostEarns
      <4>. QED
        BY <4>1, OperationShape DEF Released, HasRows, HasNoRow
    <3>2. Money = "held" /\ Money' = "released" /\ status' = "completed"
      BY <2>1, <2>2, <2>5, <3>1 DEF Money, WriteStatus
    <3>3. Deal!Due
      BY <2>1 DEF Deal!Due, Rulings, DisputeResolutionOutcome
    <3>. QED
      BY <2>1, <3>2, <3>3, FactsLeft
         DEF Deal!Next, Deal!PayOut, Deal!Releasable, Unreleasable
  <2>. QED
    BY <1>2, <2>3, <2>4, <2>5 DEF ReleaseEscrow, Refuses
<1>3. CASE RefundEscrow(s)
  <2>1. /\ status # "completed" /\ seen[s] = status /\ Funded /\ ~Released
        /\ UNCHANGED <<condition, dispute>>
        /\ Funded' = Funded /\ Released' = Released
    BY <1>3, MoneyMoves DEF RefundEscrow, InTurn, Unrefundable
  <2>2. Money \in { "held", "refunded" }
    BY <2>1 DEF Money
  <2>3. CASE UNCHANGED <<book, status>>
    BY <2>1, <2>3, FactsLeft DEF Deal!vars
  <2>4. CASE Replays(Refund) /\ WriteStatus(s, "refunded")
    <3>1. status = "refunded"
      BY <2>4 DEF Replays, Refunded
    <3>. QED
      BY <2>1, <2>3, <2>4, <3>1 DEF Replays, WriteStatus
  <2>5. CASE Book!Post(Refund) /\ WriteStatus(s, "refunded")
    <3>1. ~Refunded /\ Refunded'
      <4>1. HasNoRow(ledger, Refund) /\ HasRows(ledger', Refund)
        BY <2>5, PostOfBook, PostEarns
      <4>. QED
        BY <4>1, OperationShape DEF Refunded, HasRows, HasNoRow
    <3>2. Money = "held" /\ Money' = "refunded" /\ status' = "refunded"
      BY <2>1, <2>2, <2>5, <3>1 DEF Money, WriteStatus
    <3>. QED
      BY <2>1, <3>2, FactsLeft DEF Deal!Next, Deal!GiveBack
  <2>. QED
    BY <1>3, <2>3, <2>4, <2>5 DEF RefundEscrow, Refuses
<1>. QED
  BY <1>1, <1>2, <1>3

(* The steps that write the status, a condition or a dispute, and no money. *)
LEMMA EventOfDeal ==
  ASSUME InTurnInv, Undecided, NEW s \in Sessions,
         \/ Activate(s) \/ Cancel(s) \/ Add(s) \/ Decide(s) \/ EnsureBeneficiaryWallet(s)
         \/ RaiseDispute(s) \/ MarkUnderReview(s) \/ Resolve(s)
  PROVE  [Deal!Next]_(Deal!vars)
<1>. /\ Orderly /\ OneLiveDispute /\ InTurn(s) /\ CallsTyped
     /\ status \in AgreementStatus
     /\ condition \in [Conditions -> { "absent", "pending", "approved", "rejected" }]
     /\ dispute \in [Disputes -> [status : DisputeStatus,
                                  outcome : DisputeResolutionOutcome \cup { "none" }]]
  BY DEF InTurnInv, TypeInv, TypeOK
<1>. /\ Released => status = "completed"
     /\ Refunded => status = "refunded"
  BY DEF Orderly, PayoutIsFinal
<1>. USE DEF Deal!vars, Deal!Next
<1>1. CASE Activate(s)
  <2>1. /\ status = "pending" /\ status' \in { "pending", "active" }
        /\ UNCHANGED <<book, condition, dispute>>
    BY <1>1 DEF Activate, InTurn
  <2>. QED
    BY <2>1, FactsLeft DEF Deal!Accept
<1>2. CASE Cancel(s)
  <2>1. /\ status \in { "pending", "active" } /\ ~Funded
        /\ status' = "cancelled" /\ UNCHANGED <<book, condition, dispute>>
    BY <1>2 DEF Cancel, InTurn
  <2>2. Money = "none"
    BY <2>1 DEF Money
  <2>. QED
    BY <2>1, <2>2, FactsLeft DEF Deal!CallOff
<1>3. CASE Add(s)
  <2>1. /\ status = "pending" /\ call[s][1] \in Conditions
        /\ condition' = [condition EXCEPT ![call[s][1]] = "pending"]
        /\ UNCHANGED <<book, status, dispute>>
    BY <1>3 DEF Add, InTurn, CallsTyped
  <2>2. ~AllApproved'
    BY <2>1 DEF AllApproved, Agreed
  <2>. QED
    BY <2>1, <2>2, FactsLeft DEF Deal!AddCondition
<1>4. CASE Decide(s)
  <2>1. status = "active" /\ UNCHANGED <<book, status, dispute>>
    BY <1>4 DEF Decide, InTurn
  <2>2. AllApproved' \in BOOLEAN
    BY DEF AllApproved
  <2>. QED
    BY <2>1, <2>2, FactsLeft DEF Deal!DecideCondition
<1>5. CASE EnsureBeneficiaryWallet(s)
  <2>1. /\ status \notin Unreleasable /\ Funded /\ ~Released
        /\ AllApproved \/ DecidedFor("favour_beneficiary")
        /\ status' = "completed" /\ UNCHANGED <<book, condition, dispute>>
    BY <1>5 DEF EnsureBeneficiaryWallet, WriteStatus, InTurn
  <2>2. Money = "held"
    BY <2>1 DEF Money, Unreleasable
  <2>3. Deal!Due
    BY <2>1 DEF Deal!Due, Rulings, DisputeResolutionOutcome
  <2>. QED
    BY <2>1, <2>2, <2>3, FactsLeft DEF Deal!CompleteUnpaid, Deal!Releasable, Unreleasable
<1>6. CASE RaiseDispute(s)
  <2>1. /\ status = "active" /\ Live = {} /\ call[s][1] \in Disputes
        /\ dispute' = [dispute EXCEPT ![call[s][1]].status = "open"]
        /\ status' = "disputed" /\ UNCHANGED <<book, condition>>
    BY <1>6 DEF RaiseDispute, InTurn, CallsTyped
  <2>2. (Live # {})' /\ Rulings' = Rulings
    BY <2>1 DEF Live, Rulings, DecidedFor
  <2>. QED
    BY <2>1, <2>2, FactsLeft DEF Deal!RaiseDispute
<1>7. CASE MarkUnderReview(s)
  <2>1. /\ call[s][1] \in Disputes /\ dispute[call[s][1]].status = "open"
        /\ UNCHANGED <<book, status, condition>>
        /\ \/ dispute' = dispute
           \/ dispute' = [dispute EXCEPT ![call[s][1]].status = "under_review"]
    BY <1>7 DEF MarkUnderReview, InTurn, CallsTyped
  <2>2. Live' = Live /\ Rulings' = Rulings
    BY <2>1 DEF Live, Rulings, DecidedFor
  <2>. QED
    BY <2>1, <2>2, FactsLeft
<1>8. CASE Resolve(s)
  <2>. DEFINE d == call[s][1]
              outcome == call[s][2]
  <2>1. /\ d \in Live /\ d \in Disputes /\ outcome \in DisputeResolutionOutcome
        /\ dispute' = [dispute EXCEPT ![d] = [status |-> "resolved", outcome |-> outcome]]
        /\ status' = IF status = "disputed" THEN "active" ELSE status
        /\ UNCHANGED <<book, condition>>
    BY <1>8 DEF Resolve, InTurn, CallsTyped
  <2>2. Live' = {}
    BY <2>1 DEF Live, OneLiveDispute
  <2>3. dispute[d].outcome = "none"
    BY <2>1 DEF Live, Undecided
  <2>4. Rulings' = Rulings \cup { outcome }
    <3>1. \A o \in DisputeResolutionOutcome :
            (\E e \in Disputes : dispute'[e].outcome = o)
            <=> (o = outcome \/ \E e \in Disputes : dispute[e].outcome = o)
      BY <2>1, <2>3 DEF DisputeResolutionOutcome
    <3>. QED
      BY <2>1, <3>1 DEF Rulings, DecidedFor
  <2>. QED
    BY <2>1, <2>2, <2>4, FactsLeft DEF Deal!Resolve, Deal!Outcomes, DisputeResolutionOutcome
<1>. QED
  BY <1>1, <1>2, <1>3, <1>4, <1>5, <1>6, <1>7, <1>8

LEMMA StepOfDeal ==
  ASSUME InTurnInv, Undecided, [Next]_vars
  PROVE  [Deal!Next]_(Deal!vars)
<1>1. ASSUME UNCHANGED <<status, condition, dispute>>, Money' = Money
      PROVE  UNCHANGED Deal!vars
  BY <1>1, FactsLeft DEF Deal!vars
<1>2. ASSUME NEW s \in Sessions, Check(s) \/ Crash(s)
      PROVE  UNCHANGED <<book, status, condition, dispute>>
  BY <1>2 DEF Check, Crash, CheckAccept, CheckReject, CheckFund, CheckRefund, CheckCancel,
     CheckRelease, CheckAdd, CheckDecide, CheckDispute, CheckReview, CheckResolve, Begin, agreement
<1>3. ASSUME NEW s \in Sessions,
             CannotJoin(s) \/ Join(s) \/ Decline(s) \/ CheckAuto(s) \/ CheckPayout(s)
             \/ FindNoWallet(s)
      PROVE  UNCHANGED <<book, status, condition, dispute>>
  BY <1>3 DEF CannotJoin, Join, Decline, CheckAuto, CheckPayout, FindNoWallet, agreement
<1>4. ASSUME NEW o \in OtherOperations, OtherMoney(o)
      PROVE  UNCHANGED <<status, condition, dispute>> /\ Money' = Money
  <2>1. o \in Operations /\ o # Lock /\ o # Release /\ o # Refund
    BY EscrowAssumption
  <2>2. Funded' = Funded /\ Released' = Released /\ Refunded' = Refunded
    BY <1>4, <2>1, MoneyMoves DEF OtherMoney, InTurnInv, TypeInv, TypeOK
  <2>. QED
    BY <1>4, <2>2 DEF OtherMoney, agreement, Money
<1>5. OpenWallet \/ UNCHANGED vars => UNCHANGED <<book, status, condition, dispute>>
  BY DEF OpenWallet, vars, book
<1>6. ASSUME NEW s \in Sessions, Commit(s)
      PROVE  [Deal!Next]_(Deal!vars)
  BY <1>1, <1>3, <1>6, FactsLeft, MoneyOfDeal, EventOfDeal DEF Commit
<1>. QED
  BY <1>1, <1>2, <1>4, <1>5, <1>6, FactsLeft DEF Next

(***************************************************************************)
(* With requests in turn, the requests on an agreement implement the deal  *)
(* its parties were promised, although each of them commits in several     *)
(* transactions and may die between any two (agreement_service.py,         *)
(* condition_service.py, dispute_service.py and the routes' money).        *)
(***************************************************************************)
THEOREM TheDealIsKept ==
  ASSUME \A s, t \in Sessions : s = t
  PROVE  Spec => ImplementsDeal
<1>1. Init => Deal!Init /\ Undecided
  <2>. SUFFICES ASSUME Init PROVE Deal!Init /\ Undecided
    OBVIOUS
  <2>1. ~Funded /\ ~Released /\ ~Refunded
    BY NothingFunded
  <2>2. Live = {} /\ Rulings = {} /\ Undecided
    BY DEF Init, Live, Rulings, DecidedFor, Undecided, NoDispute, DisputeResolutionOutcome
  <2>3. ~AllApproved
    BY DEF Init, AllApproved, Agreed
  <2>. QED
    BY <2>1, <2>2, <2>3 DEF Init, Deal!Init, Money
<1>2. InTurnInv /\ Undecided /\ [Next]_vars => Undecided'
  BY StepUndecided
<1>3. InTurnInv /\ Undecided /\ [Next]_vars => [Deal!Next]_(Deal!vars)
  BY StepOfDeal
<1>. QED
  BY <1>1, <1>2, <1>3, AlwaysInTurn, PTL DEF Spec, ImplementsDeal, Deal!Spec

(***************************************************************************)
(* The deal keeps its promises, whoever implements it: they follow from    *)
(* its own events alone.                                                   *)
(***************************************************************************)
THEOREM DealKeepsPromises == Deal!Spec => []Deal!Promises
<1>1. Deal!Init => Deal!Promises
  BY DEF Deal!Init, Deal!Promises, Deal!Due
<1>2. Deal!Promises /\ [Deal!Next]_(Deal!vars) => Deal!Promises'
  <2>. SUFFICES ASSUME Deal!Promises, [Deal!Next]_(Deal!vars) PROVE Deal!Promises'
    OBVIOUS
  <2>. USE DEF Deal!Promises, Deal!Due
  <2>1. CASE Deal!Accept \/ Deal!CallOff \/ Deal!Fund
    BY <2>1 DEF Deal!Accept, Deal!CallOff, Deal!Fund
  <2>2. CASE Deal!AddCondition \/ Deal!DecideCondition
    BY <2>2 DEF Deal!AddCondition, Deal!DecideCondition
  <2>3. CASE Deal!PayOut \/ Deal!CompleteUnpaid \/ Deal!GiveBack
    BY <2>3 DEF Deal!PayOut, Deal!CompleteUnpaid, Deal!GiveBack, Deal!Releasable
  <2>4. CASE Deal!RaiseDispute
    BY <2>4 DEF Deal!RaiseDispute
  <2>5. CASE Deal!Resolve
    BY <2>5 DEF Deal!Resolve
  <2>6. CASE UNCHANGED Deal!vars
    BY <2>6 DEF Deal!vars
  <2>. QED
    BY <2>1, <2>2, <2>3, <2>4, <2>5, <2>6 DEF Deal!Next
<1>. QED
  BY <1>1, <1>2, PTL DEF Deal!Spec

(***************************************************************************)
(* So an agreement that is called completed was funded, and its            *)
(* beneficiary had earned the money when it was and has still: the         *)
(* conditions stay approved, the ruling stands (condition.py:98-107,       *)
(* agreement_service.py:120-157).  And nobody earns anything before the    *)
(* agreement is accepted.                                                  *)
(***************************************************************************)
CompletedIsDue ==
  /\ status = "completed" => Funded /\ (AllApproved \/ DecidedFor("favour_beneficiary"))
  /\ status = "pending" => ~AllApproved /\ ~DecidedFor("favour_beneficiary")

THEOREM CompletedIsAlwaysDue ==
  ASSUME \A s, t \in Sessions : s = t
  PROVE  Spec => []CompletedIsDue
<1>1. Deal!Promises /\ FundedFirst => CompletedIsDue
  BY DEF Deal!Promises, Deal!Due, CompletedIsDue, FundedFirst, Rulings,
     DisputeResolutionOutcome, Money
<1>. QED
  BY <1>1, TheDealIsKept, DealKeepsPromises, OnlyFundedIsPaidOut, PTL DEF ImplementsDeal

------------------------------------------------------------------------------
(* Whatever the sessions do, a step is a movement of the book or none. *)
LEMMA StepOfBook ==
  ASSUME [Next]_vars
  PROVE  [Book!Next]_(Book!vars)
<1>. Lock \in Operations /\ Release \in Operations /\ Refund \in Operations
     /\ OtherOperations \subseteq Operations
  BY EscrowAssumption
<1>1. ASSUME NEW s \in Sessions, LockEscrow(s) \/ ReleaseEscrow(s) \/ RefundEscrow(s)
      PROVE  UNCHANGED book \/ \E o \in { Lock, Release, Refund } : Book!Post(o)
  BY <1>1 DEF LockEscrow, ReleaseEscrow, RefundEscrow, Replays, Refuses
<1>2. ASSUME NEW o \in OtherOperations, OtherMoney(o) PROVE Book!Post(o)
  BY <1>2 DEF OtherMoney
<1>3. UNCHANGED book \/ \E o \in Operations : Book!Post(o)
  BY <1>1, <1>2, BookWriters
<1>. QED
  BY <1>3 DEF Book!Next, Book!vars, book

(***************************************************************************)
(* Funding, release, refund and whatever else moves the parties' money are  *)
(* movements of the ledger's book, each in one step with its rows, with    *)
(* any number of sessions (routers/agreement.py, wallet_repository.py).    *)
(***************************************************************************)
THEOREM MoneyMovesByTheBook == Spec => Book!Spec
<1>1. Init => Book!Init
  BY DEF Init
<1>2. [Next]_vars => [Book!Next]_(Book!vars)
  BY StepOfBook
<1>. QED
  BY <1>1, <1>2, PTL DEF Spec, Book!Spec

(***************************************************************************)
(* So every balance is what the wallet's rows account for and add up to, no *)
(* reference has moved money twice and no transfer is half recorded        *)
(* (wallet_repository.py:3-21), whatever these handlers do.                *)
(***************************************************************************)
THEOREM LedgerAlwaysKept ==
  Spec => [](Sound(ledger, wallet) /\ Whole(ledger) /\ SumsUp(ledger, wallet))
<1>. DEFINE Kept == Sound(ledger, wallet) /\ Whole(ledger)
<1>1. Book!Init => Kept
  BY NothingIsKept DEF Book!Init, Book!Empty, Empty
<1>2. Kept /\ [Book!Next]_(Book!vars) => Kept'
  <2>. SUFFICES ASSUME Kept, [Book!Next]_(Book!vars) PROVE Kept'
    OBVIOUS
  <2>1. ASSUME NEW o \in Operations, Book!Post(o) PROVE Kept'
    BY <2>1, PostOfBook, OperationKeeps
  <2>2. CASE UNCHANGED Book!vars
    BY <2>2 DEF Book!vars
  <2>. QED
    BY <2>1, <2>2 DEF Book!Next
<1>3. Kept => Kept /\ SumsUp(ledger, wallet)
  BY AccountsSumUp DEF Sound
<1>. QED
  BY MoneyMovesByTheBook, <1>1, <1>2, <1>3, PTL DEF Book!Spec

------------------------------------------------------------------------------
(***************************************************************************)
(* The copies of the agreement's status in Redis.  They have sessions and  *)
(* steps of their own, next to the same status; whatever is proved of them *)
(* is proved of the specification of AgreementCache alone.                 *)
(***************************************************************************)
CONSTANTS None, MaxOutages, MaxCrashes

VARIABLES joined, funded, copy, missed, at, next, key, read, own, outages, crashes

Cache == INSTANCE AgreementCache WITH pc <- at, seen <- read

CopiesTyped ==
  /\ status \in Cache!AgreementStatus
  /\ copy \in [Cache!Keys -> Cache!AgreementStatus \cup { None }]
  /\ missed \in [Cache!Keys -> BOOLEAN]
  /\ key \in [Sessions -> Cache!Keys]
  /\ own \in [Sessions -> Cache!AgreementStatus \cup { None }]
  /\ read \in [Sessions -> Cache!AgreementStatus \cup { None }]
  /\ at \in [Sessions -> { "idle", "get", "set", "context", "delete", "answer",
                           "prepare", "check", "lock" }]
  /\ next \in [Sessions -> { "idle", "context", "answer", "prepare", "check" }]

(***************************************************************************)
(* Where a session is tells whether it has a status to invalidate: none    *)
(* while it only reads or funds, and the status it has committed from its  *)
(* commit until the read of its answer.                                    *)
(***************************************************************************)
OnTheWay(s) ==
  /\ at[s] = "idle" => own[s] = None /\ next[s] = "idle" /\ key[s] = "agreement"
  /\ at[s] = "answer" => next[s] = "answer"
  /\ at[s] \in { "get", "set" } => next[s] # "idle"
  /\ at[s] \in { "prepare", "check", "lock" } => own[s] = None
  /\ next[s] \in { "prepare", "check" } => own[s] = None
  /\ own[s] # None => key[s] = "agreement"

CopiesInv ==
  /\ CopiesTyped
  /\ \A s \in Sessions : OnTheWay(s)
  /\ Cache!StaleExplained

LEMMA InitCopies ==
  ASSUME Cache!Init, None \notin Cache!AgreementStatus
  PROVE  CopiesInv
BY DEF Cache!Init, CopiesInv, CopiesTyped, OnTheWay, Cache!StaleExplained, Cache!Stale,
   Cache!Keys, Cache!AgreementStatus

LEMMA StepCopiesTyped ==
  ASSUME CopiesTyped, \A s \in Sessions : OnTheWay(s), [Cache!Next]_(Cache!vars)
  PROVE  CopiesTyped' /\ \A s \in Sessions : OnTheWay(s)'
<1>. USE DEF CopiesTyped, OnTheWay, Cache!Keys, Cache!AgreementStatus
<1>. USE DEF Cache!row, Cache!redis, Cache!control, Cache!Goto, Cache!Read, Cache!Finish,
     Cache!LeaveCopies
<1>. DEFINE Kept == CopiesTyped' /\ \A s \in Sessions : OnTheWay(s)'
<1>1. ASSUME NEW s \in Sessions, Cache!Look(s) PROVE Kept
  BY <1>1 DEF Cache!Look
<1>2. ASSUME NEW s \in Sessions, Cache!Write(s) PROVE Kept
  <2>1. \E new \in Cache!AgreementStatus : \E op : Cache!Commit(s, op, new)
    BY <1>2 DEF Cache!Write, Cache!Accept, Cache!Reject, Cache!Cancel, Cache!RaiseDispute,
       Cache!Resolve, Cache!Release, Cache!Refund
  <2>. QED
    BY <2>1 DEF Cache!Commit
<1>3. ASSUME NEW s \in Sessions, Cache!Fund(s) PROVE Kept
  BY <1>3 DEF Cache!Fund
<1>4. ASSUME NEW s \in Sessions, Cache!Hit(s) \/ Cache!Miss(s) PROVE Kept
  BY <1>4 DEF Cache!Hit, Cache!Miss
<1>5. ASSUME NEW s \in Sessions, Cache!Set(s) PROVE Kept
  <2>1. missed' \in [Cache!Keys -> BOOLEAN]
    <3>1. (read[s] # status) \in BOOLEAN
      OBVIOUS
    <3>2. missed' = missed \/ missed' = [missed EXCEPT ![key[s]] = read[s] # status]
      BY <1>5 DEF Cache!Set
    <3>. QED
      BY <3>1, <3>2
  <2>2. /\ copy' \in [Cache!Keys -> Cache!AgreementStatus \cup { None }]
        /\ UNCHANGED <<status, key, own, read, next>> /\ at' = [at EXCEPT ![s] = next[s]]
        /\ at[s] = "set"
    BY <1>5 DEF Cache!Set
  <2>. QED
    BY <2>1, <2>2
<1>6. ASSUME NEW s \in Sessions, Cache!Answer(s) PROVE Kept
  BY <1>6 DEF Cache!Answer
<1>12. ASSUME NEW s \in Sessions, Cache!Context(s) PROVE Kept
  <2>1. CASE joined
    BY <1>12, <2>1 DEF Cache!Context
  <2>2. CASE ~joined
    <3>1. missed' = [k \in Cache!Keys |-> missed[k] \/ copy[k] # None]
      BY <1>12, <2>2 DEF Cache!Context
    <3>2. missed' \in [Cache!Keys -> BOOLEAN]
      BY <3>1
    <3>3. /\ UNCHANGED <<status, copy, own, read>> /\ at[s] = "context"
          /\ at' = [at EXCEPT ![s] = "get"] /\ next' = [next EXCEPT ![s] = "answer"]
          /\ key' = [key EXCEPT ![s] = "agreement"]
      BY <1>12, <2>2 DEF Cache!Context
    <3>. QED
      BY <3>2, <3>3
  <2>. QED
    BY <2>1, <2>2
<1>7. ASSUME NEW s \in Sessions, Cache!Delete(s) PROVE Kept
  BY <1>7 DEF Cache!Delete
<1>8. ASSUME NEW s \in Sessions, Cache!Prepare(s) \/ Cache!CheckFunding(s) \/ Cache!LockEscrow(s)
      PROVE  Kept
  BY <1>8 DEF Cache!Prepare, Cache!CheckFunding, Cache!LockEscrow
<1>9. ASSUME NEW s \in Sessions, Cache!Crash(s) PROVE Kept
  BY <1>9 DEF Cache!Crash
<1>10. ASSUME NEW k \in Cache!Keys, Cache!Expire(k) PROVE Kept
  BY <1>10 DEF Cache!Expire
<1>11. CASE UNCHANGED Cache!vars
  BY <1>11 DEF Cache!vars
<1>. QED
  BY <1>1, <1>2, <1>3, <1>4, <1>5, <1>6, <1>7, <1>8, <1>9, <1>10, <1>11, <1>12
  DEF Cache!Next, Cache!Proceed

(***************************************************************************)
(* A status that is committed has a session that will drop its copies;     *)
(* that session leaves them behind only where it says so in missed.        *)
(***************************************************************************)
LEMMA StepExplained ==
  ASSUME None \notin Cache!AgreementStatus, CopiesInv, [Cache!Next]_(Cache!vars)
  PROVE  Cache!StaleExplained'
<1>. USE DEF CopiesInv, CopiesTyped, OnTheWay, Cache!Keys, Cache!AgreementStatus,
     Cache!StaleExplained, Cache!Stale, Cache!Invalidating
<1>. USE DEF Cache!row, Cache!redis, Cache!control, Cache!Goto, Cache!Read, Cache!Finish,
     Cache!LeaveCopies
<1>1. ASSUME NEW s \in Sessions,
             \/ Cache!Look(s) \/ Cache!Fund(s) \/ Cache!Hit(s) \/ Cache!Miss(s)
             \/ Cache!Answer(s) \/ Cache!Prepare(s) \/ Cache!CheckFunding(s)
             \/ Cache!LockEscrow(s)
      PROVE  Cache!StaleExplained'
  <2>1. UNCHANGED <<status, copy, missed>>
    BY <1>1 DEF Cache!Look, Cache!Fund, Cache!Hit, Cache!Miss, Cache!Answer, Cache!Prepare,
       Cache!CheckFunding, Cache!LockEscrow
  <2>2. \A t \in Sessions : Cache!Invalidating(t) => Cache!Invalidating(t)'
    BY <1>1 DEF Cache!Look, Cache!Fund, Cache!Hit, Cache!Miss, Cache!Answer, Cache!Prepare,
       Cache!CheckFunding, Cache!LockEscrow
  <2>. QED
    BY <2>1, <2>2
<1>2. ASSUME NEW s \in Sessions, Cache!Write(s) PROVE Cache!StaleExplained'
  <2>1. \E new \in Cache!AgreementStatus : \E op : Cache!Commit(s, op, new)
    BY <1>2 DEF Cache!Write, Cache!Accept, Cache!Reject, Cache!Cancel, Cache!RaiseDispute,
       Cache!Resolve, Cache!Release, Cache!Refund
  <2>2. Cache!Invalidating(s)'
    BY <2>1 DEF Cache!Commit
  <2>. QED
    BY <2>2
<1>3. ASSUME NEW s \in Sessions, Cache!Set(s) PROVE Cache!StaleExplained'
  <2>1. UNCHANGED <<status, own, next>>
    BY <1>3 DEF Cache!Set
  <2>2. ASSUME NEW k \in Cache!Keys
        PROVE  \/ copy'[k] = copy[k] /\ missed'[k] = missed[k]
               \/ copy'[k] = read[s] /\ (missed'[k] <=> read[s] # status)
    <3>1. \/ UNCHANGED <<copy, missed>>
          \/ /\ copy' = [copy EXCEPT ![key[s]] = read[s]]
             /\ missed' = [missed EXCEPT ![key[s]] = read[s] # status]
      BY <1>3 DEF Cache!Set
    <3>2. CASE k = key[s]
      BY <3>1, <3>2, Zenon
    <3>3. CASE k # key[s]
      <4>. PICK b : missed' = [missed EXCEPT ![key[s]] = b] \/ missed' = missed
        BY <3>1
      <4>. QED
        BY <3>1, <3>3
    <3>. QED
      BY <3>2, <3>3
  <2>. QED
    BY <2>1, <2>2
<1>4. ASSUME NEW s \in Sessions, Cache!Context(s) \/ Cache!Delete(s) \/ Cache!Crash(s)
      PROVE  Cache!StaleExplained'
  <2>1. CASE missed' = [k \in Cache!Keys |-> missed[k] \/ copy[k] # None] /\ UNCHANGED copy
    BY <2>1
  <2>2. CASE copy' = [k \in Cache!Keys |-> None]
    BY <2>2
  <2>3. CASE UNCHANGED <<status, copy, missed>> /\ \A t \in Sessions :
               Cache!Invalidating(t) => Cache!Invalidating(t)'
    BY <2>3
  <2>. QED
    BY <1>4, <2>1, <2>2, <2>3 DEF Cache!Context, Cache!Delete, Cache!Crash
<1>5. ASSUME NEW k \in Cache!Keys, Cache!Expire(k) PROVE Cache!StaleExplained'
  BY <1>5 DEF Cache!Expire
<1>6. CASE UNCHANGED Cache!vars
  BY <1>6 DEF Cache!vars
<1>. QED
  BY <1>1, <1>2, <1>3, <1>4, <1>5, <1>6 DEF Cache!Next, Cache!Proceed

LEMMA AlwaysCopies ==
  ASSUME None \notin Cache!AgreementStatus
  PROVE  Cache!Spec => []CopiesInv
<1>1. CopiesInv /\ [Cache!Next]_(Cache!vars) => CopiesInv'
  BY StepCopiesTyped, StepExplained DEF CopiesInv
<1>. QED
  BY InitCopies, <1>1, PTL DEF Cache!Spec

(***************************************************************************)
(* With any number of readers and writers, outages and failed requests, a  *)
(* stale copy is about to be dropped or has one of the three known causes  *)
(* (agreement_repository.py:53-54).                                        *)
(***************************************************************************)
THEOREM StaleCopiesAreExplained ==
  ASSUME None \notin Cache!AgreementStatus
  PROVE  Cache!Spec => []Cache!StaleExplained
<1>1. CopiesInv => Cache!StaleExplained
  BY DEF CopiesInv
<1>. QED
  BY AlwaysCopies, <1>1, PTL

(***************************************************************************)
(* A handler that answers from a copy answers with the status it has       *)
(* committed, or another writer or a missed invalidation is why not        *)
(* (routers/dispute.py:79-81).                                             *)
(***************************************************************************)
THEOREM HandlersAnswerWithTheirStatus ==
  ASSUME None \notin Cache!AgreementStatus
  PROVE  Cache!Spec => Cache!AnswersWithItsStatus
<1>1. ASSUME CopiesInv, [Cache!Next]_(Cache!vars), NEW s \in Sessions,
             at[s] = "get", at'[s] \in { "set", "answer" }, next[s] = "answer",
             own[s] # None, read'[s] # own[s], status = own[s], ~missed["agreement"]
      PROVE  \E t \in Sessions \ {s} : Cache!Invalidating(t)
  <2>. USE DEF CopiesInv, CopiesTyped, OnTheWay, Cache!Keys
  <2>. USE DEF Cache!Goto, Cache!Read, Cache!Finish, Cache!control
  <2>0. Cache!Hit(s) \/ Cache!Miss(s)
    <3>1. ASSUME NEW t \in Sessions,
                 \/ Cache!Look(t) \/ Cache!Fund(t) \/ Cache!Set(t) \/ Cache!Answer(t)
                 \/ Cache!Context(t) \/ Cache!Delete(t) \/ Cache!Prepare(t)
                 \/ Cache!CheckFunding(t) \/ Cache!LockEscrow(t) \/ Cache!Crash(t)
          PROVE  FALSE
      BY <1>1, <3>1 DEF Cache!Look, Cache!Fund, Cache!Set, Cache!Answer, Cache!Context,
         Cache!Delete, Cache!Prepare, Cache!CheckFunding, Cache!LockEscrow, Cache!Crash
    <3>2. ASSUME NEW t \in Sessions, Cache!Write(t) PROVE FALSE
      <4>1. \E new, op : Cache!Commit(t, op, new)
        BY <3>2 DEF Cache!Write, Cache!Accept, Cache!Reject, Cache!Cancel,
           Cache!RaiseDispute, Cache!Resolve, Cache!Release, Cache!Refund
      <4>. QED
        BY <1>1, <4>1 DEF Cache!Commit
    <3>3. ASSUME NEW t \in Sessions, Cache!Hit(t) \/ Cache!Miss(t) PROVE t = s
      BY <1>1, <3>3 DEF Cache!Hit, Cache!Miss
    <3>4. ~(UNCHANGED Cache!vars) /\ ~(\E k \in Cache!Keys : Cache!Expire(k))
      BY <1>1 DEF Cache!vars, Cache!Expire
    <3>. QED
      BY <1>1, <3>1, <3>2, <3>3, <3>4 DEF Cache!Next, Cache!Proceed
  <2>1. read'[s] = status \/ (copy["agreement"] # None /\ read'[s] = copy["agreement"])
    BY <1>1, <2>0 DEF Cache!Hit, Cache!Miss
  <2>2. Cache!Stale("agreement")
    BY <1>1, <2>1 DEF Cache!Stale
  <2>3. PICK t \in Sessions : Cache!Invalidating(t)
    BY <1>1, <2>2 DEF CopiesInv, Cache!StaleExplained, Cache!Keys
  <2>4. t # s
    BY <1>1, <2>3 DEF Cache!Invalidating
  <2>. QED
    BY <2>3, <2>4
<1>2. CopiesInv /\ [Cache!Next]_(Cache!vars) =>
        [\A s \in Sessions :
           at[s] = "get" /\ at'[s] \in { "set", "answer" } /\ next[s] = "answer"
             /\ own[s] # None /\ read'[s] # own[s] =>
           \/ missed["agreement"] \/ status # own[s]
           \/ \E t \in Sessions \ {s} : Cache!Invalidating(t)]_(Cache!vars)
  BY <1>1
<1>. QED
  BY AlwaysCopies, <1>2, PTL DEF Cache!Spec, Cache!AnswersWithItsStatus
=============================================================================
