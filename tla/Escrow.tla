------------------------------- MODULE Escrow -------------------------------
(***************************************************************************)
(* One agreement between a depositor and a beneficiary, and every request  *)
(* that changes its status, its participants, its conditions, its disputes *)
(* or its money: app/routers/agreement.py, condition.py, dispute.py and    *)
(* admin_dispute.py with the services they orchestrate.                    *)
(*                                                                         *)
(* A request reads and checks (Check...), then commits once or several     *)
(* times; its database session holds no lock between its reads and its     *)
(* commits, so other sessions' commits fall in between, and it may die     *)
(* before any of them.  A check that fails changes nothing and is no step. *)
(* Money moves by the abstract book of LedgerBook, which WalletRepository  *)
(* implements: lookup, rows, balances and the caller's flushed status are  *)
(* one commit.  There is no Redis here (it is optional): get_by_id reads   *)
(* the database.                                                           *)
(***************************************************************************)
EXTENDS LedgerEntries

CONSTANTS
  Sessions,              \* concurrent requests' database sessions
  Requests,              \* the kinds of request made
  Conditions, Disputes,  \* rows that may be created
  Depositor, Beneficiary, Creator,
  Admin,                 \* a platform admin, no participant
  Lock, Release, Refund, \* esc_lock_, esc_rel_ and esc_ref_ of this agreement
  OtherOperations,       \* money movements of the depositor's other business
  InitiallyHasWallet     \* may the beneficiary have a wallet row to begin with?

Parties == { Depositor, Beneficiary }

Invitee == IF Creator = Depositor THEN Beneficiary ELSE Depositor

ASSUME EscrowAssumption ==
  /\ Depositor \in Users /\ Beneficiary \in Users /\ Depositor # Beneficiary
  /\ Creator \in Parties
  /\ Admin \notin Parties
  /\ { Lock, Release, Refund } \cup OtherOperations \subseteq Operations
  /\ Lock # Release /\ Release # Refund /\ Lock # Refund
  /\ { Lock, Release, Refund } \cap OtherOperations = {}
  /\ InitiallyHasWallet \subseteq BOOLEAN

VARIABLES
  wallet, ledger,  \* the book: all balances, all rows
  status,          \* agreement.status
  participant,     \* each party's agreement_participant row
  invitation,      \* the invitee's invitation.status
  condition,       \* condition.status
  dispute,         \* dispute.status and resolution_outcome
  hasWallet,       \* does the beneficiary have a wallet row?
  pc, call, seen   \* each session: what it does next, for what, what it read

book == <<wallet, ledger>>
agreement == <<status, participant, invitation, condition, dispute, hasWallet>>
vars == <<wallet, ledger, status, participant, invitation, condition, dispute,
          hasWallet, pc, call, seen>>

Book == INSTANCE LedgerBook WITH wallet <- wallet, ledger <- ledger

------------------------------------------------------------------------------
AgreementStatus ==
  { "pending", "active", "completed", "cancelled", "refunded", "disputed" }

ParticipantStatus == { "none", "accepted", "rejected" }

DisputeStatus == { "none", "open", "under_review", "resolved" }

DisputeResolutionOutcome ==
  { "favour_beneficiary", "favour_depositor", "dismissed" }

NoDispute == [status |-> "none", outcome |-> "none"]

NoCall == << >>

(* create_agreement has committed: the creator has accepted, the other party *)
(* is invited, some conditions may be agreed already.                        *)
Init ==
  /\ Book!Init
  /\ status = "pending"
  /\ participant = [u \in Parties |-> IF u = Creator THEN "accepted" ELSE "none"]
  /\ invitation = "pending"
  /\ condition \in [Conditions -> {"absent", "pending"}]
  /\ dispute = [d \in Disputes |-> NoDispute]
  /\ hasWallet \in InitiallyHasWallet
  /\ pc = [s \in Sessions |-> "idle"]
  /\ call = [s \in Sessions |-> NoCall]
  /\ seen = [s \in Sessions |-> "nothing"]

------------------------------------------------------------------------------
(* What requests ask of the committed state. *)

Funded == HasRows(ledger, Lock)          \* is_agreement_funded
Released == HasRows(ledger, Release)     \* is_agreement_released
Refunded == HasRows(ledger, Refund)

Joined(u) == u \in Parties /\ participant[u] # "none"

(* get_escrow_context: a participant row on both sides, whatever its status. *)
BothJoined == \A u \in Parties : Joined(u)

Agreed == { c \in Conditions : condition[c] # "absent" }

(* all_conditions_approved: no condition at all does not count. *)
AllApproved == Agreed # {} /\ \A c \in Agreed : condition[c] = "approved"

(* The disputes the partial unique index is about. *)
Live == { d \in Disputes : dispute[d].status \in { "open", "under_review" } }

(* Mutant of Unfundable: one status is forgotten. *)
UnfundableUnlessFrozen == { "cancelled", "completed", "refunded" }

Unfundable == { "cancelled", "completed", "refunded", "disputed" }
Unreleasable == { "disputed", "cancelled", "refunded" }
Unrefundable == { "completed" }

------------------------------------------------------------------------------
(* A request's control flow. *)

Begin(s, kind, arg, label, value) ==
  /\ kind \in Requests
  /\ pc[s] = "idle"
  /\ pc' = [pc EXCEPT ![s] = label]
  /\ call' = [call EXCEPT ![s] = arg]
  /\ seen' = [seen EXCEPT ![s] = value]
  /\ UNCHANGED <<book, agreement>>

Goto(s, label, value) ==
  /\ pc' = [pc EXCEPT ![s] = label]
  /\ seen' = [seen EXCEPT ![s] = value]
  /\ UNCHANGED call

Finish(s) ==
  /\ pc' = [pc EXCEPT ![s] = "idle"]
  /\ call' = [call EXCEPT ![s] = NoCall]
  /\ seen' = [seen EXCEPT ![s] = "nothing"]

------------------------------------------------------------------------------
(* accept_agreement and reject_agreement, which only the invitee can call:  *)
(* nobody else has an invitation.                                           *)

(* Mutant of CheckAccept: the agreement may be in any status. *)
CheckAcceptLate(s) ==
  /\ participant[Invitee] # "accepted"
  /\ invitation = "pending"
  /\ Begin(s, "accept", << >>, "join", participant[Invitee])

CheckAccept(s) ==
  /\ participant[Invitee] # "accepted"
  /\ status = "pending"
  /\ invitation = "pending"
  /\ Begin(s, "accept", << >>, "join", participant[Invitee])

(* An UPDATE of the row the session saw, or an INSERT that the unique       *)
(* constraint on (agreement, user) refuses when a row has appeared.         *)
JoinAs(s, new) ==
  /\ seen[s] = "none" => participant[Invitee] = "none"
  /\ participant' = [participant EXCEPT ![Invitee] = new]

CannotJoin(s) ==
  /\ pc[s] \in { "join", "decline" }
  /\ seen[s] = "none" /\ participant[Invitee] # "none"
  /\ Finish(s)
  /\ UNCHANGED <<book, agreement>>

(* First commit: the participant and the invitation. *)
Join(s) ==
  /\ pc[s] = "join"
  /\ JoinAs(s, "accepted")
  /\ invitation' = "accepted"
  /\ Goto(s, "activate", "nothing")
  /\ UNCHANGED <<book, status, condition, dispute, hasWallet>>

(* Second commit: the status, from the participants alone. *)
Activate(s) ==
  /\ pc[s] = "activate"
  /\ status' = IF \A u \in Parties : participant[u] = "accepted" THEN "active" ELSE "pending"
  /\ Finish(s)
  /\ UNCHANGED <<book, participant, invitation, condition, dispute, hasWallet>>

CheckReject(s) ==
  /\ ~(Funded /\ ~Released)
  /\ status \in { "pending", "active" }
  /\ participant[Invitee] # "rejected"
  /\ Begin(s, "reject", << >>, "decline", participant[Invitee])

Decline(s) ==
  /\ pc[s] = "decline"
  /\ JoinAs(s, "rejected")
  /\ invitation' = "expired"
  /\ Goto(s, "cancel", "nothing")
  /\ UNCHANGED <<book, status, condition, dispute, hasWallet>>

(* Mutants of CheckCancel: the money, or the status, is not looked at. *)
CheckCancelFunded(s, u) ==
  /\ Joined(u)
  /\ status \in { "pending", "active" }
  /\ Begin(s, "cancel", << >>, "cancel", "nothing")

CheckCancelFrozen(s, u) ==
  /\ ~(Funded /\ ~Released)
  /\ Joined(u)
  /\ status \in { "pending", "active", "disputed" }
  /\ Begin(s, "cancel", << >>, "cancel", "nothing")

(* cancel_agreement, of either participant, while no money is held. *)
CheckCancel(s, u) ==
  /\ ~(Funded /\ ~Released)
  /\ Joined(u)
  /\ status \in { "pending", "active" }
  /\ Begin(s, "cancel", << >>, "cancel", "nothing")

(* The last commit of reject_agreement and the only one of cancel_agreement. *)
Cancel(s) ==
  /\ pc[s] = "cancel"
  /\ status' = "cancelled"
  /\ Finish(s)
  /\ UNCHANGED <<book, participant, invitation, condition, dispute, hasWallet>>

------------------------------------------------------------------------------
(* add_condition, approve_condition and reject_condition. *)

CheckAdd(s, u, c) ==
  /\ Joined(u)
  /\ status = "pending"
  /\ condition[c] = "absent"
  /\ \A t \in Sessions : pc[t] = "add" => call[t] # <<c>>
  /\ Begin(s, "add", <<c>>, "add", "nothing")

Add(s) ==
  /\ pc[s] = "add"
  /\ condition' = [condition EXCEPT ![call[s][1]] = "pending"]
  /\ Finish(s)
  /\ UNCHANGED <<book, status, participant, invitation, dispute, hasWallet>>

(* _require_depositor: the depositor decides, while the agreement is active. *)
CheckDecide(s, c, decision) ==
  /\ Joined(Depositor)
  /\ status = "active"
  /\ condition[c] \in { "pending", "rejected" }
  /\ Begin(s, "decide", <<c, decision>>, "decide", "nothing")

Decide(s) ==
  /\ pc[s] = "decide"
  /\ condition' = [condition EXCEPT ![call[s][1]] = call[s][2]]
  /\ IF call[s][2] = "approved" THEN Goto(s, "auto", "nothing") ELSE Finish(s)
  /\ UNCHANGED <<book, status, participant, invitation, dispute, hasWallet>>

(***************************************************************************)
(* _release_escrow_if_ready, up to the flush in prepare_release: the       *)
(* approval is committed, and the release is a second transaction.         *)
(***************************************************************************)
CheckAuto(s) ==
  /\ pc[s] = "auto"
  /\ IF Funded /\ ~Released /\ AllApproved /\ BothJoined /\ status \notin Unreleasable
     THEN Goto(s, "release", status)
     ELSE Finish(s)
  /\ UNCHANGED <<book, agreement>>

------------------------------------------------------------------------------
(* Money. *)

(* A call of the wallet repository replays, moves the money or refuses. *)
Replays(o) == HasRows(ledger, o) /\ UNCHANGED book
Refuses(o) == ~Allowed(wallet, o) /\ UNCHANGED book

(* Deposits, and the escrow of the depositor's other agreements. *)
OtherMoney(o) ==
  /\ Book!Post(o)
  /\ UNCHANGED <<agreement, pc, call, seen>>

(* prepare_escrow_funding and the route's check. *)
CheckFund(s) ==
  /\ BothJoined
  /\ status \notin Unfundable
  /\ ~Funded
  /\ Begin(s, "fund", << >>, "fund", "nothing")

LockEscrow(s) ==
  /\ pc[s] = "fund"
  /\ Replays(Lock) \/ Book!Post(Lock) \/ Refuses(Lock)
  /\ Finish(s)
  /\ UNCHANGED agreement

(* Mutant of MayRelease: the conditions are not looked at. *)
MayReleaseEarly(u) == BothJoined /\ u \in Parties /\ Funded

(* Who may call POST /agreements/{id}/release, and when. *)
MayRelease(u) ==
  /\ BothJoined
  /\ u \in Parties
  /\ Funded
  /\ AllApproved

CheckRelease(s, u) ==
  /\ MayRelease(u)
  /\ status \notin Unreleasable
  /\ Begin(s, "release", << >>, "release", status)

(* The session's UPDATE of a status it saw: none if the value is the same. *)
WriteStatus(s, new) == status' = IF seen[s] = new THEN status ELSE new

(* apply_transfer finds the beneficiary without a wallet. *)
FindNoWallet(s) ==
  /\ pc[s] = "release"
  /\ ~Released
  /\ ~hasWallet
  /\ Goto(s, "ensure", seen[s])
  /\ UNCHANGED <<book, agreement>>

(***************************************************************************)
(* ensure_wallet commits, whether or not a wallet has appeared meanwhile,  *)
(* and with it the "completed" that prepare_release flushed.               *)
(***************************************************************************)
EnsureBeneficiaryWallet(s) ==
  /\ pc[s] = "ensure"
  /\ hasWallet' = TRUE
  /\ WriteStatus(s, "completed")
  /\ Goto(s, "release", "completed")
  /\ UNCHANGED <<book, participant, invitation, condition, dispute>>

(* Mutant of ReleaseEscrow: a refusal does not roll back. *)
ReleaseEscrowWithoutRollback(s) ==
  /\ pc[s] = "release"
  /\ Released \/ hasWallet
  /\ Replays(Release) \/ Book!Post(Release) \/ Refuses(Release)
  /\ WriteStatus(s, "completed")
  /\ Finish(s)
  /\ UNCHANGED <<participant, invitation, condition, dispute, hasWallet>>

(***************************************************************************)
(* The transfer commits "completed" with the money.  A replay leaves it to *)
(* the commit of the next notification; a refusal rolls it back.           *)
(***************************************************************************)
ReleaseEscrow(s) ==
  /\ pc[s] = "release"
  /\ Released \/ hasWallet
  /\ \/ (Replays(Release) \/ Book!Post(Release)) /\ WriteStatus(s, "completed")
     \/ Refuses(Release) /\ UNCHANGED status
  /\ Finish(s)
  /\ UNCHANGED <<participant, invitation, condition, dispute, hasWallet>>

(* POST /agreements/{id}/refund, by an admin. *)
CheckRefund(s) ==
  /\ Funded /\ ~Released
  /\ BothJoined
  /\ status \notin Unrefundable
  /\ Begin(s, "refund", << >>, "refund", status)

RefundEscrow(s) ==
  /\ pc[s] = "refund"
  /\ \/ (Replays(Refund) \/ Book!Post(Refund)) /\ WriteStatus(s, "refunded")
     \/ Refuses(Refund) /\ UNCHANGED status
  /\ Finish(s)
  /\ UNCHANGED <<participant, invitation, condition, dispute, hasWallet>>

(* GET /wallet by the beneficiary creates the wallet. *)
OpenWallet ==
  /\ ~hasWallet
  /\ hasWallet' = TRUE
  /\ UNCHANGED <<book, status, participant, invitation, condition, dispute, pc, call, seen>>

------------------------------------------------------------------------------
(* Disputes. *)

CheckDispute(s, u, d) ==
  /\ participant[u] = "accepted"
  /\ Live = {}
  /\ status = "active"
  /\ BothJoined
  /\ dispute[d] = NoDispute
  /\ \A t \in Sessions : pc[t] = "dispute" => call[t] # <<d>>
  /\ Begin(s, "dispute", <<d>>, "dispute", "nothing")

(* Mutant of RaiseDispute: there is no partial unique index. *)
RaiseAnyDispute(s) ==
  /\ pc[s] = "dispute"
  /\ dispute' = [dispute EXCEPT ![call[s][1]].status = "open"]
  /\ status' = "disputed"
  /\ Finish(s)
  /\ UNCHANGED <<book, participant, invitation, condition, hasWallet>>

(* Dispute and freeze in one commit, unless the unique index refuses. *)
RaiseDispute(s) ==
  /\ pc[s] = "dispute"
  /\ IF Live = {}
     THEN /\ dispute' = [dispute EXCEPT ![call[s][1]].status = "open"]
          /\ status' = "disputed"
     ELSE UNCHANGED <<dispute, status>>
  /\ Finish(s)
  /\ UNCHANGED <<book, participant, invitation, condition, hasWallet>>

(* Mutant of CheckReview: any dispute there is may be taken up. *)
CheckReviewAny(s, d) ==
  /\ dispute[d] # NoDispute
  /\ Begin(s, "review", <<d>>, "review", "nothing")

CheckReview(s, d) ==
  /\ dispute[d].status = "open"
  /\ Begin(s, "review", <<d>>, "review", "nothing")

MarkUnderReview(s) ==
  /\ pc[s] = "review"
  /\ IF Live \ {call[s][1]} = {}
     THEN dispute' = [dispute EXCEPT ![call[s][1]].status = "under_review"]
     ELSE UNCHANGED dispute
  /\ Finish(s)
  /\ UNCHANGED <<book, status, participant, invitation, condition, hasWallet>>

CheckResolve(s, d, outcome) ==
  /\ d \in Live
  /\ Begin(s, "resolve", <<d, outcome>>, "resolve", status)

(* Mutant of Resolve: the agreement is restored whatever its status. *)
ResolveUnconditionally(s) ==
  /\ pc[s] = "resolve"
  /\ dispute' = [dispute EXCEPT ![call[s][1]] =
                   [status |-> "resolved", outcome |-> call[s][2]]]
  /\ status' = "active"
  /\ Goto(s, "payout", "nothing")
  /\ UNCHANGED <<book, participant, invitation, condition, hasWallet>>

(* The outcome, and the agreement unfrozen if the session saw it frozen.    *)
(* (agreement_status_before is always active: raise_dispute demands it.)    *)
Resolve(s) ==
  /\ pc[s] = "resolve"
  /\ dispute' = [dispute EXCEPT ![call[s][1]] =
                   [status |-> "resolved", outcome |-> call[s][2]]]
  /\ status' = IF seen[s] = "disputed" THEN "active" ELSE status
  /\ Goto(s, "payout", "nothing")
  /\ UNCHANGED <<book, participant, invitation, condition, hasWallet>>

(* The decision is committed; the payout is a second transaction. *)
CheckPayout(s) ==
  /\ pc[s] = "payout"
  /\ LET outcome == call[s][2]
         due == Funded /\ ~Released
     IN IF due /\ outcome = "favour_beneficiary" /\ status \notin Unreleasable
        THEN Goto(s, "release", status)
        ELSE IF due /\ outcome = "favour_depositor" /\ status \notin Unrefundable
        THEN Goto(s, "refund", status)
        ELSE Finish(s)
  /\ UNCHANGED <<book, agreement>>

------------------------------------------------------------------------------
(* The process or its database connection dies. *)
Crash(s) ==
  /\ pc[s] # "idle"
  /\ Finish(s)
  /\ UNCHANGED <<book, agreement>>

Check(s) ==
  \/ CheckAccept(s) \/ CheckReject(s) \/ CheckFund(s) \/ CheckRefund(s)
  \/ \E u \in Parties : CheckCancel(s, u)
  \/ \E u \in Parties \cup { Admin } : CheckRelease(s, u)
  \/ \E u \in Parties, c \in Conditions : CheckAdd(s, u, c)
  \/ \E c \in Conditions, decision \in { "approved", "rejected" } :
       CheckDecide(s, c, decision)
  \/ \E u \in Parties, d \in Disputes : CheckDispute(s, u, d)
  \/ \E d \in Disputes : CheckReview(s, d)
  \/ \E d \in Disputes, outcome \in DisputeResolutionOutcome :
       CheckResolve(s, d, outcome)

Commit(s) ==
  \/ CannotJoin(s) \/ Join(s) \/ Activate(s) \/ Decline(s) \/ Cancel(s)
  \/ Add(s) \/ Decide(s) \/ CheckAuto(s)
  \/ LockEscrow(s) \/ FindNoWallet(s) \/ EnsureBeneficiaryWallet(s)
  \/ ReleaseEscrow(s) \/ RefundEscrow(s)
  \/ RaiseDispute(s) \/ MarkUnderReview(s) \/ Resolve(s) \/ CheckPayout(s)

Next ==
  \/ \E s \in Sessions : Check(s) \/ Commit(s) \/ Crash(s)
  \/ \E o \in OtherOperations : OtherMoney(o)
  \/ OpenWallet

Spec == Init /\ [][Next]_vars

------------------------------------------------------------------------------
Label ==
  { "idle", "join", "activate", "decline", "cancel", "add", "decide", "auto", "fund",
    "release", "ensure", "refund", "dispute", "review", "resolve", "payout" }

TypeOK ==
  /\ Typed(ledger, wallet)
  /\ status \in AgreementStatus
  /\ participant \in [Parties -> ParticipantStatus]
  /\ invitation \in { "pending", "accepted", "expired" }
  /\ condition \in [Conditions -> { "absent", "pending", "approved", "rejected" }]
  /\ dispute \in [Disputes -> [status : DisputeStatus,
                               outcome : DisputeResolutionOutcome \cup { "none" }]]
  /\ hasWallet \in BOOLEAN
  /\ pc \in [Sessions -> Label]
  /\ seen \in [Sessions -> AgreementStatus \cup ParticipantStatus \cup { "nothing" }]

(***************************************************************************)
(* "Only one full movement per agreement": the escrow is released to the   *)
(* beneficiary or refunded to the depositor, never both                    *)
(* (common/enums.py:132-135).                                              *)
(***************************************************************************)
PaidOutOnce == ~(Released /\ Refunded)

(***************************************************************************)
(* The agreement says what happened to its money, and goes on saying so:   *)
(* once released it is completed, once refunded it is refunded.  Release,  *)
(* refund, disputes and cancellation all write the status.                 *)
(***************************************************************************)
PayoutIsFinal ==
  /\ Released => status = "completed"
  /\ Refunded => status = "refunded"

(***************************************************************************)
(* "If the transfer fails, the rollback discards this too": the agreement  *)
(* is only called completed or refunded by a commit that leaves its money  *)
(* moved (agreement_service.py:124-127, 168-170).  The one exception is    *)
(* the commit of ensure_wallet (wallet_repository.py:239), for a           *)
(* beneficiary who had no wallet when the release looked for it.           *)
(***************************************************************************)
WithTheWallet == \E s \in Sessions : pc[s] = "ensure" /\ pc'[s] = "release"

StatusEarned ==
  [][ /\ status # "completed" /\ status' = "completed" => Released' \/ WithTheWallet
      /\ status # "refunded" /\ status' = "refunded" => Refunded' ]_vars

(***************************************************************************)
(* "While a dispute is open the agreement sits at disputed, which blocks   *)
(* both escrow funding and escrow release" (models/dispute.py:23-24).      *)
(***************************************************************************)
DisputeFreezes ==
  [][Live # {} => Funded' = Funded /\ Released' = Released]_vars

(***************************************************************************)
(* A live dispute's agreement is frozen, or its money has been refunded    *)
(* meanwhile, and every frozen agreement has a live dispute whose          *)
(* resolution will unfreeze it.                                            *)
(***************************************************************************)
FrozenWhileDisputed ==
  /\ Live # {} => status \in { "disputed", "refunded" }
  /\ status = "disputed" => Live # {}

(***************************************************************************)
(* "RESOLVED: terminal, an admin issued a binding outcome"                 *)
(* (common/enums.py:121): a decision is not changed, and a decided dispute *)
(* is not taken up again.                                                  *)
(***************************************************************************)
DecisionIsFinal ==
  [][\A d \in Disputes :
       dispute[d].status = "resolved" => dispute'[d] = dispute[d]]_vars

(***************************************************************************)
(* Two parties who submit at once do not open two disputes: a second live  *)
(* dispute would outlast the resolution that unfreezes the agreement       *)
(* (ux_dispute_one_active_per_agreement, models/dispute.py:33-41).         *)
(***************************************************************************)
OneLiveDispute == \A d, e \in Live : d = e

(***************************************************************************)
(* A dead deal holds no money: cancelled means never funded, since cancel  *)
(* and reject refuse a funded agreement and fund a cancelled one           *)
(* (routers/agreement.py:374-376, 665-668).                                *)
(***************************************************************************)
CancelledHoldsNothing == status = "cancelled" => ~Funded

(***************************************************************************)
(* "Without this guard a still-live invitation could flip a cancelled,     *)
(* completed or refunded agreement back to active and let it be funded and *)
(* released again" (agreement_service.py:472-474): those are final.        *)
(***************************************************************************)
DeadStaysDead ==
  [][(status \in { "cancelled", "completed", "refunded" }) => status' = status]_vars

(***************************************************************************)
(* The beneficiary is only ever paid when every condition is approved or   *)
(* an admin has decided a dispute in their favour (condition.py:98-107,    *)
(* admin_dispute.py:158-161).                                              *)
(***************************************************************************)
DecidedFor(outcome) == \E d \in Disputes : dispute[d].outcome = outcome

PaidWhenDue ==
  [][~Released /\ Released' => AllApproved \/ DecidedFor("favour_beneficiary")]_vars

(***************************************************************************)
(* The deal as its parties see it: with requests in turn, whatever they    *)
(* commit in several transactions, and wherever one of them dies, the      *)
(* agreement, its conditions, its disputes and its money only ever change  *)
(* as one event of Deal.                                                   *)
(***************************************************************************)
Money ==
  IF Released THEN "released"
  ELSE IF Refunded THEN "refunded"
  ELSE IF Funded THEN "held" ELSE "none"

Rulings == { outcome \in DisputeResolutionOutcome : DecidedFor(outcome) }

Deal == INSTANCE Deal WITH
  money <- Money, approved <- AllApproved, live <- (Live # {}), rulings <- Rulings

ImplementsDeal == Deal!Spec

(***************************************************************************)
(* "If settlement fails after the decision is committed, the admin re-runs *)
(* the idempotent /release or /refund endpoint" (common/enums.py:136-137): *)
(* with a decision for the beneficiary, money still held and no request on *)
(* its way, the admin's call of /release is accepted.                      *)
(***************************************************************************)
AdminCanSettle ==
  /\ DecidedFor("favour_beneficiary")
  /\ Funded /\ ~Released /\ ~Refunded
  /\ Live = {}
  /\ \A s \in Sessions : pc[s] = "idle"
  => MayRelease(Admin)
=============================================================================
