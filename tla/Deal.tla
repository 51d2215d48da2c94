-------------------------------- MODULE Deal --------------------------------
(***************************************************************************)
(* What an agreement promises its two parties, with no requests, reads,    *)
(* locks or half-done work: each event of the deal is one indivisible      *)
(* step, allowed by what is true when it happens.  Escrow, whose requests  *)
(* check first and commit later, implements it as long as they come in     *)
(* turn.                                                                   *)
(***************************************************************************)

VARIABLES
  status,    \* agreement.status
  money,     \* where the escrow is: "none", "held", "released" or "refunded"
  approved,  \* are there conditions, all of them approved?
  live,      \* is a dispute open or under review?
  rulings    \* the outcomes of the disputes resolved so far

vars == <<status, money, approved, live, rulings>>

Outcomes == { "favour_beneficiary", "favour_depositor", "dismissed" }

Init ==
  /\ status = "pending"
  /\ money = "none"
  /\ approved = FALSE
  /\ live = FALSE
  /\ rulings = {}

(* The beneficiary has earned the money. *)
Due == approved \/ "favour_beneficiary" \in rulings

------------------------------------------------------------------------------
(* The invitee accepts. *)
Accept ==
  /\ status = "pending"
  /\ status' = "active"
  /\ UNCHANGED <<money, approved, live, rulings>>

(* The invitee rejects, or either party cancels: only before any money. *)
CallOff ==
  /\ status \in { "pending", "active" }
  /\ money = "none"
  /\ status' = "cancelled"
  /\ UNCHANGED <<money, approved, live, rulings>>

AddCondition ==
  /\ status = "pending"
  /\ approved' = FALSE
  /\ UNCHANGED <<status, money, live, rulings>>

DecideCondition ==
  /\ status = "active"
  /\ approved' \in BOOLEAN
  /\ UNCHANGED <<status, money, live, rulings>>

Fund ==
  /\ status \in { "pending", "active" }
  /\ money = "none"
  /\ money' = "held"
  /\ UNCHANGED <<status, approved, live, rulings>>

Releasable ==
  /\ money = "held"
  /\ status \notin { "disputed", "cancelled", "refunded" }
  /\ Due

PayOut ==
  /\ Releasable
  /\ money' = "released"
  /\ status' = "completed"
  /\ UNCHANGED <<approved, live, rulings>>

(***************************************************************************)
(* A beneficiary without a wallet row is given one in the middle of the    *)
(* release, and the commit that opens it calls the deal completed.  The    *)
(* money follows, unless the request dies or is refused there.             *)
(***************************************************************************)
CompleteUnpaid ==
  /\ Releasable
  /\ status' = "completed"
  /\ UNCHANGED <<money, approved, live, rulings>>

GiveBack ==
  /\ money = "held"
  /\ status # "completed"
  /\ money' = "refunded"
  /\ status' = "refunded"
  /\ UNCHANGED <<approved, live, rulings>>

RaiseDispute ==
  /\ status = "active"
  /\ ~live
  /\ live' = TRUE
  /\ status' = "disputed"
  /\ UNCHANGED <<money, approved, rulings>>

(* A resolution unfreezes a frozen deal, and leaves a refunded one refunded. *)
Resolve ==
  /\ live
  /\ live' = FALSE
  /\ \E outcome \in Outcomes : rulings' = rulings \cup { outcome }
  /\ status' = IF status = "disputed" THEN "active" ELSE status
  /\ UNCHANGED <<money, approved>>

Next ==
  \/ Accept \/ CallOff \/ AddCondition \/ DecideCondition
  \/ Fund \/ PayOut \/ CompleteUnpaid \/ GiveBack
  \/ RaiseDispute \/ Resolve

Spec == Init /\ [][Next]_vars

------------------------------------------------------------------------------
(***************************************************************************)
(* What the two parties may rely on at any moment.  Money paid out either  *)
(* way is where the status says and stays there; a deal called off never   *)
(* held any; a deal called completed was funded and its beneficiary had    *)
(* earned it; a live dispute freezes the deal, unless its money went back  *)
(* meanwhile, and nothing else does; nobody earns anything before the deal *)
(* is accepted (agreement_service.py:124-209, models/dispute.py:23-25).    *)
(***************************************************************************)
Promises ==
  /\ money = "released" => status = "completed"
  /\ money = "refunded" <=> status = "refunded"
  /\ status = "cancelled" => money = "none"
  /\ status = "completed" => money # "none" /\ Due
  /\ live => status \in { "disputed", "refunded" }
  /\ status = "disputed" => live
  /\ status = "pending" => ~Due
=============================================================================
