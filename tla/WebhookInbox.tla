---------------------------- MODULE WebhookInbox ----------------------------
(***************************************************************************)
(* The webhook_event table (app/repository/webhook_event_repository.py)    *)
(* and the provider's redelivery that it answers.  An event is claimed by  *)
(* one insert-or-update and its commit, handled by the module that extends *)
(* this one, and then marked.  The provider goes on delivering an event    *)
(* until it is answered with 200.                                          *)
(***************************************************************************)
EXTENDS Naturals

CONSTANTS
  Events,      \* dedupe keys: one per event type and provider id
  MaxAttempts  \* MAX_ATTEMPTS, how often an event may be claimed

ASSUME WebhookInboxAssumption == MaxAttempts \in Nat \ {0}

VARIABLES
  inbox,       \* each event's row in webhook_event
  owed         \* events the provider has sent and has no 200 for

WebhookEventStatus == { "received", "processed", "failed" }

NoEvent == [status |-> "none", attempts |-> 0]

InboxInit ==
  /\ inbox = [e \in Events |-> NoEvent]
  /\ owed = {}

(* Mutant of Claimable: an event is only ever handled once. *)
ClaimableOnce(e) == inbox[e] = NoEvent

(* The conflict branch's WHERE: only a failed event, and not for ever. *)
Claimable(e) ==
  \/ inbox[e] = NoEvent
  \/ inbox[e].status = "failed" /\ inbox[e].attempts < MaxAttempts

Claim(e) ==
  inbox' = [inbox EXCEPT ![e] = [status |-> "received", attempts |-> @.attempts + 1]]

(* Answered with 200: the event is not sent again. *)
Acknowledge(e) == owed' = owed \ {e}

(* mark(PROCESSED), then 200. *)
Processed(e) ==
  /\ inbox' = [inbox EXCEPT ![e].status = "processed"]
  /\ Acknowledge(e)

(* mark_failed, then 500: the provider will send the event again. *)
Failed(e) ==
  /\ inbox' = [inbox EXCEPT ![e].status = "failed"]
  /\ UNCHANGED owed

InboxTyped ==
  /\ inbox \in [Events -> [status : WebhookEventStatus \cup { "none" },
                           attempts : 0 .. MaxAttempts]]
  /\ owed \subseteq Events
=============================================================================
