--------------------------- MODULE IdempotencyKeys ---------------------------
(***************************************************************************)
(* One Idempotency-Key of one user at one endpoint: the idempotency_key    *)
(* row (app/repository/idempotency_repository.py), the requests that carry *)
(* the key (app/core/idempotency.py) and the money their handler moves.    *)
(*                                                                         *)
(* Reserving the key, moving the money and storing the response are three  *)
(* commits.  A reservation becomes stale after                             *)
(* idempotency_inflight_timeout_seconds and may then be taken over: the    *)
(* row, and with it the record id the first holder has kept, stays the     *)
(* same.  Rows past their TTL are swept by requests with other keys.       *)
(***************************************************************************)
EXTENDS Naturals, FiniteSets

CONSTANTS
  Requests,         \* requests with this key, retries included
  Body,             \* the request_hash of each
  None,             \* no record id, no response
  FreshReferences,  \* does each execution move money under a new reference, as
                    \* a withdrawal does, or always under the same one?
  OutlastsTimeout   \* may a reservation become stale before its handler ends?

Refusals == { "reused", "conflict", "error" }

NoAnswer == "none"

ASSUME IdempotencyKeysAssumption ==
  /\ DOMAIN Body = Requests
  /\ None \notin Requests
  /\ Requests \cap (Refusals \cup { NoAnswer }) = {}
  /\ FreshReferences \in BOOLEAN
  /\ OutlastsTimeout \in BOOLEAN

VARIABLES
  row,       \* the idempotency_key row
  moved,     \* the references under which the handler has moved money
  pc,        \* what each request does next
  record,    \* the record id its context has kept
  answer,    \* the request whose response it was answered with, or a refusal
  swept      \* history: a row past its TTL has been deleted

vars == <<row, moved, pc, record, answer, swept>>

NoRow == [id |-> None, hash |-> None, status |-> "none", age |-> "none",
          response |-> None]

(* A row's id is a uuid of the request that inserted it. *)
InProgress(id, r) ==
  [id |-> id, hash |-> Body[r], status |-> "in_progress", age |-> "fresh",
   response |-> None]

Init ==
  /\ row = NoRow
  /\ moved = {}
  /\ pc = [r \in Requests |-> "new"]
  /\ record = [r \in Requests |-> None]
  /\ answer = [r \in Requests |-> NoAnswer]
  /\ swept = FALSE

Goto(r, label) == pc' = [pc EXCEPT ![r] = label]

End(r, what) ==
  /\ Goto(r, "ended")
  /\ answer' = [answer EXCEPT ![r] = what]

------------------------------------------------------------------------------
(* begin *)

(* Mutant of TakenOver: the conflict's WHERE forgets the status. *)
TakenOverCompleted == row.age \in { "stale", "expired" }

(* Mutant of TakenOver: the conflict's WHERE forgets the timeout. *)
TakenOverAtOnce == row.status = "in_progress"

(* The WHERE of ON CONFLICT DO UPDATE. *)
TakenOver == row.status = "in_progress" /\ row.age \in { "stale", "expired" }

(* Mutant of Take: the row keeps the hash of the request that died. *)
TakeKeepingHash(r, id) ==
  row' = [InProgress(id, r) EXCEPT !.hash = IF row = NoRow THEN @ ELSE row.hash]

Take(r, id) == row' = InProgress(id, r)

(* One INSERT ... ON CONFLICT DO UPDATE ... RETURNING id, and its commit. *)
Reserve(r) ==
  /\ pc[r] = "new"
  /\ \/ /\ row = NoRow
        /\ Take(r, r)
        /\ record' = [record EXCEPT ![r] = r]
        /\ Goto(r, "work")
     \/ /\ row # NoRow /\ TakenOver
        /\ Take(r, row.id)
        /\ record' = [record EXCEPT ![r] = row.id]
        /\ Goto(r, "work")
     \/ /\ row # NoRow /\ ~TakenOver
        /\ Goto(r, "look")
        /\ UNCHANGED <<row, record>>
  /\ UNCHANGED <<moved, answer, swept>>

(* The row has been swept since: the request proceeds without one. *)
ProceedUnguarded(r) ==
  /\ pc[r] = "look"
  /\ row = NoRow
  /\ Goto(r, "work")
  /\ UNCHANGED <<row, moved, record, answer, swept>>

(* IdempotencyKeyReusedError, a replay, or IdempotencyConflictError. *)
Look(r) ==
  /\ pc[r] = "look"
  /\ row # NoRow
  /\ End(r, IF row.hash # Body[r] THEN "reused"
            ELSE IF row.status = "completed" THEN row.response
            ELSE "conflict")
  /\ UNCHANGED <<row, moved, record, swept>>

------------------------------------------------------------------------------
(* The handler. *)

Reference(r) == IF FreshReferences THEN r ELSE "the same"

(* The ledger replays a reference it knows. *)
MoveMoney(r) ==
  /\ pc[r] = "work"
  /\ moved' = moved \cup { Reference(r) }
  /\ Goto(r, "complete")
  /\ UNCHANGED <<row, record, answer, swept>>

(* Refused, or given back: the handler raises and no money has moved. *)
Raise(r) ==
  /\ pc[r] = "work"
  /\ Goto(r, "release")
  /\ UNCHANGED <<row, moved, record, answer, swept>>

(* The row with the record id, whoever holds it by now. *)
Found(r) == row # NoRow /\ record[r] = row.id

(* complete *)
Complete(r) ==
  /\ pc[r] = "complete"
  /\ row' = IF Found(r)
            THEN [row EXCEPT !.status = "completed", !.response = r]
            ELSE row
  /\ End(r, r)
  /\ UNCHANGED <<moved, record, swept>>

(* Mutant of Release: there is no teardown. *)
ReleaseNothing(r) ==
  /\ pc[r] = "release"
  /\ End(r, "error")
  /\ UNCHANGED <<row, moved, record, swept>>

(* release_if_abandoned *)
Release(r) ==
  /\ pc[r] = "release"
  /\ row' = IF Found(r) /\ row.status = "in_progress" THEN NoRow ELSE row
  /\ End(r, "error")
  /\ UNCHANGED <<moved, record, swept>>

(* The process dies mid-request. *)
Die(r) ==
  /\ pc[r] \notin { "new", "ended", "dead" }
  /\ Goto(r, "dead")
  /\ UNCHANGED <<row, moved, record, answer, swept>>

------------------------------------------------------------------------------
(* Time. *)

Live(r) == pc[r] \in { "work", "complete", "release" }

Held == \E r \in Requests : Live(r) /\ Found(r)

(* created_at < now - idempotency_inflight_timeout_seconds *)
Stale ==
  /\ row.age = "fresh"
  /\ OutlastsTimeout \/ ~Held
  /\ row' = [row EXCEPT !.age = "stale"]
  /\ UNCHANGED <<moved, pc, record, answer, swept>>

(* expires_at < now: no handler runs for idempotency_ttl_hours. *)
Expire ==
  /\ row.age = "stale"
  /\ ~Held
  /\ row' = [row EXCEPT !.age = "expired"]
  /\ UNCHANGED <<moved, pc, record, answer, swept>>

(* _sweep_expired, whatever the status of the row. *)
Sweep ==
  /\ row.age = "expired"
  /\ row' = NoRow
  /\ swept' = TRUE
  /\ UNCHANGED <<moved, pc, record, answer>>

Next ==
  \/ \E r \in Requests :
       \/ Reserve(r) \/ ProceedUnguarded(r) \/ Look(r)
       \/ MoveMoney(r) \/ Raise(r) \/ Complete(r) \/ Release(r) \/ Die(r)
  \/ Stale \/ Expire \/ Sweep

Spec == Init /\ [][Next]_vars

------------------------------------------------------------------------------
References == IF FreshReferences THEN Requests ELSE { "the same" }

Rows ==
  [id : Requests, hash : { Body[r] : r \in Requests },
   status : { "in_progress", "completed" }, age : { "fresh", "stale", "expired" },
   response : Requests \cup { None }]

TypeOK ==
  /\ row \in Rows \cup { NoRow }
  /\ row.status = "completed" <=> row.response # None
  /\ moved \subseteq References
  /\ pc \in [Requests -> { "new", "look", "work", "complete", "release", "ended", "dead" }]
  /\ record \in [Requests -> Requests \cup { None }]
  /\ answer \in [Requests -> Requests \cup Refusals \cup { NoAnswer }]
  /\ swept \in BOOLEAN

(***************************************************************************)
(* "A reservation left IN_PROGRESS longer than [the timeout] is considered *)
(* abandoned (the process died mid-request) and can be taken over"         *)
(* (idempotency_repository.py:42-44): while handlers end within the        *)
(* timeout, two of them never run with one key's reservation, takeovers,   *)
(* sweeps and releases included.                                           *)
(***************************************************************************)
OneHandler ==
  \A r, q \in Requests :
    Live(r) /\ Live(q) /\ record[r] = record[q] /\ record[r] # None => r = q

(***************************************************************************)
(* "It lets a client safely retry a request that timed out and receive the *)
(* original response" (core/idempotency.py:22-23), and "a retry with       *)
(* different content is caught" (:57): a replay is the response of a       *)
(* request with the same content that has moved its money, even when the   *)
(* key was taken over from a dead request with other content.              *)
(***************************************************************************)
ReplayIsOriginal ==
  \A r \in Requests :
    answer[r] \in Requests =>
      Body[answer[r]] = Body[r] /\ Reference(answer[r]) \in moved

(***************************************************************************)
(* "A completed response is never thrown away"                             *)
(* (idempotency_repository.py:131-132): until its TTL has passed, a        *)
(* completed key keeps the first response.                                 *)
(***************************************************************************)
ResponseKept ==
  [][row.status = "completed" =>
       \/ row'.status = "completed" /\ row'.response = row.response
       \/ row.age = "expired"]_vars

(***************************************************************************)
(* "A failed request would block the client from retrying with the same    *)
(* key" (core/idempotency.py:185-186): a key is in progress only while a   *)
(* handler is at work on it, or when that handler has died.                *)
(***************************************************************************)
NotBlocked ==
  row.status = "in_progress" =>
    \E r \in Requests : (Live(r) \/ pc[r] = "dead") /\ record[r] = row.id

(***************************************************************************)
(* What the key is for: the requests that hold it move money once, unless  *)
(* one of them has died in the middle or the key's TTL has passed.  (One   *)
(* that proceeds unguarded because the holder has just released the key,   *)
(* core/idempotency.py:125-132, moves money besides.)                      *)
(***************************************************************************)
MovesOnce ==
  \/ Cardinality({ r \in Requests : record[r] # None /\ Reference(r) \in moved }) <= 1
  \/ swept
  \/ \E r \in Requests : pc[r] = "dead"

(***************************************************************************)
(* "If a key is swept early or the client omits the header entirely, the   *)
(* ledger still refuses to double-spend" (core/idempotency.py:24-25).      *)
(***************************************************************************)
NeverSpentTwice == Cardinality(moved) <= 1
=============================================================================
