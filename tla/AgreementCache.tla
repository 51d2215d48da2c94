--------------------------- MODULE AgreementCache ---------------------------
(***************************************************************************)
(* The copies of one agreement that Redis keeps (agreement:{id} and the    *)
(* lists user:{id}:agreements:v2 of its parties) next to its row: every    *)
(* handler that writes agreement.status commits, drops the copies and      *)
(* answers with get_agreement; every read takes a copy or makes one        *)
(* (app/repository/agreement_repository.py, app/redis.py).                 *)
(*                                                                         *)
(* Redis and PostgreSQL are asked one command after the other, so that     *)
(* sessions of several workers interleave between a SELECT and its SETEX   *)
(* and between a COMMIT and its DEL.  A handler's unlocked check and its   *)
(* commit are one step here; what falls in between is in Escrow.           *)
(***************************************************************************)
EXTENDS Naturals

CONSTANTS
  Sessions,     \* concurrent requests
  None,         \* no copy
  MaxOutages,   \* bound: commands Redis does not answer
  MaxCrashes    \* bound: requests that end after their commit with an error,
                \* or with their process

AgreementStatus ==
  { "pending", "active", "disputed", "completed", "refunded", "cancelled" }

ASSUME AgreementCacheAssumption ==
  /\ None \notin AgreementStatus
  /\ MaxOutages \in Nat /\ MaxCrashes \in Nat

VARIABLES
  status,    \* agreement.status
  joined,    \* has the invitee a participant row?
  funded,    \* is there an esc_lock_ entry?
  copy,      \* what Redis keeps under each key
  missed,    \* history: an invalidation of the copy has been missed
  pc,        \* what each session does next
  next,      \* what it does after the read it is at
  key,       \* the key it reads
  seen,      \* the status it has read last
  own,       \* the status it has committed
  outages, crashes

row == <<status, joined, funded>>
redis == <<copy, missed>>
control == <<pc, next, key, seen, own>>
vars == <<status, joined, funded, copy, missed, pc, next, key, seen, own, outages, crashes>>

Keys == { "agreement", "list" }

Init ==
  /\ status = "pending" /\ joined = FALSE /\ funded = FALSE
  /\ copy = [k \in Keys |-> None]
  /\ missed = [k \in Keys |-> FALSE]
  /\ pc = [s \in Sessions |-> "idle"]
  /\ next = [s \in Sessions |-> "idle"]
  /\ key = [s \in Sessions |-> "agreement"]
  /\ seen = [s \in Sessions |-> None]
  /\ own = [s \in Sessions |-> None]
  /\ outages = 0 /\ crashes = 0

Goto(s, label) ==
  /\ pc' = [pc EXCEPT ![s] = label]
  /\ UNCHANGED <<next, key, seen, own>>

(* Read the copy under k, or the row, and go on at label. *)
Read(s, k, label) ==
  /\ pc' = [pc EXCEPT ![s] = "get"]
  /\ next' = [next EXCEPT ![s] = label]
  /\ key' = [key EXCEPT ![s] = k]
  /\ UNCHANGED <<seen, own>>

Finish(s) ==
  /\ pc' = [pc EXCEPT ![s] = "idle"]
  /\ next' = [next EXCEPT ![s] = "idle"]
  /\ key' = [key EXCEPT ![s] = "agreement"]
  /\ seen' = [seen EXCEPT ![s] = None]
  /\ own' = [own EXCEPT ![s] = None]

(* Every command of Redis is best effort. *)
Outage == outages < MaxOutages /\ outages' = outages + 1

Answers == UNCHANGED outages

------------------------------------------------------------------------------
(* Reads: get_by_id, get_user_agreements. *)

Hit(s) ==
  /\ pc[s] = "get"
  /\ copy[key[s]] # None
  /\ seen' = [seen EXCEPT ![s] = copy[key[s]]]
  /\ pc' = [pc EXCEPT ![s] = next[s]]
  /\ UNCHANGED <<row, redis, next, key, own, outages, crashes>>

(* No copy, or no answer: the row is read. *)
Miss(s) ==
  /\ pc[s] = "get"
  /\ (copy[key[s]] = None /\ Answers) \/ (copy[key[s]] # None /\ Outage)
  /\ seen' = [seen EXCEPT ![s] = status]
  /\ pc' = [pc EXCEPT ![s] = "set"]
  /\ UNCHANGED <<row, redis, next, key, own, crashes>>

(* SETEX of what was read, however old it has become. *)
Set(s) ==
  /\ pc[s] = "set"
  /\ \/ /\ copy' = [copy EXCEPT ![key[s]] = seen[s]]
        /\ missed' = [missed EXCEPT ![key[s]] = seen[s] # status]
        /\ Answers
     \/ Outage /\ UNCHANGED redis
  /\ Goto(s, next[s])
  /\ UNCHANGED <<row, crashes>>

(* Five minutes have passed. *)
Expire(k) ==
  /\ copy[k] # None
  /\ copy' = [copy EXCEPT ![k] = None]
  /\ missed' = [missed EXCEPT ![k] = FALSE]
  /\ UNCHANGED <<row, control, outages, crashes>>

(* GET /agreements/{id} and GET /agreements. *)
Look(s) ==
  /\ pc[s] = "idle"
  /\ \E k \in Keys : Read(s, k, "answer")
  /\ UNCHANGED <<row, redis, outages, crashes>>

Answer(s) ==
  /\ pc[s] = "answer"
  /\ Finish(s)
  /\ UNCHANGED <<row, redis, outages, crashes>>

------------------------------------------------------------------------------
(* Writes.  accept, reject, raise_dispute and admin_resolve_dispute know    *)
(* the keys; cancel, release and refund look the parties up once more       *)
(* (invalidate_agreement_cache), which reads the agreement.                 *)

KnowsKeys == { "accept", "reject", "dispute", "resolve" }

Commit(s, op, new) ==
  /\ pc[s] = "idle"
  /\ status' = new
  /\ own' = [own EXCEPT ![s] = new]
  /\ IF op \in KnowsKeys
     THEN pc' = [pc EXCEPT ![s] = "delete"] /\ UNCHANGED <<next, key, seen>>
     ELSE /\ pc' = [pc EXCEPT ![s] = "get"]
          /\ next' = [next EXCEPT ![s] = "context"]
          /\ key' = [key EXCEPT ![s] = "agreement"]
          /\ UNCHANGED seen
  /\ UNCHANGED <<funded, redis, outages, crashes>>

(* The invitee is given a participant row by either answer. *)
Accept(s) == status = "pending" /\ joined' = TRUE /\ Commit(s, "accept", "active")

Reject(s) ==
  /\ status \in { "pending", "active" }
  /\ joined' = TRUE
  /\ Commit(s, "reject", "cancelled")

Cancel(s) ==
  /\ status \in { "pending", "active" } /\ ~funded
  /\ Commit(s, "cancel", "cancelled")
  /\ UNCHANGED joined

RaiseDispute(s) ==
  status = "active" /\ Commit(s, "dispute", "disputed") /\ UNCHANGED joined

Resolve(s) ==
  status = "disputed" /\ Commit(s, "resolve", "active") /\ UNCHANGED joined

Release(s) ==
  status = "active" /\ funded /\ Commit(s, "release", "completed") /\ UNCHANGED joined

Refund(s) ==
  /\ status \in { "active", "disputed" } /\ funded
  /\ Commit(s, "refund", "refunded")
  /\ UNCHANGED joined

(* What an invalidation that does not take place leaves stale. *)
LeaveCopies == missed' = [k \in Keys |-> missed[k] \/ copy[k] # None]

(* get_escrow_context raises without both parties, and the exception is     *)
(* swallowed with a warning: no copy is dropped.                            *)
Context(s) ==
  /\ pc[s] = "context"
  /\ \/ joined /\ Goto(s, "delete") /\ UNCHANGED missed
     \/ ~joined /\ Read(s, "agreement", "answer") /\ LeaveCopies
  /\ UNCHANGED <<row, copy, outages, crashes>>

(* Mutant of Delete: only the lists are dropped. *)
DeleteLists(s) ==
  /\ pc[s] = "delete"
  /\ copy' = [copy EXCEPT !["list"] = None]
  /\ missed' = [missed EXCEPT !["list"] = FALSE]
  /\ Read(s, "agreement", "answer")
  /\ UNCHANGED <<row, outages, crashes>>

(* Mutant of Delete: the lists are forgotten. *)
DeleteAgreement(s) ==
  /\ pc[s] = "delete"
  /\ copy' = [copy EXCEPT !["agreement"] = None]
  /\ missed' = [missed EXCEPT !["agreement"] = FALSE]
  /\ Read(s, "agreement", "answer")
  /\ UNCHANGED <<row, outages, crashes>>

(* One DEL of agreement_cache_keys, then the response is read. *)
Delete(s) ==
  /\ pc[s] = "delete"
  /\ \/ /\ copy' = [k \in Keys |-> None]
        /\ missed' = [k \in Keys |-> FALSE]
        /\ Answers
     \/ LeaveCopies /\ Outage /\ UNCHANGED copy
  /\ Read(s, "agreement", "answer")
  /\ UNCHANGED <<row, crashes>>

(* The request or its process ends after the commit; so does a release     *)
(* whose status ensure_wallet has committed and whose transfer then fails.  *)
Crash(s) ==
  /\ own[s] # None
  /\ pc[s] \in { "get", "set", "context", "delete" }
  /\ crashes < MaxCrashes /\ crashes' = crashes + 1
  /\ IF next[s] = "answer" THEN UNCHANGED missed ELSE LeaveCopies
  /\ Finish(s)
  /\ UNCHANGED <<row, copy, outages>>

------------------------------------------------------------------------------
(* POST /agreements/{id}/fund reads the agreement for its context and once  *)
(* more for its status (prepare_escrow_funding).                            *)

Unfundable == { "cancelled", "completed", "refunded", "disputed" }

Fund(s) ==
  /\ pc[s] = "idle" /\ joined /\ ~funded
  /\ Read(s, "agreement", "prepare")
  /\ UNCHANGED <<row, redis, outages, crashes>>

Prepare(s) ==
  /\ pc[s] = "prepare"
  /\ Read(s, "agreement", "check")
  /\ UNCHANGED <<row, redis, outages, crashes>>

CheckFunding(s) ==
  /\ pc[s] = "check"
  /\ IF seen[s] \in Unfundable THEN Finish(s) ELSE Goto(s, "lock")
  /\ UNCHANGED <<row, redis, outages, crashes>>

(* The ledger entry; no status changes and no copy is dropped. *)
LockEscrow(s) ==
  /\ pc[s] = "lock"
  /\ funded' = TRUE
  /\ Read(s, "agreement", "answer")
  /\ UNCHANGED <<status, joined, redis, outages, crashes>>

Write(s) ==
  \/ Accept(s) \/ Reject(s) \/ Cancel(s) \/ RaiseDispute(s) \/ Resolve(s)
  \/ Release(s) \/ Refund(s)

Proceed(s) ==
  \/ Hit(s) \/ Miss(s) \/ Set(s) \/ Answer(s) \/ Context(s) \/ Delete(s)
  \/ Prepare(s) \/ CheckFunding(s) \/ LockEscrow(s)

Next ==
  \/ \E s \in Sessions : Look(s) \/ Write(s) \/ Fund(s) \/ Proceed(s) \/ Crash(s)
  \/ \E k \in Keys : Expire(k)

Spec == Init /\ [][Next]_vars

------------------------------------------------------------------------------
Stale(k) == copy[k] \notin { None, status }

(* A session that has committed a status and not yet dropped the copies. *)
Invalidating(s) == own[s] # None /\ next[s] # "answer"

(***************************************************************************)
(* "Getting this wrong means get_by_id serves a stale status for five      *)
(* minutes" (agreement_repository.py:53-54): a copy that is not the row's  *)
(* status is one that its writer is about to drop, or one whose            *)
(* invalidation was missed in one of three ways: Redis or the request      *)
(* failed, the parties were not both there, or a reader wrote back what it *)
(* had read before the commit.                                             *)
(***************************************************************************)
StaleExplained ==
  \A k \in Keys :
    Stale(k) => missed[k] \/ \E s \in Sessions : Invalidating(s)

(***************************************************************************)
(* "The agreement payload is fetched AFTER the service has committed and   *)
(* invalidated the cache, so it carries the new status rather than a stale *)
(* one" (routers/dispute.py:79-81): what a handler reads for its answer is  *)
(* the status it has committed, unless another one has changed it since or *)
(* an invalidation was missed.                                             *)
(***************************************************************************)
AnswersWithItsStatus ==
  [][\A s \in Sessions :
       pc[s] = "get" /\ pc'[s] \in { "set", "answer" } /\ next[s] = "answer"
         /\ own[s] # None /\ seen'[s] # own[s] =>
       \/ missed["agreement"] \/ status # own[s]
       \/ \E t \in Sessions \ {s} : Invalidating(t)]_vars
=============================================================================
