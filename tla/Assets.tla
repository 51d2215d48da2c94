------------------------------- MODULE Assets -------------------------------
(***************************************************************************)
(* The deliverables uploaded to one condition, the depositor's decisions   *)
(* on them, and the three kinds of copies Redis keeps of them for a day    *)
(* (app/service/asset_service.py, app/repository/asset_repository.py).     *)
(*                                                                         *)
(* Sessions are requests of several workers, which interleave between      *)
(* commands of PostgreSQL and Redis.  The agreement has the one condition, *)
(* so that its list and the condition's show the same assets.              *)
(***************************************************************************)
EXTENDS Naturals

CONSTANTS
  Sessions,     \* concurrent requests
  Assets,       \* assets that may be uploaded
  None,         \* no copy, no asset
  MaxOutages    \* bound: commands Redis does not answer

VARIABLES
  uploaded,     \* rows of asset
  approved,     \* those with is_approved
  copy,         \* asset:{id}: is_approved
  list,         \* condition:{id}:asset and agreement:{id}:asset
  pc,           \* what each session does next
  call,         \* the asset, or the list, and the decision it has been given
  seen,         \* what it has read
  answer,       \* what the client of its last request was told
  outages

rows == <<uploaded, approved>>
redis == <<copy, list>>
control == <<pc, call, seen, answer>>
vars == <<uploaded, approved, copy, list, pc, call, seen, answer, outages>>

Lists == { "condition", "agreement" }

(* What a SELECT for either list returns. *)
Shown == [uploaded |-> uploaded, approved |-> approved]

NoCall == [of |-> None, decision |-> FALSE]

Init ==
  /\ uploaded = {} /\ approved = {}
  /\ copy = [a \in Assets |-> None]
  /\ list = [k \in Lists |-> None]
  /\ pc = [s \in Sessions |-> "idle"]
  /\ call = [s \in Sessions |-> NoCall]
  /\ seen = [s \in Sessions |-> None]
  /\ answer = [s \in Sessions |-> "none"]
  /\ outages = 0

Begin(s, label, of, decision) ==
  /\ pc[s] = "idle"
  /\ pc' = [pc EXCEPT ![s] = label]
  /\ call' = [call EXCEPT ![s] = [of |-> of, decision |-> decision]]
  /\ UNCHANGED <<seen, answer>>

Goto(s, label) == pc' = [pc EXCEPT ![s] = label] /\ UNCHANGED <<call, seen, answer>>

Finish(s, what) ==
  /\ pc' = [pc EXCEPT ![s] = "idle"]
  /\ call' = [call EXCEPT ![s] = NoCall]
  /\ seen' = [seen EXCEPT ![s] = None]
  /\ answer' = [answer EXCEPT ![s] = what]

Outage == outages < MaxOutages /\ outages' = outages + 1
Answers == UNCHANGED outages

------------------------------------------------------------------------------
(* add_asset_to_condition: the rows are committed, then one list dropped. *)
Upload(s) ==
  /\ \E a \in Assets \ uploaded :
       uploaded' = uploaded \cup { a } /\ Begin(s, "delete", a, FALSE)
  /\ UNCHANGED <<approved, redis, outages>>

(* approve_asset and reject_asset, up to the look-up of the asset. *)
Approve(s) ==
  /\ \E a \in uploaded : Begin(s, "get", a, TRUE)
  /\ UNCHANGED <<rows, redis, outages>>

Reject(s) ==
  /\ \E a \in uploaded : Begin(s, "get", a, FALSE)
  /\ UNCHANGED <<rows, redis, outages>>

(* get_by_id makes an instance of its own from the copy.  save_asset adds   *)
(* it to the session, the commit INSERTs it, and the primary key refuses    *)
(* it: AssetApprovalError.                                                  *)
HitAsset(s) ==
  /\ pc[s] = "get"
  /\ copy[call[s].of] # None
  /\ Finish(s, "error")
  /\ UNCHANGED <<rows, redis, outages>>

MissAsset(s) ==
  /\ pc[s] = "get"
  /\ (copy[call[s].of] = None /\ Answers) \/ (copy[call[s].of] # None /\ Outage)
  /\ seen' = [seen EXCEPT ![s] = (call[s].of \in approved)]
  /\ pc' = [pc EXCEPT ![s] = "set"]
  /\ UNCHANGED <<rows, redis, call, answer>>

SetAsset(s) ==
  /\ pc[s] = "set"
  /\ \/ copy' = [copy EXCEPT ![call[s].of] = seen[s]] /\ Answers
     \/ Outage /\ UNCHANGED copy
  /\ Goto(s, "write")
  /\ UNCHANGED <<rows, list>>

(* The ORM writes a column only when its value differs from the loaded one. *)
Write(s) ==
  LET a == call[s].of IN
  /\ pc[s] = "write"
  /\ approved' = IF seen[s] = call[s].decision THEN approved
                 ELSE IF call[s].decision THEN approved \cup { a } ELSE approved \ { a }
  /\ Goto(s, "delete")
  /\ UNCHANGED <<uploaded, redis, outages>>

(* invalidate_cache: the condition's list, and no other key.  It is not     *)
(* best effort: an error of Redis is the request's, after its commit.       *)
Delete(s) ==
  /\ pc[s] = "delete"
  /\ \/ list' = [list EXCEPT !["condition"] = None] /\ Answers /\ Finish(s, "done")
     \/ Outage /\ Finish(s, "error") /\ UNCHANGED list
  /\ UNCHANGED <<rows, copy>>

------------------------------------------------------------------------------
(* get_condition_assets, get_agreement_assets *)

Look(s) ==
  /\ \E k \in Lists : Begin(s, "list", k, FALSE)
  /\ UNCHANGED <<rows, redis, outages>>

HitList(s) ==
  /\ pc[s] = "list"
  /\ list[call[s].of] # None
  /\ Finish(s, "done")
  /\ UNCHANGED <<rows, redis, outages>>

(* An empty list is not kept. *)
MissList(s) ==
  /\ pc[s] = "list"
  /\ (list[call[s].of] = None /\ Answers) \/ (list[call[s].of] # None /\ Outage)
  /\ IF uploaded = {}
     THEN Finish(s, "done")
     ELSE /\ seen' = [seen EXCEPT ![s] = Shown]
          /\ pc' = [pc EXCEPT ![s] = "keep"]
          /\ UNCHANGED <<call, answer>>
  /\ UNCHANGED <<rows, redis>>

KeepList(s) ==
  /\ pc[s] = "keep"
  /\ \/ list' = [list EXCEPT ![call[s].of] = seen[s]] /\ Answers
     \/ Outage /\ UNCHANGED list
  /\ Finish(s, "done")
  /\ UNCHANGED <<rows, copy>>

(* Twenty-four hours. *)
Expire ==
  /\ \/ \E a \in Assets : copy[a] # None /\ copy' = [copy EXCEPT ![a] = None] /\ UNCHANGED list
     \/ \E k \in Lists : list[k] # None /\ list' = [list EXCEPT ![k] = None] /\ UNCHANGED copy
  /\ UNCHANGED <<rows, control, outages>>

Next ==
  \/ \E s \in Sessions :
       \/ Upload(s) \/ Approve(s) \/ Reject(s)
       \/ HitAsset(s) \/ MissAsset(s) \/ SetAsset(s) \/ Write(s) \/ Delete(s)
       \/ Look(s) \/ HitList(s) \/ MissList(s) \/ KeepList(s)
  \/ Expire

Spec == Init /\ [][Next]_vars

------------------------------------------------------------------------------
(***************************************************************************)
(* "Write operations (always invalidate relevant cache keys)"              *)
(* (asset_repository.py:162): once its requests have ended, a write leaves *)
(* no copy behind that differs from the rows.                              *)
(***************************************************************************)
AlwaysInvalidated ==
  (\A s \in Sessions : pc[s] = "idle") =>
    /\ \A a \in Assets : copy[a] # None => copy[a] = (a \in approved)
    /\ \A k \in Lists : list[k] # None => list[k] = Shown
=============================================================================
