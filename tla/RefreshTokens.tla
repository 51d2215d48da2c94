--------------------------- MODULE RefreshTokens ---------------------------
(***************************************************************************)
(* One user's refresh tokens: login, rotation, reuse and logout            *)
(* (app/service/auth_service.py), with the user row they look at and the   *)
(* copy of it that Redis keeps (app/repository/user_repository.py).        *)
(*                                                                         *)
(* No handler here awaits, so that one worker serves one request after     *)
(* another; the sessions are requests of several workers, and interleave   *)
(* between database statements.  An UPDATE or INSERT and its COMMIT are    *)
(* one step: nobody sees what is between them, and a statement that waits  *)
(* for the row's lock has its effect after.                                *)
(*                                                                         *)
(* Tokens are numbered as they are issued.  A login starts a family; a     *)
(* rotation stays in it.  replaced_by_jti is left out: nothing reads it.   *)
(***************************************************************************)
EXTENDS Naturals

CONSTANTS
  Sessions,     \* concurrent requests
  MaxTokens     \* bound: tokens issued

ASSUME RefreshTokensAssumption == MaxTokens \in Nat

VARIABLES
  row,          \* refresh_token: unrevoked, revoked, or no row
  family,       \* history: the first token since the login
  expired,      \* tokens whose expires_at has passed
  issued,       \* tokens issued so far
  user,         \* the user row
  copy,         \* Redis: user:{id}
  pc,           \* what each session does next
  token,        \* the token a session was given
  seen,         \* the user it has read
  forked,       \* history: families with a token that was no longer what
                \* the session that writes it had checked
  ended         \* history: families ended by a logout or a reuse

tokens == <<row, family, expired, issued, forked, ended>>
account == <<user, copy>>
control == <<pc, token, seen>>
vars == <<row, family, expired, issued, user, copy, pc, token, seen, forked, ended>>

Token == 1 .. MaxTokens
Users == { "none", "active", "inactive" }

Init ==
  /\ row = [t \in Token |-> "none"]
  /\ family = [t \in Token |-> t]
  /\ expired = {} /\ issued = 0
  /\ user = "none" /\ copy = "none"
  /\ pc = [s \in Sessions |-> "idle"]
  /\ token = [s \in Sessions |-> 0]
  /\ seen = [s \in Sessions |-> "none"]
  /\ forked = {} /\ ended = {}

Goto(s, label) == pc' = [pc EXCEPT ![s] = label] /\ UNCHANGED <<token, seen>>

Take(s, t, label) ==
  /\ pc' = [pc EXCEPT ![s] = label]
  /\ token' = [token EXCEPT ![s] = t]
  /\ UNCHANGED seen

Finish(s) ==
  /\ pc' = [pc EXCEPT ![s] = "idle"]
  /\ token' = [token EXCEPT ![s] = 0]
  /\ seen' = [seen EXCEPT ![s] = "none"]

Presentable == { t \in Token \ expired : t <= issued }

------------------------------------------------------------------------------
(* Login: verify_id_token, register-from-invite. *)

(* get_by_email reads the row, never the copy. *)
Login(s) ==
  /\ pc[s] = "idle"
  /\ user # "inactive"
  /\ Goto(s, IF user = "none" THEN "create" ELSE "issue")
  /\ UNCHANGED <<tokens, account>>

(* The second of two first logins meets the primary key and fails. *)
CreateUser(s) ==
  /\ pc[s] = "create"
  /\ IF user = "none"
     THEN user' = "active" /\ Goto(s, "issue")
     ELSE UNCHANGED user /\ Finish(s)
  /\ UNCHANGED <<tokens, copy>>

(* The next jti, unrevoked, in the family of from, or in its own. *)
Insert(from) ==
  /\ issued < MaxTokens /\ issued' = issued + 1
  /\ family' = [family EXCEPT ![issued + 1] = IF from = 0 THEN issued + 1 ELSE family[from]]

IssueTokenPair(s) ==
  /\ pc[s] = "issue"
  /\ Insert(0)
  /\ row' = [row EXCEPT ![issued + 1] = "unrevoked"]
  /\ Finish(s)
  /\ UNCHANGED <<expired, account, forked, ended>>

------------------------------------------------------------------------------
(* Refresh *)

(* A token that has not expired.  Without its row it is refused. *)
RefreshToken(s) ==
  /\ pc[s] = "idle"
  /\ \E t \in Presentable :
       \/ row[t] = "revoked" /\ Take(s, t, "reuse")
       \/ row[t] = "unrevoked" /\ Take(s, t, "user")
  /\ UNCHANGED <<tokens, account>>

Live(t) == row[t] = "unrevoked"

FamilyOf(t) == { family[t] }

(* Mutant of RevokeAll: only the token presented and its successor die. *)
RevokeNext(s) ==
  /\ pc[s] = "reuse"
  /\ row' = [t \in Token |-> IF Live(t) /\ t = token[s] + 1 THEN "revoked" ELSE row[t]]
  /\ ended' = ended \cup { family[t] : t \in 1 .. issued }
  /\ Finish(s)
  /\ UNCHANGED <<family, expired, issued, account, forked>>

(* A revoked token presented again: revoke_all_for_user, commit, 401. *)
RevokeAll(s) ==
  /\ pc[s] = "reuse"
  /\ row' = [t \in Token |-> IF Live(t) THEN "revoked" ELSE row[t]]
  /\ ended' = ended \cup { family[t] : t \in 1 .. issued }
  /\ Finish(s)
  /\ UNCHANGED <<family, expired, issued, account, forked>>

Afterwards(s, status) ==
  IF status = "active" THEN Goto(s, "rotate") ELSE Finish(s)

(* get_by_id: the copy, when Redis has one and answers. *)
HitUser(s) ==
  /\ pc[s] = "user" /\ copy # "none"
  /\ Afterwards(s, copy)
  /\ UNCHANGED <<tokens, account>>

MissUser(s) ==
  /\ pc[s] = "user"
  /\ seen' = [seen EXCEPT ![s] = user]
  /\ pc' = [pc EXCEPT ![s] = "set"]
  /\ UNCHANGED <<tokens, account, token>>

SetCopy(s) ==
  /\ pc[s] = "set"
  /\ copy' \in { copy, seen[s] }
  /\ Afterwards(s, seen[s])
  /\ UNCHANGED <<tokens, user>>

(* Mutant of Rotate: the presented token is not revoked. *)
RotateKeeping(s) ==
  /\ pc[s] = "rotate"
  /\ Insert(token[s])
  /\ row' = [row EXCEPT ![issued + 1] = "unrevoked"]
  /\ Finish(s)
  /\ UNCHANGED <<expired, account, forked, ended>>

(* The UPDATE names the row by its key only.  A row purged meanwhile is     *)
(* an error (StaleDataError).                                               *)
Rotate(s) ==
  LET t == token[s] IN
  /\ pc[s] = "rotate"
  /\ \/ /\ row[t] # "none"
        /\ Insert(t)
        /\ row' = [row EXCEPT ![t] = "revoked", ![issued + 1] = "unrevoked"]
        /\ forked' = forked \cup IF Live(t) THEN {} ELSE FamilyOf(t)
     \/ row[t] = "none" /\ UNCHANGED <<row, family, issued, forked>>
  /\ Finish(s)
  /\ UNCHANGED <<expired, account, ended>>

(* The database refuses the commit or is lost; at the bound it always does. *)
Fail(s) ==
  /\ pc[s] \in { "issue", "rotate" }
  /\ Finish(s)
  /\ UNCHANGED <<tokens, account>>

------------------------------------------------------------------------------
(* Logout *)

LookupForLogout(s) ==
  /\ pc[s] = "idle"
  /\ \E t \in Presentable : Live(t) /\ Take(s, t, "logout")
  /\ UNCHANGED <<tokens, account>>

Logout(s) ==
  LET t == token[s] IN
  /\ pc[s] = "logout"
  /\ row' = [row EXCEPT ![t] = IF row[t] = "none" THEN "none" ELSE "revoked"]
  /\ ended' = ended \cup IF Live(t) THEN FamilyOf(t) ELSE {}
  /\ Finish(s)
  /\ UNCHANGED <<family, expired, issued, account, forked>>

------------------------------------------------------------------------------
(* The user row and time *)

(* A request with an access token looks at the row, never at the copy. *)
Authenticate(s) ==
  /\ pc[s] = "idle"
  /\ user = "active"
  /\ Goto(s, "admitted")
  /\ UNCHANGED <<tokens, account>>

(* register_user and update_user write the columns they change and no other *)
(* one, commit and drop the copy.                                           *)
UpdateUser(s) ==
  /\ pc[s] = "admitted"
  /\ Goto(s, "drop")
  /\ UNCHANGED <<tokens, account>>

(* deactivate_user: no route calls it; it is an operator's. *)
Deactivate(s) ==
  /\ pc[s] = "idle" /\ user # "none"
  /\ user' = "inactive"
  /\ Goto(s, "drop")
  /\ UNCHANGED <<tokens, copy>>

DropCopy(s) ==
  /\ pc[s] = "drop"
  /\ copy' \in { copy, "none" }
  /\ Finish(s)
  /\ UNCHANGED <<tokens, user>>

(* Mutant of ExpireCopy: the copy has no TTL. *)
ExpireNever == FALSE /\ copy' = "none" /\ UNCHANGED <<tokens, user, control>>

(* Fifteen minutes. *)
ExpireCopy == copy # "none" /\ copy' = "none" /\ UNCHANGED <<tokens, user, control>>

(* All live equally long, and expire in the order they were issued in. *)
ExpireToken ==
  /\ \E t \in Presentable : 1 .. t - 1 \subseteq expired /\ expired' = expired \cup { t }
  /\ UNCHANGED <<row, family, issued, account, control, forked, ended>>

PurgeExpired ==
  /\ row' = [t \in Token |-> IF t \in expired THEN "none" ELSE row[t]]
  /\ UNCHANGED <<family, expired, issued, account, control, forked, ended>>

Proceed(s) ==
  \/ CreateUser(s) \/ IssueTokenPair(s) \/ RevokeAll(s) \/ HitUser(s) \/ MissUser(s)
  \/ SetCopy(s) \/ Rotate(s) \/ Fail(s) \/ Logout(s) \/ UpdateUser(s) \/ DropCopy(s)

Next ==
  \/ \E s \in Sessions :
       Login(s) \/ RefreshToken(s) \/ LookupForLogout(s)
         \/ Authenticate(s) \/ Deactivate(s) \/ Proceed(s)
  \/ ExpireCopy \/ ExpireToken \/ PurgeExpired

Spec == Init /\ [][Next]_vars

(* A started request runs on, and Redis lets the copy expire. *)
Fairness == WF_vars(ExpireCopy) /\ \A s \in Sessions : WF_vars(Proceed(s))

FairSpec == Spec /\ Fairness

------------------------------------------------------------------------------
TypeOK ==
  /\ row \in [Token -> { "none", "unrevoked", "revoked" }]
  /\ family \in [Token -> Token]
  /\ expired \subseteq Token
  /\ issued \in 0 .. MaxTokens
  /\ user \in Users /\ copy \in Users
  /\ issued > 0 => user # "none"
  /\ pc \in [Sessions -> { "idle", "create", "issue", "reuse", "user", "set", "rotate",
                           "logout", "admitted", "drop" }]
  /\ token \in [Sessions -> 0 .. MaxTokens]
  /\ seen \in [Sessions -> Users]
  /\ forked \subseteq Token /\ ended \subseteq Token

(***************************************************************************)
(* "Presenting a refresh token revokes it" (models/refresh_token.py:13): a *)
(* login has one usable refresh token, whatever is rotated, logged out and *)
(* purged, unless a rotation has written a token that another request had  *)
(* revoked after it was checked.                                           *)
(***************************************************************************)
OneLiveToken ==
  \A t, u \in Token :
    t # u /\ Live(t) /\ Live(u) /\ family[t] = family[u] => family[t] \in forked

(***************************************************************************)
(* "Presenting an already-revoked token is treated as theft and revokes    *)
(* every live token for that user" (models/refresh_token.py:14-15): from   *)
(* then on, and from a logout on, nothing descends from that login, unless *)
(* it has forked.                                                          *)
(***************************************************************************)
EndedStaysEnded ==
  \A t \in Token : Live(t) /\ family[t] \in ended => family[t] \in forked

(***************************************************************************)
(* "Inactive accounts are rejected everywhere" (service/token_service.py:  *)
(* 102): though a rotation believes a copy of the user up to fifteen       *)
(* minutes old, and a slow reader may put an old one back, a deactivated   *)
(* user is given no more tokens in the end.                                *)
(***************************************************************************)
InactiveGetsNoMore ==
  user = "inactive" ~> [](\A s \in Sessions : pc[s] # "rotate")
=============================================================================
