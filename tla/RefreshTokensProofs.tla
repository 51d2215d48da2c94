------------------------ MODULE RefreshTokensProofs ------------------------
(***************************************************************************)
(* What holds of refresh tokens for any number of concurrent requests, on  *)
(* any number of workers, and any number of tokens.                        *)
(***************************************************************************)
EXTENDS RefreshTokens, TLAPS

(* A request works on a token that has been issued, for a user that is     *)
(* there.                                                                  *)
RequestsTyped ==
  \A s \in Sessions :
    /\ pc[s] = "issue" => user # "none"
    /\ pc[s] \in { "reuse", "user", "set", "rotate", "logout" } => token[s] \in 1 .. issued

(* Only issued tokens have rows, families begin with a login, and only     *)
(* such families have ended.                                               *)
FamiliesTyped ==
  /\ \A t \in Token : Live(t) => t <= issued
  /\ \A t \in Token : family[t] <= t
  /\ ended \subseteq 1 .. issued

IInv == TypeOK /\ RequestsTyped /\ FamiliesTyped /\ OneLiveToken /\ EndedStaysEnded

(* Requests that are somewhere between their first and last statement, and *)
(* write no token.                                                         *)
Elsewhere(s) ==
  \/ Login(s) \/ CreateUser(s) \/ RefreshToken(s) \/ HitUser(s) \/ MissUser(s) \/ SetCopy(s)
  \/ Fail(s) \/ LookupForLogout(s) \/ Authenticate(s) \/ UpdateUser(s) \/ Deactivate(s)
  \/ DropCopy(s)

Labels == { "idle", "create", "issue", "reuse", "user", "set", "rotate", "logout", "admitted", "drop" }
AtToken == { "reuse", "user", "set", "rotate", "logout" }

(***************************************************************************)
(* A request that moves to label with token t, and writes no token, keeps  *)
(* the types.                                                              *)
(***************************************************************************)
LEMMA Moves ==
  ASSUME TypeOK, RequestsTyped, UNCHANGED tokens,
         NEW s \in Sessions, NEW label \in Labels, NEW t \in 0 .. MaxTokens,
         pc' = [pc EXCEPT ![s] = label], token' = [token EXCEPT ![s] = t],
         seen' \in [Sessions -> Users], user' \in Users, copy' \in Users,
         user # "none" => user' # "none",
         label = "issue" => user' # "none",
         label \in AtToken => t \in 1 .. issued
  PROVE  TypeOK' /\ RequestsTyped'
<1>1. TypeOK'
  BY DEF TypeOK, tokens, Labels
<1>2. RequestsTyped'
  <2>. SUFFICES ASSUME NEW r \in Sessions
                PROVE  /\ pc'[r] = "issue" => user' # "none"
                       /\ pc'[r] \in AtToken => token'[r] \in 1 .. issued'
    BY DEF RequestsTyped, AtToken
  <2>. pc \in [Sessions -> Labels] /\ token \in [Sessions -> 0 .. MaxTokens]
    BY DEF TypeOK, Labels
  <2>1. CASE r = s BY <2>1 DEF tokens
  <2>2. CASE r # s BY <2>2 DEF tokens, RequestsTyped, AtToken
  <2>. QED BY <2>1, <2>2
<1>. QED BY <1>1, <1>2

(***************************************************************************)
(* What writes no token leaves the tokens as they are, and the request at  *)
(* an issued token.                                                        *)
(***************************************************************************)
LEMMA ElsewhereTyped ==
  ASSUME IInv, NEW s \in Sessions, Elsewhere(s)
  PROVE  TypeOK' /\ RequestsTyped' /\ UNCHANGED tokens
<1>. /\ TypeOK /\ RequestsTyped
     /\ user \in Users /\ copy \in Users /\ seen \in [Sessions -> Users]
     /\ pc \in [Sessions -> Labels] /\ token \in [Sessions -> 0 .. MaxTokens]
     /\ token = [token EXCEPT ![s] = token[s]] /\ token[s] \in 0 .. MaxTokens
     /\ 0 \in 0 .. MaxTokens
     /\ pc[s] \in AtToken => token[s] \in 1 .. issued
     /\ "none" \in Users /\ "active" \in Users /\ "inactive" \in Users
  BY RefreshTokensAssumption DEF IInv, TypeOK, RequestsTyped, Labels, AtToken, Users
<1>0. ASSUME NEW label \in Labels, Goto(s, label), UNCHANGED tokens,
             user' \in Users, copy' \in Users, user # "none" => user' # "none",
             label = "issue" => user' # "none",
             label \in AtToken => pc[s] \in AtToken
      PROVE  TypeOK' /\ RequestsTyped'
  BY <1>0, Moves DEF Goto
<1>f. ASSUME Finish(s), UNCHANGED <<tokens, user>>, copy' \in Users
      PROVE  TypeOK' /\ RequestsTyped'
  <2>. seen' \in [Sessions -> Users] /\ "idle" \in Labels /\ "idle" \notin AtToken
    BY <1>f DEF Finish, Labels, AtToken
  <2>. QED BY <1>f, Moves DEF Finish
<1>t. ASSUME NEW label \in AtToken, NEW t \in Presentable, Take(s, t, label),
             UNCHANGED <<tokens, account>>
      PROVE  TypeOK' /\ RequestsTyped'
  <2>. t \in 1 .. issued /\ t \in 0 .. MaxTokens /\ label \in Labels /\ label # "issue"
    BY RefreshTokensAssumption DEF Presentable, Token, AtToken, Labels, IInv, TypeOK
  <2>. QED BY <1>t, Moves DEF Take, account
<1>1. CASE Login(s)
  BY <1>1, <1>0 DEF Login, Labels, AtToken, account
<1>2. CASE CreateUser(s)
  BY <1>2, <1>0, <1>f DEF CreateUser, Labels, AtToken
<1>3. CASE RefreshToken(s)
  <2>. "reuse" \in AtToken /\ "user" \in AtToken BY DEF AtToken
  <2>. QED BY <1>3, <1>t DEF RefreshToken
<1>4. CASE HitUser(s)
  BY <1>4, <1>0, <1>f DEF HitUser, Afterwards, Labels, AtToken, account
<1>5. CASE MissUser(s)
  <2>. /\ seen' \in [Sessions -> Users] /\ "set" \in Labels /\ "set" \in AtToken
       /\ pc[s] \in AtToken
    BY <1>5 DEF MissUser, Labels, AtToken
  <2>. QED BY <1>5, Moves DEF MissUser, account
<1>6. CASE SetCopy(s)
  BY <1>6, <1>0, <1>f DEF SetCopy, Afterwards, Labels, AtToken
<1>7. CASE Fail(s)
  BY <1>7, <1>f DEF Fail, account
<1>8. CASE LookupForLogout(s)
  <2>. "logout" \in AtToken BY DEF AtToken
  <2>. QED BY <1>8, <1>t DEF LookupForLogout
<1>9. CASE Authenticate(s)
  BY <1>9, <1>0 DEF Authenticate, Labels, AtToken, account
<1>10. CASE UpdateUser(s)
  BY <1>10, <1>0 DEF UpdateUser, Labels, AtToken, account
<1>11. CASE Deactivate(s)
  BY <1>11, <1>0 DEF Deactivate, Labels, AtToken
<1>12. CASE DropCopy(s)
  BY <1>12, <1>f DEF DropCopy
<1>13. UNCHANGED tokens
  BY DEF Elsewhere, Login, CreateUser, RefreshToken, HitUser, MissUser, SetCopy, Fail,
         LookupForLogout, Authenticate, UpdateUser, Deactivate, DropCopy
<1>. QED
  BY <1>1, <1>2, <1>3, <1>4, <1>5, <1>6, <1>7, <1>8, <1>9, <1>10, <1>11, <1>12, <1>13
  DEF Elsewhere

(***************************************************************************)
(* A statement that only takes tokens away, and ends a family only when    *)
(* none of its tokens stays, but in a fork, keeps the families in order.   *)
(***************************************************************************)
LEMMA TakingAway ==
  ASSUME TypeOK, FamiliesTyped, OneLiveToken, EndedStaysEnded,
         \A t \in Token : Live(t)' => Live(t),
         UNCHANGED <<family, issued, forked>>,
         ended' \subseteq 1 .. issued,
         \A t \in Token : Live(t)' /\ family[t] \in ended' \ ended => family[t] \in forked
  PROVE  FamiliesTyped' /\ OneLiveToken' /\ EndedStaysEnded'
<1>1. FamiliesTyped' BY DEF FamiliesTyped
<1>2. OneLiveToken' BY DEF OneLiveToken
<1>3. EndedStaysEnded' BY DEF EndedStaysEnded
<1>. QED BY <1>1, <1>2, <1>3

(***************************************************************************)
(* What ends a request and takes tokens away keeps the types.              *)
(***************************************************************************)
LEMMA Ends ==
  ASSUME TypeOK, RequestsTyped, NEW s \in Sessions, Finish(s),
         row' \in [Token -> { "none", "unrevoked", "revoked" }],
         family' \in [Token -> Token],
         issued' \in issued .. MaxTokens,
         user # "none",
         UNCHANGED <<expired, account>>,
         forked' \subseteq Token, ended' \subseteq Token
  PROVE  TypeOK' /\ RequestsTyped'
<1>. /\ pc \in [Sessions -> Labels] /\ token \in [Sessions -> 0 .. MaxTokens]
     /\ seen \in [Sessions -> Users] /\ issued \in Nat /\ issued' \in 0 .. MaxTokens
  BY RefreshTokensAssumption DEF TypeOK, Labels
<1>1. /\ pc' \in [Sessions -> Labels] /\ token' \in [Sessions -> 0 .. MaxTokens]
      /\ seen' \in [Sessions -> Users]
  BY RefreshTokensAssumption DEF Finish, Labels, Users
<1>2. TypeOK'
  BY <1>1 DEF TypeOK, Labels, account
<1>3. RequestsTyped'
  <2>. SUFFICES ASSUME NEW r \in Sessions
                PROVE  /\ pc'[r] = "issue" => user' # "none"
                       /\ pc'[r] \in AtToken => token'[r] \in 1 .. issued'
    BY DEF RequestsTyped, AtToken
  <2>1. CASE r = s BY <2>1 DEF Finish, AtToken
  <2>2. CASE r # s
    <3>1. pc'[r] = pc[r] /\ token'[r] = token[r] BY <2>2 DEF Finish
    <3>2. pc[r] \in AtToken => token[r] \in 1 .. issued BY DEF RequestsTyped, AtToken
    <3>. QED BY <3>1, <3>2 DEF account
  <2>. QED BY <2>1, <2>2
<1>. QED BY <1>2, <1>3

(* The token a request works on has been issued, and its user is there. *)
LEMMA AtIssued ==
  ASSUME TypeOK, RequestsTyped, NEW s \in Sessions, pc[s] \in AtToken
  PROVE  /\ token[s] \in 1 .. issued /\ token[s] \in Token
         /\ issued \in Nat /\ issued \in issued .. MaxTokens /\ issued \in 0 .. MaxTokens
         /\ issued > 0 /\ user # "none"
<1>1. issued \in Nat /\ issued \in 0 .. MaxTokens /\ issued \in issued .. MaxTokens
  BY RefreshTokensAssumption DEF TypeOK
<1>2. token[s] \in 1 .. issued BY DEF RequestsTyped, AtToken
<1>3. token[s] \in Token /\ issued > 0 BY RefreshTokensAssumption, <1>1, <1>2 DEF Token
<1>4. user # "none" BY <1>3 DEF TypeOK
<1>. QED BY <1>1, <1>2, <1>3, <1>4

(* A login's token starts a family that nothing has ended. *)
LEMMA IssueKeeps ==
  ASSUME IInv, NEW s \in Sessions, IssueTokenPair(s)
  PROVE  IInv'
<1>. DEFINE n == issued + 1
<1>. TypeOK /\ RequestsTyped /\ FamiliesTyped /\ OneLiveToken /\ EndedStaysEnded
  BY DEF IInv
<1>1. /\ n \in Token /\ issued \in Nat /\ issued' = n
      /\ row \in [Token -> { "none", "unrevoked", "revoked" }]
      /\ family \in [Token -> Token]
  BY RefreshTokensAssumption DEF TypeOK, Token, IssueTokenPair, Insert
<1>2. /\ row' = [row EXCEPT ![n] = "unrevoked"]
      /\ family' = [family EXCEPT ![n] = n]
      /\ Finish(s) /\ UNCHANGED <<expired, account, forked, ended>>
  BY DEF IssueTokenPair, Insert
<1>3. user # "none" BY DEF IssueTokenPair, RequestsTyped
<1>4. TypeOK' /\ RequestsTyped'
  <2>1. issued' \in issued .. MaxTokens BY <1>1 DEF Token
  <2>2. row' \in [Token -> { "none", "unrevoked", "revoked" }] /\ family' \in [Token -> Token]
    BY <1>1, <1>2
  <2>3. forked' \subseteq Token /\ ended' \subseteq Token BY <1>2 DEF TypeOK
  <2>. QED BY <1>2, <1>3, <2>1, <2>2, <2>3, Ends
<1>5. ASSUME NEW t \in Token, t # n
      PROVE  family'[t] = family[t] /\ (Live(t)' <=> Live(t))
  BY <1>1, <1>2, <1>5 DEF Live
<1>6. ASSUME NEW t \in Token, t # n, Live(t)
      PROVE  t <= issued /\ family[t] <= t /\ family[t] # n
  BY <1>1, <1>6 DEF FamiliesTyped, Token
<1>7. family'[n] = n /\ n \notin ended
  BY <1>1, <1>2 DEF FamiliesTyped
<1>8. FamiliesTyped'
  <2>1. \A t \in Token : Live(t)' => t <= issued'
    BY <1>1, <1>5, <1>6 DEF Token
  <2>2. \A t \in Token : family'[t] <= t
    BY <1>1, <1>5, <1>7 DEF FamiliesTyped, Token
  <2>3. ended' \subseteq 1 .. issued' BY <1>1, <1>2 DEF FamiliesTyped
  <2>. QED BY <2>1, <2>2, <2>3 DEF FamiliesTyped
<1>9. OneLiveToken'
  BY <1>2, <1>5, <1>6, <1>7 DEF OneLiveToken
<1>10. EndedStaysEnded'
  BY <1>2, <1>5, <1>7 DEF EndedStaysEnded
<1>. QED BY <1>4, <1>8, <1>9, <1>10 DEF IInv

(***************************************************************************)
(* A rotation puts the successor where the token was.  The other live      *)
(* tokens of its family were there before, so that the family had forked;  *)
(* when the token is no longer live, it forks now.                         *)
(***************************************************************************)
LEMMA RotateKeeps ==
  ASSUME IInv, NEW s \in Sessions, Rotate(s)
  PROVE  IInv'
<1>. DEFINE o == token[s]  n == issued + 1
<1>. TypeOK /\ RequestsTyped /\ FamiliesTyped /\ OneLiveToken /\ EndedStaysEnded
  BY DEF IInv
<1>p. pc[s] \in AtToken BY DEF Rotate, AtToken
<1>0. /\ issued \in Nat /\ issued \in 0 .. MaxTokens /\ issued \in issued .. MaxTokens
      /\ o \in 1 .. issued /\ o \in Token /\ user # "none"
      /\ row \in [Token -> { "none", "unrevoked", "revoked" }]
      /\ family \in [Token -> Token] /\ forked \subseteq Token /\ ended \subseteq Token
  BY <1>p, AtIssued DEF TypeOK
<1>a. CASE row[o] = "none"
  <2>1. Finish(s) /\ UNCHANGED <<row, family, issued, expired, account, forked, ended>>
    BY <1>a DEF Rotate
  <2>2. TypeOK' /\ RequestsTyped'
    BY <1>0, <2>1, Ends
  <2>3. FamiliesTyped' /\ OneLiveToken' /\ EndedStaysEnded'
    BY <2>1, TakingAway DEF Live, FamiliesTyped
  <2>. QED BY <2>2, <2>3 DEF IInv
<1>b. CASE row[o] # "none"
  <2>1. /\ n \in Token /\ issued' = n
        /\ row' = [row EXCEPT ![o] = "revoked", ![n] = "unrevoked"]
        /\ family' = [family EXCEPT ![n] = family[o]]
        /\ forked' = forked \cup IF Live(o) THEN {} ELSE FamilyOf(o)
        /\ Finish(s) /\ UNCHANGED <<expired, account, ended>>
    <3>1. Insert(o) BY <1>b DEF Rotate
    <3>2. n \in Token BY RefreshTokensAssumption, <1>0, <3>1 DEF Insert, Token
    <3>3. o # 0 BY <1>0
    <3>4. issued' = n /\ family' = [family EXCEPT ![n] = IF o = 0 THEN n ELSE family[o]]
      BY <3>1 DEF Insert
    <3>. QED BY <1>b, <3>2, <3>3, <3>4 DEF Rotate
  <2>2. o # n /\ family[o] \in Token /\ family[o] <= o
    BY <1>0 DEF FamiliesTyped
  <2>3. /\ \A f \in forked : f \in forked'
        /\ forked' \subseteq Token
        /\ ~Live(o) => family[o] \in forked'
    BY <1>0, <2>1, <2>2 DEF FamilyOf
  <2>4. TypeOK' /\ RequestsTyped'
    <3>1. issued' \in issued .. MaxTokens BY <1>0, <2>1 DEF Token
    <3>2. row' \in [Token -> { "none", "unrevoked", "revoked" }] /\ family' \in [Token -> Token]
      BY <1>0, <2>1, <2>2
    <3>. QED BY <1>0, <2>1, <2>3, <3>1, <3>2, Ends
  <2>5. ASSUME NEW t \in Token, t # n
        PROVE  family'[t] = family[t] /\ (Live(t)' => Live(t) /\ t # o)
    BY <1>0, <2>1, <2>2, <2>5 DEF Live
  <2>6. family'[n] = family[o]
    BY <1>0, <2>1
  <2>7. FamiliesTyped'
    <3>1. \A t \in Token : Live(t)' => t <= issued'
      BY <1>0, <2>1, <2>5 DEF FamiliesTyped, Token
    <3>2. \A t \in Token : family'[t] <= t
      BY <1>0, <2>2, <2>5, <2>6 DEF FamiliesTyped, Token
    <3>3. ended' \subseteq 1 .. issued' BY <1>0, <2>1 DEF FamiliesTyped
    <3>. QED BY <3>1, <3>2, <3>3 DEF FamiliesTyped
  <2>8. OneLiveToken'
    <3>1. ASSUME NEW t \in Token, t # n, Live(t)', family[t] = family[o]
          PROVE  family[o] \in forked'
      <4>1. Live(t) /\ t # o BY <2>5, <3>1
      <4>2. CASE Live(o) BY <1>0, <2>3, <3>1, <4>1, <4>2 DEF OneLiveToken
      <4>3. CASE ~Live(o) BY <2>3, <4>3
      <4>. QED BY <4>2, <4>3
    <3>2. ASSUME NEW t \in Token, NEW u \in Token, t # u, t # n, u # n,
                 Live(t)', Live(u)', family[t] = family[u]
          PROVE  family[t] \in forked'
      BY <2>3, <2>5, <3>2 DEF OneLiveToken
    <3>. QED BY <2>5, <2>6, <3>1, <3>2 DEF OneLiveToken
  <2>9. EndedStaysEnded'
    <3>1. family[o] \in ended => family[o] \in forked'
      BY <1>0, <2>3 DEF EndedStaysEnded
    <3>2. ASSUME NEW t \in Token, t # n, Live(t)', family[t] \in ended
          PROVE  family[t] \in forked'
      BY <2>3, <2>5, <3>2 DEF EndedStaysEnded
    <3>. QED BY <2>1, <2>5, <2>6, <3>1, <3>2 DEF EndedStaysEnded
  <2>. QED BY <2>4, <2>7, <2>8, <2>9 DEF IInv
<1>. QED BY <1>a, <1>b

(* After a reuse no token is live. *)
LEMMA RevokeAllKeeps ==
  ASSUME IInv, NEW s \in Sessions, RevokeAll(s)
  PROVE  IInv'
<1>. TypeOK /\ RequestsTyped /\ FamiliesTyped /\ OneLiveToken /\ EndedStaysEnded
  BY DEF IInv
<1>p. pc[s] \in AtToken BY DEF RevokeAll, AtToken
<1>1. /\ row \in [Token -> { "none", "unrevoked", "revoked" }]
      /\ family \in [Token -> Token] /\ forked \subseteq Token /\ ended \subseteq Token
      /\ issued \in Nat /\ issued \in issued .. MaxTokens /\ user # "none"
  BY <1>p, AtIssued DEF TypeOK
<1>a. 1 .. issued \subseteq Token
  BY RefreshTokensAssumption, <1>p, AtIssued DEF TypeOK, Token
<1>2. /\ row' = [t \in Token |-> IF Live(t) THEN "revoked" ELSE row[t]]
      /\ ended' = ended \cup { family[t] : t \in 1 .. issued }
      /\ Finish(s) /\ UNCHANGED <<family, expired, issued, account, forked>>
  BY DEF RevokeAll
<1>3. ended' \subseteq 1 .. issued
  <2>1. ASSUME NEW t \in 1 .. issued PROVE family[t] \in 1 .. issued
    <3>1. t \in Token BY <1>a
    <3>2. family[t] \in Token /\ family[t] <= t BY <1>1, <3>1 DEF FamiliesTyped
    <3>. QED BY <1>1, <3>2 DEF Token
  <2>. QED BY <1>2, <2>1 DEF FamiliesTyped
<1>4. \A t \in Token : ~Live(t)'
  BY <1>2 DEF Live
<1>5. TypeOK' /\ RequestsTyped'
  <2>1. row' \in [Token -> { "none", "unrevoked", "revoked" }] BY <1>1, <1>2
  <2>2. ended' \subseteq Token
    BY <1>1, <1>a, <1>3
  <2>. QED BY <1>1, <1>2, <2>1, <2>2, Ends
<1>6. FamiliesTyped' /\ OneLiveToken' /\ EndedStaysEnded'
  BY <1>2, <1>3, <1>4, TakingAway
<1>. QED BY <1>5, <1>6 DEF IInv

(* A logout ends the family of a live token, and with it the only one,     *)
(* unless the family has forked.                                           *)
LEMMA LogoutKeeps ==
  ASSUME IInv, NEW s \in Sessions, Logout(s)
  PROVE  IInv'
<1>. DEFINE o == token[s]
<1>. TypeOK /\ RequestsTyped /\ FamiliesTyped /\ OneLiveToken /\ EndedStaysEnded
  BY DEF IInv
<1>p. pc[s] \in AtToken BY DEF Logout, AtToken
<1>0. /\ row \in [Token -> { "none", "unrevoked", "revoked" }]
      /\ family \in [Token -> Token] /\ forked \subseteq Token /\ ended \subseteq Token
      /\ issued \in Nat /\ issued \in issued .. MaxTokens /\ user # "none"
      /\ o \in 1 .. issued /\ o \in Token
  BY <1>p, AtIssued DEF TypeOK
<1>1. family[o] <= o /\ family[o] \in Token
  BY <1>0 DEF FamiliesTyped
<1>2. /\ row' = [row EXCEPT ![o] = IF row[o] = "none" THEN "none" ELSE "revoked"]
      /\ ended' = ended \cup IF Live(o) THEN FamilyOf(o) ELSE {}
      /\ Finish(s) /\ UNCHANGED <<family, expired, issued, account, forked>>
  BY DEF Logout
<1>3. ended' \subseteq 1 .. issued
  <2>1. family[o] \in 1 .. issued BY RefreshTokensAssumption, <1>0, <1>1 DEF Token
  <2>. QED BY <1>2, <2>1 DEF FamiliesTyped, FamilyOf
<1>4. \A t \in Token : Live(t)' => Live(t) /\ t # o
  BY <1>0, <1>1, <1>2 DEF Live
<1>5. TypeOK' /\ RequestsTyped'
  <2>1. row' \in [Token -> { "none", "unrevoked", "revoked" }] BY <1>0, <1>1, <1>2
  <2>2. ended' \subseteq Token BY <1>0, <1>1, <1>2 DEF FamilyOf
  <2>. QED BY <1>0, <1>1, <1>2, <2>1, <2>2, Ends
<1>6. ASSUME NEW t \in Token, Live(t)', family[t] \in ended' \ ended
      PROVE  family[t] \in forked
  <2>1. Live(o) /\ family[t] = family[o] BY <1>2, <1>6 DEF FamilyOf
  <2>. QED BY <1>0, <1>1, <1>4, <1>6, <2>1 DEF OneLiveToken
<1>7. FamiliesTyped' /\ OneLiveToken' /\ EndedStaysEnded'
  BY <1>2, <1>3, <1>4, <1>6, TakingAway
<1>. QED BY <1>5, <1>7 DEF IInv

(* Time only takes tokens away. *)
LEMMA TimeKeeps ==
  ASSUME IInv, ExpireCopy \/ ExpireToken \/ PurgeExpired
  PROVE  IInv'
<1>. TypeOK /\ RequestsTyped /\ FamiliesTyped /\ OneLiveToken /\ EndedStaysEnded
  BY DEF IInv
<1>1. /\ UNCHANGED <<family, issued, user, control, forked, ended>>
      /\ copy' \in Users /\ expired' \subseteq Token
      /\ row' \in [Token -> { "none", "unrevoked", "revoked" }]
      /\ \A t \in Token : Live(t)' => Live(t)
  <2>1. CASE ExpireCopy
    BY <2>1 DEF ExpireCopy, TypeOK, tokens, control, Users, Live
  <2>2. CASE ExpireToken
    BY <2>2 DEF ExpireToken, TypeOK, account, control, Presentable, Live
  <2>3. CASE PurgeExpired
    BY <2>3 DEF PurgeExpired, TypeOK, account, control, Live
  <2>. QED BY <2>1, <2>2, <2>3
<1>2. TypeOK' BY <1>1 DEF TypeOK, control
<1>3. RequestsTyped' BY <1>1 DEF RequestsTyped, control
<1>4. FamiliesTyped' /\ OneLiveToken' /\ EndedStaysEnded'
  BY <1>1, TakingAway DEF FamiliesTyped
<1>. QED BY <1>2, <1>3, <1>4 DEF IInv

(* The invariant holds when nobody has logged in. *)
LEMMA InitKeeps ==
  ASSUME Init
  PROVE  IInv
<1>1. TypeOK BY RefreshTokensAssumption DEF Init, TypeOK, Users, Token
<1>2. RequestsTyped BY DEF Init, RequestsTyped
<1>3. FamiliesTyped BY DEF Init, FamiliesTyped, Live, Token
<1>4. OneLiveToken BY DEF Init, OneLiveToken, Live
<1>5. EndedStaysEnded BY DEF Init, EndedStaysEnded, Live
<1>. QED BY <1>1, <1>2, <1>3, <1>4, <1>5 DEF IInv

(* Every step keeps the invariant. *)
LEMMA NextKeeps ==
  ASSUME IInv, [Next]_vars
  PROVE  IInv'
<1>1. ASSUME NEW s \in Sessions, Elsewhere(s) PROVE IInv'
  <2>1. TypeOK' /\ RequestsTyped' /\ UNCHANGED tokens BY <1>1, ElsewhereTyped
  <2>2. FamiliesTyped' /\ OneLiveToken' /\ EndedStaysEnded'
    BY <2>1 DEF IInv, FamiliesTyped, OneLiveToken, EndedStaysEnded, Live, tokens
  <2>. QED BY <2>1, <2>2 DEF IInv
<1>2. CASE UNCHANGED vars
  BY <1>2 DEF vars, IInv, TypeOK, RequestsTyped, FamiliesTyped, OneLiveToken, EndedStaysEnded, Live
<1>3. ASSUME NEW s \in Sessions,
             \/ Login(s) \/ RefreshToken(s) \/ LookupForLogout(s)
             \/ Authenticate(s) \/ Deactivate(s) \/ Proceed(s)
      PROVE  IInv'
  BY <1>1, <1>3, IssueKeeps, RotateKeeps, RevokeAllKeeps, LogoutKeeps DEF Proceed, Elsewhere
<1>. QED BY <1>2, <1>3, TimeKeeps DEF Next

(***************************************************************************)
(* Whatever the requests, the rows of refresh_token and of the user, and   *)
(* the copy in Redis, are what the types say.                              *)
(***************************************************************************)
THEOREM TypeCorrect == Spec => []TypeOK
<1>1. IInv => TypeOK BY DEF IInv
<1>. QED BY <1>1, InitKeeps, NextKeeps, PTL DEF Spec

(***************************************************************************)
(* A login has one usable refresh token, unless a rotation has written     *)
(* over a revocation that followed its check (auth_service.py:167).        *)
(***************************************************************************)
THEOREM AlwaysOneLiveToken == Spec => []OneLiveToken
<1>1. IInv => OneLiveToken BY DEF IInv
<1>. QED BY <1>1, InitKeeps, NextKeeps, PTL DEF Spec

(***************************************************************************)
(* A logout or a reuse ends a login for good, unless it has forked.        *)
(***************************************************************************)
THEOREM EndedAlwaysStaysEnded == Spec => []EndedStaysEnded
<1>1. IInv => EndedStaysEnded BY DEF IInv
<1>. QED BY <1>1, InitKeeps, NextKeeps, PTL DEF Spec
=============================================================================
