------------------------ MODULE IdempotencyKeysProofs ------------------------
(***************************************************************************)
(* What an Idempotency-Key keeps for any number of requests, whatever their *)
(* bodies, deaths, takeovers and sweeps.                                   *)
(*                                                                         *)
(* An id is never used again, since it is a uuid of a request that is no   *)
(* longer new.  So a live request that finds the row by its id is the only *)
(* one that does, as long as no handler outlasts the timeout: the row is   *)
(* then fresh, and nobody takes it over.                                   *)
(***************************************************************************)
EXTENDS IdempotencyKeys, FiniteSetTheorems, TLAPS

Labels == { "new", "look", "work", "complete", "release", "ended", "dead" }

IdsAreUsed ==
  /\ \A q \in Requests : record[q] # None => pc[record[q]] # "new"
  /\ row # NoRow => pc[row.id] # "new"

(* A request has no record id before it has reserved the key. *)
NothingKept == \A r \in Requests : pc[r] \in { "new", "look" } => record[r] = None

MovedBeforeCompletion ==
  \A r \in Requests : pc[r] = "complete" => Reference(r) \in moved

ResponseIsOriginal ==
  row.status = "completed" =>
    Body[row.response] = row.hash /\ Reference(row.response) \in moved

HolderKeepsRow ==
  \A r \in Requests :
    Live(r) /\ Found(r) =>
      row.age = "fresh" /\ row.status = "in_progress" /\ row.hash = Body[r]

KeyInv == TypeOK /\ IdsAreUsed /\ NothingKept /\ MovedBeforeCompletion /\ NotBlocked

(* While no handler outlasts the timeout. *)
HolderInv ==
  KeyInv /\ OneHandler /\ HolderKeepsRow /\ ResponseIsOriginal /\ ReplayIsOriginal

------------------------------------------------------------------------------
LEMMA RowShape ==
  ASSUME TypeOK
  PROVE  /\ row # NoRow => row \in Rows /\ row.id \in Requests
         /\ row \in Rows => row # NoRow
         /\ row.status # "none" => row # NoRow
         /\ row = NoRow => row.status = "none" /\ row.age = "none" /\ row.response = None
<1>1. NoRow.status = "none" /\ NoRow.age = "none" /\ NoRow.id = None /\ NoRow.response = None
  BY DEF NoRow
<1>2. \A x \in Rows : x.id \in Requests BY DEF Rows
<1>. QED BY <1>1, <1>2, IdempotencyKeysAssumption DEF TypeOK

(* A reservation is a row of the request that holds it. *)
LEMMA Reservation ==
  ASSUME NEW r \in Requests, NEW id \in Requests
  PROVE  /\ InProgress(id, r) \in Rows /\ InProgress(id, r).id = id
         /\ InProgress(id, r).hash = Body[r] /\ InProgress(id, r).status = "in_progress"
         /\ InProgress(id, r).age = "fresh" /\ InProgress(id, r).response = None
BY DEF InProgress, Rows

(***************************************************************************)
(* The three ways a request leaves its place: no request is new again, and *)
(* only Reserve gives out a record id.                                     *)
(***************************************************************************)
LEMMA ReserveKeeps ==
  ASSUME KeyInv, NEW r \in Requests, Reserve(r)
  PROVE  KeyInv'
<1>. TypeOK /\ IdsAreUsed /\ NothingKept /\ MovedBeforeCompletion /\ NotBlocked BY DEF KeyInv
<1>0. /\ pc \in [Requests -> Labels] /\ record \in [Requests -> Requests \cup { None }]
      /\ pc[r] = "new" /\ UNCHANGED <<moved, answer, swept>>
  BY DEF TypeOK, Labels, Reserve
<1>1. ASSUME NEW id \in Requests, Take(r, id), record' = [record EXCEPT ![r] = id],
             Goto(r, "work"), id = r \/ (row # NoRow /\ id = row.id)
      PROVE  KeyInv'
  <2>1. /\ row' \in Rows /\ row'.id = id /\ row'.status = "in_progress" /\ row'.response = None
    BY <1>1, Reservation DEF Take
  <2>2. /\ pc' \in [Requests -> Labels] /\ record' \in [Requests -> Requests \cup { None }]
        /\ pc'[r] = "work" /\ record'[r] = id
        /\ \A q \in Requests \ { r } : pc'[q] = pc[q] /\ record'[q] = record[q]
    BY <1>0, <1>1 DEF Goto, Labels
  <2>3. TypeOK' BY <1>0, <2>1, <2>2 DEF TypeOK, Labels
  <2>4. IdsAreUsed'
    <3>1. \A q \in Requests : pc[q] # "new" => pc'[q] # "new" BY <1>0, <2>2
    <3>2. pc'[id] # "new" BY <1>1, <2>2, <3>1 DEF IdsAreUsed
    <3>. QED BY <1>0, <2>1, <2>2, <3>1, <3>2 DEF IdsAreUsed
  <2>5. MovedBeforeCompletion'
    BY <1>0, <2>2 DEF MovedBeforeCompletion, Reference
  <2>6. NotBlocked' BY <2>1, <2>2 DEF NotBlocked, Live
  <2>7. NothingKept' BY <2>2 DEF NothingKept
  <2>. QED BY <2>3, <2>4, <2>5, <2>6, <2>7 DEF KeyInv
<1>2. ASSUME Goto(r, "look"), UNCHANGED <<row, record>>
      PROVE  KeyInv'
  <2>1. /\ pc' \in [Requests -> Labels] /\ pc'[r] = "look"
        /\ \A q \in Requests \ { r } : pc'[q] = pc[q]
    BY <1>0, <1>2 DEF Goto, Labels
  <2>2. TypeOK' BY <1>0, <1>2, <2>1 DEF TypeOK, Labels
  <2>3. IdsAreUsed' BY <1>0, <1>2, <2>1, RowShape DEF IdsAreUsed
  <2>4. MovedBeforeCompletion' BY <1>0, <2>1 DEF MovedBeforeCompletion, Reference
  <2>5. NotBlocked' BY <1>0, <1>2, <2>1 DEF NotBlocked, Live
  <2>6. NothingKept' BY <1>0, <1>2, <2>1 DEF NothingKept
  <2>. QED BY <2>2, <2>3, <2>4, <2>5, <2>6 DEF KeyInv
<1>3. CASE row # NoRow /\ Take(r, row.id) /\ record' = [record EXCEPT ![r] = row.id] /\ Goto(r, "work")
  <2>1. row.id \in Requests BY <1>3, RowShape
  <2>. QED BY <1>1, <1>3, <2>1
<1>4. CASE Take(r, r) /\ record' = [record EXCEPT ![r] = r] /\ Goto(r, "work")
  <2>1. \E id \in Requests :
          Take(r, id) /\ record' = [record EXCEPT ![r] = id] /\ Goto(r, "work") /\ id = r
    BY <1>4
  <2>. QED BY <1>1, <2>1
<1>. QED BY <1>2, <1>3, <1>4 DEF Reserve

LEMMA RequestKeeps ==
  ASSUME KeyInv, NEW r \in Requests, NEW label \in Labels \ { "new", "look" },
         pc[r] # "new", Goto(r, label), UNCHANGED record,
         row' = row \/ row' = NoRow \/ (row' \in Rows /\ row # NoRow /\ row'.id = row.id),
         row'.status = "completed" <=> row'.response # None,
         moved \subseteq moved', moved' \subseteq References,
         label = "complete" => Reference(r) \in moved',
         answer' \in [Requests -> Requests \cup Refusals \cup { NoAnswer }], swept' \in BOOLEAN,
         NotBlocked'
  PROVE  KeyInv'
<1>. TypeOK /\ IdsAreUsed /\ NothingKept /\ MovedBeforeCompletion BY DEF KeyInv
<1>1. /\ pc \in [Requests -> Labels] /\ pc' \in [Requests -> Labels]
      /\ pc'[r] = label /\ \A q \in Requests \ { r } : pc'[q] = pc[q]
      /\ record' \in [Requests -> Requests \cup { None }]
      /\ row' \in Rows \cup { NoRow }
  BY DEF TypeOK, Labels, Goto
<1>2. TypeOK' BY <1>1 DEF TypeOK, Labels
<1>3. IdsAreUsed'
  <2>1. \A q \in Requests : pc[q] # "new" => pc'[q] # "new" BY <1>1
  <2>2. row' # NoRow => row # NoRow /\ row'.id = row.id /\ row.id \in Requests
    BY RowShape
  <2>. QED BY <1>1, <2>1, <2>2 DEF IdsAreUsed
<1>4. MovedBeforeCompletion'
  <2>1. ASSUME NEW q \in Requests, pc'[q] = "complete" PROVE Reference(q) \in moved'
    BY <1>1, <2>1 DEF MovedBeforeCompletion
  <2>. QED BY <2>1 DEF MovedBeforeCompletion, Reference
<1>5. NothingKept' BY <1>1 DEF NothingKept
<1>. QED BY <1>2, <1>3, <1>4, <1>5 DEF KeyInv

(***************************************************************************)
(* The key is never blocked: the request that leaves a reservation is not  *)
(* the one that still holds it, or has died.                               *)
(***************************************************************************)
LEMMA NotBlockedKept ==
  ASSUME KeyInv, NEW r \in Requests, NEW label \in Labels, Goto(r, label), UNCHANGED record,
         row'.status = "in_progress" =>
           /\ row.status = "in_progress" /\ row'.id = row.id
           /\ \/ label \in { "work", "complete", "release", "dead" }
              \/ ~Live(r) /\ pc[r] # "dead"
              \/ record[r] # row.id
  PROVE  NotBlocked'
<1>. SUFFICES ASSUME row'.status = "in_progress"
              PROVE  \E q \in Requests : (Live(q)' \/ pc'[q] = "dead") /\ record'[q] = row'.id
  BY DEF NotBlocked
<1>1. PICK q \in Requests : (Live(q) \/ pc[q] = "dead") /\ record[q] = row.id
  BY DEF KeyInv, NotBlocked
<1>2. pc'[r] = label /\ \A t \in Requests \ { r } : pc'[t] = pc[t]
  BY DEF KeyInv, TypeOK, Goto
<1>3. CASE q = r BY <1>1, <1>2, <1>3 DEF Live
<1>4. CASE q # r BY <1>1, <1>2, <1>4 DEF Live
<1>. QED BY <1>3, <1>4

LEMMA InitKey == Init => HolderInv
<1>. SUFFICES ASSUME Init PROVE HolderInv
  OBVIOUS
<1>1. TypeOK BY RowShape DEF Init, TypeOK, NoRow, NoAnswer
<1>2. IdsAreUsed /\ NothingKept /\ MovedBeforeCompletion
  BY DEF Init, IdsAreUsed, NothingKept, MovedBeforeCompletion
<1>3. NotBlocked /\ ResponseIsOriginal BY DEF Init, NotBlocked, ResponseIsOriginal, NoRow
<1>4. OneHandler /\ HolderKeepsRow BY DEF Init, OneHandler, HolderKeepsRow, Live
<1>5. ReplayIsOriginal BY IdempotencyKeysAssumption DEF Init, ReplayIsOriginal
<1>. QED BY <1>1, <1>2, <1>3, <1>4, <1>5 DEF HolderInv, KeyInv

LEMMA NextKeepsKey ==
  ASSUME KeyInv, [Next]_vars
  PROVE  KeyInv'
<1>. TypeOK BY DEF KeyInv
<1>0. /\ row \in Rows \cup { NoRow } /\ (row.status = "completed" <=> row.response # None)
      /\ moved \subseteq References /\ swept \in BOOLEAN
      /\ answer \in [Requests -> Requests \cup Refusals \cup { NoAnswer }]
      /\ \A r \in Requests : Reference(r) \in References
      /\ NoRow.status = "none" /\ NoRow.response = None
  BY DEF TypeOK, Reference, References, NoRow
<1>1. CASE UNCHANGED vars
  BY <1>1 DEF vars, KeyInv, TypeOK, IdsAreUsed, NothingKept, MovedBeforeCompletion, Reference,
     NotBlocked, Live
<1>2. ASSUME NEW r \in Requests, Reserve(r) PROVE KeyInv'
  BY <1>2, ReserveKeeps
<1>3. ASSUME NEW r \in Requests, ProceedUnguarded(r) \/ MoveMoney(r) \/ Raise(r) \/ Die(r)
      PROVE  KeyInv'
  <2>1. /\ UNCHANGED <<row, record, answer, swept>> /\ pc[r] # "new"
        /\ moved \subseteq moved' /\ moved' \subseteq References
        /\ \E label \in { "work", "complete", "release", "dead" } :
             Goto(r, label) /\ (label = "complete" => Reference(r) \in moved')
    BY <1>0, <1>3 DEF ProceedUnguarded, MoveMoney, Raise, Die
  <2>2. PICK label \in { "work", "complete", "release", "dead" } :
          Goto(r, label) /\ (label = "complete" => Reference(r) \in moved')
    BY <2>1
  <2>3. label \in Labels \ { "new", "look" } BY DEF Labels
  <2>4. row' = row BY <2>1
  <2>5. row'.status = "in_progress" => row.status = "in_progress" /\ row'.id = row.id
    BY <2>4
  <2>6. NotBlocked' BY <2>1, <2>2, <2>3, <2>5, NotBlockedKept
  <2>7. row'.status = "completed" <=> row'.response # None BY <1>0, <2>4
  <2>. QED BY <1>0, <2>1, <2>2, <2>3, <2>4, <2>6, <2>7, RequestKeeps
<1>4. ASSUME NEW r \in Requests, Look(r) \/ Complete(r) \/ Release(r) PROVE KeyInv'
  <2>1. /\ UNCHANGED <<record, moved, swept>> /\ Goto(r, "ended") /\ pc[r] # "new"
        /\ "ended" \in Labels \ { "new", "look" }
    BY <1>4 DEF Look, Complete, Release, End, Labels
  <2>2. answer' \in [Requests -> Requests \cup Refusals \cup { NoAnswer }]
    BY <1>0, <1>4, RowShape DEF Look, Complete, Release, End, Refusals, Rows
  <2>3. /\ row' = row \/ row' = NoRow \/ (row' \in Rows /\ row # NoRow /\ row'.id = row.id)
        /\ row'.status = "completed" <=> row'.response # None
    <3>1. CASE Look(r) \/ Release(r)
      <4>1. row' = row \/ row' = NoRow BY <3>1 DEF Look, Release
      <4>2. CASE row' = row BY <1>0, <4>2
      <4>3. CASE row' = NoRow BY <1>0, <4>3
      <4>. QED BY <4>1, <4>2, <4>3
    <3>2. CASE Complete(r)
      <4>1. CASE Found(r)
        <5>1. row \in Rows /\ row # NoRow BY <4>1, RowShape DEF Found
        <5>2. row' = [row EXCEPT !.status = "completed", !.response = r]
          BY <3>2, <4>1 DEF Complete
        <5>3. row' \in Rows /\ row'.id = row.id /\ row'.status = "completed" /\ row'.response = r
          BY <5>1, <5>2 DEF Rows
        <5>4. r # None BY IdempotencyKeysAssumption
        <5>. QED BY <5>1, <5>3, <5>4
      <4>2. CASE ~Found(r) BY <1>0, <3>2, <4>2 DEF Complete
      <4>. QED BY <4>1, <4>2
    <3>. QED BY <1>4, <3>1, <3>2
  <2>4. NotBlocked'
    <3>1. CASE Look(r) BY <2>1, <3>1, NotBlockedKept DEF Look, Live, Labels
    <3>2. CASE Complete(r)
      <4>1. Found(r) => row'.status = "completed"
        BY <3>2, RowShape DEF Complete, Found, Rows
      <4>2. ~Found(r) => row' = row /\ (row.status = "in_progress" => record[r] # row.id)
        BY <3>2, RowShape DEF Complete, Found
      <4>. QED BY <2>1, <4>1, <4>2, NotBlockedKept
    <3>3. CASE Release(r)
      <4>1. \/ row' = NoRow
            \/ row' = row /\ (row.status = "in_progress" => record[r] # row.id)
        BY <3>3, RowShape DEF Release, Found
      <4>. QED BY <1>0, <2>1, <4>1, NotBlockedKept
    <3>. QED BY <1>4, <3>1, <3>2, <3>3
  <2>. QED BY <1>0, <2>1, <2>2, <2>3, <2>4, RequestKeeps
<1>5. CASE Stale \/ Expire \/ Sweep
  <2>1. UNCHANGED <<moved, pc, record, answer>> /\ swept' \in BOOLEAN
    BY <1>0, <1>5 DEF Stale, Expire, Sweep
  <2>2. \/ row' = NoRow
        \/ /\ row \in Rows /\ row' \in Rows /\ row # NoRow /\ row'.id = row.id
           /\ row'.status = row.status /\ row'.response = row.response
    <3>1. CASE Stale \/ Expire
      <4>1. row \in Rows /\ row # NoRow BY <3>1, RowShape DEF Stale, Expire
      <4>. QED BY <3>1, <4>1 DEF Stale, Expire, Rows
    <3>2. CASE Sweep BY <3>2 DEF Sweep
    <3>. QED BY <1>5, <3>1, <3>2
  <2>3. TypeOK' BY <1>0, <2>1, <2>2 DEF TypeOK
  <2>4. IdsAreUsed' /\ NothingKept' /\ MovedBeforeCompletion'
    BY <2>1, <2>2 DEF KeyInv, IdsAreUsed, NothingKept, MovedBeforeCompletion, Reference
  <2>5. NotBlocked' BY <1>0, <2>1, <2>2 DEF KeyInv, NotBlocked, Live
  <2>. QED BY <2>3, <2>4, <2>5 DEF KeyInv
<1>. QED BY <1>1, <1>2, <1>3, <1>4, <1>5 DEF Next

------------------------------------------------------------------------------
(***************************************************************************)
(* Nobody live has the id a reservation is given: a new id is nobody's,    *)
(* and the id of a stale row is that of no live request.                   *)
(***************************************************************************)
LEMMA ReserveKeepsHolder ==
  ASSUME HolderInv, NEW r \in Requests, Reserve(r)
  PROVE  OneHandler' /\ HolderKeepsRow' /\ ResponseIsOriginal' /\ ReplayIsOriginal'
<1>. KeyInv /\ OneHandler /\ HolderKeepsRow /\ ResponseIsOriginal /\ ReplayIsOriginal
  BY DEF HolderInv
<1>. TypeOK /\ IdsAreUsed /\ NothingKept BY DEF KeyInv
<1>0. /\ pc \in [Requests -> Labels] /\ record \in [Requests -> Requests \cup { None }]
      /\ pc[r] = "new" /\ UNCHANGED <<moved, answer, swept>> /\ None \notin Requests
  BY IdempotencyKeysAssumption DEF TypeOK, Labels, Reserve
<1>1. ReplayIsOriginal' BY <1>0 DEF ReplayIsOriginal, Reference
<1>2. ASSUME NEW id \in Requests, Take(r, id), record' = [record EXCEPT ![r] = id],
             Goto(r, "work"),
             \A q \in Requests : Live(q) => record[q] # id
      PROVE  OneHandler' /\ HolderKeepsRow' /\ ResponseIsOriginal'
  <2>1. /\ row'.id = id /\ row'.status = "in_progress" /\ row'.age = "fresh"
        /\ row'.hash = Body[r] /\ row' # NoRow
    BY <1>2, Reservation DEF Take, NoRow
  <2>2. /\ pc'[r] = "work" /\ record'[r] = id
        /\ \A q \in Requests \ { r } : pc'[q] = pc[q] /\ record'[q] = record[q]
    BY <1>0, <1>2 DEF Goto
  <2>3. \A q \in Requests \ { r } : Live(q)' => Live(q) /\ record'[q] # id
    BY <1>2, <2>2 DEF Live
  <2>4. OneHandler' BY <2>2, <2>3 DEF OneHandler
  <2>5. HolderKeepsRow' BY <2>1, <2>3 DEF HolderKeepsRow, Found
  <2>6. ResponseIsOriginal' BY <2>1 DEF ResponseIsOriginal
  <2>. QED BY <2>4, <2>5, <2>6
<1>3. CASE Take(r, r) /\ record' = [record EXCEPT ![r] = r] /\ Goto(r, "work")
  <2>1. \A q \in Requests : Live(q) => record[q] # r
    BY <1>0 DEF IdsAreUsed
  <2>2. \E id \in Requests :
          /\ Take(r, id) /\ record' = [record EXCEPT ![r] = id] /\ Goto(r, "work")
          /\ \A q \in Requests : Live(q) => record[q] # id
    BY <1>3, <2>1
  <2>. QED BY <1>1, <1>2, <2>2
<1>4. CASE /\ row # NoRow /\ TakenOver
           /\ Take(r, row.id) /\ record' = [record EXCEPT ![r] = row.id] /\ Goto(r, "work")
  <2>1. row.id \in Requests BY <1>4, RowShape
  <2>2. \A q \in Requests : Live(q) => record[q] # row.id
    BY <1>4 DEF HolderKeepsRow, Found, TakenOver
  <2>. QED BY <1>1, <1>2, <1>4, <2>1, <2>2
<1>5. CASE Goto(r, "look") /\ UNCHANGED <<row, record>>
  <2>1. \A q \in Requests : Live(q)' => Live(q)
    BY <1>0, <1>5 DEF Goto, Live
  <2>2. OneHandler' BY <1>5, <2>1 DEF OneHandler
  <2>3. HolderKeepsRow' BY <1>5, <2>1 DEF HolderKeepsRow, Found
  <2>4. ResponseIsOriginal' BY <1>0, <1>5 DEF ResponseIsOriginal, Reference
  <2>. QED BY <1>1, <2>2, <2>3, <2>4
<1>. QED BY <1>3, <1>4, <1>5 DEF Reserve

(***************************************************************************)
(* A request that does not reserve has the record id it had, if it had     *)
(* one; it is live only if it was, or has none.                            *)
(***************************************************************************)
LEMMA OthersKeepHandler ==
  ASSUME HolderInv, NEW r \in Requests, NEW label \in Labels, Goto(r, label), UNCHANGED record,
         Live(r) \/ record[r] = None \/ label \notin { "work", "complete", "release" }
  PROVE  /\ OneHandler'
         /\ \A q \in Requests : Live(q)' /\ record'[q] # None => Live(q) /\ record'[q] = record[q]
<1>1. pc'[r] = label /\ \A q \in Requests \ { r } : pc'[q] = pc[q]
  BY DEF HolderInv, KeyInv, TypeOK, Goto
<1>2. \A q \in Requests : Live(q)' /\ record'[q] # None => Live(q) /\ record'[q] = record[q]
  BY <1>1 DEF Live
<1>3. OneHandler' BY <1>2 DEF HolderInv, OneHandler
<1>. QED BY <1>2, <1>3

LEMMA StepKeepsHolder ==
  ASSUME ~OutlastsTimeout, HolderInv, [Next]_vars
  PROVE  HolderInv'
<1>. KeyInv /\ OneHandler /\ HolderKeepsRow /\ ResponseIsOriginal /\ ReplayIsOriginal
  BY DEF HolderInv
<1>. TypeOK /\ NothingKept /\ MovedBeforeCompletion BY DEF KeyInv
<1>k. KeyInv' BY NextKeepsKey
<1>0. /\ None \notin Requests /\ Requests \cap (Refusals \cup { NoAnswer }) = {}
      /\ record \in [Requests -> Requests \cup { None }]
      /\ answer \in [Requests -> Requests \cup Refusals \cup { NoAnswer }]
      /\ NoRow.id = None /\ NoRow.status = "none"
  BY IdempotencyKeysAssumption DEF TypeOK, NoRow
<1>1. CASE UNCHANGED vars
  BY <1>k, <1>1 DEF vars, HolderInv, OneHandler, HolderKeepsRow, ResponseIsOriginal,
     ReplayIsOriginal, Reference, Live, Found
<1>2. ASSUME NEW r \in Requests, Reserve(r) PROVE HolderInv'
  BY <1>k, <1>2, ReserveKeepsHolder DEF HolderInv
<1>3. ASSUME NEW r \in Requests, ProceedUnguarded(r) \/ MoveMoney(r) \/ Raise(r) \/ Die(r)
      PROVE  HolderInv'
  <2>1. /\ UNCHANGED <<row, record, answer>> /\ moved \subseteq moved'
        /\ Live(r) \/ record[r] = None \/ Die(r)
    BY <1>3 DEF ProceedUnguarded, MoveMoney, Raise, Die, NothingKept, Live
  <2>2. \E label \in Labels :
          /\ Goto(r, label)
          /\ Live(r) \/ record[r] = None \/ label \notin { "work", "complete", "release" }
    BY <1>3, <2>1 DEF ProceedUnguarded, MoveMoney, Raise, Die, Labels
  <2>3. /\ OneHandler'
        /\ \A q \in Requests : Live(q)' /\ record'[q] # None => Live(q) /\ record'[q] = record[q]
    BY <2>1, <2>2, OthersKeepHandler
  <2>4. HolderKeepsRow'
    <3>1. \A q \in Requests : Found(q)' => Found(q) /\ record'[q] # None
      BY <1>0, <2>1, RowShape DEF Found
    <3>. QED BY <2>1, <2>3, <3>1 DEF HolderKeepsRow
  <2>5. ResponseIsOriginal' BY <2>1 DEF ResponseIsOriginal, Reference
  <2>6. ReplayIsOriginal' BY <2>1 DEF ReplayIsOriginal, Reference
  <2>. QED BY <1>k, <2>3, <2>4, <2>5, <2>6 DEF HolderInv
<1>4. ASSUME NEW r \in Requests, Look(r) \/ Complete(r) \/ Release(r) PROVE HolderInv'
  <2>1. /\ UNCHANGED <<record, moved, swept>> /\ Goto(r, "ended") /\ "ended" \in Labels
        /\ pc'[r] = "ended"
    BY <1>4 DEF Look, Complete, Release, End, Labels, Goto, TypeOK
  <2>2. /\ OneHandler'
        /\ \A q \in Requests : Live(q)' /\ record'[q] # None => Live(q) /\ record'[q] = record[q]
    BY <2>1, OthersKeepHandler
  <2>3. \/ row' = row \/ row' = NoRow
        \/ /\ Complete(r) /\ Found(r) /\ row' # NoRow /\ row'.id = row.id
           /\ row'.hash = row.hash /\ row'.response = r
    <3>1. CASE Look(r) \/ Release(r) BY <3>1 DEF Look, Release
    <3>2. CASE Complete(r) /\ ~Found(r) BY <3>2 DEF Complete
    <3>3. CASE Complete(r) /\ Found(r)
      <4>1. row \in Rows /\ row' = [row EXCEPT !.status = "completed", !.response = r]
        BY <3>3, RowShape DEF Complete, Found
      <4>2. row' \in Rows BY <4>1 DEF Rows
      <4>3. row'.id = row.id /\ row'.hash = row.hash /\ row'.response = r
        BY <4>1 DEF Rows
      <4>4. row' # NoRow BY <1>0, <4>2 DEF Rows
      <4>. QED BY <3>3, <4>3, <4>4
    <3>. QED BY <1>4, <3>1, <3>2, <3>3
  <2>4. HolderKeepsRow'
    <3>. SUFFICES ASSUME NEW q \in Requests, Live(q)', row' # NoRow, record'[q] = row'.id
                  PROVE  row'.age = "fresh" /\ row'.status = "in_progress" /\ row'.hash = Body[q]
      BY DEF HolderKeepsRow, Found
    <3>1. row # NoRow /\ row'.id = row.id /\ row.id \in Requests
      BY <2>3, RowShape DEF Found
    <3>2. Live(q) /\ Found(q) BY <1>0, <2>2, <3>1 DEF Found
    <3>3. q # r BY <2>1 DEF Live
    <3>4. CASE Complete(r) /\ Found(r)
      BY <1>0, <3>1, <3>2, <3>3, <3>4 DEF OneHandler, Found, Complete, Live
    <3>5. CASE row' = row BY <3>2, <3>5 DEF HolderKeepsRow
    <3>. QED BY <2>3, <3>4, <3>5
  <2>5. ResponseIsOriginal'
    <3>1. CASE row' = row BY <2>1, <3>1 DEF ResponseIsOriginal, Reference
    <3>2. CASE row' = NoRow BY <1>0, <3>2 DEF ResponseIsOriginal
    <3>3. CASE Complete(r) /\ Found(r) /\ row'.hash = row.hash /\ row'.response = r
      <4>1. row.hash = Body[r] BY <3>3 DEF HolderKeepsRow, Complete, Live
      <4>2. Reference(r) \in moved BY <3>3 DEF MovedBeforeCompletion, Complete
      <4>. QED BY <2>1, <3>3, <4>1, <4>2 DEF ResponseIsOriginal, Reference
    <3>. QED BY <2>3, <3>1, <3>2, <3>3
  <2>6. ReplayIsOriginal'
    <3>. SUFFICES ASSUME NEW q \in Requests, answer'[q] \in Requests
                  PROVE  Body[answer'[q]] = Body[q] /\ Reference(answer'[q]) \in moved
      BY <2>1 DEF ReplayIsOriginal, Reference
    <3>1. CASE q # r
      BY <1>0, <1>4, <3>1 DEF ReplayIsOriginal, Look, Complete, Release, End
    <3>2. CASE q = r /\ Look(r)
      <4>1. /\ row # NoRow
            /\ answer'[q] = IF row.hash # Body[r] THEN "reused"
                            ELSE IF row.status = "completed" THEN row.response ELSE "conflict"
        BY <1>0, <3>2 DEF Look, End
      <4>2. row.hash = Body[r] /\ row.status = "completed" /\ answer'[q] = row.response
        BY <1>0, <4>1 DEF Refusals
      <4>. QED BY <3>2, <4>2 DEF ResponseIsOriginal
    <3>3. CASE q = r /\ Complete(r)
      <4>1. answer'[q] = r BY <1>0, <3>3 DEF Complete, End
      <4>2. Reference(r) \in moved BY <3>3 DEF MovedBeforeCompletion, Complete
      <4>. QED BY <3>3, <4>1, <4>2
    <3>4. CASE q = r /\ Release(r)
      BY <1>0, <3>4 DEF Release, End, Refusals
    <3>. QED BY <1>4, <3>1, <3>2, <3>3, <3>4
  <2>. QED BY <1>k, <2>2, <2>4, <2>5, <2>6 DEF HolderInv
<1>5. CASE Stale \/ Expire \/ Sweep
  <2>1. /\ UNCHANGED <<moved, pc, record, answer>>
        /\ \/ row' = NoRow
           \/ /\ ~Held /\ row # NoRow /\ row'.id = row.id /\ row'.hash = row.hash
              /\ row'.status = row.status /\ row'.response = row.response
    <3>1. CASE Stale \/ Expire
      <4>1. row \in Rows /\ row # NoRow BY <3>1, RowShape DEF Stale, Expire
      <4>. QED BY <3>1, <4>1 DEF Stale, Expire, Rows
    <3>2. CASE Sweep BY <3>2 DEF Sweep
    <3>. QED BY <1>5, <3>1, <3>2
  <2>2. OneHandler' /\ ReplayIsOriginal'
    BY <2>1 DEF OneHandler, ReplayIsOriginal, Reference, Live
  <2>3. HolderKeepsRow' BY <2>1 DEF HolderKeepsRow, Found, Held, Live
  <2>4. ResponseIsOriginal' BY <1>0, <2>1 DEF ResponseIsOriginal, Reference
  <2>. QED BY <1>k, <2>2, <2>3, <2>4 DEF HolderInv
<1>. QED BY <1>1, <1>2, <1>3, <1>4, <1>5 DEF Next

(* What is stored stays stored: only a live holder writes, in progress. *)
LEMMA StepKeepsResponse ==
  ASSUME HolderInv, Next, row.status = "completed"
  PROVE  \/ row'.status = "completed" /\ row'.response = row.response
         \/ row.age = "expired"
<1>. TypeOK /\ HolderKeepsRow BY DEF HolderInv, KeyInv
<1>0. row # NoRow /\ row \in Rows BY RowShape DEF NoRow
<1>1. ASSUME NEW r \in Requests, Reserve(r) PROVE row' = row
  BY <1>0, <1>1 DEF Reserve, TakenOver
<1>2. ASSUME NEW r \in Requests,
             \/ ProceedUnguarded(r) \/ MoveMoney(r) \/ Raise(r) \/ Die(r) \/ Look(r) \/ Release(r)
      PROVE  row' = row
  BY <1>2 DEF ProceedUnguarded, MoveMoney, Raise, Die, Look, Release
<1>3. ASSUME NEW r \in Requests, Complete(r) PROVE row' = row
  <2>1. ~Found(r) BY <1>3 DEF HolderKeepsRow, Complete, Live
  <2>. QED BY <1>3, <2>1 DEF Complete
<1>4. CASE Stale \/ Expire
  BY <1>0, <1>4 DEF Stale, Expire, Rows
<1>5. CASE Sweep BY <1>5 DEF Sweep
<1>. QED BY <1>1, <1>2, <1>3, <1>4, <1>5 DEF Next

(***************************************************************************)
(* The row of the key and the requests' record ids are what the types say. *)
(***************************************************************************)
THEOREM TypeCorrect == Spec => []TypeOK
<1>1. HolderInv => KeyInv BY DEF HolderInv
<1>2. KeyInv => TypeOK BY DEF KeyInv
<1>. QED BY <1>1, <1>2, InitKey, NextKeepsKey, PTL DEF Spec

(***************************************************************************)
(* A key is in progress only while a handler is at work on it, or when     *)
(* that handler has died, even when handlers outlast the timeout           *)
(* (core/idempotency.py:185-186).                                          *)
(***************************************************************************)
THEOREM NeverBlocked == Spec => []NotBlocked
<1>1. HolderInv => KeyInv BY DEF HolderInv
<1>2. KeyInv => NotBlocked BY DEF KeyInv
<1>. QED BY <1>1, <1>2, InitKey, NextKeepsKey, PTL DEF Spec

(***************************************************************************)
(* While handlers end within the timeout, a reservation has one handler at *)
(* a time (idempotency_repository.py:42-44).                               *)
(***************************************************************************)
THEOREM AlwaysOneHandler ==
  ASSUME ~OutlastsTimeout
  PROVE  Spec => []OneHandler
<1>1. HolderInv => OneHandler BY DEF HolderInv
<1>2. HolderInv /\ [Next]_vars => HolderInv' BY StepKeepsHolder
<1>. QED BY <1>1, <1>2, InitKey, PTL DEF Spec

(***************************************************************************)
(* A replay is the response of a request with the same content that has    *)
(* moved its money (core/idempotency.py:22-23, :57).                       *)
(***************************************************************************)
THEOREM ReplayIsAlwaysOriginal ==
  ASSUME ~OutlastsTimeout
  PROVE  Spec => []ReplayIsOriginal
<1>1. HolderInv => ReplayIsOriginal BY DEF HolderInv
<1>2. HolderInv /\ [Next]_vars => HolderInv' BY StepKeepsHolder
<1>. QED BY <1>1, <1>2, InitKey, PTL DEF Spec

(***************************************************************************)
(* A completed key keeps its first response until its TTL has passed       *)
(* (idempotency_repository.py:131-132).                                    *)
(***************************************************************************)
THEOREM ResponseAlwaysKept ==
  ASSUME ~OutlastsTimeout
  PROVE  Spec => ResponseKept
<1>1. HolderInv /\ [Next]_vars => HolderInv' BY StepKeepsHolder
<1>2. HolderInv /\ [Next]_vars =>
        [row.status = "completed" =>
           \/ row'.status = "completed" /\ row'.response = row.response
           \/ row.age = "expired"]_vars
  BY StepKeepsResponse
<1>. QED BY <1>1, <1>2, InitKey, PTL DEF Spec, ResponseKept

------------------------------------------------------------------------------
(***************************************************************************)
(* Once.  As long as nobody has died and nothing has been swept, whoever   *)
(* holds the key finds the row by its id, and a request that has moved     *)
(* money under it is either still the holder or the one whose response the *)
(* row keeps.  There is one of either kind, and never one of each.         *)
(***************************************************************************)
NobodyDead == \A r \in Requests : pc[r] # "dead"

Undisturbed ==
  \A r \in Requests :
    /\ r \in moved => pc[r] \in { "complete", "ended" }
    /\ Live(r) /\ record[r] # None => Found(r)
    /\ pc[r] = "ended" /\ record[r] # None /\ r \in moved =>
         row.status = "completed" /\ row.response = r

LEMMA UndisturbedMovesOnce ==
  ASSUME HolderInv, FreshReferences = TRUE, Undisturbed
  PROVE  MovesOnce
<1>. DEFINE Movers == { r \in Requests : record[r] # None /\ Reference(r) \in moved }
<1>1. ASSUME NEW r \in Movers, NEW q \in Movers PROVE r = q
  <2>1. /\ r \in Requests /\ record[r] # None /\ r \in moved
        /\ q \in Requests /\ record[q] # None /\ q \in moved
    BY DEF Reference
  <2>2. CASE pc[r] = "complete" /\ pc[q] = "complete"
    <3>1. Live(r) /\ Live(q) /\ Found(r) /\ Found(q)
      BY <2>1, <2>2 DEF Undisturbed, Live
    <3>. QED
      BY <2>1, <3>1 DEF HolderInv, OneHandler, Found
  <2>3. ASSUME NEW a \in Requests, NEW b \in Requests, Live(a), record[a] # None,
               pc[b] = "ended", record[b] # None, b \in moved
        PROVE  FALSE
    BY <2>3 DEF Undisturbed, HolderInv, HolderKeepsRow
  <2>4. CASE pc[r] = "ended" /\ pc[q] = "ended"
    BY <2>1, <2>4 DEF Undisturbed
  <2>. QED
    BY <2>1, <2>2, <2>3, <2>4 DEF Undisturbed, Live
<1>2. Cardinality(Movers) <= 1
  <2>1. CASE Movers = {}
    BY <2>1, FS_EmptySet
  <2>2. CASE Movers # {}
    <3>1. PICK r \in Movers : TRUE
      BY <2>2
    <3>2. Movers = { r }
      BY <1>1, <3>1
    <3>3. Cardinality({ r }) = 1
      BY FS_Singleton
    <3>. HIDE DEF Movers
    <3>. QED
      BY <3>2, <3>3
  <2>. QED
    BY <2>1, <2>2
<1>. QED
  BY <1>2 DEF MovesOnce

LEMMA StepUndisturbed ==
  ASSUME HolderInv, FreshReferences = TRUE, Undisturbed, Next, NobodyDead', ~swept'
  PROVE  Undisturbed'
<1>. /\ TypeOK /\ NothingKept /\ HolderKeepsRow /\ OneHandler
     /\ pc \in [Requests -> Labels] /\ record \in [Requests -> Requests \cup { None }]
  BY DEF HolderInv, KeyInv, TypeOK, Labels
<1>0. None \notin Requests /\ \A r \in Requests : Reference(r) = r
  BY IdempotencyKeysAssumption DEF Reference
<1>1. ASSUME NEW r \in Requests, Reserve(r) PROVE Undisturbed'
  <2>1. /\ moved' = moved /\ r \notin moved /\ pc[r] = "new"
        /\ \A q \in Requests \ { r } : pc'[q] = pc[q] /\ record'[q] = record[q]
    BY <1>1 DEF Reserve, Goto, Undisturbed
  <2>2. ASSUME NEW id \in Requests, row = NoRow \/ (TakenOver /\ row.id = id),
               Take(r, id), record' = [record EXCEPT ![r] = id], Goto(r, "work")
        PROVE  Undisturbed'
    <3>1. row' # NoRow /\ row'.id = id
      BY <2>2, Reservation, RowShape, <1>0 DEF Take, NoRow
    <3>2. pc'[r] = "work" /\ record'[r] = id
      BY <2>2 DEF Goto
    <3>3. ASSUME NEW q \in Requests \ { r }, Live(q), record[q] # None
          PROVE  FALSE
      BY <2>2, <3>3 DEF Undisturbed, HolderKeepsRow, Found, TakenOver
    <3>4. ASSUME NEW q \in Requests, pc[q] = "ended", record[q] # None, q \in moved
          PROVE  FALSE
      <4>1. row.status = "completed"
        BY <3>4 DEF Undisturbed
      <4>. QED
        BY <2>2, <4>1 DEF TakenOver, NoRow
    <3>5. ASSUME NEW q \in Requests \ { r }
          PROVE  /\ q \in moved' => pc'[q] \in { "complete", "ended" }
                 /\ ~(Live(q) /\ record[q] # None)
                 /\ ~(pc[q] = "ended" /\ record[q] # None /\ q \in moved)
      BY <2>1, <3>3, <3>4 DEF Undisturbed
    <3>6. Found(r)'
      BY <3>1, <3>2 DEF Found
    <3>. QED
      BY <2>1, <3>2, <3>5, <3>6 DEF Undisturbed, Live
  <2>3. CASE Goto(r, "look") /\ UNCHANGED <<row, record>>
    <3>1. pc'[r] = "look" /\ record'[r] = record[r] /\ row' = row
      BY <2>3 DEF Goto
    <3>. QED
      BY <2>1, <3>1 DEF Undisturbed, Live, Found
  <2>. QED
    BY <1>1, <2>2, <2>3, RowShape DEF Reserve
<1>2. ASSUME NEW r \in Requests,
             ProceedUnguarded(r) \/ Raise(r) \/ Look(r)
      PROVE  Undisturbed'
  <2>1. /\ row' = row /\ moved' = moved /\ record' = record
        /\ \A q \in Requests \ { r } : pc'[q] = pc[q]
        /\ r \notin moved
        /\ pc'[r] = "ended" \/ record[r] = None \/ (pc[r] = "work" /\ pc'[r] = "release")
    BY <1>2 DEF ProceedUnguarded, Raise, Look, Goto, End, Undisturbed, NothingKept
  <2>. QED
    BY <2>1 DEF Undisturbed, Live, Found
<1>3. ASSUME NEW r \in Requests, MoveMoney(r) PROVE Undisturbed'
  <2>1. /\ row' = row /\ moved' = moved \cup { r } /\ record' = record
        /\ pc[r] = "work" /\ pc'[r] = "complete"
        /\ \A q \in Requests \ { r } : pc'[q] = pc[q]
    BY <1>0, <1>3 DEF MoveMoney, Goto
  <2>. QED
    BY <2>1 DEF Undisturbed, Live, Found
<1>4. ASSUME NEW r \in Requests, Complete(r) PROVE Undisturbed'
  <2>1. /\ moved' = moved /\ record' = record /\ pc[r] = "complete" /\ pc'[r] = "ended"
        /\ \A q \in Requests \ { r } : pc'[q] = pc[q]
    BY <1>4 DEF Complete, Goto, End
  <2>2. CASE ~Found(r)
    <3>1. row' = row /\ record[r] = None
      BY <1>4, <2>1, <2>2 DEF Complete, Undisturbed, Live
    <3>. QED
      BY <2>1, <3>1 DEF Undisturbed, Live, Found
  <2>3. CASE Found(r)
    <3>1. /\ row # NoRow /\ row \in Rows /\ record[r] = row.id /\ row.id # None
          /\ row.status = "in_progress"
      BY <1>0, <2>1, <2>3, RowShape DEF Found, HolderKeepsRow, Live
    <3>2. /\ row' \in Rows /\ row'.id = row.id
          /\ row'.status = "completed" /\ row'.response = r
      BY <1>4, <2>3, <3>1 DEF Complete, Rows
    <3>3. row' # NoRow
      BY <3>2 DEF NoRow
    <3>4. ASSUME NEW q \in Requests \ { r }, pc[q] = "ended", record[q] # None, q \in moved
          PROVE  FALSE
      BY <3>1, <3>4 DEF Undisturbed
    <3>. QED
      BY <2>1, <3>1, <3>2, <3>3, <3>4 DEF Undisturbed, Live, Found
  <2>. QED
    BY <2>2, <2>3
<1>5. ASSUME NEW r \in Requests, Release(r) PROVE Undisturbed'
  <2>1. /\ moved' = moved /\ record' = record /\ pc[r] = "release" /\ pc'[r] = "ended"
        /\ r \notin moved
        /\ \A q \in Requests \ { r } : pc'[q] = pc[q]
    BY <1>5 DEF Release, Goto, End, Undisturbed
  <2>2. CASE row' = row
    BY <2>1, <2>2 DEF Undisturbed, Live, Found
  <2>3. CASE Found(r) /\ row.status = "in_progress"
    <3>1. ASSUME NEW q \in Requests \ { r }, Live(q), record[q] # None PROVE FALSE
      BY <2>1, <2>3, <3>1 DEF Undisturbed, OneHandler, Found, Live
    <3>2. ASSUME NEW q \in Requests, pc[q] = "ended", record[q] # None, q \in moved PROVE FALSE
      BY <2>3, <3>2 DEF Undisturbed
    <3>. QED
      BY <2>1, <3>1, <3>2 DEF Undisturbed, Live
  <2>. QED
    BY <1>5, <2>2, <2>3 DEF Release
<1>6. ASSUME NEW r \in Requests PROVE ~Die(r)
  <2>1. SUFFICES ASSUME Die(r) PROVE pc'[r] = "dead"
    BY DEF NobodyDead
  <2>. QED
    BY <2>1 DEF Die, Goto
<1>7. CASE Stale \/ Expire
  <2>1. /\ row # NoRow /\ row \in Rows
        /\ moved' = moved /\ record' = record /\ pc' = pc
        /\ \E age \in { "stale", "expired" } : row' = [row EXCEPT !.age = age]
    BY <1>7, RowShape DEF Stale, Expire, NoRow
  <2>2. /\ row'.id = row.id /\ row'.status = row.status /\ row'.response = row.response
        /\ row' \in Rows /\ row' # NoRow
    BY <2>1 DEF Rows, NoRow
  <2>. QED
    BY <2>1, <2>2 DEF Undisturbed, Live, Found
<1>8. ~Sweep
  BY DEF Sweep
<1>. QED
  BY <1>1, <1>2, <1>3, <1>4, <1>5, <1>6, <1>7, <1>8 DEF Next

(***************************************************************************)
(* What the key is for: until a holder dies or the key's TTL passes, one   *)
(* of the requests that hold it at most has moved money, with as many      *)
(* retries as one likes (core/idempotency.py:22-25).                       *)
(***************************************************************************)
THEOREM AlwaysMovesOnce ==
  ASSUME ~OutlastsTimeout, FreshReferences = TRUE
  PROVE  Spec => []MovesOnce
<1>. DEFINE OnceInv == HolderInv /\ (NobodyDead /\ ~swept => Undisturbed)
<1>1. Init => OnceInv
  BY InitKey DEF Init, Undisturbed, Live
<1>2. OnceInv /\ [Next]_vars => OnceInv'
  <2>. SUFFICES ASSUME OnceInv, [Next]_vars, NobodyDead', ~swept'
                PROVE  HolderInv' /\ Undisturbed'
    BY StepKeepsHolder
  <2>1. HolderInv'
    BY StepKeepsHolder
  <2>2. CASE Next
    <3>1. NobodyDead /\ ~swept
      <4>1. pc \in [Requests -> Labels]
        BY DEF HolderInv, KeyInv, TypeOK, Labels
      <4>2. ASSUME NEW q \in Requests, pc[q] = "dead" PROVE pc'[q] = "dead"
        BY <2>2, <4>1, <4>2 DEF Next, Reserve, ProceedUnguarded, Look, MoveMoney, Raise,
           Complete, Release, Die, Stale, Expire, Sweep, Goto, End
      <4>3. swept => swept'
        BY <2>2 DEF Next, Reserve, ProceedUnguarded, Look, MoveMoney, Raise,
           Complete, Release, Die, Stale, Expire, Sweep
      <4>. QED
        BY <4>2, <4>3 DEF NobodyDead
    <3>. QED
      BY <2>1, <2>2, <3>1, StepUndisturbed
  <2>3. CASE UNCHANGED vars
    BY <2>1, <2>3 DEF vars, NobodyDead, Undisturbed, Live, Found
  <2>. QED
    BY <2>2, <2>3
<1>3. OnceInv => MovesOnce
  BY UndisturbedMovesOnce DEF NobodyDead, MovesOnce
<1>. QED
  BY <1>1, <1>2, <1>3, PTL DEF Spec
=============================================================================
