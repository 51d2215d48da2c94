------------------------ MODULE WalletRepositoryProofs ------------------------
(***************************************************************************)
(* The sessions of WalletRepository keep the ledger, for every set of      *)
(* users, sessions and operations.                                         *)
(*                                                                         *)
(* The argument: a session that has locked a wallet has seen the wallet's  *)
(* committed balance and nobody else can change it until the lock is given *)
(* back (LocksProtect).  So the balances a commit writes are the ones the  *)
(* abstract book would compute, and a commit is a Post of the book; no     *)
(* other step touches the book at all.  The one hypothesis is that nobody  *)
(* moves money on a wallet instance that another request keeps across its  *)
(* calls (KeptIsFresh), as it is when no request keeps one; with it        *)
(* dropped, the property is false.                                         *)
(***************************************************************************)
EXTENDS WalletRepository, LedgerEntriesProofs, FiniteSetTheorems, WellFoundedInduction

(* A session in the middle of a request is at some operation. *)
CallsNamed ==
  \A s \in Sessions :
    pc[s] # "idle" \/ flushed[s] \/ kept[s] # NothingKept => call[s] \in Operations

TypeInv == TypeOK /\ CallsNamed

LEMMA OperationUsers ==
  ASSUME NEW o \in Operations
  PROVE  UsersOf(o) \subseteq Users
BY OperationShape, DeltaType DEF UsersOf

LEMMA InitTypeInv == Init => TypeInv
<1>. SUFFICES ASSUME Init PROVE TypeInv
  OBVIOUS
<1>1. Empty \in Balance /\ Zero \in [Users -> Balance]
  BY DEF Empty, Balance, Zero
<1>2. ledger \in [Users -> Seq(Row)]
  BY DEF Init
<1>3. kept \in [Sessions -> [users : SUBSET Users, balance : Balance]]
  BY <1>1 DEF Init, NothingKept
<1>. QED
  BY <1>1, <1>2, <1>3, WalletRepositoryAssumption
     DEF Init, TypeInv, TypeOK, CallsNamed, NoCall

LEMMA StepTypeInv ==
  ASSUME TypeInv, [Next]_vars
  PROVE  TypeInv'
<1>. USE DEF TypeInv, TypeOK, CallsNamed, Goto, Running, Finished
<1>1. Empty \in Balance /\ Zero \in [Users -> Balance]
      /\ NothingKept \in [users : SUBSET Users, balance : Balance]
  BY DEF Empty, Balance, Zero, NothingKept
<1>2. ASSUME NEW s \in Sessions, NEW o \in Operations, Call(s, o) PROVE TypeInv'
  BY <1>2 DEF Call
<1>3. ASSUME NEW s \in Sessions, Lookup(s) PROVE TypeInv'
  BY <1>3 DEF Lookup
<1>4. ASSUME NEW s \in Sessions, Resolve(s) PROVE TypeInv'
  BY <1>4 DEF Resolve
<1>5. ASSUME NEW s \in Sessions, EnsureWallet(s) PROVE TypeInv'
  <2>1. UsersOf(call[s]) \subseteq Users
    BY <1>5, OperationUsers DEF EnsureWallet
  <2>. QED
    BY <1>5, <2>1 DEF EnsureWallet, Carry
<1>6. ASSUME NEW s \in Sessions, NEW u \in Users, LockWallet(s, u) PROVE TypeInv'
  <2>1. (IF u \in kept[s].users THEN kept[s].balance ELSE wallet[u]) \in Balance
    OBVIOUS
  <2>2. view' \in [Sessions -> [Users -> Balance]]
    BY <1>6, <2>1 DEF LockWallet
  <2>. QED
    BY <1>6, <2>2 DEF LockWallet
<1>7. ASSUME NEW s \in Sessions, Refuse(s) PROVE TypeInv'
  BY <1>1, <1>7 DEF Refuse, Rollback, Unlocked
<1>8. ASSUME NEW s \in Sessions, Conflict(s) PROVE TypeInv'
  BY <1>1, <1>8 DEF Conflict, Rollback, Unlocked
<1>9. ASSUME NEW s \in Sessions, LookupAfterConflict(s) PROVE TypeInv'
  BY <1>9 DEF LookupAfterConflict
<1>10. ASSUME NEW s \in Sessions, Commit(s) PROVE TypeInv'
  <2>1. call[s] \in Operations /\ Typed(ledger, view[s]) /\ Allowed(view[s], call[s])
    BY <1>10 DEF Commit, Typed
  <2>2. /\ RecordedAll(ledger, view[s], call[s]) \in [Users -> Seq(Row)]
        /\ After(view[s], call[s]) \in [Users -> Balance]
    BY <2>1, OperationTyped DEF Typed
  <2>3. \A u \in Users : Written(s, u) \in Balance
    BY <2>2 DEF Written, Balance
  <2>4. wallet' \in [Users -> Balance] /\ ledger' \in [Users -> Seq(Row)]
    BY <1>10, <2>2, <2>3 DEF Commit
  <2>. QED
    BY <1>1, <1>10, <2>1, <2>4 DEF Commit, Carry, Unlocked
<1>11. ASSUME NEW s \in Sessions, EndRequest(s) PROVE TypeInv'
  <2>1. carried' \subseteq Operations /\ flushed' = [flushed EXCEPT ![s] = FALSE]
    BY <1>11 DEF EndRequest, Carry
  <2>. QED
    BY <1>1, <1>11, <2>1 DEF EndRequest
<1>12. ASSUME NEW s \in Sessions, KeepResult(s) PROVE TypeInv'
  <2>1. call[s] \in Operations
    BY <1>12 DEF KeepResult
  <2>2. [users |-> UsersOf(call[s]), balance |-> wallet[LegOf[call[s][1]].user]]
          \in [users : SUBSET Users, balance : Balance]
    BY <2>1, OperationUsers, OperationShape, DeltaType
  <2>. QED
    BY <1>12, <2>2 DEF KeepResult
<1>13. ASSUME NEW s \in Sessions, Crash(s) PROVE TypeInv'
  BY <1>1, <1>13 DEF Crash, Rollback, Unlocked
<1>14. CASE UNCHANGED vars
  BY <1>14 DEF vars
<1>. QED
  BY <1>2, <1>3, <1>4, <1>5, <1>6, <1>7, <1>8, <1>9, <1>10, <1>11, <1>12, <1>13, <1>14
     DEF Next, Step

(***************************************************************************)
(* Types, for every instance: in particular no balance is ever negative,   *)
(* even where a request keeps a stale wallet instance.                     *)
(***************************************************************************)
THEOREM TypeCorrect == Spec => []TypeOK
<1>1. TypeInv => TypeOK
  BY DEF TypeInv
<1>. QED
  BY InitTypeInv, StepTypeInv, <1>1, PTL DEF Spec

------------------------------------------------------------------------------
(***************************************************************************)
(* A wallet instance that a request has kept from its last call and is     *)
(* about to lock again is what the database holds, unless the call will be *)
(* refused as a repeat anyway.  This is what _lock_wallet, which returns   *)
(* the kept instance unrefreshed, relies on and nothing enforces           *)
(* (wallet_repository.py:253-267).                                         *)
(***************************************************************************)
KeptIsFresh ==
  \A s \in Sessions :
    pc[s] = "lock" /\ HasNoRow(ledger, call[s]) =>
      \A u \in ToLock(s) \cap kept[s].users : kept[s].balance = wallet[u]

(* With no follow-up calls, no request holds on to a wallet instance. *)
NobodyKeeps == \A s \in Sessions : kept[s] = NothingKept

LEMMA NobodyKeepsUnasked ==
  ASSUME FollowUps = {}
  PROVE  Spec => []KeptIsFresh
<1>1. Init => NobodyKeeps
  BY DEF Init, NobodyKeeps
<1>2. TypeInv /\ NobodyKeeps /\ [Next]_vars => NobodyKeeps'
  <2>1. ASSUME NEW s \in Sessions PROVE ~KeepResult(s)
    BY DEF KeepResult
  <2>. QED
    BY <2>1 DEF NobodyKeeps, Next, Step, Call, Lookup, Resolve, EnsureWallet,
       LockWallet, Refuse, Conflict, LookupAfterConflict, Commit, EndRequest, Crash,
       vars, TypeInv, TypeOK
<1>3. NobodyKeeps => KeptIsFresh
  BY DEF NobodyKeeps, KeptIsFresh, NothingKept
<1>. QED
  BY InitTypeInv, StepTypeInv, <1>1, <1>2, <1>3, PTL DEF Spec

------------------------------------------------------------------------------
(* Rows that a commit finds in the ledger are still there afterwards. *)
LEMMA RowsRemain ==
  ASSUME TypeInv, NEW s \in Sessions, Commit(s), NEW o \in Operations,
         HasNoRow(ledger', o)
  PROVE  HasNoRow(ledger, o)
<1>1. /\ call[s] \in Operations /\ Typed(ledger, view[s])
      /\ HasNoRow(ledger, call[s]) /\ Allowed(view[s], call[s])
      /\ ledger' = RecordedAll(ledger, view[s], call[s])
  BY DEF Commit, TypeInv, TypeOK, CallsNamed, Typed
<1>2. CASE o = call[s]
  BY <1>1, <1>2
<1>3. CASE o # call[s]
  BY <1>1, <1>3, OperationRows
<1>. QED
  BY <1>2, <1>3

(***************************************************************************)
(* What a row lock is good for.  A locked wallet belongs to a session that *)
(* is between locking and committing, and that session has seen the        *)
(* balance the database holds, unless its rows are there already; a        *)
(* session about to apply has locked every wallet it will touch.           *)
(***************************************************************************)
LocksProtect ==
  \A s \in Sessions :
    /\ \A u \in Users :
         lock[u] = s => /\ pc[s] \in { "lock", "apply" }
                        /\ u \in UsersOf(call[s])
                        /\ HasNoRow(ledger, call[s]) => view[s][u] = wallet[u]
    /\ pc[s] = "apply" => \A u \in UsersOf(call[s]) : lock[u] = s

LockInv == TypeInv /\ LocksProtect

LEMMA InitLockInv == Init => LockInv
<1>. SUFFICES ASSUME Init PROVE LockInv
  OBVIOUS
<1>1. TypeInv
  BY InitTypeInv
<1>2. LocksProtect
  BY WalletRepositoryAssumption DEF Init, LocksProtect
<1>. QED
  BY <1>1, <1>2 DEF LockInv

(* What a commit writes is what the whole book would become. *)
LEMMA CommitPosts ==
  ASSUME LockInv, NEW s \in Sessions, Commit(s)
  PROVE  /\ call[s] \in Operations
         /\ HasNoRow(ledger, call[s])
         /\ Allowed(wallet, call[s])
         /\ wallet' = After(wallet, call[s])
         /\ ledger' = RecordedAll(ledger, wallet, call[s])
         /\ \A u \in Users \ UsersOf(call[s]) : wallet'[u] = wallet[u]
<1>. DEFINE o == call[s]
<1>1. /\ o \in Operations
      /\ DOMAIN wallet = Users /\ DOMAIN view[s] = Users
      /\ \A u \in Users : wallet[u] \in Balance /\ view[s][u] \in Balance
  BY DEF LockInv, TypeInv, TypeOK, CallsNamed, Commit
<1>2. \A u \in UsersOf(o) : view[s][u] = wallet[u]
  BY <1>1, OperationUsers DEF LockInv, LocksProtect, Commit
<1>3. /\ UsersOf(o) \subseteq Users
      /\ Allowed(view[s], o) <=> Allowed(wallet, o)
      /\ RecordedAll(ledger, view[s], o) = RecordedAll(ledger, wallet, o)
      /\ \A u \in UsersOf(o) : After(view[s], o)[u] = After(wallet, o)[u]
  BY <1>1, <1>2, OperationLocal
<1>4. /\ DOMAIN After(wallet, o) = Users
      /\ \A u \in Users \ UsersOf(o) : After(wallet, o)[u] = wallet[u]
  BY <1>1, OperationLocal
<1>5. Allowed(wallet, o)
  BY <1>3 DEF Commit
<1>6. After(wallet, o) \in [Users -> Balance]
  <2>1. Typed(ledger, wallet)
    BY DEF LockInv, TypeInv, TypeOK, Typed
  <2>. QED
    BY <1>1, <1>5, <2>1, OperationTyped DEF Typed
<1>7. ASSUME NEW u \in UsersOf(o)
      PROVE Written(s, u) = After(wallet, o)[u]
  <2>1. After(wallet, o)[u] \in Balance /\ wallet[u] \in Balance
    BY <1>1, <1>3, <1>6
  <2>2. view[s][u] = wallet[u] /\ After(view[s], o)[u] = After(wallet, o)[u]
    BY <1>2, <1>3
  <2>3. Written(s, u) = [available |-> After(wallet, o)[u].available,
                         escrow |-> After(wallet, o)[u].escrow]
    BY <2>2 DEF Written
  <2>. QED
    BY <2>1, <2>3 DEF Balance
<1>8. wallet' = [u \in Users |-> IF u \in UsersOf(o) THEN Written(s, u) ELSE wallet[u]]
  BY DEF Commit
<1>9. \A u \in Users : wallet'[u] = After(wallet, o)[u]
  BY <1>3, <1>4, <1>7, <1>8
<1>10. wallet' = After(wallet, o)
  BY <1>4, <1>6, <1>8, <1>9
<1>. QED
  BY <1>1, <1>3, <1>4, <1>5, <1>9, <1>10 DEF Commit

LEMMA StepLockInv ==
  ASSUME KeptIsFresh, LockInv, [Next]_vars
  PROVE  LockInv'
<1>1. TypeInv'
  BY StepTypeInv DEF LockInv
<1>2. LocksProtect'
  <2>. USE DEF LockInv, LocksProtect, TypeInv, TypeOK, Goto
  <2>1. ASSUME NEW s \in Sessions, NEW o \in Operations, Call(s, o) PROVE LocksProtect'
    BY <2>1 DEF Call
  <2>2. ASSUME NEW s \in Sessions, Lookup(s) PROVE LocksProtect'
    BY <2>2 DEF Lookup
  <2>3. ASSUME NEW s \in Sessions, Resolve(s) PROVE LocksProtect'
    BY <2>3 DEF Resolve
  <2>4. ASSUME NEW s \in Sessions, EnsureWallet(s) PROVE LocksProtect'
    BY <2>4 DEF EnsureWallet
  <2>5. ASSUME NEW s \in Sessions, NEW u \in Users, LockWallet(s, u) PROVE LocksProtect'
    <3>1. view' = [view EXCEPT ![s][u] =
                     IF u \in kept[s].users THEN kept[s].balance ELSE wallet[u]]
      BY <2>5 DEF LockWallet
    <3>2. HasNoRow(ledger, call[s]) => view'[s][u] = wallet[u]
      BY <2>5, <3>1 DEF LockWallet, NextToLock, KeptIsFresh
    <3>3. /\ lock' = [lock EXCEPT ![u] = s]
          /\ wallet' = wallet /\ call' = call /\ ledger' = ledger
      BY <2>5 DEF LockWallet
    <3>4. lock[u] = Nobody /\ Nobody \notin Sessions /\ u \in UsersOf(call[s])
      BY <2>5, WalletRepositoryAssumption DEF LockWallet, NextToLock, ToLock
    <3>5. pc' = [pc EXCEPT ![s] = IF ToLock(s) = {u} THEN "apply" ELSE "lock"] /\ pc[s] = "lock"
      BY <2>5 DEF LockWallet
    <3>6. ASSUME NEW t \in Sessions, NEW v \in Users, lock'[v] = t
          PROVE /\ pc'[t] \in { "lock", "apply" }
                /\ v \in UsersOf(call'[t])
                /\ HasNoRow(ledger', call'[t]) => view'[t][v] = wallet'[v]
      <4>1. CASE v = u
        BY <4>1, <3>2, <3>3, <3>4, <3>5, <3>6
      <4>2. CASE v # u
        <5>1. lock[v] = t
          BY <4>2, <3>3, <3>6
        <5>. QED
          BY <5>1, <4>2, <3>1, <3>3, <3>5
      <4>. QED
        BY <4>1, <4>2
    <3>7. ASSUME NEW t \in Sessions, pc'[t] = "apply", NEW v \in UsersOf(call'[t])
          PROVE lock'[v] = t
      <4>1. CASE t = s
        <5>1. ToLock(s) = {u}
          BY <4>1, <3>5, <3>7
        <5>. QED
          BY <5>1, <4>1, <3>3, <3>7 DEF ToLock, Held
      <4>2. CASE t # s
        <5>1. pc[t] = "apply" /\ v \in UsersOf(call[t])
          BY <4>2, <3>3, <3>5, <3>7
        <5>2. lock[v] = t
          BY <5>1
        <5>. QED
          BY <5>2, <3>3, <3>4
      <4>. QED
        BY <4>1, <4>2
    <3>. QED
      BY <3>6, <3>7
  <2>6. ASSUME NEW s \in Sessions, lock' = Unlocked(s), view' = [view EXCEPT ![s] = Zero],
               \A t \in Sessions \ {s} : pc'[t] = pc[t] /\ call'[t] = call[t],
               pc'[s] # "apply",
               \A t \in Sessions \ {s} : \A u \in Users : lock[u] = t =>
                 /\ wallet'[u] = wallet[u]
                 /\ HasNoRow(ledger', call[t]) => HasNoRow(ledger, call[t])
        PROVE  LocksProtect'
    <3>1. \A u \in Users : lock'[u] = IF lock[u] = s THEN Nobody ELSE lock[u]
      BY <2>6 DEF Unlocked
    <3>2. \A t \in Sessions, u \in Users : lock'[u] = t => t # s /\ lock[u] = t
      BY <3>1, WalletRepositoryAssumption
    <3>3. \A t \in Sessions \ {s} : view'[t] = view[t]
      BY <2>6
    <3>4. \A t \in Sessions \ {s} : \A u \in Users : lock[u] = t => lock'[u] = t
      BY <3>1
    <3>5. \A t \in Sessions \ {s} : pc'[t] = "apply" => UsersOf(call[t]) \subseteq Users
      BY <2>6, OperationUsers DEF CallsNamed
    <3>. QED
      BY <2>6, <3>2, <3>3, <3>4, <3>5
  <2>7. ASSUME NEW s \in Sessions, Refuse(s) PROVE LocksProtect'
    <3>1. /\ lock' = Unlocked(s) /\ view' = [view EXCEPT ![s] = Zero]
          /\ wallet' = wallet /\ ledger' = ledger /\ call' = call
          /\ pc' = [pc EXCEPT ![s] = "refused"]
      BY <2>7 DEF Refuse, Rollback, Goto
    <3>2. pc'[s] # "apply" /\ \A t \in Sessions \ {s} : pc'[t] = pc[t]
      BY <3>1
    <3>. QED
      BY <2>6, <3>1, <3>2
  <2>8. ASSUME NEW s \in Sessions, Conflict(s) PROVE LocksProtect'
    <3>1. /\ lock' = Unlocked(s) /\ view' = [view EXCEPT ![s] = Zero]
          /\ wallet' = wallet /\ ledger' = ledger /\ call' = call
          /\ pc' = [pc EXCEPT ![s] = "conflict"]
      BY <2>8 DEF Conflict, Rollback, Goto
    <3>2. pc'[s] # "apply" /\ \A t \in Sessions \ {s} : pc'[t] = pc[t]
      BY <3>1
    <3>. QED
      BY <2>6, <3>1, <3>2
  <2>9. ASSUME NEW s \in Sessions, LookupAfterConflict(s) PROVE LocksProtect'
    BY <2>9 DEF LookupAfterConflict
  <2>10. ASSUME NEW s \in Sessions, Commit(s) PROVE LocksProtect'
    <3>1. \A u \in Users \ UsersOf(call[s]) : wallet'[u] = wallet[u]
      BY <2>10, CommitPosts
    <3>2. \A u \in UsersOf(call[s]) : lock[u] = s
      BY <2>10 DEF Commit
    <3>3. \A t \in Sessions \ {s} : \A u \in Users : lock[u] = t =>
            /\ wallet'[u] = wallet[u]
            /\ HasNoRow(ledger', call[t]) => HasNoRow(ledger, call[t])
      BY <2>10, <3>1, <3>2, RowsRemain DEF CallsNamed
    <3>4. /\ lock' = Unlocked(s) /\ view' = [view EXCEPT ![s] = Zero]
          /\ \A t \in Sessions \ {s} : pc'[t] = pc[t] /\ call'[t] = call[t]
          /\ pc'[s] # "apply"
      BY <2>10 DEF Commit
    <3>. QED
      BY <2>6, <3>3, <3>4
  <2>11. ASSUME NEW s \in Sessions, EndRequest(s) PROVE LocksProtect'
    <3>1. \A u \in Users : lock[u] # s
      BY <2>11 DEF EndRequest, Finished
    <3>. QED
      BY <2>11, <3>1 DEF EndRequest
  <2>12. ASSUME NEW s \in Sessions, Crash(s) PROVE LocksProtect'
    <3>1. /\ lock' = Unlocked(s) /\ view' = [view EXCEPT ![s] = Zero]
          /\ \A t \in Sessions \ {s} : pc'[t] = pc[t] /\ call'[t] = call[t]
          /\ pc'[s] # "apply" /\ wallet' = wallet /\ ledger' = ledger
      BY <2>12 DEF Crash, Rollback
    <3>. QED
      BY <2>6, <3>1
  <2>13. CASE UNCHANGED vars
    BY <2>13 DEF vars
  <2>14. ASSUME NEW s \in Sessions, KeepResult(s) PROVE LocksProtect'
    BY <2>14 DEF KeepResult
  <2>. QED
    BY <2>1, <2>2, <2>3, <2>4, <2>5, <2>7, <2>8, <2>9, <2>10, <2>11, <2>12, <2>13, <2>14
       DEF Next, Step
<1>. QED
  BY <1>1, <1>2 DEF LockInv

------------------------------------------------------------------------------
(* The operators of the book are those of this module. *)
LEMMA BookOperators ==
  /\ \A l, o : Book!HasNoRow(l, o) <=> HasNoRow(l, o)
  /\ \A w, o : Book!Allowed(w, o) <=> Allowed(w, o)
  /\ \A w, o : Book!After(w, o) = After(w, o)
  /\ \A l, w, o : Book!RecordedAll(l, w, o) = RecordedAll(l, w, o)
<1>1. \A l, o : Book!HasNoRow(l, o) <=> HasNoRow(l, o)
  BY DEF HasNoRow, HasRow, RefsOf, Book!HasNoRow, Book!HasRow, Book!RefsOf
<1>2. /\ \A r : Book!AvailableDelta(r) = AvailableDelta(r)
      /\ \A r : Book!EscrowDelta(r) = EscrowDelta(r)
  BY DEF AvailableDelta, EscrowDelta, AvailableSign, EscrowSign,
         Book!AvailableDelta, Book!EscrowDelta, Book!AvailableSign, Book!EscrowSign
<1>3. \A b, r : Book!Moved(b, r) = Moved(b, r)
  BY <1>2 DEF Moved, Book!Moved
<1>4. /\ \A b, r : Book!LegAllowed(b, r) <=> LegAllowed(b, r)
      /\ \A w, r : Book!AfterLeg(w, r) = AfterLeg(w, r)
      /\ \A w, r : Book!RowOf(w, r) = RowOf(w, r)
  BY <1>2, <1>3 DEF LegAllowed, AfterLeg, RowOf, Book!LegAllowed, Book!AfterLeg, Book!RowOf
<1>5. \A l, w, r : Book!Recorded(l, w, r) = Recorded(l, w, r)
  BY <1>4 DEF Recorded, Book!Recorded
<1>6. \A w, o : Book!Allowed(w, o) <=> Allowed(w, o)
  BY <1>4 DEF Allowed, Book!Allowed
<1>7. \A w, o : Book!After(w, o) = After(w, o)
  BY <1>4 DEF After, Book!After
<1>8. \A l, w, o : Book!RecordedAll(l, w, o) = RecordedAll(l, w, o)
  BY <1>4, <1>5 DEF RecordedAll, Book!RecordedAll
<1>. QED
  BY <1>1, <1>6, <1>7, <1>8

LEMMA BookPosts ==
  ASSUME NEW o \in Operations,
         HasNoRow(ledger, o), Allowed(wallet, o),
         wallet' = After(wallet, o), ledger' = RecordedAll(ledger, wallet, o)
  PROVE  Book!Next
BY BookOperators DEF Book!Next, Book!Post

(* What the book promises is what this module calls a ledger that is kept. *)
LEMMA BookPromises ==
  LedgerKept => /\ Book!TypeOK /\ Book!BalancesAccountedFor
                /\ Book!EventsMoveMoneyOnce /\ Book!TransfersWhole
<1>. SUFFICES ASSUME LedgerKept
              PROVE  /\ Book!TypeOK /\ Book!BalancesAccountedFor
                     /\ Book!EventsMoveMoneyOnce /\ Book!TransfersWhole
  OBVIOUS
<1>1. Book!TypeOK
  BY DEF LedgerKept, Sound, Typed, Balance, Row, Book!TypeOK, Book!Typed, Book!Balance, Book!Row
<1>2. Book!BalancesAccountedFor
  BY DEF LedgerKept, Sound, AccountsFor, Chained, LeftBy, Empty, Book!BalancesAccountedFor,
     Book!AccountsFor, Book!Chained, Book!LeftBy, Book!Empty
<1>3. \A r : Book!AvailableDelta(r) = AvailableDelta(r) /\ Book!EscrowDelta(r) = EscrowDelta(r)
  BY DEF AvailableDelta, EscrowDelta, AvailableSign, EscrowSign,
         Book!AvailableDelta, Book!EscrowDelta, Book!AvailableSign, Book!EscrowSign
<1>4. Book!EventsMoveMoneyOnce
  BY <1>3 DEF LedgerKept, Sound, Distinct, Faithful, Book!EventsMoveMoneyOnce,
     Book!Distinct, Book!Faithful
<1>5. Book!TransfersWhole
  BY BookOperators DEF LedgerKept, Whole, HasRows, HasRow, RefsOf, Book!TransfersWhole,
     Book!Whole, Book!HasRows, Book!HasRow, Book!RefsOf
<1>. QED
  BY <1>1, <1>2, <1>4, <1>5

(***************************************************************************)
(* The abstract book keeps its promises: non-negative balances that the    *)
(* rows account for, money that moves once per event, whole transfers      *)
(* (wallet_repository.py:3-21).                                            *)
(***************************************************************************)
THEOREM BookSound ==
  Book!Spec => [](/\ Book!TypeOK /\ Book!BalancesAccountedFor
                  /\ Book!EventsMoveMoneyOnce /\ Book!TransfersWhole)
<1>1. Book!Init => LedgerKept
  BY NothingIsKept DEF Book!Init, Book!Empty, Empty, LedgerKept
<1>2. LedgerKept /\ [Book!Next]_(Book!vars) => LedgerKept'
  <2>. SUFFICES ASSUME LedgerKept, [Book!Next]_(Book!vars) PROVE LedgerKept'
    OBVIOUS
  <2>1. ASSUME NEW o \in Operations, Book!Post(o) PROVE LedgerKept'
    BY <2>1, BookOperators, OperationKeeps DEF Book!Post, LedgerKept
  <2>2. CASE UNCHANGED Book!vars
    <3>1. Sound(ledger, wallet) /\ Whole(ledger)
      BY DEF LedgerKept
    <3>. QED
      BY <2>2, <3>1 DEF Book!vars, LedgerKept
  <2>. QED
    BY <2>1, <2>2 DEF Book!Next
<1>. QED
  BY BookPromises, <1>1, <1>2, PTL DEF Book!Spec

(* Every step is a Post of the book or leaves the book alone. *)
LEMMA StepOfBook ==
  ASSUME LockInv, [Next]_vars
  PROVE  [Book!Next]_(Book!vars)
<1>1. ASSUME NEW s \in Sessions, Commit(s) PROVE Book!Next
  BY <1>1, CommitPosts, BookPosts
<1>2. ASSUME NEW s \in Sessions,
             \/ \E o \in Operations : Call(s, o)
             \/ \E u \in Users : LockWallet(s, u)
             \/ Lookup(s) \/ Resolve(s) \/ EnsureWallet(s) \/ Refuse(s) \/ Conflict(s)
             \/ LookupAfterConflict(s) \/ EndRequest(s) \/ KeepResult(s) \/ Crash(s)
      PROVE  UNCHANGED <<wallet, ledger>>
  BY <1>2 DEF Call, LockWallet, Lookup, Resolve, EnsureWallet, Refuse, Conflict,
     LookupAfterConflict, EndRequest, KeepResult, Crash
<1>3. CASE UNCHANGED vars
  BY <1>3 DEF vars, Book!vars
<1>. QED
  BY <1>1, <1>2, <1>3 DEF Next, Step, Book!vars

(***************************************************************************)
(* The detailed specification implements the abstract one as long as kept  *)
(* wallets are fresh, whatever second calls requests make with them        *)
(* (wallet_repository.py:3-21).                                            *)
(***************************************************************************)
THEOREM FreshImplements == Spec /\ []KeptIsFresh => ImplementsLedgerBook
<1>1. Init => Book!Init
  BY DEF Init, Book!Init, Zero, Empty, Book!Empty
<1>2. KeptIsFresh /\ LockInv /\ [Next]_vars => LockInv'
  BY StepLockInv
<1>3. LockInv /\ [Next]_vars => [Book!Next]_(Book!vars)
  BY StepOfBook
<1>. QED
  BY InitLockInv, <1>1, <1>2, <1>3, PTL DEF Spec, ImplementsLedgerBook, Book!Spec

(***************************************************************************)
(* In particular where no request makes a second call with the result of   *)
(* its first (wallet_repository.py:3-21).                                  *)
(***************************************************************************)
THEOREM Implementation ==
  ASSUME FollowUps = {}
  PROVE  Spec => ImplementsLedgerBook
BY NobodyKeepsUnasked, FreshImplements, PTL

------------------------------------------------------------------------------
KeptInv == LockInv /\ LedgerKept

(***************************************************************************)
(* The ledger invariant of wallet_repository.py:3-21 under concurrency:    *)
(* whatever sessions interleave, conflict, roll back, keep or crash,       *)
(* balances and rows agree, events move money once and transfers are       *)
(* whole, as long as a wallet kept is fresh when it is locked again.       *)
(***************************************************************************)
THEOREM FreshLedgerIsKept == Spec /\ []KeptIsFresh => []LedgerKept
<1>1. Init => KeptInv
  <2>. SUFFICES ASSUME Init PROVE LedgerKept
    BY InitLockInv DEF KeptInv
  <2>. QED
    BY NothingIsKept DEF Init, Zero, LedgerKept
<1>2. KeptIsFresh /\ KeptInv /\ [Next]_vars => KeptInv'
  <2>. SUFFICES ASSUME KeptIsFresh, KeptInv, [Next]_vars PROVE KeptInv'
    OBVIOUS
  <2>1. LockInv' /\ [Book!Next]_(Book!vars)
    BY StepLockInv, StepOfBook DEF KeptInv
  <2>2. ASSUME NEW s \in Sessions, Commit(s) PROVE LedgerKept'
    <3>1. /\ call[s] \in Operations
          /\ HasNoRow(ledger, call[s]) /\ Allowed(wallet, call[s])
          /\ wallet' = After(wallet, call[s])
          /\ ledger' = RecordedAll(ledger, wallet, call[s])
      BY <2>2, CommitPosts DEF KeptInv
    <3>. QED
      BY <3>1, OperationKeeps DEF KeptInv, LedgerKept
  <2>3. ASSUME wallet' = wallet, ledger' = ledger PROVE LedgerKept'
    <3>1. Sound(ledger, wallet) /\ Whole(ledger)
      BY DEF KeptInv, LedgerKept
    <3>. QED
      BY <2>3, <3>1 DEF LedgerKept
  <2>4. (\E s \in Sessions : Commit(s)) \/ UNCHANGED <<wallet, ledger>>
    <3>1. ASSUME NEW s \in Sessions,
                 \/ \E o \in Operations : Call(s, o)
                 \/ \E u \in Users : LockWallet(s, u)
                 \/ Lookup(s) \/ Resolve(s) \/ EnsureWallet(s) \/ Refuse(s) \/ Conflict(s)
                 \/ LookupAfterConflict(s) \/ EndRequest(s) \/ KeepResult(s) \/ Crash(s)
          PROVE  UNCHANGED <<wallet, ledger>>
      BY <3>1 DEF Call, LockWallet, Lookup, Resolve, EnsureWallet, Refuse, Conflict,
         LookupAfterConflict, EndRequest, KeepResult, Crash
    <3>2. CASE UNCHANGED vars
      BY <3>2 DEF vars
    <3>. QED
      BY <3>1, <3>2 DEF Next, Step
  <2>. QED
    BY <2>1, <2>2, <2>3, <2>4 DEF KeptInv
<1>. QED
  BY <1>1, <1>2, PTL DEF Spec, KeptInv

(***************************************************************************)
(* Likewise where no request makes a second call with the result of its    *)
(* first (wallet_repository.py:3-21).                                      *)
(***************************************************************************)
THEOREM LedgerIsKept ==
  ASSUME FollowUps = {}
  PROVE  Spec => []LedgerKept
BY NobodyKeepsUnasked, FreshLedgerIsKept, PTL

(***************************************************************************)
(* "It must always return zero rows" (wallet_repository.py:15-21): each    *)
(* balance is the sum of the deltas of the wallet's rows, because the rows *)
(* account for it one by one.                                              *)
(***************************************************************************)
THEOREM FreshBalancesMatch == Spec /\ []KeptIsFresh => []BalancesMatchLedger
<1>1. LedgerKept => BalancesMatchLedger
  BY AccountsSumUp DEF LedgerKept, Sound, BalancesMatchLedger
<1>. QED
  BY FreshLedgerIsKept, <1>1, PTL

(***************************************************************************)
(* Likewise where no request makes a second call with the result of its    *)
(* first (wallet_repository.py:15-21).                                     *)
(***************************************************************************)
THEOREM BalancesAlwaysMatch ==
  ASSUME FollowUps = {}
  PROVE  Spec => []BalancesMatchLedger
BY NobodyKeepsUnasked, FreshBalancesMatch, PTL

(***************************************************************************)
(* A request that keeps a wallet instance can write a stale balance, but   *)
(* never a wrong row: with any follow-ups at all, each event still has one *)
(* row at most, in the wallet and of the amount it stands for, and a       *)
(* transfer both of its rows or none.                                      *)
(***************************************************************************)
RowsKept == Distinct(ledger) /\ Faithful(ledger) /\ Whole(ledger)

THEOREM RowsAreKept == Spec => []RowsKept
<1>1. Init => RowsKept
  BY NothingIsKept DEF Init, Zero, RowsKept, Sound
<1>2. TypeInv /\ RowsKept /\ [Next]_vars => RowsKept'
  <2>. SUFFICES ASSUME TypeInv, RowsKept, [Next]_vars PROVE RowsKept'
    OBVIOUS
  <2>1. ASSUME NEW s \in Sessions, Commit(s) PROVE RowsKept'
    <3>1. /\ call[s] \in Operations /\ Typed(ledger, view[s])
          /\ HasNoRow(ledger, call[s]) /\ Allowed(view[s], call[s])
          /\ ledger' = RecordedAll(ledger, view[s], call[s])
      BY <2>1 DEF Commit, TypeInv, TypeOK, CallsNamed, Typed
    <3>. QED
      BY <3>1, OperationRecords DEF RowsKept
  <2>2. (\E s \in Sessions : Commit(s)) \/ ledger' = ledger
    BY DEF Next, Step, Call, LockWallet, Lookup, Resolve, EnsureWallet, Refuse, Conflict,
       LookupAfterConflict, EndRequest, KeepResult, Crash, vars
  <2>3. ASSUME ledger' = ledger PROVE RowsKept'
    <3>1. Distinct(ledger) /\ Faithful(ledger) /\ Whole(ledger)
      BY DEF RowsKept
    <3>. QED
      BY <2>3, <3>1 DEF RowsKept
  <2>. QED
    BY <2>1, <2>2, <2>3
<1>. QED
  BY InitTypeInv, StepTypeInv, <1>1, <1>2, PTL DEF Spec

------------------------------------------------------------------------------
(***************************************************************************)
(* Waiting.  Locks are taken in ascending order, so a session that holds a *)
(* wallet holds every lower one its call touches, and whoever waits for it *)
(* waits for a lower wallet than it does itself.  Follow a circle of waits *)
(* and the awaited wallet would have to climb for ever.  (A chain without  *)
(* an end needs infinitely many sessions: a database has finitely many     *)
(* connections.)  Kept wallets make no difference here.                    *)
(***************************************************************************)
LocksClimb ==
  \A s \in Sessions : \A u \in Users :
    lock[u] = s => /\ pc[s] \in { "lock", "apply" }
                   /\ u \in UsersOf(call[s])
                   /\ \A v \in UsersOf(call[s]) : v <= u => lock[v] = s

LEMMA StepLocksClimb ==
  ASSUME TypeInv, LocksClimb, [Next]_vars
  PROVE  LocksClimb'
<1>. USE DEF LocksClimb, TypeInv, TypeOK, Goto
<1>1. ASSUME NEW s \in Sessions, NEW o \in Operations, Call(s, o) PROVE LocksClimb'
  BY <1>1 DEF Call
<1>2. ASSUME NEW s \in Sessions, Lookup(s) \/ Resolve(s) \/ EnsureWallet(s) PROVE LocksClimb'
  BY <1>2 DEF Lookup, Resolve, EnsureWallet
<1>3. ASSUME NEW s \in Sessions, NEW u \in Users, LockWallet(s, u) PROVE LocksClimb'
  <2>1. /\ pc[s] = "lock" /\ u \in UsersOf(call[s]) /\ lock[u] = Nobody
        /\ lock' = [lock EXCEPT ![u] = s] /\ call' = call
        /\ pc' = [pc EXCEPT ![s] = IF ToLock(s) = {u} THEN "apply" ELSE "lock"]
    BY <1>3 DEF LockWallet, NextToLock, ToLock
  <2>2. UsersOf(call[s]) \subseteq Users /\ Users \subseteq Nat
    BY <2>1, OperationUsers, LedgerEntriesAssumption DEF CallsNamed
  <2>3. \A v \in UsersOf(call[s]) : v < u => lock[v] = s
    BY <1>3, <2>2 DEF LockWallet, NextToLock, ToLock, Held
  <2>4. \A v \in UsersOf(call[s]) : v <= u => lock'[v] = s
    BY <2>1, <2>2, <2>3
  <2>5. ASSUME NEW t \in Sessions, NEW v \in Users, lock'[v] = t
        PROVE  /\ pc'[t] \in { "lock", "apply" }
               /\ v \in UsersOf(call'[t])
               /\ \A w \in UsersOf(call'[t]) : w <= v => lock'[w] = t
    <3>1. CASE v = u
      BY <3>1, <2>1, <2>4, <2>5
    <3>2. CASE v # u
      <4>1. lock[v] = t
        BY <3>2, <2>1, <2>5
      <4>2. \A w \in UsersOf(call[t]) : w <= v => lock[w] = t /\ w # u
        BY <4>1, <2>1, WalletRepositoryAssumption
      <4>. QED
        BY <4>1, <4>2, <2>1
    <3>. QED
      BY <3>1, <3>2
  <2>. QED
    BY <2>5
<1>4. ASSUME NEW s \in Sessions, lock' = Unlocked(s),
             \A t \in Sessions \ {s} : pc'[t] = pc[t] /\ call'[t] = call[t]
      PROVE  LocksClimb'
  <2>1. \A u \in Users : lock'[u] = IF lock[u] = s THEN Nobody ELSE lock[u]
    BY <1>4 DEF Unlocked
  <2>2. ASSUME NEW t \in Sessions, NEW u \in Users, lock'[u] = t
        PROVE  t # s /\ lock[u] = t
    BY <2>1, <2>2, WalletRepositoryAssumption
  <2>3. ASSUME NEW t \in Sessions \ {s}, NEW u \in Users, lock[u] = t,
               NEW v \in UsersOf(call[t]), v <= u
        PROVE  lock'[v] = t
    <3>1. pc[t] \in { "lock", "apply" } /\ lock[v] = t
      BY <2>3
    <3>2. call[t] \in Operations
      BY <3>1 DEF CallsNamed
    <3>. QED
      BY <2>1, <3>1, <3>2, OperationUsers
  <2>. QED
    BY <1>4, <2>2, <2>3
<1>5. ASSUME NEW s \in Sessions, Refuse(s) \/ Conflict(s) \/ Commit(s) \/ Crash(s)
      PROVE  LocksClimb'
  <2>1. lock' = Unlocked(s) /\ \A t \in Sessions \ {s} : pc'[t] = pc[t] /\ call'[t] = call[t]
    BY <1>5 DEF Refuse, Conflict, Commit, Crash, Rollback
  <2>. QED
    BY <2>1, <1>4
<1>6. ASSUME NEW s \in Sessions, LookupAfterConflict(s) \/ EndRequest(s) \/ KeepResult(s)
      PROVE  LocksClimb'
  <2>1. \A u \in Users : lock[u] # s
    BY <1>6 DEF LookupAfterConflict, EndRequest, KeepResult, Finished
  <2>. QED
    BY <1>6, <2>1 DEF LookupAfterConflict, EndRequest, KeepResult
<1>7. CASE UNCHANGED vars
  BY <1>7 DEF vars
<1>. QED
  BY <1>1, <1>2, <1>3, <1>5, <1>6, <1>7 DEF Next, Step

(* Along a wait the awaited wallet climbs. *)
LEMMA WaitClimbs ==
  ASSUME LocksClimb,
         NEW s \in Sessions, NEW t \in Sessions, NEW u \in Users, NEW v \in Users,
         lock[u] = t, NextToLock(t, v)
  PROVE  u < v
<1>1. v \in UsersOf(call[t]) /\ lock[v] # t
  BY DEF NextToLock, ToLock, Held
<1>2. v <= u => lock[v] = t
  BY <1>1 DEF LocksClimb
<1>. QED
  BY <1>1, <1>2, LedgerEntriesAssumption

(* Among the sessions of S, those that wait for a higher wallet than s. *)
Above(S, s) ==
  { t \in S : \E u, v \in Users : NextToLock(s, u) /\ NextToLock(t, v) /\ u < v }

LEMMA ClimbingLocksDoNotDeadlock ==
  ASSUME IsFiniteSet(Sessions), LocksClimb
  PROVE  NoWaitCycle
<1>. SUFFICES ASSUME NEW S \in (SUBSET Sessions) \ {{}},
                     \A s \in S : \E t \in S : WaitsFor(s, t)
              PROVE  FALSE
  BY DEF NoWaitCycle
<1>. DEFINE T == { Above(S, s) : s \in S }
<1>1. T \subseteq FiniteSubsetsOf(S) /\ T # {}
  <2>1. IsFiniteSet(S)
    BY FS_Subset
  <2>2. \A s \in S : Above(S, s) \in SUBSET S
    BY DEF Above
  <2>3. T \subseteq SUBSET S /\ T # {}
    BY <2>2
  <2>. QED
    BY <2>1, <2>3, FS_FiniteSubsetsOfFinite
<1>2. \E A \in T : \A B \in T : ~(<<B, A>> \in StrictSubsetOrdering(S))
  <2>. HIDE DEF T
  <2>. QED
    BY <1>1, FS_StrictSubsetOrderingWellFounded, WFMin
<1>3. PICK s \in S : \A t \in S : ~(<<Above(S, t), Above(S, s)>> \in StrictSubsetOrdering(S))
  BY <1>2
<1>4. PICK t \in S : WaitsFor(s, t)
  OBVIOUS
<1>5. PICK u \in Users : NextToLock(s, u) /\ lock[u] = t
  BY <1>4 DEF WaitsFor
<1>6. PICK v \in Users : NextToLock(t, v)
  BY DEF WaitsFor
<1>7. Users \subseteq Nat
  BY LedgerEntriesAssumption
<1>8. u < v
  BY <1>5, <1>6, WaitClimbs
<1>9. ASSUME NEW w \in Users, NextToLock(t, w) PROVE w = v
  <2>1. w <= v /\ v <= w
    BY <1>6, <1>9 DEF NextToLock
  <2>. QED
    BY <2>1, <1>7
<1>10. t \in Above(S, s) /\ t \notin Above(S, t)
  <2>1. t \in Above(S, s)
    BY <1>5, <1>6, <1>8 DEF Above
  <2>2. ~(v < v)
    BY <1>7
  <2>3. t \notin Above(S, t)
    BY <1>9, <2>2 DEF Above
  <2>. QED
    BY <2>1, <2>3
<1>11. Above(S, t) \subseteq Above(S, s)
  <2>1. SUFFICES ASSUME NEW r \in Above(S, t) PROVE r \in Above(S, s)
    OBVIOUS
  <2>2. PICK w \in Users : NextToLock(r, w) /\ v < w
    BY <1>9 DEF Above
  <2>3. u < w
    BY <1>7, <1>8, <2>2
  <2>. QED
    BY <1>5, <2>2, <2>3 DEF Above
<1>12. <<Above(S, t), Above(S, s)>> \in StrictSubsetOrdering(S)
  <2>1. Above(S, t) \in SUBSET S /\ Above(S, s) \in SUBSET S /\ Above(S, t) # Above(S, s)
    BY <1>10 DEF Above
  <2>. QED
    BY <1>11, <2>1 DEF StrictSubsetOrdering
<1>. QED
  BY <1>3, <1>12

(***************************************************************************)
(* Locking rule 2 of wallet_repository.py: the ascending order keeps any   *)
(* number of sessions, over any operations, from deadlocking.              *)
(***************************************************************************)
THEOREM NoDeadlock ==
  ASSUME IsFiniteSet(Sessions)
  PROVE  Spec => []NoWaitCycle
<1>1. Init => TypeInv /\ LocksClimb
  BY InitTypeInv, WalletRepositoryAssumption DEF Init, LocksClimb
<1>2. TypeInv /\ LocksClimb /\ [Next]_vars => TypeInv' /\ LocksClimb'
  BY StepTypeInv, StepLocksClimb
<1>3. LocksClimb => NoWaitCycle
  BY ClimbingLocksDoNotDeadlock
<1>. QED
  BY <1>1, <1>2, <1>3, PTL DEF Spec

------------------------------------------------------------------------------
(***************************************************************************)
(* The caller's own change.  It is pending only while the money is not yet *)
(* decided on, or while a replay has shown that it moved before.           *)
(***************************************************************************)
PendingChange ==
  \A s \in Sessions :
    flushed[s] => \/ pc[s] \in { "lookup", "resolve", "ensure", "lock", "apply" }
                  \/ pc[s] = "replayed" /\ HasRows(ledger, call[s])

(* Rows are never taken back. *)
LEMMA RowsStay ==
  ASSUME TypeInv, [Next]_vars
  PROVE  /\ \A o \in Operations : HasRows(ledger, o) => HasRows(ledger', o)
         /\ \A s \in Sessions : Commit(s) => HasRows(ledger', call[s])
<1>1. ASSUME NEW s \in Sessions, Commit(s)
      PROVE  /\ \A o \in Operations : HasRows(ledger, o) => HasRows(ledger', o)
             /\ HasRows(ledger', call[s])
  <2>1. /\ call[s] \in Operations /\ Typed(ledger, view[s])
        /\ HasNoRow(ledger, call[s]) /\ Allowed(view[s], call[s])
        /\ ledger' = RecordedAll(ledger, view[s], call[s])
    BY <1>1 DEF Commit, TypeInv, TypeOK, CallsNamed, Typed
  <2>2. /\ HasRows(ledger', call[s])
        /\ \A p \in Operations \ {call[s]} : HasRows(ledger', p) <=> HasRows(ledger, p)
    BY <2>1, OperationRows
  <2>. QED
    BY <2>2
<1>2. (\E s \in Sessions : Commit(s)) \/ ledger' = ledger
  BY DEF Next, Step, Call, LockWallet, Lookup, Resolve, EnsureWallet, Refuse, Conflict,
     LookupAfterConflict, EndRequest, KeepResult, Crash, vars
<1>. QED
  BY <1>1, <1>2

LEMMA StepPendingChange ==
  ASSUME TypeInv, PendingChange, [Next]_vars
  PROVE  PendingChange'
<1>. USE DEF TypeInv, TypeOK, Goto
<1>1. ASSUME NEW s \in Sessions,
             \A t \in Sessions \ {s} :
               flushed'[t] = flushed[t] /\ pc'[t] = pc[t] /\ call'[t] = call[t],
             flushed'[s] => \/ pc'[s] \in { "lookup", "resolve", "ensure", "lock", "apply" }
                            \/ pc'[s] = "replayed" /\ HasRows(ledger', call'[s])
      PROVE  PendingChange'
  <2>1. \A o \in Operations : HasRows(ledger, o) => HasRows(ledger', o)
    BY RowsStay
  <2>2. \A t \in Sessions : flushed[t] => call[t] \in Operations
    BY DEF CallsNamed
  <2>. QED
    BY <1>1, <2>1, <2>2 DEF PendingChange
<1>2. ASSUME NEW s \in Sessions,
             \/ \E o \in Operations : Call(s, o)
             \/ \E u \in Users : LockWallet(s, u)
             \/ Lookup(s) \/ Resolve(s) \/ EnsureWallet(s)
      PROVE  PendingChange'
  <2>1. CASE \E o \in Operations : Call(s, o)
    BY <1>1, <2>1 DEF Call
  <2>2. CASE \E u \in Users : LockWallet(s, u)
    BY <1>1, <2>2 DEF LockWallet
  <2>3. CASE Lookup(s)
    BY <1>1, <2>3 DEF Lookup
  <2>4. CASE Resolve(s)
    BY <1>1, <2>4 DEF Resolve
  <2>5. CASE EnsureWallet(s)
    BY <1>1, <2>5 DEF EnsureWallet, Carry
  <2>. QED
    BY <1>2, <2>1, <2>2, <2>3, <2>4, <2>5
<1>3. ASSUME NEW s \in Sessions,
             Refuse(s) \/ Conflict(s) \/ Commit(s) \/ EndRequest(s) \/ Crash(s)
      PROVE  PendingChange'
  <2>1. ~flushed'[s]
    BY <1>3 DEF Refuse, Conflict, Commit, EndRequest, Crash, Rollback, Carry
  <2>2. \A t \in Sessions \ {s} :
          flushed'[t] = flushed[t] /\ pc'[t] = pc[t] /\ call'[t] = call[t]
    BY <1>3 DEF Refuse, Conflict, Commit, EndRequest, Crash, Rollback, Carry
  <2>. QED
    BY <1>1, <2>1, <2>2
<1>4. ASSUME NEW s \in Sessions, LookupAfterConflict(s) \/ KeepResult(s)
      PROVE  PendingChange'
  <2>1. ~flushed[s]
    BY <1>4 DEF LookupAfterConflict, KeepResult, PendingChange
  <2>. QED
    BY <1>1, <1>4, <2>1 DEF LookupAfterConflict, KeepResult
<1>5. CASE UNCHANGED vars
  BY <1>5 DEF vars, PendingChange
<1>. QED
  BY <1>2, <1>3, <1>4, <1>5 DEF Next, Step

(***************************************************************************)
(* "The change and the money commit together": whatever commits a caller's *)
(* change, its money has moved by then, the creation of a missing wallet   *)
(* excepted.                                                               *)
(***************************************************************************)
THEOREM ChangesComeWithMoney == Spec => RidersWithMoney
<1>1. Init => TypeInv /\ PendingChange
  BY InitTypeInv DEF Init, PendingChange
<1>2. TypeInv /\ PendingChange /\ [Next]_vars => TypeInv' /\ PendingChange'
  BY StepTypeInv, StepPendingChange
<1>3. ASSUME TypeInv, PendingChange, [Next]_vars, NEW o \in carried' \ carried
      PROVE  \/ HasRows(ledger', o)
             \/ \E s \in Sessions : pc[s] = "ensure" /\ call[s] = o
  <2>1. PICK s \in Sessions : EnsureWallet(s) \/ Commit(s) \/ EndRequest(s)
    BY <1>3 DEF Next, Step, Call, LockWallet, Lookup, Resolve, Refuse, Conflict,
       LookupAfterConflict, KeepResult, Crash, vars
  <2>2. flushed[s] /\ o = call[s]
    BY <1>3, <2>1 DEF EnsureWallet, Commit, EndRequest, Carry
  <2>3. CASE EnsureWallet(s)
    BY <2>2, <2>3 DEF EnsureWallet
  <2>4. CASE Commit(s)
    BY <1>3, <2>2, <2>4, RowsStay
  <2>5. CASE EndRequest(s)
    <3>1. pc[s] = "replayed" /\ HasRows(ledger, call[s])
      BY <1>3, <2>2, <2>5 DEF EndRequest, PendingChange, Finished
    <3>. QED
      BY <2>2, <2>5, <3>1 DEF EndRequest
  <2>. QED
    BY <2>1, <2>3, <2>4, <2>5
<1>4. TypeInv /\ PendingChange /\ [Next]_vars
      => [\A o \in carried' \ carried :
            \/ HasRows(ledger', o)
            \/ \E s \in Sessions : pc[s] = "ensure" /\ call[s] = o]_vars
  BY <1>3
<1>. QED
  BY <1>1, <1>2, <1>4, PTL DEF Spec, RidersWithMoney
=============================================================================
