-------------------------- MODULE WalletRepository --------------------------
(***************************************************************************)
(* app/repository/wallet_repository.py: apply_entry and apply_transfer as  *)
(* run by concurrent database sessions (one per request, in one or several *)
(* worker processes), one action per database statement that another       *)
(* session can observe or be blocked by.                                   *)
(*                                                                         *)
(* Isolation is READ COMMITTED: a statement sees what is committed when it *)
(* runs, FOR UPDATE waits for the row lock and then reads the latest       *)
(* version.  Everything a session has not committed is private to it       *)
(* (view, flushed) and vanishes in a rollback or a crash.                  *)
(***************************************************************************)
EXTENDS LedgerEntries

CONSTANTS
  Sessions,   \* concurrent requests' SQLAlchemy sessions
  Nobody,     \* owner of a free row lock
  Riders,     \* operations whose caller flushes a change of its own first
  Requires,   \* <<o, p>>: the services call p only once o's rows exist
  FollowUps,  \* <<o, p>>: one request may call p while it keeps o's result
  InitiallyOpened \* the sets of users who may have a wallet row to begin with

ASSUME WalletRepositoryAssumption ==
  /\ Nobody \notin Sessions
  /\ Riders \subseteq Operations
  /\ Requires \subseteq Operations \X Operations
  /\ FollowUps \subseteq Operations \X Operations
  /\ InitiallyOpened \subseteq SUBSET Users

VARIABLES
  wallet,     \* committed wallet rows: [Users -> Balance]
  opened,     \* users who have a wallet row
  ledger,     \* committed transaction rows per wallet, in commit order
  carried,    \* operations whose caller's own change has been committed
  lock,       \* row lock on each wallet: a session or Nobody
  pc,         \* where each session is
  call,       \* the operation each session is running
  view,       \* the wallet instances each session read under lock
  flushed,    \* does the session hold an uncommitted change of its caller?
  kept        \* the wallet instance of an earlier result the request holds on to

vars == <<wallet, opened, ledger, carried, lock, pc, call, view, flushed, kept>>

------------------------------------------------------------------------------
NothingKept == [users |-> {}, balance |-> Empty]

NoCall == << >>

Zero == [u \in Users |-> Empty]

Running == { "lookup", "resolve", "ensure", "lock", "apply", "conflict" }
Finished == { "applied", "replayed", "refused", "raised" }

Init ==
  /\ wallet = Zero
  /\ opened \in InitiallyOpened
  /\ ledger = [u \in Users |-> << >>]
  /\ carried = {}
  /\ lock = [u \in Users |-> Nobody]
  /\ pc = [s \in Sessions |-> "idle"]
  /\ call = [s \in Sessions |-> NoCall]
  /\ view = [s \in Sessions |-> Zero]
  /\ flushed = [s \in Sessions |-> FALSE]
  /\ kept = [s \in Sessions |-> NothingKept]

Goto(s, label) == pc' = [pc EXCEPT ![s] = label]

(* Rows the session has locked, and those it must still lock. *)
Held(s) == { u \in Users : lock[u] = s }
ToLock(s) == UsersOf(call[s]) \ Held(s)

(* Mutant of NextToLock: the debit leg's wallet first, whatever its id. *)
NextToLockInLegOrder(s, u) ==
  /\ u \in ToLock(s)
  /\ LegOf[call[s][1]].user \in ToLock(s) => u = LegOf[call[s][1]].user

(* _lock_wallets: sorted(set(wallet_ids)), one statement each. *)
NextToLock(s, u) == u \in ToLock(s) /\ \A v \in ToLock(s) : u <= v

(* Mutant of Unlocked: the transaction is left open. *)
UnlockedNever(s) == lock

(* commit() and rollback() both give the session's row locks back. *)
Unlocked(s) == [u \in Users |-> IF lock[u] = s THEN Nobody ELSE lock[u]]

(* commit() makes the caller's flushed change durable, whatever it was. *)
Carry(s) ==
  /\ carried' = IF flushed[s] THEN carried \cup {call[s]} ELSE carried
  /\ flushed' = [flushed EXCEPT ![s] = FALSE]

Rollback(s) ==
  /\ lock' = Unlocked(s)
  /\ flushed' = [flushed EXCEPT ![s] = FALSE]
  /\ view' = [view EXCEPT ![s] = Zero]

------------------------------------------------------------------------------
(* A service calls apply_entry or apply_transfer, its own change flushed.   *)
(* A release or refund has checked that the escrow lock is in the ledger, a *)
(* reversal that the withdrawal is.                                         *)
Call(s, o) ==
  /\ pc[s] = "idle"
  /\ kept[s] # NothingKept => <<call[s], o>> \in FollowUps
  /\ \A p \in Operations : <<p, o>> \in Requires => HasRows(ledger, p)
  /\ call' = [call EXCEPT ![s] = o]
  /\ flushed' = [flushed EXCEPT ![s] = o \in Riders]
  /\ Goto(s, "lookup")
  /\ UNCHANGED <<wallet, opened, ledger, carried, lock, view, kept>>

(* get_entry_by_reference, or get_entries_by_group with two rows. *)
Lookup(s) ==
  /\ pc[s] = "lookup"
  /\ Goto(s, IF HasRows(ledger, call[s]) THEN "replayed" ELSE "resolve")
  /\ UNCHANGED <<wallet, opened, ledger, carried, lock, call, view, flushed, kept>>

(* _resolve_wallet_id for each leg: an unlocked read. *)
Resolve(s) ==
  /\ pc[s] = "resolve"
  /\ Goto(s, IF UsersOf(call[s]) \subseteq opened THEN "lock" ELSE "ensure")
  /\ UNCHANGED <<wallet, opened, ledger, carried, lock, call, view, flushed, kept>>

(* ensure_wallet: INSERT ... ON CONFLICT DO NOTHING, then COMMIT. *)
EnsureWallet(s) ==
  /\ pc[s] = "ensure"
  /\ \/ UsersOf(call[s]) \subseteq opened /\ UNCHANGED opened
     \/ \E u \in UsersOf(call[s]) \ opened : opened' = opened \cup {u}
  /\ Carry(s)
  /\ Goto(s, "resolve")
  /\ UNCHANGED <<wallet, ledger, lock, call, view, kept>>

(* Mutant of LockWallet: a plain SELECT, without FOR UPDATE. *)
ReadWallet(s, u) ==
  /\ pc[s] = "lock"
  /\ NextToLock(s, u)
  /\ lock' = [lock EXCEPT ![u] = s]
  /\ view' = [view EXCEPT ![s][u] = wallet[u]]
  /\ Goto(s, IF ToLock(s) = {u} THEN "apply" ELSE "lock")
  /\ UNCHANGED <<wallet, opened, ledger, carried, call, flushed, kept>>

(***************************************************************************)
(* _lock_wallet within _lock_wallets: the lowest wallet id still to lock.  *)
(* SELECT ... FOR UPDATE fills in a fresh instance, but an instance the    *)
(* request still refers to is returned with the attributes it has: there   *)
(* is no populate_existing().                                              *)
(***************************************************************************)
LockWallet(s, u) ==
  /\ pc[s] = "lock"
  /\ NextToLock(s, u)
  /\ lock[u] = Nobody
  /\ lock' = [lock EXCEPT ![u] = s]
  /\ view' = [view EXCEPT ![s][u] = IF u \in kept[s].users THEN kept[s].balance ELSE wallet[u]]
  /\ Goto(s, IF ToLock(s) = {u} THEN "apply" ELSE "lock")
  /\ UNCHANGED <<wallet, opened, ledger, carried, call, flushed, kept>>

------------------------------------------------------------------------------
(* Mutant of Refuse: raises without session.rollback(). *)
RefuseWithoutRollback(s) ==
  /\ pc[s] = "apply"
  /\ ~Allowed(view[s], call[s])
  /\ lock' = Unlocked(s)
  /\ view' = [view EXCEPT ![s] = Zero]
  /\ Goto(s, "refused")
  /\ UNCHANGED <<wallet, opened, ledger, carried, call, flushed, kept>>

(***************************************************************************)
(* _apply_ledger_entry for each leg, on the locked instances.  A refusal   *)
(* (amount, available, escrow) rolls back and raises.                      *)
(***************************************************************************)
Refuse(s) ==
  /\ pc[s] = "apply"
  /\ ~Allowed(view[s], call[s])
  /\ Rollback(s)
  /\ Goto(s, "refused")
  /\ UNCHANGED <<wallet, opened, ledger, carried, call, kept>>

(* The INSERT hits ux_transaction_reference: IntegrityError, rollback. *)
Conflict(s) ==
  /\ pc[s] = "apply"
  /\ Allowed(view[s], call[s])
  /\ ~HasNoRow(ledger, call[s])
  /\ Rollback(s)
  /\ Goto(s, "conflict")
  /\ UNCHANGED <<wallet, opened, ledger, carried, call, kept>>

(* ... then the rows are looked up again and replayed, or the error raised. *)
LookupAfterConflict(s) ==
  /\ pc[s] = "conflict"
  /\ Goto(s, IF HasRows(ledger, call[s]) THEN "replayed" ELSE "raised")
  /\ UNCHANGED <<wallet, opened, ledger, carried, lock, call, view, flushed, kept>>

(***************************************************************************)
(* The UPDATE sets only the columns whose value differs from the one the   *)
(* instance was loaded with.                                               *)
(***************************************************************************)
Written(s, u) ==
  LET before == view[s][u]
      after == After(view[s], call[s])[u] IN
  [available |-> IF after.available = before.available
                 THEN wallet[u].available ELSE after.available,
   escrow |-> IF after.escrow = before.escrow
              THEN wallet[u].escrow ELSE after.escrow]

(* Mutant of Commit: nothing makes the reference unique. *)
CommitAnyReference(s) ==
  /\ pc[s] = "apply"
  /\ Allowed(view[s], call[s])
  /\ wallet' = [u \in Users |-> IF u \in UsersOf(call[s]) THEN Written(s, u) ELSE wallet[u]]
  /\ ledger' = RecordedAll(ledger, view[s], call[s])
  /\ Carry(s)
  /\ lock' = Unlocked(s)
  /\ view' = [view EXCEPT ![s] = Zero]
  /\ kept' = [kept EXCEPT ![s] = NothingKept]
  /\ Goto(s, "applied")
  /\ UNCHANGED <<opened, call>>

(* flush and commit(): the rows, the balances and the caller's change. *)
Commit(s) ==
  /\ pc[s] = "apply"
  /\ Allowed(view[s], call[s])
  /\ HasNoRow(ledger, call[s])
  /\ wallet' = [u \in Users |-> IF u \in UsersOf(call[s]) THEN Written(s, u) ELSE wallet[u]]
  /\ ledger' = RecordedAll(ledger, view[s], call[s])
  /\ Carry(s)
  /\ lock' = Unlocked(s)
  /\ view' = [view EXCEPT ![s] = Zero]
  /\ kept' = [kept EXCEPT ![s] = NothingKept]
  /\ Goto(s, "applied")
  /\ UNCHANGED <<opened, call>>

------------------------------------------------------------------------------
(* The request ends: what it flushed and never committed is rolled back, or *)
(* a later commit of the same request (a notification, the idempotency key) *)
(* makes it durable.  An exception has rolled back already.                 *)
EndRequest(s) ==
  /\ pc[s] \in Finished \/ kept[s] # NothingKept
  /\ pc[s] \in Finished \cup { "idle" }
  /\ \/ Carry(s)
     \/ flushed' = [flushed EXCEPT ![s] = FALSE] /\ UNCHANGED carried
  /\ kept' = [kept EXCEPT ![s] = NothingKept]
  /\ call' = [call EXCEPT ![s] = NoCall]
  /\ Goto(s, "idle")
  /\ UNCHANGED <<wallet, opened, ledger, lock, view>>

(***************************************************************************)
(* The request goes on with the LedgerResult in a local variable: its      *)
(* wallet, as refresh() just read it, stays in the session's identity map, *)
(* unexpired until the session commits.                                    *)
(***************************************************************************)
KeepResult(s) ==
  /\ pc[s] = "applied"
  /\ Len(call[s]) = 1
  /\ \E p \in Operations : <<call[s], p>> \in FollowUps
  /\ kept' = [kept EXCEPT ![s] =
                [users |-> UsersOf(call[s]), balance |-> wallet[LegOf[call[s][1]].user]]]
  /\ Goto(s, "idle")
  /\ UNCHANGED <<wallet, opened, ledger, carried, lock, call, view, flushed>>

(* The process or its connection dies: the server rolls back. *)
Crash(s) ==
  /\ call[s] # NoCall
  /\ Rollback(s)
  /\ kept' = [kept EXCEPT ![s] = NothingKept]
  /\ call' = [call EXCEPT ![s] = NoCall]
  /\ Goto(s, "idle")
  /\ UNCHANGED <<wallet, opened, ledger, carried>>

Step(s) ==
  \/ Lookup(s) \/ Resolve(s) \/ EnsureWallet(s)
  \/ Refuse(s) \/ Conflict(s) \/ LookupAfterConflict(s) \/ Commit(s)
  \/ EndRequest(s)

Next ==
  \E s \in Sessions :
    \/ \E o \in Operations : Call(s, o)
    \/ \E u \in Users : LockWallet(s, u)
    \/ Step(s)
    \/ KeepResult(s)
    \/ Crash(s)

(***************************************************************************)
(* A handler runs on once called (WF), and a row lock is granted in the    *)
(* order it was asked for, so a waiting session gets it (SF).  Nobody is   *)
(* obliged to call, to keep a result or to crash.                          *)
(***************************************************************************)
Fairness ==
  \A s \in Sessions : WF_vars(Step(s)) /\ SF_vars(\E u \in Users : LockWallet(s, u))

Spec == Init /\ [][Next]_vars

FairSpec == Spec /\ Fairness

------------------------------------------------------------------------------
TypeOK ==
  /\ wallet \in [Users -> Balance]
  /\ opened \subseteq Users
  /\ ledger \in [Users -> Seq(Row)]
  /\ carried \subseteq Operations
  /\ lock \in [Users -> Sessions \cup { Nobody }]
  /\ pc \in [Sessions -> Running \cup Finished \cup { "idle" }]
  /\ call \in [Sessions -> Operations \cup { NoCall }]
  /\ view \in [Sessions -> [Users -> Balance]]
  /\ flushed \in [Sessions -> BOOLEAN]
  /\ kept \in [Sessions -> [users : SUBSET Users, balance : Balance]]

(***************************************************************************)
(* Every behaviour of the sessions is a behaviour of the abstract book:    *)
(* each commit is one indivisible, accounted-for movement, whatever the    *)
(* sessions interleave, roll back, replay or lose in a crash               *)
(* (wallet_repository.py:3-21).                                            *)
(***************************************************************************)
Book == INSTANCE LedgerBook WITH wallet <- wallet, ledger <- ledger

ImplementsLedgerBook == Book!Spec

(***************************************************************************)
(* In every state, settled or not, the committed balances are explained by *)
(* the committed rows, no event has two rows, and a transfer has both of   *)
(* its legs or neither.                                                    *)
(***************************************************************************)
LedgerKept == Sound(ledger, wallet) /\ Whole(ledger)

(***************************************************************************)
(* "Run this after any money operation; it must always return zero rows"   *)
(* (wallet_repository.py:15-21): each balance is the sum of the deltas of  *)
(* the wallet's rows.                                                      *)
(***************************************************************************)
BalancesMatchLedger == SumsUp(ledger, wallet)

(***************************************************************************)
(* "The change and the money commit together": a caller's own change (an   *)
(* agreement set to completed, a withdrawal's row) is only ever committed  *)
(* when the money of its operation has moved (wallet_repository.py:36-43,  *)
(* agreement_service.py:124-127), unless it is committed by the creation   *)
(* of a missing wallet in the middle of the call.                          *)
(***************************************************************************)
RidersWithMoney ==
  [][\A o \in carried' \ carried :
       \/ HasRows(ledger', o)
       \/ \E s \in Sessions : pc[s] = "ensure" /\ call[s] = o]_vars

(***************************************************************************)
(* Locking rule 2: taking wallet locks in ascending order keeps sessions   *)
(* from waiting for each other in a circle, so the database never has to   *)
(* break a deadlock.  A session waits for the lowest wallet still to lock. *)
(***************************************************************************)
WaitsFor(s, t) ==
  /\ pc[s] = "lock"
  /\ \E u \in Users : NextToLock(s, u) /\ lock[u] = t

NoWaitCycle ==
  \A S \in (SUBSET Sessions) \ {{}} : \E s \in S : \A t \in S : ~WaitsFor(s, t)

(***************************************************************************)
(* Every call returns or raises: nobody waits for a row lock for ever.     *)
(***************************************************************************)
CallsEnd ==
  \A s \in Sessions : pc[s] \in Running ~> pc[s] \notin Running
==============================================================================
