---------------------------- MODULE BankAccounts ----------------------------
(***************************************************************************)
(* One user's payout accounts and the withdrawals that pin them            *)
(* (app/service/bank_account_service.py, its repository, and the start of  *)
(* WalletService.request_withdrawal).                                      *)
(*                                                                         *)
(* Only add_bank_account awaits.  With one worker every other handler, and *)
(* what add does after its last await, runs in one go; with several they   *)
(* interleave between database statements.  Which it is, is chosen at the  *)
(* start.                                                                  *)
(***************************************************************************)
EXTENDS Naturals, FiniteSets

CONSTANTS
  Sessions,     \* concurrent requests
  Numbers,      \* bank code and account number
  MaxAccounts   \* bound: accounts saved

ASSUME BankAccountsAssumption == MaxAccounts \in Nat

VARIABLES
  workers,      \* "one" or "several"
  saved,        \* bank_account rows: 1 .. saved
  number,       \* what account a row is for
  coded,        \* numbers whose usual recipient_code some row has
  active,       \* rows with is_active
  default,      \* rows with is_default
  pending,      \* rows some pending paystack_transaction pays to
  pc,           \* what each session does next
  call          \* what it has been asked and has read

rows == <<saved, number, coded, active, default>>
vars == <<workers, saved, number, coded, active, default, pending, pc, call>>

Ids == 1 .. MaxAccounts

NoCall == [number |-> "none", id |-> 0, wanted |-> FALSE, was |-> FALSE,
           current |-> 0, usual |-> FALSE]

Init ==
  /\ workers \in { "one", "several" }
  /\ saved = 0
  /\ number = [i \in Ids |-> "none"]
  /\ coded = {}
  /\ active = {} /\ default = {} /\ pending = {}
  /\ pc = [s \in Sessions |-> "idle"]
  /\ call = [s \in Sessions |-> NoCall]

(* One event loop runs a handler on to its next await. *)
Runs(s) ==
  workers = "several" \/ \A t \in Sessions \ { s } : pc[t] \in { "idle", "await" }

Goto(s, label, c) == pc' = [pc EXCEPT ![s] = label] /\ call' = [call EXCEPT ![s] = c]
Finish(s) == Goto(s, "idle", NoCall)
Begin(s, label, c) == pc[s] = "idle" /\ Goto(s, label, c)

Active(i) == i \in active
ActiveDefault == active \cap default

------------------------------------------------------------------------------
(* add_bank_account *)

CheckDuplicate(s) ==
  /\ Runs(s)
  /\ \E n \in Numbers, wanted \in BOOLEAN :
       /\ \A i \in active : number[i] # n
       /\ Begin(s, "await", [NoCall EXCEPT !.number = n, !.wanted = wanted])
  /\ UNCHANGED <<workers, rows, pending>>

(* Paystack refuses the number, or times out: nothing has been written. *)
NotResolved(s) ==
  /\ pc[s] = "await" /\ Runs(s)
  /\ Finish(s)
  /\ UNCHANGED <<workers, rows, pending>>

(* Mutant of Wanted: the first account is not made the default. *)
WantedOnly(s) == call[s].wanted

(* "The first account a user adds is their default, whatever they asked for." *)
Wanted(s) == call[s].wanted \/ ActiveDefault = {}

(* The provider gives a number the code it has always given it, or a new    *)
(* one.                                                                     *)
CreateRecipient(s) ==
  /\ pc[s] = "await" /\ Runs(s)
  /\ \E usual \in BOOLEAN :
       Goto(s, IF Wanted(s) THEN "insert" ELSE "insert_only",
            [call[s] EXCEPT !.usual = usual])
  /\ UNCHANGED <<workers, rows, pending>>

(* ix_bank_account_recipient_code is over all rows, removed ones included;  *)
(* ux_bank_account_user_bank_acct over the active ones.                     *)
Taken(s) ==
  \/ call[s].usual /\ call[s].number \in coded
  \/ \E i \in active : number[i] = call[s].number

Insert(s) ==
  /\ saved < MaxAccounts
  /\ saved' = saved + 1
  /\ number' = [number EXCEPT ![saved + 1] = call[s].number]
  /\ coded' = coded \cup IF call[s].usual THEN { call[s].number } ELSE {}
  /\ active' = active \cup { saved + 1 }

Add(s) ==
  /\ pc[s] = "insert_only" /\ Runs(s)
  /\ ~Taken(s)
  /\ Insert(s)
  /\ Finish(s)
  /\ UNCHANGED <<workers, default, pending>>

------------------------------------------------------------------------------
(* set_default_bank_account, and the end of add_bank_account *)

LookupForDefault(s) ==
  /\ Runs(s)
  /\ \E i \in active :
       Begin(s, "default", [NoCall EXCEPT !.id = i, !.was = i \in default])
  /\ UNCHANGED <<workers, rows, pending>>

(* The row that has the flag now, if it is another one. *)
Current(s) == IF ActiveDefault \subseteq { call[s].id } THEN { 0 } ELSE ActiveDefault

(* Mutant of ReadDefault: the old default is not looked for. *)
ReadNoDefault(s) ==
  /\ pc[s] \in { "default", "insert" } /\ Runs(s)
  /\ Goto(s, IF pc[s] = "default" THEN "write" ELSE "insert_default", call[s])
  /\ UNCHANGED <<workers, rows, pending>>

ReadDefault(s) ==
  /\ pc[s] \in { "default", "insert" } /\ Runs(s)
  /\ \E i \in Current(s) :
       Goto(s, IF pc[s] = "default" THEN "write" ELSE "insert_default",
            [call[s] EXCEPT !.current = i])
  /\ UNCHANGED <<workers, rows, pending>>

(* Clearing the old flag and setting the new one; the ORM writes the new    *)
(* one only when the instance it has loaded does not have it.               *)
Flags(s, i) ==
  (default \ { call[s].current }) \cup IF call[s].was THEN {} ELSE { i }

(* Mutant of OneDefault: there is no index. *)
AnyDefaults(D) == TRUE

(* ux_bank_account_one_default *)
OneDefault(D) == Cardinality(D) <= 1

SetDefault(s) ==
  LET flags == Flags(s, call[s].id) IN
  /\ pc[s] = "write" /\ Runs(s)
  /\ OneDefault(flags \cap active)
  /\ default' = flags
  /\ Finish(s)
  /\ UNCHANGED <<workers, saved, number, coded, active, pending>>

AddDefault(s) ==
  LET flags == Flags(s, saved + 1) IN
  /\ pc[s] = "insert_default" /\ Runs(s)
  /\ ~Taken(s)
  /\ Insert(s)
  /\ OneDefault(flags \cap active')
  /\ default' = flags
  /\ Finish(s)
  /\ UNCHANGED <<workers, pending>>

(* What a unique index refuses is rolled back; the answer is an error. *)
Refused(s) ==
  \/ pc[s] \in { "insert_only", "insert_default" } /\ Taken(s)
  \/ /\ pc[s] = "insert_default"
     /\ ~OneDefault(Flags(s, saved + 1) \cap (active \cup { saved + 1 }))
  \/ pc[s] = "write" /\ ~OneDefault(Flags(s, call[s].id) \cap active)

Conflict(s) ==
  /\ Refused(s) /\ Runs(s)
  /\ Finish(s)
  /\ UNCHANGED <<workers, rows, pending>>

------------------------------------------------------------------------------
(* remove_bank_account *)

LookupForRemoval(s) ==
  /\ Runs(s)
  /\ \E i \in active :
       Begin(s, "check", [NoCall EXCEPT !.id = i, !.was = i \in default])
  /\ UNCHANGED <<workers, rows, pending>>

(* Mutant of HasPendingWithdrawal: only the default is pinned. *)
DefaultHasPendingWithdrawal(i) == i \in pending \cap default

HasPendingWithdrawal(i) == i \in pending

CheckPending(s) ==
  /\ pc[s] = "check" /\ Runs(s)
  /\ IF HasPendingWithdrawal(call[s].id) THEN Finish(s) ELSE Goto(s, "deactivate", call[s])
  /\ UNCHANGED <<workers, rows, pending>>

(* The ORM clears the flag only if the instance it has loaded has it. *)
Deactivate(s) ==
  /\ pc[s] = "deactivate" /\ Runs(s)
  /\ active' = active \ { call[s].id }
  /\ default' = default \ IF call[s].was THEN { call[s].id } ELSE {}
  /\ Finish(s)
  /\ UNCHANGED <<workers, saved, number, coded, pending>>

------------------------------------------------------------------------------
(* Withdrawals *)

(* _resolve_bank_account: the account named, or the default. *)
ResolveBankAccount(s) ==
  /\ Runs(s)
  /\ \E i \in active : Begin(s, "pay", [NoCall EXCEPT !.id = i])
  /\ UNCHANGED <<workers, rows, pending>>

(* The intent and the debit are committed together, or the debit refused. *)
Withdraw(s) ==
  /\ pc[s] = "pay" /\ Runs(s)
  /\ pending' \in { pending, pending \cup { call[s].id } }
  /\ Finish(s)
  /\ UNCHANGED <<workers, rows>>

(* The last withdrawal to the account leaves PENDING (Withdrawals). *)
Settle ==
  /\ \E i \in pending : pending' = pending \ { i }
  /\ UNCHANGED <<workers, rows, pc, call>>

Next ==
  \/ \E s \in Sessions :
       \/ CheckDuplicate(s) \/ NotResolved(s) \/ CreateRecipient(s) \/ Add(s)
       \/ LookupForDefault(s) \/ ReadDefault(s) \/ SetDefault(s) \/ AddDefault(s)
       \/ Conflict(s) \/ LookupForRemoval(s) \/ CheckPending(s) \/ Deactivate(s)
       \/ ResolveBankAccount(s) \/ Withdraw(s)
  \/ Settle

Spec == Init /\ [][Next]_vars

------------------------------------------------------------------------------
Call == [number : Numbers \cup { "none" }, id : 0 .. MaxAccounts, wanted : BOOLEAN,
         was : BOOLEAN, current : 0 .. MaxAccounts, usual : BOOLEAN]

(***************************************************************************)
(* Types, and what the unique indexes keep: "a user cannot save the same   *)
(* account twice while it is active ... and can have at most one default   *)
(* account" (models/bank_account.py:28-37).                                *)
(***************************************************************************)
TypeOK ==
  /\ workers \in { "one", "several" }
  /\ saved \in 0 .. MaxAccounts
  /\ number \in [Ids -> Numbers \cup { "none" }]
  /\ coded \subseteq Numbers
  /\ active \subseteq 1 .. saved /\ default \subseteq 1 .. saved
  /\ pending \subseteq 1 .. saved
  /\ pc \in [Sessions -> { "idle", "await", "insert", "insert_only", "insert_default",
                           "default", "write", "check", "deactivate", "pay" }]
  /\ call \in [Sessions -> Call]
  /\ Cardinality(ActiveDefault) <= 1
  /\ \A i, j \in active : number[i] = number[j] => i = j

(***************************************************************************)
(* "A payout in flight pins the account it is going to"                    *)
(* (bank_account_repository.py:122), and a removed account is nobody's     *)
(* default, whatever is added, chosen and removed meanwhile; with one      *)
(* worker.                                                                 *)
(***************************************************************************)
InUseIsActive == workers = "one" => pending \cup default \subseteq active

(***************************************************************************)
(* "ux_bank_account_one_default would reject the new default if the old    *)
(* one were still set" (bank_account_repository.py:93-94): with one worker *)
(* choosing a default is never rejected, though an account added while     *)
(* another addition waits for Paystack may have become the default.        *)
(***************************************************************************)
ChoosingSucceeds ==
  \A s \in Sessions :
    workers = "one" /\ pc[s] \in { "write", "insert_default" } /\ Refused(s) => Taken(s)

(***************************************************************************)
(* "The first account a user saves becomes their default"                  *)
(* (routers/bank_account.py:97): with one worker a user who has just added *)
(* an account has a default one, even if the old default has been removed  *)
(* while Paystack was asked.                                               *)
(***************************************************************************)
AddingLeavesDefault ==
  [][workers = "one" /\ saved' # saved => active' \cap default' # {}]_vars
=============================================================================
