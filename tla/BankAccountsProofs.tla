-------------------------- MODULE BankAccountsProofs --------------------------
(***************************************************************************)
(* What a user's payout accounts keep for any number of requests, numbers  *)
(* and accounts.                                                           *)
(*                                                                         *)
(* The unique indexes keep one default and no account twice, however many  *)
(* workers there are (TypeCorrect).  The rest is true with one worker,     *)
(* since a handler that is past its last await then runs alone: what it    *)
(* has read of the accounts is still so when it writes (Reads).            *)
(***************************************************************************)
EXTENDS BankAccounts, FiniteSetTheorems, TLAPS

Labels == { "idle", "await", "insert", "insert_only", "insert_default",
            "default", "write", "check", "deactivate", "pay" }

Idle == { "idle", "await" }

(* A request for an account names one that is saved; one that adds an       *)
(* account names none, and has loaded none.                                 *)
Names(label, c) ==
  /\ label \in { "default", "write", "check", "deactivate", "pay" } => c.id \in 1 .. saved
  /\ label \in { "await", "insert", "insert_only", "insert_default" } =>
       c.number \in Numbers /\ c.id = 0 /\ ~c.was

TypeInv == TypeOK /\ \A s \in Sessions : Names(pc[s], call[s])

Reads(s) ==
  /\ pc[s] \in { "default", "write", "check", "deactivate", "pay" } => call[s].id \in active
  /\ pc[s] \in { "default", "write", "check", "deactivate" } =>
       (call[s].was <=> call[s].id \in default)
  /\ pc[s] = "deactivate" => call[s].id \notin pending
  /\ pc[s] \in { "write", "insert_default" } => call[s].current \in Current(s)
  /\ pc[s] = "insert_only" => ActiveDefault # {}

OneWorker ==
  /\ pending \cup default \subseteq active
  /\ \A s, t \in Sessions : pc[s] \notin Idle /\ pc[t] \notin Idle => s = t
  /\ \A s \in Sessions : Reads(s)

IInv == TypeInv /\ (workers = "one" => OneWorker)

------------------------------------------------------------------------------
(* What the index ux_bank_account_one_default counts. *)
LEMMA AtMostOne ==
  ASSUME NEW D, \A i, j \in D : i = j
  PROVE  OneDefault(D)
<1>1. CASE D = {}
  BY <1>1, FS_EmptySet DEF OneDefault
<1>2. CASE D # {}
  <2>1. PICK i \in D : D = { i }
    BY <1>2
  <2>2. Cardinality({ i }) = 1
    BY FS_Singleton
  <2>. QED
    BY <2>1, <2>2 DEF OneDefault
<1>. QED
  BY <1>1, <1>2

LEMMA OneDefaultMeans ==
  ASSUME NEW D, D \subseteq Ids
  PROVE  OneDefault(D) <=> \A i, j \in D : i = j
<1>1. IsFiniteSet(D) /\ Cardinality(D) \in Nat
  <2>1. IsFiniteSet(Ids)
    BY BankAccountsAssumption, FS_Interval DEF Ids
  <2>. QED
    BY <2>1, FS_Subset, FS_CardinalityType
<1>2. ASSUME Cardinality(D) <= 1, NEW i \in D, NEW j \in D, i # j
      PROVE  FALSE
  <2>1. IsFiniteSet({ i }) /\ Cardinality({ i }) = 1
    BY FS_Singleton
  <2>2. Cardinality({ i } \cup { j }) = 2
    <3>1. Cardinality({ i } \cup { j }) = Cardinality({ i }) + 1
      BY <1>2, <2>1, FS_AddElement
    <3>. QED
      BY <2>1, <3>1
  <2>3. Cardinality({ i } \cup { j }) <= Cardinality(D)
    <3>1. { i } \cup { j } \subseteq D
      OBVIOUS
    <3>. QED
      BY <1>1, <3>1, FS_Subset
  <2>. QED
    BY <1>1, <1>2, <2>2, <2>3
<1>. QED
  BY <1>2, AtMostOne DEF OneDefault

LEMMA OneActiveDefault ==
  ASSUME TypeOK
  PROVE  /\ saved \in Nat /\ 1 .. saved \subseteq Ids
         /\ ActiveDefault \subseteq Ids
         /\ \A i, j \in ActiveDefault : i = j
<1>1. saved \in Nat /\ 1 .. saved \subseteq Ids
  BY BankAccountsAssumption DEF TypeOK, Ids
<1>2. ActiveDefault \subseteq Ids
  BY <1>1 DEF TypeOK, ActiveDefault
<1>3. OneDefault(ActiveDefault)
  BY DEF TypeOK, OneDefault
<1>. QED
  BY <1>1, <1>2, <1>3, OneDefaultMeans

LEMMA NoCallTyped == NoCall \in Call
BY BankAccountsAssumption DEF NoCall, Call

LEMMA InitIInv == Init => IInv
<1>. SUFFICES ASSUME Init PROVE IInv
  OBVIOUS
<1>1. TypeOK
  <2>1. Cardinality(ActiveDefault) <= 1
    BY FS_EmptySet DEF Init, ActiveDefault
  <2>. QED
    BY <2>1, NoCallTyped, BankAccountsAssumption DEF Init, TypeOK
<1>2. \A s \in Sessions : Names(pc[s], call[s]) /\ Reads(s)
  BY DEF Init, Names, Reads
<1>. QED
  BY <1>1, <1>2 DEF Init, IInv, TypeInv, OneWorker, Idle

------------------------------------------------------------------------------
(* A step that only moves a request along. *)
LEMMA GotoTyped ==
  ASSUME TypeInv, NEW s \in Sessions, NEW label \in Labels, NEW c \in Call,
         Goto(s, label, c), Names(label, c), UNCHANGED <<workers, rows>>,
         pending' \subseteq 1 .. saved
  PROVE  TypeInv'
<1>1. /\ pc' \in [Sessions -> Labels] /\ call' \in [Sessions -> Call]
      /\ pc'[s] = label /\ call'[s] = c
      /\ \A t \in Sessions \ { s } : pc'[t] = pc[t] /\ call'[t] = call[t]
  BY DEF TypeInv, TypeOK, Goto, Labels
<1>2. TypeOK'
  BY <1>1 DEF TypeInv, TypeOK, rows, ActiveDefault, Labels
<1>3. \A t \in Sessions : Names(pc'[t], call'[t])
  BY <1>1 DEF TypeInv
<1>. QED
  BY <1>2, <1>3 DEF TypeInv, Names, rows

(* A new row, whatever becomes of the defaults. *)
LEMMA InsertTyped ==
  ASSUME TypeInv, NEW s \in Sessions, pc[s] \in { "insert_only", "insert_default" },
         ~Taken(s), Insert(s), Finish(s), UNCHANGED <<workers, pending>>,
         default' \subseteq 1 .. saved', \A i, j \in active' \cap default' : i = j
  PROVE  TypeInv'
<1>. TypeOK
  BY DEF TypeInv
<1>1. /\ pc' \in [Sessions -> Labels] /\ call' \in [Sessions -> Call]
      /\ pc'[s] = "idle"
      /\ \A t \in Sessions \ { s } : pc'[t] = pc[t] /\ call'[t] = call[t]
  BY NoCallTyped DEF TypeOK, Finish, Goto, Labels
<1>2. /\ saved \in Nat /\ saved' = saved + 1 /\ saved' \in 0 .. MaxAccounts
      /\ 1 .. saved \subseteq 1 .. saved' /\ saved' \in 1 .. saved' /\ saved' \notin 1 .. saved
      /\ 1 .. saved' \subseteq Ids
  BY BankAccountsAssumption DEF TypeOK, Insert, Ids
<1>3. call[s].number \in Numbers
  BY DEF TypeInv, Names
<1>4. /\ number' \in [Ids -> Numbers \cup { "none" }] /\ coded' \subseteq Numbers
      /\ number'[saved'] = call[s].number
      /\ \A i \in 1 .. saved : number'[i] = number[i]
  BY <1>2, <1>3 DEF TypeOK, Insert
<1>5. active' = active \cup { saved' } /\ active \subseteq 1 .. saved
  BY <1>2 DEF TypeOK, Insert
<1>6. \A i, j \in active' : number'[i] = number'[j] => i = j
  <2>1. \A i \in active : number[i] # call[s].number
    BY DEF Taken
  <2>. QED
    BY <1>4, <1>5, <2>1 DEF TypeOK
<1>7. OneDefault(active' \cap default')
  <2>1. active' \cap default' \subseteq Ids
    BY <1>2
  <2>. QED
    BY <2>1, OneDefaultMeans
<1>8. TypeOK'
  BY <1>1, <1>2, <1>4, <1>5, <1>6, <1>7 DEF TypeOK, OneDefault, ActiveDefault, Labels
<1>9. \A t \in Sessions : Names(pc[t], call[t])'
  <2>1. Names(pc[s], call[s])'
    BY <1>1 DEF Names
  <2>2. ASSUME NEW t \in Sessions \ { s } PROVE Names(pc[t], call[t])'
    BY <1>1, <1>2 DEF TypeInv, Names
  <2>. QED
    BY <2>1, <2>2
<1>. QED
  BY <1>8, <1>9 DEF TypeInv

(* No new row, no account brought back. *)
LEMMA FlagsTyped ==
  ASSUME TypeInv, NEW s \in Sessions, Finish(s),
         UNCHANGED <<workers, saved, number, coded, pending>>,
         active' \subseteq active, default' \subseteq 1 .. saved,
         \A i, j \in active' \cap default' : i = j
  PROVE  TypeInv'
<1>. TypeOK
  BY DEF TypeInv
<1>1. /\ pc' \in [Sessions -> Labels] /\ call' \in [Sessions -> Call]
      /\ pc'[s] = "idle"
      /\ \A t \in Sessions \ { s } : pc'[t] = pc[t] /\ call'[t] = call[t]
  BY NoCallTyped DEF TypeOK, Finish, Goto, Labels
<1>2. OneDefault(active' \cap default')
  <2>1. active' \cap default' \subseteq Ids
    BY OneActiveDefault
  <2>. QED
    BY <2>1, OneDefaultMeans
<1>3. TypeOK'
  BY <1>1, <1>2 DEF TypeOK, OneDefault, ActiveDefault, Labels
<1>4. \A t \in Sessions : Names(pc[t], call[t])'
  BY <1>1 DEF TypeInv, Names
<1>. QED
  BY <1>3, <1>4 DEF TypeInv

LEMMA FinishTyped ==
  ASSUME TypeInv, NEW s \in Sessions, Finish(s), UNCHANGED <<workers, rows>>,
         pending' \subseteq 1 .. saved
  PROVE  TypeInv'
<1>1. Names("idle", NoCall) /\ "idle" \in Labels
  BY DEF Names, Labels
<1>. QED
  BY <1>1, NoCallTyped, GotoTyped DEF Finish

LEMMA StepTyped ==
  ASSUME TypeInv, [Next]_vars
  PROVE  TypeInv'
<1>. TypeOK /\ pending \subseteq 1 .. saved /\ active \subseteq 1 .. saved
  BY DEF TypeInv, TypeOK
<1>0. ASSUME NEW i \in 1 .. saved PROVE i \in 0 .. MaxAccounts /\ i \in Nat
  BY OneActiveDefault, BankAccountsAssumption DEF Ids
<1>1. ASSUME NEW s \in Sessions, CheckDuplicate(s) PROVE TypeInv'
  <2>1. PICK n \in Numbers, wanted \in BOOLEAN :
          Begin(s, "await", [NoCall EXCEPT !.number = n, !.wanted = wanted])
    BY <1>1 DEF CheckDuplicate
  <2>. DEFINE c == [NoCall EXCEPT !.number = n, !.wanted = wanted]
  <2>2. c \in Call /\ Names("await", c) /\ "await" \in Labels
    <3>1. c.number = n /\ c.id = 0 /\ c.was = FALSE
      BY DEF NoCall
    <3>2. c \in Call
      BY NoCallTyped DEF Call
    <3>. QED
      BY <3>1, <3>2 DEF Names, Labels
  <2>3. Goto(s, "await", c)
    BY <2>1 DEF Begin
  <2>. HIDE DEF c
  <2>. QED
    BY <1>1, <2>2, <2>3, GotoTyped DEF CheckDuplicate
<1>2. ASSUME NEW s \in Sessions, NotResolved(s) \/ Conflict(s) PROVE TypeInv'
  BY <1>2, FinishTyped DEF NotResolved, Conflict
<1>3. ASSUME NEW s \in Sessions, CreateRecipient(s) PROVE TypeInv'
  <2>1. PICK usual \in BOOLEAN :
          Goto(s, IF Wanted(s) THEN "insert" ELSE "insert_only",
               [call[s] EXCEPT !.usual = usual])
    BY <1>3 DEF CreateRecipient
  <2>. DEFINE c == [call[s] EXCEPT !.usual = usual]
              label == IF Wanted(s) THEN "insert" ELSE "insert_only"
  <2>2. call[s] \in Call /\ Names("await", call[s])
    BY <1>3 DEF CreateRecipient, TypeInv, TypeOK
  <2>3. c \in Call /\ c.number = call[s].number /\ c.id = call[s].id /\ c.was = call[s].was
    BY <2>2 DEF Call
  <2>4. Names(label, c) /\ label \in Labels
    BY <2>2, <2>3 DEF Names, Labels
  <2>5. Goto(s, label, c)
    BY <2>1
  <2>. HIDE DEF c, label
  <2>. QED
    BY <1>3, <2>3, <2>4, <2>5, GotoTyped DEF CreateRecipient
<1>4. ASSUME NEW s \in Sessions, Add(s) PROVE TypeInv'
  <2>1. saved \in Nat /\ default' = default /\ active' = active \cup { saved + 1 }
        /\ saved' = saved + 1 /\ default \subseteq 1 .. saved
    BY <1>4 DEF Add, Insert, TypeOK
  <2>2. active' \cap default' = ActiveDefault /\ default' \subseteq 1 .. saved'
    BY <2>1 DEF ActiveDefault
  <2>3. \A i, j \in active' \cap default' : i = j
    BY <2>2, OneActiveDefault
  <2>. QED
    BY <1>4, <2>2, <2>3, InsertTyped DEF Add
<1>5. ASSUME NEW s \in Sessions,
             LookupForDefault(s) \/ LookupForRemoval(s) \/ ResolveBankAccount(s)
      PROVE  TypeInv'
  <2>1. ASSUME NEW i \in active, NEW was \in BOOLEAN
        PROVE  /\ [NoCall EXCEPT !.id = i, !.was = was] \in Call
               /\ [NoCall EXCEPT !.id = i, !.was = was].id = i
               /\ [NoCall EXCEPT !.id = i] \in Call
               /\ [NoCall EXCEPT !.id = i].id = i
    BY <1>0, NoCallTyped DEF NoCall, Call
  <2>2. PICK c \in Call, label \in { "default", "check", "pay" } :
          Goto(s, label, c) /\ c.id \in active
    <3>1. CASE ResolveBankAccount(s)
      BY <2>1, <3>1 DEF ResolveBankAccount, Begin
    <3>2. CASE LookupForDefault(s) \/ LookupForRemoval(s)
      <4>1. PICK i \in active, label \in { "default", "check" } :
              Goto(s, label, [NoCall EXCEPT !.id = i, !.was = i \in default])
        BY <3>2 DEF LookupForDefault, LookupForRemoval, Begin
      <4>2. (i \in default) \in BOOLEAN
        OBVIOUS
      <4>. QED
        BY <2>1, <4>1, <4>2
    <3>. QED
      BY <1>5, <3>1, <3>2
  <2>3. Names(label, c) /\ label \in Labels
    BY <2>2 DEF Names, Labels
  <2>4. UNCHANGED <<workers, rows, pending>>
    BY <1>5 DEF LookupForDefault, LookupForRemoval, ResolveBankAccount
  <2>. QED
    BY <2>2, <2>3, <2>4, GotoTyped
<1>6. ASSUME NEW s \in Sessions, ReadDefault(s) PROVE TypeInv'
  <2>1. PICK i \in Current(s) :
          Goto(s, IF pc[s] = "default" THEN "write" ELSE "insert_default",
               [call[s] EXCEPT !.current = i])
    BY <1>6 DEF ReadDefault
  <2>. DEFINE c == [call[s] EXCEPT !.current = i]
              label == IF pc[s] = "default" THEN "write" ELSE "insert_default"
  <2>2. call[s] \in Call /\ Names(pc[s], call[s]) /\ pc[s] \in { "default", "insert" }
    BY <1>6 DEF ReadDefault, TypeInv, TypeOK
  <2>3. i \in 0 .. MaxAccounts
    BY <1>0, BankAccountsAssumption DEF Current, ActiveDefault
  <2>4. c \in Call /\ c.number = call[s].number /\ c.id = call[s].id /\ c.was = call[s].was
    BY <2>2, <2>3 DEF Call
  <2>5. Names(label, c) /\ label \in Labels
    BY <2>2, <2>4 DEF Names, Labels
  <2>6. Goto(s, label, c)
    BY <2>1
  <2>. HIDE DEF c, label
  <2>. QED
    BY <1>6, <2>4, <2>5, <2>6, GotoTyped DEF ReadDefault
<1>7. ASSUME NEW s \in Sessions, SetDefault(s) PROVE TypeInv'
  <2>1. call[s].id \in 1 .. saved
    BY <1>7 DEF SetDefault, TypeInv, Names
  <2>2. default' \subseteq 1 .. saved /\ active' = active
    BY <1>7, <2>1 DEF SetDefault, Flags, TypeOK
  <2>3. OneDefault(active' \cap default') /\ active' \cap default' \subseteq Ids
    <3>1. active' \cap default' = Flags(s, call[s].id) \cap active
      BY <1>7 DEF SetDefault
    <3>. QED
      BY <1>7, <2>2, <3>1, OneActiveDefault DEF SetDefault
  <2>4. \A i, j \in active' \cap default' : i = j
    BY <2>3, OneDefaultMeans
  <2>. QED
    BY <1>7, <2>2, <2>4, FlagsTyped DEF SetDefault
<1>8. ASSUME NEW s \in Sessions, AddDefault(s) PROVE TypeInv'
  <2>1. /\ saved \in Nat /\ saved' = saved + 1 /\ saved + 1 <= MaxAccounts
        /\ default' = Flags(s, saved + 1) /\ default \subseteq 1 .. saved
    BY <1>8, BankAccountsAssumption DEF AddDefault, Insert, TypeOK
  <2>2. default' \subseteq 1 .. saved' /\ 1 .. saved' \subseteq Ids
    <3>1. 1 .. saved \subseteq 1 .. saved' /\ saved + 1 \in 1 .. saved' /\ 1 .. saved' \subseteq Ids
      BY <2>1, BankAccountsAssumption DEF Ids
    <3>2. Flags(s, saved + 1) \subseteq default \cup { saved + 1 }
      BY DEF Flags
    <3>. QED
      BY <2>1, <3>1, <3>2
  <2>3. OneDefault(active' \cap default') /\ active' \cap default' \subseteq Ids
    <3>1. active' \cap default' = Flags(s, saved + 1) \cap active'
      BY <2>1
    <3>. QED
      BY <1>8, <2>2, <3>1 DEF AddDefault
  <2>4. \A i, j \in active' \cap default' : i = j
    BY <2>3, OneDefaultMeans
  <2>. QED
    BY <1>8, <2>2, <2>4, InsertTyped DEF AddDefault
<1>9. ASSUME NEW s \in Sessions, CheckPending(s) PROVE TypeInv'
  <2>1. CASE Finish(s)
    BY <1>9, <2>1, FinishTyped DEF CheckPending
  <2>2. CASE Goto(s, "deactivate", call[s])
    <3>1. call[s] \in Call /\ Names("deactivate", call[s]) /\ "deactivate" \in Labels
      BY <1>9 DEF CheckPending, TypeInv, TypeOK, Names, Labels
    <3>. QED
      BY <1>9, <2>2, <3>1, GotoTyped DEF CheckPending
  <2>. QED
    BY <1>9, <2>1, <2>2 DEF CheckPending
<1>10. ASSUME NEW s \in Sessions, Deactivate(s) PROVE TypeInv'
  <2>1. /\ active' \subseteq active /\ default' \subseteq default
        /\ default \subseteq 1 .. saved
    BY <1>10 DEF Deactivate, TypeOK
  <2>2. \A i, j \in active' \cap default' : i = j
    BY <2>1, OneActiveDefault DEF ActiveDefault
  <2>. QED
    BY <1>10, <2>1, <2>2, FlagsTyped DEF Deactivate
<1>11. ASSUME NEW s \in Sessions, Withdraw(s) PROVE TypeInv'
  <2>1. call[s].id \in 1 .. saved
    BY <1>11 DEF Withdraw, TypeInv, Names
  <2>. QED
    BY <1>11, <2>1, FinishTyped DEF Withdraw
<1>12. CASE Settle \/ UNCHANGED vars
  <2>1. UNCHANGED <<workers, rows, pc, call>> /\ pending' \subseteq 1 .. saved
    BY <1>12 DEF Settle, vars, rows
  <2>2. TypeOK'
    BY <2>1 DEF TypeOK, rows, ActiveDefault
  <2>. QED
    BY <2>1, <2>2 DEF TypeInv, Names, rows
<1>. QED
  BY <1>1, <1>2, <1>3, <1>4, <1>5, <1>6, <1>7, <1>8, <1>9, <1>10, <1>11, <1>12 DEF Next

------------------------------------------------------------------------------
(* One worker: whoever runs is the only one past its last await, and stays  *)
(* the only one.                                                            *)
LEMMA RunsAlone ==
  ASSUME TypeInv, NEW s \in Sessions, Runs(s), workers = "one",
         NEW label \in Labels, NEW c, Goto(s, label, c),
         (pending \cup default \subseteq active)', label \in Idle \/ Reads(s)'
  PROVE  OneWorker'
<1>1. /\ pc' \in [Sessions -> Labels] /\ pc'[s] = label
      /\ \A t \in Sessions \ { s } : pc'[t] \in Idle
  BY DEF TypeInv, TypeOK, Runs, Goto, Labels, Idle
<1>2. ASSUME NEW t \in Sessions, pc'[t] \in Idle PROVE Reads(t)'
  BY <1>2 DEF Idle, Reads
<1>. QED
  BY <1>1, <1>2 DEF OneWorker

LEMMA FinishesAlone ==
  ASSUME TypeInv, NEW s \in Sessions, Runs(s), workers = "one", Finish(s),
         (pending \cup default \subseteq active)'
  PROVE  OneWorker'
BY RunsAlone DEF Finish, Labels, Idle

(* With no default but the one given, or with the old one cleared, the index *)
(* has nothing to refuse.                                                   *)
LEMMA FlagsLeaveOne ==
  ASSUME TypeInv, OneWorker, NEW s \in Sessions, call[s].current \in Current(s), NEW i,
         call[s].id = i \/ (call[s].id = 0 /\ i \in Nat /\ i > saved)
  PROVE  \A j, k \in Flags(s, i) : j = k
<1>. saved \in Nat /\ default \subseteq 1 .. saved
  BY DEF TypeInv, TypeOK
<1>1. ActiveDefault = default /\ \A j, k \in default : j = k
  BY OneActiveDefault DEF TypeInv, OneWorker, ActiveDefault
<1>2. CASE default \subseteq { call[s].id }
  <2>1. default \subseteq { i }
    BY <1>2
  <2>. QED
    BY <2>1 DEF Flags
<1>3. CASE ~(default \subseteq { call[s].id })
  <2>1. call[s].current \in default
    BY <1>1, <1>3 DEF Current
  <2>2. default \ { call[s].current } = {}
    BY <1>1, <2>1
  <2>. QED
    BY <2>2 DEF Flags
<1>. QED
  BY <1>2, <1>3

LEMMA ChoosingIsNotRefused ==
  ASSUME TypeInv, workers = "one" => OneWorker
  PROVE  ChoosingSucceeds
<1>. SUFFICES ASSUME NEW s \in Sessions, workers = "one",
                     pc[s] \in { "write", "insert_default" }, ~Taken(s)
              PROVE  ~Refused(s)
  BY DEF ChoosingSucceeds
<1>. /\ OneWorker /\ Reads(s) /\ TypeOK /\ Names(pc[s], call[s])
     /\ saved \in Nat /\ default \subseteq 1 .. saved
  BY DEF TypeInv, TypeOK, OneWorker
<1>1. CASE pc[s] = "write"
  <2>1. Flags(s, call[s].id) \cap active \subseteq Ids
    BY OneActiveDefault DEF TypeOK
  <2>2. \A j, k \in Flags(s, call[s].id) \cap active : j = k
    BY <1>1, FlagsLeaveOne DEF Reads
  <2>. QED
    BY <1>1, <2>1, <2>2, OneDefaultMeans DEF Refused
<1>2. CASE pc[s] = "insert_default"
  <2>1. \A j, k \in Flags(s, saved + 1) : j = k
    BY <1>2, FlagsLeaveOne DEF Reads, Names
  <2>2. OneDefault(Flags(s, saved + 1) \cap (active \cup { saved + 1 }))
    BY <2>1, AtMostOne
  <2>. QED
    BY <1>2, <2>2 DEF Refused
<1>. QED
  BY <1>1, <1>2

LEMMA StepOneWorker ==
  ASSUME TypeInv, workers = "one", OneWorker, [Next]_vars
  PROVE  OneWorker'
<1>. /\ pending \cup default \subseteq active
     /\ saved \in Nat /\ active \subseteq 1 .. saved /\ default \subseteq 1 .. saved
     /\ pc \in [Sessions -> Labels] /\ call \in [Sessions -> Call]
  BY DEF TypeInv, TypeOK, OneWorker, Labels
<1>. \A s \in Sessions : Reads(s) /\ Names(pc[s], call[s])
  BY DEF TypeInv, OneWorker
<1>. USE DEF rows
<1>1. ASSUME NEW s \in Sessions, CheckDuplicate(s) \/ CreateRecipient(s)
      PROVE  OneWorker'
  <2>1. UNCHANGED <<workers, rows, pending>> /\ Runs(s)
    BY <1>1 DEF CheckDuplicate, CreateRecipient
  <2>2. PICK label \in { "await", "insert", "insert_only" } :
          /\ \E c : Goto(s, label, c)
          /\ label = "insert_only" => ActiveDefault # {}
    <3>1. CASE CheckDuplicate(s)
      <4>1. \E c : Goto(s, "await", c)
        BY <3>1 DEF CheckDuplicate, Begin
      <4>. QED
        BY <4>1
    <3>2. CASE CreateRecipient(s)
      <4>1. \E c : Goto(s, IF Wanted(s) THEN "insert" ELSE "insert_only", c)
        BY <3>2 DEF CreateRecipient
      <4>2. ~Wanted(s) => ActiveDefault # {}
        BY DEF Wanted
      <4>. QED
        BY <4>1, <4>2
    <3>. QED
      BY <1>1, <3>1, <3>2
  <2>3. pc'[s] = label
    BY <2>2 DEF Goto
  <2>4. Reads(s)'
    BY <2>1, <2>2, <2>3 DEF Reads, ActiveDefault
  <2>. QED
    BY <2>1, <2>2, <2>4, RunsAlone DEF Labels
<1>2. ASSUME NEW s \in Sessions, NotResolved(s) \/ Conflict(s) PROVE OneWorker'
  BY <1>2, FinishesAlone DEF NotResolved, Conflict
<1>3. ASSUME NEW s \in Sessions, Add(s) \/ AddDefault(s) PROVE OneWorker'
  <2>1. /\ Runs(s) /\ Finish(s) /\ pending' = pending
        /\ active' = active \cup { saved + 1 } /\ default' \subseteq default \cup { saved + 1 }
    BY <1>3 DEF Add, AddDefault, Insert, Flags
  <2>. QED
    BY <2>1, FinishesAlone
<1>4. ASSUME NEW s \in Sessions, LookupForDefault(s) \/ LookupForRemoval(s)
      PROVE  OneWorker'
  <2>1. PICK i \in active, label \in { "default", "check" } :
          Goto(s, label, [NoCall EXCEPT !.id = i, !.was = i \in default])
    BY <1>4 DEF LookupForDefault, LookupForRemoval, Begin
  <2>2. UNCHANGED <<workers, rows, pending>> /\ Runs(s)
    BY <1>4 DEF LookupForDefault, LookupForRemoval
  <2>3. pc'[s] = label /\ call'[s] = [NoCall EXCEPT !.id = i, !.was = i \in default]
    BY <2>1 DEF Goto
  <2>4. call'[s].id = i /\ (call'[s].was <=> i \in default)
    BY <2>3 DEF NoCall
  <2>5. Reads(s)'
    BY <2>2, <2>3, <2>4 DEF Reads
  <2>. QED
    BY <2>1, <2>2, <2>5, RunsAlone DEF Labels
<1>5. ASSUME NEW s \in Sessions, ResolveBankAccount(s) PROVE OneWorker'
  <2>1. PICK i \in active : Goto(s, "pay", [NoCall EXCEPT !.id = i])
    BY <1>5 DEF ResolveBankAccount, Begin
  <2>2. UNCHANGED <<workers, rows, pending>> /\ Runs(s)
    BY <1>5 DEF ResolveBankAccount
  <2>3. pc'[s] = "pay" /\ call'[s].id = i
    BY <2>1 DEF Goto, NoCall
  <2>4. Reads(s)'
    BY <2>2, <2>3 DEF Reads
  <2>. QED
    BY <2>1, <2>2, <2>4, RunsAlone DEF Labels
<1>6. ASSUME NEW s \in Sessions, ReadDefault(s) PROVE OneWorker'
  <2>1. PICK i \in Current(s) :
          Goto(s, IF pc[s] = "default" THEN "write" ELSE "insert_default",
               [call[s] EXCEPT !.current = i])
    BY <1>6 DEF ReadDefault
  <2>2. /\ UNCHANGED <<workers, rows, pending>> /\ Runs(s)
        /\ pc[s] \in { "default", "insert" }
    BY <1>6 DEF ReadDefault
  <2>3. /\ pc'[s] = IF pc[s] = "default" THEN "write" ELSE "insert_default"
        /\ call'[s].current = i /\ call'[s].id = call[s].id /\ call'[s].was = call[s].was
    <3>1. call[s] \in Call
      OBVIOUS
    <3>. QED
      BY <2>1, <3>1 DEF Goto, Call
  <2>4. Current(s)' = Current(s)
    BY <2>2, <2>3 DEF Current, ActiveDefault
  <2>5. Reads(s)'
    BY <2>2, <2>3, <2>4 DEF Reads
  <2>. QED
    BY <2>1, <2>2, <2>5, RunsAlone DEF Labels
<1>7. ASSUME NEW s \in Sessions, SetDefault(s) PROVE OneWorker'
  <2>1. /\ Runs(s) /\ Finish(s) /\ pending' = pending /\ active' = active
        /\ default' \subseteq default \cup { call[s].id } /\ call[s].id \in active
    BY <1>7 DEF SetDefault, Flags, Reads
  <2>. QED
    BY <2>1, FinishesAlone
<1>8. ASSUME NEW s \in Sessions, CheckPending(s) PROVE OneWorker'
  <2>1. UNCHANGED <<workers, rows, pending>> /\ Runs(s) /\ pc[s] = "check"
    BY <1>8 DEF CheckPending
  <2>2. CASE Finish(s)
    BY <2>1, <2>2, FinishesAlone
  <2>3. CASE Goto(s, "deactivate", call[s]) /\ call[s].id \notin pending
    <3>1. pc'[s] = "deactivate" /\ call'[s] = call[s]
      BY <2>3 DEF Goto
    <3>2. Reads(s)'
      BY <2>1, <2>3, <3>1 DEF Reads
    <3>. QED
      BY <2>1, <2>3, <3>2, RunsAlone DEF Labels
  <2>. QED
    BY <1>8, <2>2, <2>3 DEF CheckPending, HasPendingWithdrawal
<1>9. ASSUME NEW s \in Sessions, Deactivate(s) PROVE OneWorker'
  <2>1. /\ Runs(s) /\ Finish(s) /\ pending' = pending /\ active' = active \ { call[s].id }
        /\ default' = default \ { call[s].id } /\ call[s].id \notin pending
    BY <1>9 DEF Deactivate, Reads
  <2>. QED
    BY <2>1, FinishesAlone
<1>10. ASSUME NEW s \in Sessions, Withdraw(s) PROVE OneWorker'
  <2>1. /\ Runs(s) /\ Finish(s) /\ active' = active /\ default' = default
        /\ pending' \subseteq pending \cup { call[s].id } /\ call[s].id \in active
    BY <1>10 DEF Withdraw, Reads
  <2>. QED
    BY <2>1, FinishesAlone
<1>11. CASE Settle \/ UNCHANGED vars
  <2>1. UNCHANGED <<workers, rows, pc, call>> /\ pending' \subseteq pending
    BY <1>11 DEF Settle, vars
  <2>2. \A s \in Sessions : Reads(s)'
    BY <2>1 DEF Reads, Current, ActiveDefault
  <2>. QED
    BY <2>1, <2>2 DEF OneWorker
<1>. QED
  BY <1>1, <1>2, <1>3, <1>4, <1>5, <1>6, <1>7, <1>8, <1>9, <1>10, <1>11 DEF Next

LEMMA AlwaysIInv == Spec => []IInv
<1>1. IInv /\ [Next]_vars => IInv'
  <2>. SUFFICES ASSUME IInv, [Next]_vars PROVE IInv'
    OBVIOUS
  <2>1. workers' = workers
    BY DEF Next, CheckDuplicate, NotResolved, CreateRecipient, Add, LookupForDefault,
       ReadDefault, SetDefault, AddDefault, Conflict, LookupForRemoval, CheckPending,
       Deactivate, ResolveBankAccount, Withdraw, Settle, vars
  <2>. QED
    BY <2>1, StepTyped, StepOneWorker DEF IInv
<1>. QED
  BY InitIInv, <1>1, PTL DEF Spec

------------------------------------------------------------------------------
(***************************************************************************)
(* "A user cannot save the same account twice while it is active ... and   *)
(* can have at most one default account" (models/bank_account.py:28-37),   *)
(* with any number of requests and workers.                                *)
(***************************************************************************)
THEOREM TypeCorrect == Spec => []TypeOK
<1>1. IInv => TypeOK
  BY DEF IInv, TypeInv
<1>. QED
  BY AlwaysIInv, <1>1, PTL

(***************************************************************************)
(* With one worker a withdrawal in flight pins the account it pays to, and *)
(* no removed account is the default (bank_account_repository.py:122).     *)
(***************************************************************************)
THEOREM AccountsInUseAreActive == Spec => []InUseIsActive
<1>1. IInv => InUseIsActive
  BY DEF IInv, OneWorker, InUseIsActive
<1>. QED
  BY AlwaysIInv, <1>1, PTL

(***************************************************************************)
(* With one worker the choice of a default is never rejected by the index: *)
(* the old one has been cleared first (bank_account_repository.py:93-94).  *)
(***************************************************************************)
THEOREM ChoosingAlwaysSucceeds == Spec => []ChoosingSucceeds
<1>1. IInv => ChoosingSucceeds
  BY ChoosingIsNotRefused DEF IInv
<1>. QED
  BY AlwaysIInv, <1>1, PTL

(***************************************************************************)
(* With one worker a user who has just added an account has a default one  *)
(* (routers/bank_account.py:97).                                           *)
(***************************************************************************)
THEOREM AddingAlwaysLeavesDefault == Spec => AddingLeavesDefault
<1>1. IInv /\ [Next]_vars =>
        [workers = "one" /\ saved' # saved => active' \cap default' # {}]_vars
  <2>. SUFFICES ASSUME IInv, Next, workers = "one", saved' # saved
                PROVE  active' \cap default' # {}
    OBVIOUS
  <2>1. PICK s \in Sessions : Add(s) \/ AddDefault(s)
    BY DEF Next, CheckDuplicate, NotResolved, CreateRecipient, LookupForDefault, ReadDefault,
       SetDefault, Conflict, LookupForRemoval, CheckPending, Deactivate,
       ResolveBankAccount, Withdraw, Settle, rows
  <2>2. Reads(s) /\ Names(pc[s], call[s])
    BY DEF IInv, TypeInv, OneWorker
  <2>3. CASE Add(s)
    BY <2>2, <2>3 DEF Add, Insert, Reads, ActiveDefault
  <2>4. CASE AddDefault(s)
    <3>1. saved + 1 \in active' /\ saved + 1 \in default'
      BY <2>2, <2>4 DEF AddDefault, Insert, Flags, Names
    <3>. QED
      BY <3>1
  <2>. QED
    BY <2>1, <2>3, <2>4
<1>. QED
  BY AlwaysIInv, <1>1, PTL DEF Spec, AddingLeavesDefault
=============================================================================
