--------------------------- MODULE LedgerEntriesProofs ---------------------------
(***************************************************************************)
(* Posting keeps a book sound, for every set of users, references and      *)
(* operations.  One lemma per part of soundness: a leg that is allowed and *)
(* whose reference is new preserves it.  An operation is one or two such   *)
(* legs.                                                                   *)
(***************************************************************************)
EXTENDS LedgerEntries, WellFoundedInduction, TLAPS

(* What the rest of the file needs to know of the effects table. *)
LEMMA DeltaType ==
  ASSUME NEW r \in References
  PROVE  /\ LegOf[r].user \in Users
         /\ LegOf[r].amount \in Nat
         /\ AvailableDelta(r) \in Int
         /\ EscrowDelta(r) \in Int
<1>1. LegOf[r] \in Leg
  BY LedgerEntriesAssumption
<1>2. AvailableSign(LegOf[r].type) \in Int /\ EscrowSign(LegOf[r].type) \in Int
  BY DEF AvailableSign, EscrowSign
<1>3. LegOf[r].user \in Users /\ LegOf[r].amount \in Nat
  BY <1>1 DEF Leg
<1>. QED
  BY <1>2, <1>3 DEF AvailableDelta, EscrowDelta

(* An allowed leg leaves a balance, and writes a row that records it. *)
LEMMA LegTyped ==
  ASSUME NEW w, NEW l, Typed(l, w), NEW r \in References,
         LegAllowed(w[LegOf[r].user], r)
  PROVE  /\ Typed(Recorded(l, w, r), AfterLeg(w, r))
         /\ Moved(w[LegOf[r].user], r) \in Balance
         /\ RowOf(w, r) \in Row
<1>. DEFINE u == LegOf[r].user
            b == Moved(w[u], r)
<1>1. u \in Users /\ w[u] \in Balance
  BY DeltaType DEF Typed
<1>2. b \in Balance
  BY <1>1, DeltaType DEF LegAllowed, Moved, Balance
<1>3. RowOf(w, r) \in Row
  BY <1>2, DeltaType DEF RowOf, Row, Balance
<1>4. AfterLeg(w, r) \in [Users -> Balance]
  BY <1>1, <1>2 DEF AfterLeg, Typed
<1>5. Recorded(l, w, r) \in [Users -> Seq(Row)]
  BY <1>1, <1>3 DEF Recorded, Typed
<1>. QED
  BY <1>2, <1>3, <1>4, <1>5 DEF Typed

(* What a leg's row is appended to, and what it leaves alone. *)
LEMMA LegRecorded ==
  ASSUME NEW w, NEW l, Typed(l, w), NEW r \in References,
         LegAllowed(w[LegOf[r].user], r)
  PROVE  LET u == LegOf[r].user
             m == Recorded(l, w, r)
             n == Len(l[u]) IN
         /\ u \in Users /\ n \in Nat
         /\ Len(m[u]) = n + 1
         /\ m[u][n + 1] = RowOf(w, r)
         /\ \A i \in 1 .. n : m[u][i] = l[u][i]
         /\ \A v \in Users \ {u} : m[v] = l[v]
         /\ \A v \in Users : DOMAIN m[v] = 1 .. Len(m[v]) /\ DOMAIN l[v] = 1 .. Len(l[v])
<1>. DEFINE u == LegOf[r].user
            m == Recorded(l, w, r)
            n == Len(l[u])
<1>1. u \in Users /\ l[u] \in Seq(Row) /\ RowOf(w, r) \in Row
  BY DeltaType, LegTyped DEF Typed
<1>2. m[u] = Append(l[u], RowOf(w, r)) /\ \A v \in Users \ {u} : m[v] = l[v]
  BY <1>1 DEF Recorded, Typed
<1>3. \A v \in Users : m[v] \in Seq(Row) /\ l[v] \in Seq(Row)
  BY LegTyped DEF Typed
<1>. QED
  BY <1>1, <1>2, <1>3

(* Every row of the longer ledger is an old row in its place, or the new one. *)
LEMMA LegRows ==
  ASSUME NEW w, NEW l, Typed(l, w), NEW r \in References,
         LegAllowed(w[LegOf[r].user], r),
         NEW v \in Users, NEW k \in DOMAIN Recorded(l, w, r)[v]
  PROVE  \/ k \in DOMAIN l[v] /\ Recorded(l, w, r)[v][k] = l[v][k]
         \/ v = LegOf[r].user /\ k = Len(l[v]) + 1 /\ Recorded(l, w, r)[v][k] = RowOf(w, r)
<1>. DEFINE u == LegOf[r].user
            m == Recorded(l, w, r)
            n == Len(l[u])
<1>1. /\ u \in Users /\ n \in Nat
      /\ Len(m[u]) = n + 1
      /\ m[u][n + 1] = RowOf(w, r)
      /\ \A i \in 1 .. n : m[u][i] = l[u][i]
      /\ \A x \in Users \ {u} : m[x] = l[x]
      /\ DOMAIN m[v] = 1 .. Len(m[v]) /\ DOMAIN l[v] = 1 .. Len(l[v])
  BY LegRecorded
<1>2. CASE v # u
  BY <1>1, <1>2
<1>3. CASE v = u
  <2>1. k \in 1 .. n + 1 /\ DOMAIN l[v] = 1 .. n
    BY <1>1, <1>3
  <2>2. k \in 1 .. n \/ k = n + 1
    BY <1>1, <2>1
  <2>. QED
    BY <1>1, <1>3, <2>1, <2>2
<1>. QED
  BY <1>2, <1>3

(* The chain of a wallet's rows is extended by the leg's row. *)
LEMMA LegAccounted ==
  ASSUME NEW w, NEW l, Typed(l, w), NEW r \in References,
         LegAllowed(w[LegOf[r].user], r), AccountsFor(l, w)
  PROVE  AccountsFor(Recorded(l, w, r), AfterLeg(w, r))
<1>. DEFINE u == LegOf[r].user
            m == Recorded(l, w, r)
            x == AfterLeg(w, r)
            n == Len(l[u])
<1>1. /\ u \in Users /\ n \in Nat
      /\ Len(m[u]) = n + 1
      /\ m[u][n + 1] = RowOf(w, r)
      /\ \A i \in 1 .. n : m[u][i] = l[u][i]
      /\ \A v \in Users \ {u} : m[v] = l[v]
  BY LegRecorded
<1>2. x[u] = Moved(w[u], r) /\ \A v \in Users \ {u} : x[v] = w[v]
  BY <1>1 DEF AfterLeg, Typed
<1>3. Chained(l[u]) /\ w[u] = LeftBy(l[u], n)
  BY <1>1 DEF AccountsFor
<1>4. \A i \in 0 .. n : LeftBy(m[u], i) = LeftBy(l[u], i)
  BY <1>1 DEF LeftBy
<1>5. Chained(m[u])
  <2>1. SUFFICES ASSUME NEW i \in 1 .. n + 1
        PROVE /\ m[u][i].balance_after = LeftBy(m[u], i - 1).available + m[u][i].available_delta
              /\ m[u][i].escrow_after = LeftBy(m[u], i - 1).escrow + m[u][i].escrow_delta
    BY <1>1 DEF Chained
  <2>2. CASE i \in 1 .. n
    <3>1. i - 1 \in 0 .. n
      BY <2>2, <1>1
    <3>2. LeftBy(m[u], i - 1) = LeftBy(l[u], i - 1) /\ m[u][i] = l[u][i]
      BY <2>2, <3>1, <1>1, <1>4
    <3>3. /\ l[u][i].balance_after = LeftBy(l[u], i - 1).available + l[u][i].available_delta
          /\ l[u][i].escrow_after = LeftBy(l[u], i - 1).escrow + l[u][i].escrow_delta
      BY <2>2, <1>3 DEF Chained
    <3>. QED
      BY <3>2, <3>3
  <2>3. CASE i = n + 1
    <3>1. LeftBy(m[u], i - 1) = w[u]
      BY <2>3, <1>1, <1>3, <1>4
    <3>2. m[u][i] = RowOf(w, r)
      BY <2>3, <1>1
    <3>. QED
      BY <3>1, <3>2 DEF RowOf, Moved
  <2>. QED
    BY <2>2, <2>3, <1>1
<1>6. x[u] = LeftBy(m[u], n + 1)
  BY <1>1, <1>2 DEF LeftBy, RowOf, Moved
<1>. QED
  BY <1>1, <1>2, <1>5, <1>6 DEF AccountsFor

(* A new reference makes no other row a duplicate, and adds itself only. *)
LEMMA LegDistinct ==
  ASSUME NEW w, NEW l, Typed(l, w), NEW r \in References,
         LegAllowed(w[LegOf[r].user], r), ~HasRow(l, r)
  PROVE  /\ Distinct(l) => Distinct(Recorded(l, w, r))
         /\ HasRow(Recorded(l, w, r), r)
         /\ \A q \in References \ {r} : HasRow(Recorded(l, w, r), q) <=> HasRow(l, q)
<1>. DEFINE u == LegOf[r].user
            m == Recorded(l, w, r)
            n == Len(l[u])
<1>1. /\ u \in Users /\ n \in Nat
      /\ Len(m[u]) = n + 1
      /\ m[u][n + 1] = RowOf(w, r)
      /\ \A i \in 1 .. n : m[u][i] = l[u][i]
      /\ \A v \in Users \ {u} : m[v] = l[v]
      /\ \A v \in Users : DOMAIN m[v] = 1 .. Len(m[v]) /\ DOMAIN l[v] = 1 .. Len(l[v])
  BY LegRecorded
<1>2. m[u][n + 1].reference = r
  BY <1>1 DEF RowOf
<1>3. HasRow(m, r)
  BY <1>1, <1>2 DEF HasRow
<1>4. ASSUME NEW q \in References \ {r}
      PROVE HasRow(m, q) <=> HasRow(l, q)
  <2>1. ASSUME NEW v \in Users, NEW i \in DOMAIN l[v]
        PROVE i \in DOMAIN m[v] /\ m[v][i] = l[v][i]
    <3>1. CASE v = u
      <4>1. i \in 1 .. n /\ 1 .. n \subseteq 1 .. n + 1
        BY <1>1, <2>1, <3>1
      <4>. QED
        BY <1>1, <3>1, <4>1
    <3>2. CASE v # u
      BY <1>1, <3>2
    <3>. QED
      BY <3>1, <3>2
  <2>2. ASSUME NEW v \in Users, NEW i \in DOMAIN m[v], m[v][i].reference = q
        PROVE i \in DOMAIN l[v] /\ m[v][i] = l[v][i]
    <3>1. q # r
      OBVIOUS
    <3>2. \/ i \in DOMAIN l[v] /\ m[v][i] = l[v][i]
          \/ v = u /\ i = n + 1
      BY LegRows
    <3>. QED
      BY <1>2, <2>2, <3>1, <3>2
  <2>. QED
    BY <2>1, <2>2 DEF HasRow
<1>5. ASSUME Distinct(l) PROVE Distinct(m)
  <2>1. SUFFICES ASSUME NEW v1 \in Users, NEW v2 \in Users,
                        NEW i \in DOMAIN m[v1], NEW j \in DOMAIN m[v2],
                        m[v1][i].reference = m[v2][j].reference
                 PROVE v1 = v2 /\ i = j
    BY DEF Distinct
  <2>2. \A v \in Users : \A k \in DOMAIN l[v] : l[v][k].reference # r
    BY DEF HasRow
  <2>3. ASSUME NEW v \in Users, NEW k \in DOMAIN m[v]
        PROVE \/ k \in DOMAIN l[v] /\ m[v][k] = l[v][k]
              \/ v = u /\ k = n + 1 /\ m[v][k].reference = r
    BY <1>1, <1>2, LegRows
  <2>4. CASE i \in DOMAIN l[v1] /\ m[v1][i] = l[v1][i] /\ j \in DOMAIN l[v2] /\ m[v2][j] = l[v2][j]
    BY <2>4, <2>1, <1>5 DEF Distinct
  <2>. QED
    BY <2>1, <2>2, <2>3, <2>4
<1>. QED
  BY <1>3, <1>4, <1>5

(* The row of a leg is of the right wallet and moves the right amount. *)
LEMMA LegFaithful ==
  ASSUME NEW w, NEW l, Typed(l, w), NEW r \in References,
         LegAllowed(w[LegOf[r].user], r), Faithful(l)
  PROVE  Faithful(Recorded(l, w, r))
<1>. DEFINE u == LegOf[r].user
            m == Recorded(l, w, r)
            n == Len(l[u])
<1>1. /\ u \in Users /\ n \in Nat
      /\ Len(m[u]) = n + 1
      /\ m[u][n + 1] = RowOf(w, r)
      /\ \A i \in 1 .. n : m[u][i] = l[u][i]
      /\ \A v \in Users \ {u} : m[v] = l[v]
      /\ \A v \in Users : DOMAIN m[v] = 1 .. Len(m[v]) /\ DOMAIN l[v] = 1 .. Len(l[v])
  BY LegRecorded
<1>2. SUFFICES ASSUME NEW v \in Users, NEW i \in DOMAIN m[v]
      PROVE /\ LegOf[m[v][i].reference].user = v
            /\ LegOf[m[v][i].reference].amount > 0
            /\ m[v][i].available_delta = AvailableDelta(m[v][i].reference)
            /\ m[v][i].escrow_delta = EscrowDelta(m[v][i].reference)
  BY DEF Faithful
<1>3. CASE i \in DOMAIN l[v] /\ m[v][i] = l[v][i]
  BY <1>3 DEF Faithful
<1>4. CASE v = u /\ i = n + 1
  <2>1. LegOf[r].amount > 0
    BY DEF LegAllowed
  <2>2. m[v][i] = RowOf(w, r)
    BY <1>1, <1>4
  <2>. QED
    BY <1>4, <2>1, <2>2 DEF RowOf
<1>. QED
  BY <1>3, <1>4, LegRows

(* An operation is one reference or two different ones. *)
LEMMA OperationShape ==
  ASSUME NEW o \in Operations
  PROVE  \/ Len(o) = 1 /\ o[1] \in References /\ RefsOf(o) = {o[1]}
         \/ /\ Len(o) = 2 /\ o[1] \in References /\ o[2] \in References
            /\ o[1] # o[2] /\ RefsOf(o) = {o[1], o[2]}
<1>1. o \in Seq(References) /\ (Len(o) = 1 \/ (Len(o) = 2 /\ o[1] # o[2]))
  BY LedgerEntriesAssumption
<1>2. DOMAIN o = 1 .. Len(o) /\ \A i \in 1 .. Len(o) : o[i] \in References
  BY <1>1
<1>. QED
  BY <1>1, <1>2 DEF RefsOf

------------------------------------------------------------------------------
(* All parts together. *)
LEMMA LegSound ==
  ASSUME NEW w, NEW l, Sound(l, w), NEW r \in References,
         LegAllowed(w[LegOf[r].user], r), ~HasRow(l, r)
  PROVE  Sound(Recorded(l, w, r), AfterLeg(w, r))
BY LegTyped, LegAccounted, LegDistinct, LegFaithful DEF Sound

------------------------------------------------------------------------------
(* The types alone, for an operation posted to any typed book. *)
LEMMA OperationTyped ==
  ASSUME NEW w, NEW l, Typed(l, w), NEW o \in Operations, Allowed(w, o)
  PROVE  Typed(RecordedAll(l, w, o), After(w, o))
<1>1. o[1] \in References /\ LegAllowed(w[LegOf[o[1]].user], o[1])
  BY OperationShape DEF Allowed
<1>2. Typed(Recorded(l, w, o[1]), AfterLeg(w, o[1]))
  BY <1>1, LegTyped
<1>3. CASE Len(o) = 1
  BY <1>2, <1>3 DEF RecordedAll, After
<1>4. CASE Len(o) = 2
  <2>1. o[2] \in References /\ LegAllowed(AfterLeg(w, o[1])[LegOf[o[2]].user], o[2])
    BY <1>4, OperationShape DEF Allowed
  <2>2. Typed(Recorded(Recorded(l, w, o[1]), AfterLeg(w, o[1]), o[2]),
              AfterLeg(AfterLeg(w, o[1]), o[2]))
    BY <1>2, <2>1, LegTyped
  <2>. QED
    BY <1>4, <2>2 DEF RecordedAll, After
<1>. QED
  BY <1>3, <1>4, OperationShape

(***************************************************************************)
(* An operation depends on the balances of its own users only: a session   *)
(* that has read just those, under lock, computes what the whole book      *)
(* would.                                                                  *)
(***************************************************************************)
LEMMA LegLocal ==
  ASSUME NEW w, DOMAIN w = Users, NEW x, DOMAIN x = Users, NEW l,
         NEW r \in References, w[LegOf[r].user] = x[LegOf[r].user]
  PROVE  /\ LegAllowed(w[LegOf[r].user], r) <=> LegAllowed(x[LegOf[r].user], r)
         /\ Recorded(l, w, r) = Recorded(l, x, r)
         /\ DOMAIN AfterLeg(w, r) = Users
         /\ AfterLeg(w, r)[LegOf[r].user] = Moved(w[LegOf[r].user], r)
         /\ \A u \in Users \ {LegOf[r].user} : AfterLeg(w, r)[u] = w[u]
<1>1. LegOf[r].user \in Users
  BY DeltaType
<1>2. RowOf(w, r) = RowOf(x, r)
  BY DEF RowOf
<1>. QED
  BY <1>1, <1>2 DEF Recorded, AfterLeg

LEMMA OperationLocal ==
  ASSUME NEW w, DOMAIN w = Users, NEW x, DOMAIN x = Users, NEW l,
         NEW o \in Operations, \A u \in UsersOf(o) : w[u] = x[u]
  PROVE  /\ UsersOf(o) \subseteq Users
         /\ Allowed(w, o) <=> Allowed(x, o)
         /\ RecordedAll(l, w, o) = RecordedAll(l, x, o)
         /\ DOMAIN After(w, o) = Users
         /\ \A u \in UsersOf(o) : After(w, o)[u] = After(x, o)[u]
         /\ \A u \in Users \ UsersOf(o) : After(w, o)[u] = w[u]
<1>. DEFINE w1 == AfterLeg(w, o[1])
            x1 == AfterLeg(x, o[1])
            u1 == LegOf[o[1]].user
            u2 == LegOf[o[2]].user
<1>1. o[1] \in References /\ u1 \in UsersOf(o) /\ u1 \in Users
  BY OperationShape, DeltaType DEF UsersOf
<1>2. /\ LegAllowed(w[u1], o[1]) <=> LegAllowed(x[u1], o[1])
      /\ Recorded(l, w, o[1]) = Recorded(l, x, o[1])
      /\ DOMAIN w1 = Users /\ DOMAIN x1 = Users
      /\ w1[u1] = Moved(w[u1], o[1]) /\ x1[u1] = Moved(x[u1], o[1])
      /\ \A u \in Users \ {u1} : w1[u] = w[u] /\ x1[u] = x[u]
  BY <1>1, LegLocal
<1>3. CASE Len(o) = 1
  <2>1. UsersOf(o) = {u1}
    BY <1>3, OperationShape DEF UsersOf
  <2>. QED
    BY <1>1, <1>2, <1>3, <2>1 DEF Allowed, RecordedAll, After
<1>4. CASE Len(o) = 2
  <2>1. o[2] \in References /\ UsersOf(o) = {u1, u2} /\ u2 \in Users
    BY <1>4, OperationShape, DeltaType DEF UsersOf
  <2>2. w1[u2] = x1[u2]
    BY <1>1, <1>2, <2>1
  <2>3. /\ LegAllowed(w1[u2], o[2]) <=> LegAllowed(x1[u2], o[2])
        /\ \A m : Recorded(m, w1, o[2]) = Recorded(m, x1, o[2])
        /\ DOMAIN AfterLeg(w1, o[2]) = Users
        /\ AfterLeg(w1, o[2])[u2] = Moved(w1[u2], o[2])
        /\ AfterLeg(x1, o[2])[u2] = Moved(x1[u2], o[2])
        /\ \A u \in Users \ {u2} :
             AfterLeg(w1, o[2])[u] = w1[u] /\ AfterLeg(x1, o[2])[u] = x1[u]
    <3>1. /\ DOMAIN w1 = Users /\ DOMAIN x1 = Users /\ o[2] \in References
          /\ w1[LegOf[o[2]].user] = x1[LegOf[o[2]].user]
      BY <1>2, <2>1, <2>2
    <3>. HIDE DEF w1, x1
    <3>. QED
      BY <3>1, LegLocal
  <2>4. Allowed(w, o) <=> Allowed(x, o)
    <3>1. LegAllowed(w[u1], o[1]) <=> LegAllowed(x[u1], o[1])
      BY <1>2
    <3>2. LegAllowed(w1[u2], o[2]) <=> LegAllowed(x1[u2], o[2])
      BY <2>3
    <3>. QED
      BY <1>4, <3>1, <3>2 DEF Allowed
  <2>5. RecordedAll(l, w, o) = RecordedAll(l, x, o)
    <3>1. Recorded(l, w, o[1]) = Recorded(l, x, o[1])
      BY <1>2
    <3>2. \A m : Recorded(m, w1, o[2]) = Recorded(m, x1, o[2])
      BY <2>3
    <3>. QED
      BY <1>4, <3>1, <3>2 DEF RecordedAll
  <2>6. After(w, o) = AfterLeg(w1, o[2]) /\ After(x, o) = AfterLeg(x1, o[2])
    BY <1>4 DEF After
  <2>7. ASSUME NEW u \in UsersOf(o) PROVE After(w, o)[u] = After(x, o)[u]
    <3>1. CASE u = u2
      BY <3>1, <2>2, <2>3, <2>6
    <3>2. CASE u # u2 /\ u = u1
      BY <3>2, <1>1, <1>2, <2>3, <2>6
    <3>. QED
      BY <3>1, <3>2, <2>1
  <2>8. ASSUME NEW u \in Users \ UsersOf(o) PROVE After(w, o)[u] = w[u]
    BY <1>2, <2>1, <2>3, <2>6
  <2>9. UsersOf(o) \subseteq Users /\ DOMAIN After(w, o) = Users
    BY <1>1, <2>1, <2>3, <2>6
  <2>. QED
    BY <2>4, <2>5, <2>7, <2>8, <2>9
<1>. QED
  BY <1>3, <1>4, OperationShape

------------------------------------------------------------------------------
(* Posting adds the operation's own rows and no others. *)
LEMMA OperationRows ==
  ASSUME NEW w, NEW l, Typed(l, w), NEW o \in Operations,
         HasNoRow(l, o), Allowed(w, o)
  PROVE  LET m == RecordedAll(l, w, o) IN
         /\ HasRows(m, o)
         /\ \A p \in Operations \ {o} : HasRows(m, p) <=> HasRows(l, p)
         /\ \A p \in Operations \ {o} : HasNoRow(m, p) <=> HasNoRow(l, p)
<1>. DEFINE m1 == Recorded(l, w, o[1])
            w1 == AfterLeg(w, o[1])
            m == RecordedAll(l, w, o)
<1>1. /\ o[1] \in References /\ o[1] \in RefsOf(o)
      /\ ~HasRow(l, o[1]) /\ LegAllowed(w[LegOf[o[1]].user], o[1])
  BY OperationShape DEF HasNoRow, Allowed
<1>2. /\ Typed(m1, w1)
      /\ HasRow(m1, o[1])
      /\ \A q \in References \ {o[1]} : HasRow(m1, q) <=> HasRow(l, q)
  BY <1>1, LegTyped, LegDistinct
<1>3. HasRows(m, o) /\ \A q \in References \ RefsOf(o) : HasRow(m, q) <=> HasRow(l, q)
  <2>1. CASE Len(o) = 1
    BY <1>2, <2>1, OperationShape DEF HasRows, RecordedAll
  <2>2. CASE Len(o) = 2
    <3>1. o[2] \in References /\ o[2] # o[1] /\ RefsOf(o) = {o[1], o[2]}
      BY <2>2, OperationShape
    <3>2. ~HasRow(m1, o[2]) /\ LegAllowed(w1[LegOf[o[2]].user], o[2])
      BY <1>2, <2>2, <3>1 DEF HasNoRow, Allowed
    <3>3. m = Recorded(m1, w1, o[2])
      BY <2>2 DEF RecordedAll
    <3>4. /\ HasRow(m, o[2])
          /\ \A q \in References \ {o[2]} : HasRow(m, q) <=> HasRow(m1, q)
      BY <1>2, <3>1, <3>2, <3>3, LegDistinct
    <3>5. HasRow(m, o[1])
      BY <1>1, <1>2, <3>1, <3>4
    <3>. QED
      BY <1>2, <3>1, <3>4, <3>5 DEF HasRows
  <2>. QED
    BY <2>1, <2>2, OperationShape
<1>4. ASSUME NEW p \in Operations \ {o}
      PROVE (HasRows(m, p) <=> HasRows(l, p)) /\ (HasNoRow(m, p) <=> HasNoRow(l, p))
  <2>1. RefsOf(p) \cap RefsOf(o) = {} /\ RefsOf(p) \subseteq References
    BY LedgerEntriesAssumption, OperationShape
  <2>. QED
    BY <1>3, <2>1 DEF HasRows, HasNoRow
<1>. QED
  BY <1>3, <1>4

(* ... and keeps a sound book sound. *)
LEMMA OperationSound ==
  ASSUME NEW w, NEW l, Sound(l, w), NEW o \in Operations,
         HasNoRow(l, o), Allowed(w, o)
  PROVE  Sound(RecordedAll(l, w, o), After(w, o))
<1>. DEFINE m1 == Recorded(l, w, o[1])
            w1 == AfterLeg(w, o[1])
<1>1. /\ o[1] \in References /\ o[1] \in RefsOf(o) /\ Typed(l, w)
      /\ ~HasRow(l, o[1]) /\ LegAllowed(w[LegOf[o[1]].user], o[1])
  BY OperationShape DEF HasNoRow, Allowed, Sound
<1>2. /\ Sound(m1, w1)
      /\ \A q \in References \ {o[1]} : HasRow(m1, q) <=> HasRow(l, q)
  BY <1>1, LegSound, LegDistinct
<1>3. CASE Len(o) = 1
  BY <1>2, <1>3 DEF RecordedAll, After
<1>4. CASE Len(o) = 2
  <2>1. o[2] \in References /\ o[2] # o[1] /\ o[2] \in RefsOf(o)
    BY <1>4, OperationShape
  <2>2. ~HasRow(m1, o[2]) /\ LegAllowed(w1[LegOf[o[2]].user], o[2])
    BY <1>2, <1>4, <2>1 DEF HasNoRow, Allowed
  <2>. QED
    BY <1>2, <1>4, <2>1, <2>2, LegSound DEF RecordedAll, After
<1>. QED
  BY <1>3, <1>4, OperationShape

(* An empty book is kept properly. *)
LEMMA NothingIsKept ==
  ASSUME NEW w, w = [u \in Users |-> Empty], NEW l, l = [u \in Users |-> << >>]
  PROVE  Sound(l, w) /\ Whole(l)
<1>1. Typed(l, w)
  BY DEF Typed, Balance, Empty
<1>2. \A u \in Users : Len(l[u]) = 0 /\ DOMAIN l[u] = {} /\ w[u] = Empty
  <2>1. \A rows \in Seq(Row) : rows = << >> => Len(rows) = 0 /\ DOMAIN rows = {}
    OBVIOUS
  <2>. QED
    BY <1>1, <2>1 DEF Typed
<1>3. AccountsFor(l, w)
  <2>1. SUFFICES ASSUME NEW u \in Users
        PROVE Chained(l[u]) /\ w[u] = LeftBy(l[u], Len(l[u]))
    BY DEF AccountsFor
  <2>2. 1 .. Len(l[u]) = {}
    BY <1>2
  <2>3. Chained(l[u])
    BY <2>2 DEF Chained
  <2>. QED
    BY <1>2, <2>3 DEF LeftBy
<1>4. Distinct(l) /\ Faithful(l) /\ Whole(l)
  BY <1>2 DEF Distinct, Faithful, Whole, HasNoRow, HasRow
<1>. QED
  BY <1>1, <1>3, <1>4 DEF Sound

(* An operation that is allowed and new leaves a book that is kept properly. *)
LEMMA OperationKeeps ==
  ASSUME NEW w, NEW l, Sound(l, w), Whole(l), NEW o \in Operations,
         HasNoRow(l, o), Allowed(w, o)
  PROVE  Sound(RecordedAll(l, w, o), After(w, o)) /\ Whole(RecordedAll(l, w, o))
<1>. DEFINE m == RecordedAll(l, w, o)
<1>1. Sound(m, After(w, o))
  BY OperationSound
<1>2. /\ HasRows(m, o)
      /\ \A p \in Operations \ {o} : HasRows(m, p) <=> HasRows(l, p)
      /\ \A p \in Operations \ {o} : HasNoRow(m, p) <=> HasNoRow(l, p)
  BY OperationRows DEF Sound
<1>3. Whole(m)
  BY <1>2 DEF Whole
<1>. QED
  BY <1>1, <1>3

------------------------------------------------------------------------------
(***************************************************************************)
(* The sum of a list of changes is where a running balance ends that       *)
(* starts at zero and takes each change in turn.  The balance itself shows *)
(* that the recursion SumOf is defined by has a solution, and the first    *)
(* place where the solution would leave it cannot exist.                   *)
(***************************************************************************)
LEMMA SumOfChanges ==
  ASSUME NEW deltas, NEW n \in Nat, Len(deltas) = n,
         NEW balance \in [0 .. n -> Int], balance[0] = 0,
         \A i \in 1 .. n : deltas[i] \in Int /\ balance[i] = balance[i - 1] + deltas[i]
  PROVE  SumOf(deltas) = balance[n]
<1>. DEFINE Along(g) == [i \in 0 .. n |-> IF i = 0 THEN 0 ELSE g[i - 1] + deltas[i]]
            sum == CHOOSE g : g = Along(g)
            Astray == { i \in Nat : i <= n /\ sum[i] # balance[i] }
<1>1. SumOf(deltas) = sum[n]
  BY DEF SumOf
<1>2. balance = Along(balance)
  <2>1. \A i \in 0 .. n : i = 0 \/ i \in 1 .. n
    OBVIOUS
  <2>. QED
    BY <2>1
<1>3. sum = Along(sum)
  <2>. HIDE DEF Along
  <2>. QED
    BY <1>2
<1>. HIDE DEF sum
<1>4. ASSUME NEW i \in 0 .. n PROVE sum[i] = IF i = 0 THEN 0 ELSE sum[i - 1] + deltas[i]
  BY <1>3
<1>5. Astray = {}
  <2>1. SUFFICES ASSUME Astray # {} PROVE FALSE
    OBVIOUS
  <2>2. \A i, j \in Nat : i < j => <<i, j>> \in OpToRel(<, Nat)
    BY DEF OpToRel
  <2>3. PICK i \in Astray : \A j \in Astray : ~ (<<j, i>> \in OpToRel(<, Nat))
    BY <2>1, NatLessThanWellFounded, WFMin
  <2>4. i # 0
    BY <1>4
  <2>5. i - 1 \in Nat /\ i - 1 < i /\ i - 1 <= n /\ i \in 1 .. n
    BY <2>4
  <2>6. <<i - 1, i>> \in OpToRel(<, Nat)
    BY <2>2, <2>5
  <2>7. i - 1 \notin Astray
    BY <2>3, <2>6
  <2>8. sum[i - 1] = balance[i - 1]
    BY <2>5, <2>7
  <2>9. sum[i] = sum[i - 1] + deltas[i] /\ balance[i] = balance[i - 1] + deltas[i]
    BY <1>4, <2>4, <2>5
  <2>10. sum[i] # balance[i]
    OBVIOUS
  <2>. QED
    BY <2>8, <2>9, <2>10
<1>. QED
  BY <1>1, <1>5

(***************************************************************************)
(* Rows that account for the balances sum up to them: what the docstring's *)
(* query checks follows from what balance_after and escrow_after record.   *)
(***************************************************************************)
LEMMA AccountsSumUp ==
  ASSUME NEW l, NEW w, Typed(l, w), AccountsFor(l, w)
  PROVE  SumsUp(l, w)
<1>1. SUFFICES ASSUME NEW u \in Users
      PROVE /\ w[u].available = SumOf([i \in 1 .. Len(l[u]) |-> l[u][i].available_delta])
            /\ w[u].escrow = SumOf([i \in 1 .. Len(l[u]) |-> l[u][i].escrow_delta])
  BY DEF SumsUp
<1>. DEFINE rows == l[u]
            n == Len(rows)
<1>2. /\ n \in Nat /\ w[u] = LeftBy(rows, n)
      /\ \A i \in 1 .. n :
           /\ rows[i] \in Row
           /\ rows[i].balance_after = LeftBy(rows, i - 1).available + rows[i].available_delta
           /\ rows[i].escrow_after = LeftBy(rows, i - 1).escrow + rows[i].escrow_delta
  BY DEF Typed, AccountsFor, Chained
<1>. HIDE DEF n, rows
<1>3. \A i \in 0 .. n : LeftBy(rows, i) \in Balance
  <2>1. \A i \in 0 .. n : i = 0 \/ i \in 1 .. n
    BY <1>2
  <2>. QED
    BY <1>2, <2>1 DEF LeftBy, Balance, Row, Empty
<1>4. LeftBy(rows, n).available = SumOf([i \in 1 .. n |-> rows[i].available_delta])
  <2>. DEFINE deltas == [i \in 1 .. n |-> rows[i].available_delta]
              balance == [i \in 0 .. n |-> LeftBy(rows, i).available]
  <2>1. Len(deltas) = n /\ balance \in [0 .. n -> Int] /\ balance[0] = 0
    BY <1>2, <1>3 DEF LeftBy, Empty, Balance
  <2>2. \A i \in 1 .. n : deltas[i] \in Int /\ balance[i] = balance[i - 1] + deltas[i]
    BY <1>2 DEF LeftBy, Row
  <2>3. balance[n] = LeftBy(rows, n).available
    BY <1>2
  <2>. HIDE DEF deltas, balance
  <2>4. SumOf(deltas) = balance[n]
    BY <1>2, <2>1, <2>2, SumOfChanges
  <2>. QED
    BY <2>3, <2>4 DEF deltas
<1>5. LeftBy(rows, n).escrow = SumOf([i \in 1 .. n |-> rows[i].escrow_delta])
  <2>. DEFINE deltas == [i \in 1 .. n |-> rows[i].escrow_delta]
              balance == [i \in 0 .. n |-> LeftBy(rows, i).escrow]
  <2>1. Len(deltas) = n /\ balance \in [0 .. n -> Int] /\ balance[0] = 0
    BY <1>2, <1>3 DEF LeftBy, Empty, Balance
  <2>2. \A i \in 1 .. n : deltas[i] \in Int /\ balance[i] = balance[i - 1] + deltas[i]
    BY <1>2 DEF LeftBy, Row
  <2>3. balance[n] = LeftBy(rows, n).escrow
    BY <1>2
  <2>. HIDE DEF deltas, balance
  <2>4. SumOf(deltas) = balance[n]
    BY <1>2, <2>1, <2>2, SumOfChanges
  <2>. QED
    BY <2>3, <2>4 DEF deltas
<1>. QED
  BY <1>2, <1>4, <1>5 DEF n, rows
------------------------------------------------------------------------------
(***************************************************************************)
(* What an operation's rows say does not depend on the balances the        *)
(* session had read: whatever it saw, the rows are new, of the right       *)
(* wallets and of the right amounts.                                       *)
(***************************************************************************)
LEMMA OperationRecords ==
  ASSUME NEW w, NEW l, Typed(l, w), Distinct(l), Faithful(l), Whole(l),
         NEW o \in Operations, HasNoRow(l, o), Allowed(w, o)
  PROVE  /\ Distinct(RecordedAll(l, w, o))
         /\ Faithful(RecordedAll(l, w, o))
         /\ Whole(RecordedAll(l, w, o))
<1>. DEFINE m1 == Recorded(l, w, o[1])
            w1 == AfterLeg(w, o[1])
            m == RecordedAll(l, w, o)
<1>1. /\ o[1] \in References /\ o[1] \in RefsOf(o)
      /\ ~HasRow(l, o[1]) /\ LegAllowed(w[LegOf[o[1]].user], o[1])
  BY OperationShape DEF HasNoRow, Allowed
<1>2. /\ Typed(m1, w1) /\ Distinct(m1) /\ Faithful(m1)
      /\ \A q \in References \ {o[1]} : HasRow(m1, q) <=> HasRow(l, q)
  BY <1>1, LegTyped, LegDistinct, LegFaithful
<1>3. ASSUME Len(o) = 1 PROVE Distinct(m) /\ Faithful(m)
  <2>1. RecordedAll(l, w, o) = m1
    BY <1>3 DEF RecordedAll
  <2>. HIDE DEF m1
  <2>. QED
    BY <1>2, <2>1
<1>4. ASSUME Len(o) = 2 PROVE Distinct(m) /\ Faithful(m)
  <2>1. o[2] \in References /\ o[2] # o[1] /\ o[2] \in RefsOf(o)
    BY <1>4, OperationShape
  <2>2. ~HasRow(m1, o[2]) /\ LegAllowed(w1[LegOf[o[2]].user], o[2])
    BY <1>2, <1>4, <2>1 DEF HasNoRow, Allowed
  <2>3. RecordedAll(l, w, o) = Recorded(m1, w1, o[2])
    BY <1>4 DEF RecordedAll
  <2>. HIDE DEF m1, w1
  <2>. QED
    BY <1>2, <2>1, <2>2, <2>3, LegDistinct, LegFaithful
<1>5. Distinct(m) /\ Faithful(m)
  BY <1>3, <1>4, OperationShape
<1>6. /\ HasRows(m, o)
      /\ \A p \in Operations \ {o} : HasRows(m, p) <=> HasRows(l, p)
      /\ \A p \in Operations \ {o} : HasNoRow(m, p) <=> HasNoRow(l, p)
  BY OperationRows
<1>. QED
  BY <1>5, <1>6 DEF Whole
=============================================================================
