---------------------------- MODULE HandoffProofs ----------------------------
(***************************************************************************)
(* Handoff is correct for every set of users and of runs, every lifetime   *)
(* of a lease and of a waiting token, and every size of a batch.           *)
(*                                                                         *)
(* The argument: a run in progress never knows more than the host, and     *)
(* what it knows of the host's current epoch is right (KnownOf); an ack    *)
(* tells what the store has done unless the store has moved on since       *)
(* (DoneOf).  So an ack the host accepts for its current epoch tells what  *)
(* the store holds now.                                                    *)
(***************************************************************************)
EXTENDS Handoff, TLAPS

\* What every operation but submit and delete does to a row: it leaves it in
\* its epoch, or it withdraws it under the next one.
Advances(r, p) ==
  /\ p \in Row
  /\ p.token <=> p.status \in Leasable
  /\ \/ p.epoch = r.epoch /\ p.status = r.status
     \/ p.epoch = r.epoch /\ p.status \in Held /\ r.status \in Held
     \/ /\ p.epoch = r.epoch + 1 /\ p.status = "revocation_pending"
        /\ r.status \notin {"none", "revoked"}

\* A withdrawal advances a row that is there and not revoked yet.
LEMMA WithdrawAdvances ==
  ASSUME NEW r \in Row, r.status \notin {"none", "revoked"}
  PROVE  Advances(r, Withdraw(r)) /\ Withdraw(r).status = "revocation_pending"
<1>1. 0 \in 0..LeaseTTL /\ 0 \in 0..PendingTTL
  BY HandoffAssumption DEF HandoffAssumption
<1>2. r.epoch + 1 \in Nat /\ NoLease \in Leases \union {NoLease}
  BY DEF Row
<1>3. "revocation_pending" \in Statuses
  BY DEF Statuses, Withdrawn
<1>4. Withdraw(r) \in Row
  BY <1>1, <1>2, <1>3, Zenon DEF Withdraw, Row
<1>5. /\ Withdraw(r).epoch = r.epoch + 1
      /\ Withdraw(r).status = "revocation_pending"
      /\ Withdraw(r).token = FALSE
      /\ Withdraw(r).lease = NoLease
  BY DEF Withdraw, Row
<1>6. QED BY <1>4, <1>5 DEF Advances, Leasable

\* The sweep advances every row and gives out no lease.
LEMMA PurgeAdvances ==
  ASSUME NEW r \in Row, r.token <=> r.status \in Leasable
  PROVE  Advances(r, PurgeExpired(r))
<1>1. CASE Expired(r)
  BY <1>1, WithdrawAdvances DEF PurgeExpired, Expired, Leasable
<1>2. CASE ~ Expired(r)
  BY <1>2 DEF PurgeExpired, Advances
<1>3. QED BY <1>1, <1>2

\* Leasing advances every row: a row keeps its epoch with the new lease, or
\* it is withdrawn.
LEMMA LeaseAdvances ==
  ASSUME NEW r \in Row, NEW l \in Leases, r.token <=> r.status \in Leasable
  PROVE  /\ Advances(r, LeaseRow(r, l))
         /\ LeaseRow(r, l).status \in Leasable /\ LeaseRow(r, l).token
              => LeaseRow(r, l).lease = l
<1> DEFINE p == PurgeExpired(r)
           q == [p EXCEPT !.lease = l, !.left = LeaseTTL]
<1>1. Advances(r, p) /\ p \in Row
  BY PurgeAdvances DEF Advances
<1>2. CASE ~ (p.status \in Leasable /\ p.token)
  BY <1>1, <1>2 DEF LeaseRow
<1>3. CASE p.status \in Leasable /\ p.token
  <2>1. p = r
    BY <1>3 DEF PurgeExpired, Withdraw, Row, Leasable
  <2>2. CASE p.poisoned
    <3>1. r.status \notin {"none", "revoked"} /\ LeaseRow(r, l) = Withdraw(r)
      BY <2>1, <2>2, <1>3 DEF LeaseRow, Leasable
    <3>2. QED BY <3>1, WithdrawAdvances DEF Advances, Leasable
  <2>3. CASE ~ p.poisoned
    <3>1. LeaseRow(r, l) = q
      BY <2>1, <2>3, <1>3 DEF LeaseRow
    <3>2. LeaseTTL \in 0..LeaseTTL /\ l \in Leases \union {NoLease}
      BY HandoffAssumption DEF HandoffAssumption
    <3>3. q \in Row
      BY <1>1, <3>2, Zenon DEF Row
    <3>4. q.lease = l /\ q.epoch = p.epoch /\ q.status = p.status /\ q.token = p.token
      BY <1>1 DEF Row
    <3>5. QED BY <3>1, <3>3, <3>4, <2>1 DEF Advances
  <2>4. QED BY <2>2, <2>3
<1>4. QED BY <1>2, <1>3

-----------------------------------------------------------------------------
(* How the parts of the invariant follow the host, the store and the runs. *)

\* Rows that advance while the store stands still keep what is known of them.
LEMMA RowsAdvance ==
  ASSUME IInv, store' = store,
         host' \in [Users -> Row],
         \A u \in Users : account'[u] => account[u],
         \A u \in Users : Advances(host[u], host'[u])
  PROVE  /\ TokenOnlyWhilePending' /\ StoreInv' /\ ActiveMeansStored' /\ RevokedInv'
         /\ \A i \in Item : KnownOf(i) => KnownOf(i)'
         /\ \A a \in Item : DoneOf(a) => DoneOf(a)'
<1>1. host \in [Users -> Row] /\ store \in [Users -> Version]
  BY DEF IInv, TypeOK
<1>2. \A u \in Users : /\ host[u].epoch \in Nat /\ host'[u].epoch \in Nat
                       /\ store[u].epoch \in Nat
  BY <1>1 DEF Row, Version
<1>3. TokenOnlyWhilePending'
  BY DEF TokenOnlyWhilePending, Advances
<1>4. \A u \in Users : /\ HasRow(u)' <=> HasRow(u)
                       /\ ~ HasRow(u)' => host'[u].epoch = host[u].epoch
  BY DEF HasRow, Advances, Held
<1>5. StoreInv'
  BY <1>2, <1>4 DEF IInv, StoreInv, Advances
<1>6. ActiveMeansStored'
  BY DEF IInv, ActiveMeansStored, Advances, Held
<1>7. RevokedInv'
  BY DEF IInv, RevokedInv, Advances, Held
<1>8. ASSUME NEW i \in Item, KnownOf(i) PROVE KnownOf(i)'
  <2>1. i.user \in Users /\ i.epoch \in Nat
    BY DEF Item
  <2>2. CASE HasRow(i.user)
    <3>1. host'[i.user].epoch = host[i.user].epoch
            => (host'[i.user].status \in Withdrawn <=> host[i.user].status \in Withdrawn)
      BY <2>1, <1>2 DEF Advances, Held, Withdrawn
    <3>2. host[i.user].epoch <= host'[i.user].epoch
      BY <2>1, <1>2 DEF Advances
    <3>3. QED BY <1>2, <1>4, <1>8, <2>1, <2>2, <3>1, <3>2 DEF KnownOf
  <2>3. CASE ~ HasRow(i.user)
    BY <1>4, <1>8, <2>1, <2>3 DEF KnownOf
  <2>4. QED BY <2>2, <2>3
<1>9. \A a \in Item : DoneOf(a) => DoneOf(a)'
  BY DEF DoneOf
<1>10. QED BY <1>3, <1>5, <1>6, <1>7, <1>8, <1>9

\* A version the store accepts from an item that is known rightly.
LEMMA StoreMoves ==
  ASSUME IInv, UNCHANGED <<account, host>>,
         NEW i \in Item, KnownOf(i),
         \/ store[i.user].epoch < i.epoch
         \/ store[i.user] = [epoch |-> i.epoch, state |-> i.kind],
         store' = [store EXCEPT ![i.user] = [epoch |-> i.epoch, state |-> i.kind]]
  PROVE  /\ store' \in [Users -> Version]
         /\ TokenOnlyWhilePending' /\ StoreInv' /\ ActiveMeansStored' /\ RevokedInv'
         /\ \A j \in Item : KnownOf(j) => KnownOf(j)'
         /\ \A a \in Item : DoneOf(a) => DoneOf(a)'
         /\ DoneOf(i)'
<1> DEFINE u == i.user
           v == [epoch |-> i.epoch, state |-> i.kind]
<1>1. /\ host \in [Users -> Row] /\ store \in [Users -> Version]
      /\ u \in Users /\ i.epoch \in Nat \ {0} /\ i.kind \in {"stored", "revoked"}
  BY DEF IInv, TypeOK, Item
<1>2. v \in Version /\ v.epoch = i.epoch /\ v.state = i.kind
  BY <1>1 DEF Version
<1>3. store' \in [Users -> Version]
  BY <1>1, <1>2
<1>4. store'[u] = v /\ \A w \in Users : w # u => store'[w] = store[w]
  BY <1>1
<1>5. \A w \in Users : host[w].epoch \in Nat /\ store[w].epoch \in Nat
  BY <1>1 DEF Row, Version
<1>6. \A w \in Users : store[w].epoch <= store'[w].epoch
  BY <1>1, <1>2, <1>4, <1>5
<1>7. CASE store[u] = v
  <2>1. store' = store
    BY <1>1, <1>7
  <2>2. DoneOf(i)'
    BY <1>4 DEF DoneOf
  <2>3. QED BY <1>3, <2>1, <2>2
            DEF IInv, TokenOnlyWhilePending, StoreInv, ActiveMeansStored, RevokedInv,
                KnownOf, DoneOf, HasRow
<1>8. CASE store[u].epoch < i.epoch
  <2>1. HasRow(u) /\ i.epoch <= host[u].epoch
    BY <1>1, <1>5, <1>8 DEF KnownOf
  <2>2. host[u].status \notin Held /\ host[u].status # "revoked"
    <3>1. ASSUME host[u].status \in Held \/ host[u].status = "revoked"
          PROVE  store[u].epoch = host[u].epoch
      BY <1>1, <3>1 DEF IInv, ActiveMeansStored, RevokedInv
    <3>2. QED BY <1>1, <1>5, <1>8, <2>1, <3>1
  <2>3. TokenOnlyWhilePending'
    BY DEF IInv, TokenOnlyWhilePending
  <2>4. StoreInv'
    <3>1. SUFFICES ASSUME NEW w \in Users
                   PROVE IF HasRow(w)
                         THEN host[w].epoch > 0 /\ store'[w].epoch <= host[w].epoch
                         ELSE /\ host[w].epoch = 0 /\ store'[w].state # "stored"
                              /\ account[w] => store'[w].epoch = 0
      BY DEF StoreInv, HasRow
    <3>2. CASE w = u
      BY <1>2, <1>4, <2>1, <3>2 DEF IInv, StoreInv
    <3>3. CASE w # u
      BY <1>4, <3>3 DEF IInv, StoreInv
    <3>4. QED BY <3>2, <3>3
  <2>5. ActiveMeansStored'
    BY <1>4, <2>2 DEF IInv, ActiveMeansStored
  <2>6. RevokedInv'
    BY <1>4, <2>2 DEF IInv, RevokedInv
  <2>7. ASSUME NEW j \in Item, KnownOf(j) PROVE KnownOf(j)'
    <3>1. j.user \in Users /\ j.epoch \in Nat
      BY DEF Item
    <3>2. CASE HasRow(j.user)
      BY <2>7, <3>2 DEF KnownOf, HasRow
    <3>3. CASE ~ HasRow(j.user)
      <4>1. j.epoch <= store'[j.user].epoch
        BY <1>4, <2>1, <2>7, <3>1, <3>3 DEF KnownOf
      <4>2. QED BY <3>3, <4>1 DEF KnownOf, HasRow
    <3>4. QED BY <3>2, <3>3
  <2>8. ASSUME NEW a \in Item, DoneOf(a) PROVE DoneOf(a)'
    <3>1. a.user \in Users /\ a.epoch \in Nat
      BY DEF Item
    <3>2. CASE a.user = u
      <4>1. a.epoch <= store[u].epoch
        BY <1>5, <2>8, <3>1, <3>2 DEF DoneOf
      <4>2. a.epoch < store'[u].epoch
        BY <1>1, <1>2, <1>4, <1>5, <1>8, <3>1, <4>1
      <4>3. QED BY <3>2, <4>2 DEF DoneOf
    <3>3. CASE a.user # u
      BY <1>4, <2>8, <3>1, <3>3 DEF DoneOf
    <3>4. QED BY <3>2, <3>3
  <2>9. DoneOf(i)'
    BY <1>4 DEF DoneOf
  <2>10. QED BY <1>3, <2>3, <2>4, <2>5, <2>6, <2>7, <2>8, <2>9
<1>9. QED BY <1>7, <1>8

\* Runs that only work off what they were given share no lease after it.
LEMMA LeasesShrink ==
  ASSUME LeaseInv,
         \A c \in Cycles : cycle'[c].todo \union cycle'[c].acks
                            \subseteq cycle[c].todo \union cycle[c].acks
  PROVE  LeaseInv'
<1>1. \A c \in Cycles : LeasesOf(c)' \subseteq LeasesOf(c)
  BY DEF LeasesOf
<1>2. QED BY <1>1 DEF LeaseInv

-----------------------------------------------------------------------------
(* How one run changes.                                                    *)

LEMMA RunTodo ==
  ASSUME cycle \in [Cycles -> Run], NEW c \in Cycles, NEW t \in SUBSET Item,
         cycle' = [cycle EXCEPT ![c].todo = t]
  PROVE  /\ cycle' \in [Cycles -> Run]
         /\ cycle'[c].todo = t /\ cycle'[c].acks = cycle[c].acks
         /\ \A d \in Cycles : d # c => cycle'[d] = cycle[d]
BY DEF Run

LEMMA RunTodoAcks ==
  ASSUME cycle \in [Cycles -> Run], NEW c \in Cycles,
         NEW t \in SUBSET Item, NEW k \in SUBSET Item,
         cycle' = [cycle EXCEPT ![c].todo = t, ![c].acks = k]
  PROVE  /\ cycle' \in [Cycles -> Run]
         /\ cycle'[c].todo = t /\ cycle'[c].acks = k
         /\ \A d \in Cycles : d # c => cycle'[d] = cycle[d]
BY DEF Run

LEMMA RunAcksSending ==
  ASSUME cycle \in [Cycles -> Run], NEW c \in Cycles,
         NEW k \in SUBSET Item, NEW b \in BOOLEAN,
         cycle' = [cycle EXCEPT ![c].acks = k, ![c].sending = b]
  PROVE  /\ cycle' \in [Cycles -> Run]
         /\ cycle'[c].todo = cycle[c].todo /\ cycle'[c].acks = k
         /\ \A d \in Cycles : d # c => cycle'[d] = cycle[d]
BY DEF Run

LEMMA RunSending ==
  ASSUME cycle \in [Cycles -> Run], NEW c \in Cycles,
         cycle' = [cycle EXCEPT ![c].sending = TRUE]
  PROVE  /\ cycle' \in [Cycles -> Run]
         /\ cycle'[c].todo = cycle[c].todo /\ cycle'[c].acks = cycle[c].acks
         /\ \A d \in Cycles : d # c => cycle'[d] = cycle[d]
BY DEF Run

LEMMA RunIdle ==
  ASSUME cycle \in [Cycles -> Run], NEW c \in Cycles,
         cycle' = [cycle EXCEPT ![c] = IdleRun]
  PROVE  /\ cycle' \in [Cycles -> Run]
         /\ cycle'[c].todo = {} /\ cycle'[c].acks = {}
         /\ \A d \in Cycles : d # c => cycle'[d] = cycle[d]
BY DEF Run, IdleRun

-----------------------------------------------------------------------------
(* The invariant under the kinds of steps there are.                       *)

\* A step that only advances rows.
LEMMA RowsOnly ==
  ASSUME IInv, UNCHANGED <<store, cycle>>,
         account' \in [Users -> BOOLEAN],
         \A u \in Users : account'[u] => account[u],
         report' \in [Users -> Nat],
         host' \in [Users -> Row],
         \A u \in Users : Advances(host[u], host'[u])
  PROVE  IInv'
<1>1. TypeOK'
  BY DEF IInv, TypeOK
<1>2. \A c \in Cycles : cycle[c].todo \subseteq Item /\ cycle[c].acks \subseteq Item
  BY DEF IInv, TypeOK, Run
<1>3. /\ TokenOnlyWhilePending' /\ StoreInv' /\ ActiveMeansStored' /\ RevokedInv'
      /\ \A i \in Item : KnownOf(i) => KnownOf(i)'
      /\ \A a \in Item : DoneOf(a) => DoneOf(a)'
  BY RowsAdvance
<1>4. ItemInv'
  BY <1>2, <1>3 DEF IInv, ItemInv
<1>5. AckInv'
  BY <1>2, <1>3 DEF IInv, AckInv
<1>6. LeaseInv'
  BY DEF IInv, LeaseInv, LeasesOf
<1>7. QED BY <1>1, <1>3, <1>4, <1>5, <1>6 DEF IInv

\* A step in which runs only drop what they know.
LEMMA RunsOnly ==
  ASSUME IInv, UNCHANGED <<account, host, store>>,
         report' \in [Users -> Nat],
         cycle' \in [Cycles -> Run],
         \A c \in Cycles : /\ cycle'[c].todo \subseteq cycle[c].todo
                            /\ cycle'[c].acks \subseteq cycle[c].acks
  PROVE  IInv'
<1>1. TypeOK'
  BY DEF IInv, TypeOK
<1>2. /\ TokenOnlyWhilePending' /\ StoreInv' /\ ActiveMeansStored' /\ RevokedInv'
  BY DEF IInv, TokenOnlyWhilePending, StoreInv, ActiveMeansStored, RevokedInv, HasRow
<1>3. ItemInv'
  BY DEF IInv, ItemInv, KnownOf, HasRow
<1>4. AckInv'
  BY DEF IInv, AckInv, DoneOf
<1>5. LeaseInv'
  BY LeasesShrink DEF IInv
<1>6. QED BY <1>1, <1>2, <1>3, <1>4, <1>5 DEF IInv

\* A step in which a run applies an item and will acknowledge it.
LEMMA ItemApplied ==
  ASSUME IInv, UNCHANGED <<account, host, report>>,
         NEW c \in Cycles, NEW i \in cycle[c].todo,
         \/ store[i.user].epoch < i.epoch
         \/ store[i.user] = [epoch |-> i.epoch, state |-> i.kind],
         store' = [store EXCEPT ![i.user] = [epoch |-> i.epoch, state |-> i.kind]],
         cycle' = [cycle EXCEPT ![c].todo = cycle[c].todo \ {i},
                                ![c].acks = cycle[c].acks \union {i}]
  PROVE  IInv'
<1>1. /\ cycle \in [Cycles -> Run] /\ i \in Item
      /\ \A d \in Cycles : cycle[d].todo \subseteq Item /\ cycle[d].acks \subseteq Item
  BY DEF IInv, TypeOK, Run
<1>2. /\ cycle' \in [Cycles -> Run]
      /\ cycle'[c].todo = cycle[c].todo \ {i} /\ cycle'[c].acks = cycle[c].acks \union {i}
      /\ \A d \in Cycles : d # c => cycle'[d] = cycle[d]
  <2>1. cycle[c].todo \ {i} \in SUBSET Item /\ cycle[c].acks \union {i} \in SUBSET Item
    BY <1>1
  <2>2. QED BY <1>1, <2>1, RunTodoAcks
<1>3. /\ store' \in [Users -> Version]
      /\ TokenOnlyWhilePending' /\ StoreInv' /\ ActiveMeansStored' /\ RevokedInv'
      /\ \A j \in Item : KnownOf(j) => KnownOf(j)'
      /\ \A a \in Item : DoneOf(a) => DoneOf(a)'
      /\ DoneOf(i)'
  <2>1. KnownOf(i)
    BY DEF IInv, ItemInv
  <2>2. QED BY <1>1, <2>1, StoreMoves
<1>4. TypeOK'
  BY <1>2, <1>3 DEF IInv, TypeOK
<1>5. ItemInv'
  <2>1. \A d \in Cycles : cycle'[d].todo \subseteq cycle[d].todo
    BY <1>2
  <2>2. QED BY <1>1, <1>3, <2>1 DEF IInv, ItemInv
<1>6. AckInv'
  <2>1. \A d \in Cycles : cycle'[d].acks \subseteq cycle[d].acks \union {i}
    BY <1>2
  <2>2. QED BY <1>1, <1>3, <2>1 DEF IInv, AckInv
<1>7. LeaseInv'
  <2>1. \A d \in Cycles : cycle'[d].todo \union cycle'[d].acks
                          \subseteq cycle[d].todo \union cycle[d].acks
    BY <1>2
  <2>2. QED BY <2>1, LeasesShrink DEF IInv
<1>8. QED BY <1>3, <1>4, <1>5, <1>6, <1>7 DEF IInv

-----------------------------------------------------------------------------
(* The steps that do more.                                                 *)

\* A submitted token starts an epoch no run knows anything of.
LEMMA SubmitKeeps ==
  ASSUME IInv, NEW u \in Users, Submit(u)
  PROVE  IInv'
<1> DEFINE n == [status   |-> IF HasRow(u) THEN "replacement_pending" ELSE "pending",
                 epoch    |-> host[u].epoch + 1,
                 token    |-> TRUE,
                 poisoned |-> FALSE,
                 lease    |-> NoLease, left |-> 0, age |-> 0]
<1>1. /\ host \in [Users -> Row] /\ store \in [Users -> Version]
      /\ \A c \in Cycles : cycle[c].todo \subseteq Item /\ cycle[c].acks \subseteq Item
      /\ host' = [host EXCEPT ![u] = n] /\ account[u]
      /\ UNCHANGED <<account, store, cycle, report>>
  BY DEF IInv, TypeOK, Run, Submit
<1>2. host[u].epoch \in Nat /\ store[u].epoch \in Nat
  BY <1>1 DEF Row, Version
<1>3. n \in Row
  <2>1. 0 \in 0..LeaseTTL /\ 0 \in 0..PendingTTL
    BY HandoffAssumption DEF HandoffAssumption
  <2>2. QED BY <1>2, <2>1 DEF Row, Statuses, Leasable
<1>4. host'[u] = n /\ \A w \in Users : w # u => host'[w] = host[w]
  BY <1>1
<1>5. TypeOK'
  BY <1>1, <1>3 DEF IInv, TypeOK
<1>6. TokenOnlyWhilePending'
  BY <1>4 DEF IInv, TokenOnlyWhilePending, Leasable
<1>7. HasRow(u)' /\ \A w \in Users : w # u => (HasRow(w)' <=> HasRow(w))
  BY <1>4 DEF HasRow
<1>8. store[u].epoch <= host[u].epoch
  <2>1. CASE HasRow(u)
    BY <2>1 DEF IInv, StoreInv
  <2>2. CASE ~ HasRow(u)
    BY <1>1, <1>2, <2>2 DEF IInv, StoreInv
  <2>3. QED BY <2>1, <2>2
<1>9. StoreInv'
  <2>1. SUFFICES ASSUME NEW w \in Users
                 PROVE IF HasRow(w)'
                       THEN host'[w].epoch > 0 /\ store'[w].epoch <= host'[w].epoch
                       ELSE /\ host'[w].epoch = 0 /\ store'[w].state # "stored"
                            /\ account'[w] => store'[w].epoch = 0
    BY DEF StoreInv
  <2>2. CASE w = u
    BY <1>1, <1>2, <1>4, <1>7, <1>8, <2>2
  <2>3. CASE w # u
    BY <1>1, <1>4, <1>7, <2>3 DEF IInv, StoreInv
  <2>4. QED BY <2>2, <2>3
<1>10. ActiveMeansStored'
  BY <1>1, <1>4 DEF IInv, ActiveMeansStored, Held
<1>11. RevokedInv'
  BY <1>1, <1>4 DEF IInv, RevokedInv
<1>12. ASSUME NEW i \in Item, KnownOf(i) PROVE KnownOf(i)'
  <2>1. i.user \in Users /\ i.epoch \in Nat /\ i.epoch > 0
    BY DEF Item
  <2>2. CASE i.user = u
    <3>1. i.epoch <= host[u].epoch
      BY <1>1, <1>2, <1>8, <1>12, <2>1, <2>2 DEF KnownOf
    <3>2. i.epoch <= host'[u].epoch /\ i.epoch # host'[u].epoch
      BY <1>2, <1>4, <2>1, <3>1
    <3>3. QED BY <1>7, <2>2, <3>2 DEF KnownOf
  <2>3. CASE i.user # u
    BY <1>1, <1>4, <1>7, <1>12, <2>1, <2>3 DEF KnownOf
  <2>4. QED BY <2>2, <2>3
<1>13. ItemInv'
  BY <1>1, <1>12 DEF IInv, ItemInv
<1>14. AckInv' /\ LeaseInv'
  BY <1>1 DEF IInv, AckInv, DoneOf, LeaseInv, LeasesOf
<1>15. QED BY <1>5, <1>6, <1>9, <1>10, <1>11, <1>13, <1>14 DEF IInv

\* The row that goes with the account is one the worker knows all about.
LEMMA DeleteKeeps ==
  ASSUME IInv, NEW u \in Users, DeleteUser(u)
  PROVE  IInv'
<1>1. /\ account \in [Users -> BOOLEAN] /\ host \in [Users -> Row]
      /\ store \in [Users -> Version] /\ report \in [Users -> Nat]
      /\ \A c \in Cycles : cycle[c].todo \subseteq Item /\ cycle[c].acks \subseteq Item
      /\ account' = [account EXCEPT ![u] = FALSE]
      /\ UNCHANGED <<store, cycle, report>>
  BY DEF IInv, TypeOK, Run, DeleteUser
<1>2. account' \in [Users -> BOOLEAN] /\ ~ account'[u]
      /\ \A w \in Users : account'[w] => account[w]
  BY <1>1
<1>3. CASE host[u].status \notin {"none", "revoked"} /\ host' = [host EXCEPT ![u] = Withdraw(@)]
  <2>1. Advances(host[u], Withdraw(host[u]))
    BY <1>1, <1>3, WithdrawAdvances
  <2>2. \A w \in Users : Advances(host[w], host'[w])
    BY <1>1, <1>3, <2>1 DEF Advances, IInv, TokenOnlyWhilePending
  <2>3. host' \in [Users -> Row]
    BY <1>1, <1>3, <2>1 DEF Advances
  <2>4. QED BY <1>1, <1>2, <2>2, <2>3, RowsOnly
<1>4. CASE host[u].status \in {"none", "revoked"} /\ host' = [host EXCEPT ![u] = NoRow]
  <2>1. host'[u] = NoRow /\ \A w \in Users : w # u => host'[w] = host[w]
    BY <1>1, <1>4
  <2>2. ~ HasRow(u)' /\ \A w \in Users : w # u => (HasRow(w)' <=> HasRow(w))
    BY <2>1 DEF HasRow, NoRow
  <2>3. NoRow \in Row
    <3>1. 0 \in 0..LeaseTTL /\ 0 \in 0..PendingTTL
      BY HandoffAssumption DEF HandoffAssumption
    <3>2. QED BY <3>1 DEF NoRow, Row, Statuses
  <2>4. TypeOK'
    BY <1>1, <1>2, <1>4, <2>3 DEF IInv, TypeOK
  <2>5. TokenOnlyWhilePending'
    BY <2>1 DEF IInv, TokenOnlyWhilePending, NoRow, Leasable
  <2>6. store[u].state # "stored"
    <3>1. CASE HasRow(u)
      <4>1. store[u] = [epoch |-> host[u].epoch, state |-> "revoked"]
        BY <1>4, <3>1 DEF IInv, RevokedInv, HasRow
      <4>2. QED BY <4>1
    <3>2. CASE ~ HasRow(u)
      BY <3>2 DEF IInv, StoreInv
    <3>3. QED BY <3>1, <3>2
  <2>7. StoreInv'
    BY <1>1, <1>2, <2>1, <2>2, <2>6 DEF IInv, StoreInv, NoRow
  <2>8. ActiveMeansStored' /\ RevokedInv'
    BY <1>1, <2>1 DEF IInv, ActiveMeansStored, RevokedInv, NoRow, Held
  <2>9. ASSUME NEW i \in Item, KnownOf(i) PROVE KnownOf(i)'
    <3>1. CASE i.user = u
      <4>1. CASE HasRow(u)
        BY <1>1, <1>4, <2>2, <2>9, <3>1, <4>1 DEF IInv, RevokedInv, HasRow, KnownOf
      <4>2. CASE ~ HasRow(u)
        BY <1>1, <2>2, <2>9, <3>1, <4>2 DEF KnownOf
      <4>3. QED BY <4>1, <4>2
    <3>2. CASE i.user # u
      <4>1. i.user \in Users
        BY DEF Item
      <4>2. QED BY <1>1, <2>1, <2>2, <2>9, <3>2, <4>1 DEF KnownOf
    <3>3. QED BY <3>1, <3>2
  <2>10. ItemInv'
    BY <1>1, <2>9 DEF IInv, ItemInv
  <2>11. AckInv' /\ LeaseInv'
    BY <1>1 DEF IInv, AckInv, DoneOf, LeaseInv, LeasesOf
  <2>12. QED BY <2>4, <2>5, <2>7, <2>8, <2>10, <2>11 DEF IInv
<1>5. QED BY <1>3, <1>4 DEF DeleteUser

\* The response of a pull is right about every row, and its lease is new.
LEMMA PullKeeps ==
  ASSUME IInv, NEW c \in Cycles, Pull(c)
  PROVE  IInv'
<1>1. PICK l \in FreshLeases :
        /\ host' = [u \in Users |-> LeaseRow(host[u], l)]
        /\ cycle' = [cycle EXCEPT ![c].todo = PullResponse(host')]
  BY Zenon DEF Pull
<1>2. /\ account \in [Users -> BOOLEAN] /\ host \in [Users -> Row]
      /\ store \in [Users -> Version] /\ cycle \in [Cycles -> Run]
      /\ report \in [Users -> Nat] /\ l \in Leases
      /\ \A d \in Cycles : cycle[d].todo \subseteq Item /\ cycle[d].acks \subseteq Item
      /\ UNCHANGED <<account, store, report>>
      /\ cycle[c].todo = {} /\ cycle[c].acks = {}
  BY DEF IInv, TypeOK, Run, Pull, Idle, FreshLeases
<1>3. \A u \in Users : /\ Advances(host[u], host'[u])
                       /\ host'[u].status \in Leasable /\ host'[u].token
                            => host'[u].lease = l
  BY <1>1, <1>2, LeaseAdvances DEF IInv, TokenOnlyWhilePending
<1>4. host' \in [Users -> Row]
  BY <1>1, <1>3 DEF Advances
<1>5. /\ TokenOnlyWhilePending' /\ StoreInv' /\ ActiveMeansStored' /\ RevokedInv'
      /\ \A i \in Item : KnownOf(i) => KnownOf(i)'
      /\ \A a \in Item : DoneOf(a) => DoneOf(a)'
  BY <1>2, <1>3, <1>4, RowsAdvance
<1>6. ASSUME NEW i \in PullResponse(host')
      PROVE  i \in Item /\ KnownOf(i)' /\ i.lease \in {l, NoLease}
  <2>1. \/ \E u \in Users :
             /\ host'[u].status \in Leasable /\ host'[u].token
             /\ i = [kind |-> "stored", user |-> u, epoch |-> host'[u].epoch,
                     lease |-> host'[u].lease]
        \/ \E u \in Users :
             /\ host'[u].status = "revocation_pending"
             /\ i = [kind |-> "revoked", user |-> u, epoch |-> host'[u].epoch,
                     lease |-> NoLease]
    BY <1>6 DEF PullResponse
  <2>2. \A u \in Users : HasRow(u)' => host'[u].epoch \in Nat \ {0}
    BY <1>4, <1>5 DEF StoreInv, Row
  <2>3. CASE \E u \in Users :
             /\ host'[u].status \in Leasable /\ host'[u].token
             /\ i = [kind |-> "stored", user |-> u, epoch |-> host'[u].epoch,
                     lease |-> host'[u].lease]
    <3>1. PICK u \in Users :
             /\ host'[u].status \in Leasable /\ host'[u].token
             /\ i = [kind |-> "stored", user |-> u, epoch |-> host'[u].epoch,
                     lease |-> host'[u].lease]
      BY <2>3
    <3>2. HasRow(u)' /\ host'[u].status \notin Withdrawn
      BY <3>1 DEF HasRow, Leasable, Withdrawn
    <3>3. host'[u].lease = l /\ host'[u].epoch \in Nat \ {0}
      BY <1>3, <2>2, <3>1, <3>2
    <3>4. i \in Item
      BY <1>2, <3>1, <3>3 DEF Item
    <3>5. KnownOf(i)'
      BY <3>1, <3>2, <3>3 DEF KnownOf
    <3>6. QED BY <3>1, <3>3, <3>4, <3>5
  <2>4. CASE \E u \in Users :
             /\ host'[u].status = "revocation_pending"
             /\ i = [kind |-> "revoked", user |-> u, epoch |-> host'[u].epoch,
                     lease |-> NoLease]
    <3>1. PICK u \in Users :
             /\ host'[u].status = "revocation_pending"
             /\ i = [kind |-> "revoked", user |-> u, epoch |-> host'[u].epoch,
                     lease |-> NoLease]
      BY <2>4
    <3>2. HasRow(u)' /\ host'[u].status \in Withdrawn
      BY <3>1 DEF HasRow, Withdrawn
    <3>3. host'[u].epoch \in Nat \ {0}
      BY <2>2, <3>2
    <3>4. i \in Item
      BY <3>1, <3>3 DEF Item
    <3>5. KnownOf(i)'
      BY <3>1, <3>2, <3>3 DEF KnownOf
    <3>6. QED BY <3>1, <3>4, <3>5
  <2>5. QED BY <2>1, <2>3, <2>4
<1>7. /\ cycle' \in [Cycles -> Run]
      /\ cycle'[c].todo = PullResponse(host') /\ cycle'[c].acks = {}
      /\ \A d \in Cycles : d # c => cycle'[d] = cycle[d]
  <2>1. PullResponse(host') \in SUBSET Item
    BY <1>6
  <2>2. QED BY <1>1, <1>2, <2>1, RunTodo
<1>8. TypeOK'
  BY <1>2, <1>4, <1>7 DEF TypeOK
<1>9. ItemInv'
  <2>1. SUFFICES ASSUME NEW d \in Cycles, NEW i \in cycle'[d].todo PROVE KnownOf(i)'
    BY DEF ItemInv
  <2>2. CASE d = c
    BY <1>6, <1>7, <2>2
  <2>3. CASE d # c
    BY <1>2, <1>5, <1>7, <2>3 DEF IInv, ItemInv
  <2>4. QED BY <2>2, <2>3
<1>10. AckInv'
  <2>1. \A d \in Cycles : cycle'[d].acks = cycle[d].acks
    BY <1>2, <1>7
  <2>2. QED BY <1>2, <1>5, <2>1 DEF IInv, AckInv
<1>11. LeaseInv'
  <2>1. LeasesOf(c)' \subseteq {l, NoLease}
    BY <1>6, <1>7 DEF LeasesOf
  <2>2. \A d \in Cycles : d # c => LeasesOf(d)' = LeasesOf(d) /\ l \notin LeasesOf(d)
    BY <1>1, <1>7 DEF LeasesOf, FreshLeases
  <2>3. SUFFICES ASSUME NEW d \in Cycles, NEW e \in Cycles, d # e
                 PROVE  LeasesOf(d)' \intersect LeasesOf(e)' \subseteq {NoLease}
    BY DEF LeaseInv
  <2>4. CASE d = c
    BY <2>1, <2>2, <2>3, <2>4
  <2>5. CASE e = c
    BY <2>1, <2>2, <2>3, <2>5
  <2>6. CASE d # c /\ e # c
    BY <2>2, <2>3, <2>6 DEF IInv, LeaseInv
  <2>7. QED BY <2>4, <2>5, <2>6
<1>12. QED BY <1>5, <1>8, <1>9, <1>10, <1>11 DEF IInv

\* An ack that changes its row settles the epoch the row is at, and the
\* worker's store says the same.
LEMMA AckChanges ==
  ASSUME IInv, NEW c \in Cycles, NEW a \in cycle[c].acks,
         ApplyAck(host[a.user], a) # host[a.user]
  PROVE  /\ ApplyAck(host[a.user], a) \in Row
         /\ ApplyAck(host[a.user], a).epoch = host[a.user].epoch
         /\ host[a.user].epoch = a.epoch
         /\ ApplyAck(host[a.user], a).token <=> ApplyAck(host[a.user], a).status \in Leasable
         /\ \/ /\ a.kind = "stored" /\ host[a.user].status \in Leasable
               /\ ApplyAck(host[a.user], a).status = "active"
            \/ /\ a.kind = "revoked" /\ host[a.user].status = "revocation_pending"
               /\ ApplyAck(host[a.user], a).status = "revoked"
         /\ store[a.user] = [epoch |-> a.epoch, state |-> a.kind]
<1> DEFINE u == a.user
           r == host[u]
           p == ApplyAck(r, a)
<1>1. host \in [Users -> Row] /\ store \in [Users -> Version] /\ cycle[c].acks \subseteq Item
  BY DEF IInv, TypeOK, Run
<1>2. u \in Users /\ a \in Item /\ a.epoch \in Nat /\ a.kind \in {"stored", "revoked"} /\ r \in Row
  BY <1>1 DEF Item
<1>3. /\ p \in Row /\ p.epoch = r.epoch /\ r.epoch = a.epoch
      /\ p.token <=> p.status \in Leasable
      /\ \/ a.kind = "stored" /\ r.status \in Leasable /\ p.status = "active"
         \/ a.kind = "revoked" /\ r.status = "revocation_pending" /\ p.status = "revoked"
  <2>1. CASE a.kind = "stored"
    <3>1. StoredAckAccepted(r, a)
      BY <2>1 DEF ApplyAck, AckStored
    <3>2. p = [r EXCEPT !.status = "active", !.token = FALSE, !.lease = NoLease,
                        !.left = 0, !.age = 0]
      BY <2>1, <3>1 DEF ApplyAck, AckStored
    <3>3. /\ 0 \in 0..LeaseTTL /\ 0 \in 0..PendingTTL /\ "active" \in Statuses
          /\ NoLease \in Leases \union {NoLease}
      BY HandoffAssumption DEF HandoffAssumption, Statuses, Held
    <3>4. p \in Row
      BY <1>2, <3>2, <3>3, Zenon DEF Row
    <3>5. p.status = "active" /\ p.token = FALSE /\ p.epoch = r.epoch
      BY <1>2, <3>2 DEF Row
    <3>6. QED BY <2>1, <3>1, <3>4, <3>5 DEF StoredAckAccepted, Leasable
  <2>2. CASE a.kind # "stored"
    <3>1. /\ r.epoch = a.epoch /\ r.status = "revocation_pending"
          /\ p = [r EXCEPT !.status = "revoked"]
      BY <2>2 DEF ApplyAck, AckRevoked
    <3>2. "revoked" \in Statuses
      BY DEF Statuses, Withdrawn
    <3>3. p \in Row /\ p.status = "revoked" /\ p.epoch = r.epoch /\ p.token = r.token
      BY <1>2, <3>1, <3>2 DEF Row
    <3>4. r.token = FALSE
      BY <1>2, <3>1 DEF IInv, TokenOnlyWhilePending, Leasable, Row
    <3>5. QED BY <1>2, <2>2, <3>1, <3>3, <3>4 DEF Leasable
  <2>3. QED BY <2>1, <2>2
<1>4. HasRow(u)
  BY <1>3 DEF HasRow, Leasable
<1>5. store[u] = [epoch |-> a.epoch, state |-> a.kind]
  <2>1. store[u].epoch <= a.epoch /\ store[u].epoch \in Nat
    BY <1>1, <1>2, <1>3, <1>4 DEF IInv, StoreInv, Version
  <2>2. DoneOf(a)
    BY DEF IInv, AckInv
  <2>3. QED BY <1>2, <2>1, <2>2 DEF DoneOf
<1>6. QED BY <1>3, <1>5

\* An ack the host accepts tells what the store holds now.
LEMMA HostAckKeeps ==
  ASSUME IInv, NEW c \in Cycles, NEW a \in cycle[c].acks, HostAck(c, a)
  PROVE  IInv'
<1> DEFINE u == a.user
           r == host[u]
           p == ApplyAck(r, a)
<1>1. /\ account \in [Users -> BOOLEAN] /\ host \in [Users -> Row]
      /\ store \in [Users -> Version] /\ cycle \in [Cycles -> Run]
      /\ report \in [Users -> Nat]
      /\ \A d \in Cycles : cycle[d].todo \subseteq Item /\ cycle[d].acks \subseteq Item
      /\ UNCHANGED <<account, store, report>>
      /\ host' = [host EXCEPT ![u] = p]
      /\ cycle' = [cycle EXCEPT ![c].acks = cycle[c].acks \ {a},
                                ![c].sending = (cycle[c].acks # {a})]
  BY Zenon DEF IInv, TypeOK, Run, HostAck
<1>2. u \in Users /\ a \in Item /\ a.epoch \in Nat /\ a.kind \in {"stored", "revoked"} /\ r \in Row
  BY <1>1 DEF Item
<1>3. /\ cycle' \in [Cycles -> Run]
      /\ \A d \in Cycles : /\ cycle'[d].todo \subseteq cycle[d].todo
                            /\ cycle'[d].acks \subseteq cycle[d].acks
  <2>1. cycle[c].acks \ {a} \in SUBSET Item /\ (cycle[c].acks # {a}) \in BOOLEAN
    BY <1>1
  <2>2. /\ cycle' \in [Cycles -> Run]
        /\ cycle'[c].todo = cycle[c].todo /\ cycle'[c].acks = cycle[c].acks \ {a}
        /\ \A d \in Cycles : d # c => cycle'[d] = cycle[d]
    BY <1>1, <2>1, RunAcksSending
  <2>3. QED BY <2>2
<1>4. host'[u] = p /\ \A w \in Users : w # u => host'[w] = host[w]
  BY <1>1, <1>2
<1>5. CASE p = r
  <2>1. host' = host
    BY <1>1, <1>2, <1>5
  <2>2. QED BY <1>1, <1>3, <2>1, RunsOnly
<1>6. CASE p # r
  <2>1. /\ p \in Row /\ p.epoch = r.epoch /\ r.epoch = a.epoch
        /\ p.token <=> p.status \in Leasable
        /\ \/ a.kind = "stored" /\ r.status \in Leasable /\ p.status = "active"
           \/ a.kind = "revoked" /\ r.status = "revocation_pending" /\ p.status = "revoked"
        /\ store[u] = [epoch |-> a.epoch, state |-> a.kind]
    BY <1>6, AckChanges
  <2>2. HasRow(u) /\ HasRow(u)' /\ \A w \in Users : w # u => (HasRow(w)' <=> HasRow(w))
    BY <1>4, <2>1 DEF HasRow, Leasable
  <2>3. store[u] = [epoch |-> a.epoch, state |-> a.kind]
    BY <2>1
  <2>4. host' \in [Users -> Row]
    BY <1>1, <2>1
  <2>5. TypeOK'
    BY <1>1, <1>3, <2>4 DEF IInv, TypeOK
  <2>6. TokenOnlyWhilePending'
    BY <1>4, <2>1 DEF IInv, TokenOnlyWhilePending
  <2>7. StoreInv'
    BY <1>1, <1>4, <2>1, <2>2 DEF IInv, StoreInv
  <2>8. ActiveMeansStored'
    BY <1>1, <1>4, <2>1, <2>3 DEF IInv, ActiveMeansStored, Held
  <2>9. RevokedInv'
    BY <1>1, <1>4, <2>1, <2>3 DEF IInv, RevokedInv
  <2>10. ASSUME NEW i \in Item, KnownOf(i) PROVE KnownOf(i)'
    <3>1. i.user \in Users
      BY DEF Item
    <3>2. CASE i.user = u
      <4>1. p.status \in Withdrawn <=> r.status \in Withdrawn
        BY <2>1 DEF Withdrawn, Leasable
      <4>2. QED BY <1>4, <2>1, <2>2, <2>10, <3>2, <4>1 DEF KnownOf
    <3>3. CASE i.user # u
      BY <1>1, <1>4, <2>2, <2>10, <3>1, <3>3 DEF KnownOf
    <3>4. QED BY <3>2, <3>3
  <2>11. ItemInv'
    BY <1>1, <1>3, <2>10 DEF IInv, ItemInv
  <2>12. AckInv'
    BY <1>1, <1>3 DEF IInv, AckInv, DoneOf
  <2>13. LeaseInv'
    BY <1>3, LeasesShrink DEF IInv
  <2>14. QED BY <2>5, <2>6, <2>7, <2>8, <2>9, <2>11, <2>12, <2>13 DEF IInv
<1>7. QED BY <1>5, <1>6

\* Steps that change rows one way or another, all of them advances.
LEMMA SweepAdvances ==
  ASSUME IInv,
         \/ \E u \in Users : Revoke(u)
         \/ ReadStatus
         \/ LostPull
         \/ \E u \in Users : RecordSync(u)
         \/ Tick
  PROVE  /\ UNCHANGED <<account, store, cycle>> /\ report' \in [Users -> Nat]
         /\ host' \in [Users -> Row]
         /\ \A u \in Users : Advances(host[u], host'[u])
<1> DEFINE Goal == /\ UNCHANGED <<account, store, cycle>> /\ report' \in [Users -> Nat]
                  /\ host' \in [Users -> Row]
                  /\ \A u \in Users : Advances(host[u], host'[u])
<1>1. /\ account \in [Users -> BOOLEAN] /\ host \in [Users -> Row]
      /\ report \in [Users -> Nat]
      /\ \A u \in Users : host[u].token <=> host[u].status \in Leasable
  BY DEF IInv, TypeOK, TokenOnlyWhilePending
<1>2. \A u \in Users : Advances(host[u], host[u])
  BY <1>1 DEF Advances
<1>3. ASSUME NEW u \in Users, Revoke(u) PROVE Goal
  <2>1. /\ host' = [host EXCEPT ![u] = Withdraw(host[u])]
        /\ UNCHANGED <<account, store, cycle, report>>
        /\ host[u].status \notin {"none", "revoked"}
    BY <1>3 DEF Revoke, HasRow, Withdrawn
  <2>2. Advances(host[u], Withdraw(host[u]))
    BY <1>1, <2>1, WithdrawAdvances
  <2>3. \A w \in Users : Advances(host[w], host'[w])
    BY <1>1, <1>2, <2>1, <2>2
  <2>4. host' \in [Users -> Row]
    BY <1>1, <2>1, <2>2 DEF Advances
  <2>5. QED BY <1>1, <2>1, <2>3, <2>4
<1>4. CASE ReadStatus
  <2>1. \A w \in Users : Advances(host[w], host'[w])
    BY <1>1, <1>4, PurgeAdvances DEF ReadStatus
  <2>2. host' \in [Users -> Row]
    BY <1>4, <2>1 DEF ReadStatus, Advances
  <2>3. QED BY <1>1, <1>4, <2>1, <2>2 DEF ReadStatus
<1>5. CASE LostPull
  <2>1. PICK l \in FreshLeases : host' = [u \in Users |-> LeaseRow(host[u], l)]
    BY <1>5 DEF LostPull
  <2>2. \A w \in Users : Advances(host[w], host'[w])
    BY <1>1, <2>1, LeaseAdvances DEF FreshLeases
  <2>3. host' \in [Users -> Row]
    BY <2>1, <2>2 DEF Advances
  <2>4. QED BY <1>1, <1>5, <2>2, <2>3 DEF LostPull
<1>6. ASSUME NEW u \in Users, RecordSync(u) PROVE Goal
  <2>1. report' \in [Users -> Nat] /\ UNCHANGED <<account, store, cycle>>
    BY <1>1, <1>6 DEF RecordSync
  <2>2. CASE host' = host
    BY <1>1, <1>2, <2>1, <2>2
  <2>3. ASSUME NEW s \in Held, host[u].status \in Held,
               host' = [host EXCEPT ![u].status = s]
        PROVE  Goal
    <3>1. host' = [host EXCEPT ![u] = [host[u] EXCEPT !.status = s]]
      BY <2>3
    <3>2. Advances(host[u], [host[u] EXCEPT !.status = s])
      <4>1. s \in Statuses /\ s \notin Leasable /\ host[u].status \notin Leasable
        BY <2>3 DEF Statuses, Held, Leasable
      <4>2. QED BY <1>1, <2>3, <4>1 DEF Advances, Row
    <3>3. \A w \in Users : Advances(host[w], host'[w])
      BY <1>1, <1>2, <3>1, <3>2
    <3>4. host' \in [Users -> Row]
      BY <1>1, <3>1, <3>2 DEF Advances
    <3>5. QED BY <1>1, <2>1, <3>3, <3>4
  <2>4. QED BY <1>6, <2>2, <2>3 DEF RecordSync
<1>7. CASE Tick
  <2> DEFINE aged(r) == [r EXCEPT
               !.age = IF r.status \in Leasable /\ @ < PendingTTL THEN @ + 1 ELSE @,
               !.left = IF @ > 0 THEN @ - 1 ELSE 0]
  <2>1. ASSUME NEW w \in Users PROVE Advances(host[w], aged(host[w]))
    <3>1. host[w] \in Row /\ host[w].left \in 0..LeaseTTL /\ host[w].age \in 0..PendingTTL
      BY <1>1 DEF Row
    <3>2. (IF host[w].left > 0 THEN host[w].left - 1 ELSE 0) \in 0..LeaseTTL
      BY <3>1, HandoffAssumption DEF HandoffAssumption
    <3>3. (IF host[w].status \in Leasable /\ host[w].age < PendingTTL
           THEN host[w].age + 1 ELSE host[w].age) \in 0..PendingTTL
      BY <3>1, HandoffAssumption DEF HandoffAssumption
    <3>4. aged(host[w]) \in Row
      BY <3>1, <3>2, <3>3, Zenon DEF Row
    <3>5. /\ aged(host[w]).epoch = host[w].epoch /\ aged(host[w]).status = host[w].status
          /\ aged(host[w]).token = host[w].token
      BY <3>1 DEF Row
    <3>6. QED BY <1>1, <3>4, <3>5 DEF Advances
  <2>2. host' = [u \in Users |-> aged(host[u])]
    BY <1>7 DEF Tick
  <2>3. \A w \in Users : Advances(host[w], host'[w])
    BY <2>1, <2>2
  <2>4. host' \in [Users -> Row]
    BY <2>1, <2>2 DEF Advances
  <2>5. QED BY <1>1, <1>7, <2>3, <2>4 DEF Tick
<1>8. QED BY <1>3, <1>4, <1>5, <1>6, <1>7

\* So they keep the invariant.
LEMMA SweepKeeps ==
  ASSUME IInv,
         \/ \E u \in Users : Revoke(u)
         \/ ReadStatus
         \/ LostPull
         \/ \E u \in Users : RecordSync(u)
         \/ Tick
  PROVE  IInv'
<1>1. /\ UNCHANGED <<account, store, cycle>> /\ report' \in [Users -> Nat]
      /\ host' \in [Users -> Row]
      /\ \A u \in Users : Advances(host[u], host'[u])
  BY SweepAdvances
<1>2. account' \in [Users -> BOOLEAN] /\ \A u \in Users : account'[u] => account[u]
  BY <1>1 DEF IInv, TypeOK
<1>3. QED BY <1>1, <1>2, RowsOnly

\* A stale item is dropped, a good one is applied.
LEMMA ApplyKeeps ==
  ASSUME IInv, NEW c \in Cycles, NEW i \in cycle[c].todo,
         StoreToken(c, i) \/ DeleteConnection(c, i)
  PROVE  IInv'
<1>1. /\ UNCHANGED <<account, host, report>>
      /\ store \in [Users -> Version] /\ cycle \in [Cycles -> Run]
      /\ report \in [Users -> Nat] /\ i \in Item /\ cycle[c].todo \in SUBSET Item
  BY DEF IInv, TypeOK, Run, StoreToken, DeleteConnection
<1>2. store[i.user] \in Version
  BY <1>1 DEF Item
<1>3. CASE UNCHANGED store /\ cycle' = [cycle EXCEPT ![c].todo = cycle[c].todo \ {i}]
  <2>1. cycle[c].todo \ {i} \in SUBSET Item
    BY <1>1
  <2>2. /\ cycle' \in [Cycles -> Run]
        /\ cycle'[c].todo = cycle[c].todo \ {i} /\ cycle'[c].acks = cycle[c].acks
        /\ \A d \in Cycles : d # c => cycle'[d] = cycle[d]
    BY <1>1, <1>3, <2>1, RunTodo
  <2>3. \A d \in Cycles : /\ cycle'[d].todo \subseteq cycle[d].todo
                          /\ cycle'[d].acks \subseteq cycle[d].acks
    BY <2>2
  <2>4. QED BY <1>1, <1>3, <2>2, <2>3, RunsOnly
<1>4. CASE /\ \/ store[i.user].epoch < i.epoch
              \/ store[i.user] = [epoch |-> i.epoch, state |-> i.kind]
           /\ store' = [store EXCEPT ![i.user] = [epoch |-> i.epoch, state |-> i.kind]]
           /\ cycle' = [cycle EXCEPT ![c].todo = cycle[c].todo \ {i},
                                     ![c].acks = cycle[c].acks \union {i}]
  BY <1>1, <1>4, ItemApplied
<1>5. CASE StoreToken(c, i)
  BY <1>2, <1>3, <1>4, <1>5 DEF StoreToken, StoreAccepted, Version
<1>6. CASE DeleteConnection(c, i)
  BY <1>2, <1>3, <1>4, <1>6 DEF DeleteConnection, DeleteAccepted, Version
<1>7. QED BY <1>5, <1>6

\* Runs that fail, end or send their acks, and reports that start or get lost.
LEMMA DropKeeps ==
  ASSUME IInv,
         \/ \E c \in Cycles : \E i \in cycle[c].todo : StoreFails(c, i)
         \/ \E c \in Cycles : SendAcks(c)
         \/ \E c \in Cycles : Abort(c)
         \/ \E u \in Users : StartReport(u)
         \/ \E u \in Users : LoseReport(u)
  PROVE  IInv'
<1>1. /\ cycle \in [Cycles -> Run] /\ report \in [Users -> Nat]
      /\ store \in [Users -> Version]
      /\ \A c \in Cycles : cycle[c].todo \in SUBSET Item
  BY DEF IInv, TypeOK, Run
<1>2. ASSUME NEW c \in Cycles, NEW i \in cycle[c].todo, StoreFails(c, i) PROVE IInv'
  <2>1. cycle[c].todo \ {i} \in SUBSET Item
    BY <1>1
  <2>2. /\ cycle' \in [Cycles -> Run]
        /\ cycle'[c].todo = cycle[c].todo \ {i} /\ cycle'[c].acks = cycle[c].acks
        /\ \A d \in Cycles : d # c => cycle'[d] = cycle[d]
    BY <1>1, <1>2, <2>1, RunTodo DEF StoreFails
  <2>3. \A d \in Cycles : /\ cycle'[d].todo \subseteq cycle[d].todo
                          /\ cycle'[d].acks \subseteq cycle[d].acks
    BY <2>2
  <2>4. QED BY <1>1, <1>2, <2>2, <2>3, RunsOnly DEF StoreFails
<1>3. ASSUME NEW c \in Cycles, cycle' = [cycle EXCEPT ![c] = IdleRun],
             UNCHANGED <<account, host, store, report>>
      PROVE  IInv'
  <2>1. /\ cycle' \in [Cycles -> Run]
        /\ cycle'[c].todo = {} /\ cycle'[c].acks = {}
        /\ \A d \in Cycles : d # c => cycle'[d] = cycle[d]
    BY <1>1, <1>3, RunIdle
  <2>2. \A d \in Cycles : /\ cycle'[d].todo \subseteq cycle[d].todo
                          /\ cycle'[d].acks \subseteq cycle[d].acks
    BY <2>1
  <2>3. QED BY <1>1, <1>3, <2>1, <2>2, RunsOnly
<1>4. ASSUME NEW c \in Cycles, SendAcks(c) PROVE IInv'
  <2>1. CASE cycle' = [cycle EXCEPT ![c].sending = TRUE]
    <3>1. /\ cycle' \in [Cycles -> Run]
          /\ cycle'[c].todo = cycle[c].todo /\ cycle'[c].acks = cycle[c].acks
          /\ \A d \in Cycles : d # c => cycle'[d] = cycle[d]
      BY <1>1, <2>1, RunSending
    <3>2. \A d \in Cycles : /\ cycle'[d].todo \subseteq cycle[d].todo
                            /\ cycle'[d].acks \subseteq cycle[d].acks
      BY <3>1
    <3>3. QED BY <1>1, <1>4, <3>1, <3>2, RunsOnly DEF SendAcks
  <2>2. CASE cycle' = [cycle EXCEPT ![c] = IdleRun]
    BY <1>3, <1>4, <2>2 DEF SendAcks
  <2>3. QED BY <1>4, <2>1, <2>2 DEF SendAcks
<1>5. ASSUME NEW c \in Cycles, Abort(c) PROVE IInv'
  BY <1>3, <1>5 DEF Abort
<1>6. ASSUME NEW u \in Users, StartReport(u) \/ LoseReport(u) PROVE IInv'
  <2>1. report' \in [Users -> Nat]
    BY <1>1, <1>6 DEF StartReport, LoseReport, Version
  <2>2. UNCHANGED <<account, host, store, cycle>>
    BY <1>6 DEF StartReport, LoseReport
  <2>3. QED BY <1>1, <2>1, <2>2, RunsOnly
<1>7. QED BY <1>2, <1>4, <1>5, <1>6

-----------------------------------------------------------------------------
(* The theorems.                                                           *)

\* The initial states satisfy the invariant, poisoned legacy rows included.
LEMMA InitIInv == Init => IInv
<1> SUFFICES ASSUME Init PROVE IInv
  OBVIOUS
<1>1. 0 \in 0..LeaseTTL /\ 0 \in 0..PendingTTL
  BY HandoffAssumption DEF HandoffAssumption
<1>2. NoRow \in Row /\ LegacyRow \in Row
  BY <1>1 DEF NoRow, LegacyRow, Row, Statuses, Leasable
<1>3. \A u \in Users : host[u] \in {NoRow, LegacyRow} /\ store[u] = NoVersion
  BY DEF Init
<1>4. TypeOK
  BY <1>2 DEF Init, TypeOK, Version, NoVersion, Run, IdleRun
<1>5. \A u \in Users : \/ /\ host[u].status = "none" /\ host[u].epoch = 0
                          /\ host[u].token = FALSE
                       \/ /\ host[u].status = "pending" /\ host[u].epoch = 1
                          /\ host[u].token = TRUE
  <2>1. NoRow.status = "none" /\ NoRow.epoch = 0 /\ NoRow.token = FALSE
    BY DEF NoRow
  <2>2. LegacyRow.status = "pending" /\ LegacyRow.epoch = 1 /\ LegacyRow.token = TRUE
    BY DEF LegacyRow, NoRow
  <2>3. QED BY <1>3, <2>1, <2>2
<1>6. \A u \in Users : store[u].epoch = 0 /\ store[u].state = "none"
  BY <1>3 DEF NoVersion
<1>7. TokenOnlyWhilePending /\ ActiveMeansStored /\ RevokedInv
  BY <1>5 DEF TokenOnlyWhilePending, ActiveMeansStored, RevokedInv, Leasable, Held
<1>8. StoreInv
  BY <1>5, <1>6 DEF StoreInv, HasRow
<1>9. \A c \in Cycles : cycle[c].todo = {} /\ cycle[c].acks = {}
  BY DEF Init, IdleRun
<1>10. ItemInv /\ AckInv /\ LeaseInv
  BY <1>9 DEF ItemInv, AckInv, LeaseInv, LeasesOf
<1>11. QED BY <1>4, <1>7, <1>8, <1>10 DEF IInv

\* Every step preserves the invariant.
LEMMA NextIInv == IInv /\ [Next]_vars => IInv'
<1> SUFFICES ASSUME IInv, [Next]_vars PROVE IInv'
  OBVIOUS
<1>1. ASSUME NEW u \in Users, Submit(u) PROVE IInv'
  BY <1>1, SubmitKeeps
<1>2. ASSUME NEW u \in Users, DeleteUser(u) PROVE IInv'
  BY <1>2, DeleteKeeps
<1>3. ASSUME NEW c \in Cycles, Pull(c) PROVE IInv'
  BY <1>3, PullKeeps
<1>4. ASSUME NEW c \in Cycles, NEW u \in Users, ApplyItem(c, u) PROVE IInv'
  BY <1>4, ApplyKeeps DEF ApplyItem
<1>5. ASSUME NEW c \in Cycles, NEW u \in Users, ApplyAckOf(c, u) PROVE IInv'
  BY <1>5, HostAckKeeps DEF ApplyAckOf
<1>6. CASE \/ \E u \in Users : Revoke(u)
           \/ ReadStatus
           \/ LostPull
           \/ \E u \in Users : RecordSync(u)
           \/ Tick
  BY <1>6, SweepKeeps
<1>7. CASE \/ \E c \in Cycles : \E i \in cycle[c].todo : StoreFails(c, i)
           \/ \E c \in Cycles : SendAcks(c)
           \/ \E c \in Cycles : Abort(c)
           \/ \E u \in Users : StartReport(u)
           \/ \E u \in Users : LoseReport(u)
  BY <1>7, DropKeeps
<1>8. CASE UNCHANGED vars
  <2>1. UNCHANGED <<account, host, store, cycle, report>>
    BY <1>8 DEF vars
  <2>2. report' \in [Users -> Nat] /\ cycle' \in [Cycles -> Run]
    BY <2>1 DEF IInv, TypeOK
  <2>3. QED BY <2>1, <2>2, RunsOnly
<1>9. QED
  BY <1>1, <1>2, <1>3, <1>4, <1>5, <1>6, <1>7, <1>8
     DEF Next, RegularStep, FailureStep, UserStep, CycleStep, ReportStep

\* What is known of the rows, of the versions and of the runs in progress is
\* an invariant for every set of users and of runs (handoff.py, worker_sync.py
\* and worker_store.py together).
THEOREM Invariant == Spec => []IInv
BY InitIInv, NextIInv, PTL DEF Spec

\* The variables have their types.
THEOREM TypeCorrect == Spec => []TypeOK
<1>1. IInv => TypeOK
  BY DEF IInv
<1>2. QED BY <1>1, Invariant, PTL

\* A connection reads active or error only over the worker's copy of that very
\* epoch (handoff.py:708-758).
THEOREM ActiveIsStored == Spec => []ActiveMeansStored
<1>1. IInv => ActiveMeansStored
  BY DEF IInv
<1>2. QED BY <1>1, Invariant, PTL

\* The plaintext of a token is on the host exactly while its connection waits:
\* acks, expiry, withdrawal and deletion all wipe it (handoff.py).
THEOREM TokenOnlyWaits == Spec => []TokenOnlyWhilePending
<1>1. IInv => TokenOnlyWhilePending
  BY DEF IInv
<1>2. QED BY <1>1, Invariant, PTL

\* A revoked connection leaves no copy in the worker's store, now or later
\* (handoff.py:505-514).
THEOREM RevokedIsGone == Spec => []RevokedMeansNoCopy
<1>1. IInv => RevokedMeansNoCopy
  <2> SUFFICES ASSUME IInv, NEW u \in Users, host[u].status = "revoked"
               PROVE  /\ store[u].state # "stored"
                      /\ \A c \in Cycles : \A i \in cycle[c].todo :
                           i.user = u /\ i.kind = "stored" => ~ StoreAccepted(store[u], i.epoch)
    BY DEF RevokedMeansNoCopy
  <2>1. store[u].epoch = host[u].epoch /\ store[u].state = "revoked"
    <3>1. store[u] = [epoch |-> host[u].epoch, state |-> "revoked"]
      BY DEF IInv, RevokedInv
    <3>2. QED BY <3>1
  <2>2. host[u].epoch \in Nat
    BY DEF IInv, TypeOK, Row
  <2>3. ASSUME NEW c \in Cycles, NEW i \in cycle[c].todo, i.user = u
        PROVE  i.epoch \in Nat /\ i.epoch <= host[u].epoch
    BY <2>3 DEF IInv, TypeOK, Run, Item, ItemInv, KnownOf, HasRow
  <2>4. QED BY <2>1, <2>2, <2>3 DEF StoreAccepted
<1>2. QED BY <1>1, Invariant, PTL

\* With the account and its row nothing of the token is left
\* (security.py:860-892).
THEOREM DeletedIsGone == Spec => []DeletedLeavesNothing
<1>1. IInv => DeletedLeavesNothing
  <2> SUFFICES ASSUME IInv, NEW u \in Users, ~ HasRow(u)
               PROVE  /\ store[u].state # "stored"
                      /\ \A c \in Cycles : \A i \in cycle[c].todo :
                           i.user = u /\ i.kind = "stored" => ~ StoreAccepted(store[u], i.epoch)
    BY DEF DeletedLeavesNothing
  <2>1. store[u].state # "stored" /\ store[u].epoch \in Nat
    BY DEF IInv, TypeOK, Version, StoreInv
  <2>2. ASSUME NEW c \in Cycles, NEW i \in cycle[c].todo, i.user = u
        PROVE  i.epoch \in Nat /\ i.epoch <= store[u].epoch
    BY <2>2 DEF IInv, TypeOK, Run, Item, ItemInv, KnownOf
  <2>3. QED BY <2>1, <2>2 DEF StoreAccepted
<1>2. QED BY <1>1, Invariant, PTL

\* Exactly one lease can acknowledge an epoch: never two runs
\* (handoff.py:624-625).
THEOREM LeaseIsExclusive == Spec => []OneUsableLease
<1>1. IInv => OneUsableLease
  BY DEF IInv, LeaseInv, LeasesOf, OneUsableLease, StoredAckAccepted
<1>2. QED BY <1>1, Invariant, PTL

\* A copy is stored only while the host still waits for it or takes it back.
THEOREM StoredOnlyUnsettled == Spec => NoStoreOnceSettled
<1> DEFINE A == \A u \in Users : store'[u] # store[u] /\ store'[u].state = "stored" =>
                   host[u].status \in Leasable \union {"revocation_pending"}
<1>1. IInv /\ Next => A
  <2> SUFFICES ASSUME IInv, Next, NEW u \in Users,
                      store'[u] # store[u], store'[u].state = "stored"
               PROVE  host[u].status \in Leasable \union {"revocation_pending"}
    OBVIOUS
  <2>1. PICK c \in Cycles : \E i \in cycle[c].todo : StoreToken(c, i) \/ DeleteConnection(c, i)
    BY DEF Next, RegularStep, FailureStep, UserStep, CycleStep, ReportStep, Submit, Revoke,
           DeleteUser, ReadStatus, LostPull, Pull, ApplyItem, ApplyAckOf, HostAck, StoreFails,
           SendAcks, Abort, StartReport, RecordSync, LoseReport, Tick
  <2>2. PICK i \in cycle[c].todo : StoreToken(c, i) \/ DeleteConnection(c, i)
    BY <2>1
  <2>3. /\ store \in [Users -> Version] /\ host \in [Users -> Row]
        /\ i \in Item /\ i.user \in Users /\ i.epoch \in Nat /\ KnownOf(i)
    BY DEF IInv, TypeOK, Run, Item, ItemInv
  <2>4. i.user = u /\ store[u].epoch < i.epoch
    <3>1. CASE StoreToken(c, i)
      <4>1. /\ StoreAccepted(store[i.user], i.epoch)
            /\ store' = [store EXCEPT ![i.user] = [epoch |-> i.epoch, state |-> "stored"]]
        BY <3>1 DEF StoreToken
      <4>2. i.user = u
        BY <2>3, <4>1
      <4>3. store'[u] = [epoch |-> i.epoch, state |-> "stored"] /\ store[u] \in Version
        BY <2>3, <4>1, <4>2
      <4>4. ~ (store[u].epoch = i.epoch /\ store[u].state = "stored")
        BY <4>3 DEF Version
      <4>5. QED BY <4>1, <4>2, <4>4 DEF StoreAccepted
    <3>2. CASE DeleteConnection(c, i)
      <4>1. \/ store' = store
            \/ store' = [store EXCEPT ![i.user] = [epoch |-> i.epoch, state |-> "revoked"]]
        BY <3>2 DEF DeleteConnection
      <4>2. QED BY <2>3, <4>1
    <3>3. QED BY <2>2, <3>1, <3>2
  <2>5. HasRow(u) /\ store[u].epoch < host[u].epoch
    BY <2>3, <2>4 DEF KnownOf, Version, Row
  <2>6. host[u].status \notin Held
    <3>1. ASSUME host[u].status \in Held PROVE store[u].epoch = host[u].epoch
      <4>1. store[u] = [epoch |-> host[u].epoch, state |-> "stored"]
        BY <3>1 DEF IInv, ActiveMeansStored
      <4>2. QED BY <4>1
    <3>2. QED BY <2>3, <2>5, <3>1 DEF Version, Row
  <2>7. host[u].status # "revoked"
    <3>1. ASSUME host[u].status = "revoked" PROVE store[u].epoch = host[u].epoch
      <4>1. store[u] = [epoch |-> host[u].epoch, state |-> "revoked"]
        BY <3>1 DEF IInv, RevokedInv
      <4>2. QED BY <4>1
    <3>2. QED BY <2>3, <2>5, <3>1 DEF Version, Row
  <2>8. QED BY <2>3, <2>5, <2>6, <2>7 DEF HasRow, Row, Statuses, Withdrawn
<1>2. IInv /\ [Next]_vars => [A]_vars
  BY <1>1
<1>3. QED BY <1>2, Invariant, PTL DEF Spec, NoStoreOnceSettled

-----------------------------------------------------------------------------
(* Handoff implements TokenCustody.  Rows that only advance take tokens    *)
(* back; what an ack or an item does depends on the invariant: the host's  *)
(* epoch and the worker's version tell the same story although neither     *)
(* side sees the other's.                                                  *)

\* A row's phase, from its status.
LEMMA PhaseFacts ==
  ASSUME NEW u \in Users, host[u] \in Row
  PROVE  /\ host[u].status = "none" => PhaseOf(u) = IF account[u] THEN "none" ELSE "gone"
         /\ host[u].status \in Leasable => PhaseOf(u) = "offered"
         /\ host[u].status \in Held => PhaseOf(u) = "held"
         /\ host[u].status = "revocation_pending" => PhaseOf(u) = "withdrawn"
         /\ host[u].status = "revoked" => PhaseOf(u) = "revoked"
         /\ host[u].status \in {"none", "revocation_pending", "revoked"} \union Leasable \union Held
BY DEF PhaseOf, Leasable, Held, Withdrawn, Statuses, Row

\* The same one step later.
LEMMA PhaseFactsNext ==
  ASSUME NEW u \in Users
  PROVE  /\ host'[u].status = "none" => PhaseOf(u)' = IF account'[u] THEN "none" ELSE "gone"
         /\ host'[u].status \in Leasable => PhaseOf(u)' = "offered"
         /\ host'[u].status \in Held => PhaseOf(u)' = "held"
         /\ host'[u].status = "revocation_pending" => PhaseOf(u)' = "withdrawn"
         /\ host'[u].status = "revoked" => PhaseOf(u)' = "revoked"
BY DEF PhaseOf, Leasable, Held, Withdrawn, Statuses, Row

\* Taking back the tokens of any set of users is a step of TokenCustody.
LEMMA TakeBackIsStep ==
  ASSUME NEW S \in SUBSET Users, Custody!TakeBack(S)
  PROVE  Custody!CNext
BY DEF Custody!CNext

\* What the host reads as settled is at the epoch of the worker's store.
LEMMA SettledIsLevel ==
  ASSUME IInv, NEW u \in Users, host[u].status \in Held \/ host[u].status = "revoked"
  PROVE  store[u].epoch = host[u].epoch
<1>1. \/ store[u] = [epoch |-> host[u].epoch, state |-> "stored"]
      \/ store[u] = [epoch |-> host[u].epoch, state |-> "revoked"]
  BY DEF IInv, ActiveMeansStored, RevokedInv
<1>2. QED BY <1>1

\* Rows that advance while nothing else changes: the tokens whose epoch moves
\* are taken back.
LEMMA RowsTakeBack ==
  ASSUME IInv, UNCHANGED store, host' \in [Users -> Row],
         \A u \in Users : Advances(host[u], host'[u]),
         \A u \in Users : host[u].status = "none" => account'[u] = account[u]
  PROVE  Custody!CNext
<1> DEFINE S == {u \in Users : host'[u].epoch # host[u].epoch}
<1>1. host \in [Users -> Row]
  BY DEF IInv, TypeOK
<1>2. \A u \in Users : host[u].epoch \in Nat
  BY <1>1 DEF Row
<1>3. ASSUME NEW u \in S
      PROVE  /\ PhaseOf(u) \in {"offered", "held", "withdrawn"}
             /\ PhaseOf(u)' = "withdrawn" /\ host'[u].epoch = host[u].epoch + 1
  <2>1. /\ host'[u].epoch = host[u].epoch + 1 /\ host'[u].status = "revocation_pending"
        /\ host[u].status \notin {"none", "revoked"}
    BY DEF Advances
  <2>2. QED BY <1>1, <2>1, PhaseFacts, PhaseFactsNext
<1>4. ASSUME NEW u \in Users, u \notin S
      PROVE  PhaseOf(u)' = PhaseOf(u) /\ host'[u].epoch = host[u].epoch
  <2>1. /\ host'[u].epoch = host[u].epoch
        /\ \/ host'[u].status = host[u].status
           \/ host'[u].status \in Held /\ host[u].status \in Held
    BY <1>2, <1>4 DEF Advances
  <2>2. QED BY <1>1, <2>1, PhaseFacts, PhaseFactsNext
<1>5. [u \in Users |-> PhaseOf(u)]' =
        [u \in Users |-> IF u \in S THEN "withdrawn" ELSE [w \in Users |-> PhaseOf(w)][u]]
  BY <1>3, <1>4
<1>6. [u \in Users |-> host[u].epoch]' =
        [u \in Users |-> IF u \in S THEN [w \in Users |-> host[w].epoch][u] + 1
                                    ELSE [w \in Users |-> host[w].epoch][u]]
  BY <1>3, <1>4
<1>7. [u \in Users |-> CopyOf(u)]' = [u \in Users |-> CopyOf(u)]
  BY DEF CopyOf
<1>8. PICK T \in SUBSET Users : T = S
  OBVIOUS
<1>9. Custody!TakeBack(T)
  BY <1>3, <1>5, <1>6, <1>7, <1>8 DEF Custody!TakeBack
<1>10. QED BY <1>9, TakeBackIsStep

\* A step that leaves rows, accounts and store alone is invisible.
LEMMA Unseen ==
  ASSUME UNCHANGED <<account, host, store>>
  PROVE  UNCHANGED Custody!cvars
BY DEF Custody!cvars, PhaseOf, CopyOf

\* A token handed in is offered.
LEMMA SubmitOffers ==
  ASSUME IInv, NEW u \in Users, Submit(u)
  PROVE  Custody!CNext
<1>1. /\ host \in [Users -> Row] /\ account[u]
      /\ UNCHANGED <<account, store>>
      /\ \A w \in Users : w # u => host'[w] = host[w]
      /\ host'[u].epoch = host[u].epoch + 1 /\ host'[u].status \in Leasable
  BY DEF IInv, TypeOK, Submit, Leasable
<1>2. PhaseOf(u) # "gone" /\ PhaseOf(u)' = "offered"
  <2>1. PhaseOf(u) # "gone"
    BY <1>1, PhaseFacts
  <2>2. PhaseOf(u)' = "offered"
    BY <1>1, PhaseFactsNext
  <2>3. QED BY <2>1, <2>2
<1>3. \A w \in Users : w # u => PhaseOf(w)' = PhaseOf(w)
  BY <1>1 DEF PhaseOf
<1>4. [w \in Users |-> PhaseOf(w)]' = [[w \in Users |-> PhaseOf(w)] EXCEPT ![u] = "offered"]
  BY <1>2, <1>3
<1>5. [w \in Users |-> host[w].epoch]' =
        [[w \in Users |-> host[w].epoch] EXCEPT ![u] = @ + 1]
  BY <1>1
<1>6. [w \in Users |-> CopyOf(w)]' = [w \in Users |-> CopyOf(w)]
  BY <1>1 DEF CopyOf
<1>7. Custody!Offer(u)
  BY <1>2, <1>4, <1>5, <1>6 DEF Custody!Offer
<1>8. QED BY <1>7 DEF Custody!CNext

\* An account that goes takes its row along or takes its token back.
LEMMA DeleteForgets ==
  ASSUME IInv, NEW u \in Users, DeleteUser(u)
  PROVE  Custody!CNext \/ UNCHANGED Custody!cvars
<1>1. /\ account \in [Users -> BOOLEAN] /\ host \in [Users -> Row]
      /\ account' = [account EXCEPT ![u] = FALSE] /\ UNCHANGED store
      /\ NoRow.status = "none" /\ NoRow.epoch = 0
  BY DEF IInv, TypeOK, DeleteUser, NoRow
<1>2. CASE host[u].status \notin {"none", "revoked"} /\ host' = [host EXCEPT ![u] = Withdraw(@)]
  <2>1. \A w \in Users : Advances(host[w], host[w])
    BY <1>1 DEF Advances, IInv, TokenOnlyWhilePending
  <2>2. Advances(host[u], Withdraw(host[u]))
    BY <1>1, <1>2, WithdrawAdvances
  <2>3. \A w \in Users : Advances(host[w], host'[w])
    BY <1>1, <1>2, <2>1, <2>2
  <2>4. host' \in [Users -> Row]
    BY <1>1, <1>2, <2>2 DEF Advances
  <2>5. \A w \in Users : host[w].status = "none" => account'[w] = account[w]
    BY <1>1, <1>2
  <2>6. QED BY <1>1, <2>3, <2>4, <2>5, RowsTakeBack
<1>3. CASE host[u].status \in {"none", "revoked"} /\ host' = [host EXCEPT ![u] = NoRow]
  <2>1. PhaseOf(u)' = "gone" /\ host'[u].epoch = 0
    <3>1. host'[u].status = "none" /\ host'[u].epoch = 0 /\ ~ account'[u]
      BY <1>1, <1>3
    <3>2. QED BY <3>1, PhaseFactsNext
  <2>2. \A w \in Users : w # u => PhaseOf(w)' = PhaseOf(w) /\ host'[w] = host[w]
    BY <1>1, <1>3 DEF PhaseOf
  <2>3. \A w \in Users : CopyOf(w)' = CopyOf(w)
    BY <1>1 DEF CopyOf
  <2>4. store[u].state # "stored"
    <3>1. CASE host[u].status = "none"
      BY <3>1 DEF IInv, StoreInv, HasRow
    <3>2. CASE host[u].status = "revoked"
      <4>1. store[u] = [epoch |-> host[u].epoch, state |-> "revoked"]
        BY <3>2 DEF IInv, RevokedInv
      <4>2. QED BY <4>1
    <3>3. QED BY <1>3, <3>1, <3>2
  <2>5. CASE host[u].status = "none" /\ ~ account[u]
    <3>1. PhaseOf(u)' = PhaseOf(u)
      BY <1>1, <2>1, <2>5, PhaseFacts
    <3>2. host'[u].epoch = host[u].epoch
      BY <2>1, <2>5 DEF IInv, StoreInv, HasRow
    <3>3. QED BY <2>2, <2>3, <3>1, <3>2 DEF Custody!cvars
  <2>6. CASE PhaseOf(u) \in {"none", "revoked"}
    <3>1. [w \in Users |-> PhaseOf(w)]' = [[w \in Users |-> PhaseOf(w)] EXCEPT ![u] = "gone"]
      BY <2>1, <2>2
    <3>2. [w \in Users |-> host[w].epoch]' = [[w \in Users |-> host[w].epoch] EXCEPT ![u] = 0]
      BY <2>1, <2>2
    <3>3. [w \in Users |-> CopyOf(w)]' = [w \in Users |-> CopyOf(w)]
      BY <2>3
    <3>4. CopyOf(u) = 0
      BY <2>4 DEF CopyOf
    <3>5. Custody!Forget(u)
      BY <2>6, <3>1, <3>2, <3>3, <3>4 DEF Custody!Forget
    <3>6. QED BY <3>5 DEF Custody!CNext
  <2>7. QED BY <1>1, <1>3, <2>5, <2>6, PhaseFacts
<1>4. QED BY <1>2, <1>3 DEF DeleteUser

\* Any one of the other steps is a step of TokenCustody.
LEMMA UserIsStep ==
  ASSUME NEW u \in Users,
         \/ Custody!Settle(u) \/ Custody!Purge(u) \/ Custody!Confirm(u)
         \/ \E g \in 1..host[u].epoch : Custody!Take(u, g)
  PROVE  Custody!CNext
BY DEF Custody!CNext

\* An item of a pull response is a copy taken, a copy purged, or nothing new.
LEMMA ItemTakes ==
  ASSUME IInv, NEW c \in Cycles, NEW i \in cycle[c].todo,
         StoreToken(c, i) \/ DeleteConnection(c, i)
  PROVE  Custody!CNext \/ UNCHANGED Custody!cvars
<1> DEFINE u == i.user
<1>1. /\ UNCHANGED <<account, host>> /\ i \in Item /\ u \in Users
      /\ host \in [Users -> Row] /\ store \in [Users -> Version]
      /\ i.epoch \in Nat \ {0} /\ KnownOf(i)
  BY DEF IInv, TypeOK, Run, Item, ItemInv, StoreToken, DeleteConnection
<1>2. store[u].epoch \in Nat /\ host[u].epoch \in Nat /\ CopyOf(u) <= store[u].epoch
  BY <1>1 DEF Row, Version, CopyOf
<1>3. /\ [w \in Users |-> PhaseOf(w)]' = [w \in Users |-> PhaseOf(w)]
      /\ [w \in Users |-> host[w].epoch]' = [w \in Users |-> host[w].epoch]
  BY <1>1 DEF PhaseOf
<1>4. CASE store' = store
  BY <1>1, <1>4, Unseen
<1>5. ASSUME NEW v \in Version, store' = [store EXCEPT ![u] = v]
      PROVE  /\ store'[u] = v
             /\ \A w \in Users : w # u => CopyOf(w)' = CopyOf(w)
  BY <1>1, <1>5 DEF CopyOf
<1>6. CASE StoreToken(c, i) /\ store' # store
  <2>1. /\ StoreAccepted(store[u], i.epoch)
        /\ store' = [store EXCEPT ![u] = [epoch |-> i.epoch, state |-> "stored"]]
    BY <1>6 DEF StoreToken
  <2>2. store[u].epoch < i.epoch
    <3>1. store[u] # [epoch |-> i.epoch, state |-> "stored"]
      BY <1>1, <1>6, <2>1
    <3>2. ~ (store[u].epoch = i.epoch /\ store[u].state = "stored")
      BY <1>1, <3>1 DEF Version
    <3>3. QED BY <2>1, <3>2 DEF StoreAccepted
  <2>3. HasRow(u) /\ i.epoch <= host[u].epoch
    BY <1>1, <1>2, <2>2 DEF KnownOf
  <2>4. host[u].status \notin Held /\ host[u].status # "revoked"
    <3>1. ASSUME host[u].status \in Held \/ host[u].status = "revoked" PROVE FALSE
      <4>1. store[u].epoch = host[u].epoch
        BY <1>1, <3>1, SettledIsLevel
      <4>2. QED BY <1>1, <1>2, <2>2, <2>3, <4>1
    <3>2. QED BY <3>1
  <2>5. PhaseOf(u) \in {"offered", "withdrawn"}
    BY <1>1, <2>3, <2>4, PhaseFacts DEF HasRow
  <2>6. [w \in Users |-> CopyOf(w)]' = [[w \in Users |-> CopyOf(w)] EXCEPT ![u] = i.epoch]
    <3>1. [epoch |-> i.epoch, state |-> "stored"] \in Version
      BY <1>1 DEF Version
    <3>2. /\ store'[u] = [epoch |-> i.epoch, state |-> "stored"]
          /\ \A w \in Users : w # u => CopyOf(w)' = CopyOf(w)
      BY <1>5, <2>1, <3>1
    <3>3. store'[u].epoch = i.epoch /\ store'[u].state = "stored"
      BY <3>2
    <3>4. CopyOf(u)' = i.epoch
      BY <3>3 DEF CopyOf
    <3>5. QED BY <3>2, <3>4
  <2>7. CopyOf(u) < i.epoch /\ i.epoch \in 1..host[u].epoch
    BY <1>1, <1>2, <2>2, <2>3 DEF CopyOf
  <2>8. Custody!Take(u, i.epoch)
    BY <1>1, <1>3, <2>5, <2>6, <2>7 DEF Custody!Take
  <2>9. QED BY <1>1, <2>7, <2>8, UserIsStep
<1>7. CASE DeleteConnection(c, i) /\ store' # store
  <2>1. /\ DeleteAccepted(store[u], i.epoch)
        /\ store' = [store EXCEPT ![u] = [epoch |-> i.epoch, state |-> "revoked"]]
    BY <1>7 DEF DeleteConnection
  <2>2. store[u].epoch < i.epoch
    <3>1. store[u] # [epoch |-> i.epoch, state |-> "revoked"]
      BY <1>1, <1>7, <2>1
    <3>2. ~ (store[u].epoch = i.epoch /\ store[u].state = "revoked")
      BY <1>1, <3>1 DEF Version
    <3>3. QED BY <2>1, <3>2 DEF DeleteAccepted
  <2>3. i.epoch <= host[u].epoch
    BY <1>1, <1>2, <2>2 DEF KnownOf
  <2>4. CopyOf(u) # host[u].epoch
    BY <1>1, <1>2, <2>2, <2>3
  <2>5. [w \in Users |-> CopyOf(w)]' = [[w \in Users |-> CopyOf(w)] EXCEPT ![u] = 0]
    <3>1. [epoch |-> i.epoch, state |-> "revoked"] \in Version
      BY <1>1 DEF Version
    <3>2. /\ store'[u] = [epoch |-> i.epoch, state |-> "revoked"]
          /\ \A w \in Users : w # u => CopyOf(w)' = CopyOf(w)
      BY <1>5, <2>1, <3>1
    <3>3. store'[u].epoch = i.epoch /\ store'[u].state = "revoked"
      BY <3>2
    <3>4. CopyOf(u)' = 0
      BY <3>3 DEF CopyOf
    <3>5. QED BY <3>2, <3>4
  <2>6. Custody!Purge(u)
    BY <1>1, <1>3, <2>4, <2>5 DEF Custody!Purge
  <2>7. QED BY <1>1, <2>6, UserIsStep
<1>8. QED BY <1>4, <1>6, <1>7

\* An ack settles or confirms, or it is ignored.
LEMMA AckSettles ==
  ASSUME IInv, NEW c \in Cycles, NEW a \in cycle[c].acks, HostAck(c, a)
  PROVE  Custody!CNext \/ UNCHANGED Custody!cvars
<1> DEFINE u == a.user
           p == ApplyAck(host[u], a)
<1>1. /\ host \in [Users -> Row] /\ a \in Item /\ u \in Users /\ a.epoch \in Nat \ {0}
      /\ UNCHANGED <<account, store>> /\ host' = [host EXCEPT ![u] = p]
  BY DEF IInv, TypeOK, Run, Item, HostAck
<1>2. CASE p = host[u]
  <2>1. host' = host
    BY <1>1, <1>2
  <2>2. QED BY <1>1, <2>1, Unseen
<1>3. CASE p # host[u]
  <2>1. /\ p.epoch = host[u].epoch /\ host[u].epoch = a.epoch
        /\ \/ a.kind = "stored" /\ host[u].status \in Leasable /\ p.status = "active"
           \/ a.kind = "revoked" /\ host[u].status = "revocation_pending" /\ p.status = "revoked"
        /\ store[u] = [epoch |-> a.epoch, state |-> a.kind]
    BY <1>3, AckChanges
  <2>2. host'[u] = p /\ \A w \in Users : w # u => host'[w] = host[w]
    BY <1>1
  <2>3. \A w \in Users : w # u => PhaseOf(w)' = PhaseOf(w)
    BY <1>1, <2>2 DEF PhaseOf
  <2>4. /\ [w \in Users |-> host[w].epoch]' = [w \in Users |-> host[w].epoch]
        /\ [w \in Users |-> CopyOf(w)]' = [w \in Users |-> CopyOf(w)]
    BY <1>1, <2>1, <2>2 DEF CopyOf
  <2>5. CASE a.kind = "stored"
    <3>1. PhaseOf(u) = "offered" /\ PhaseOf(u)' = "held"
      BY <1>1, <2>1, <2>2, <2>5, PhaseFacts, PhaseFactsNext DEF Held
    <3>2. [w \in Users |-> PhaseOf(w)]' = [[w \in Users |-> PhaseOf(w)] EXCEPT ![u] = "held"]
      BY <2>3, <3>1
    <3>3. CopyOf(u) = host[u].epoch
      BY <2>1, <2>5 DEF CopyOf
    <3>4. Custody!Settle(u)
      BY <1>1, <2>4, <3>1, <3>2, <3>3 DEF Custody!Settle
    <3>5. QED BY <1>1, <3>4, UserIsStep
  <2>6. CASE a.kind = "revoked"
    <3>1. PhaseOf(u) = "withdrawn" /\ PhaseOf(u)' = "revoked"
      BY <1>1, <2>1, <2>2, <2>6, PhaseFacts, PhaseFactsNext
    <3>2. [w \in Users |-> PhaseOf(w)]' = [[w \in Users |-> PhaseOf(w)] EXCEPT ![u] = "revoked"]
      BY <2>3, <3>1
    <3>3. CopyOf(u) = 0
      BY <2>1, <2>6 DEF CopyOf
    <3>4. Custody!Confirm(u)
      BY <1>1, <2>4, <3>1, <3>2, <3>3 DEF Custody!Confirm
    <3>5. QED BY <1>1, <3>4, UserIsStep
  <2>7. QED BY <2>1, <2>5, <2>6
<1>4. QED BY <1>2, <1>3

\* A pull sweeps and leases; the sweep may take tokens back.
LEMMA PullTakesBack ==
  ASSUME IInv, NEW c \in Cycles, Pull(c)
  PROVE  Custody!CNext
<1>1. PICK l \in FreshLeases : host' = [u \in Users |-> LeaseRow(host[u], l)]
  BY Zenon DEF Pull
<1>2. host \in [Users -> Row] /\ l \in Leases /\ UNCHANGED <<account, store>>
  BY DEF IInv, TypeOK, Pull, FreshLeases
<1>3. \A u \in Users : Advances(host[u], host'[u])
  BY <1>1, <1>2, LeaseAdvances DEF IInv, TokenOnlyWhilePending
<1>4. host' \in [Users -> Row]
  BY <1>1, <1>3 DEF Advances
<1>5. QED BY <1>2, <1>3, <1>4, RowsTakeBack

\* Initially a legacy row is offered, and the worker has nothing.
LEMMA InitCustody == Init => Custody!CInit
<1> SUFFICES ASSUME Init PROVE Custody!CInit
  OBVIOUS
<1>1. \A u \in Users : \/ host[u].status = "none" /\ host[u].epoch = 0
                       \/ host[u].status = "pending" /\ host[u].epoch = 1
  <2>1. NoRow.status = "none" /\ NoRow.epoch = 0
    BY DEF NoRow
  <2>2. LegacyRow.status = "pending" /\ LegacyRow.epoch = 1
    BY DEF LegacyRow, NoRow
  <2>3. QED BY <2>1, <2>2 DEF Init
<1>2. \A u \in Users : /\ host[u].status = "none" => PhaseOf(u) = "none"
                       /\ host[u].status = "pending" => PhaseOf(u) = "offered"
  <2>1. host \in [Users -> Row] /\ \A u \in Users : account[u]
    BY InitIInv DEF IInv, TypeOK, Init
  <2>2. QED BY <2>1, PhaseFacts DEF Leasable
<1>3. \A u \in Users : PhaseOf(u) \in {"none", "offered"}
                       /\ host[u].epoch = IF PhaseOf(u) = "offered" THEN 1 ELSE 0
  BY <1>1, <1>2
<1>4. \A u \in Users : CopyOf(u) = 0
  BY DEF Init, NoVersion, CopyOf
<1>5. QED BY <1>3, <1>4 DEF Custody!CInit

\* Every step of Handoff is a step of TokenCustody or leaves its state alone.
LEMMA NextCustody == IInv /\ [Next]_vars => [Custody!CNext]_(Custody!cvars)
<1> SUFFICES ASSUME IInv, [Next]_vars
             PROVE  Custody!CNext \/ UNCHANGED Custody!cvars
  OBVIOUS
<1>1. ASSUME NEW u \in Users, Submit(u) PROVE Custody!CNext
  BY <1>1, SubmitOffers
<1>2. ASSUME NEW u \in Users, DeleteUser(u)
      PROVE  Custody!CNext \/ UNCHANGED Custody!cvars
  BY <1>2, DeleteForgets
<1>3. ASSUME NEW c \in Cycles, Pull(c) PROVE Custody!CNext
  BY <1>3, PullTakesBack
<1>4. ASSUME NEW c \in Cycles, NEW u \in Users, ApplyItem(c, u)
      PROVE  Custody!CNext \/ UNCHANGED Custody!cvars
  BY <1>4, ItemTakes DEF ApplyItem
<1>5. ASSUME NEW c \in Cycles, NEW u \in Users, ApplyAckOf(c, u)
      PROVE  Custody!CNext \/ UNCHANGED Custody!cvars
  BY <1>5, AckSettles DEF ApplyAckOf
<1>6. CASE \/ \E u \in Users : Revoke(u)
           \/ ReadStatus
           \/ LostPull
           \/ \E u \in Users : RecordSync(u)
           \/ Tick
  <2>1. /\ UNCHANGED <<account, store, cycle>> /\ report' \in [Users -> Nat]
        /\ host' \in [Users -> Row]
        /\ \A u \in Users : Advances(host[u], host'[u])
    BY <1>6, SweepAdvances
  <2>2. QED BY <2>1, RowsTakeBack
<1>7. CASE UNCHANGED <<account, host, store>>
  BY <1>7, Unseen
<1>8. QED
  BY <1>1, <1>2, <1>3, <1>4, <1>5, <1>6, <1>7
     DEF Next, RegularStep, FailureStep, UserStep, CycleStep, ReportStep, StoreFails,
         SendAcks, Abort, StartReport, LoseReport, vars

\* Leases, lost answers, runs cut short and runs in parallel together do no
\* more than TokenCustody allows (handoff.py and worker_store.py).
THEOREM HandoffImplementsCustody == Spec => ImplementsCustody
BY InitCustody, NextCustody, Invariant, PTL DEF Spec, ImplementsCustody, Custody!CSpec
=============================================================================
