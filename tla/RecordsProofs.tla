---------------------------- MODULE RecordsProofs ----------------------------
(***************************************************************************)
(* Proofs about the parts of Records, for every value of the constants     *)
(* (OperationsProofs has those of backups, migration and the like).        *)
(* A behaviour is of one part, and its steps are steps of that part or     *)
(* leave all as it is: so the invariant of a part, proved of the part's    *)
(* own next-state relation, holds of the whole.                            *)
(***************************************************************************)
EXTENDS Records, FiniteSetTheorems, TLAPS

\* No step changes the part.
LEMMA PartStays == ASSUME [PartsNext]_slots PROVE part' = part
  BY DEF PartsNext, slots

-----------------------------------------------------------------------------
(* Poller: see PollerProofs.                                               *)

LEMMA PollerPart ==
    ASSUME part = "poller"
    PROVE  /\ PartsInit => PO!PolInit
           /\ [PartsNext]_slots => [PO!PolNext]_(PO!polVars)
  <1>1. PartsInit => PO!PolInit
    BY DEF PartsInit
  <1>2. PartsNext => PO!PolNext
    BY DEF PartsNext
  <1>3. UNCHANGED slots => UNCHANGED PO!polVars
    BY DEF slots, PO!polVars, PO!remote, PO!rows, PO!cycle, PO!bounded
  <1> QED BY <1>1, <1>2, <1>3

\* An issue taken for settled has every token its runs have accrued, for every
\* number of issues, page, budget and bound (sync_issue_details).
THEOREM SettledAreFresh == PartsSpec => []SettledIsFresh
  <1> DEFINE Inv == part = "poller" => PO!PolInv
  <1>1. PartsInit => Inv
    BY PartsAssumption, PollerPart, PO!InitInv
  <1>2. Inv /\ [PartsNext]_slots => Inv'
    BY PartsAssumption, PartStays, PollerPart, PO!StepInv
  <1>3. Inv => SettledIsFresh
    BY PartsAssumption, PO!InvIsFresh DEF SettledIsFresh
  <1> QED BY <1>1, <1>2, <1>3, PTL DEF PartsSpec

-----------------------------------------------------------------------------
(* Worker calls.                                                           *)

\* Signing a request touches nothing that is served.
LEMMA NonceSigned ==
    ASSUME NO!NonceAssumption, NO!NonInv, NEW r \in Signed,
           NEW skew \in (-MaxAge)..(MaxAge + 1), NO!Sign(r, skew)
    PROVE  NO!NonInv'
  <1>1. NO!NonTypes'
    BY DEF NO!NonceAssumption, NO!NonInv, NO!NonTypes, NO!Sign
  <1>2. ASSUME NEW q \in Signed PROVE NO!RowOutlives(q)'
    BY DEF NO!NonceAssumption, NO!NonInv, NO!NonTypes, NO!RowOutlives, NO!Sign
  <1>3. ASSUME NEW p \in Serving PROVE NO!CopyMeetsRow(p)'
    BY DEF NO!NonceAssumption, NO!NonInv, NO!NonTypes, NO!CopyMeetsRow, NO!Sign
  <1> QED BY <1>1, <1>2, <1>3 DEF NO!NonInv

\* A copy that passes the check is young enough to meet its row.
LEMMA NonceArrives ==
    ASSUME NO!NonceAssumption, NO!NonInv, NEW p \in Serving, NEW r \in Signed, NO!Arrive(p, r)
    PROVE  NO!NonInv'
  <1>1. NO!NonTypes'
    BY DEF NO!NonceAssumption, NO!NonInv, NO!NonTypes, NO!Arrive
  <1>2. ASSUME NEW q \in Signed PROVE NO!RowOutlives(q)'
    BY DEF NO!NonInv, NO!RowOutlives, NO!Arrive
  <1>3. v1[r] \in (-MaxAge)..MaxAge
    BY DEF NO!Arrive, NO!Timely
  <1>4. v5[r] = 1 => v2[r] # None /\ v2[r] <= 2 * MaxAge
    BY <1>3 DEF NO!NonceAssumption, NO!NonInv, NO!NonTypes, NO!RowOutlives
  <1>5. ASSUME NEW q \in Serving PROVE NO!CopyMeetsRow(q)'
    <2>1. CASE q = p
      BY <2>1, <1>3, <1>4 DEF NO!NonceAssumption, NO!NonInv, NO!NonTypes, NO!CopyMeetsRow, NO!Arrive
    <2>2. CASE q # p
      BY <2>2 DEF NO!NonInv, NO!NonTypes, NO!CopyMeetsRow, NO!Arrive
    <2> QED BY <2>1, <2>2
  <1> QED BY <1>1, <1>2, <1>5 DEF NO!NonInv

\* A request is served only if it never was: a served one has its row, which
\* the purge of this transaction leaves alone.
LEMMA NonceConsumed ==
    ASSUME NO!NonceAssumption, NO!NonInv, NEW p \in Serving, NO!Consume(p)
    PROVE  NO!NonInv'
  <1> DEFINE r == v3[p]
  <1>1. r \in Signed /\ v1' = v1
    BY DEF NO!NonInv, NO!NonTypes, NO!Consume
  <1>2. NO!Kept \in [Signed -> Nat \cup {None}]
    BY DEF NO!NonInv, NO!NonTypes, NO!Kept
  <1>3. v5[r] = 1 => NO!Kept[r] = v2[r] /\ v2[r] # None
    BY <1>1 DEF NO!NonceAssumption, NO!NonInv, NO!NonTypes, NO!CopyMeetsRow, NO!Consume, NO!Kept, NO!Ttl
  <1>4. CASE NO!Kept[r] # None
    <2>1. v2' = v2 /\ v5' = v5
      BY <1>4 DEF NO!Consume
    <2>2. NO!NonTypes'
      BY <2>1, <1>1 DEF NO!NonInv, NO!NonTypes, NO!Consume
    <2>3. ASSUME NEW q \in Signed PROVE NO!RowOutlives(q)'
      BY <2>1, <1>1 DEF NO!NonInv, NO!RowOutlives
    <2>4. ASSUME NEW q \in Serving PROVE NO!CopyMeetsRow(q)'
      BY <2>1, <1>1 DEF NO!NonInv, NO!NonTypes, NO!CopyMeetsRow, NO!Consume
    <2> QED BY <2>2, <2>3, <2>4 DEF NO!NonInv
  <1>5. CASE NO!Kept[r] = None
    <2>1. v2' = [NO!Kept EXCEPT ![r] = 0] /\ v5' = [v5 EXCEPT ![r] = @ + 1]
      BY <1>5 DEF NO!Consume
    <2>2. v5[r] = 0
      BY <1>1, <1>3, <1>5 DEF NO!NonInv, NO!NonTypes, NO!RowOutlives
    <2>3. NO!NonTypes'
      BY <2>1, <1>1, <1>2 DEF NO!NonInv, NO!NonTypes, NO!Consume
    <2>4. ASSUME NEW q \in Signed PROVE NO!RowOutlives(q)'
      <3>1. CASE q = r
        BY <3>1, <2>1, <2>2, <1>1, <1>2
        DEF NO!NonceAssumption, NO!NonInv, NO!NonTypes, NO!RowOutlives, NO!CopyMeetsRow, NO!Consume
      <3>2. CASE q # r
        BY <3>2, <2>1, <1>1, <1>2
        DEF NO!NonceAssumption, NO!NonInv, NO!NonTypes, NO!RowOutlives, NO!Kept, NO!Ttl
      <3> QED BY <3>1, <3>2
    <2>5. ASSUME NEW q \in Serving PROVE NO!CopyMeetsRow(q)'
      <3>1. CASE v3'[q] = None
        BY <3>1 DEF NO!CopyMeetsRow
      <3>2. CASE v3'[q] # None
        <4>1. q # p /\ v3'[q] = v3[q] /\ v4'[q] = v4[q] /\ v3[q] \in Signed
          BY <3>2 DEF NO!NonInv, NO!NonTypes, NO!Consume
        <4>2. CASE v3[q] = r
          BY <4>1, <4>2, <2>1, <1>1, <1>2
          DEF NO!NonceAssumption, NO!NonInv, NO!NonTypes, NO!CopyMeetsRow
        <4>3. CASE v3[q] # r
          BY <4>1, <4>3, <2>1, <1>1, <1>2
          DEF NO!NonceAssumption, NO!NonInv, NO!NonTypes, NO!CopyMeetsRow, NO!Kept, NO!Ttl
        <4> QED BY <4>2, <4>3
      <3> QED BY <3>1, <3>2
    <2> QED BY <2>3, <2>4, <2>5 DEF NO!NonInv
  <1> QED BY <1>4, <1>5

\* A unit of time: rows and requests age together.
LEMMA NonceAges ==
    ASSUME NO!NonceAssumption, NO!NonInv, NO!NonTick
    PROVE  NO!NonInv'
  <1>1. NO!NonTypes'
    BY DEF NO!NonceAssumption, NO!NonInv, NO!NonTypes, NO!NonTick, NO!Older
  <1>2. ASSUME NEW q \in Signed PROVE NO!RowOutlives(q)'
    BY <1>1 DEF NO!NonceAssumption, NO!NonInv, NO!NonTypes, NO!RowOutlives, NO!NonTick, NO!Older
  <1>3. ASSUME NEW p \in Serving PROVE NO!CopyMeetsRow(p)'
    <2>1. CASE v3[p] = None
      BY <2>1 DEF NO!CopyMeetsRow, NO!NonTick
    <2>2. CASE v3[p] # None
      BY <2>2 DEF NO!NonceAssumption, NO!NonInv, NO!NonTypes, NO!CopyMeetsRow, NO!NonTick, NO!Older
    <2> QED BY <2>1, <2>2
  <1> QED BY <1>1, <1>2, <1>3 DEF NO!NonInv

\* Initially nothing was signed or served.
LEMMA NonceInitially == ASSUME NO!NonceAssumption, NO!NonInit PROVE NO!NonInv
  BY DEF NO!NonceAssumption, NO!NonInit, NO!NonInv, NO!NonTypes, NO!RowOutlives, NO!CopyMeetsRow

LEMMA NonceStep == ASSUME NO!NonceAssumption, NO!NonInv, [NO!NonNext]_(NO!nonVars) PROVE NO!NonInv'
  <1>1. CASE UNCHANGED NO!nonVars
    BY <1>1 DEF NO!nonVars, NO!NonInv, NO!NonTypes, NO!RowOutlives, NO!CopyMeetsRow
  <1>2. CASE NO!NonNext
    BY <1>2, NonceSigned, NonceArrives, NonceConsumed, NonceAges DEF NO!NonNext
  <1> QED BY <1>1, <1>2

LEMMA NonceOnce == ASSUME NO!NonInv PROVE NO!ServedOnce
  BY DEF NO!NonInv, NO!RowOutlives, NO!ServedOnce

LEMMA NoncePart ==
    ASSUME part = "nonce"
    PROVE  /\ PartsInit => NO!NonInit
           /\ [PartsNext]_slots => [NO!NonNext]_(NO!nonVars)
  <1>1. PartsInit => NO!NonInit
    BY DEF PartsInit
  <1>2. PartsNext => NO!NonNext
    BY DEF PartsNext
  <1>3. UNCHANGED slots => UNCHANGED NO!nonVars
    BY DEF slots, NO!nonVars
  <1> QED BY <1>1, <1>2, <1>3

\* No signed request is acted on twice, for every window and every delay that
\* is shorter than the window (consume_worker_nonce).
THEOREM RequestsServedOnce == PartsSpec => []ServedOnce
  <1> DEFINE Inv == part = "nonce" => NO!NonInv
  <1>1. PartsInit => Inv
    BY PartsAssumption, NoncePart, NonceInitially
  <1>2. Inv /\ [PartsNext]_slots => Inv'
    BY PartsAssumption, PartStays, NoncePart, NonceStep
  <1>3. Inv => ServedOnce
    BY NonceOnce DEF ServedOnce
  <1> QED BY <1>1, <1>2, <1>3, PTL DEF PartsSpec

-----------------------------------------------------------------------------
(* Uploads: the verdict on neighbours (FreshnessChain) and the install     *)
(* protocol (SnapshotProofs, which also tells what the verdict means).     *)

LEMMA ChainPart ==
    ASSUME part = "chain"
    PROVE  /\ PartsInit => CH!ChainInit
           /\ [PartsNext]_slots => [CH!Install]_(CH!chain)
  <1>1. PartsInit => CH!ChainInit
    BY DEF PartsInit
  <1>2. PartsNext => CH!Install
    BY DEF PartsNext
  <1>3. UNCHANGED slots => UNCHANGED CH!chain
    BY DEF slots, CH!chain
  <1> QED BY <1>1, <1>2, <1>3

\* The verdict and the order are the same in both parts.
LEMMA SameUsage == \A u : CH!IsUsage(u) = SW!IsUsage(u)
  BY DEF CH!IsUsage, SW!IsUsage

LEMMA SameCovers == \A u, w : CH!Covers(u, w) = SW!Covers(u, w)
  BY DEF CH!Covers, SW!Covers

LEMMA SameVerdict == \A u, w : CH!Accepts(u, w) = SW!Accepts(u, w)
  BY DEF CH!Accepts, CH!Reason, CH!IsEmpty, CH!OlderDay, CH!MissingRows, CH!DecreasedRows,
         SW!Accepts, SW!Reason, SW!IsEmpty, SW!OlderDay, SW!MissingRows, SW!DecreasedRows

LEMMA ChainInitially == ASSUME CH!ChainInit PROVE CH!ChainInv
  BY PartsAssumption, SameUsage, SameCovers, SW!CoversReflexive
  DEF PartsAssumption, CH!SnapshotsAssumption, CH!ChainInit, CH!ChainInv, CH!ChainCovers

\* Accepted uploads extend what the sequence started from.
LEMMA ChainStep == ASSUME CH!ChainInv, [CH!Install]_(CH!chain) PROVE CH!ChainInv'
  <1>1. CASE CH!Install
    <2>1. PICK s \in Tables : CH!Accepts(s, v2) /\ v2' = s
      BY <1>1 DEF CH!Install
    <2>2. CH!IsUsage(v2) /\ CH!IsUsage(v1)
      BY PartsAssumption DEF CH!SnapshotsAssumption, CH!ChainInv
    <2>5. s = Unsound \/ CH!IsUsage(s)
      BY <2>1, PartsAssumption DEF CH!SnapshotsAssumption
    <2>3. s # Unsound /\ CH!IsUsage(s) /\ CH!Covers(s, v2)
      BY <2>1, <2>2, <2>5, PartsAssumption, SameUsage, SameCovers, SameVerdict, SW!VerdictCovers
    <2>4. CH!Covers(s, v1)
      BY <2>2, <2>3, PartsAssumption, SameUsage, SameCovers, SW!CoversTransitive
      DEF CH!ChainInv, CH!ChainCovers
    <2> QED BY <1>1, <2>1, <2>3, <2>4 DEF CH!ChainInv, CH!ChainCovers, CH!Install
  <1>2. CASE UNCHANGED CH!chain
    BY <1>2 DEF CH!ChainInv, CH!ChainCovers, CH!chain
  <1> QED BY <1>1, <1>2

LEMMA ChainVerdict == ASSUME CH!ChainInv PROVE CH!VerdictIsCovering
  BY PartsAssumption, SameUsage, SameCovers, SameVerdict, SW!VerdictCovers, SW!CoversAccepted
  DEF CH!SnapshotsAssumption, CH!VerdictIsCovering, CH!ChainInv

LEMMA SwapsPart ==
    ASSUME part = "swaps"
    PROVE  /\ PartsInit => SW!Init
           /\ [PartsNext]_slots => [SW!Next]_(SW!vars)
  <1>1. PartsInit => SW!Init
    BY DEF PartsInit
  <1>2. PartsNext => SW!Next
    BY DEF PartsNext
  <1>3. UNCHANGED slots => UNCHANGED SW!vars
    BY DEF slots, SW!vars
  <1> QED BY <1>1, <1>2, <1>3

-----------------------------------------------------------------------------
(* Publisher: what a round read is no later than what the poller has       *)
(* announced, and a snapshot taken after the last announcement holds what  *)
(* was announced; so does the host once its confirmation arrives.          *)

LEMMA PublisherPart ==
    ASSUME part = "publisher"
    PROVE  /\ PartsInit => PU!PubInit
           /\ [PartsNext]_slots => [PU!PubNext]_(PU!pubVars)
  <1>1. PartsInit => PU!PubInit
    BY DEF PartsInit
  <1>2. PartsNext => PU!PubNext
    BY DEF PartsNext
  <1>3. UNCHANGED slots => UNCHANGED PU!pubVars
    BY DEF slots, PU!pubVars
  <1> QED BY <1>1, <1>2, <1>3

LEMMA PublisherInitially == ASSUME PU!PubInit PROVE PU!PubInv
  BY DEF PU!PubInit, PU!PubInv, PU!PubTypes, PU!Earlier

LEMMA PublisherStep == ASSUME PU!PubInv, [PU!PubNext]_(PU!pubVars) PROVE PU!PubInv'
  <1> USE PartsAssumption DEF PartsAssumption, PU!PublishAssumption, PU!PubInv,
        PU!PubTypes, PU!Earlier, PU!store, PU!Loss
  <1>1. CASE PU!Commit
    BY <1>1 DEF PU!Commit
  <1>2. CASE PU!Beat
    BY <1>2 DEF PU!Beat
  <1>3. CASE PU!Second
    BY <1>3 DEF PU!Second
  <1>4. ASSUME NEW m \in {v2, None}, PU!Look(m) PROVE PU!PubInv'
    BY <1>4 DEF PU!Look
  <1>5. CASE PU!Snapshot
    BY <1>5 DEF PU!Snapshot
  <1>6. ASSUME NEW b \in BOOLEAN, PU!Send(b) PROVE PU!PubInv'
    BY <1>6 DEF PU!Send
  <1>7. ASSUME NEW b \in BOOLEAN, PU!Answer(b) PROVE PU!PubInv'
    BY <1>7 DEF PU!Answer, PU!MarkerOfRound
  <1>8. CASE PU!Sleep
    BY <1>8 DEF PU!Sleep
  <1>9. CASE PU!Restart
    BY <1>9 DEF PU!Restart
  <1>10. CASE UNCHANGED PU!pubVars
    BY <1>10 DEF PU!pubVars
  <1> QED BY <1>1, <1>2, <1>3, <1>4, <1>5, <1>6, <1>7, <1>8, <1>9, <1>10 DEF PU!PubNext

LEMMA PublisherRemembers == ASSUME PU!PubInv PROVE PU!RememberedIsInstalled
  BY DEF PU!PubInv, PU!PubTypes, PU!RememberedIsInstalled

-----------------------------------------------------------------------------
(* Uploads, from the publisher to the history of the host.                *)

\* Whatever swaps fail, usage never disappears and no older upload is
\* installed; the verdict on neighbours is enough for the history; and what
\* the publisher remembers as sent is installed.
THEOREM IngestGoesForward == PartsSpec => IngestForward
  <1> DEFINE Inv == /\ part = "swaps" => SW!InstallInv
                    /\ part = "chain" => CH!ChainInv
                    /\ part = "publisher" => PU!PubInv
  <1>1. PartsInit => Inv
    BY PartsAssumption, SwapsPart, SW!InstallInit, ChainPart, ChainInitially,
       PublisherPart, PublisherInitially
  <1>2. Inv /\ [PartsNext]_slots => Inv'
    BY PartsAssumption, PartStays, SwapsPart, SW!InstallStep, ChainPart, ChainStep,
       PublisherPart, PublisherStep
  <1>3. Inv => (part = "chain" => CH!ChainCovers /\ CH!VerdictIsCovering)
    BY ChainVerdict DEF CH!ChainInv
  <1>4. Inv /\ [PartsNext]_slots => [part = "swaps" => SW!Forward /\ SW!OnlyNewer]_slots
    BY PartsAssumption, SwapsPart, SW!ForwardStep
  <1>5. Inv => (part = "publisher" => PU!RememberedIsInstalled)
    BY PublisherRemembers
  <1> QED BY <1>1, <1>2, <1>3, <1>4, <1>5, PTL DEF PartsSpec, IngestForward

-----------------------------------------------------------------------------
(* Flow facts: v1 is now, v5 entered, v7 readied, v9 began, v12 and v13    *)
(* the events and the readies.                                             *)

LEMMA FlowPart ==
    ASSUME part = "flow"
    PROVE  /\ PartsInit => FL!FloInit
           /\ [PartsNext]_slots => [FL!FloNext]_(FL!floVars)
  <1>1. PartsInit => FL!FloInit
    BY DEF PartsInit
  <1>2. PartsNext => FL!FloNext
    BY DEF PartsNext
  <1>3. UNCHANGED slots => UNCHANGED FL!floVars
    BY DEF slots, FL!floVars
  <1> QED BY <1>1, <1>2, <1>3

LEMMA FlowInitially == ASSUME FL!FloInit PROVE FL!FlowInv
  BY PartsAssumption
  DEF FL!FlowAssumption, FL!Statuses, FL!FloInit, FL!FlowInv, FL!FlowTypes, FL!Chronology,
      FL!Unrecorded, FL!Recorded

\* What a sync records of the card has happened since the sync before.
LEMMA SyncRecords == ASSUME FL!FlowInv, FL!FloSync PROVE FL!FlowInv'
  <1> USE DEF FL!truth
  <1>0. /\ UNCHANGED <<v1, v2, v3, v4, v5, v6, v7>>
        /\ v9' = IF v9 = None THEN v1 ELSE v9
        /\ v1 \in Nat /\ None \notin Nat
    BY PartsAssumption DEF FL!FloSync, FL!FlowInv, FL!FlowTypes, FL!FlowAssumption
  <1>1. v9' \in Nat /\ v9' <= v1 /\ (v9 # None => v9' = v9)
    BY <1>0 DEF FL!FlowInv, FL!FlowTypes, FL!Chronology
  <1>2. CASE v2 = None
    <2>1. UNCHANGED <<v10, v11, v12, v13>> /\ v12 \cup v13 = {} /\ v10 = None
      BY <1>2 DEF FL!FloSync, FL!FlowInv, FL!Chronology
    <2>2. FL!FlowTypes' /\ FL!Chronology'
      BY <1>0, <1>1, <2>1 DEF FL!FlowInv, FL!FlowTypes, FL!Chronology
    <2> QED BY <1>0, <2>1, <2>2 DEF FL!FlowInv, FL!Unrecorded, FL!Recorded
  <1>3. CASE v2 # None
    <2> DEFINE e == [status |-> v3, at |-> v1, initial |-> v10 = None]
               r == [at |-> v1, initial |-> v10 = None]
    <2>1. /\ v10' = v3 /\ v11' = v4
          /\ v12' = v12 \/ (v12' = v12 \cup {e} /\ v10 # v3)
          /\ v13' = v13 \/ (v13' = v13 \cup {r} /\ v4 /\ v11 # TRUE)
      BY <1>3 DEF FL!FloSync, FL!Baseline, FL!FirstSeen
    <2>6. v3 \in FL!Statuses /\ (v10 = None) \in BOOLEAN
      BY DEF FL!FlowInv, FL!FlowTypes
    <2>7. /\ e \in [status : FL!Statuses, at : Nat, initial : BOOLEAN]
          /\ r \in [at : Nat, initial : BOOLEAN]
          /\ e.at = v1 /\ r.at = v1 /\ e.status = v3
          /\ e.initial = (v10 = None) /\ r.initial = (v10 = None)
      BY <1>0, <2>6
    <2> HIDE DEF e, r
    <2>2. FL!FlowTypes'
      BY <1>0, <1>1, <2>1, <2>7 DEF FL!FlowInv, FL!FlowTypes
    <2>3. FL!Chronology'
      <3>1. \A x \in v12' \cup v13' : x.at <= v1
        <4>1. \A x \in v12' \cup v13' : x \in v12 \cup v13 \/ x = e \/ x = r
          BY <2>1
        <4>2. e.at <= v1 /\ r.at <= v1
          BY <1>0, <2>7
        <4> QED BY <4>1, <4>2 DEF FL!FlowInv, FL!Chronology
      <3> QED BY <1>0, <1>1, <1>3, <2>1, <3>1 DEF FL!FlowInv, FL!Chronology
    <2>4. FL!Unrecorded'
      BY <1>0, <2>1 DEF FL!FlowInv, FL!FlowTypes, FL!Unrecorded
    <2>5. FL!Recorded'
      <3>1. v12 \cup v13 # {} \/ v10 # None => v9' = v9
        BY <1>1 DEF FL!FlowInv, FL!Chronology
      <3>2. \A x \in v12 : x.status = "in_progress" =>
              \E t \in v5 : t <= x.at /\ (x.initial \/ v9' <= t)
        BY <3>1 DEF FL!FlowInv, FL!Recorded
      <3>3. \A x \in v13 : x.initial \/ \E t \in v7 : v9' <= t /\ t <= x.at
        BY <3>1 DEF FL!FlowInv, FL!Recorded
      <3>4. v10 # v3 /\ v3 = "in_progress" =>
              \E t \in v5 : t <= v1 /\ (v10 = None \/ v9' <= t)
        BY <3>1 DEF FL!FlowInv, FL!Unrecorded, FL!Chronology
      <3>5. v4 /\ v11 # TRUE => v10 = None \/ \E t \in v7 : v9' <= t /\ t <= v1
        BY <3>1 DEF FL!FlowInv, FL!Unrecorded
      <3>6. \A x \in v12' : x.status = "in_progress" =>
              \E t \in v5 : t <= x.at /\ (x.initial \/ v9' <= t)
        BY <2>1, <2>7, <3>2, <3>4
      <3>7. \A x \in v13' : x.initial \/ \E t \in v7 : v9' <= t /\ t <= x.at
        BY <2>1, <2>7, <3>3, <3>5
      <3> QED BY <1>0, <3>6, <3>7 DEF FL!Recorded
    <2> QED BY <2>2, <2>3, <2>4, <2>5 DEF FL!FlowInv
  <1> QED BY <1>2, <1>3

LEMMA FlowStep == ASSUME FL!FlowInv, [FL!FloNext]_(FL!floVars) PROVE FL!FlowInv'
  <1> USE DEF FL!FlowInv, FL!truth, FL!rows
  <1>0. None \notin Nat /\ v1 \in Nat
    BY PartsAssumption DEF FL!FlowAssumption, FL!FlowTypes
  <1>1. CASE FL!FloTick
    <2>1. UNCHANGED <<v2, v3, v4, v5, v6, v7, v9, v10, v11, v12, v13>> /\ v1' = v1 + 1
      BY <1>1 DEF FL!FloTick
    <2>2. FL!FlowTypes'
      BY <2>1 DEF FL!FlowTypes
    <2>3. FL!Chronology'
      <3>1. v9 # None => v9 <= v1'
        BY <2>1 DEF FL!FlowTypes, FL!Chronology
      <3>2. \A t \in v5 : v2 <= t /\ t <= v1'
        BY <2>1 DEF FL!FlowTypes, FL!Chronology
      <3>3. \A x \in v12 \cup v13 : x.at <= v1'
        BY <2>1 DEF FL!FlowTypes, FL!Chronology
      <3>4. v2 # None => v2 <= v1'
        BY <2>1 DEF FL!FlowTypes, FL!Chronology
      <3> QED BY <2>1, <3>1, <3>2, <3>3, <3>4 DEF FL!Chronology
    <2>4. FL!Unrecorded'
      <3>1. \A t \in v7 : t <= v1 => t <= v1'
        BY <1>0, <2>1 DEF FL!FlowTypes
      <3> QED BY <2>1, <3>1 DEF FL!Unrecorded
    <2> QED BY <2>1, <2>2, <2>3, <2>4 DEF FL!Recorded
  <1>2. CASE FL!Create
    BY <1>0, <1>2 DEF FL!Create, FL!FlowTypes, FL!Chronology, FL!Unrecorded, FL!Recorded
  <1>3. ASSUME NEW s \in FL!Statuses, FL!Move(s) PROVE FL!FlowInv'
    <2>1. /\ UNCHANGED <<v1, v2, v4, v7, v9, v10, v11, v12, v13>> /\ v3' = s
          /\ v5' = IF s = "in_progress" THEN v5 \cup {v1} ELSE v5
          /\ v2 \in Nat /\ v2 <= v1
      BY <1>3 DEF FL!Move, FL!FlowTypes, FL!Chronology
    <2>2. FL!FlowTypes'
      BY <1>0, <2>1 DEF FL!FlowTypes
    <2>3. FL!Chronology'
      BY <1>0, <2>1 DEF FL!FlowTypes, FL!Chronology
    <2>4. FL!Unrecorded'
      <3>1. v10 # None => v9 <= v1
        BY DEF FL!Chronology
      <3> QED BY <2>1, <3>1 DEF FL!Unrecorded
    <2>5. FL!Recorded'
      BY <2>1 DEF FL!Recorded
    <2> QED BY <2>2, <2>3, <2>4, <2>5
  <1>4. CASE FL!Toggle
    <2>1. /\ UNCHANGED <<v1, v2, v3, v5, v9, v10, v11, v12, v13>> /\ v4' = ~v4
          /\ v7' = IF v4 THEN v7 ELSE v7 \cup {v1}
      BY <1>4 DEF FL!Toggle
    <2>2. FL!FlowTypes'
      BY <1>0, <2>1 DEF FL!FlowTypes
    <2>3. FL!Chronology'
      BY <2>1 DEF FL!Chronology
    <2>4. FL!Unrecorded'
      <3>1. v10 # None => v9 <= v1
        BY DEF FL!Chronology
      <3>2. v1 <= v1
        BY <1>0
      <3> QED BY <2>1, <3>1, <3>2 DEF FL!Unrecorded
    <2>5. FL!Recorded'
      BY <2>1 DEF FL!Recorded
    <2> QED BY <2>2, <2>3, <2>4, <2>5
  <1>5. CASE FL!FloSync
    BY <1>5, SyncRecords
  <1>6. CASE UNCHANGED FL!floVars
    BY <1>6
       DEF FL!floVars, FL!FlowTypes, FL!Chronology, FL!Unrecorded, FL!Recorded
  <1> QED BY <1>1, <1>2, <1>3, <1>4, <1>5, <1>6 DEF FL!FloNext

\* The earliest of some times is one of them.
LEMMA EarliestIsOne ==
    ASSUME NEW T, T \subseteq Nat, FL!Earliest(T) # None
    PROVE  FL!Earliest(T) \in T /\ FL!Earliest(T) \in Nat
  <1>1. T # {} /\ FL!Earliest(T) = FL!Min(T)
    BY DEF FL!Earliest
  <1>2. PICK t \in T : \A u \in T : t <= u
    BY <1>1, PartsAssumption, PO!LeastNatural
  <1> QED BY <1>1, <1>2 DEF FL!Min

LEMMA FlowTruthful == ASSUME FL!FlowInv PROVE FL!NothingBackdated
  <1> DEFINE starts == {e.at : e \in {x \in v12 : x.status = "in_progress" /\ FL!Trusted(x)}}
             ends == {e.at : e \in {x \in v12 : x.status = "done"}}
             readyTimes == {e.at : e \in FL!Transitions}
  <1>0. v12 \subseteq [status : FL!Statuses, at : Nat, initial : BOOLEAN]
        /\ v13 \subseteq [at : Nat, initial : BOOLEAN]
    BY DEF FL!FlowInv, FL!FlowTypes
  <1>1. starts \subseteq Nat /\ ends \subseteq Nat /\ readyTimes \subseteq Nat
    BY <1>0 DEF FL!Transitions
  <1>2. FL!StartedAt = FL!Earliest(starts) /\ FL!DoneAt = FL!Earliest(ends)
        /\ FL!ReadyAt = FL!Earliest(readyTimes)
    BY DEF FL!StartedAt, FL!DoneAt, FL!ReadyAt
  <1>3. ASSUME FL!StartedAt # None
        PROVE  /\ \E t \in v5 : v9 <= t /\ t <= FL!StartedAt
               /\ FL!StartedAt \in Nat /\ v9 \in Nat /\ v9 <= FL!StartedAt
    <2>1. FL!StartedAt \in starts /\ FL!StartedAt \in Nat
      BY <1>1, <1>2, <1>3, EarliestIsOne
    <2>2. PICK e \in v12 : e.at = FL!StartedAt /\ e.status = "in_progress" /\ FL!Trusted(e)
      BY <2>1
    <2>3. PICK t \in v5 : t <= e.at /\ (e.initial \/ v9 <= t)
      BY <2>2 DEF FL!FlowInv, FL!Recorded
    <2>4. v9 \in Nat /\ v2 \in Nat /\ v2 <= t /\ t \in Nat
      BY DEF FL!FlowInv, FL!FlowTypes, FL!Chronology
    <2>5. v9 <= t
      BY <2>2, <2>3, <2>4 DEF FL!Trusted
    <2> QED BY <2>1, <2>2, <2>3, <2>4, <2>5
  <1>4. ASSUME FL!ReadyAt # None
        PROVE  \E t \in v7 : v9 <= t /\ t <= FL!ReadyAt
    <2>1. FL!ReadyAt \in readyTimes
      BY <1>1, <1>2, <1>4, EarliestIsOne
    <2>2. PICK e \in v13 : e.at = FL!ReadyAt /\ ~e.initial
      BY <2>1 DEF FL!Transitions
    <2> QED BY <2>2 DEF FL!FlowInv, FL!Recorded
  <1>5. ASSUME FL!Measured PROVE FL!CycleSeconds <= v1 - v9
    <2>1. FL!DoneAt \in ends /\ FL!DoneAt \in Nat
      BY <1>1, <1>2, <1>5, EarliestIsOne DEF FL!Measured
    <2>2. v1 \in Nat /\ FL!DoneAt <= v1
      BY <2>1 DEF FL!FlowInv, FL!FlowTypes, FL!Chronology
    <2>3. FL!StartedAt \in Nat /\ v9 \in Nat /\ v9 <= FL!StartedAt
      BY <1>3, <1>5 DEF FL!Measured
    <2>4. v9 <= v1
      BY <2>3, PartsAssumption DEF FL!FlowInv, FL!Chronology, FL!FlowAssumption
    <2> QED BY <2>1, <2>2, <2>3, <2>4 DEF FL!CycleSeconds
  <1> QED BY <1>3, <1>4, <1>5 DEF FL!NothingBackdated

-----------------------------------------------------------------------------
(* Bills.                                                                  *)

LEMMA BillingPart ==
    ASSUME part = "billing"
    PROVE  /\ PartsInit => BI!BilInit
           /\ [PartsNext]_slots => [BI!BilNext]_(BI!bilVars)
  <1>1. PartsInit => BI!BilInit
    BY DEF PartsInit
  <1>2. PartsNext => BI!BilNext
    BY DEF PartsNext
  <1>3. UNCHANGED slots => UNCHANGED BI!bilVars
    BY DEF slots, BI!bilVars
  <1> QED BY <1>1, <1>2, <1>3

LEMMA BillingInitially == ASSUME BI!BilInit PROVE BI!BilInv
  <1>1. v1 = None /\ v2 = 0
    BY DEF BI!BilInit
  <1> QED BY <1>1 DEF BI!BilInv, BI!OneDiagnostic

\* The first bill over the threshold is the one that is answered.
LEMMA BillingStep == ASSUME BI!BilInv, [BI!BilNext]_(BI!bilVars) PROVE BI!BilInv'
  <1> USE DEF BI!BilInv, BI!OneDiagnostic, BI!Rows
  <1>0. None \notin BI!Rows
    BY PartsAssumption DEF BI!BillingAssumption
  <1>1. ASSUME NEW over \in BOOLEAN, BI!Submit(over) PROVE BI!BilInv'
    <2>1. PICK answered \in BOOLEAN :
            v2' = IF ~over THEN 0
                  ELSE v2 + IF BI!Emits(over) /\ answered THEN 1 ELSE 0
      BY <1>1 DEF BI!Submit
    <2>2. v1' = [over |-> over, emitted |-> BI!Emitted(over)]
      BY <1>1 DEF BI!Submit
    <2>3. BI!Emitted(over) = over
      BY DEF BI!Emitted, BI!Emits
    <2>4. v1' = [over |-> over, emitted |-> over] /\ v1' \in BI!Rows
      BY <2>2, <2>3
    <2>5. CASE ~over
      BY <1>0, <2>1, <2>4, <2>5
    <2>6. CASE over
      <3>1. CASE BI!Emits(over)
        <4>1. v2 = 0
          BY <3>1 DEF BI!Emits
        <4>2. v2' \in 0..1
          BY <2>1, <2>6, <4>1
        <4>3. v1'.emitted = v1'.over /\ v1' # None
          BY <1>0, <2>4
        <4> QED BY <2>4, <2>6, <4>2, <4>3
      <3>2. CASE ~BI!Emits(over)
        <4>1. v1 # None /\ v2 \in Nat /\ v2 <= 1
          BY <2>6, <3>2 DEF BI!Emits
        <4>2. v2' = v2
          BY <2>1, <2>6, <3>2, <4>1
        <4> QED BY <1>0, <2>4, <2>6, <4>1, <4>2
      <3> QED BY <3>1, <3>2
    <2> QED BY <2>5, <2>6
  <1>2. CASE UNCHANGED BI!bilVars
    BY <1>2 DEF BI!bilVars
  <1> QED BY <1>1, <1>2 DEF BI!BilNext

-----------------------------------------------------------------------------
(* Prices: v1 and v2 are the files, v4 the history, v5 the usage, v6 says  *)
(* that the last cycle has been applied.                                   *)

LEMMA PricingPart ==
    ASSUME part = "pricing"
    PROVE  /\ PartsInit => PR!PriInit
           /\ [PartsNext]_slots => [PR!PriNext]_(PR!priVars)
  <1>1. PartsInit => PR!PriInit
    BY DEF PartsInit
  <1>2. PartsNext => PR!PriNext
    BY DEF PartsNext
  <1>3. UNCHANGED slots => UNCHANGED PR!priVars
    BY DEF slots, PR!priVars
  <1> QED BY <1>1, <1>2, <1>3

LEMMA PricingInitially == ASSUME PR!PriInit PROVE PR!PriInv
  <1>1. None \in PR!FileEntries
    BY DEF PR!FileEntries
  <1>2. /\ v1 \in PR!FileEntries /\ v2 = None /\ v6 = FALSE
        /\ v4 = [d \in Days |-> None] /\ v5 = [d \in Days |-> None]
    BY DEF PR!PriInit
  <1>3. \A d \in Days : v4[d] = None /\ v5[d] = None
    BY <1>2
  <1>4. v4 \in [Days -> PR!Rates \cup {None}] /\ v5 = [d \in Days |-> v5[d]]
    BY <1>2
  <1>5. PR!PriTypes
    BY <1>1, <1>2, <1>3, <1>4 DEF PR!PriTypes
  <1>6. PR!CostedFromHistory
    BY <1>3 DEF PR!CostedFromHistory
  <1>7. PR!Settled
    BY <1>2 DEF PR!Settled
  <1> QED BY <1>5, <1>6, <1>7 DEF PR!PriInv

\* The greatest of some days up to d.
LEMMA GreatestDay ==
    ASSUME NEW d \in Nat, NEW S \in SUBSET (1..d), S # {}
    PROVE  PR!Max(S) \in S /\ \A f \in S : f <= PR!Max(S)
  <1>1. \E m \in S : \A f \in S : f <= m
    BY PartsAssumption, PO!GreatestNatural
  <1> QED BY <1>1 DEF PR!Max

\* Of the revisions of an entry, one is the newest.
LEMMA NewestIsOne ==
    ASSUME NEW e \in PR!FileEntries, e # None, NEW T \in SUBSET e, T # {}
    PROVE  PR!Newest(T) \in T /\ PR!Newest(T) \in PR!Rates
  <1>1. PICK r \in PR!Rates, s \in PR!Rates : e = {r, s}
    BY DEF PR!FileEntries, PR!Entries
  <1>2. r.from \in Nat /\ s.from \in Nat
    <2>1. r.from \in Days \cup {0} /\ s.from \in Days \cup {0}
      BY <1>1 DEF PR!Rates
    <2>2. \A d \in Days \cup {0} : d \in Nat
      <3>1. Days \subseteq Nat \ {0}
        BY PartsAssumption DEF PR!PricingAssumption
      <3> QED BY <3>1
    <2> QED BY <2>1, <2>2, Zenon
  <1>3. \E x \in T : \A y \in T : y.from <= x.from
    <2> DEFINE p == r.from
               q == s.from
    <2>1. p \in Nat /\ q \in Nat
      BY <1>2
    <2>2. \A y \in T : (y = r \/ y = s) /\ (y = r => y.from = p) /\ (y = s => y.from = q)
      BY <1>1
    <2> HIDE DEF p, q
    <2>3. (p <= q \/ q <= p) /\ p <= p /\ q <= q
      BY <2>1
    <2>4. CASE r \in T /\ s \in T
      BY <2>2, <2>3, <2>4
    <2>5. CASE r \notin T \/ s \notin T
      BY <2>2, <2>3, <2>5
    <2> QED BY <2>4, <2>5
  <1> QED BY <1>1, <1>3 DEF PR!Newest

\* The files as one entry, when none of them is broken.
LEMMA CatalogIsEntry ==
    ASSUME PR!PriTypes, Unsound \notin {v1, v2}
    PROVE  PR!Catalog \in PR!FileEntries
  BY DEF PR!PriTypes, PR!Catalog

LEMMA CatalogRates ==
    ASSUME PR!Catalog \in PR!FileEntries, PR!Catalog # None, NEW d
    PROVE  PR!Catalog \subseteq PR!Rates /\ PR!CatalogRate(d) \in PR!Catalog
  <1>1. PR!Catalog \subseteq PR!Rates /\ PR!Catalog # {}
    BY DEF PR!FileEntries, PR!Entries
  <1>2. PR!Effective(PR!Catalog, d) \in SUBSET PR!Catalog
    BY DEF PR!Effective
  <1> QED BY <1>1, <1>2, NewestIsOne DEF PR!CatalogRate

\* What is published: the history, and revisions of the catalog for days it
\* does not have.
LEMMA PublishedRates ==
    ASSUME PR!PriTypes, PR!Catalog \in PR!FileEntries, NEW d \in Days
    PROVE  /\ PR!Published[d] \in PR!Rates \cup {None}
           /\ v4[d] # None => PR!Published[d] = v4[d]
           /\ PR!Published[d] # None =>
                /\ PR!Published[d].from = d
                /\ v4[d] = PR!Published[d]
                   \/ (PR!Catalog # None /\ PR!Published[d] \in PR!Catalog)
           /\ PR!Catalog # None =>
                \A r \in PR!Catalog : r.from = d => PR!Published[d] # None
  <1> DEFINE dated == IF PR!Catalog = None THEN {} ELSE {r \in PR!Catalog : r.from = d}
  <1>1. PR!Published[d] = IF v4[d] # None \/ dated = {} THEN v4[d] ELSE PR!Newest(dated)
    BY DEF PR!Published
  <1>2. CASE v4[d] # None \/ dated = {}
    BY <1>1, <1>2 DEF PR!PriTypes
  <1>3. CASE v4[d] = None /\ dated # {}
    <2>1. PR!Catalog # None /\ dated \in SUBSET PR!Catalog
      BY <1>3
    <2>2. PR!Newest(dated) \in dated /\ PR!Newest(dated) \in PR!Rates
      BY <1>3, <2>1, NewestIsOne
    <2>3. None \notin PR!Rates
      BY PartsAssumption DEF PR!PricingAssumption
    <2> QED BY <1>1, <1>3, <2>1, <2>2, <2>3
  <1> QED BY <1>2, <1>3

\* A day is costed from the latest published revision not after it; where there
\* is none, from the catalog, and from no revision of a date up to the day.
LEMMA RateOfDay ==
    ASSUME PR!PriTypes, PR!Catalog \in PR!FileEntries, NEW d \in Days
    PROVE  \/ \E f \in Days :
                /\ f <= d /\ PR!Published[f] # None
                /\ PR!RateFor(PR!Published, d) = PR!Published[f]
                /\ \A g \in Days : g <= d /\ PR!Published[g] # None => g <= f
           \/ /\ \A g \in Days : g <= d => PR!Published[g] = None
              /\ PR!RateFor(PR!Published, d) = PR!CatalogRate(d)
              /\ PR!CatalogRate(d) # None =>
                   /\ PR!Catalog # None /\ PR!CatalogRate(d) \in PR!Catalog
                   /\ PR!CatalogRate(d).from \notin 1..d
  <1> DEFINE past == {f \in Days : f <= d /\ PR!Published[f] # None}
  <1>0. Days \subseteq Nat \ {0}
    BY PartsAssumption DEF PR!PricingAssumption
  <1>1. CASE past # {}
    <2>1. d \in Nat /\ past \in SUBSET (1..d)
      <3>1. \A f \in Days : f \in Nat /\ f # 0
        BY <1>0
      <3>2. \A f \in past : f \in Days /\ f <= d
        OBVIOUS
      <3> HIDE DEF past
      <3>3. \A f \in past : f \in 1..d
        BY <3>1, <3>2
      <3> QED BY <3>1, <3>3
    <2>2. PR!Max(past) \in past /\ \A f \in past : f <= PR!Max(past)
      BY <1>1, <2>1, GreatestDay
    <2>3. PR!RateFor(PR!Published, d) = PR!Published[PR!Max(past)]
      BY <1>1 DEF PR!RateFor
    <2> QED BY <2>2, <2>3
  <1>2. CASE past = {}
    <2>1. PR!RateFor(PR!Published, d) = PR!CatalogRate(d)
      BY <1>2 DEF PR!RateFor
    <2>2. \A g \in Days : g <= d => PR!Published[g] = None
      BY <1>2
    <2>3. ASSUME PR!CatalogRate(d) # None
          PROVE  /\ PR!Catalog # None /\ PR!CatalogRate(d) \in PR!Catalog
                 /\ PR!CatalogRate(d).from \notin 1..d
      <3>1. PR!Catalog # None
        BY <2>3 DEF PR!CatalogRate
      <3>2. PR!CatalogRate(d) \in PR!Catalog /\ PR!CatalogRate(d) \in PR!Rates
        BY <3>1, CatalogRates
      <3>3. PR!CatalogRate(d).from \in Days \cup {0}
        BY <3>2 DEF PR!Rates
      <3>4. PR!CatalogRate(d).from \in Days => PR!Published[PR!CatalogRate(d).from] # None
        BY <3>1, <3>2, PublishedRates
      <3>5. ASSUME PR!CatalogRate(d).from \in 1..d PROVE FALSE
        BY <1>0, <2>2, <3>3, <3>4, <3>5
      <3> QED BY <3>1, <3>2, <3>5
    <2> QED BY <2>1, <2>2, <2>3
  <1> QED BY <1>1, <1>2

\* What a cycle writes.
LEMMA CycleEffect ==
    ASSUME PR!PriInv, PR!SyncPricing
    PROVE  /\ PR!Catalog \in PR!FileEntries
           /\ UNCHANGED <<v1, v2>> /\ v4' = PR!Published
           /\ v5' = [d \in Days |-> v5'[d]]
           /\ \A d \in Days : v5'[d] = IF v5[d] = None THEN None
                                       ELSE PR!Cost(PR!RateFor(PR!Published, d))
  <1>1. Unsound \notin {v1, v2}
    BY DEF PR!SyncPricing
  <1>2. v5' = [d \in Days |-> IF v5[d] = None THEN None
                              ELSE PR!Cost(PR!RateFor(PR!Published, d))]
    BY DEF PR!SyncPricing, PR!CostedWith
  <1> QED BY <1>1, <1>2, CatalogIsEntry DEF PR!PriInv, PR!SyncPricing

\* After a cycle there is nothing left to publish.
LEMMA CycleSettles ==
    ASSUME PR!PriInv, PR!SyncPricing
    PROVE  PR!PriInv'
  <1>1. /\ PR!Catalog \in PR!FileEntries
        /\ UNCHANGED <<v1, v2>> /\ v4' = PR!Published
        /\ v5' = [d \in Days |-> v5'[d]]
        /\ \A d \in Days : v5'[d] = IF v5[d] = None THEN None
                                    ELSE PR!Cost(PR!RateFor(PR!Published, d))
    BY CycleEffect
  <1>2. PR!Catalog' = PR!Catalog /\ \A d : PR!CatalogRate(d)' = PR!CatalogRate(d)
    BY <1>1 DEF PR!Catalog, PR!CatalogRate, PR!Effective, PR!Newest
  <1>3. PR!PriTypes'
    <2>1. v4' \in [Days -> PR!Rates \cup {None}]
      <3>1. \A d \in Days : PR!Published[d] \in PR!Rates \cup {None}
        BY <1>1, PublishedRates DEF PR!PriInv
      <3> QED BY <1>1, <3>1 DEF PR!Published
    <2>2. \A f \in Days : v4'[f] # None => v4'[f].from = f
      BY <1>1, PublishedRates DEF PR!PriInv
    <2> QED BY <1>1, <2>1, <2>2 DEF PR!PriInv, PR!PriTypes
  <1>4. PR!CostedFromHistory'
    <2> SUFFICES ASSUME NEW d \in Days, v5'[d] # None, v5'[d].from \in 1..d
                 PROVE  /\ v5'[d].from \in Days /\ v4'[v5'[d].from] # None
                        /\ v5'[d] = PR!Cost(v4'[v5'[d].from])
      BY DEF PR!CostedFromHistory, PR!Cost, PR!Uncosted
    <2> DEFINE rate == PR!RateFor(PR!Published, d)
    <2>1. v5'[d] = PR!Cost(rate)
      BY <1>1
    <2>2. rate # None
      BY <2>1, PartsAssumption DEF PR!Cost, PR!Uncosted, PR!PricingAssumption
    <2>3. v5'[d].from = rate.from
      BY <2>1, <2>2 DEF PR!Cost
    <2>4. PICK f \in Days : PR!Published[f] # None /\ rate = PR!Published[f]
      BY <1>1, <2>2, <2>3, RateOfDay DEF PR!PriInv
    <2>5. rate.from = f
      BY <1>1, <2>4, PublishedRates DEF PR!PriInv
    <2> QED BY <1>1, <2>1, <2>3, <2>4, <2>5
  <1>5. PR!Settled'
    <2>1. PR!Published' = PR!Published
      <3>1. ASSUME NEW d \in Days
            PROVE  PR!Published'[d] = PR!Published[d]
        <4> DEFINE dated == IF PR!Catalog = None THEN {} ELSE {r \in PR!Catalog : r.from = d}
        <4>1. PR!Published'[d] = IF v4'[d] # None \/ dated = {} THEN v4'[d]
                                 ELSE PR!Newest(dated)
          BY <1>2 DEF PR!Published, PR!Newest
        <4>2. PR!Published[d] = IF v4[d] # None \/ dated = {} THEN v4[d]
                                ELSE PR!Newest(dated)
          BY DEF PR!Published
        <4> HIDE DEF dated
        <4> QED BY <1>1, <4>1, <4>2
      <3> QED BY <3>1 DEF PR!Published
    <2>2. \A d \in Days : PR!RateFor(PR!Published, d) = PR!RateFor(v4, d)'
      BY <1>1, <1>2 DEF PR!RateFor, PR!Max
    <2>3. \A d \in Days : PR!Cost(PR!RateFor(v4, d))' = PR!Cost(PR!RateFor(PR!Published, d))
      BY <2>2 DEF PR!Cost, PR!Uncosted
    <2> QED BY <1>1, <2>1, <2>3 DEF PR!Settled
  <1> QED BY <1>3, <1>4, <1>5 DEF PR!PriInv

LEMMA PricingStep == ASSUME PR!PriInv, [PR!PriNext]_(PR!priVars) PROVE PR!PriInv'
  <1>1. ASSUME NEW b, NEW o, PR!Edit(b, o), {b, o} \subseteq PR!FileEntries \cup {Unsound}
        PROVE  PR!PriInv'
    <2>1. UNCHANGED <<v4, v5>> /\ v1' = b /\ v2' = o /\ v6' = FALSE
      BY <1>1 DEF PR!Edit
    <2> QED BY <1>1, <2>1
            DEF PR!PriInv, PR!PriTypes, PR!CostedFromHistory, PR!Settled, PR!Cost, PR!Uncosted
  <1>2. ASSUME NEW d \in Days, PR!UsageArrives(d) PROVE PR!PriInv'
    <2>1. UNCHANGED <<v1, v2, v4>> /\ v6' = FALSE
          /\ v5' = [v5 EXCEPT ![d] = PR!Uncosted]
      BY <1>2 DEF PR!UsageArrives
    <2>2. /\ v5' = [c \in Days |-> v5'[c]]
          /\ \A c \in Days : v5'[c] = IF c = d THEN PR!Uncosted ELSE v5[c]
      BY <2>1 DEF PR!PriInv, PR!PriTypes
    <2>3. PR!Uncosted.from \notin Nat
      BY PartsAssumption DEF PR!Uncosted, PR!PricingAssumption
    <2>4. PR!CostedFromHistory'
      <3> SUFFICES ASSUME NEW c \in Days, v5'[c] # None, v5'[c].from \in 1..c
                   PROVE  /\ v5'[c].from \in Days /\ v4'[v5'[c].from] # None
                          /\ v5'[c] = PR!Cost(v4'[v5'[c].from])
        BY DEF PR!CostedFromHistory, PR!Cost, PR!Uncosted
      <3>1. v5'[c] = v5[c]
        BY <2>2, <2>3
      <3> QED BY <2>1, <3>1 DEF PR!PriInv, PR!CostedFromHistory
    <2> QED BY <2>1, <2>2, <2>4 DEF PR!PriInv, PR!PriTypes, PR!Settled
  <1>3. CASE PR!SyncPricing
    BY <1>3, CycleSettles
  <1>4. CASE PR!PricingFails
    BY <1>4 DEF PR!PricingFails, PR!PriInv, PR!PriTypes, PR!CostedFromHistory, PR!Settled,
       PR!Cost, PR!Uncosted
  <1>5. CASE UNCHANGED PR!priVars
    <2>1. UNCHANGED <<v1, v2, v4, v5, v6>>
      BY <1>5 DEF PR!priVars
    <2>2. PR!Catalog' = PR!Catalog /\ \A d : PR!CatalogRate(d)' = PR!CatalogRate(d)
      BY <2>1 DEF PR!Catalog, PR!CatalogRate, PR!Effective, PR!Newest
    <2>3. PR!Published' = PR!Published
      BY <2>1, <2>2 DEF PR!Published, PR!Newest
    <2>4. \A d \in Days : PR!Cost(PR!RateFor(v4, d))' = PR!Cost(PR!RateFor(v4, d))
      <3>1. \A d \in Days : PR!RateFor(v4, d)' = PR!RateFor(v4, d)
        BY <2>1, <2>2 DEF PR!RateFor, PR!Max
      <3> QED BY <3>1 DEF PR!Cost, PR!Uncosted
    <2>5. PR!CostedFromHistory'
      BY <2>1 DEF PR!PriInv, PR!CostedFromHistory, PR!Cost, PR!Uncosted
    <2> QED BY <2>1, <2>3, <2>4, <2>5 DEF PR!PriInv, PR!PriTypes, PR!Settled
  <1>6. {v1, v2} \subseteq PR!FileEntries \cup {Unsound}
    BY DEF PR!PriInv, PR!PriTypes
  <1> QED BY <1>1, <1>2, <1>3, <1>4, <1>5, <1>6 DEF PR!PriNext

\* A cycle reprices a day only from a later revision, changes nothing when it
\* finds what the cycle before it found, and loses no price.
LEMMA CycleCosts ==
    ASSUME PR!PriInv, PR!SyncPricing
    PROVE  PR!RepricesByLater /\ PR!Converges /\ PR!KeepsPrices
  <1>1. /\ PR!Catalog \in PR!FileEntries
        /\ v5' = [d \in Days |-> v5'[d]]
        /\ \A d \in Days : v5'[d] = IF v5[d] = None THEN None
                                    ELSE PR!Cost(PR!RateFor(PR!Published, d))
    BY CycleEffect
  <1>0. PR!PriTypes /\ Days \subseteq Nat \ {0} /\ None \notin Nat
    BY PartsAssumption DEF PR!PriInv, PR!PricingAssumption
  <1>2. PR!RepricesByLater
    <2> SUFFICES ASSUME NEW d \in Days, v5[d] # None, v5[d].from \in 1..d, v5'[d] # v5[d]
                 PROVE  v5'[d].from > v5[d].from
      BY DEF PR!RepricesByLater
    <2> DEFINE x == v5[d].from
    <2>1. x \in Days /\ v4[x] # None /\ v5[d] = PR!Cost(v4[x]) /\ x <= d
      BY DEF PR!PriInv, PR!CostedFromHistory
    <2>2. PR!Published[x] = v4[x]
      BY <1>0, <1>1, <2>1, PublishedRates
    <2> HIDE DEF x
    <2>3. PICK f \in Days :
            /\ PR!Published[f] # None
            /\ PR!RateFor(PR!Published, d) = PR!Published[f]
            /\ \A g \in Days : g <= d /\ PR!Published[g] # None => g <= f
      BY <1>0, <1>1, <2>1, <2>2, RateOfDay
    <2>4. v5'[d] = PR!Cost(PR!Published[f])
      BY <1>1, <2>3
    <2>5. v5'[d].from = f
      BY <1>0, <1>1, <2>3, <2>4, PublishedRates DEF PR!Cost
    <2>6. x <= f /\ x # f
      BY <2>1, <2>2, <2>3, <2>4
    <2> QED BY <1>0, <2>1, <2>5, <2>6 DEF x
  <1>3. PR!Converges
    <2> SUFFICES ASSUME v6 PROVE v5' = v5
      BY DEF PR!Converges
    <2>1. v4 = PR!Published
          /\ \A d \in Days : v5[d] # None => v5[d] = PR!Cost(PR!RateFor(v4, d))
      BY DEF PR!PriInv, PR!Settled
    <2>2. \A d \in Days : v5'[d] = v5[d]
      BY <1>1, <2>1
    <2>3. v5 = [d \in Days |-> v5[d]]
      BY <1>0 DEF PR!PriTypes
    <2> QED BY <1>1, <2>2, <2>3
  <1>4. PR!KeepsPrices
    <2> SUFFICES ASSUME NEW d \in Days, v5[d] # None, v5[d].usd # None, v5'[d].usd = None
                 PROVE  \/ PR!Catalog = None \/ \E r \in PR!Catalog : r.usd = None
                        \/ \E f \in Days : v4[f] # None /\ v4[f].usd = None
      BY DEF PR!KeepsPrices
    <2> DEFINE rate == PR!RateFor(PR!Published, d)
    <2>1. v5'[d] = PR!Cost(rate)
      BY <1>1
    <2>2. CASE PR!Catalog # None
      <3>1. PR!CatalogRate(d) \in PR!Catalog /\ PR!CatalogRate(d) \in PR!Rates
        BY <1>1, <2>2, CatalogRates
      <3>2. \/ rate \in PR!Catalog
            \/ \E f \in Days : v4[f] # None /\ rate = v4[f]
        BY <1>0, <1>1, <2>2, <3>1, RateOfDay, PublishedRates
      <3>3. rate # None
        <4>1. None \notin PR!Rates /\ PR!Catalog \subseteq PR!Rates
          BY <1>1, <2>2, CatalogRates, PartsAssumption DEF PR!PricingAssumption
        <4> QED BY <3>2, <4>1
      <3>4. rate.usd = None
        BY <2>1, <3>3 DEF PR!Cost
      <3> QED BY <3>2, <3>4
    <2> QED BY <2>2
  <1> QED BY <1>2, <1>3, <1>4

LEMMA PricingForward ==
    ASSUME PR!PriInv, PR!PriNext
    PROVE  PR!RepricesByLater /\ PR!Converges /\ PR!KeepsPrices
  <1>1. CASE PR!SyncPricing
    BY <1>1, CycleCosts
  <1>2. CASE v5' = v5 /\ ~v6'
    BY <1>2 DEF PR!RepricesByLater, PR!Converges, PR!KeepsPrices
  <1>3. ASSUME NEW d \in Days, PR!UsageArrives(d)
        PROVE  PR!RepricesByLater /\ PR!Converges /\ PR!KeepsPrices
    <2>1. v5[d] = None /\ v5' = [v5 EXCEPT ![d] = PR!Uncosted] /\ v6' = FALSE
      BY <1>3 DEF PR!UsageArrives
    <2>2. \A c \in Days : v5[c] # None => v5'[c] = v5[c]
      BY <2>1 DEF PR!PriInv, PR!PriTypes
    <2> QED BY <2>1, <2>2 DEF PR!RepricesByLater, PR!Converges, PR!KeepsPrices
  <1> QED BY <1>1, <1>2, <1>3 DEF PR!PriNext, PR!Edit, PR!PricingFails

\* Closed days are repriced by later revisions only, repeated cycles converge,
\* no price is lost but by the files or the history, and a variance of the bill
\* is answered with one diagnostic: for every set of days and rates and every
\* sequence of bills.
THEOREM CostsStayRight == PartsSpec => CostsRight
  <1> DEFINE Inv == /\ part = "pricing" => PR!PriInv
                    /\ part = "billing" => BI!BilInv
  <1>1. PartsInit => Inv
    BY PricingPart, PricingInitially, BillingPart, BillingInitially
  <1>2. Inv /\ [PartsNext]_slots => Inv'
    BY PartStays, PricingPart, PricingStep, BillingPart, BillingStep
  <1>3. Inv => (part = "billing" => BI!OneDiagnostic)
    BY DEF BI!BilInv
  <1>4. Inv /\ [PartsNext]_slots =>
          [part = "pricing" =>
             PR!RepricesByLater /\ PR!Converges /\ PR!KeepsPrices]_slots
    BY PricingForward DEF PartsNext
  <1> QED BY <1>1, <1>2, <1>3, <1>4, PTL DEF PartsSpec, CostsRight

-----------------------------------------------------------------------------
(* Fleet time: the pass has counted exactly the seconds the rows behind it *)
(* speak for; a row adds those between it and the row before it.           *)

LEMMA IdlePart ==
    ASSUME part = "idle"
    PROVE  /\ PartsInit => ID!IdlInit
           /\ [PartsNext]_slots => [ID!IdlNext]_(ID!idlVars)
  <1>1. PartsInit => ID!IdlInit
    BY DEF PartsInit
  <1>2. PartsNext => ID!IdlNext
    BY DEF PartsNext
  <1>3. UNCHANGED slots => UNCHANGED ID!idlVars
    BY DEF slots, ID!idlVars
  <1> QED BY <1>1, <1>2, <1>3

LEMMA SecondsCount ==
    ASSUME NEW S \in SUBSET (v2..(Now - 1)), v2 \in Int
    PROVE  /\ IsFiniteSet(S) /\ Cardinality(S) \in Nat
           /\ ID!Cardinality(S) = Cardinality(S)
  <1>1. IsFiniteSet(v2..(Now - 1))
    BY PartsAssumption, FS_Interval DEF PartsAssumption, ID!IdleAssumption
  <1>2. IsFiniteSet(S) /\ Cardinality(S) \in Nat
    BY <1>1, FS_Subset, FS_CardinalityType
  <1> QED BY <1>2 DEF ID!Cardinality, Cardinality

LEMMA IdleInitially == ASSUME ID!IdlInit PROVE ID!IdlInv
  <1>1. v1 \in Seq(ID!FleetSnapshots) /\ ID!Increasing(v1)
    <2>1. PICK n \in 0..MaxSnaps : v1 \in [1..n -> ID!FleetSnapshots]
      BY DEF ID!IdlInit
    <2> QED BY <2>1, PartsAssumption DEF ID!IdlInit, PartsAssumption, ID!IdleAssumption
  <1>2. v3 = 0 /\ v2 \in 0..Now /\ v4 = 0 /\ v5 = 0 /\ v6 = 0 /\ v7 = 0
    BY DEF ID!IdlInit
  <1>3. \A kinds : ID!Noted(kinds) = {}
    BY <1>2 DEF ID!Noted
  <1>4. ID!Cardinality({}) = 0
    BY FS_EmptySet DEF ID!Cardinality, Cardinality
  <1>5. Len(v1) \in Nat /\ v3 \in 0..Len(v1)
    BY <1>1, <1>2
  <1>6. \A kinds : ID!Cardinality(ID!Noted(kinds)) = 0
    BY <1>3, <1>4
  <1> QED BY <1>1, <1>2, <1>5, <1>6 DEF ID!IdlInv

\* What one row adds to the seconds of some kinds.
LEMMA RowSpeaks ==
    ASSUME ID!IdlInv, ID!NoteRow, NEW kinds, "gap" \notin kinds
    PROVE  ID!Cardinality(ID!Noted(kinds)') = ID!Cardinality(ID!Noted(kinds))
             + IF v3 \in ID!Fetched /\ ID!Saw(v3) \in kinds
                 THEN ID!Clipped(v1[v3], v1[v3 + 1]) ELSE 0
  <1> DEFINE S == ID!Seconds(kinds)
             K == ID!Noted(kinds)
             A(i) == v1[i].at
             I == {t \in S : A(v3) <= t /\ t < A(v3 + 1)}
  <1>1. /\ v1 \in Seq(ID!FleetSnapshots) /\ v1' = v1 /\ v2 \in 0..Now /\ v2' = v2
        /\ v3 \in 0..Len(v1) /\ v3 < Len(v1) /\ v3' = v3 + 1
        /\ Now \in Nat /\ Gap \in Nat /\ Len(v1) \in Nat
    BY PartsAssumption DEF PartsAssumption, ID!IdleAssumption, ID!IdlInv, ID!NoteRow
  <1>2. \A i \in 1..Len(v1) : A(i) \in 0..Now
    <2>1. \A i \in 1..Len(v1) : v1[i] \in ID!FleetSnapshots
      BY <1>1
    <2> QED BY <2>1 DEF ID!FleetSnapshots
  <1>3. \A i, j \in 1..Len(v1) : i < j => A(i) < A(j)
    BY <1>1 DEF ID!IdlInv, ID!Increasing
  <1>4. S' = S /\ S \in SUBSET (v2..(Now - 1))
    BY <1>1 DEF ID!Seconds, ID!SpeaksFor, ID!Saw
  <1>5. K' = {t \in S : t < A(v3 + 1)} /\ K = {t \in S : v3 > 0 /\ t < A(v3)}
    BY <1>1, <1>4 DEF ID!Noted
  <1>6. \A t \in S : \E i \in 1..(Len(v1) - 1) :
          A(i) <= t /\ t < A(i + 1) /\ ID!Saw(i) \in kinds
    BY DEF ID!Seconds, ID!SpeaksFor
  <1>7. K \in SUBSET (v2..(Now - 1)) /\ I \in SUBSET (v2..(Now - 1))
    BY <1>4, <1>5
  <1> HIDE DEF S, K
  <1>8. CASE v3 = 0
    <2>1. K' = {} /\ K = {}
      <3>1. ASSUME NEW t \in S, t < A(1) PROVE FALSE
        <4>1. PICK i \in 1..(Len(v1) - 1) : A(i) <= t
          BY <1>6
        <4>2. i \in 1..Len(v1) /\ 1 \in 1..Len(v1) /\ (i = 1 \/ 1 < i) /\ t \in Int
          BY <1>1, <1>4, <4>1
        <4>3. A(1) \in Int /\ A(i) \in Int /\ (i = 1 \/ A(1) < A(i))
          BY <1>1, <1>2, <1>3, <4>2
        <4> QED BY <3>1, <4>1, <4>2, <4>3
      <3> QED BY <1>1, <1>5, <1>8, <3>1
    <2>2. v3 \notin ID!Fetched
      BY <1>1, <1>8 DEF ID!Fetched
    <2>3. ID!Cardinality({}) = 0
      BY FS_EmptySet DEF ID!Cardinality, Cardinality
    <2> QED BY <2>1, <2>2, <2>3 DEF K
  <1>9. CASE v3 > 0
    <2>1. /\ v3 \in 1..(Len(v1) - 1) /\ A(v3) \in 0..Now /\ A(v3 + 1) \in 0..Now
          /\ A(v3) < A(v3 + 1)
      BY <1>1, <1>2, <1>3, <1>9
    <2>2. K' = K \cup I /\ K \cap I = {}
      <3>1. K = {t \in S : t < A(v3)}
        BY <1>5, <1>9
      <3>2. \A t \in S : t \in Int
        BY <1>1, <1>4
      <3> HIDE DEF A
      <3> QED BY <1>5, <2>1, <3>1, <3>2
    <2>3. ASSUME NEW t \in I
          PROVE  ID!Saw(v3) \in kinds
      <3>1. PICK i \in 1..(Len(v1) - 1) : A(i) <= t /\ t < A(i + 1) /\ ID!Saw(i) \in kinds
        BY <1>6
      <3>2. t \in Int /\ A(i) \in Int /\ A(i + 1) \in Int /\ A(v3) <= t /\ t < A(v3 + 1)
        BY <1>1, <1>2, <1>4, <3>1
      <3>3. ~(i < v3)
        <4>1. i < v3 => i + 1 = v3 \/ A(i + 1) < A(v3)
          BY <1>1, <1>3, <2>1
        <4> QED BY <2>1, <3>1, <3>2, <4>1
      <3>4. ~(v3 < i)
        <4>1. v3 < i => v3 + 1 = i \/ A(v3 + 1) < A(i)
          BY <1>1, <1>3, <2>1
        <4> QED BY <2>1, <3>1, <3>2, <4>1
      <3> QED BY <2>1, <3>1, <3>3, <3>4
    <2>4. CASE v3 \in ID!Fetched /\ ID!Saw(v3) \in kinds
      <3>1. I = ID!Larger(A(v3), v2)..(A(v3 + 1) - 1)
        <4>1. \A t \in v2..(Now - 1) : A(v3) <= t /\ t < A(v3 + 1) => t \in S
          <5>1. v3 \in DOMAIN v1
            BY <1>1, <2>1
          <5> QED BY <2>1, <2>4, <5>1 DEF S, ID!Seconds, ID!SpeaksFor
        <4>2. \A t \in I : t \in v2..(Now - 1) /\ A(v3) <= t /\ t < A(v3 + 1)
          BY <1>4
        <4>3. \A t \in v2..(Now - 1) : A(v3) <= t /\ t < A(v3 + 1) => t \in I
          BY <4>1
        <4> HIDE DEF A, I
        <4>4. \A t : t \in I <=> t \in ID!Larger(A(v3), v2)..(A(v3 + 1) - 1)
          BY <1>1, <2>1, <4>2, <4>3 DEF ID!Larger
        <4> QED BY <4>4
      <3>2. Cardinality(I) = ID!Larger(0, A(v3 + 1) - ID!Larger(A(v3), v2))
        <4> HIDE DEF A, I
        <4>1. ID!Larger(A(v3), v2) \in Int /\ A(v3 + 1) - 1 \in Int
          BY <1>1, <2>1 DEF ID!Larger
        <4>2. Cardinality(I) = IF ID!Larger(A(v3), v2) > A(v3 + 1) - 1 THEN 0
                               ELSE (A(v3 + 1) - 1) - ID!Larger(A(v3), v2) + 1
          BY <3>1, <4>1, FS_Interval
        <4>3. \A l, h \in Int : (IF l > h - 1 THEN 0 ELSE (h - 1) - l + 1) = ID!Larger(0, h - l)
          BY DEF ID!Larger
        <4>4. A(v3 + 1) \in Int
          BY <2>1
        <4> QED BY <4>1, <4>2, <4>3, <4>4
      <3>3. Cardinality(I) = ID!Clipped(v1[v3], v1[v3 + 1])
        BY <3>2 DEF ID!Clipped
      <3>4. v2 \in Int
        BY <1>1
      <3>5. Cardinality(K \cup I) = Cardinality(K) + Cardinality(I)
        <4>1. IsFiniteSet(K) /\ IsFiniteSet(I) /\ Cardinality(K) \in Nat /\ Cardinality(I) \in Nat
          BY <1>7, <3>4, SecondsCount
        <4>2. Cardinality(K \cap I) = 0
          BY <2>2, FS_EmptySet
        <4>3. Cardinality(K \cup I) = Cardinality(K) + Cardinality(I) - Cardinality(K \cap I)
          BY <4>1, FS_Union
        <4> QED BY <4>1, <4>2, <4>3
      <3>6. K \cup I \in SUBSET (v2..(Now - 1))
        BY <1>7
      <3>7. ID!Cardinality(K \cup I) = Cardinality(K \cup I) /\ ID!Cardinality(K) = Cardinality(K)
        BY <1>7, <3>4, <3>6, SecondsCount
      <3> QED BY <2>2, <2>4, <3>3, <3>5, <3>7 DEF K
    <2>5. CASE ~(v3 \in ID!Fetched /\ ID!Saw(v3) \in kinds)
      <3>1. I = {}
        <4>1. ASSUME NEW t \in I PROVE FALSE
          <5>1. v3 \notin ID!Fetched
            BY <2>3, <2>5, <4>1
          <5>2. A(v3) < v2 - Gap
            BY <1>1, <2>1, <5>1 DEF ID!Fetched
          <5>3. t \in Int /\ v2 <= t /\ t < A(v3 + 1)
            BY <1>1, <1>4, <4>1
          <5>4. A(v3 + 1) - A(v3) > Gap
            <6> HIDE DEF A
            <6> QED BY <1>1, <2>1, <5>2, <5>3
          <5>5. ID!Saw(v3) = "gap"
            BY <5>4 DEF ID!Saw
          <5> QED BY <2>3, <4>1, <5>5
        <4> QED BY <4>1
      <3>2. K' = K
        BY <2>2, <3>1
      <3>3. ID!Cardinality(K) \in Nat
        BY <1>1, <1>7, SecondsCount
      <3> QED BY <2>5, <3>2, <3>3 DEF K
    <2> QED BY <2>4, <2>5
  <1> QED BY <1>1, <1>8, <1>9

LEMMA IdleStep == ASSUME ID!IdlInv, [ID!IdlNext]_(ID!idlVars) PROVE ID!IdlInv'
  <1>1. CASE ID!IdlNext
    <2> DEFINE part_(kinds) == IF v3 \in ID!Fetched /\ ID!Saw(v3) \in kinds
                               THEN ID!Clipped(v1[v3], v1[v3 + 1]) ELSE 0
    <2>1. ID!NoteRow
      BY <1>1 DEF ID!IdlNext
    <2>2. /\ ID!Cardinality(ID!Noted({"working", "idle"})') = v5 + part_({"working", "idle"})
          /\ ID!Cardinality(ID!Noted({"idle"})') = v4 + part_({"idle"})
          /\ ID!Cardinality(ID!Noted({"paused"})') = v6 + part_({"paused"})
          /\ ID!Cardinality(ID!Noted({"unavailable"})') = v7 + part_({"unavailable"})
      BY <2>1, RowSpeaks DEF ID!IdlInv
    <2>3. v4 \in Nat /\ v5 \in Nat /\ v6 \in Nat /\ v7 \in Nat
      <3>1. \A kinds : ID!Noted(kinds) \in SUBSET (v2..(Now - 1))
        BY DEF ID!Noted, ID!Seconds
      <3>2. v2 \in Int
        BY DEF ID!IdlInv
      <3>3. \A kinds : ID!Cardinality(ID!Noted(kinds)) \in Nat
        BY <3>1, <3>2, SecondsCount
      <3> QED BY <3>3 DEF ID!IdlInv
    <2>4. /\ v5' = v5 + part_({"working", "idle"})
          /\ v4' = v4 + part_({"idle"})
          /\ v6' = v6 + part_({"paused"})
          /\ v7' = v7 + part_({"unavailable"})
      <3>1. CASE v3 \notin ID!Fetched
        BY <2>1, <2>3, <3>1 DEF ID!NoteRow
      <3>2. CASE v3 \in ID!Fetched
        BY <2>1, <2>3, <3>2 DEF ID!NoteRow, ID!Saw
      <3> QED BY <3>1, <3>2
    <2>5. v1' = v1 /\ v2' = v2 /\ v3' \in 0..Len(v1)
      BY <2>1 DEF ID!NoteRow, ID!IdlInv
    <2> HIDE DEF part_
    <2>6. /\ v5' = ID!Cardinality(ID!Noted({"working", "idle"})')
          /\ v4' = ID!Cardinality(ID!Noted({"idle"})')
          /\ v6' = ID!Cardinality(ID!Noted({"paused"})')
          /\ v7' = ID!Cardinality(ID!Noted({"unavailable"})')
      BY <2>2, <2>4
    <2> QED BY <2>5, <2>6 DEF ID!IdlInv, ID!Increasing
  <1>2. CASE UNCHANGED ID!idlVars
    BY <1>2 DEF ID!idlVars, ID!IdlInv, ID!Increasing, ID!Noted, ID!Seconds, ID!SpeaksFor, ID!Saw
  <1> QED BY <1>1, <1>2

\* At the end of the pass there is no second left to speak for.
LEMMA AllSeconds == ASSUME ID!IdlInv PROVE ID!SecondsExact
  <1> SUFFICES ASSUME v3 = Len(v1) PROVE \A kinds : ID!Noted(kinds) = ID!Seconds(kinds)
    BY DEF ID!IdlInv, ID!SecondsExact
  <1>1. /\ Len(v1) \in Nat /\ v2 \in Int /\ Now \in Nat
        /\ \A i \in 1..Len(v1) : v1[i].at \in Int
    <2>1. \A i \in 1..Len(v1) : v1[i] \in ID!FleetSnapshots
      BY DEF ID!IdlInv
    <2> QED BY <2>1, PartsAssumption
      DEF PartsAssumption, ID!IdleAssumption, ID!IdlInv, ID!FleetSnapshots
  <1>2. ASSUME NEW kinds, NEW t \in ID!Seconds(kinds)
        PROVE  Len(v1) > 0 /\ t < v1[Len(v1)].at
    <2>1. PICK i \in 1..(Len(v1) - 1) : t < v1[i + 1].at
      BY DEF ID!Seconds, ID!SpeaksFor
    <2>2. /\ i + 1 \in 1..Len(v1) /\ Len(v1) \in 1..Len(v1)
          /\ i + 1 = Len(v1) \/ i + 1 < Len(v1)
      BY <1>1, <2>1
    <2>3. v1[i + 1].at = v1[Len(v1)].at \/ v1[i + 1].at < v1[Len(v1)].at
      BY <1>1, <2>2 DEF ID!IdlInv, ID!Increasing
    <2>4. t \in Int
      BY <1>1 DEF ID!Seconds
    <2> QED BY <1>1, <2>1, <2>2, <2>3, <2>4
  <1> QED BY <1>2 DEF ID!Noted

\* No start and no readiness is measured that has not happened while the
\* collection ran, whatever the card does between the syncs; and the pass over
\* the fleet's snapshots counts every second of the window exactly once.
THEOREM FlowIsMeasured == PartsSpec => []FlowMeasured
  <1> DEFINE Inv == /\ part = "flow" => FL!FlowInv
                    /\ part = "idle" => ID!IdlInv
  <1>1. PartsInit => Inv
    BY FlowPart, FlowInitially, IdlePart, IdleInitially
  <1>2. Inv /\ [PartsNext]_slots => Inv'
    BY PartStays, FlowPart, FlowStep, IdlePart, IdleStep
  <1>3. Inv => FlowMeasured
    BY FlowTruthful, AllSeconds DEF FlowMeasured
  <1> QED BY <1>1, <1>2, <1>3, PTL DEF PartsSpec

-----------------------------------------------------------------------------
(* Shares: see SharesProofs.                                               *)

LEMMA SharesPart ==
    ASSUME part = "shares"
    PROVE  /\ PartsInit => SH!ShaInit
           /\ [PartsNext]_slots => [SH!ShaNext]_(SH!shaVars)
  <1>1. PartsInit => SH!ShaInit
    BY DEF PartsInit
  <1>2. PartsNext => SH!ShaNext
    BY DEF PartsNext
  <1>3. UNCHANGED slots => UNCHANGED SH!shaVars
    BY DEF slots, SH!shaVars
  <1> QED BY <1>1, <1>2, <1>3

\* Whatever runs are stored, whichever of them lack an end, and whatever range
\* is selected, in whole dates or by the clock: the shares of a day add up to
\* its row, and those of a range to the sum of its parts, dates and clock ranges
\* mixed where the day has dated runs, of one kind where it has none
\* (daily_shares, _run_filter_selection).
THEOREM SharesAreConserved == PartsSpec => []SharesAdd
  <1> DEFINE Inv == part = "shares" => SH!SharesTypes
  <1>1. PartsInit => Inv
    BY PartsAssumption, SharesPart, SH!SharesInitially
  <1>2. Inv /\ [PartsNext]_slots => Inv'
    BY PartsAssumption, PartStays, SharesPart, SH!SharesStep
  <1>3. Inv => SharesAdd
    BY PartsAssumption, SH!SharesAddUp DEF SharesAdd, SH!SharesAdding
  <1> QED BY <1>1, <1>2, <1>3, PTL DEF PartsSpec
=============================================================================
