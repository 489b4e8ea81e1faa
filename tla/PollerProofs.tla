---------------------------- MODULE PollerProofs ----------------------------
(***************************************************************************)
(* Proofs about Poller: the types of its state, and that an issue taken    *)
(* for settled has the tokens of its runs, for every number of issues,     *)
(* every page and budget, and however often the remote side changes.       *)
(***************************************************************************)
EXTENDS Poller, FiniteSetTheorems, SequenceTheorems, TLAPS

RunType == [at : Nat, active : BOOLEAN]
KeyType == Nat \X Nat

PolTypeOK ==
    /\ clock \in Nat /\ daily \in Nat /\ lDaily \in Nat
    /\ updated \in [Issues -> Nat] /\ lUpdated \in [Issues -> Nat]
    /\ run \in [Issues -> RunType] /\ lRun \in [Issues -> RunType]
    /\ usage \in [Issues -> Nat] /\ lUsage \in [Issues -> Nat]
    /\ syncedFor \in [Issues -> KeyType]
    /\ page \in Seq(Issues \X Nat) /\ pending \in Seq(Issues \X KeyType)
    /\ fetched \in Nat \cup {NotFetched}

\* A run that has ended has its tokens counted.
RemoteCounted ==
    \A i \in Issues :
      /\ run[i].at <= clock /\ usage[i] <= clock
      /\ ~run[i].active => usage[i] >= run[i].at

\* What is known of a run is what the run was at some time.
LocalBehind ==
    \A i \in Issues :
      /\ lRun[i].at <= run[i].at /\ (lRun[i].at = run[i].at => lRun[i] = run[i])
      /\ ~lRun[i].active => usage[i] >= lRun[i].at
      /\ lUsage[i] <= usage[i]

\* No run of i that ended at t is known here or will ever be.
Unended(i, t) ==
    /\ t <= run[i].at
    /\ run[i].at = t => run[i].active
    /\ lRun[i].at = t => lRun[i].active

Accounted(i, t, tokens) == tokens >= t \/ Unended(i, t)

\* A key counts the tokens of the run it names, unless that run is not the
\* one that ended: the marks do by the tokens stored, the keys waiting by the
\* tokens on the remote side, the first of them by the answer that is held.
MarksAccounted == \A i \in Issues : Accounted(i, syncedFor[i][2], lUsage[i])

WaitingAccounted ==
    \A k \in 1..Len(pending) :
      Accounted(pending[k][1], pending[k][2][2], usage[pending[k][1]])

HeldAccounted ==
    fetched # NotFetched =>
      /\ pending # <<>>
      /\ LET i == pending[1][1] IN
         /\ lUsage[i] <= fetched /\ fetched <= usage[i]
         /\ Accounted(i, pending[1][2][2], fetched)

PolInv ==
    /\ PolTypeOK /\ RemoteCounted /\ LocalBehind
    /\ MarksAccounted /\ WaitingAccounted /\ HeldAccounted

-----------------------------------------------------------------------------
(* The order of lists.                                                     *)

LEMMA LeastNatural ==
    ASSUME NEW S \in SUBSET Nat, S # {}
    PROVE  \E m \in S : \A n \in S : m <= n
  <1>1. \E m \in S : \A n \in S : ~ (<<n, m>> \in OpToRel(<, Nat))
    BY NatLessThanWellFounded, WFMin
  <1>2. \A m, n \in S : ~(<<n, m>> \in OpToRel(<, Nat)) => m <= n
    BY DEF OpToRel
  <1> QED BY <1>1, <1>2

\* And every set of positions of a list a greatest.
LEMMA GreatestNatural ==
    ASSUME NEW b \in Nat, NEW S \in SUBSET (1..b), S # {}
    PROVE  \E m \in S : \A n \in S : n <= m
  <1> DEFINE T == {u \in Nat : \A n \in S : n <= u}
  <1>1. b \in T
    OBVIOUS
  <1>2. PICK m \in T : \A u \in T : m <= u
    <2>1. T \in SUBSET Nat /\ T # {}
      BY <1>1
    <2> QED BY <2>1, LeastNatural
  <1>3. m \in S
    <2>1. PICK n \in S : n <= m
      BY <1>2
    <2>2. SUFFICES ASSUME m \notin S PROVE FALSE
      OBVIOUS
    <2>3. m \in Nat /\ m - 1 \in Nat
      BY <2>1, <1>2
    <2>4. ASSUME NEW j \in S PROVE j <= m - 1
      BY <2>2, <2>3, <1>2
    <2>5. m - 1 \in T
      BY <2>3, <2>4
    <2> QED BY <2>3, <2>5, <1>2
  <1>4. \A n \in S : n <= m
    BY <1>2
  <1> QED BY <1>3, <1>4

LEMMA GreatestPosition ==
    ASSUME NEW b \in Nat, NEW S \in SUBSET (1..b), S # {}
    PROVE  Max(S) \in S
  <1>1. PICK m \in S : \A n \in S : n <= m
    BY GreatestNatural
  <1>2. m \in S /\ \A n \in S : m >= n
    BY <1>1
  <1> QED BY <1>2 DEF Max

\* Every set of issues has an order by rank, and Latest is one.
LEMMA LatestOrders ==
    ASSUME PollerAssumption, NEW S \in SUBSET Issues, NEW rank \in [Issues -> Nat]
    PROVE  Latest(S, rank) \in [1..Cardinality(S) -> S]
  <1> DEFINE Ordered(U, s) ==
               /\ s \in [1..Cardinality(U) -> U]
               /\ \A j, k \in DOMAIN s : j < k => s[j] # s[k] /\ rank[s[j]] >= rank[s[k]]
             Bad == {U \in SUBSET S : ~ \E s : Ordered(U, s)}
  <1>1. IsFiniteSet(S) /\ FiniteSubsetsOf(S) = SUBSET S
    BY FS_Subset, FS_FiniteSubsetsOfFinite DEF PollerAssumption
  <1>2. SUFFICES Bad = {}
    <2>1. \E s : Ordered(S, s)
      BY <1>2
    <2> QED BY <2>1 DEF Latest
  <1>3. SUFFICES ASSUME Bad # {} PROVE FALSE
    OBVIOUS
  <1>4. PICK U \in Bad : \A V \in Bad : ~ (<<V, U>> \in StrictSubsetOrdering(S))
    <2>1. IsWellFoundedOn(StrictSubsetOrdering(S), SUBSET S)
      BY <1>1, FS_StrictSubsetOrderingWellFounded
    <2>2. Bad \subseteq SUBSET S
      OBVIOUS
    <2> HIDE DEF Bad
    <2> QED BY <2>1, <2>2, <1>3, WFMin
  <1>5. U \in SUBSET S /\ IsFiniteSet(U) /\ Cardinality(U) \in Nat
    BY <1>1, <1>4, FS_Subset, FS_CardinalityType
  <1>6. CASE U = {}
    <2>1. Cardinality(U) = 0 /\ 1..0 = {}
      BY <1>6, FS_EmptySet
    <2> DEFINE e == [k \in 1..0 |-> 0]
    <2>2. DOMAIN e = {} /\ e \in [1..0 -> {}]
      BY <2>1
    <2> HIDE DEF e
    <2>3. Ordered(U, e)
      BY <2>1, <2>2, <1>6
    <2> QED BY <2>3, <1>4
  <1>7. CASE U # {}
    <2>1. PICK m \in U : \A x \in U : rank[m] <= rank[x]
      <3> DEFINE R == {rank[x] : x \in U}
      <3>1. R \in SUBSET Nat /\ R # {}
        BY <1>5, <1>7
      <3>2. PICK r \in R : \A q \in R : r <= q
        BY <3>1, LeastNatural
      <3>3. PICK m \in U : rank[m] = r
        BY <3>2
      <3>4. \A x \in U : rank[x] \in R
        OBVIOUS
      <3> QED BY <3>2, <3>3, <3>4
    <2> DEFINE V == U \ {m}
               n == Cardinality(U)
    <2>2. IsFiniteSet(V) /\ Cardinality(V) = n - 1 /\ n \in Nat \ {0}
      BY <1>5, <2>1, FS_RemoveElement, FS_EmptySet, FS_CardinalityType
    <2>3. V \notin Bad
      <3>1. V \in SUBSET S /\ V \subseteq U /\ V # U
        BY <2>1, <1>5
      <3>2. <<V, U>> \in StrictSubsetOrdering(S)
        BY <3>1, <1>5 DEF StrictSubsetOrdering
      <3> HIDE DEF Bad, V
      <3> QED BY <3>2, <1>4
    <2>4. PICK s : Ordered(V, s)
      BY <2>3, <1>5
    <2> DEFINE t == [k \in 1..n |-> IF k = n THEN m ELSE s[k]]
    <2>5. DOMAIN s = 1..(n - 1) /\ \A k \in 1..(n - 1) : s[k] \in V
      BY <2>2, <2>4
    <2>6. t \in [1..n -> U]
      BY <2>1, <2>2, <2>5
    <2>7. ASSUME NEW j \in 1..n, NEW k \in 1..n, j < k
          PROVE  t[j] # t[k] /\ rank[t[j]] >= rank[t[k]]
      <3>1. j \in 1..(n - 1) /\ t[j] = s[j] /\ s[j] \in V
        BY <2>2, <2>5, <2>7
      <3>2. CASE k = n
        <4>1. t[k] = m /\ rank[m] \in Nat /\ rank[s[j]] \in Nat
          BY <3>1, <3>2, <2>1, <1>5
        <4> QED BY <3>1, <4>1, <2>1
      <3>3. CASE k # n
        <4>1. k \in 1..(n - 1) /\ t[k] = s[k]
          BY <2>2, <3>3
        <4> QED BY <3>1, <4>1, <2>4, <2>5, <2>7
      <3> QED BY <3>2, <3>3
    <2>8. Ordered(U, t)
      BY <2>6, <2>7
    <2> QED BY <2>8, <1>4
  <1> QED BY <1>6, <1>7

-----------------------------------------------------------------------------
(* Types.                                                                  *)

\* A part of a list is a list of the same.
LEMMA CutType ==
    ASSUME NEW S, NEW n \in Nat, NEW s \in [1..n -> S], NEW from \in Nat \ {0}, NEW to \in Nat
    PROVE  Cut(s, from, to) \in Seq(S)
  <1>1. s \in Seq(S) /\ Len(s) = n
    OBVIOUS
  <1>2. CASE to > n
    BY <1>1, <1>2, SubSeqProperties DEF Cut
  <1>3. CASE to <= n
    BY <1>1, <1>3, SubSeqProperties DEF Cut
  <1> QED BY <1>2, <1>3

\* The backlog: stale issues, each with its key.
LEMMA BacklogKeys ==
    ASSUME PollerAssumption, PolTypeOK
    PROVE  /\ Backlog \in Seq(Issues \X KeyType)
           /\ \A k \in 1..Len(Backlog) : Backlog[k][1] \in Issues /\ Backlog[k][2] = Key(Backlog[k][1])
  <1> DEFINE S == {i \in Issues : Stale(i)}
             known == Latest(S, lUpdated)
             taken == Cut(known, 1, Budget)
  <1>1. S \in SUBSET Issues /\ Cardinality(S) \in Nat
    BY FS_Subset, FS_CardinalityType DEF PollerAssumption
  <1>2. known \in [1..Cardinality(S) -> S]
    BY <1>1, LatestOrders DEF PolTypeOK
  <1>3. taken \in Seq(S)
    <2> HIDE DEF known, S
    <2> QED BY <1>1, <1>2, CutType DEF PollerAssumption
  <1>4. \A i \in Issues : Key(i) \in KeyType
    BY DEF PolTypeOK, Key, KeyType, RunType
  <1>5. Backlog = [k \in DOMAIN taken |-> <<taken[k], Key(taken[k])>>]
    BY DEF Backlog
  <1> HIDE DEF taken, known
  <1>6. Len(taken) \in Nat /\ DOMAIN taken = 1..Len(taken) /\ \A k \in 1..Len(taken) : taken[k] \in Issues
    BY <1>3
  <1>7. Backlog = [k \in 1..Len(taken) |-> <<taken[k], Key(taken[k])>>]
    BY <1>5, <1>6
  <1>8. Backlog \in Seq(Issues \X KeyType) /\ Len(Backlog) = Len(taken)
    BY <1>4, <1>6, <1>7
  <1> QED BY <1>6, <1>7, <1>8

\* A page adds issues with the times they were listed with.
LEMMA NextPageType ==
    ASSUME PollerAssumption, PolTypeOK
    PROVE  NextPage \in Seq(Issues \X Nat)
  <1> DEFINE answer == Cut(ServerOrder, Len(page) + 1, Len(page) + PageLimit)
             rows_ == [k \in DOMAIN answer |-> <<answer[k], updated[answer[k]]>>]
  <1>1. Cardinality(Issues) \in Nat /\ Issues \in SUBSET Issues
    BY FS_CardinalityType DEF PollerAssumption
  <1>2. ServerOrder \in [1..Cardinality(Issues) -> Issues]
    BY <1>1, LatestOrders DEF PolTypeOK, ServerOrder
  <1>3. answer \in Seq(Issues)
    <2>1. Len(page) \in Nat
      BY DEF PolTypeOK
    <2> HIDE DEF answer
    <2>2. Len(page) + 1 \in Nat \ {0} /\ Len(page) + PageLimit \in Nat
      BY <2>1 DEF PollerAssumption
    <2> QED BY <1>1, <1>2, <2>2, CutType DEF answer
  <1>4. NextPage = page \o rows_
    BY DEF NextPage
  <1> HIDE DEF answer
  <1>5. rows_ \in Seq(Issues \X Nat)
    <2>1. Len(answer) \in Nat /\ DOMAIN answer = 1..Len(answer) /\ \A k \in 1..Len(answer) : answer[k] \in Issues
      BY <1>3
    <2>2. rows_ = [k \in 1..Len(answer) |-> <<answer[k], updated[answer[k]]>>]
      BY <2>1
    <2> QED BY <2>1, <2>2 DEF PolTypeOK
  <1> HIDE DEF rows_
  <1> QED BY <1>4, <1>5 DEF PolTypeOK

LEMMA UpsertedType ==
    ASSUME PolTypeOK, NEW pages \in Seq(Issues \X Nat)
    PROVE  Upserted(pages) \in [Issues -> Nat]
  <1> SUFFICES ASSUME NEW i \in Issues, \E k \in DOMAIN pages : pages[k][1] = i
               PROVE  pages[Max({k \in DOMAIN pages : pages[k][1] = i})][2] \in Nat
    BY DEF Upserted, PolTypeOK
  <1> DEFINE S == {k \in DOMAIN pages : pages[k][1] = i}
  <1>1. Len(pages) \in Nat /\ DOMAIN pages = 1..Len(pages)
    OBVIOUS
  <1>2. S \in SUBSET (1..Len(pages)) /\ S # {}
    BY <1>1
  <1>3. Max(S) \in S
    BY <1>1, <1>2, GreatestPosition
  <1>4. Max(S) \in 1..Len(pages)
    BY <1>2, <1>3
  <1> HIDE DEF S
  <1> QED BY <1>1, <1>4 DEF S

LEMMA InitTypes == ASSUME PolInit PROVE PolTypeOK
  <1>1. <<>> \in Seq(Issues \X Nat) /\ <<>> \in Seq(Issues \X KeyType)
    OBVIOUS
  <1> QED BY <1>1 DEF PolInit, PolTypeOK, RunType, KeyType, NoRun, NoKey, NotFetched

LEMMA RemoteTypes ==
    ASSUME PolTypeOK, NEW i \in Issues, Edit(i) \/ StartRun(i) \/ FinishRun(i)
    PROVE  PolTypeOK'
  <1>1. UNCHANGED <<lDaily, lUpdated, lRun, lUsage, syncedFor, page, pending, fetched>>
    BY DEF Edit, StartRun, FinishRun, Locally, rows, cycle
  <1>2. clock' \in Nat /\ daily' \in Nat
    BY DEF PolTypeOK, Edit, StartRun, FinishRun, Ticks
  <1>3. [at |-> clock', active |-> TRUE] \in RunType /\ [at |-> clock', active |-> FALSE] \in RunType
    BY <1>2 DEF RunType
  <1>4. run' \in [Issues -> RunType]
    BY <1>3 DEF PolTypeOK, Edit, StartRun, FinishRun
  <1>5. updated' \in [Issues -> Nat] /\ usage' \in [Issues -> Nat]
    BY <1>2 DEF PolTypeOK, Edit, StartRun, FinishRun
  <1> QED BY <1>1, <1>2, <1>4, <1>5 DEF PolTypeOK

\* The steps of a cycle before the details, its end, and a kill.
Listing ==
    \/ Begin \/ MorePages \/ LastPage \/ IssuesFail \/ Defer \/ EndCycle \/ Killed
    \/ \E ok \in BOOLEAN :
         \/ List("runtimes", "agents", ok) \/ List("agents", "projects", ok)
         \/ List("projects", "usage", ok) \/ Usage(ok) \/ Pricing(ok)

LEMMA ListingKeeps ==
    ASSUME Listing
    PROVE  /\ UNCHANGED <<clock, updated, run, usage, daily, lRun, lUsage, syncedFor>>
           /\ UNCHANGED <<pending, fetched>> \/ (pending' = <<>> /\ fetched' = NotFetched)
  <1> USE DEF remote, rows
  <1>1. CASE Begin \/ MorePages \/ LastPage \/ IssuesFail \/ EndCycle
    BY <1>1 DEF Begin, MorePages, LastPage, IssuesFail, EndCycle
  <1>2. CASE Defer \/ Killed
    BY <1>2 DEF Defer, Killed
  <1>3. CASE \E ok \in BOOLEAN :
               \/ List("runtimes", "agents", ok) \/ List("agents", "projects", ok)
               \/ List("projects", "usage", ok) \/ Usage(ok) \/ Pricing(ok)
    BY <1>3 DEF List, Usage, Pricing
  <1> QED BY <1>1, <1>2, <1>3 DEF Listing

LEMMA ListingTypes ==
    ASSUME PollerAssumption, PolTypeOK, Listing
    PROVE  PolTypeOK'
  <1>1. /\ UNCHANGED <<clock, updated, run, usage, daily, lRun, lUsage, syncedFor>>
        /\ UNCHANGED <<pending, fetched>> \/ (pending' = <<>> /\ fetched' = NotFetched)
    BY ListingKeeps
  <1>2. lDaily' \in Nat
    <2>1. lDaily' \in {lDaily, daily}
      BY DEF Listing, Begin, MorePages, LastPage, IssuesFail, Defer, EndCycle, Killed,
             List, Usage, Pricing, rows
    <2> QED BY <2>1 DEF PolTypeOK
  <1>3. lUpdated' \in [Issues -> Nat]
    <2>1. lUpdated' \in {lUpdated, Upserted(NextPage), Upserted(page)}
      BY DEF Listing, Begin, MorePages, LastPage, IssuesFail, Defer, EndCycle, Killed,
             List, Usage, Pricing, rows
    <2>2. Upserted(NextPage) \in [Issues -> Nat] /\ Upserted(page) \in [Issues -> Nat]
      BY NextPageType, UpsertedType DEF PolTypeOK
    <2> QED BY <2>1, <2>2 DEF PolTypeOK
  <1>4. page' \in Seq(Issues \X Nat)
    <2>1. page' \in {page, NextPage, <<>>}
      BY DEF Listing, Begin, MorePages, LastPage, IssuesFail, Defer, EndCycle, Killed,
             List, Usage, Pricing
    <2>2. NextPage \in Seq(Issues \X Nat) /\ <<>> \in Seq(Issues \X Nat)
      BY NextPageType
    <2> QED BY <2>1, <2>2 DEF PolTypeOK
  <1>5. <<>> \in Seq(Issues \X KeyType)
    OBVIOUS
  <1> QED BY <1>1, <1>2, <1>3, <1>4, <1>5 DEF PolTypeOK

\* The first of the issues waiting.
LEMMA HeadType ==
    ASSUME PolTypeOK, pending # <<>>
    PROVE  /\ pending[1] \in Issues \X KeyType /\ Len(pending) \in Nat \ {0}
           /\ Tail(pending) \in Seq(Issues \X KeyType) /\ Len(Tail(pending)) = Len(pending) - 1
           /\ \A k \in 1..Len(Tail(pending)) : Tail(pending)[k] = pending[k + 1]
  BY DEF PolTypeOK

LEMMA DetailTypes ==
    ASSUME PollerAssumption, PolTypeOK,
           \/ Snapshot \/ FetchUsage \/ FetchRuns
           \/ \E ok \in BOOLEAN : Tasks(ok)
           \/ \E written \in BOOLEAN : DetailFails(written)
    PROVE  PolTypeOK'
  <1> USE DEF remote, rows
  <1>1. CASE Snapshot
    BY <1>1, BacklogKeys DEF Snapshot, PolTypeOK
  <1>2. CASE FetchUsage
    <2>1. pending[1][1] \in Issues
      BY <1>2, HeadType DEF FetchUsage
    <2> QED BY <1>2, <2>1 DEF FetchUsage, PolTypeOK
  <1>3. CASE FetchRuns
    <2>1. pending # <<>>
      BY <1>3 DEF FetchRuns
    <2>2. pending[1][1] \in Issues /\ pending[1][2] \in KeyType /\ fetched \in Nat
      BY <1>3, <2>1, HeadType DEF FetchRuns, PolTypeOK
    <2>3. lUsage' \in [Issues -> Nat] /\ lRun' \in [Issues -> RunType] /\ syncedFor' \in [Issues -> KeyType]
      BY <1>3, <2>2 DEF FetchRuns, PolTypeOK, MarkedKey
    <2>4. pending' \in Seq(Issues \X KeyType) /\ fetched' = NotFetched
      BY <1>3, <2>1, HeadType DEF FetchRuns
    <2> QED BY <1>3, <2>3, <2>4 DEF FetchRuns, PolTypeOK
  <1>4. CASE \E ok \in BOOLEAN : Tasks(ok)
    BY <1>4 DEF Tasks, PolTypeOK
  <1>5. CASE \E written \in BOOLEAN : DetailFails(written)
    <2>1. PICK written \in BOOLEAN : DetailFails(written)
      BY <1>5
    <2>2. pending # <<>> /\ (written => fetched \in Nat)
      BY <2>1 DEF DetailFails, PolTypeOK
    <2>3. lUsage' \in [Issues -> Nat]
      BY <2>1, <2>2, HeadType DEF DetailFails, PolTypeOK
    <2>4. pending' \in Seq(Issues \X KeyType) /\ fetched' = NotFetched
      BY <2>1, <2>2, HeadType DEF DetailFails
    <2> QED BY <2>1, <2>3, <2>4 DEF DetailFails, PolTypeOK
  <1> QED BY <1>1, <1>2, <1>3, <1>4, <1>5

\* The next-state relation by what the steps do to the keys.
LEMMA StepKinds ==
    ASSUME PolNext
    PROVE  \/ \E i \in Issues : Edit(i) \/ StartRun(i) \/ FinishRun(i)
           \/ Listing
           \/ Snapshot \/ FetchUsage \/ FetchRuns
           \/ \E ok \in BOOLEAN : Tasks(ok)
           \/ \E written \in BOOLEAN : DetailFails(written)
  BY DEF PolNext, Works, Listing

\* The types of the poller's state, for every number of issues, every page,
\* budget and bound.
THEOREM PollerTypes == ASSUME PollerAssumption PROVE PolInit /\ [][PolNext]_polVars => []PolTypeOK
  <1>1. PolTypeOK /\ [PolNext]_polVars => PolTypeOK'
    <2> SUFFICES ASSUME PolTypeOK, [PolNext]_polVars PROVE PolTypeOK'
      OBVIOUS
    <2>1. CASE UNCHANGED polVars
      BY <2>1 DEF polVars, remote, rows, cycle, PolTypeOK
    <2>2. CASE PolNext
      BY <2>2, StepKinds, RemoteTypes, ListingTypes, DetailTypes
    <2> QED BY <2>1, <2>2
  <1> QED BY <1>1, InitTypes, PTL

-----------------------------------------------------------------------------
(* Settled issues are fresh.                                               *)

\* Unended after a step, for an issue and a time of before it.
UnendedAfter(i, t) ==
    /\ t <= run'[i].at
    /\ run'[i].at = t => run'[i].active
    /\ lRun'[i].at = t => lRun'[i].active

\* A run stays as it is or becomes a later one, and is known as it was or as
\* it is: a run that has not ended at t never will have.
LEMMA UnendedStays ==
    ASSUME PolTypeOK, PolTypeOK', NEW i \in Issues, NEW t \in Nat,
           run'[i] = run[i] \/ run'[i].at > run[i].at,
           lRun'[i] = lRun[i] \/ lRun'[i] = run'[i],
           Unended(i, t)
    PROVE  UnendedAfter(i, t)
  <1>1. run[i].at \in Nat /\ run'[i].at \in Nat
    BY DEF PolTypeOK, RunType
  <1>2. t <= run'[i].at /\ (run'[i].at = t => run'[i].active)
    BY <1>1 DEF Unended
  <1> QED BY <1>2 DEF Unended, UnendedAfter

\* What changes while the poller looks elsewhere: the parts of the invariant
\* that speak of keys survive any later runs and any larger counts.
Later ==
    \A i \in Issues :
      /\ run'[i] = run[i] \/ run'[i].at > run[i].at
      /\ lRun'[i] = lRun[i] \/ lRun'[i] = run'[i]
      /\ usage'[i] >= usage[i]

LEMMA AccountedStays ==
    ASSUME PolTypeOK, PolTypeOK', Later, NEW i \in Issues, NEW t \in Nat,
           NEW u \in Nat, NEW w \in Nat, w >= u, Accounted(i, t, u)
    PROVE  w >= t \/ UnendedAfter(i, t)
  <1>1. CASE u >= t
    BY <1>1
  <1>2. CASE Unended(i, t)
    BY <1>2, UnendedStays DEF Later
  <1> QED BY <1>1, <1>2 DEF Accounted

LEMMA MarksStay ==
    ASSUME PolTypeOK, PolTypeOK', Later, NEW i \in Issues, Accounted(i, syncedFor[i][2], lUsage[i]),
           syncedFor'[i] = syncedFor[i], lUsage'[i] >= lUsage[i]
    PROVE  Accounted(i, syncedFor[i][2], lUsage[i])'
  <1>1. syncedFor[i][2] \in Nat /\ lUsage[i] \in Nat /\ lUsage'[i] \in Nat
    BY DEF PolTypeOK, KeyType
  <1>2. lUsage'[i] >= syncedFor[i][2] \/ UnendedAfter(i, syncedFor[i][2])
    BY <1>1, AccountedStays
  <1> QED BY <1>2 DEF Accounted, Unended, UnendedAfter

\* The list of those waiting stays, loses its first, or becomes empty.
LEMMA WaitingStays ==
    ASSUME PolTypeOK, PolTypeOK', Later, WaitingAccounted,
           \/ pending' = pending
           \/ pending # <<>> /\ pending' = Tail(pending)
           \/ pending' = <<>>
    PROVE  WaitingAccounted'
  <1> SUFFICES ASSUME NEW k \in 1..Len(pending')
               PROVE  Accounted(pending[k][1], pending[k][2][2], usage[pending[k][1]])'
    BY DEF WaitingAccounted
  <1>1. PICK j \in 1..Len(pending) : pending'[k] = pending[j]
    <2>1. CASE pending' = pending
      BY <2>1
    <2>2. CASE pending # <<>> /\ pending' = Tail(pending)
      <3>1. Len(pending) \in Nat /\ Len(pending') = Len(pending) - 1
        BY <2>2, HeadType
      <3>2. k + 1 \in 1..Len(pending)
        BY <3>1
      <3>3. pending'[k] = pending[k + 1]
        BY <2>2, HeadType
      <3> QED BY <3>2, <3>3
    <2>3. CASE pending' = <<>>
      BY <2>3
    <2> QED BY <2>1, <2>2, <2>3
  <1>2. pending[j][1] \in Issues /\ pending[j][2][2] \in Nat
    <2>1. pending[j] \in Issues \X KeyType
      BY DEF PolTypeOK
    <2> QED BY <2>1 DEF KeyType
  <1> DEFINE i == pending[j][1]
             t == pending[j][2][2]
  <1>3. Accounted(i, t, usage[i])
    BY DEF WaitingAccounted
  <1>4. usage[i] \in Nat /\ usage'[i] \in Nat /\ usage'[i] >= usage[i]
    BY <1>2 DEF PolTypeOK, Later
  <1> HIDE DEF i, t
  <1>5. usage'[i] >= t \/ UnendedAfter(i, t)
    BY <1>2, <1>3, <1>4, AccountedStays DEF i, t
  <1> QED BY <1>1, <1>5 DEF i, t, Accounted, Unended, UnendedAfter

LEMMA HeldStays ==
    ASSUME PolTypeOK, PolTypeOK', Later, HeldAccounted, UNCHANGED <<lUsage, fetched, pending>>
    PROVE  HeldAccounted'
  <1> SUFFICES ASSUME fetched # NotFetched PROVE HeldAccounted'
    BY DEF HeldAccounted
  <1> DEFINE i == pending[1][1]
             t == pending[1][2][2]
  <1>1. pending # <<>> /\ lUsage[i] <= fetched /\ fetched <= usage[i] /\ Accounted(i, t, fetched)
    BY DEF HeldAccounted
  <1>2. i \in Issues /\ t \in Nat /\ fetched \in Nat
    BY <1>1, HeadType DEF PolTypeOK, KeyType
  <1>3. usage[i] \in Nat /\ usage'[i] \in Nat /\ usage'[i] >= usage[i]
    BY <1>2 DEF PolTypeOK, Later
  <1> HIDE DEF i, t
  <1>4. fetched >= t \/ UnendedAfter(i, t)
    BY <1>1, <1>2, AccountedStays
  <1>5. fetched <= usage'[i]
    BY <1>1, <1>2, <1>3
  <1> QED BY <1>1, <1>4, <1>5 DEF i, t, HeldAccounted, Accounted, Unended, UnendedAfter

\* Multica: an event comes later than all before it, and a run that ends has
\* its tokens counted.
LEMMA RemoteKeeps ==
    ASSUME PolInv, PolTypeOK', NEW i \in Issues, Edit(i) \/ StartRun(i) \/ FinishRun(i)
    PROVE  PolInv'
  <1>1. UNCHANGED <<lRun, lUsage, syncedFor, pending, fetched>>
    BY DEF Edit, StartRun, FinishRun, Locally, rows, cycle
  <1>2. clock \in Nat /\ clock' = clock + 1
    BY DEF PolInv, PolTypeOK, Edit, StartRun, FinishRun, Ticks
  <1>3. \A j \in Issues : j # i => run'[j] = run[j] /\ usage'[j] = usage[j]
    BY DEF PolInv, PolTypeOK, Edit, StartRun, FinishRun
  <1>4. \/ run'[i] = run[i] /\ usage'[i] = usage[i]
        \/ run'[i] = [at |-> clock', active |-> TRUE] /\ usage'[i] = usage[i]
        \/ run'[i] = [at |-> clock', active |-> FALSE] /\ usage'[i] = clock'
    BY DEF PolInv, PolTypeOK, Edit, StartRun, FinishRun
  <1>5. \A j \in Issues : run[j].at \in Nat /\ usage[j] \in Nat /\ run[j].at <= clock /\ usage[j] <= clock
    BY DEF PolInv, PolTypeOK, RunType, RemoteCounted
  <1>6. \A j \in Issues :
          /\ run'[j] = run[j] \/ (run'[j].at = clock' /\ run'[j].at > run[j].at)
          /\ usage'[j] = usage[j] \/ (usage'[j] = clock' /\ usage'[j] > usage[j])
          /\ ~run'[j].active => run'[j] = run[j] \/ usage'[j] = clock'
    <2> TAKE j \in Issues
    <2>1. CASE j # i
      BY <2>1, <1>3
    <2>2. CASE j = i
      BY <2>2, <1>2, <1>4, <1>5
    <2> QED BY <2>1, <2>2
  <1>7. Later
    <2> SUFFICES ASSUME NEW j \in Issues
                 PROVE  /\ run'[j] = run[j] \/ run'[j].at > run[j].at
                        /\ lRun'[j] = lRun[j]
                        /\ usage'[j] >= usage[j]
      BY DEF Later
    <2> QED BY <1>1, <1>2, <1>5, <1>6
  <1>8. RemoteCounted'
    <2> SUFFICES ASSUME NEW j \in Issues
                 PROVE  /\ run'[j].at <= clock' /\ usage'[j] <= clock'
                        /\ ~run'[j].active => usage'[j] >= run'[j].at
      BY DEF RemoteCounted
    <2>1. ~run[j].active => usage[j] >= run[j].at
      BY DEF PolInv, RemoteCounted
    <2> QED BY <2>1, <1>2, <1>5, <1>6
  <1>9. LocalBehind'
    <2> SUFFICES ASSUME NEW j \in Issues
                 PROVE  /\ lRun[j].at <= run'[j].at /\ (lRun[j].at = run'[j].at => lRun[j] = run'[j])
                        /\ ~lRun[j].active => usage'[j] >= lRun[j].at
                        /\ lUsage[j] <= usage'[j]
      BY <1>1 DEF LocalBehind
    <2>1. lRun[j].at \in Nat /\ lUsage[j] \in Nat
      BY DEF PolInv, PolTypeOK, RunType
    <2>2. /\ lRun[j].at <= run[j].at /\ (lRun[j].at = run[j].at => lRun[j] = run[j])
          /\ ~lRun[j].active => usage[j] >= lRun[j].at
          /\ lUsage[j] <= usage[j]
      BY DEF PolInv, LocalBehind
    <2> QED BY <2>1, <2>2, <1>2, <1>5, <1>6
  <1>10. MarksAccounted'
    <2> SUFFICES ASSUME NEW j \in Issues PROVE Accounted(j, syncedFor[j][2], lUsage[j])'
      BY DEF MarksAccounted
    <2>1. Accounted(j, syncedFor[j][2], lUsage[j]) /\ lUsage'[j] >= lUsage[j]
      BY <1>1 DEF PolInv, PolTypeOK, MarksAccounted
    <2> QED BY <1>1, <1>7, <2>1, MarksStay DEF PolInv
  <1>11. WaitingAccounted' /\ HeldAccounted'
    BY <1>1, <1>7, WaitingStays, HeldStays DEF PolInv
  <1> QED BY <1>8, <1>9, <1>10, <1>11 DEF PolInv

LEMMA ListingInv ==
    ASSUME PollerAssumption, PolInv, Listing
    PROVE  PolInv'
  <1>1. PolTypeOK /\ PolTypeOK'
    BY ListingTypes DEF PolInv
  <1>2. UNCHANGED <<clock, run, usage, lRun, lUsage, syncedFor>>
    BY ListingKeeps
  <1>3. UNCHANGED <<pending, fetched>> \/ (pending' = <<>> /\ fetched' = NotFetched)
    BY ListingKeeps
  <1>4. Later
    BY <1>1, <1>2 DEF Later, PolTypeOK
  <1>5. RemoteCounted' /\ LocalBehind'
    BY <1>2 DEF PolInv, RemoteCounted, LocalBehind
  <1>6. MarksAccounted'
    BY <1>2 DEF PolInv, MarksAccounted, Accounted, Unended
  <1>7. WaitingAccounted'
    BY <1>1, <1>3, <1>4, WaitingStays DEF PolInv
  <1>8. HeldAccounted'
    <2>1. CASE UNCHANGED <<pending, fetched>>
      BY <2>1, <1>1, <1>2, <1>4, HeldStays DEF PolInv
    <2>2. CASE fetched' = NotFetched
      BY <2>2 DEF HeldAccounted
    <2> QED BY <2>1, <2>2, <1>3
  <1> QED BY <1>1, <1>5, <1>6, <1>7, <1>8 DEF PolInv

\* The runs arrive with the tasks: what is known becomes what is.
LEMMA TasksInv ==
    ASSUME PollerAssumption, PolInv, NEW ok \in BOOLEAN, Tasks(ok)
    PROVE  PolInv'
  <1>1. PolTypeOK /\ PolTypeOK'
    BY DetailTypes DEF PolInv
  <1>2. UNCHANGED <<clock, run, usage, lUsage, syncedFor, pending, fetched>>
    BY DEF Tasks, remote
  <1>3. lRun' = lRun \/ lRun' = run'
    BY <1>2 DEF Tasks
  <1>4. Later
    BY <1>1, <1>2, <1>3 DEF Later, PolTypeOK
  <1>5. RemoteCounted'
    BY <1>2 DEF PolInv, RemoteCounted
  <1>6. LocalBehind'
    <2> SUFFICES ASSUME NEW j \in Issues
                 PROVE  /\ lRun'[j].at <= run[j].at /\ (lRun'[j].at = run[j].at => lRun'[j] = run[j])
                        /\ ~lRun'[j].active => usage[j] >= lRun'[j].at
                        /\ lUsage[j] <= usage[j]
      BY <1>2 DEF LocalBehind
    <2>1. run[j].at \in Nat
      BY <1>1 DEF PolTypeOK, RunType
    <2> QED BY <2>1, <1>2, <1>3 DEF PolInv, RemoteCounted, LocalBehind
  <1>7. MarksAccounted'
    <2> SUFFICES ASSUME NEW j \in Issues PROVE Accounted(j, syncedFor[j][2], lUsage[j])'
      BY DEF MarksAccounted
    <2>1. Accounted(j, syncedFor[j][2], lUsage[j]) /\ lUsage'[j] >= lUsage[j]
      BY <1>1, <1>2 DEF PolInv, PolTypeOK, MarksAccounted
    <2> QED BY <1>1, <1>2, <1>4, <2>1, MarksStay
  <1>8. WaitingAccounted' /\ HeldAccounted'
    BY <1>1, <1>2, <1>4, WaitingStays, HeldStays DEF PolInv
  <1> QED BY <1>1, <1>5, <1>6, <1>7, <1>8 DEF PolInv

\* A key is taken from what is known: of a run that ended, the tokens are
\* counted by then.
LEMMA SnapshotInv ==
    ASSUME PollerAssumption, PolInv, Snapshot
    PROVE  PolInv'
  <1>1. PolTypeOK /\ PolTypeOK'
    BY DetailTypes DEF PolInv
  <1>2. /\ UNCHANGED <<clock, run, usage, lRun, lUsage, syncedFor>>
        /\ pending' = Backlog /\ fetched' = NotFetched
    BY DEF Snapshot, remote, rows
  <1>3. RemoteCounted' /\ LocalBehind' /\ HeldAccounted'
    BY <1>2 DEF PolInv, RemoteCounted, LocalBehind, HeldAccounted
  <1>4. MarksAccounted'
    BY <1>2 DEF PolInv, MarksAccounted, Accounted, Unended
  <1>5. WaitingAccounted'
    <2> SUFFICES ASSUME NEW k \in 1..Len(Backlog)
                 PROVE  LET i == Backlog[k][1]
                            t == Backlog[k][2][2]
                        IN  Accounted(i, t, usage[i])
      BY <1>2 DEF WaitingAccounted, Accounted, Unended
    <2> DEFINE i == Backlog[k][1]
    <2>1. i \in Issues /\ Backlog[k][2][2] = lRun[i].at
      BY <1>1, BacklogKeys DEF Key
    <2> HIDE DEF i
    <2>2. lRun[i].at \in Nat /\ lRun[i].at <= run[i].at /\ (lRun[i].at = run[i].at => lRun[i] = run[i])
      BY <1>1, <2>1 DEF PolTypeOK, RunType, PolInv, LocalBehind
    <2>3. Accounted(i, lRun[i].at, usage[i])
      <3>1. CASE lRun[i].active
        BY <3>1, <2>2 DEF Accounted, Unended
      <3>2. CASE ~lRun[i].active
        BY <3>2, <2>1 DEF Accounted, PolInv, LocalBehind
      <3> QED BY <3>1, <3>2
    <2> QED BY <2>1, <2>3 DEF i
  <1> QED BY <1>1, <1>3, <1>4, <1>5 DEF PolInv

\* The answer that is held counts all that was there when the key was taken.
LEMMA FetchUsageInv ==
    ASSUME PollerAssumption, PolInv, FetchUsage
    PROVE  PolInv'
  <1>1. PolTypeOK /\ PolTypeOK'
    BY DetailTypes DEF PolInv
  <1> DEFINE i == pending[1][1]
  <1>2. /\ UNCHANGED <<clock, run, usage, lRun, lUsage, syncedFor, pending>>
        /\ pending # <<>> /\ fetched' = usage[i]
    BY DEF FetchUsage, remote, rows
  <1>3. RemoteCounted' /\ LocalBehind'
    BY <1>2 DEF PolInv, RemoteCounted, LocalBehind
  <1>4. MarksAccounted' /\ WaitingAccounted'
    BY <1>2 DEF PolInv, MarksAccounted, WaitingAccounted, Accounted, Unended
  <1>5. i \in Issues /\ 1 \in 1..Len(pending)
    BY <1>1, <1>2, HeadType
  <1>6. lUsage[i] <= usage[i] /\ usage[i] \in Nat
    BY <1>1, <1>5 DEF PolInv, LocalBehind, PolTypeOK
  <1>7. Accounted(i, pending[1][2][2], usage[i])
    BY <1>5 DEF PolInv, WaitingAccounted
  <1>8. HeldAccounted'
    BY <1>2, <1>6, <1>7 DEF HeldAccounted, Accounted, Unended
  <1> QED BY <1>1, <1>3, <1>4, <1>8 DEF PolInv

\* The runs are committed with the answer held: it counts those that ended at
\* the time the key names.
LEMMA FetchRunsInv ==
    ASSUME PollerAssumption, PolInv, FetchRuns
    PROVE  PolInv'
  <1>1. PolTypeOK /\ PolTypeOK'
    BY DetailTypes DEF PolInv
  <1> DEFINE i == pending[1][1]
             t == pending[1][2][2]
  <1>2. /\ UNCHANGED <<clock, run, usage>>
        /\ pending # <<>> /\ fetched # NotFetched
        /\ pending' = Tail(pending) /\ fetched' = NotFetched
        /\ lUsage' = [lUsage EXCEPT ![i] = fetched]
        /\ lRun' = [lRun EXCEPT ![i] = run[i]]
        /\ syncedFor' = [syncedFor EXCEPT ![i] = pending[1][2]]
    BY DEF FetchRuns, remote, MarkedKey
  <1>3. i \in Issues /\ t \in Nat /\ fetched \in Nat
    BY <1>1, <1>2, HeadType DEF PolTypeOK, KeyType
  <1>4. lUsage[i] <= fetched /\ fetched <= usage[i] /\ Accounted(i, t, fetched)
    BY <1>2 DEF PolInv, HeldAccounted
  <1> HIDE DEF i
  <1>5. /\ lUsage'[i] = fetched /\ lRun'[i] = run[i] /\ syncedFor'[i][2] = t
        /\ \A j \in Issues : j # i =>
             lUsage'[j] = lUsage[j] /\ lRun'[j] = lRun[j] /\ syncedFor'[j] = syncedFor[j]
    BY <1>1, <1>2, <1>3 DEF PolTypeOK
  <1> HIDE DEF t
  <1>6. Later
    <2>1. \A j \in Issues : lRun'[j] = lRun[j] \/ lRun'[j] = run'[j]
      BY <1>2, <1>5
    <2>2. \A j \in Issues : run'[j] = run[j] /\ usage'[j] >= usage[j]
      BY <1>1, <1>2 DEF PolTypeOK
    <2> QED BY <2>1, <2>2 DEF Later
  <1>7. RemoteCounted'
    BY <1>2 DEF PolInv, RemoteCounted
  <1>8. LocalBehind'
    <2> SUFFICES ASSUME NEW j \in Issues
                 PROVE  /\ lRun'[j].at <= run[j].at /\ (lRun'[j].at = run[j].at => lRun'[j] = run[j])
                        /\ ~lRun'[j].active => usage[j] >= lRun'[j].at
                        /\ lUsage'[j] <= usage[j]
      BY <1>2 DEF LocalBehind
    <2>1. run[j].at \in Nat
      BY <1>1 DEF PolTypeOK, RunType
    <2> QED BY <2>1, <1>4, <1>5 DEF PolInv, RemoteCounted, LocalBehind
  <1>9. MarksAccounted'
    <2> SUFFICES ASSUME NEW j \in Issues PROVE Accounted(j, syncedFor[j][2], lUsage[j])'
      BY DEF MarksAccounted
    <2>1. CASE j # i
      <3>1. Accounted(j, syncedFor[j][2], lUsage[j]) /\ lUsage'[j] >= lUsage[j]
        BY <2>1, <1>1, <1>5 DEF PolInv, PolTypeOK, MarksAccounted
      <3> QED BY <2>1, <1>1, <1>5, <1>6, <3>1, MarksStay
    <2>2. CASE j = i
      <3>1. fetched >= t \/ UnendedAfter(i, t)
        BY <1>1, <1>3, <1>4, <1>6, AccountedStays
      <3> QED BY <2>2, <3>1, <1>5 DEF Accounted, Unended, UnendedAfter
    <2> QED BY <2>1, <2>2
  <1>10. WaitingAccounted'
    BY <1>1, <1>2, <1>6, WaitingStays DEF PolInv
  <1>11. HeldAccounted'
    BY <1>2 DEF HeldAccounted
  <1> QED BY <1>1, <1>7, <1>8, <1>9, <1>10, <1>11 DEF PolInv

\* An issue that fails keeps its mark, and counts at least what it did.
LEMMA DetailFailsInv ==
    ASSUME PollerAssumption, PolInv, NEW written \in BOOLEAN, DetailFails(written)
    PROVE  PolInv'
  <1>1. PolTypeOK /\ PolTypeOK'
    BY DetailTypes DEF PolInv
  <1> DEFINE i == pending[1][1]
  <1>2. /\ UNCHANGED <<clock, run, usage, lRun, syncedFor>>
        /\ pending # <<>> /\ (written => fetched # NotFetched)
        /\ pending' = Tail(pending) /\ fetched' = NotFetched
        /\ lUsage' = IF written THEN [lUsage EXCEPT ![i] = fetched] ELSE lUsage
    BY DEF DetailFails, remote
  <1>3. i \in Issues
    BY <1>1, <1>2, HeadType
  <1>4. written => lUsage[i] <= fetched /\ fetched <= usage[i]
    BY <1>2 DEF PolInv, HeldAccounted
  <1> HIDE DEF i
  <1>5. \A j \in Issues : lUsage'[j] >= lUsage[j] /\ lUsage'[j] <= usage[j]
    <2> TAKE j \in Issues
    <2>1. lUsage[j] <= usage[j] /\ lUsage[j] \in Nat
      BY <1>1 DEF PolInv, PolTypeOK, LocalBehind
    <2>2. lUsage'[j] = lUsage[j] \/ (written /\ j = i /\ lUsage'[j] = fetched)
      BY <1>1, <1>2 DEF PolTypeOK
    <2>3. written => fetched \in Nat
      BY <1>1, <1>2 DEF PolTypeOK
    <2> QED BY <2>1, <2>2, <2>3, <1>4
  <1>6. Later
    BY <1>1, <1>2 DEF Later, PolTypeOK
  <1>7. RemoteCounted'
    BY <1>2 DEF PolInv, RemoteCounted
  <1>8. LocalBehind'
    BY <1>2, <1>5 DEF PolInv, LocalBehind
  <1>9. MarksAccounted'
    <2> SUFFICES ASSUME NEW j \in Issues PROVE Accounted(j, syncedFor[j][2], lUsage[j])'
      BY DEF MarksAccounted
    <2>1. Accounted(j, syncedFor[j][2], lUsage[j])
      BY DEF PolInv, MarksAccounted
    <2> QED BY <1>1, <1>2, <1>5, <1>6, <2>1, MarksStay
  <1>10. WaitingAccounted'
    BY <1>1, <1>2, <1>6, WaitingStays DEF PolInv
  <1>11. HeldAccounted'
    BY <1>2 DEF HeldAccounted
  <1> QED BY <1>1, <1>7, <1>8, <1>9, <1>10, <1>11 DEF PolInv

\* Initially nothing ran, nothing is known and nothing is marked.
LEMMA InitInv == ASSUME PolInit PROVE PolInv
  <1>1. PolTypeOK
    BY InitTypes
  <1>2. RemoteCounted /\ LocalBehind
    BY DEF PolInit, RemoteCounted, LocalBehind, NoRun
  <1>3. MarksAccounted
    BY DEF PolInit, MarksAccounted, Accounted, NoKey
  <1>4. WaitingAccounted /\ HeldAccounted
    BY DEF PolInit, WaitingAccounted, HeldAccounted
  <1> QED BY <1>1, <1>2, <1>3, <1>4 DEF PolInv

LEMMA StepInv ==
    ASSUME PollerAssumption, PolInv, [PolNext]_polVars
    PROVE  PolInv'
  <1>1. CASE UNCHANGED polVars
    BY <1>1 DEF polVars, remote, rows, cycle, PolInv, PolTypeOK, RemoteCounted, LocalBehind,
                MarksAccounted, WaitingAccounted, HeldAccounted, Accounted, Unended
  <1>2. ASSUME NEW i \in Issues, Edit(i) \/ StartRun(i) \/ FinishRun(i) PROVE PolInv'
    BY <1>2, RemoteTypes, RemoteKeeps DEF PolInv
  <1>3. CASE PolNext
    BY <1>2, <1>3, StepKinds, ListingInv, SnapshotInv, FetchUsageInv, FetchRunsInv, TasksInv,
       DetailFailsInv
  <1> QED BY <1>1, <1>3

\* An issue that is not stale is marked with its key, so its tokens are
\* counted or its run has not ended; but it has.
LEMMA InvIsFresh == ASSUME PolInv PROVE SettledIsFresh
  <1> SUFFICES ASSUME NEW i \in Issues, ~Stale(i), lUpdated[i] # 0
               PROVE  lUsage[i] >= lRun[i].at
    BY DEF SettledIsFresh
  <1>1. syncedFor[i] = <<lUpdated[i], lRun[i].at>> /\ ~lRun[i].active
    BY DEF Stale, Key
  <1> QED BY <1>1 DEF PolInv, MarksAccounted, Accounted, Unended

\* The invariant itself, which the property is one consequence of.
THEOREM PollerInvariant == ASSUME PollerAssumption PROVE PolInit /\ [][PolNext]_polVars => []PolInv
  <1>1. PolInv /\ [PolNext]_polVars => PolInv'
    BY StepInv
  <1> QED BY <1>1, InitInv, PTL

\* Settled issues are fresh, for every number of issues, every page and every
\* budget, and however long Multica goes on changing (sync_issue_details).
THEOREM PollerSettles == ASSUME PollerAssumption PROVE PolInit /\ [][PolNext]_polVars => []SettledIsFresh
  <1>1. PolInv => SettledIsFresh
    BY InvIsFresh
  <1> QED BY <1>1, PollerInvariant, PTL
=============================================================================
