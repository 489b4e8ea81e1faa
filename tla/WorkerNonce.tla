---------------------------- MODULE WorkerNonce ----------------------------
(***************************************************************************)
(* The authenticated pull channel (legacy_wsgi.py _worker_pull and         *)
(* _worker_ack, handoff.py): a signed request may arrive late, early by    *)
(* the skew of the worker's clock, and more than once.  The signature is   *)
(* taken as valid: what is left is the age of the timestamp and the row of *)
(* the nonce, kept in one table and purged by age.                         *)
(***************************************************************************)
EXTENDS Integers

CONSTANTS Signed,     \* requests the worker signs, each with its own nonce
          Serving,    \* CGI processes of the host
          None,       \* no request, no row
          MaxAge,     \* AISTAT_INGEST_MAX_AGE
          Slow        \* bound on the time between check and transaction

NonceAssumption ==
    /\ MaxAge \in Nat \ {0} /\ Slow \in 0..(MaxAge - 1)
    /\ None \notin Signed /\ None \notin Int

VARIABLES
    off,      \* request -> timestamp - now; None before it is signed
    seen,     \* request -> age of its row in worker_nonces; None
    serving,  \* process -> request whose timestamp was accepted; None
    wait,     \* process -> time since then
    served    \* request -> how often it was accepted

nonVars == <<off, seen, serving, wait, served>>

\* WORKER_NONCE_TTL_FACTOR is 3.
ShortTtl == 2 * MaxAge

Ttl == 3 * MaxAge

NonInit ==
    /\ off = [r \in Signed |-> None] /\ seen = [r \in Signed |-> None]
    /\ serving = [p \in Serving |-> None] /\ wait = [p \in Serving |-> 0]
    /\ served = [r \in Signed |-> 0]

\* The worker's clock may be wrong by more than the host accepts.
Sign(r, skew) ==
    /\ off[r] = None
    /\ off' = [off EXCEPT ![r] = skew]
    /\ UNCHANGED <<seen, serving, wait, served>>

TimelyUntilOld(offset) == offset >= -MaxAge

\* verify_worker_request: neither too old nor too far ahead.
Timely(offset) == offset \in (-MaxAge)..MaxAge

\* Any copy of a request, at any time.
Arrive(p, r) ==
    /\ serving[p] = None /\ off[r] # None
    /\ Timely(off[r])
    /\ serving' = [serving EXCEPT ![p] = r] /\ wait' = [wait EXCEPT ![p] = 0]
    /\ UNCHANGED <<off, seen, served>>

\* consume_worker_nonce: rows as old as the TTL go first, then the nonce is
\* inserted unless it is there; a duplicate rolls the purge back too.
Kept == [r \in Signed |-> IF seen[r] # None /\ seen[r] >= Ttl THEN None ELSE seen[r]]

Consume(p) ==
    /\ serving[p] # None
    /\ LET r == serving[p] IN
       IF Kept[r] # None
         THEN UNCHANGED <<seen, served>>
         ELSE /\ seen' = [Kept EXCEPT ![r] = 0]
              /\ served' = [served EXCEPT ![r] = @ + 1]
    /\ serving' = [serving EXCEPT ![p] = None] /\ wait' = [wait EXCEPT ![p] = 0]
    /\ UNCHANGED off

Older(t, cap) == IF t = None \/ t >= cap THEN t ELSE t + 1

\* A request older than every limit stays at the oldest offset.
NonTick ==
    /\ \A p \in Serving : serving[p] # None => wait[p] < Slow
    /\ off' = [r \in Signed |-> IF off[r] = None \/ off[r] < -MaxAge
                                THEN off[r] ELSE off[r] - 1]
    /\ seen' = [r \in Signed |-> Older(seen[r], 3 * MaxAge)]
    /\ wait' = [p \in Serving |-> IF serving[p] = None THEN 0 ELSE wait[p] + 1]
    /\ UNCHANGED <<serving, served>>

NonNext ==
    \/ \E r \in Signed : \E skew \in (-MaxAge)..(MaxAge + 1) : Sign(r, skew)
    \/ \E p \in Serving : \/ \E r \in Signed : Arrive(p, r)
                          \/ Consume(p)
    \/ NonTick

NonSpec == NonInit /\ [][NonNext]_nonVars

-----------------------------------------------------------------------------
\* A signed request is acted on at most once, whenever and however often its
\* copies arrive: its row outlives its timestamp ("a purged nonce could be
\* replayed while its timestamp is still fresh", handoff.py).
ServedOnce == \A r \in Signed : served[r] <= 1

-----------------------------------------------------------------------------
(* Why: what is invariant, for every number of requests and processes,     *)
(* every MaxAge and every Slow below it.                                   *)

NonTypes ==
    /\ off \in [Signed -> Int \cup {None}] /\ seen \in [Signed -> Nat \cup {None}]
    /\ serving \in [Serving -> Signed \cup {None}] /\ wait \in [Serving -> Nat]
    /\ served \in [Signed -> Nat]

\* A request that was served is too old, or its row is there, and no younger
\* than the request allows.
RowOutlives(r) ==
    /\ served[r] <= 1
    /\ served[r] = 0 => seen[r] = None
    /\ served[r] = 1 => /\ off[r] # None
                        /\ \/ off[r] < -MaxAge
                           \/ seen[r] # None /\ off[r] + seen[r] <= MaxAge

\* While a copy is between check and transaction the row cannot be purged.
CopyMeetsRow(p) ==
    serving[p] # None =>
      /\ wait[p] <= Slow
      /\ off[serving[p]] # None /\ off[serving[p]] <= MaxAge
      /\ served[serving[p]] = 1 =>
           seen[serving[p]] # None /\ seen[serving[p]] <= 2 * MaxAge + wait[p]

NonInv ==
    /\ NonTypes
    /\ \A r \in Signed : RowOutlives(r)
    /\ \A p \in Serving : CopyMeetsRow(p)
=============================================================================
