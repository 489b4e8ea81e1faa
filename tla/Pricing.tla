------------------------------ MODULE Pricing ------------------------------
(***************************************************************************)
(* pricing.py as the poller runs it every cycle, for one model: the price  *)
(* file and its override are read, mirrored into model_pricing, published  *)
(* into the price history, and every daily_usage row is costed again.      *)
(* A row holds one unit of tokens, so that its cost is its rate.           *)
(***************************************************************************)
EXTENDS Naturals, FiniteSets, FiniteSetsExt

CONSTANTS None,      \* no file entry, no row, no cost, no credit card
          Broken,    \* a file that does not parse or validate
          Days,      \* usage dates; effective_from is a day or 0 (undated)
          Usd,       \* USD rates
          Cards,     \* rates of the credit card, None among them
          PerUsd,    \* credits_per_usd
          MaxEdits   \* bound: edits of the price files

\* A revision of the model; usd = None is an unpriced one.
Rates == [from : Days \cup {0}, usd : Usd \cup {None}, card : Cards]

PricingAssumption ==
    /\ Days \subseteq Nat \ {0} /\ Usd \subseteq Nat /\ Cards \subseteq Nat \cup {None}
    /\ PerUsd \in Nat /\ MaxEdits \in Nat /\ {None, Broken} \cap Nat = {}
    /\ None \notin Rates

\* What a file says of the model: nothing, or revisions of different days that
\* are all dated when there are several (_parse_models), here one or two.
Entries ==
    {{r} : r \in Rates}
    \cup {{r, s} : r \in {x \in Rates : x.from # 0}, s \in {x \in Rates : x.from # 0}}
Sound(e) == \A r, s \in e : r.from = s.from => r = s
FileEntries == {None} \cup {e \in Entries : Sound(e)}

VARIABLES
    base, over,  \* entry of the price file; of the override (None: no entry)
    mirror,      \* model_pricing: the newest revision mirrored, or None
    history,     \* day -> the rate published in model_price_history, or None
    usage,       \* day -> its daily_usage row [usd, credits, from], or None
    synced,      \* the last cycle's pricing source was read and applied
    edits

priVars == <<base, over, mirror, history, usage, synced, edits>>

Uncosted == [usd |-> None, credits |-> None, from |-> None]

PriInit ==
    /\ base \in FileEntries /\ over = None
    /\ mirror = None /\ history = [d \in Days |-> None]
    /\ usage = [d \in Days |-> None]
    /\ synced = FALSE /\ edits = 0

\* The maintainers edit a file; a broken file counts as read and refused.
Edit(b, o) ==
    /\ edits < MaxEdits /\ edits' = edits + 1
    /\ <<b, o>> # <<base, over>>
    /\ base' = b /\ over' = o /\ synced' = FALSE
    /\ UNCHANGED <<mirror, history, usage>>

\* The usage source stores a day; its cost columns stay empty until costed.
UsageArrives(d) ==
    /\ usage[d] = None
    /\ usage' = [usage EXCEPT ![d] = Uncosted] /\ synced' = FALSE
    /\ UNCHANGED <<base, over, mirror, history, edits>>

-----------------------------------------------------------------------------
\* load_pricing: the override replaces the entry wholesale.
Catalog == IF over # None THEN over ELSE base

Newest(e) == CHOOSE r \in e : \A s \in e : s.from <= r.from

\* effective_rate, and the catalog's own rate where it has none.
Effective(e, d) == {r \in e : r.from <= d}

WithoutFallback(d) ==
    IF Catalog = None \/ Effective(Catalog, d) = {} THEN None
    ELSE Newest(Effective(Catalog, d))

CatalogRate(d) ==
    IF Catalog = None THEN None
    ELSE IF Effective(Catalog, d) = {} THEN Newest(Catalog)
    ELSE Newest(Effective(Catalog, d))

RewritesHistory ==
    [d \in Days |->
        LET dated == IF Catalog = None THEN {} ELSE {r \in Catalog : r.from = d}
        IN IF dated = {} THEN history[d] ELSE Newest(dated)]

\* upsert_model_pricing: the history is insert-only.
Published ==
    [d \in Days |->
        LET dated == IF Catalog = None THEN {} ELSE {r \in Catalog : r.from = d}
        IN IF history[d] # None \/ dated = {} THEN history[d] ELSE Newest(dated)]

\* _historical_rate: the latest published revision not after the day.
RateFor(h, d) ==
    LET past == {f \in Days : f <= d /\ h[f] # None}
    IN IF past = {} THEN CatalogRate(d) ELSE h[Max(past)]

\* compute_cost and credits_for_row.
Cost(rate) ==
    IF rate = None THEN Uncosted
    ELSE [usd |-> rate.usd,
          credits |-> IF rate.card # None THEN rate.card
                      ELSE IF rate.usd = None THEN None ELSE rate.usd * PerUsd,
          from |-> rate.from]

CostedBefore == history

\* The history recompute_daily_costs reads: the one just published.
CostedWith == Published

\* Poller.sync_pricing.
SyncPricing ==
    /\ Broken \notin {base, over}
    /\ mirror' = IF Catalog = None THEN mirror ELSE Newest(Catalog)
    /\ history' = Published
    /\ usage' = [d \in Days |-> IF usage[d] = None THEN None
                                ELSE Cost(RateFor(CostedWith, d))]
    /\ synced' = TRUE
    /\ UNCHANGED <<base, over, edits>>

\* A file that cannot be used: the source fails, costs stay as they are.
PricingFails ==
    /\ Broken \in {base, over}
    /\ synced' = FALSE
    /\ UNCHANGED <<base, over, mirror, history, usage, edits>>

PriNext ==
    \/ \E b \in FileEntries \cup {Broken} : Edit(b, over)
    \/ \E o \in FileEntries \cup {Broken} : Edit(base, o)
    \/ \E d \in Days : UsageArrives(d)
    \/ SyncPricing \/ PricingFails

PriSpec == PriInit /\ [][PriNext]_priVars

-----------------------------------------------------------------------------
\* A day that was costed from a revision dated no later is costed anew only by a later
\* revision, whatever is edited into the files ("a later catalog revision must
\* not reprice a closed usage day", tests/test_pricing.py).
RepricesByLater ==
    \A d \in Days :
      usage[d] # None /\ usage[d].from \in 1..d /\ usage'[d] # usage[d]
        => usage'[d].from > usage[d].from
RepricedOnlyByLater == [][RepricesByLater]_priVars

\* "Repeated runs converge" (recompute_daily_costs): a cycle that finds the
\* files and the usage of the cycle before it changes no cost.
Converges == synced /\ synced' => usage' = usage
CostsConverge == [][Converges]_priVars

\* "A catalog's first confirmed historical revision cannot make earlier
\* already-priced usage silently become unpriced" (_historical_rate): a price
\* is lost only where the files or the history say so.
KeepsPrices ==
    \A d \in Days :
      usage[d] # None /\ usage[d].usd # None /\ usage'[d].usd = None
        => \/ Catalog = None \/ \E r \in Catalog : r.usd = None
           \/ \E f \in Days : history[f] # None /\ history[f].usd = None
PricedStays == [][KeepsPrices]_priVars

\* Does not hold.  "Unpriced models that appear in real usage are surfaced
\* explicitly so they are never silently dropped" (health.py): a costed day
\* without a cost is a day of a model that health lists as unpriced.
UnpricedSurfaced ==
    \A d \in Days : synced /\ usage[d] # None /\ usage[d].usd = None
                      => mirror = None \/ mirror.usd = None

-----------------------------------------------------------------------------
(* The inductive invariant behind the action properties.                   *)

\* The files say what the parser lets pass, the history of a day is of that
\* day, and usage is one row, or none, for each day.
PriTypes ==
    /\ {base, over} \subseteq FileEntries \cup {Broken}
    /\ history \in [Days -> Rates \cup {None}]
    /\ \A f \in Days : history[f] # None => history[f].from = f
    /\ usage = [d \in Days |-> usage[d]]

\* A row that was costed from a revision dated no later than its day was
\* costed from the one the history has of that date.
CostedFromHistory ==
    \A d \in Days : usage[d] # None /\ usage[d].from \in 1..d =>
      /\ usage[d].from \in Days /\ history[usage[d].from] # None
      /\ usage[d] = Cost(history[usage[d].from])

\* After a cycle there is nothing to publish and every row has its cost.
Settled ==
    synced => /\ history = Published
              /\ \A d \in Days : usage[d] # None => usage[d] = Cost(RateFor(history, d))

PriInv == PriTypes /\ CostedFromHistory /\ Settled
=============================================================================
