------------------------------ MODULE Billing ------------------------------
(***************************************************************************)
(* pricing.reconcile_billing_actual for one owner, provider and period, as *)
(* wsgi.py calls it: the read of the row and the transaction that writes   *)
(* it are inside one ingest_lock, so that submissions follow one another.  *)
(* A submission is over the variance threshold or not: the bill differs,   *)
(* and so does the usage recorded by then.                                 *)
(***************************************************************************)
EXTENDS Naturals

CONSTANT None  \* no row

\* Rows of billing_reconciliation.
Rows == [over : BOOLEAN, emitted : BOOLEAN]

BillingAssumption == None \notin Rows

VARIABLES
    row,      \* [over, emitted] of billing_reconciliation, or None
    reported  \* history: diagnostics answered since the row was last within

bilVars == <<row, reported>>

BilInit == row = None /\ reported = 0

EveryVariance(over) == over

\* Emitted for the first variance after none.
Emits(over) == over /\ (row = None \/ ~row.over)

KeptLonger(over) == Emits(over) \/ (row # None /\ row.emitted)

\* The CASE of the upsert: set on the way over the threshold, cleared on the
\* way back, kept in between.
Emitted(over) ==
    IF row = None \/ (over /\ ~row.over) THEN Emits(over) ELSE over /\ row.emitted

\* One transaction; a submission that fails leaves no trace, and the answer to
\* one that is committed may be lost.
Submit(over) ==
    /\ row' = [over |-> over, emitted |-> Emitted(over)]
    /\ \E answered \in BOOLEAN :
         reported' = IF ~over THEN 0
                     ELSE reported + IF Emits(over) /\ answered THEN 1 ELSE 0

BilNext == \E over \in BOOLEAN : Submit(over)

BilSpec == BilInit /\ [][BilNext]_bilVars

-----------------------------------------------------------------------------
\* However long bills are over the threshold, within and over again, the row
\* says that a diagnostic was sent exactly while it is over, and no variance is
\* answered with a second one ("emit one diagnostic per variance").
OneDiagnostic ==
    row # None => /\ row.emitted = row.over
                  /\ reported <= 1

-----------------------------------------------------------------------------
\* The inductive invariant behind OneDiagnostic.
BilInv ==
    /\ row \in Rows \cup {None} /\ reported \in Nat
    /\ row = None \/ ~row.over => reported = 0
    /\ OneDiagnostic
=============================================================================
