--------------------------- MODULE LoginThrottle ---------------------------
(***************************************************************************)
(* The password form of legacy_wsgi.py (the Flask form of wsgi.py has the  *)
(* same steps) and the login_throttle row of one client key.  Every CGI    *)
(* request is a process: it reads the row, deletes it if what it read was  *)
(* over, checks the password, and records the outcome, each in a           *)
(* transaction of its own.  Times are relative to now.                     *)
(***************************************************************************)
EXTENDS Naturals, FiniteSets

CONSTANTS Requests,      \* CGI processes of one client address
          MaxFailures,   \* LOGIN_MAX_FAILURES
          Window, Lock   \* LOGIN_WINDOW_SECONDS, LOGIN_LOCK_SECONDS

\* A lock lasts at least as long as the window it was earned in.
ThrottleAssumption ==
    /\ IsFiniteSet(Requests) /\ MaxFailures \in Nat \ {0}
    /\ Window \in Nat \ {0} /\ Lock \in Nat /\ Lock >= Window

VARIABLES
    row,     \* [age of the window, failures, left of the lock]; NoRow
    at,      \* request -> idle, delete, check
    wrong,   \* history: n -> age of the n-th last failure since a success;
             \* Window, when none that young is the n-th
    tries    \* history: failures since a window ran out or a success

thrVars == <<row, at, wrong, tries>>

\* A row that is not there: no failures, and a window that is over.
NoRow == [age |-> Window, failures |-> 0, left |-> 0]

NoneWrong == [n \in 1..MaxFailures |-> Window]

ThrInit ==
    /\ row = NoRow /\ at = [r \in Requests |-> "idle"]
    /\ wrong = NoneWrong /\ tries = 0

Locked == row.left > 0

NeverOver == row.failures = 0

\* No row, or its window is over.
WindowOver == row.age >= Window

\* There is a row, and its window is over.
RanOut == WindowOver /\ row.failures > 0

\* _login_retry_after reads the row: a running lock refuses, a window that is
\* over is to be deleted on the way.
Admit(r) ==
    /\ at[r] = "idle" /\ ~Locked
    /\ at' = [at EXCEPT ![r] = IF RanOut THEN "delete" ELSE "check"]
    /\ UNCHANGED <<row, wrong, tries>>

\* The DELETE names the client only: it takes whatever row is there by now, a
\* newer window or a running lock too.
Delete(r) ==
    /\ at[r] = "delete"
    /\ row' = NoRow /\ tries' = (IF RanOut THEN 0 ELSE tries)
    /\ at' = [at EXCEPT ![r] = "check"]
    /\ UNCHANGED wrong

RefusedLater == row' = [row EXCEPT !.left = Lock]

\* What a refusal leaves of the row.
Refused == UNCHANGED row

Refuse(r) ==
    /\ at[r] = "idle" /\ Locked
    /\ Refused
    /\ UNCHANGED <<at, wrong, tries>>

OverTheLimit(failures) == failures > MaxFailures

AtTheLimit(failures) == failures >= MaxFailures

\* _record_login_failure.
WrongPassword(r) ==
    /\ at[r] = "check"
    /\ LET failures == IF WindowOver THEN 1 ELSE row.failures + 1
           held     == IF WindowOver THEN 0 ELSE row.left
       IN row' = [age |-> IF WindowOver THEN 0 ELSE row.age,
                  failures |-> failures,
                  left |-> IF AtTheLimit(failures) THEN Lock ELSE held]
    /\ at' = [at EXCEPT ![r] = "idle"]
    /\ tries' = (IF RanOut THEN 1 ELSE tries + 1)
    /\ wrong' = [n \in 1..MaxFailures |-> IF n = 1 THEN 0 ELSE wrong[n - 1]]

\* _clear_login_failures; the session that follows is the matter of Accounts.
RightPassword(r) ==
    /\ at[r] = "check"
    /\ row' = NoRow /\ wrong' = NoneWrong /\ tries' = 0
    /\ at' = [at EXCEPT ![r] = "idle"]

\* The host stops a CGI process.
RequestDies(r) ==
    /\ at[r] # "idle" /\ at' = [at EXCEPT ![r] = "idle"]
    /\ UNCHANGED <<row, wrong, tries>>

Older(age) == IF age < Window THEN age + 1 ELSE age

Tick ==
    /\ row' = [row EXCEPT !.age = Older(@), !.left = IF @ > 0 THEN @ - 1 ELSE 0]
    /\ wrong' = [n \in 1..MaxFailures |-> Older(wrong[n])]
    /\ UNCHANGED <<at, tries>>

ThrNext ==
    \/ \E r \in Requests : \/ Admit(r) \/ Delete(r) \/ Refuse(r)
                           \/ WrongPassword(r) \/ RightPassword(r)
                           \/ RequestDies(r)
    \/ Tick

\* Time passes, whatever the requests do.
ThrSpec == ThrInit /\ [][ThrNext]_thrVars /\ WF_thrVars(Tick)

-----------------------------------------------------------------------------
\* What one row can count: requests that were admitted before the lock may
\* still count, one each, at most the limit and the other processes'.
RowLimit == MaxFailures + Cardinality(Requests) - 1

\* However requests are checked side by side and however late a deletion is,
\* the wrong passwords of one window are limited: RowLimit by the row, and as
\* many again for each request that was about to delete an older one.
OvershootBounded ==
    /\ row.failures <= RowLimit
    /\ tries <= (Cardinality(Requests) + 1) * RowLimit

\* VIOLATED.  One row limits every window by itself.  The check and the deletion
\* are two transactions (login_retry_after), and a deletion that comes late takes
\* a newer window, or a running lock, with it.
LimitedByOneRow == tries <= RowLimit

\* A lock is imposed only for MaxFailures wrong passwords since the last right
\* one that all lie in one window, however slowly they were checked.
EarnsLock == row'.left > row.left => wrong'[MaxFailures] < Window

Checking == {r \in Requests : at[r] = "check"}
Deleting == {r \in Requests : at[r] = "delete"}

ThrTypes ==
    /\ row \in [age : 0..Window, failures : Nat, left : Nat]
    /\ at \in [Requests -> {"idle", "delete", "check"}]
    /\ wrong \in [1..MaxFailures -> 0..Window]
    /\ tries \in Nat

\* Every failure of the running window is a recent one; at the limit the lock
\* outlasts the window, so that only requests admitted before it still count;
\* and until a window runs out no request is added to those about to delete.
ThrInv ==
    /\ ThrTypes /\ OvershootBounded
    /\ row.age < Window =>
         \A n \in 1..MaxFailures : n <= row.failures => wrong[n] <= row.age
    /\ row.age < Window /\ row.failures >= MaxFailures =>
         /\ row.left + row.age >= Window
         /\ row.failures + Cardinality(Checking) <= RowLimit
    /\ ~RanOut =>
         tries <= (Cardinality(Requests) - Cardinality(Deleting)) * RowLimit
                  + row.failures

\* A client that keeps trying while it is locked out does not prolong the
\* lock: every lock ends.
LockEnds == Locked ~> ~Locked
=============================================================================
