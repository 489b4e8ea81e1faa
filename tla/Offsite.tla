------------------------------ MODULE Offsite ------------------------------
(***************************************************************************)
(* backup_offsite.py: the encrypted off-site copy of the newest local      *)
(* generation.  Generations are numbered by age.  A bundle is a file (enc) *)
(* and its metadata (meta); both are staged under .incoming- names and     *)
(* renamed, the file first.  The listing shows what has metadata, the      *)
(* staged metadata of a killed push included, after all the others.        *)
(***************************************************************************)
EXTENDS Naturals, Sequences, FiniteSets

CONSTANTS Generations,   \* numbers of the local generations
          OffRetention,  \* cfg.offsite_retention
          MaxMishaps     \* bound of the model

OffsiteAssumption ==
    Generations \subseteq Nat \ {0} /\ OffRetention \in Nat \ {0} /\ MaxMishaps \in Nat

VARIABLES
    local,    \* newest local generation, 0 when there is none
    enc,      \* generation -> its published file: none, good, bad
    meta,     \* generations with published metadata
    inc,      \* staged names: records [gen, meta]
    at,       \* idle, enc, meta, rename, rename_other, prune
    gen,      \* the generation being pushed
    excess,   \* listed bundles the running prune has still to remove
    told,     \* what the last push returned: none, pushed, already, failed
    alerts,   \* failure classes in alerts.jsonl
    report,   \* drill-report.json: none, pass, fail
    mishaps   \* failures injected so far

offVars == <<local, enc, meta, inc, at, gen, excess, told, alerts, report, mishaps>>
published == <<enc, meta>>

OffInit ==
    /\ local = 0 /\ enc = [g \in Generations |-> "none"] /\ meta = {} /\ inc = {}
    /\ at = "idle" /\ gen = 0 /\ excess = {} /\ told = "none"
    /\ alerts = {} /\ report = "none" /\ mishaps = 0

Mishap == mishaps < MaxMishaps /\ mishaps' = mishaps + 1

\* aistat.backup publishes a generation beside this program.
NewLocal ==
    /\ local + 1 \in Generations /\ local' = local + 1
    /\ UNCHANGED <<published, inc, at, gen, excess, told, alerts, report, mishaps>>

\* A bundle rots on its medium.
BundleRots(g) ==
    /\ enc[g] = "good" /\ Mishap
    /\ enc' = [enc EXCEPT ![g] = "bad"]
    /\ UNCHANGED <<local, meta, inc, at, gen, excess, told, alerts, report>>

\* _list_bundles: newest first; names that begin with a dot sort last.
Listed ==
    {[gen |-> g, staged |-> FALSE] : g \in meta}
    \cup {[gen |-> r.gen, staged |-> TRUE] : r \in {s \in inc : s.meta}}

Before(e, f) == IF e.staged = f.staged THEN e.gen > f.gen ELSE f.staged
FirstOf(T) == CHOOSE e \in T : \A f \in T \ {e} : Before(e, f)
Ahead(e) == Cardinality({f \in Listed : Before(f, e)})

-----------------------------------------------------------------------------
(* push                                                                    *)

Fails(key) == /\ at' = "idle" /\ told' = "failed" /\ alerts' = alerts \cup {key}

PushRefused ==
    /\ at = "idle" /\ local = 0
    /\ Fails("push:no-local-generation") /\ gen' = 0
    /\ UNCHANGED <<local, published, inc, excess, report, mishaps>>

PushAgain ==
    /\ at = "idle" /\ local # 0 /\ enc[local] # "none"
    /\ told' = "already" /\ gen' = local
    /\ UNCHANGED <<local, published, inc, at, excess, alerts, report, mishaps>>

\* The key is asked for outside the handlers that alert.
PushWithoutKey ==
    /\ at = "idle" /\ local # 0 /\ enc[local] = "none"
    /\ told' = "failed" /\ gen' = local
    /\ UNCHANGED <<local, published, inc, at, excess, alerts, report, mishaps>>

PushBegins ==
    /\ at = "idle" /\ local # 0 /\ enc[local] = "none"
    /\ at' = "enc" /\ gen' = local /\ told' = "none"
    /\ UNCHANGED <<local, published, inc, excess, alerts, report, mishaps>>

Staged(isMeta) == [gen |-> gen, meta |-> isMeta]

StageFile ==
    /\ at = "enc" /\ inc' = inc \cup {Staged(FALSE)} /\ at' = "meta"
    /\ UNCHANGED <<local, published, gen, excess, told, alerts, report, mishaps>>

StageMeta ==
    /\ at = "meta" /\ inc' = inc \cup {Staged(TRUE)} /\ at' = "rename"
    /\ UNCHANGED <<local, published, gen, excess, told, alerts, report, mishaps>>

MetaFirst == <<"meta", "enc">>

\* The staged names are renamed in this order.
RenameOrder == <<"enc", "meta">>

Renames(what) ==
    IF what = "enc"
      THEN /\ enc' = [enc EXCEPT ![gen] = "good"] /\ inc' = inc \ {Staged(FALSE)}
           /\ UNCHANGED meta
      ELSE /\ meta' = meta \cup {gen} /\ inc' = inc \ {Staged(TRUE)}
           /\ UNCHANGED enc

KeepOneLess == {e \in Listed : Ahead(e) + 1 >= OffRetention}

\* What _prune_offsite removes.
Excess == {e \in Listed : Ahead(e) >= OffRetention}

RenameOne ==
    /\ at = "rename" /\ at' = "rename_other" /\ Renames(RenameOrder[1])
    /\ UNCHANGED <<local, gen, excess, told, alerts, report, mishaps>>

RenameOther ==
    /\ at = "rename_other" /\ at' = "prune" /\ Renames(RenameOrder[2])
    /\ excess' = Excess'
    /\ UNCHANGED <<local, gen, told, alerts, report, mishaps>>

\* A step of the push raises: the staged names are removed, not the renamed.
PushFails ==
    /\ at \in {"enc", "meta", "rename", "rename_other"} /\ Mishap
    /\ inc' = inc \ {Staged(FALSE), Staged(TRUE)} /\ Fails("push:failed")
    /\ UNCHANGED <<local, published, gen, excess, report>>

Entry == FirstOf(excess)

\* The file and then its metadata are unlinked; metadata that cannot be
\* unlinked is left for the next prune, which finds no file.
PruneEntry(metaGoes) ==
    /\ at = "prune" /\ excess # {} /\ excess' = excess \ {Entry}
    /\ IF metaGoes THEN UNCHANGED mishaps ELSE Mishap
    /\ LET i == [gen |-> Entry.gen, meta |-> TRUE] IN
       IF Entry.staged
         THEN /\ inc' = inc \ {IF metaGoes THEN i ELSE [i EXCEPT !.meta = FALSE],
                              [i EXCEPT !.meta = FALSE]}
              /\ UNCHANGED published
         ELSE /\ enc' = [enc EXCEPT ![Entry.gen] = "none"]
              /\ meta' = IF metaGoes THEN meta \ {Entry.gen} ELSE meta
              /\ UNCHANGED inc
    /\ UNCHANGED <<local, at, gen, told, alerts, report>>

\* The file cannot be unlinked: both parts stay.
PruneSkips ==
    /\ at = "prune" /\ excess # {} /\ Mishap
    /\ excess' = excess \ {Entry}
    /\ UNCHANGED <<local, published, inc, at, gen, told, alerts, report>>

Pushed ==
    /\ at = "prune" /\ excess = {}
    /\ at' = "idle" /\ told' = "pushed"
    /\ UNCHANGED <<local, published, inc, gen, excess, alerts, report, mishaps>>

\* Killed: no handler runs and the staged names stay.
PushKilled ==
    /\ at # "idle" /\ Mishap
    /\ at' = "idle" /\ told' = "failed" /\ excess' = {}
    /\ UNCHANGED <<local, published, inc, gen, alerts, report>>

-----------------------------------------------------------------------------
(* verify and drill                                                        *)

Latest == FirstOf(Listed)

Readable(e) == ~e.staged /\ e.gen \in meta /\ enc[e.gen] = "good"

\* A drill of the latest bundle, in scratch space.
Drill ==
    /\ at = "idle" /\ Listed # {}
    /\ report' = IF Readable(Latest) THEN "pass" ELSE "fail"
    /\ alerts' = IF Readable(Latest) THEN alerts ELSE alerts \cup {"drill:failed"}
    /\ UNCHANGED <<local, published, inc, at, gen, excess, told, mishaps>>

OffNext ==
    \/ NewLocal \/ PushRefused \/ PushAgain \/ PushWithoutKey \/ PushBegins
    \/ StageFile \/ StageMeta \/ RenameOne \/ RenameOther
    \/ PushFails \/ PushKilled
    \/ \E metaGoes \in BOOLEAN : PruneEntry(metaGoes)
    \/ PruneSkips \/ Pushed \/ Drill
    \/ \E g \in Generations : BundleRots(g)

OffSpec == OffInit /\ [][OffNext]_offVars

-----------------------------------------------------------------------------
Complete == {g \in meta : enc[g] # "none"}

\* However a push ends, and whatever its prune could not unlink, the number of
\* complete bundles never falls below the retention once it was reached: "a
\* failure or retry never damages the previous good bundle" (push_offsite).
StaysComplete ==
    Cardinality(Complete) >= OffRetention => Cardinality(Complete') >= OffRetention
KeepsComplete == [][StaysComplete]_offVars

\* The newest published bundle is never the one a prune removes, and a listed
\* bundle that is not behind OffRetention newer ones has its file, so that the
\* latest, which verify and drill take by its name, can be read.
LatestWhole ==
    Listed # {} /\ ~Latest.staged => enc[Latest.gen] # "none"

\* VIOLATED.  "Already published; idempotent no-op keeps retries safe"
\* (push_offsite): what a retry reports as already published can be listed,
\* verified and drilled.
AlreadyMeansPublished == told = "already" /\ at = "idle" => gen \in meta
-----------------------------------------------------------------------------
(* The inductive invariant behind both.                                    *)

OffTypes ==
    /\ local \in Generations \cup {0} /\ gen \in 0..local /\ (at # "idle" => gen # 0)
    /\ enc \in [Generations -> {"none", "good", "bad"}]
    /\ meta \subseteq 1..local /\ 1..local \subseteq Generations
    /\ inc \subseteq [gen : 1..local, meta : BOOLEAN]
    /\ excess \subseteq [gen : 1..local, staged : BOOLEAN]

\* Complete bundles that the running prune leaves.
Firm == {h \in Complete : [gen |-> h, staged |-> FALSE] \notin excess}

Newer(S, g) == {h \in S : h > g}

\* A published bundle that has lost its file, or is about to lose it, is behind
\* as many firm ones as the retention asks for.
BehindFirm ==
    \A g \in meta \ Firm : Cardinality(Newer(Firm, g)) >= OffRetention

OffInv ==
    /\ OffTypes /\ BehindFirm
    /\ at = "rename_other" => enc[gen] # "none"
    /\ at # "prune" => excess = {}
=============================================================================
