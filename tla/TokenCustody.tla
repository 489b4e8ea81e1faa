---------------------------- MODULE TokenCustody ----------------------------
(***************************************************************************)
(* What the hand-off promises, without leases, messages or runs: who may   *)
(* hold which generation of a user's token.                                *)
(*                                                                         *)
(* phase[u] what the host tells the user about the connection:             *)
(*   none       never submitted           held       only the worker has it *)
(*   offered    the host has it           withdrawn  being taken back       *)
(*   revoked    nobody has it             gone       the account is deleted *)
(* gen[u]     the generation phase[u] speaks of                            *)
(* worker[u]  the generation of the worker's copy, 0 when it has none      *)
(*                                                                         *)
(* Settle and Confirm read the worker's copy although the host cannot:     *)
(* that the exchange of messages amounts to this is what Handoff shows.    *)
(***************************************************************************)
EXTENDS Naturals

CONSTANT Users

VARIABLES phase, gen, worker

cvars == <<phase, gen, worker>>

Phases == {"none", "offered", "held", "withdrawn", "revoked", "gone"}

CInit ==
  /\ phase \in [Users -> {"none", "offered"}]
  /\ gen = [u \in Users |-> IF phase[u] = "offered" THEN 1 ELSE 0]
  /\ worker = [u \in Users |-> 0]

\* The user hands in a token, the first or another one.
Offer(u) ==
  /\ phase[u] # "gone"
  /\ phase' = [phase EXCEPT ![u] = "offered"]
  /\ gen' = [gen EXCEPT ![u] = @ + 1]
  /\ UNCHANGED worker

\* The worker copies a token it was offered, perhaps one replaced or taken
\* back since, but never once the connection is settled.
Take(u, g) ==
  /\ phase[u] \in {"offered", "withdrawn"}
  /\ worker[u] < g /\ g <= gen[u]
  /\ worker' = [worker EXCEPT ![u] = g]
  /\ UNCHANGED <<phase, gen>>

\* The host erases the token: the worker has this very generation.
Settle(u) ==
  /\ phase[u] = "offered" /\ worker[u] = gen[u]
  /\ phase' = [phase EXCEPT ![u] = "held"]
  /\ UNCHANGED <<gen, worker>>

\* Tokens are taken back: by their user, by expiry, with the account.
TakeBack(S) ==
  /\ \A u \in S : phase[u] \in {"offered", "held", "withdrawn"}
  /\ phase' = [u \in Users |-> IF u \in S THEN "withdrawn" ELSE phase[u]]
  /\ gen' = [u \in Users |-> IF u \in S THEN gen[u] + 1 ELSE gen[u]]
  /\ UNCHANGED worker

\* The worker deletes a copy that is not of the current generation.
Purge(u) ==
  /\ worker[u] # gen[u]
  /\ worker' = [worker EXCEPT ![u] = 0]
  /\ UNCHANGED <<phase, gen>>

\* Nothing is left with the worker: the host says so.
Confirm(u) ==
  /\ phase[u] = "withdrawn" /\ worker[u] = 0
  /\ phase' = [phase EXCEPT ![u] = "revoked"]
  /\ UNCHANGED <<gen, worker>>

\* The account goes, and with it a connection nobody holds a token of.
Forget(u) ==
  /\ phase[u] \in {"none", "revoked"} /\ worker[u] = 0
  /\ phase' = [phase EXCEPT ![u] = "gone"]
  /\ gen' = [gen EXCEPT ![u] = 0]
  /\ UNCHANGED worker

CNext ==
  \/ \E u \in Users : \/ Offer(u) \/ Settle(u) \/ Purge(u) \/ Confirm(u) \/ Forget(u)
                      \/ \E g \in 1..gen[u] : Take(u, g)
  \/ \E S \in SUBSET Users : TakeBack(S)

CSpec == CInit /\ [][CNext]_cvars
=============================================================================
