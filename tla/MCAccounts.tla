----------------------------- MODULE MCAccounts -----------------------------
(***************************************************************************)
(* Accounts with two browsers and two requests at a time: two people who   *)
(* may register, one whose address is not on the list, one whose provider  *)
(* reports no usable address, and one with the administrator's address.    *)
(***************************************************************************)
EXTENDS Accounts, TLC

CONSTANTS b1, b2, p1, p2, ann, bob, eve, nil, root, google,
          adminEmail, listedEmail, otherEmail

MCProviderOf == [i \in Identities |-> google]

MCEmailOf == root :> adminEmail @@ ann :> listedEmail @@ bob :> listedEmail
             @@ eve :> otherEmail @@ nil :> NoEmail

\* Two browsers, two requests, and the two who may register are alike.
Sym == Permutations(Browsers) \cup Permutations(Procs) \cup Permutations({ann, bob})
=============================================================================
