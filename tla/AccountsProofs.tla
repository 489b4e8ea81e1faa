--------------------------- MODULE AccountsProofs ---------------------------
(***************************************************************************)
(* The safety of accounts and sessions for every number of browsers,       *)
(* requests, identities and providers, every address list and every bound. *)
(*                                                                         *)
(* The invariant adds what a request has read to what the tables say: ids  *)
(* are never reused, so a user or session id that a request still holds    *)
(* means the same row or none, and never a row of somebody else.           *)
(***************************************************************************)
EXTENDS Accounts, TLAPS

Signers == Identities \cup {Password}

StoreInv ==
    /\ \A u \in 1..MaxUser : u > seq => users[u] = "absent"
    /\ AccountsWhole
    /\ NoConnectionOfStranger

SessInv ==
    /\ nextSid > 0 => Owners # {}
    /\ \A s \in 1..MaxSid : s > nextSid => sessions[s] = 0
    /\ \A s \in 1..MaxSid : sessions[s] # 0 =>
         sessions[s] <= seq /\ login[s].who \in Signers
    /\ SessionServesItsPerson
    /\ \A b \in Browsers : jar[b] <= nextSid
    /\ OnlyInitiatingBrowser

FlowInv ==
    /\ \A s \in 1..MaxState : s > nextState => states[s] = NoState /\ passed[s] = 0
    /\ \A s \in 1..MaxState : states[s] # NoState => passed[s] = 0
    /\ StateUsedOnce

\* What a request has read is still what it was, or is gone.
Holds(r) ==
    /\ r.old <= nextSid /\ r.sid <= nextSid
    /\ r.pc # "idle" => Owners # {}
    /\ r.pc = "exchange" => r.began = r.browser
    /\ r.pc \in {"revoke", "create"} =>
         /\ r.user \in 1..seq /\ r.who \in Signers
         /\ r.who \in Identities => r.began = r.browser
         /\ users[r.user] # "absent" => Speaks(r.who, r.user)
    /\ r.pc \in {"create", "reply"} => ~Resolves(r.old)
    /\ r.pc = "reply" /\ r.sid # 0 /\ login[r.sid].who \in Identities =>
         login[r.sid].began = r.browser
    /\ r.pc \in {"reserve", "submit"} => r.user \in 1..seq

ReqInv == \A p \in Procs : Holds(req[p])

AccountsInv == TypeOK /\ StoreInv /\ SessInv /\ FlowInv /\ ReqInv

\* What a step may do to the tables without touching what requests have read.
Monotone ==
    /\ seq' \in Nat /\ seq <= seq' /\ nextSid' \in Nat /\ nextSid <= nextSid'
    /\ Owners # {} => Owners' # {}
    /\ \A u \in 1..seq : users'[u] # "absent" =>
         users[u] # "absent" /\ \A w \in Signers : Speaks(w, u) => Speaks(w, u)'
    /\ \A s \in 1..nextSid : login'[s] = login[s] /\ (sessions[s] = 0 => sessions'[s] = 0)

-----------------------------------------------------------------------------
(* Lemmas on the parts.                                                    *)

\* The owner is an existing account.
LEMMA OwnerExists ==
    ASSUME AccountsAssumption, TypeOK, StoreInv, Owners # {}
    PROVE  TheOwner \in 1..MaxUser /\ users[TheOwner] = "owner" /\ TheOwner <= seq
  <1>1. PICK u \in 1..MaxUser : users[u] = "owner"
    BY DEF Owners
  <1>2. TheOwner \in 1..MaxUser /\ users[TheOwner] = "owner"
    BY <1>1 DEF TheOwner
  <1> QED BY <1>2 DEF StoreInv, TypeOK, AccountsAssumption

\* A step that leaves the tables alone is monotone.
LEMMA SameTables ==
    ASSUME AccountsAssumption, TypeOK, UNCHANGED <<users, seq, identities, sessions, nextSid, login>>
    PROVE  Monotone
  BY DEF AccountsAssumption, TypeOK, Monotone, Owners, Speaks

\* So is one that only writes sessions, of ids drawn before or one anew.
LEMMA SameAccounts ==
    ASSUME AccountsAssumption, TypeOK, UNCHANGED <<users, seq, identities>>,
           nextSid' \in Nat, nextSid <= nextSid',
           \A s \in 1..nextSid : login'[s] = login[s]
                                 /\ (sessions[s] = 0 => sessions'[s] = 0)
    PROVE  Monotone
  BY DEF AccountsAssumption, TypeOK, Monotone, Owners, Speaks

\* What a request has read survives a monotone step.
LEMMA OthersHold ==
    ASSUME AccountsAssumption, TypeOK, ReqInv, Monotone, NEW q \in Procs, req'[q] = req[q]
    PROVE  Holds(req[q])'
  <1> DEFINE r == req[q]
  <1>1. r \in Request_ /\ Holds(r)
    BY DEF TypeOK, ReqInv
  <1>2. r.old <= nextSid' /\ r.sid <= nextSid'
    BY <1>1 DEF TypeOK, Holds, Monotone, Request_, AccountsAssumption
  <1>3. r.pc # "idle" => Owners' # {}
    BY <1>1 DEF Holds, Monotone
  <1>4. r.pc \in {"revoke", "create"} =>
          /\ r.user \in 1..seq'
          /\ users'[r.user] # "absent" => Speaks(r.who, r.user)'
    <2> SUFFICES ASSUME r.pc \in {"revoke", "create"}
                 PROVE  /\ r.user \in 1..seq'
                        /\ users'[r.user] # "absent" => Speaks(r.who, r.user)'
      OBVIOUS
    <2>1. r.user \in 1..seq /\ r.who \in Signers
          /\ (users[r.user] # "absent" => Speaks(r.who, r.user))
      BY <1>1 DEF Holds
    <2>2. r.user \in 1..seq'
      BY <2>1 DEF Monotone, TypeOK, AccountsAssumption
    <2>3. users'[r.user] # "absent" => Speaks(r.who, r.user)'
      BY <2>1, req'[q] = req[q] DEF Monotone, Speaks
    <2> QED BY <2>2, <2>3
  <1>5. r.pc \in {"create", "reply"} => ~(r.old # 0 /\ sessions'[r.old] # 0)
    BY <1>1 DEF Holds, Resolves, Monotone, TypeOK, Request_, AccountsAssumption
  <1>6. r.pc = "reply" /\ r.sid # 0 /\ login'[r.sid].who \in Identities =>
          login'[r.sid].began = r.browser
    <2>1. r.sid \in 0..nextSid /\ nextSid \in Nat
      BY <1>1 DEF Holds, TypeOK, Request_, AccountsAssumption
    <2>2. r.sid # 0 => login'[r.sid] = login[r.sid]
      BY <2>1 DEF Monotone
    <2> QED BY <1>1, <2>2 DEF Holds
  <1>7. r.pc \in {"reserve", "submit"} => r.user \in 1..seq'
    BY <1>1 DEF Holds, Monotone, TypeOK, Request_, AccountsAssumption
  <1> QED BY <1>1, <1>2, <1>3, <1>4, <1>5, <1>6, <1>7 DEF Holds, Resolves, Speaks

\* One request moves on, the others keep what they have read.
LEMMA OneMoves ==
    ASSUME AccountsAssumption, TypeOK, ReqInv, Monotone, NEW p \in Procs,
           \A q \in Procs \ {p} : req'[q] = req[q], Holds(req[p])'
    PROVE  ReqInv'
  <1> SUFFICES ASSUME NEW q \in Procs PROVE Holds(req[q])'
    BY DEF ReqInv
  <1>1. CASE q = p
    BY <1>1
  <1>2. CASE q # p
    BY <1>2, OthersHold
  <1> QED BY <1>1, <1>2

\* Parts a step does not touch.
LEMMA StoreKept == ASSUME StoreInv, UNCHANGED store PROVE StoreInv'
  BY DEF StoreInv, store, AccountsWhole, NoConnectionOfStranger, Present

LEMMA FlowKept == ASSUME FlowInv, UNCHANGED flow PROVE FlowInv'
  BY DEF FlowInv, flow, StateUsedOnce

LEMMA SessKept ==
    ASSUME SessInv, UNCHANGED <<users, seq, identities, sess, jar>> PROVE SessInv'
  BY DEF SessInv, Owners, sess, SessionServesItsPerson, Present, Speaks, OnlyInitiatingBrowser

-----------------------------------------------------------------------------
(* One lemma per action.                                                   *)

\* The first owner: nobody has been served before.
LEMMA EnsureOwnerKeeps ==
    ASSUME AccountsAssumption, AccountsInv, EnsureOwner PROVE AccountsInv'
  <1> USE DEF AccountsInv
  <1>1. UNCHANGED <<identities, tenants, connected, sess, flow, jar, req>> /\ Owners = {}
    BY DEF EnsureOwner
  <1>3. PICK o \in 1..MaxUser :
          /\ users' = [users EXCEPT ![o] = "owner"]
          /\ \/ o \in Present /\ seq' = seq
             \/ o = seq + 1 /\ seq' = seq + 1
    <2>1. CASE \E i \in Identities : identities[i] # 0 /\ EmailOf[i] = AdminEmail
      BY <2>1 DEF EnsureOwner, StoreInv, AccountsWhole, Present, TypeOK
    <2>2. CASE ~\E i \in Identities : identities[i] # 0 /\ EmailOf[i] = AdminEmail
      BY <2>2 DEF EnsureOwner, NewId, TypeOK, AccountsAssumption
    <2> QED BY <2>1, <2>2
  <1>2. TypeOK'
    <2>1. users' \in [1..MaxUser -> {"absent", "member", "owner"}] /\ seq' \in 0..MaxUser
      BY <1>3 DEF TypeOK, AccountsAssumption
    <2>2. UNCHANGED <<identities, tenants, throttled, connected, sess, flow, jar, req>>
      BY DEF EnsureOwner
    <2> QED BY <2>1, <2>2 DEF TypeOK, sess, flow
  <1>4. StoreInv'
    BY <1>1, <1>3 DEF StoreInv, AccountsWhole, NoConnectionOfStranger, Present, TypeOK
  <1>5. SessInv'
    BY <1>1, <1>3
    DEF SessInv, Owners, SessionServesItsPerson, Present, Speaks, OnlyInitiatingBrowser,
        TypeOK, sess, Signers, StoreInv, AccountsAssumption
  <1>6. FlowInv'
    BY <1>1, FlowKept
  <1>7. Monotone
    BY <1>1, <1>2, <1>3
    DEF Monotone, Owners, Speaks, Present, TypeOK, sess, Signers, AccountsAssumption
  <1>8. ReqInv'
    BY <1>1, <1>7, OthersHold DEF ReqInv
  <1> QED BY <1>2, <1>4, <1>5, <1>6, <1>8

\* The password form leads to the owner.
LEMMA LoginAcceptedKeeps ==
    ASSUME AccountsAssumption, AccountsInv, NEW p \in Procs, NEW b \in Browsers,
           LoginAccepted(p, b)
    PROVE  AccountsInv'
  <1> USE DEF AccountsInv
  <1> DEFINE r == [Idle EXCEPT !.pc = "revoke", !.browser = b, !.old = jar[b],
                               !.who = Password, !.user = TheOwner]
  <1>1. UNCHANGED <<store, sess, flow, jar>> /\ Owners # {}
    BY DEF LoginAccepted, Up
  <1>2. req' = [req EXCEPT ![p] = r]
    BY DEF LoginAccepted, Advance
  <1>3. TheOwner \in 1..MaxUser /\ users[TheOwner] = "owner" /\ TheOwner <= seq
    BY <1>1, OwnerExists
  <1>4. r \in Request_
    <2>1. Idle \in Request_
      BY DEF Idle, Request_, People, AccountsAssumption
    <2>2. Password \in People /\ TheOwner \in 0..MaxUser /\ jar[b] \in 0..MaxSid
      BY <1>3 DEF People, TypeOK, AccountsAssumption
    <2> QED BY <2>1, <2>2 DEF Request_
  <1>5. TypeOK'
    BY <1>1, <1>2, <1>4 DEF TypeOK, store, sess, flow
  <1>6. req'[p] = r /\ r.pc = "revoke" /\ r.old = jar[b] /\ r.who = Password
        /\ r.user = TheOwner /\ r.sid = 0
    BY <1>2 DEF TypeOK, Idle
  <1>7. Holds(req[p])'
    BY <1>1, <1>3, <1>6 DEF Holds, SessInv, Signers, Speaks, store, sess, Owners, TypeOK,
                             AccountsAssumption
  <1>8. ReqInv'
    BY <1>1, <1>2, <1>7, OneMoves, SameTables DEF TypeOK, store, sess
  <1> QED BY <1>1, <1>5, <1>8, StoreKept, SessKept, FlowKept DEF store

\* A state is new when it is stored.
LEMMA OAuthStartKeeps ==
    ASSUME AccountsAssumption, AccountsInv, NEW b \in Browsers, NEW v \in Providers,
           OAuthStart(b, v)
    PROVE  AccountsInv'
  <1> USE DEF AccountsInv
  <1>1. UNCHANGED <<store, sess, passed, jar, req>> /\ nextState < MaxState
        /\ nextState' = nextState + 1
        /\ states' = [states EXCEPT ![nextState + 1] = [provider |-> v, client |-> b]]
    BY DEF OAuthStart
  <1>2. TypeOK'
    <2>1. states' \in [1..MaxState -> [provider: Providers \cup {None},
                                      client: Browsers \cup {None}]]
      BY <1>1 DEF TypeOK
    <2>2. nextState' \in 0..MaxState
      BY <1>1 DEF TypeOK, AccountsAssumption
    <2> QED BY <1>1, <2>1, <2>2 DEF TypeOK, store, sess
  <1>3. FlowInv'
    BY <1>1 DEF FlowInv, StateUsedOnce, TypeOK, NoState, AccountsAssumption
  <1>4. ReqInv'
    BY <1>1, OthersHold, SameTables DEF ReqInv, store, sess
  <1> QED BY <1>1, <1>2, <1>3, <1>4, StoreKept, SessKept DEF store

\* The first callback takes the state, so the second finds none.
LEMMA CallbackTakeKeeps ==
    ASSUME AccountsAssumption, AccountsInv, NEW p \in Procs, NEW b \in Browsers,
           NEW v \in Providers, NEW s \in 1..MaxState, NEW code \in BOOLEAN,
           CallbackTake(p, b, v, s, code)
    PROVE  AccountsInv'
  <1> USE DEF AccountsInv
  <1>1. UNCHANGED <<store, sess, nextState, jar>> /\ Owners # {}
        /\ states' = [states EXCEPT ![s] = NoState]
    BY DEF CallbackTake, Taken, Up
  <1>2. CASE UNCHANGED <<passed, req>>
    <2>1. TypeOK'
      BY <1>1, <1>2 DEF TypeOK, store, sess, NoState
    <2>2. FlowInv'
      BY <1>1, <1>2 DEF FlowInv, StateUsedOnce, TypeOK, NoState
    <2>3. ReqInv'
      BY <1>1, <1>2, OthersHold, SameTables DEF ReqInv, store, sess
    <2> QED BY <1>1, <2>1, <2>2, <2>3, StoreKept, SessKept DEF store
  <1>3. CASE ~UNCHANGED <<passed, req>>
    <2> DEFINE r == [pc |-> "exchange", browser |-> b, old |-> jar[b], who |-> None,
                     provider |-> v, began |-> states[s].client, user |-> 0, sid |-> 0]
    <2>1. states[s].client = b /\ passed' = [passed EXCEPT ![s] = @ + 1]
          /\ req' = [req EXCEPT ![p] = r]
      BY <1>3 DEF CallbackTake, Bound, Advance, Idle
    <2>2. states[s] # NoState
      BY <2>1 DEF NoState, AccountsAssumption
    <2>3. r \in Request_
      BY <2>1 DEF Request_, People, TypeOK, AccountsAssumption
    <2>4. TypeOK'
      <3>1. passed' \in [1..MaxState -> Nat]
        BY <2>1 DEF TypeOK
      <3>2. states' \in [1..MaxState -> [provider: Providers \cup {None},
                                        client: Browsers \cup {None}]]
        BY <1>1 DEF TypeOK, NoState
      <3> QED BY <1>1, <2>1, <2>3, <3>1, <3>2 DEF TypeOK, store, sess
    <2>5. FlowInv'
      BY <1>1, <2>1, <2>2 DEF FlowInv, StateUsedOnce, TypeOK
    <2>6. req'[p] = r
      BY <2>1 DEF TypeOK
    <2>7. Holds(req[p])'
      BY <1>1, <2>1, <2>6 DEF Holds, SessInv, store, sess, Owners, TypeOK, AccountsAssumption
    <2>8. ReqInv'
      BY <1>1, <2>1, <2>7, OneMoves, SameTables DEF TypeOK, store, sess
    <2> QED BY <1>1, <2>4, <2>5, <2>8, StoreKept, SessKept DEF store
  <1> QED BY <1>2, <1>3

\* A request that ends keeps nothing.
LEMMA EndsKeeps ==
    ASSUME AccountsAssumption, AccountsInv, NEW p \in Procs,
           UNCHANGED <<store, sess, flow, jar>>, Advance(p, Idle)
    PROVE  AccountsInv'
  <1> USE DEF AccountsInv
  <1>1. Idle \in Request_
    BY DEF Idle, Request_, People, AccountsAssumption
  <1>2. TypeOK'
    BY <1>1 DEF TypeOK, store, sess, flow, Advance
  <1>3. req'[p] = Idle
    BY DEF TypeOK, Advance
  <1>4. Holds(req[p])'
    BY <1>3 DEF Holds, Idle, TypeOK, sess, AccountsAssumption
  <1>5. ReqInv'
    BY <1>4, OneMoves, SameTables DEF TypeOK, store, sess, Advance
  <1> QED BY <1>2, <1>5, StoreKept, SessKept, FlowKept DEF store

\* Who an identity leads to after Resolve is who the request remembers.
LEMMA ResolveKeeps ==
    ASSUME AccountsAssumption, AccountsInv, NEW p \in Procs, NEW i \in Identities,
           Resolve(p, i)
    PROVE  AccountsInv'
  <1> USE DEF AccountsInv
  <1> DEFINE u == IF identities[i] # 0 THEN identities[i]
                  ELSE IF LinksOwner(i) THEN TheOwner ELSE NewId
             r == [req[p] EXCEPT !.pc = "revoke", !.who = i, !.user = u]
  <1>1. /\ UNCHANGED <<throttled, connected, sess, flow, jar>>
        /\ req' = [req EXCEPT ![p] = r] /\ req[p].pc = "exchange"
    BY DEF Resolve, Advance
  <1>2. Owners # {} /\ Holds(req[p]) /\ req[p] \in Request_
    BY <1>1 DEF ReqInv, Holds, TypeOK
  <1>3. \A j \in Identities : identities[j] <= seq /\ identities[j] \in 0..MaxUser
    BY DEF StoreInv, AccountsWhole, Present, TypeOK, AccountsAssumption
  <1>4. /\ u \in 1..MaxUser /\ u <= seq' /\ seq' \in seq..MaxUser
        /\ users' \in [1..MaxUser -> {"absent", "member", "owner"}]
        /\ identities' = [identities EXCEPT ![i] = u]
        /\ tenants' \subseteq 1..MaxUser /\ tenants \subseteq tenants'
        /\ Monotone /\ StoreInv'
    <2>1. CASE UNCHANGED <<users, seq, identities, tenants>> /\ identities[i] # 0
      <3>1. Monotone
        BY <2>1, <1>1, SameTables DEF sess
      <3>2. StoreInv'
        BY <2>1, <1>1 DEF StoreInv, AccountsWhole, NoConnectionOfStranger, Present
      <3> QED BY <2>1, <1>3, <3>1, <3>2 DEF TypeOK, AccountsAssumption
    <2>2. CASE LinksOwner(i) /\ identities' = [identities EXCEPT ![i] = TheOwner]
               /\ UNCHANGED <<users, seq, tenants>>
      <3>1. identities[i] = 0 /\ u = TheOwner /\ TheOwner \in 1..MaxUser
            /\ users[TheOwner] = "owner" /\ TheOwner <= seq
        BY <2>2, <1>2, OwnerExists DEF LinksOwner
      <3>2. Monotone
        BY <2>2, <3>1, <1>1
        DEF Monotone, sess, TypeOK, Owners, Speaks, Signers, AccountsAssumption
      <3>3. StoreInv'
        BY <2>2, <3>1, <1>1
        DEF StoreInv, AccountsWhole, NoConnectionOfStranger, Present, TypeOK
      <3> QED BY <2>2, <3>1, <3>2, <3>3 DEF TypeOK, AccountsAssumption
    <2>3. CASE identities[i] = 0 /\ ~LinksOwner(i) /\ Register(i)
      <3>1. /\ u = seq + 1 /\ u \in 1..MaxUser /\ users[u] = "absent"
            /\ users' = [users EXCEPT ![u] = "member"] /\ seq' = u
            /\ identities' = [identities EXCEPT ![i] = u]
            /\ tenants' = tenants \cup {u}
        BY <2>3 DEF Register, NewId, StoreInv, TypeOK, AccountsAssumption
      <3>2. Monotone
        BY <2>3, <3>1, <1>1, <1>2, <1>3
        DEF Monotone, sess, TypeOK, Owners, Speaks, Signers, AccountsAssumption
      <3>3. StoreInv'
        BY <2>3, <3>1, <1>1, <1>3
        DEF StoreInv, AccountsWhole, NoConnectionOfStranger, Present, TypeOK
      <3>4. users' \in [1..MaxUser -> {"absent", "member", "owner"}]
        BY <3>1 DEF TypeOK
      <3>5. tenants' \subseteq 1..MaxUser
        BY <3>1 DEF TypeOK
      <3>6. seq' \in seq..MaxUser
        BY <3>1 DEF TypeOK, AccountsAssumption
      <3> QED BY <3>1, <3>2, <3>3, <3>4, <3>5, <3>6 DEF TypeOK, AccountsAssumption
    <2> QED BY <2>1, <2>2, <2>3 DEF Resolve
  <1>5. req'[p] = r /\ r \in Request_ /\ r.pc = "revoke" /\ r.who = i /\ r.user = u
        /\ r.old = req[p].old /\ r.sid = req[p].sid
        /\ r.began = req[p].began /\ r.browser = req[p].browser
    <2>1. u \in 0..MaxUser /\ i \in People
      BY <1>4 DEF People, AccountsAssumption
    <2>2. r \in Request_
      BY <1>2, <2>1 DEF Request_
    <2>3. r.pc = "revoke" /\ r.who = i /\ r.user = u
      BY <1>2 DEF Request_
    <2>4. r.old = req[p].old /\ r.sid = req[p].sid
      BY <1>2 DEF Request_
    <2>5. r.began = req[p].began /\ r.browser = req[p].browser
      BY <1>2 DEF Request_
    <2>6. req'[p] = r
      BY <1>1 DEF TypeOK
    <2> QED BY <2>2, <2>3, <2>4, <2>5, <2>6
  <1>6. TypeOK'
    BY <1>1, <1>4, <1>5 DEF TypeOK, sess, flow, AccountsAssumption
  <1>7. SessInv'
    BY <1>1, <1>4
    DEF SessInv, SessionServesItsPerson, Present, Speaks, OnlyInitiatingBrowser, TypeOK,
        sess, Monotone, AccountsAssumption
  <1>8. Holds(req[p])'
    <2> DEFINE o == req[p]
    <2>1. o.old <= nextSid' /\ o.sid <= nextSid' /\ o.began = o.browser
      BY <1>1, <1>2 DEF Holds, sess
    <2>2. u \in 1..seq' /\ i \in Signers /\ Owners' # {}
      BY <1>2, <1>4 DEF Signers, Monotone, TypeOK, AccountsAssumption
    <2>3. i # Password /\ identities'[i] = u
      BY <1>4 DEF TypeOK, AccountsAssumption
    <2>4. /\ r.pc = "revoke" /\ r.who = i /\ r.user = u /\ r.old = o.old
          /\ r.sid = o.sid /\ r.began = o.began /\ r.browser = o.browser
      BY <1>5
    <2>5. req'[p] = r
      BY <1>5
    <2> HIDE DEF u, r, o
    <2> QED BY <2>1, <2>2, <2>3, <2>4, <2>5 DEF Holds, Speaks
  <1>9. ReqInv'
    BY <1>1, <1>4, <1>8, OneMoves DEF TypeOK
  <1> QED BY <1>1, <1>4, <1>6, <1>7, <1>9, FlowKept

\* The session the request came with is dead from here on.
LEMMA RevokeOldKeeps ==
    ASSUME AccountsAssumption, AccountsInv, NEW p \in Procs, RevokeOld(p)
    PROVE  AccountsInv'
  <1> USE DEF AccountsInv
  <1> DEFINE r == [req[p] EXCEPT !.pc = "create"]
  <1>1. /\ UNCHANGED <<store, nextSid, login, flow, jar>> /\ req' = [req EXCEPT ![p] = r]
        /\ sessions' = [s \in 1..MaxSid |-> IF s = req[p].old THEN 0 ELSE sessions[s]]
        /\ req[p].pc = "revoke"
    BY DEF RevokeOld, Revoked, Without, Advance
  <1>2. req'[p] = r /\ r \in Request_ /\ Holds(req[p]) /\ r.pc = "create"
        /\ r.old = req[p].old /\ r.sid = req[p].sid /\ r.who = req[p].who
        /\ r.user = req[p].user /\ r.began = req[p].began /\ r.browser = req[p].browser
    <2>1. req[p] \in Request_ /\ Holds(req[p]) /\ req'[p] = r
      BY <1>1 DEF TypeOK, ReqInv
    <2>2. r \in Request_
      BY <2>1 DEF Request_
    <2>3. r.pc = "create" /\ r.old = req[p].old /\ r.sid = req[p].sid
      BY <2>1 DEF Request_
    <2>4. r.who = req[p].who /\ r.user = req[p].user
      BY <2>1 DEF Request_
    <2>5. r.began = req[p].began /\ r.browser = req[p].browser
      BY <2>1 DEF Request_
    <2> QED BY <2>1, <2>2, <2>3, <2>4, <2>5
  <1>3. TypeOK'
    BY <1>1, <1>2 DEF TypeOK, store, flow
  <1>4. Monotone
    BY <1>1, SameAccounts DEF store, TypeOK, AccountsAssumption
  <1>5. SessInv'
    BY <1>1
    DEF SessInv, Owners, store, SessionServesItsPerson, Present, Speaks, OnlyInitiatingBrowser,
        TypeOK
  <1>6. Holds(req[p])'
    <2> DEFINE o == req[p]
    <2>1. ~(o.old # 0 /\ sessions'[o.old] # 0)
      <3>1. o.old \in 0..MaxSid
        BY <1>1 DEF TypeOK, Request_
      <3> QED BY <1>1, <3>1 DEF AccountsAssumption
    <2>2. Owners' = Owners /\ UNCHANGED <<users, identities, seq, nextSid>>
      BY <1>1 DEF store, Owners
    <2>3. Holds(o) /\ o.pc = "revoke"
      BY <1>1, <1>2
    <2> HIDE DEF r
    <2> QED BY <1>2, <2>1, <2>2, <2>3 DEF Holds, Resolves, Speaks
  <1>7. ReqInv'
    BY <1>1, <1>4, <1>6, OneMoves DEF TypeOK
  <1> QED BY <1>1, <1>3, <1>5, <1>7, StoreKept, FlowKept

\* The new session has a number of its own.
LEMMA CreateSessionKeeps ==
    ASSUME AccountsAssumption, AccountsInv, NEW p \in Procs, CreateSession(p)
    PROVE  AccountsInv'
  <1> USE DEF AccountsInv
  <1> DEFINE n == nextSid + 1
             r == [req[p] EXCEPT !.pc = "reply", !.sid = n]
  <1>1. /\ UNCHANGED <<store, flow, jar>> /\ req' = [req EXCEPT ![p] = r]
        /\ req[p].pc = "create" /\ n \in 1..MaxSid /\ nextSid' = n
        /\ sessions' = [sessions EXCEPT ![n] = req[p].user]
        /\ login' = [login EXCEPT ![n] = [who |-> req[p].who, began |-> req[p].began]]
    BY DEF CreateSession, Advance, TypeOK, AccountsAssumption
  <1>2. req'[p] = r /\ r \in Request_ /\ Holds(req[p]) /\ req[p] \in Request_
        /\ r.pc = "reply" /\ r.old = req[p].old /\ r.sid = n
        /\ r.browser = req[p].browser
    <2>1. req[p] \in Request_ /\ Holds(req[p]) /\ n \in 0..MaxSid /\ req'[p] = r
      BY <1>1 DEF TypeOK, ReqInv, AccountsAssumption
    <2>2. r \in Request_
      BY <2>1 DEF Request_
    <2>3. r.pc = "reply" /\ r.old = req[p].old
      BY <2>1 DEF Request_
    <2>4. r.sid = n /\ r.browser = req[p].browser
      BY <2>1 DEF Request_
    <2> QED BY <2>1, <2>2, <2>3, <2>4
  <1>3. TypeOK'
    BY <1>1, <1>2 DEF TypeOK, store, flow, Request_, AccountsAssumption
  <1>4. Monotone
    <2>1. nextSid' \in Nat /\ nextSid <= nextSid'
          /\ \A s \in 1..nextSid : login'[s] = login[s] /\ sessions'[s] = sessions[s]
      BY <1>1 DEF TypeOK, AccountsAssumption
    <2> QED BY <1>1, <2>1, SameAccounts DEF store
  <1>5. SessInv'
    <2> DEFINE o == req[p]
    <2>1. /\ o.user \in 1..seq /\ o.who \in Signers
          /\ users[o.user] # "absent" => Speaks(o.who, o.user)
          /\ seq \in Nat /\ Owners # {}
      BY <1>1, <1>2 DEF Holds, TypeOK, AccountsAssumption
    <2>2. \A s \in 1..MaxSid : s # n => sessions'[s] = sessions[s] /\ login'[s] = login[s]
      BY <1>1 DEF TypeOK
    <2>3. sessions'[n] = o.user /\ login'[n].who = o.who
      BY <1>1 DEF TypeOK
    <2>4. \A s \in 1..MaxSid : s > nextSid' => sessions'[s] = 0
      BY <1>1, <2>2 DEF SessInv, TypeOK, AccountsAssumption
    <2>5. \A s \in 1..MaxSid : sessions'[s] # 0 =>
            sessions'[s] <= seq /\ login'[s].who \in Signers
      BY <2>1, <2>2, <2>3 DEF SessInv
    <2>6. SessionServesItsPerson'
      <3>1. ASSUME NEW s \in 1..MaxSid, sessions'[s] \in Present'
            PROVE  Speaks(login[s].who, sessions[s])'
        <4>1. CASE s = n
          BY <1>1, <2>1, <2>3, <3>1, <4>1 DEF Present, Speaks, store
        <4>2. CASE s # n
          BY <1>1, <2>2, <3>1, <4>2 DEF SessInv, SessionServesItsPerson, Present, Speaks, store
        <4> QED BY <4>1, <4>2
      <3> QED BY <3>1 DEF SessionServesItsPerson
    <2>7. \A b \in Browsers : jar'[b] <= nextSid'
      BY <1>1 DEF SessInv, TypeOK, AccountsAssumption
    <2>8. OnlyInitiatingBrowser'
      <3>1. ASSUME NEW b \in Browsers PROVE jar[b] # n /\ jar[b] \in 0..MaxSid
        <4>1. jar[b] \in 0..MaxSid /\ nextSid \in Nat /\ MaxSid \in Nat
          BY DEF TypeOK, AccountsAssumption
        <4>2. jar[b] <= nextSid
          BY DEF SessInv
        <4> QED BY <4>1, <4>2
      <3>2. \A b \in Browsers : jar[b] # 0 => login'[jar[b]] = login[jar[b]]
        BY <2>2, <3>1 DEF AccountsAssumption
      <3> QED BY <1>1, <3>2 DEF SessInv, OnlyInitiatingBrowser
    <2> QED BY <1>1, <2>1, <2>4, <2>5, <2>6, <2>7, <2>8 DEF SessInv, Owners, store
  <1>6. Holds(req[p])'
    <2> DEFINE o == req[p]
    <2>1. /\ o.old \in 0..nextSid /\ Owners # {} /\ ~Resolves(o.old)
          /\ o.who \in Identities => o.began = o.browser
      BY <1>1, <1>2 DEF Holds, TypeOK, Request_, AccountsAssumption
    <2>2. o.old <= nextSid' /\ ~(o.old # 0 /\ sessions'[o.old] # 0)
      BY <1>1, <2>1 DEF Resolves, TypeOK, AccountsAssumption
    <2>3. login'[n].who \in Identities => login'[n].began = o.browser
      BY <1>1, <2>1 DEF TypeOK
    <2>4. Owners' # {} /\ n <= nextSid'
      BY <1>1, <2>1 DEF Owners, store, TypeOK, AccountsAssumption
    <2> HIDE DEF r
    <2> QED BY <1>2, <2>2, <2>3, <2>4 DEF Holds, Resolves
  <1>7. ReqInv'
    BY <1>1, <1>4, <1>6, OneMoves DEF TypeOK
  <1> QED BY <1>1, <1>3, <1>5, <1>7, StoreKept, FlowKept

\* A cookie set by a reply is one its browser asked for.
LEMMA ReplyKeeps ==
    ASSUME AccountsAssumption, AccountsInv, NEW p \in Procs, Reply(p)
    PROVE  AccountsInv'
  <1> USE DEF AccountsInv
  <1>1. /\ UNCHANGED <<store, sess, flow>> /\ req' = [req EXCEPT ![p] = Idle]
        /\ jar' = [jar EXCEPT ![req[p].browser] = req[p].sid] /\ req[p].pc = "reply"
    BY DEF Reply, Advance
  <1>2. Holds(req[p]) /\ req[p] \in Request_
    BY DEF TypeOK, ReqInv
  <1>3. Idle \in Request_
    BY DEF Idle, Request_, People, AccountsAssumption
  <1>4. TypeOK'
    BY <1>1, <1>2, <1>3 DEF TypeOK, store, sess, flow, Request_
  <1>5. SessInv'
    <2>1. \A b \in Browsers : jar'[b] <= nextSid'
      BY <1>1, <1>2 DEF SessInv, sess, TypeOK, Holds
    <2>2. OnlyInitiatingBrowser'
      BY <1>1, <1>2 DEF SessInv, sess, TypeOK, Holds, OnlyInitiatingBrowser
    <2> QED BY <1>1, <2>1, <2>2
            DEF SessInv, Owners, store, sess, SessionServesItsPerson, Present, Speaks
  <1>6. Holds(req[p])'
    BY <1>1 DEF Holds, Idle, TypeOK, sess, AccountsAssumption
  <1>7. ReqInv'
    BY <1>1, <1>6, OneMoves, SameTables DEF TypeOK, store, sess
  <1> QED BY <1>1, <1>4, <1>5, <1>7, StoreKept, FlowKept

\* A logout ends the session its request resolved.
LEMMA LogoutKeeps ==
    ASSUME AccountsAssumption, AccountsInv, NEW p \in Procs, NEW b \in Browsers, Logout(p, b)
    PROVE  AccountsInv'
  <1> USE DEF AccountsInv
  <1> DEFINE r == [Idle EXCEPT !.pc = "reply", !.browser = b, !.old = jar[b]]
  <1>1. /\ UNCHANGED <<store, nextSid, login, flow, jar>> /\ jar[b] # 0
        /\ sessions' = [s \in 1..MaxSid |-> IF s = jar[b] THEN 0 ELSE sessions[s]]
        /\ sessions[jar[b]] # 0
    BY DEF Logout, Resolves, Without
  <1>2. req' = [req EXCEPT ![p] = r]
    BY DEF Logout, Advance
  <1>3. r \in Request_ /\ req'[p] = r /\ r.pc = "reply" /\ r.old = jar[b] /\ r.sid = 0
    <2>1. Idle \in Request_ /\ jar[b] \in 0..MaxSid
      BY DEF Idle, Request_, People, TypeOK, AccountsAssumption
    <2>2. r \in Request_
      BY <2>1 DEF Request_
    <2> QED BY <1>2, <2>2 DEF TypeOK, Idle
  <1>4. Owners # {}
    BY <1>1 DEF SessInv, TypeOK, AccountsAssumption
  <1> HIDE DEF r
  <1>5. TypeOK'
    <2>1. sessions' \in [1..MaxSid -> 0..MaxUser]
      BY <1>1 DEF TypeOK, AccountsAssumption
    <2>2. req' \in [Procs -> Request_]
      BY <1>2, <1>3 DEF TypeOK
    <2> QED BY <1>1, <2>1, <2>2 DEF TypeOK, store, flow
  <1>6. SessInv'
    BY <1>1
    DEF SessInv, Owners, store, SessionServesItsPerson, Present, Speaks, OnlyInitiatingBrowser,
        TypeOK
  <1>7. Monotone
    <2>1. \A s \in 1..nextSid : sessions[s] = 0 => sessions'[s] = 0
      BY <1>1 DEF TypeOK, AccountsAssumption
    <2>2. nextSid \in Nat
      BY DEF TypeOK, AccountsAssumption
    <2> QED BY <1>1, <2>1, <2>2, SameAccounts DEF store
  <1>8. Holds(req[p])'
    BY <1>1, <1>3, <1>4
    DEF Holds, store, Resolves, Owners, SessInv, TypeOK, AccountsAssumption
  <1>9. ReqInv'
    BY <1>2, <1>7, <1>8, OneMoves DEF TypeOK
  <1> QED BY <1>1, <1>5, <1>6, <1>9, StoreKept, FlowKept

\* A request that comes in remembers the account of its session.
LEMMA EnterKeeps ==
    ASSUME AccountsAssumption, AccountsInv, NEW p \in Procs, NEW b \in Browsers, Enter(p, b)
    PROVE  AccountsInv'
  <1> USE DEF AccountsInv
  <1> DEFINE r == [Idle EXCEPT !.pc = "reserve", !.browser = b, !.sid = jar[b],
                               !.user = sessions[jar[b]]]
  <1>1. UNCHANGED <<store, sess, flow, jar>> /\ jar[b] # 0 /\ sessions[jar[b]] # 0
    BY DEF Enter, Resolves
  <1>2. req' = [req EXCEPT ![p] = r]
    BY DEF Enter, Advance
  <1>3. jar[b] \in 1..nextSid /\ jar[b] \in 1..MaxSid /\ sessions[jar[b]] \in 1..seq
        /\ sessions[jar[b]] \in 0..MaxUser /\ Owners # {}
    BY <1>1 DEF SessInv, TypeOK, AccountsAssumption
  <1>4. r \in Request_ /\ req'[p] = r /\ r.pc = "reserve" /\ r.old = 0 /\ r.sid = jar[b]
        /\ r.user = sessions[jar[b]]
    <2>1. Idle \in Request_ /\ jar[b] \in 0..MaxSid
      BY DEF Idle, Request_, People, TypeOK, AccountsAssumption
    <2>2. r \in Request_
      BY <1>3, <2>1 DEF Request_
    <2> QED BY <1>2, <2>2 DEF TypeOK, Idle
  <1> HIDE DEF r
  <1>5. TypeOK'
    BY <1>1, <1>2, <1>4 DEF TypeOK, store, sess, flow
  <1>6. Holds(req[p])'
    BY <1>1, <1>3, <1>4 DEF Holds, store, sess, Owners, TypeOK, AccountsAssumption
  <1>7. ReqInv'
    BY <1>1, <1>2, <1>6, OneMoves, SameTables DEF TypeOK, store, sess
  <1> QED BY <1>1, <1>5, <1>7, StoreKept, SessKept, FlowKept DEF store

\* The attempt is counted for whoever the request remembers.
LEMMA ReserveKeeps ==
    ASSUME AccountsAssumption, AccountsInv, NEW p \in Procs, Reserve(p)
    PROVE  AccountsInv'
  <1> USE DEF AccountsInv
  <1> DEFINE r == [req[p] EXCEPT !.pc = "submit"]
  <1>1. /\ UNCHANGED <<users, seq, identities, tenants, connected, sess, flow, jar>>
        /\ throttled' = throttled \cup {req[p].user} /\ req' = [req EXCEPT ![p] = r]
        /\ req[p].pc = "reserve"
    BY DEF Reserve, Advance
  <1>2. req'[p] = r /\ r \in Request_ /\ Holds(req[p]) /\ r.pc = "submit"
        /\ r.old = req[p].old /\ r.sid = req[p].sid /\ r.user = req[p].user
    <2>1. req[p] \in Request_ /\ Holds(req[p]) /\ req'[p] = r
      BY <1>1 DEF TypeOK, ReqInv
    <2>2. r \in Request_
      BY <2>1 DEF Request_
    <2>3. r.pc = "submit" /\ r.old = req[p].old
      BY <2>1 DEF Request_
    <2>4. r.sid = req[p].sid /\ r.user = req[p].user
      BY <2>1 DEF Request_
    <2> QED BY <2>1, <2>2, <2>3, <2>4
  <1>3. req[p].user \in 1..MaxUser
    BY <1>1, <1>2 DEF Holds, TypeOK, AccountsAssumption
  <1>4. TypeOK'
    BY <1>1, <1>2, <1>3 DEF TypeOK, sess, flow
  <1>5. StoreInv'
    BY <1>1 DEF StoreInv, AccountsWhole, NoConnectionOfStranger, Present
  <1>6. Holds(req[p])'
    BY <1>1, <1>2 DEF Holds, sess, Owners
  <1>7. ReqInv'
    BY <1>1, <1>6, OneMoves, SameTables DEF TypeOK, sess
  <1> QED BY <1>1, <1>4, <1>5, <1>7, SessKept, FlowKept

\* A token is stored only for an account that is still there.
LEMMA SubmitKeeps ==
    ASSUME AccountsAssumption, AccountsInv, NEW p \in Procs, Submit(p)
    PROVE  AccountsInv'
  <1> USE DEF AccountsInv
  <1>1. /\ UNCHANGED <<users, seq, identities, tenants, throttled, sess, flow, jar>>
        /\ req' = [req EXCEPT ![p] = Idle] /\ req[p].pc = "submit"
        /\ connected' = IF KnownUser(p) THEN connected \cup {req[p].user} ELSE connected
    BY DEF Submit, Advance
  <1>2. req[p].user \in 1..MaxUser
    BY <1>1 DEF ReqInv, Holds, TypeOK, AccountsAssumption
  <1>3. Idle \in Request_
    BY DEF Idle, Request_, People, AccountsAssumption
  <1>4. TypeOK'
    BY <1>1, <1>2, <1>3 DEF TypeOK, sess, flow
  <1>5. StoreInv'
    <2>1. NoConnectionOfStranger'
      BY <1>1, <1>2 DEF StoreInv, NoConnectionOfStranger, Present, KnownUser
    <2> QED BY <1>1, <2>1 DEF StoreInv, AccountsWhole, Present
  <1>6. Holds(req[p])'
    BY <1>1 DEF Holds, Idle, TypeOK, sess, AccountsAssumption
  <1>7. ReqInv'
    BY <1>1, <1>6, OneMoves, SameTables DEF TypeOK, sess
  <1> QED BY <1>1, <1>4, <1>5, <1>7, SessKept, FlowKept

\* An account goes with everything that leads to it, and its id is not given
\* again.
LEMMA DeleteUserKeeps ==
    ASSUME AccountsAssumption, AccountsInv, NEW u \in 1..MaxUser, DeleteUser(u)
    PROVE  AccountsInv'
  <1> USE DEF AccountsInv
  <1>1. /\ UNCHANGED <<seq, nextSid, login, flow, jar, req>> /\ users[u] = "member"
        /\ users' = [users EXCEPT ![u] = "absent"]
        /\ identities' = [i \in Identities |-> IF identities[i] = u THEN 0 ELSE identities[i]]
        /\ tenants' = tenants \ {u} /\ throttled' = throttled \ {u}
        /\ connected' = connected \ {u}
        /\ sessions' = [s \in 1..MaxSid |-> IF sessions[s] = u THEN 0 ELSE sessions[s]]
    BY DEF DeleteUser, Deletable, IdentitiesOfOthers, SessionsOfOthers
  <1>2. TypeOK'
    <2>1. users' \in [1..MaxUser -> {"absent", "member", "owner"}]
      BY <1>1 DEF TypeOK
    <2>2. identities' \in [Identities -> 0..MaxUser]
      BY <1>1 DEF TypeOK, AccountsAssumption
    <2>3. sessions' \in [1..MaxSid -> 0..MaxUser]
      BY <1>1 DEF TypeOK, AccountsAssumption
    <2> QED BY <1>1, <2>1, <2>2, <2>3 DEF TypeOK, flow
  <1>3. StoreInv'
    BY <1>1 DEF StoreInv, AccountsWhole, NoConnectionOfStranger, Present, TypeOK,
                AccountsAssumption
  <1>4. Owners' = Owners
    BY <1>1 DEF Owners, TypeOK
  <1>5. SessInv'
    BY <1>1, <1>4
    DEF SessInv, SessionServesItsPerson, Present, Speaks, OnlyInitiatingBrowser, TypeOK,
        Signers, AccountsAssumption
  <1>6. Monotone
    BY <1>1, <1>4 DEF Monotone, Speaks, TypeOK, Signers, AccountsAssumption
  <1>7. ReqInv'
    BY <1>1, <1>6, OthersHold DEF ReqInv
  <1> QED BY <1>1, <1>2, <1>3, <1>5, <1>7, FlowKept

\* A session ends of itself.
LEMMA SessionExpiresKeeps ==
    ASSUME AccountsAssumption, AccountsInv, NEW s \in 1..MaxSid, SessionExpires(s)
    PROVE  AccountsInv'
  <1> USE DEF AccountsInv
  <1>1. /\ UNCHANGED <<store, nextSid, login, flow, jar, req>>
        /\ sessions' = [x \in 1..MaxSid |-> IF x = s THEN 0 ELSE sessions[x]]
    BY DEF SessionExpires, Without
  <1>2. TypeOK'
    <2>1. sessions' \in [1..MaxSid -> 0..MaxUser]
      BY <1>1 DEF TypeOK, AccountsAssumption
    <2> QED BY <1>1, <2>1 DEF TypeOK, store, flow
  <1>3. SessInv'
    BY <1>1
    DEF SessInv, Owners, store, SessionServesItsPerson, Present, Speaks,
        OnlyInitiatingBrowser, TypeOK
  <1>4. Monotone
    <2>1. \A x \in 1..nextSid : sessions[x] = 0 => sessions'[x] = 0
      BY <1>1 DEF TypeOK, AccountsAssumption
    <2>2. nextSid \in Nat
      BY DEF TypeOK, AccountsAssumption
    <2> QED BY <1>1, <2>1, <2>2, SameAccounts DEF store
  <1>5. ReqInv'
    BY <1>1, <1>4, OthersHold DEF ReqInv
  <1> QED BY <1>1, <1>2, <1>3, <1>5, StoreKept, FlowKept

\* A state ends of itself.
LEMMA StateExpiresKeeps ==
    ASSUME AccountsAssumption, AccountsInv, NEW s \in 1..MaxState, StateExpires(s)
    PROVE  AccountsInv'
  <1> USE DEF AccountsInv
  <1>1. UNCHANGED <<store, sess, nextState, passed, jar, req>>
        /\ states' = [states EXCEPT ![s] = NoState]
    BY DEF StateExpires, Taken
  <1>2. TypeOK'
    BY <1>1 DEF TypeOK, store, sess, NoState
  <1>3. FlowInv'
    BY <1>1 DEF FlowInv, StateUsedOnce, TypeOK, NoState
  <1>4. ReqInv'
    BY <1>1, OthersHold, SameTables DEF ReqInv, store, sess
  <1> QED BY <1>1, <1>2, <1>3, <1>4, StoreKept, SessKept DEF store

\* The first start, of an empty database or of one of an earlier release.
LEMMA InitHolds == ASSUME AccountsAssumption, Init PROVE AccountsInv
  <1>1. TypeOK
    <2>1. req \in [Procs -> Request_]
      <3>1. Idle \in Request_
        BY DEF Idle, Request_, People, AccountsAssumption
      <3> QED BY <3>1 DEF Init
    <2>2. users \in [1..MaxUser -> {"absent", "member", "owner"}] /\ seq \in 0..MaxUser
      BY DEF Init, AccountsAssumption
    <2>8. identities \in [Identities -> 0..MaxUser] /\ tenants \subseteq 1..MaxUser
      BY DEF Init, AccountsAssumption
    <2>3. states \in [1..MaxState -> [provider: Providers \cup {None},
                                      client: Browsers \cup {None}]]
      BY DEF Init, NoState
    <2>4. login \in [1..MaxSid -> [who: People, began: Browsers \cup {None}]]
      BY DEF Init, People
    <2>5. throttled \subseteq 1..MaxUser /\ connected \subseteq 1..MaxUser
      BY DEF Init
    <2>6. sessions \in [1..MaxSid -> 0..MaxUser] /\ nextSid \in 0..MaxSid
          /\ jar \in [Browsers -> 0..MaxSid]
      BY DEF Init, AccountsAssumption
    <2>7. nextState \in 0..MaxState /\ passed \in [1..MaxState -> Nat]
      BY DEF Init, AccountsAssumption
    <2> QED BY <2>1, <2>2, <2>3, <2>4, <2>5, <2>6, <2>7, <2>8
        DEF TypeOK
  <1>2. StoreInv
    <2>1. connected = {}
      BY DEF Init
    <2>2. CASE /\ users = [u \in 1..MaxUser |-> "absent"] /\ tenants = {}
               /\ identities = [i \in Identities |-> 0]
      BY <2>1, <2>2 DEF StoreInv, AccountsWhole, NoConnectionOfStranger, Present
    <2>3. ASSUME NEW i \in Identities, MaxUser > 0, seq = 1, tenants = {1},
                 users = [u \in 1..MaxUser |-> IF u = 1 THEN "member" ELSE "absent"],
                 identities = [j \in Identities |-> IF j = i THEN 1 ELSE 0]
          PROVE  StoreInv
      <3>1. Present = {1} /\ 1 \in 1..MaxUser
        BY <2>3 DEF Present, AccountsAssumption
      <3>2. \A u \in 1..MaxUser : users[u] = "member" => u = 1
        BY <2>3
      <3>3. \A j \in Identities : identities[j] = IF j = i THEN 1 ELSE 0
        BY <2>3
      <3>4. \A u \in 1..MaxUser : u > seq => users[u] = "absent"
        BY <2>3
      <3> QED BY <2>1, <2>3, <3>1, <3>2, <3>3, <3>4
              DEF StoreInv, AccountsWhole, NoConnectionOfStranger
    <2> QED BY <2>2, <2>3 DEF Init
  <1>3. SessInv
    BY DEF Init, SessInv, SessionServesItsPerson, Present, OnlyInitiatingBrowser,
           AccountsAssumption
  <1>4. FlowInv
    BY DEF Init, FlowInv, StateUsedOnce
  <1>5. ReqInv
    BY DEF Init, ReqInv, Holds, Idle, AccountsAssumption
  <1> QED BY <1>1, <1>2, <1>3, <1>4, <1>5 DEF AccountsInv

\* Every step keeps the invariant.
LEMMA StepKeeps ==
    ASSUME AccountsAssumption, AccountsInv, [Next]_vars PROVE AccountsInv'
  <1>1. CASE UNCHANGED vars
    <2>1. UNCHANGED <<store, sess, flow, jar, req>>
      BY <1>1 DEF vars
    <2>2. TypeOK'
      BY <2>1 DEF AccountsInv, TypeOK, store, sess, flow
    <2>3. ReqInv'
      BY <2>1, OthersHold, SameTables DEF AccountsInv, ReqInv, store, sess
    <2> QED BY <2>1, <2>2, <2>3, StoreKept, SessKept, FlowKept DEF AccountsInv, store
  <1>2. ASSUME NEW p \in Procs, Request(p) PROVE AccountsInv'
    <2>1. ASSUME NEW b \in Browsers, LoginAccepted(p, b) \/ Logout(p, b) \/ Enter(p, b)
          PROVE  AccountsInv'
      BY <2>1, LoginAcceptedKeeps, LogoutKeeps, EnterKeeps
    <2>2. ASSUME NEW i \in Identities, Resolve(p, i) PROVE AccountsInv'
      BY <2>2, ResolveKeeps
    <2>3. ASSUME ExchangeFails(p) \/ ReplyLost(p) \/ \E i \in Identities : Refuse(p, i)
          PROVE  AccountsInv'
      BY <2>3, EndsKeeps DEF ExchangeFails, ReplyLost, Refuse
    <2>4. ASSUME RevokeOld(p) \/ CreateSession(p) \/ Reply(p) PROVE AccountsInv'
      BY <2>4, RevokeOldKeeps, CreateSessionKeeps, ReplyKeeps
    <2>5. ASSUME Reserve(p) \/ Submit(p) PROVE AccountsInv'
      BY <2>5, ReserveKeeps, SubmitKeeps
    <2>6. ASSUME NEW b \in Browsers, NEW v \in Providers, NEW s \in 1..MaxState,
                 NEW code \in BOOLEAN, CallbackTake(p, b, v, s, code)
          PROVE  AccountsInv'
      BY <2>6, CallbackTakeKeeps
    <2> QED BY <1>2, <2>1, <2>2, <2>3, <2>4, <2>5, <2>6 DEF Request
  <1>3. ASSUME NEW b \in Browsers, NEW v \in Providers, OAuthStart(b, v) PROVE AccountsInv'
    BY <1>3, OAuthStartKeeps
  <1>4. ASSUME NEW u \in 1..MaxUser, DeleteUser(u) PROVE AccountsInv'
    BY <1>4, DeleteUserKeeps
  <1>5. ASSUME NEW s \in 1..MaxSid, SessionExpires(s) PROVE AccountsInv'
    BY <1>5, SessionExpiresKeeps
  <1>6. ASSUME NEW s \in 1..MaxState, StateExpires(s) PROVE AccountsInv'
    BY <1>6, StateExpiresKeeps
  <1> QED BY <1>1, <1>2, <1>3, <1>4, <1>5, <1>6, EnsureOwnerKeeps DEF Next

-----------------------------------------------------------------------------
(* Theorems.                                                               *)

\* The invariant holds in every state the program reaches.
THEOREM AccountsInvariant == Spec => []AccountsInv
  <1>1. Init => AccountsInv
    BY InitHolds, AccountsAssumption
  <1>2. AccountsInv /\ [Next]_vars => AccountsInv'
    BY StepKeeps, AccountsAssumption
  <1> QED BY <1>1, <1>2, PTL DEF Spec

\* No session serves anybody but the person who signed in, whatever is purged,
\* registered anew or linked in between (create_session, delete_user).
THEOREM SessionsServeTheirPerson == Spec => []SessionServesItsPerson
  <1>1. AccountsInv => SessionServesItsPerson
    BY DEF AccountsInv, SessInv
  <1> QED BY <1>1, AccountsInvariant, PTL

\* A state is exchanged at most once, and its session reaches only the browser
\* that began the sign-in (take_oauth_state, finish).
THEOREM SignInIsBound == Spec => []SignInBound
  <1>1. AccountsInv => SignInBound
    BY DEF AccountsInv, SessInv, FlowInv, SignInBound
  <1> QED BY <1>1, AccountsInvariant, PTL

\* The session a sign-in came with is dead when it answers (rotation).
THEOREM OldSessionIsOut == Spec => []RotatedOut
  <1>1. AccountsInv => RotatedOut
    BY DEF AccountsInv, ReqInv, Holds, RotatedOut
  <1> QED BY <1>1, AccountsInvariant, PTL

\* Accounts, identities and tenants fit together (register_or_link_identity,
\* delete_user).
THEOREM AccountsAreWhole == Spec => []AccountsWhole
  <1>1. AccountsInv => AccountsWhole
    BY DEF AccountsInv, StoreInv
  <1> QED BY <1>1, AccountsInvariant, PTL

\* No token is stored for an account that is gone (submit_connection).
THEOREM StrangersStoreNothing == Spec => []NoConnectionOfStranger
  <1>1. AccountsInv => NoConnectionOfStranger
    BY DEF AccountsInv, StoreInv
  <1> QED BY <1>1, AccountsInvariant, PTL

\* The one administrator stays (ensure_owner_user, delete_user).
THEOREM OwnerStays == Spec => OwnerForever
  <1>1. AccountsInv /\ [Next]_vars => [Owners # {} => Owners' = Owners]_vars
    <2> SUFFICES ASSUME AccountsInv, Next, Owners # {} PROVE Owners' = Owners
      OBVIOUS
    <2>1. CASE UNCHANGED users
      BY <2>1 DEF Owners
    <2>2. CASE \E u \in 1..MaxUser : DeleteUser(u)
      BY <2>2 DEF DeleteUser, Deletable, Owners, AccountsInv, TypeOK
    <2>3. CASE \E p \in Procs, i \in Identities : Resolve(p, i) /\ Register(i)
      <3>1. NewId \in 1..MaxUser /\ users[NewId] = "absent"
            /\ users' = [users EXCEPT ![NewId] = "member"]
        BY <2>3, AccountsAssumption
        DEF Register, NewId, AccountsInv, StoreInv, TypeOK, AccountsAssumption
      <3> QED BY <3>1 DEF Owners, AccountsInv, TypeOK
    <2>4. ASSUME NEW p \in Procs, Request(p)
          PROVE  UNCHANGED users \/ \E i \in Identities : Resolve(p, i) /\ Register(i)
      <3>1. CASE \E i \in Identities : Resolve(p, i)
        BY <3>1 DEF Resolve
      <3>2. CASE \E b \in Browsers : LoginAccepted(p, b) \/ Logout(p, b) \/ Enter(p, b)
        BY <3>2 DEF LoginAccepted, Logout, Enter, store
      <3>3. CASE \E b \in Browsers, v \in Providers, s \in 1..MaxState, code \in BOOLEAN :
                   CallbackTake(p, b, v, s, code)
        BY <3>3 DEF CallbackTake, store
      <3>4. CASE \/ ExchangeFails(p) \/ ReplyLost(p) \/ RevokeOld(p) \/ CreateSession(p)
                 \/ Reply(p) \/ Reserve(p) \/ Submit(p)
                 \/ \E i \in Identities : Refuse(p, i)
        BY <3>4 DEF ExchangeFails, ReplyLost, RevokeOld, CreateSession, Reply, Reserve,
                    Submit, Refuse, store
      <3> QED BY <2>4, <3>1, <3>2, <3>3, <3>4 DEF Request
    <2>5. CASE \/ \E b \in Browsers, v \in Providers : OAuthStart(b, v)
               \/ \E s \in 1..MaxSid : SessionExpires(s)
               \/ \E s \in 1..MaxState : StateExpires(s)
      BY <2>5, <2>1 DEF OAuthStart, SessionExpires, StateExpires, store
    <2>6. ~EnsureOwner
      BY DEF EnsureOwner
    <2>7. CASE \E p \in Procs : Request(p)
      BY <2>7, <2>1, <2>3, <2>4
    <2> QED BY <2>2, <2>5, <2>6, <2>7 DEF Next
  <1> QED BY <1>1, AccountsInvariant, PTL DEF Spec, OwnerForever
=============================================================================
