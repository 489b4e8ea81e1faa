------------------------------ MODULE Accounts ------------------------------
(***************************************************************************)
(* Accounts, sessions and provider sign-in of the public web application   *)
(* (security.py, oauth.py and the routes of wsgi.py that use them).        *)
(*                                                                         *)
(* Every method of SecurityStore is one transaction on security.db, so one *)
(* action; a request is several of them, and requests of several browsers, *)
(* of the operator and of the clock interleave between them.  A browser is *)
(* its cookie jar: the opaque session token, and the client token that     *)
(* binds a provider sign-in to the browser that began it (modelled by the  *)
(* browser's own name).  An id 0 stands for no row.  A session or state    *)
(* row whose time is over is modelled as gone: every reader filters on the *)
(* time, and the next insert purges it.                                    *)
(***************************************************************************)
EXTENDS Naturals

CONSTANTS Browsers,      \* cookie jars
          Procs,         \* requests being served at a time
          Identities,    \* external identities, each a (provider, subject) pair
          Providers,     \* configured OAuth providers
          ProviderOf,    \* the provider an identity belongs to
          EmailOf,       \* the verified address its provider reports, or NoEmail
          AdminEmail,    \* AISTAT_ADMIN_EMAIL
          Allowed,       \* AISTAT_OAUTH_ALLOWED_EMAILS; empty means open
          NoEmail,       \* an absent, malformed or unverified address
          None,          \* an absent cookie, identity or provider
          MaxUser, MaxSid, MaxState  \* bounds on the ids handed out

\* What the sign-in page offers: the password form is the owner's.
Password == "password"

ASSUME AccountsAssumption ==
    /\ ProviderOf \in [Identities -> Providers]
    /\ AdminEmail # NoEmail
    /\ None \notin Browsers /\ None \notin Identities /\ None \notin Providers
    /\ Password \notin Identities
    /\ MaxUser \in Nat /\ MaxSid \in Nat /\ MaxState \in Nat

VARIABLES
    users,       \* id -> "absent", "member" or "owner": the users table
    seq,         \* sqlite_sequence of users: the largest id ever given
    identities,  \* identity -> user id: the oauth_identities table
    tenants,     \* ids with a row in tenants
    throttled,   \* ids with a row in connection_throttle
    connected,   \* ids with a live row in connections
    sessions,    \* sid -> user id: the sessions table
    nextSid,     \* session tokens drawn so far
    states,      \* state -> [provider, client]: the oauth_state table
    nextState,   \* state values drawn so far
    jar,         \* browser -> session cookie
    req,         \* request -> what its handler has read so far
    login,       \* history: sid -> [who, began]: the person and the browser
                 \* that began the provider sign-in
    passed       \* history: state -> callbacks that got past its checks

store == <<users, seq, identities, tenants, throttled, connected>>
sess == <<sessions, nextSid, login>>
flow == <<states, nextState, passed>>
vars == <<store, sess, flow, jar, req>>

Idle == [pc |-> "idle", browser |-> None, old |-> 0, who |-> None,
         provider |-> None, began |-> None, user |-> 0, sid |-> 0]

Owners == {u \in 1..MaxUser : users[u] = "owner"}
NoState == [provider |-> None, client |-> None]

\* resolve_session: the row behind a cookie.
Resolves(sid) == sid # 0 /\ sessions[sid] # 0

(***************************************************************************)
(* The first start.  A security.db of an earlier release may hold one      *)
(* ordinary account with the administrator's address and no owner yet.     *)
(***************************************************************************)
Init ==
    /\ \/ /\ users = [u \in 1..MaxUser |-> "absent"] /\ seq = 0 /\ tenants = {}
          /\ identities = [i \in Identities |-> 0]
       \/ \E i \in Identities :
            /\ EmailOf[i] = AdminEmail
            /\ users = [u \in 1..MaxUser |-> IF u = 1 THEN "member" ELSE "absent"]
            /\ MaxUser > 0 /\ seq = 1 /\ tenants = {1}
            /\ identities = [j \in Identities |-> IF j = i THEN 1 ELSE 0]
    /\ throttled = {} /\ connected = {}
    /\ sessions = [s \in 1..MaxSid |-> 0] /\ nextSid = 0
    /\ login = [s \in 1..MaxSid |-> [who |-> None, began |-> None]]
    /\ states = [s \in 1..MaxState |-> NoState] /\ nextState = 0
    /\ passed = [s \in 1..MaxState |-> 0]
    /\ jar = [b \in Browsers |-> 0]
    /\ req = [p \in Procs |-> Idle]

LowestFreeId == CHOOSE u \in 1..MaxUser :
                  users[u] = "absent" /\ \A v \in 1..(u - 1) : users[v] # "absent"

\* The id of a new users row: INTEGER PRIMARY KEY AUTOINCREMENT.
NewId == seq + 1

\* ensure_owner_user, when no administrator exists: an account with the
\* administrator's address is promoted, otherwise the owner is inserted.
EnsureOwner ==
    /\ Owners = {}
    /\ \/ \E i \in Identities :
            /\ identities[i] # 0 /\ EmailOf[i] = AdminEmail
            /\ users' = [users EXCEPT ![identities[i]] = "owner"]
            /\ UNCHANGED seq
       \/ /\ \A i \in Identities : identities[i] # 0 => EmailOf[i] # AdminEmail
          /\ NewId <= MaxUser
          /\ users' = [users EXCEPT ![NewId] = "owner"]
          /\ seq' = NewId
    /\ UNCHANGED <<identities, tenants, throttled, connected, sess, flow, jar, req>>

Up == Owners # {}
TheOwner == CHOOSE u \in 1..MaxUser : users[u] = "owner"

Advance(p, r) == req' = [req EXCEPT ![p] = r]

-----------------------------------------------------------------------------
(* Password sign-in: the credentials were accepted (see LoginThrottle).    *)

LoginAccepted(p, b) ==
    /\ Up /\ req[p].pc = "idle"
    /\ Advance(p, [Idle EXCEPT !.pc = "revoke", !.browser = b, !.old = jar[b],
                               !.who = Password, !.user = TheOwner])
    /\ UNCHANGED <<store, sess, flow, jar>>

-----------------------------------------------------------------------------
(* Provider sign-in.                                                       *)

\* oauth_start: begin() stores a one-time state bound to the browser.
OAuthStart(b, v) ==
    /\ Up /\ nextState < MaxState
    /\ nextState' = nextState + 1
    /\ states' = [states EXCEPT ![nextState + 1] = [provider |-> v, client |-> b]]
    /\ UNCHANGED <<store, sess, passed, jar, req>>

TakenNotDeleted(s) == states

\* take_oauth_state deletes the row whatever becomes of the callback.
Taken(s) == [states EXCEPT ![s] = NoState]

TakenForAnyBrowser(s, b) == states[s] # NoState

\* The checks of finish() on the record it took: fresh, and begun by the
\* browser whose client token came with the callback.
Bound(s, b) == states[s].client = b

\* The record was minted for the provider of this callback path.
Minted(s, v) == states[s].provider = v

\* oauth_callback up to the exchange: the state is consumed first, then an
\* error, a missing code, a stale, foreign or unbound state ends the request.
CallbackTake(p, b, v, s, code) ==
    /\ Up /\ req[p].pc = "idle" /\ s <= nextState
    /\ states' = Taken(s)
    /\ IF code /\ Bound(s, b) /\ Minted(s, v)
         THEN /\ passed' = [passed EXCEPT ![s] = @ + 1]
              /\ Advance(p, [Idle EXCEPT !.pc = "exchange", !.browser = b,
                                         !.old = jar[b], !.provider = v,
                                         !.began = states[s].client])
         ELSE UNCHANGED <<passed, req>>
    /\ UNCHANGED <<store, sess, nextState, jar>>

\* The token or identity request failed, timed out or was unusable.
ExchangeFails(p) ==
    /\ req[p].pc = "exchange"
    /\ Advance(p, Idle)
    /\ UNCHANGED <<store, sess, flow, jar>>

\* A new users row, its identity and its empty tenant, in one transaction.
Register(i) ==
    /\ NewId <= MaxUser
    /\ users' = [users EXCEPT ![NewId] = "member"]
    /\ seq' = NewId
    /\ identities' = [identities EXCEPT ![i] = NewId]
    /\ tenants' = tenants \cup {NewId}

\* A new subject with the administrator's address joins the owner account.
LinksOwner(i) == identities[i] = 0 /\ EmailOf[i] = AdminEmail

\* The allow list gates the first sight of a subject only.
Admitted(i) == Allowed = {} \/ EmailOf[i] \in Allowed

\* exchange_code and fetch_identity name the person;
\* open_registration_identity and register_or_link_identity map the person to
\* an account, subject first.
Resolve(p, i) ==
    LET u == IF identities[i] # 0 THEN identities[i]
             ELSE IF LinksOwner(i) THEN TheOwner ELSE NewId IN
    /\ req[p].pc = "exchange" /\ ProviderOf[i] = req[p].provider
    /\ EmailOf[i] # NoEmail
    /\ \/ /\ identities[i] # 0
          /\ UNCHANGED <<users, seq, identities, tenants>>
       \/ /\ LinksOwner(i)
          /\ identities' = [identities EXCEPT ![i] = TheOwner]
          /\ UNCHANGED <<users, seq, tenants>>
       \/ /\ identities[i] = 0 /\ ~LinksOwner(i) /\ Admitted(i)
          /\ Register(i)
    /\ Advance(p, [req[p] EXCEPT !.pc = "revoke", !.who = i, !.user = u])
    /\ UNCHANGED <<throttled, connected, sess, flow, jar>>

\* The provider names somebody without a usable verified address, or to whom
\* registration is closed: nothing is written.
Refuse(p, i) ==
    /\ req[p].pc = "exchange" /\ ProviderOf[i] = req[p].provider
    /\ \/ EmailOf[i] = NoEmail
       \/ identities[i] = 0 /\ ~LinksOwner(i) /\ ~Admitted(i)
    /\ Advance(p, Idle)
    /\ UNCHANGED <<store, sess, flow, jar>>

-----------------------------------------------------------------------------
(* Both sign-ins rotate the session the request came with.                 *)

\* revoke_session: exactly the row behind the cookie.
Without(sid) == [s \in 1..MaxSid |-> IF s = sid THEN 0 ELSE sessions[s]]

RotatesNothing(p) == sessions

Revoked(p) == Without(req[p].old)

RevokeOld(p) ==
    /\ req[p].pc = "revoke"
    /\ sessions' = Revoked(p)
    /\ Advance(p, [req[p] EXCEPT !.pc = "create"])
    /\ UNCHANGED <<store, nextSid, login, flow, jar>>

\* create_session does not look at the users table again.
CreateSession(p) ==
    /\ req[p].pc = "create" /\ nextSid < MaxSid
    /\ nextSid' = nextSid + 1
    /\ sessions' = [sessions EXCEPT ![nextSid + 1] = req[p].user]
    /\ login' = [login EXCEPT ![nextSid + 1] =
                   [who |-> req[p].who, began |-> req[p].began]]
    /\ Advance(p, [req[p] EXCEPT !.pc = "reply", !.sid = nextSid + 1])
    /\ UNCHANGED <<store, flow, jar>>

\* The response reaches the browser and sets (or, after a logout, clears) the
\* cookie; responses to one browser may arrive in any order.
Reply(p) ==
    /\ req[p].pc = "reply"
    /\ jar' = [jar EXCEPT ![req[p].browser] = req[p].sid]
    /\ Advance(p, Idle)
    /\ UNCHANGED <<store, sess, flow>>

\* The response is lost: the browser keeps its old cookie.
ReplyLost(p) ==
    /\ req[p].pc = "reply"
    /\ Advance(p, Idle)
    /\ UNCHANGED <<store, sess, flow, jar>>

\* logout: the CSRF secret is the resolved session's own.
Logout(p, b) ==
    /\ req[p].pc = "idle" /\ Resolves(jar[b])
    /\ sessions' = Without(jar[b])
    /\ Advance(p, [Idle EXCEPT !.pc = "reply", !.browser = b, !.old = jar[b]])
    /\ UNCHANGED <<store, nextSid, login, flow, jar>>

-----------------------------------------------------------------------------
(* A request that passed enforce_request_boundary: the session is resolved *)
(* once and kept for the whole request, whatever happens to it meanwhile.  *)

Enter(p, b) ==
    /\ req[p].pc = "idle" /\ Resolves(jar[b])
    /\ Advance(p, [Idle EXCEPT !.pc = "reserve", !.browser = b, !.sid = jar[b],
                               !.user = sessions[jar[b]]])
    /\ UNCHANGED <<store, sess, flow, jar>>

\* reserve_connection_submission counts the attempt for the cached user id.
Reserve(p) ==
    /\ req[p].pc = "reserve"
    /\ throttled' = throttled \cup {req[p].user}
    /\ Advance(p, [req[p] EXCEPT !.pc = "submit"])
    /\ UNCHANGED <<users, seq, identities, tenants, connected, sess, flow, jar>>

SubmitUnchecked(p) == TRUE

\* submit_connection looks the user up in its own transaction.
KnownUser(p) == users[req[p].user] # "absent"

Submit(p) ==
    /\ req[p].pc = "submit"
    /\ connected' = IF KnownUser(p) THEN connected \cup {req[p].user} ELSE connected
    /\ Advance(p, Idle)
    /\ UNCHANGED <<users, seq, identities, tenants, throttled, sess, flow, jar>>

-----------------------------------------------------------------------------
(* The operator, and time.                                                 *)

IdentitiesKept(u) == identities

\* The identities delete_user leaves.
IdentitiesOfOthers(u) ==
    [i \in Identities |-> IF identities[i] = u THEN 0 ELSE identities[i]]

\* The sessions delete_user leaves.
SessionsOfOthers(u) ==
    [s \in 1..MaxSid |-> IF sessions[s] = u THEN 0 ELSE sessions[s]]

AnyAccount(u) == users[u] # "absent"

\* The owner is refused.
Deletable(u) == users[u] = "member"

\* delete_user: every row of one ordinary account, in one transaction.  A live
\* connection becomes the worker's tombstone (see Handoff).
DeleteUser(u) ==
    /\ Deletable(u) /\ Up
    /\ users' = [users EXCEPT ![u] = "absent"]
    /\ identities' = IdentitiesOfOthers(u)
    /\ tenants' = tenants \ {u}
    /\ throttled' = throttled \ {u}
    /\ connected' = connected \ {u}
    /\ sessions' = SessionsOfOthers(u)
    /\ UNCHANGED <<seq, nextSid, login, flow, jar, req>>

SessionExpires(s) ==
    /\ sessions[s] # 0
    /\ sessions' = Without(s)
    /\ UNCHANGED <<store, nextSid, login, flow, jar, req>>

StateExpires(s) ==
    /\ states[s] # NoState
    /\ states' = Taken(s)
    /\ UNCHANGED <<store, sess, nextState, passed, jar, req>>

Request(p) ==
    \/ \E b \in Browsers : LoginAccepted(p, b) \/ Logout(p, b) \/ Enter(p, b)
    \/ \E b \in Browsers, v \in Providers, s \in 1..MaxState, code \in BOOLEAN :
         CallbackTake(p, b, v, s, code)
    \/ ExchangeFails(p) \/ \E i \in Identities : Resolve(p, i) \/ Refuse(p, i)
    \/ RevokeOld(p) \/ CreateSession(p)
    \/ Reply(p) \/ ReplyLost(p) \/ Reserve(p) \/ Submit(p)

Next ==
    \/ EnsureOwner
    \/ \E p \in Procs : Request(p)
    \/ \E b \in Browsers, v \in Providers : OAuthStart(b, v)
    \/ \E u \in 1..MaxUser : DeleteUser(u)
    \/ \E s \in 1..MaxSid : SessionExpires(s)
    \/ \E s \in 1..MaxState : StateExpires(s)

Spec == Init /\ [][Next]_vars

-----------------------------------------------------------------------------
People == Identities \cup {Password, None}

Request_ == [pc: {"idle", "exchange", "revoke", "create", "reply",
                  "reserve", "submit"},
             browser: Browsers \cup {None}, old: 0..MaxSid, who: People,
             provider: Providers \cup {None}, began: Browsers \cup {None},
             user: 0..MaxUser, sid: 0..MaxSid]

TypeOK ==
    /\ users \in [1..MaxUser -> {"absent", "member", "owner"}]
    /\ seq \in 0..MaxUser
    /\ identities \in [Identities -> 0..MaxUser]
    /\ tenants \subseteq 1..MaxUser
    /\ throttled \subseteq 1..MaxUser /\ connected \subseteq 1..MaxUser
    /\ sessions \in [1..MaxSid -> 0..MaxUser]
    /\ nextSid \in 0..MaxSid
    /\ states \in [1..MaxState -> [provider: Providers \cup {None},
                                  client: Browsers \cup {None}]]
    /\ nextState \in 0..MaxState
    /\ jar \in [Browsers -> 0..MaxSid]
    /\ req \in [Procs -> Request_]
    /\ login \in [1..MaxSid -> [who: People, began: Browsers \cup {None}]]
    /\ passed \in [1..MaxState -> Nat]

Present == {u \in 1..MaxUser : users[u] # "absent"}

\* The account a person signs in to is still the one they signed in to.
Speaks(who, u) ==
    IF who = Password THEN users[u] = "owner" ELSE identities[who] = u

\* A session whose account exists belongs to the person who signed in: also
\* when the account was purged, and its person registered anew, while the
\* callback was under way or the session was live (delete_user,
\* create_session, the AUTOINCREMENT of users).
SessionServesItsPerson ==
    \A s \in 1..MaxSid :
      sessions[s] \in Present => Speaks(login[s].who, sessions[s])

\* The cookie of a provider sign-in only ever lands in the browser that began
\* it (finish, step 5).
OnlyInitiatingBrowser ==
    \A b \in Browsers :
      jar[b] # 0 /\ login[jar[b]].who \in Identities => login[jar[b]].began = b

\* However often and however concurrently a callback is repeated, at most one
\* of them gets to exchange its code (take_oauth_state).
StateUsedOnce == \A s \in 1..MaxState : passed[s] <= 1

SignInBound == StateUsedOnce /\ OnlyInitiatingBrowser

\* By the time a sign-in answers, the session its request came with is dead
\* for every other holder of that cookie (login, oauth_callback: rotation).
RotatedOut ==
    \A p \in Procs : req[p].pc \in {"create", "reply"} => ~Resolves(req[p].old)

\* Accounts are whole: an identity leads to an existing account, an ordinary
\* account has one identity and its tenant row, and nothing of a purged
\* account is left in these tables (register_or_link_identity, delete_user).
AccountsWhole ==
    /\ \A i \in Identities : identities[i] # 0 => identities[i] \in Present
    /\ \A u \in 1..MaxUser : users[u] = "member" =>
         /\ u \in tenants
         /\ \E i \in Identities : identities[i] = u
         /\ \A i, j \in Identities : identities[i] = u /\ identities[j] = u => i = j
    /\ tenants \subseteq Present

\* Once there is an owner it stays the one administrator: no sign-in elevates
\* an account, none is deleted with it.
OwnerForever == [][Owners # {} => Owners' = Owners]_vars

\* A request admitted before its account was purged stores no token for it.
NoConnectionOfStranger == connected \subseteq Present

\* What delete_user's docstring promises: no trace of a purged account.
NoTraceOfPurged ==
    /\ \A s \in 1..MaxSid : sessions[s] # 0 => sessions[s] \in Present
    /\ throttled \subseteq Present
=============================================================================
