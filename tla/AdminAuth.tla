------------------------------ MODULE AdminAuth -------------------------------
(***************************************************************************)
(* The administrators' sign-in: a password and a secret key, sessions in   *)
(* Redis, and mailed links that reset either credential and revoke every   *)
(* session.                                                                *)
(*                                                                         *)
(*   admin_session:<jti>                  the session itself (live)        *)
(*   admin_user_sessions:<id>             an admin's session ids (index)   *)
(*   admin_reset:, admin_secret_reset:    the mailed links (links)         *)
(*                                                                         *)
(* A request takes a step for each of its calls to Redis and the database. *)
(* A fault is a call that fails, or a crash; the errors of some calls are  *)
(* dropped, and the request goes on.                                       *)
(***************************************************************************)
EXTENDS Naturals, FiniteSets

CONSTANTS
  Admins,
  Sessions,                     \* the JTIs that can be drawn
  PasswordLinks, SecretLinks,   \* the mailed tokens
  OwnerOf,                      \* of a JTI or a link
  Calls,                        \* the requests the server handles at a time
  MaxFaults,                    \* bound of a run
  None

Links == PasswordLinks \cup SecretLinks

ASSUME OwnerAssumption == OwnerOf \in [Sessions \cup Links -> Admins]
ASSUME LinkAssumption  == /\ PasswordLinks \cap SecretLinks = {}
                          /\ Links \cap Sessions = {}
ASSUME NoneAssumption  == None \notin Admins \cup Sessions \cup Links
ASSUME FaultAssumption == MaxFaults \in Nat

VARIABLES
  password, secret,   \* which one the admin has, counted
  links,     \* the links Redis holds
  live,      \* the sessions Redis holds
  index,     \* index[a]: the members of the admin's set
  call,      \* call[c]: the request c is at work on
  \* What happened:
  used,      \* the JTIs drawn
  held,      \* the sessions whose tokens a client received
  origin,    \* origin[s]: password and secret that the session goes back to
  line,      \* line[s]: the session and those it goes back to by refreshes
  resets,    \* resets[l]: credentials set with the link
  late,      \* sessions whose issue overlapped a revocation of all sessions
  stray,     \* sessions stored whose SADD or EXPIRE failed
  forked,    \* sessions two refreshes had in hand, or whose revocation failed
  rushed,    \* links two requests had in hand, or whose deletion failed
  botched,   \* admins whose revocation after a reset failed
  faults

database == <<password, secret>>
redis    == <<links, live, index>>
minted   == <<used, held, origin, line>>
marks    == <<late, stray, forked, rushed, botched>>
vars     == <<database, redis, call, minted, resets, marks, faults>>

Steps == {"idle",
          "admin", "rotate",        \* RefreshTokens
          "set", "add",             \* StoreSession
          "burn", "update",         \* ResetPassword, ResetSecretKey
          "members", "del", "drop", \* RevokeAllSessions
          "mget", "prune"}          \* GetActiveSessions

Issuing  == {"admin", "rotate", "set", "add"}
Revoking == {"members", "del", "drop"}

Call == [pc   : Steps,
         user : Admins \cup {None},
         key  : Sessions \cup {None},   \* the new session
         old  : Sessions \cup {None},   \* the session to be refreshed
         link : Links \cup {None},
         ids  : SUBSET Sessions]        \* what the set held when read

Idle == [pc |-> "idle", user |-> None, key |-> None, old |-> None, link |-> None, ids |-> {}]

TypeOK ==
  /\ password \in [Admins -> Nat]
  /\ secret \in [Admins -> Nat]
  /\ links \subseteq Links
  /\ live \subseteq Sessions
  /\ index \in [Admins -> SUBSET Sessions]
  /\ call \in [Calls -> Call]
  /\ used \subseteq Sessions
  /\ held \subseteq Sessions
  /\ origin \in [Sessions -> Nat \X Nat]
  /\ line \in [Sessions -> SUBSET Sessions]
  /\ resets \in [Links -> Nat]
  /\ late \subseteq Sessions
  /\ stray \subseteq Sessions
  /\ forked \subseteq Sessions
  /\ rushed \subseteq Links
  /\ botched \subseteq Admins
  /\ faults \in 0 .. MaxFaults

Init ==
  /\ password = [a \in Admins |-> 0]
  /\ secret = [a \in Admins |-> 0]
  /\ links = {}
  /\ live = {}
  /\ index = [a \in Admins |-> {}]
  /\ call = [c \in Calls |-> Idle]
  /\ used = {}
  /\ held = {}
  /\ origin = [s \in Sessions |-> <<0, 0>>]
  /\ line = [s \in Sessions |-> {}]
  /\ resets = [l \in Links |-> 0]
  /\ late = {}
  /\ stray = {}
  /\ forked = {}
  /\ rushed = {}
  /\ botched = {}
  /\ faults = 0

NoFault == UNCHANGED faults
Fault   == faults < MaxFaults /\ faults' = faults + 1

At(c, step) == call[c].pc = step

Goto(c, step) == call' = [call EXCEPT ![c].pc = step]
Stop(c)       == call' = [call EXCEPT ![c] = Idle]

Start(c, state) == At(c, "idle") /\ call' = [call EXCEPT ![c] = state]

Credentials(a) == <<password[a], secret[a]>>

\* AdminAuthRequired lets the access token of s in.
AdminAuthRequired(s) == s \in held /\ s \in live

SignedIn(a) == \E s \in Sessions : AdminAuthRequired(s) /\ OwnerOf[s] = a

(***************************************************************************)
(* Issuing a session                                                       *)
(***************************************************************************)
BeingRevoked(a) == \E c \in Calls : call[c].user = a /\ call[c].pc \in {"del", "drop"}

\* GenerateTokenPair draws a new id for every pair.
GenerateTokenPair(s, from, ancestors) ==
  /\ s \notin used
  /\ used' = used \cup {s}
  /\ origin' = [origin EXCEPT ![s] = from]
  /\ line' = [line EXCEPT ![s] = ancestors \cup {s}]
  /\ late' = IF BeingRevoked(OwnerOf[s]) THEN late \cup {s} ELSE late

\* The email, the password and the secret key in one request.
Login(c, s) == LET a == OwnerOf[s] IN
  /\ Start(c, [Idle EXCEPT !.pc = "set", !.user = a, !.key = s])
  /\ GenerateTokenPair(s, Credentials(a), {})
  /\ UNCHANGED <<database, redis, held, resets, stray, forked, rushed, botched, faults>>

\* A mistake to check against: the id is that of the refreshed session.
StoreOldSession(c) ==
  /\ At(c, "set")
  /\ live' = live \cup {call[c].old}
  /\ Goto(c, "add")
  /\ UNCHANGED <<database, links, index, minted, resets, marks, faults>>

\* StoreSession: SET of the session,
StoreSession(c) ==
  /\ At(c, "set")
  /\ live' = live \cup {call[c].key}
  /\ Goto(c, "add")
  /\ UNCHANGED <<database, links, index, minted, resets, marks, faults>>

\* SADD to the admin's set and its EXPIRE, and the answer with the tokens.
Register(c) == LET s == call[c].key IN
  /\ At(c, "add")
  /\ \/ /\ index' = [index EXCEPT ![OwnerOf[s]] = @ \cup {s}]
        /\ held' = held \cup {s}
        /\ NoFault
        /\ UNCHANGED stray
     \/ /\ index' \in {index, [index EXCEPT ![OwnerOf[s]] = @ \cup {s}]}
        /\ stray' = stray \cup {s}
        /\ Fault
        /\ UNCHANGED held
  /\ Stop(c)
  /\ UNCHANGED <<database, links, live, used, origin, line, resets, late, forked, rushed,
                 botched>>

HandleLogin(c) == \E s \in Sessions : Login(c, s)

(***************************************************************************)
(* Refreshing                                                              *)
(***************************************************************************)
InHand(c, s) == \E d \in Calls \ {c} : call[d].old = s /\ call[d].pc \in {"admin", "rotate"}

\* The token is compared with the one stored under its own id, which is the only
\* one ever stored there: an old token finds no session, not another token.
GetSession(s) == s \in live

\* The new id is drawn later in the code; nobody sees it before.
RefreshTokens(c, old, s) == LET a == OwnerOf[old] IN
  /\ old \in held /\ GetSession(old)
  /\ OwnerOf[s] = a
  /\ Start(c, [Idle EXCEPT !.pc = "admin", !.user = a, !.key = s, !.old = old])
  /\ GenerateTokenPair(s, origin[old], line[old])
  /\ forked' = IF InHand(c, old) THEN forked \cup {old} ELSE forked
  /\ UNCHANGED <<database, redis, held, resets, stray, rushed, botched, faults>>

GetByID(c) ==
  /\ At(c, "admin")
  /\ Goto(c, "rotate")
  /\ UNCHANGED <<database, redis, minted, resets, marks, faults>>

\* RevokeSession of the repository: DEL of the session, SREM from the set.
RevokeSession(a, s) ==
  /\ live' = live \ {s}
  /\ index' = [index EXCEPT ![a] = @ \ {s}]

\* A mistake to check against: the old session stays.
RotateNot(c) ==
  /\ At(c, "rotate")
  /\ Goto(c, "set")
  /\ UNCHANGED <<database, redis, minted, resets, marks, faults>>

\* An error is dropped, whether it came before the DEL or after it.
Rotate(c) == LET old == call[c].old IN
  /\ At(c, "rotate")
  /\ \/ RevokeSession(call[c].user, old) /\ NoFault /\ UNCHANGED forked
     \/ /\ live' \in {live, live \ {old}}
        /\ forked' = forked \cup {old}
        /\ Fault
        /\ UNCHANGED index
  /\ Goto(c, "set")
  /\ UNCHANGED <<database, links, minted, resets, late, stray, rushed, botched>>

HandleRefresh(c) == \E old, s \in Sessions : RefreshTokens(c, old, s)

(***************************************************************************)
(* Logging out                                                             *)
(***************************************************************************)
\* With the cookie's refresh token, which lives on; an error is only logged.
Logout(s) ==
  /\ s \in held
  /\ \/ RevokeSession(OwnerOf[s], s) /\ NoFault
     \/ live' \in {live, live \ {s}} /\ Fault /\ UNCHANGED index
  /\ UNCHANGED <<database, links, call, minted, resets, marks>>

\* Any session, by its id: it leaves the set of the admin who asks.
RevokeOne(a, s) ==
  /\ SignedIn(a)
  /\ \/ RevokeSession(a, s) /\ NoFault
     \/ live' \in {live, live \ {s}} /\ Fault /\ UNCHANGED index
  /\ UNCHANGED <<database, links, call, minted, resets, marks>>

LogoutAll(c, a) ==
  /\ SignedIn(a)
  /\ Start(c, [Idle EXCEPT !.pc = "members", !.user = a])
  /\ UNCHANGED <<database, redis, minted, resets, marks, faults>>

\* RevokeAllSessions: SMEMBERS.  An error ends the revocation.
ReadMembers(c) == LET a == call[c].user IN
  /\ At(c, "members")
  /\ \/ /\ IF index[a] = {} THEN Stop(c)
                            ELSE call' = [call EXCEPT ![c].pc = "del", ![c].ids = index[a]]
        /\ late' = late \cup {call[d].key : d \in {x \in Calls : /\ call[x].user = a
                                                                /\ call[x].pc \in Issuing}}
        /\ NoFault
        /\ UNCHANGED botched
     \/ /\ Stop(c)
        /\ botched' = IF call[c].link # None THEN botched \cup {a} ELSE botched
        /\ Fault
        /\ UNCHANGED late
  /\ UNCHANGED <<database, redis, minted, resets, stray, forked, rushed>>

\* The DELs of the sessions.
DeleteMembers(c) ==
  /\ At(c, "del")
  /\ \/ live' = live \ call[c].ids /\ Goto(c, "drop") /\ NoFault /\ UNCHANGED botched
     \/ /\ live' \in {live \ gone : gone \in SUBSET call[c].ids}
        /\ Stop(c)
        /\ botched' = IF call[c].link # None THEN botched \cup {call[c].user} ELSE botched
        /\ Fault
  /\ UNCHANGED <<database, links, index, minted, resets, late, stray, forked, rushed>>

\* The DEL of the set, with what was added to it meanwhile.
DropIndex(c) == LET a == call[c].user IN
  /\ At(c, "drop")
  /\ \/ index' = [index EXCEPT ![a] = {}] /\ NoFault
     \/ UNCHANGED index /\ Fault
  /\ Stop(c)
  /\ UNCHANGED <<database, links, live, minted, resets, marks>>

HandleLogout           == \E s \in Sessions : Logout(s)
HandleRevokeSession    == \E a \in Admins, s \in Sessions : RevokeOne(a, s)
HandleLogoutAll(c)     == \E a \in Admins : LogoutAll(c, a)

(***************************************************************************)
(* Listing                                                                 *)
(***************************************************************************)
\* GetActiveSessions: SMEMBERS, MGET, and SREM of the ids without a session.
GetActiveSessions(c, a) ==
  /\ index[a] # {}
  /\ Start(c, [Idle EXCEPT !.pc = "mget", !.user = a, !.ids = index[a]])
  /\ UNCHANGED <<database, redis, minted, resets, marks, faults>>

ReadListed(c) == LET stale == call[c].ids \ live IN
  /\ At(c, "mget")
  /\ IF stale = {} THEN Stop(c)
                   ELSE call' = [call EXCEPT ![c].pc = "prune", ![c].ids = stale]
  /\ UNCHANGED <<database, redis, minted, resets, marks, faults>>

\* A mistake to check against: the set is deleted once an id is stale.
PruneAll(c) ==
  /\ At(c, "prune")
  /\ index' = [index EXCEPT ![call[c].user] = {}]
  /\ Stop(c)
  /\ UNCHANGED <<database, links, live, minted, resets, marks, faults>>

Prune(c) ==
  /\ At(c, "prune")
  /\ index' = [index EXCEPT ![call[c].user] = @ \ call[c].ids]
  /\ Stop(c)
  /\ UNCHANGED <<database, links, live, minted, resets, marks, faults>>

HandleGetSessions(c) == \E a \in Admins : SignedIn(a) /\ GetActiveSessions(c, a)

(***************************************************************************)
(* Resetting the password or the secret key                                *)
(***************************************************************************)
\* A random token is a new one.
StoreLink(l) ==
  /\ l \notin links /\ resets[l] = 0
  /\ \A c \in Calls : call[c].link # l
  /\ l \notin rushed
  /\ links' = links \cup {l}
  /\ UNCHANGED <<database, live, index, call, minted, resets, marks, faults>>

\* For the admin's email, name and phone,
ForgotPassword(l)      == l \in PasswordLinks /\ StoreLink(l)
\* and for the secret key the password, too.
ForgotSecretRequest(l) == l \in SecretLinks /\ StoreLink(l)

LinkExpires(l) ==
  /\ l \in links
  /\ links' = links \ {l}
  /\ UNCHANGED <<database, live, index, call, minted, resets, marks, faults>>

\* GetAdminIDByToken and GetAdminIDBySecretToken: a GET,
GetAdminID(c, l) ==
  /\ l \in links
  /\ Start(c, [Idle EXCEPT !.pc = "burn", !.user = OwnerOf[l], !.link = l])
  /\ rushed' = IF \E d \in Calls : call[d].link = l THEN rushed \cup {l} ELSE rushed
  /\ UNCHANGED <<database, redis, minted, resets, late, stray, forked, botched, faults>>

\* A mistake to check against: the link stays.
BurnLinkNot(c) ==
  /\ At(c, "burn")
  /\ Goto(c, "update")
  /\ UNCHANGED <<database, redis, minted, resets, marks, faults>>

\* and a DEL, whose error is dropped.
BurnLink(c) == LET l == call[c].link IN
  /\ At(c, "burn")
  /\ \/ links' = links \ {l} /\ NoFault /\ UNCHANGED rushed
     \/ UNCHANGED links /\ rushed' = rushed \cup {l} /\ Fault
  /\ Goto(c, "update")
  /\ UNCHANGED <<database, live, index, minted, resets, late, stray, forked, botched>>

UpdatePassword(a)  == password' = [password EXCEPT ![a] = @ + 1] /\ UNCHANGED secret
UpdateSecretKey(a) == secret' = [secret EXCEPT ![a] = @ + 1] /\ UNCHANGED password

\* A mistake to check against: the sessions stay.
ResetOnly(c) == LET l == call[c].link  a == call[c].user IN
  /\ At(c, "update")
  /\ IF l \in PasswordLinks THEN UpdatePassword(a) ELSE UpdateSecretKey(a)
  /\ resets' = [resets EXCEPT ![l] = @ + 1]
  /\ Stop(c)
  /\ UNCHANGED <<redis, minted, marks, faults>>

\* Then all sessions are to be revoked.
Reset(c) == LET l == call[c].link  a == call[c].user IN
  /\ At(c, "update")
  /\ IF l \in PasswordLinks THEN UpdatePassword(a) ELSE UpdateSecretKey(a)
  /\ resets' = [resets EXCEPT ![l] = @ + 1]
  /\ Goto(c, "members")
  /\ UNCHANGED <<redis, minted, marks, faults>>

ResetPassword(c, l)  == l \in PasswordLinks /\ GetAdminID(c, l)
ResetSecretKey(c, l) == l \in SecretLinks /\ GetAdminID(c, l)

HandleForgotPassword   == \E l \in Links : ForgotPassword(l)
HandleForgotSecret     == \E l \in Links : ForgotSecretRequest(l)
HandleResetPassword(c) == \E l \in Links : ResetPassword(c, l)
HandleResetSecret(c)   == \E l \in Links : ResetSecretKey(c, l)

SessionExpires(s) ==
  /\ s \in live
  /\ live' = live \ {s}
  /\ UNCHANGED <<database, links, index, call, minted, resets, marks, faults>>

\* A call fails and the request ends, where the steps above do not say otherwise.
Fail(c) ==
  /\ call[c].pc \in {"admin", "set", "burn", "update", "mget", "prune"}
  /\ Fault
  /\ Stop(c)
  /\ UNCHANGED <<database, redis, minted, resets, marks>>

Next ==
  \/ HandleLogout \/ HandleRevokeSession \/ HandleForgotPassword \/ HandleForgotSecret
  \/ \E c \in Calls :
       \/ HandleLogin(c) \/ StoreSession(c) \/ Register(c)
       \/ HandleRefresh(c) \/ GetByID(c) \/ Rotate(c)
       \/ HandleLogoutAll(c) \/ ReadMembers(c) \/ DeleteMembers(c) \/ DropIndex(c)
       \/ HandleGetSessions(c) \/ ReadListed(c) \/ Prune(c)
       \/ HandleResetPassword(c) \/ HandleResetSecret(c) \/ BurnLink(c) \/ Reset(c)
       \/ Fail(c)
  \/ \E s \in Sessions : SessionExpires(s)
  \/ \E l \in Links : LinkExpires(l)

Spec == Init /\ [][Next]_vars

(***************************************************************************)
(* Properties                                                              *)
(***************************************************************************)
\* "All active sessions have been revoked": after a reset no session lives on
\* that goes back, by however many refreshes, to the credentials from before,
\* but for those whose issue, or an ancestor's, overlapped a revocation or failed
\* half-way, and where the revocation failed (ResetPassword, ResetSecretKey).
OldCredentialsOut ==
  \A s \in live : LET a == OwnerOf[s] IN
    \/ origin[s] = Credentials(a)
    \/ line[s] \cap (late \cup stray) # {}
    \/ a \in botched
    \/ \E c \in Calls : /\ call[c].user = a /\ call[c].pc \in Revoking
                        /\ call[c].link # None

\* A revocation of all sessions finds every session, pruned, refreshed and
\* revoked as they are at the same time, but for those whose issue overlapped
\* another one, or failed half-way (StoreSession, GetActiveSessions).
Reachable ==
  \A s \in live :
    \/ s \in index[OwnerOf[s]]
    \/ s \in late \cup stray
    \/ \E c \in Calls : At(c, "add") /\ call[c].key = s

\* A session has one successor: of two sessions that go back to the same one, the
\* later was refreshed from the earlier, unless two refreshes read a session
\* before either revoked it or its revocation failed (RefreshTokens).
OneSuccessor ==
  \A s, t \in held : LET common == line[s] \cap line[t] IN
    common # {} => s \in common \/ t \in common \/ common \cap forked # {}

\* "Ensure it's single-use": a link sets one password or secret key, unless two
\* requests read it before either deleted it or its deletion failed
\* (GetAdminIDByToken, GetAdminIDBySecretToken).
SingleUse == \A l \in Links \ rushed : resets[l] <= 1
=============================================================================
