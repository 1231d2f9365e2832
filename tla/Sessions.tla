------------------------------- MODULE Sessions -------------------------------
(***************************************************************************)
(* User sessions: the account, password and session services over the      *)
(* users table and the Redis keys of the session and token repositories.   *)
(*                                                                         *)
(*   session:<jti>        the session itself (live)                        *)
(*   user_sessions:<id>   the set of a user's session ids (index)          *)
(*   token:...:<token>    a mailed link (links)                            *)
(*                                                                         *)
(* A request runs as a call that takes one step for each of its reads and  *)
(* writes of shared state.  Redis executes the commands of a pipeline one  *)
(* by one, with other clients' commands in between.  A fault is a call     *)
(* that stops half-way: its Redis or database call failed or the process   *)
(* died.                                                                   *)
(***************************************************************************)
EXTENDS Naturals, FiniteSets

CONSTANTS
  Users,
  Sessions,      \* the JTIs that can be minted
  VerifyLinks, ResetLinks,   \* the mailed tokens
  OwnerOf,       \* OwnerOf[x]: the user a JTI or a link is made for
  Calls,         \* the requests the server handles at a time
  MaxFaults,     \* bound of a run
  None

Links    == VerifyLinks \cup ResetLinks
Statuses == {"inactive", "active", "suspended", "banned", "deleted"}
Blocked  == {"suspended", "banned"}

ASSUME OwnerAssumption  == OwnerOf \in [Sessions \cup Links -> Users]
ASSUME LinkAssumption   == VerifyLinks \cap ResetLinks = {}
ASSUME NoneAssumption   == None \notin Users \cup Sessions \cup Links
ASSUME FaultAssumption  == MaxFaults \in Nat

VARIABLES
  account,   \* account[u]: users.status, "absent" without a row
  verified,  \* the users with is_verified
  google,    \* the users whose auth_provider is google; the others use email
  links,     \* the links Redis holds
  live,      \* the sessions Redis holds
  index,     \* index[u]: the members of user_sessions:<u>
  call,      \* call[c]: the request c is at work on
  \* What happened:
  used,      \* the JTIs ever minted
  claims,    \* claims[s]: the account status inside the tokens of s
  held,      \* the sessions whose tokens a client received
  late,      \* held sessions whose issue ran across a revocation of all sessions
  lost,      \* sessions a revocation dropped from the set without having read them
  botched,   \* users with a ban whose revocation a fault stopped
  faults

database == <<account, verified, google>>
redis    == <<links, live, index>>
minted   == <<used, claims, held>>
marks    == <<late, lost, botched>>
vars     == <<database, redis, call, minted, marks, faults>>

Steps == {"idle",
          "mail",                        \* a link is to be stored
          "burn", "verify", "promote",   \* VerifyEmail
          "reset",                       \* ResetPassword
          "owner", "rotate",             \* RefreshTokens
          "set", "add",                  \* StoreSession
          "members", "del", "drop",      \* RevokeAllSessions
          "mget", "prune"}               \* GetActiveSessions

Issuing  == {"promote", "rotate", "set", "add"}
Revoking == {"members", "del"}

Call == [pc   : Steps,
         user : Users \cup {None},
         key  : Sessions \cup Links \cup {None},   \* the session or link at hand
         ids  : SUBSET Sessions,                   \* what the set held when read
         seen : Statuses \cup {"absent"},          \* the status the user had
         late : BOOLEAN]                           \* issuing during a revocation

Idle == [pc |-> "idle", user |-> None, key |-> None, ids |-> {},
         seen |-> "absent", late |-> FALSE]

TypeOK ==
  /\ account \in [Users -> Statuses \cup {"absent"}]
  /\ verified \subseteq Users
  /\ google \subseteq Users
  /\ links \subseteq Links
  /\ live \subseteq Sessions
  /\ index \in [Users -> SUBSET Sessions]
  /\ call \in [Calls -> Call]
  /\ used \subseteq Sessions
  /\ claims \in [Sessions -> Statuses \cup {"absent"}]
  /\ held \subseteq Sessions
  /\ late \subseteq Sessions
  /\ lost \subseteq Sessions
  /\ botched \subseteq Users
  /\ faults \in 0 .. MaxFaults

Init ==
  /\ account = [u \in Users |-> "absent"]
  /\ verified = {}
  /\ google = {}
  /\ links = {}
  /\ live = {}
  /\ index = [u \in Users |-> {}]
  /\ call = [c \in Calls |-> Idle]
  /\ used = {}
  /\ claims = [s \in Sessions |-> "absent"]
  /\ held = {}
  /\ late = {}
  /\ lost = {}
  /\ botched = {}
  /\ faults = 0

NoFault == UNCHANGED faults
Fault == /\ faults < MaxFaults
         /\ faults' = faults + 1

At(c, step) == call[c].pc = step

Goto(c, step) == call' = [call EXCEPT ![c].pc = step]

Stop(c) == call' = [call EXCEPT ![c] = Idle]

Start(c, step, u) ==
  /\ At(c, "idle")
  /\ call' = [call EXCEPT ![c] = [Idle EXCEPT !.pc = step, !.user = u]]

StartWith(c, step, x) ==
  /\ At(c, "idle")
  /\ call' = [call EXCEPT ![c] = [Idle EXCEPT !.pc = step, !.user = OwnerOf[x],
                                              !.key = x]]

\* GetByID and GetByEmail leave out the deleted rows.
Exists(u) == account[u] \notin {"absent", "deleted"}

CanLogin(u) == u \in verified /\ account[u] = "active"

\* AuthRequired lets the access token of s in.
Admitted(s) == /\ s \in held
               /\ s \in live
               /\ claims[s] \notin Blocked

SignedIn(u) == \E s \in Sessions : Admitted(s) /\ OwnerOf[s] = u

(***************************************************************************)
(* Issuing a session                                                       *)
(***************************************************************************)
\* GenerateTokenPair and the ValidateToken behind it, which refuses the tokens
\* just made when the user read was banned.
Mint(c, u, st) ==
  \/ /\ st # "banned"
     /\ \E s \in Sessions \ used :
          /\ OwnerOf[s] = u
          /\ used' = used \cup {s}
          /\ claims' = [claims EXCEPT ![s] = st]
          /\ call' = [call EXCEPT ![c] = [@ EXCEPT !.pc = "set", !.user = u,
                                                   !.key = s, !.seen = st]]
  \/ /\ st = "banned"
     /\ Stop(c)
     /\ UNCHANGED <<used, claims>>

Login(c, u) ==
  /\ At(c, "idle")
  /\ u \notin google
  /\ CanLogin(u)
  /\ Mint(c, u, account[u])
  /\ UNCHANGED <<database, redis, held, marks, faults>>

\* GoogleAuth of a known user: only the two blocked states are turned away.
GoogleLogin(c, u) ==
  /\ At(c, "idle")
  /\ u \in google
  /\ Exists(u)
  /\ account[u] \notin Blocked
  /\ Mint(c, u, account[u])
  /\ UNCHANGED <<database, redis, held, marks, faults>>

GoogleSignUp(c, u) ==
  /\ At(c, "idle")
  /\ account[u] = "absent"
  /\ account' = [account EXCEPT ![u] = "active"]
  /\ verified' = verified \cup {u}
  /\ google' = google \cup {u}
  /\ Mint(c, u, "active")
  /\ UNCHANGED <<redis, held, marks, faults>>

\* A mistake to check against: registering the session before it exists.
StoreIndexFirst(step, s) ==
  \/ /\ step = "set"
     /\ index' = [index EXCEPT ![OwnerOf[s]] = @ \cup {s}]
     /\ UNCHANGED live
  \/ /\ step = "add"
     /\ live' = live \cup {s}
     /\ UNCHANGED index

\* The pipeline of StoreSession: SET of the session, SADD to the user's set.
StoreCommand(step, s) ==
  \/ /\ step = "set"
     /\ live' = live \cup {s}
     /\ UNCHANGED index
  \/ /\ step = "add"
     /\ index' = [index EXCEPT ![OwnerOf[s]] = @ \cup {s}]
     /\ UNCHANGED live

SetSession(c) ==
  /\ At(c, "set")
  /\ StoreCommand("set", call[c].key)
  /\ Goto(c, "add")
  /\ UNCHANGED <<database, links, minted, marks, faults>>

\* The last command of the pipeline and the answer, which carries the tokens.
AddSession(c) == LET s == call[c].key IN
  /\ At(c, "add")
  /\ StoreCommand("add", s)
  /\ held' = held \cup {s}
  /\ late' = IF call[c].late THEN late \cup {s} ELSE late
  /\ Stop(c)
  /\ UNCHANGED <<database, links, used, claims, lost, botched, faults>>

(***************************************************************************)
(* Mailed links                                                            *)
(***************************************************************************)
\* A new random token is one that nobody has, in Redis or in a call.
NewLink(c, u, kind) ==
  \E l \in kind \ links : /\ OwnerOf[l] = u
                          /\ \A d \in Calls : call[d].key # l
                          /\ StartWith(c, "mail", l)

Register(c, u) ==
  /\ account[u] = "absent"
  /\ account' = [account EXCEPT ![u] = "inactive"]
  /\ NewLink(c, u, VerifyLinks)
  /\ UNCHANGED <<verified, google, redis, used, claims, held, marks, faults>>

ResendVerification(c, u) ==
  /\ Exists(u)
  /\ u \notin verified
  /\ NewLink(c, u, VerifyLinks)
  /\ UNCHANGED <<database, redis, used, claims, held, marks, faults>>

ForgotPassword(c, u) ==
  /\ Exists(u)
  /\ u \notin google
  /\ NewLink(c, u, ResetLinks)
  /\ UNCHANGED <<database, redis, used, claims, held, marks, faults>>

\* StoreEmailToken and StorePasswordResetToken
StoreLink(c) ==
  /\ At(c, "mail")
  /\ links' = links \cup {call[c].key}
  /\ Stop(c)
  /\ UNCHANGED <<database, live, index, minted, marks, faults>>

\* GetUserByEmailToken and GetUserByResetToken: a GET, then a DEL whose error
\* is dropped.
ReadLink(c, l) ==
  /\ l \in links
  /\ StartWith(c, "burn", l)
  /\ UNCHANGED <<database, redis, minted, marks, faults>>

BurnLink(c) == LET l == call[c].key IN
  /\ At(c, "burn")
  /\ \/ links' = links \ {l} /\ NoFault
     \/ UNCHANGED links /\ Fault
  /\ Goto(c, IF l \in VerifyLinks THEN "verify" ELSE "reset")
  /\ UNCHANGED <<database, live, index, minted, marks>>

LinkExpires(l) ==
  /\ l \in links
  /\ links' = links \ {l}
  /\ UNCHANGED <<database, live, index, call, minted, marks, faults>>

\* VerifyEmail reads the user and refuses one that is verified.
ReadUnverified(c) == LET u == call[c].user IN
  /\ At(c, "verify")
  /\ IF Exists(u) /\ u \notin verified
       THEN call' = [call EXCEPT ![c].pc = "promote", ![c].seen = account[u]]
       ELSE Stop(c)
  /\ UNCHANGED <<database, redis, minted, marks, faults>>

\* VerifyUser makes the account active whatever it was, and the session is
\* made for the user as read before.
Promote(c) == LET u == call[c].user IN
  /\ At(c, "promote")
  /\ account' = [account EXCEPT ![u] = "active"]
  /\ verified' = verified \cup {u}
  /\ Mint(c, u, call[c].seen)
  /\ UNCHANGED <<google, redis, held, marks, faults>>

\* ResetPassword writes the new password, deletes the link (again), and goes on
\* to revoke all sessions.
ResetPassword(c) == LET u == call[c].user IN
  /\ At(c, "reset")
  /\ IF Exists(u)
       THEN Goto(c, "members") /\ links' = links \ {call[c].key}
       ELSE Stop(c) /\ UNCHANGED links
  /\ UNCHANGED <<database, live, index, minted, marks, faults>>

(***************************************************************************)
(* Refreshing                                                              *)
(***************************************************************************)
RefreshTokens(c, s) ==
  /\ s \in held
  /\ s \in live
  /\ StartWith(c, "owner", s)
  /\ UNCHANGED <<database, redis, minted, marks, faults>>

\* A mistake to check against: trusting the tokens, like AuthRequired.
ReadOwnerBlindly(c) ==
  /\ At(c, "owner")
  /\ IF Exists(call[c].user)
       THEN call' = [call EXCEPT ![c].pc = "rotate", ![c].seen = claims[call[c].key]]
       ELSE Stop(c)
  /\ UNCHANGED <<database, redis, minted, marks, faults>>

ReadOwner(c) == LET u == call[c].user IN
  /\ At(c, "owner")
  /\ IF CanLogin(u)
       THEN call' = [call EXCEPT ![c].pc = "rotate", ![c].seen = account[u]]
       ELSE Stop(c)
  /\ UNCHANGED <<database, redis, minted, marks, faults>>

\* RevokeSession of the repository: DEL of the session, SREM from the set.
Revoke(s) == /\ live' = live \ {s}
             /\ index' = [index EXCEPT ![OwnerOf[s]] = @ \ {s}]

\* Its callers go on when it fails, before or after the DEL.
TryRevoke(s) == \/ Revoke(s) /\ NoFault
                \/ /\ live' \in {live, live \ {s}}
                   /\ UNCHANGED index
                   /\ Fault

Rotate(c) ==
  /\ At(c, "rotate")
  /\ TryRevoke(call[c].key)
  /\ Mint(c, call[c].user, call[c].seen)
  /\ UNCHANGED <<database, links, held, marks>>

(***************************************************************************)
(* Logging out and listing                                                 *)
(***************************************************************************)
Logout(s) ==
  /\ s \in held
  /\ TryRevoke(s)
  /\ UNCHANGED <<database, links, call, minted, marks>>

\* The session service's RevokeSession, which checks the owner.
RevokeOne(u, s) ==
  /\ SignedIn(u)
  /\ s \in live
  /\ OwnerOf[s] = u
  /\ TryRevoke(s)
  /\ UNCHANGED <<database, links, call, minted, marks>>

LogoutAll(c, u) ==
  /\ SignedIn(u)
  /\ Start(c, "members", u)
  /\ UNCHANGED <<database, redis, minted, marks, faults>>

\* ChangePassword revokes the caller's session with the others.
ChangePassword(c, u) ==
  /\ SignedIn(u)
  /\ Exists(u)
  /\ u \notin google
  /\ Start(c, "members", u)
  /\ UNCHANGED <<database, redis, minted, marks, faults>>

\* RevokeAllSessions reads the set.  The requests that are issuing a session of
\* the user just now run across the revocation.
ReadMembers(c) == LET u == call[c].user IN
  /\ At(c, "members")
  /\ call' = [d \in Calls |->
       IF d = c THEN IF index[u] = {} THEN Idle
                     ELSE [call[c] EXCEPT !.pc = "del", !.ids = index[u]]
       ELSE IF call[d].user = u /\ call[d].pc \in Issuing
         THEN [call[d] EXCEPT !.late = TRUE]
         ELSE call[d]]
  /\ UNCHANGED <<database, redis, minted, marks, faults>>

DeleteMembers(c) ==
  /\ At(c, "del")
  /\ live' = live \ call[c].ids
  /\ Goto(c, "drop")
  /\ UNCHANGED <<database, links, index, minted, marks, faults>>

DropIndex(c) == LET u == call[c].user IN
  /\ At(c, "drop")
  /\ index' = [index EXCEPT ![u] = {}]
  /\ lost' = lost \cup (index[u] \ call[c].ids)
  /\ Stop(c)
  /\ UNCHANGED <<database, links, live, minted, late, botched, faults>>

\* GetActiveSessions: SMEMBERS, MGET, SREM of the ids without a session.
ListSessions(c, u) ==
  /\ SignedIn(u)
  /\ At(c, "idle")
  /\ index[u] # {}
  /\ call' = [call EXCEPT ![c] = [Idle EXCEPT !.pc = "mget", !.user = u,
                                              !.ids = index[u]]]
  /\ UNCHANGED <<database, redis, minted, marks, faults>>

ReadListed(c) == LET stale == call[c].ids \ live IN
  /\ At(c, "mget")
  /\ IF stale = {}
       THEN Stop(c)
       ELSE call' = [call EXCEPT ![c].pc = "prune", ![c].ids = stale]
  /\ UNCHANGED <<database, redis, minted, marks, faults>>

\* A mistake to check against: removing the whole set once an id is stale.
PruneWholeIndex(c) == LET u == call[c].user IN
  /\ At(c, "prune")
  /\ index' = [index EXCEPT ![u] = {}]
  /\ Stop(c)
  /\ UNCHANGED <<database, links, live, minted, marks, faults>>

PruneIndex(c) == LET u == call[c].user IN
  /\ At(c, "prune")
  /\ index' = [index EXCEPT ![u] = @ \ call[c].ids]
  /\ Stop(c)
  /\ UNCHANGED <<database, links, live, minted, marks, faults>>

(***************************************************************************)
(* The admin, time and failures                                            *)
(***************************************************************************)
\* A mistake to check against: no validation, so that an empty status is written.
UpdateToEmptyStatus(c, u, st) ==
  /\ At(c, "idle")
  /\ account[u] # "absent"
  /\ account' = [account EXCEPT ![u] = ""]
  /\ UNCHANGED <<verified, google, redis, call, minted, marks, faults>>

\* UpdateUserStatus writes the status first; after an error there is no
\* revocation, though the status may be written.
UpdateUserStatus(c, u, st) ==
  /\ At(c, "idle")
  /\ account[u] # "absent"
  /\ account' = [account EXCEPT ![u] = st]
  /\ \/ /\ IF st \in Blocked THEN Start(c, "members", u) ELSE UNCHANGED call
        /\ NoFault
        /\ UNCHANGED botched
     \/ /\ Fault
        /\ botched' = botched \cup {u}
        /\ UNCHANGED call
  /\ UNCHANGED <<verified, google, redis, minted, late, lost>>

\* The TTL of a session runs out.
Expire(s) ==
  /\ s \in live
  /\ live' = live \ {s}
  /\ UNCHANGED <<database, links, index, call, minted, marks, faults>>

\* A call stops where it is.  A pipeline of deletions may be cut anywhere.
Abort(c) ==
  /\ ~At(c, "idle")
  /\ Fault
  /\ Stop(c)
  /\ \E done \in SUBSET call[c].ids :
       /\ done # {} => At(c, "del")
       /\ live' = live \ done
  /\ botched' = IF call[c].pc \in Revoking THEN botched \cup {call[c].user} ELSE botched
  /\ UNCHANGED <<database, links, index, minted, late, lost>>

Request(c, u) ==
  \/ Register(c, u) \/ ResendVerification(c, u) \/ ForgotPassword(c, u)
  \/ Login(c, u) \/ GoogleLogin(c, u) \/ GoogleSignUp(c, u)
  \/ LogoutAll(c, u) \/ ChangePassword(c, u) \/ ListSessions(c, u)
  \/ \E st \in Statuses : UpdateUserStatus(c, u, st)

Continue(c) ==
  \/ StoreLink(c) \/ BurnLink(c) \/ ReadUnverified(c) \/ Promote(c)
  \/ ResetPassword(c)
  \/ ReadOwner(c) \/ Rotate(c)
  \/ SetSession(c) \/ AddSession(c)
  \/ ReadMembers(c) \/ DeleteMembers(c) \/ DropIndex(c)
  \/ ReadListed(c) \/ PruneIndex(c)
  \/ Abort(c)

Next ==
  \/ \E c \in Calls : \/ \E u \in Users : Request(c, u)
                      \/ \E l \in Links : ReadLink(c, l)
                      \/ \E s \in Sessions : RefreshTokens(c, s)
                      \/ Continue(c)
  \/ \E s \in Sessions : \/ Logout(s) \/ Expire(s)
                         \/ \E u \in Users : RevokeOne(u, s)
  \/ \E l \in Links : LinkExpires(l)

Spec == Init /\ [][Next]_vars

(***************************************************************************)
(* Properties                                                              *)
(***************************************************************************)
\* A session that a revocation has deleted, or a listing has found expired,
\* does not come back while the ids read before are still acted upon: a listing
\* never removes a living session from its set, and no session that a
\* revocation read survives it.
NoResurrection ==
  \A c \in Calls : call[c].pc \in {"drop", "prune"} => call[c].ids \cap live = {}

\* Every session a client can use is in its user's set, where LogoutAll, a ban
\* and the list of devices find it, whatever listings, expiries, revocations
\* and half-done calls have run.  The exceptions are the sessions added while a
\* revocation of all sessions was between its SMEMBERS and its DEL of the set.
IndexedUnlessLost ==
  \A s \in held \cap live : s \in index[OwnerOf[s]] \/ s \in lost

Cleared(u) == /\ u \notin botched
              /\ \A c \in Calls : call[c].user = u => call[c].pc \notin Revoking

\* Once the revocation behind a ban or a suspension is through, AuthRequired
\* lets none of the user's sessions in, whichever logins, refreshes and
\* verifications were under way, but for those whose issue ran across a
\* revocation and those an earlier revocation lost.
BannedIsOut ==
  \A u \in Users : account[u] \in Blocked /\ Cleared(u) =>
    \A s \in Sessions : OwnerOf[s] = u /\ Admitted(s) => s \in late \cup lost

\* The comment on CanLogin: banned and suspended users must not receive tokens.
\* VerifyEmail issues them to the user it read, without asking CanLogin.
NoTokensForBlocked == \A s \in held : claims[s] \notin Blocked

\* The comments on the two token readers: deleted after retrieval to ensure
\* single use.  Two requests may both GET the link before either DEL.
LinkSingleUse ==
  \A c, d \in Calls :
    c # d /\ At(c, "burn") /\ At(d, "burn") => call[c].key # call[d].key
=============================================================================
