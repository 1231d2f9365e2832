--------------------------- MODULE AdminAuthProofs ----------------------------
(***************************************************************************)
(* Proofs of the safety properties of AdminAuth, for any admins, sessions, *)
(* links, calls and numbers of faults.                                     *)
(***************************************************************************)
EXTENDS AdminAuth, TLAPS

(***************************************************************************)
(* Calls                                                                   *)
(***************************************************************************)
Others(c) == \A d \in Calls : d # c => call'[d] = call[d]

LEMMA IdleType == Idle \in Call
BY DEF Idle, Call, Steps

LEMMA OneCall ==
  ASSUME call \in [Calls -> Call], NEW c \in Calls, NEW r \in Call,
         call' = [call EXCEPT ![c] = r]
  PROVE  call' \in [Calls -> Call] /\ call'[c] = r /\ Others(c)
BY DEF Others

LEMMA StopCall ==
  ASSUME call \in [Calls -> Call], NEW c \in Calls, Stop(c)
  PROVE  call' \in [Calls -> Call] /\ call'[c] = Idle /\ Others(c)
BY IdleType, OneCall DEF Stop

LEMMA GotoCall ==
  ASSUME call \in [Calls -> Call], NEW c \in Calls, NEW step \in Steps, Goto(c, step)
  PROVE  /\ call' \in [Calls -> Call]
         /\ Others(c)
         /\ call'[c].pc = step
         /\ call'[c].user = call[c].user
         /\ call'[c].key = call[c].key
         /\ call'[c].old = call[c].old
         /\ call'[c].link = call[c].link
         /\ call'[c].ids = call[c].ids
<1>1. call[c] \in Call
  OBVIOUS
<1>2. [call[c] EXCEPT !.pc = step] \in Call
  BY <1>1 DEF Call
<1>3. call' = [call EXCEPT ![c] = [call[c] EXCEPT !.pc = step]]
  BY DEF Goto
<1>4. call' \in [Calls -> Call] /\ call'[c] = [call[c] EXCEPT !.pc = step] /\ Others(c)
  BY <1>2, <1>3, OneCall
<1>5. QED
  BY <1>1, <1>4 DEF Call

\* A call under way is for an admin, and has what it is about.
Busy(r) ==
  /\ r.pc # "idle" => r.user \in Admins
  /\ r.pc \in Issuing => r.key \in Sessions
  /\ r.pc \in {"admin", "rotate"} => r.old \in Sessions
  /\ r.pc \in {"burn", "update"} => r.link \in Links
  /\ r.link # None => r.pc \in {"burn", "update"} \cup Revoking

BusyInv == \A c \in Calls : Busy(call[c])

Typed == TypeOK /\ BusyInv

LEMMA FaultType ==
  ASSUME faults \in 0 .. MaxFaults, NoFault \/ Fault
  PROVE  faults' \in 0 .. MaxFaults
BY FaultAssumption DEF NoFault, Fault

LEMMA OwnerType ==
  /\ \A s \in Sessions : OwnerOf[s] \in Admins
  /\ \A l \in Links : OwnerOf[l] \in Admins
BY OwnerAssumption

(***************************************************************************)
(* What each action does                                                   *)
(***************************************************************************)
LEMMA LoginFacts ==
  ASSUME Typed, NEW c \in Calls, NEW s \in Sessions, Login(c, s)
  PROVE  /\ call' \in [Calls -> Call] /\ Others(c) /\ call[c].pc = "idle"
         /\ call'[c].pc = "set" /\ call'[c].user = OwnerOf[s] /\ call'[c].key = s
         /\ call'[c].old = None /\ call'[c].link = None /\ call'[c].ids = {}
         /\ s \notin used /\ used' = used \cup {s}
         /\ origin' = [origin EXCEPT ![s] = Credentials(OwnerOf[s])]
         /\ line' = [line EXCEPT ![s] = {s}]
         /\ late' = IF BeingRevoked(OwnerOf[s]) THEN late \cup {s} ELSE late
         /\ UNCHANGED <<password, secret, links, live, index, held, resets, stray, forked, rushed,
                        botched, faults>>
<1> DEFINE r == [Idle EXCEPT !.pc = "set", !.user = OwnerOf[s], !.key = s]
<1>1. /\ r \in Call /\ r.pc = "set" /\ r.user = OwnerOf[s] /\ r.key = s
      /\ r.old = None /\ r.link = None /\ r.ids = {}
  BY OwnerType DEF Idle, Call, Steps
<1> HIDE DEF r
<1>2. call' \in [Calls -> Call] /\ call'[c] = r /\ Others(c) /\ call[c].pc = "idle"
  BY <1>1, OneCall DEF Login, Start, At, Typed, TypeOK, r
<1>3. /\ s \notin used /\ used' = used \cup {s}
      /\ origin' = [origin EXCEPT ![s] = Credentials(OwnerOf[s])]
      /\ line' = [line EXCEPT ![s] = {} \cup {s}]
      /\ late' = IF BeingRevoked(OwnerOf[s]) THEN late \cup {s} ELSE late
      /\ UNCHANGED <<password, secret, links, live, index, held, resets, stray, forked, rushed,
                     botched, faults>>
  BY DEF Login, GenerateTokenPair, database, redis
<1>4. QED
  BY <1>1, <1>2, <1>3

LEMMA StoreSessionFacts ==
  ASSUME Typed, NEW c \in Calls, StoreSession(c)
  PROVE  /\ call' \in [Calls -> Call] /\ Others(c) /\ call[c].pc = "set"
         /\ call'[c].pc = "add" /\ call'[c].user = call[c].user /\ call'[c].key = call[c].key
         /\ call'[c].old = call[c].old /\ call'[c].link = call[c].link /\ call'[c].ids = call[c].ids
         /\ live' = live \cup {call[c].key}
         /\ UNCHANGED <<password, secret, links, index, used, held, origin, line, resets, late,
                        stray, forked, rushed, botched, faults>>
BY GotoCall DEF StoreSession, At, Steps, Typed, TypeOK, database, minted, marks

LEMMA RegisterFacts ==
  ASSUME Typed, NEW c \in Calls, Register(c)
  PROVE  /\ call' \in [Calls -> Call] /\ Others(c) /\ call[c].pc = "add" /\ call'[c] = Idle
         /\ \/ /\ index' = [index EXCEPT ![OwnerOf[call[c].key]] = @ \cup {call[c].key}]
               /\ held' = held \cup {call[c].key}
               /\ UNCHANGED stray
            \/ /\ index' \in {index, [index EXCEPT ![OwnerOf[call[c].key]] = @ \cup {call[c].key}]}
               /\ stray' = stray \cup {call[c].key}
               /\ UNCHANGED held
         /\ NoFault \/ Fault
         /\ UNCHANGED <<password, secret, links, live, used, origin, line, resets, late, forked,
                        rushed, botched>>
BY StopCall DEF Register, At, Typed, TypeOK, database

LEMMA RefreshFacts ==
  ASSUME Typed, NEW c \in Calls, NEW old \in Sessions, NEW s \in Sessions, RefreshTokens(c, old, s)
  PROVE  /\ call' \in [Calls -> Call] /\ Others(c) /\ call[c].pc = "idle"
         /\ call'[c].pc = "admin" /\ call'[c].user = OwnerOf[old] /\ call'[c].key = s
         /\ call'[c].old = old /\ call'[c].link = None /\ call'[c].ids = {}
         /\ old \in held /\ old \in live /\ OwnerOf[s] = OwnerOf[old]
         /\ s \notin used /\ used' = used \cup {s}
         /\ origin' = [origin EXCEPT ![s] = origin[old]]
         /\ line' = [line EXCEPT ![s] = line[old] \cup {s}]
         /\ late' = IF BeingRevoked(OwnerOf[s]) THEN late \cup {s} ELSE late
         /\ forked' = IF InHand(c, old) THEN forked \cup {old} ELSE forked
         /\ UNCHANGED <<password, secret, links, live, index, held, resets, stray, rushed, botched,
                        faults>>
<1> DEFINE r == [Idle EXCEPT !.pc = "admin", !.user = OwnerOf[old], !.key = s, !.old = old]
<1>1. /\ r \in Call /\ r.pc = "admin" /\ r.user = OwnerOf[old] /\ r.key = s
      /\ r.old = old /\ r.link = None /\ r.ids = {}
  BY OwnerType DEF Idle, Call, Steps
<1> HIDE DEF r
<1>2. call' \in [Calls -> Call] /\ call'[c] = r /\ Others(c) /\ call[c].pc = "idle"
  BY <1>1, OneCall DEF RefreshTokens, Start, At, Typed, TypeOK, r
<1>3. /\ old \in held /\ old \in live /\ OwnerOf[s] = OwnerOf[old]
      /\ s \notin used /\ used' = used \cup {s}
      /\ origin' = [origin EXCEPT ![s] = origin[old]]
      /\ line' = [line EXCEPT ![s] = line[old] \cup {s}]
      /\ late' = IF BeingRevoked(OwnerOf[s]) THEN late \cup {s} ELSE late
      /\ forked' = IF InHand(c, old) THEN forked \cup {old} ELSE forked
      /\ UNCHANGED <<password, secret, links, live, index, held, resets, stray, rushed, botched,
                     faults>>
  BY DEF RefreshTokens, GetSession, GenerateTokenPair, database, redis
<1>4. QED
  BY <1>1, <1>2, <1>3

LEMMA GetByIDFacts ==
  ASSUME Typed, NEW c \in Calls, GetByID(c)
  PROVE  /\ call' \in [Calls -> Call] /\ Others(c) /\ call[c].pc = "admin"
         /\ call'[c].pc = "rotate" /\ call'[c].user = call[c].user /\ call'[c].key = call[c].key
         /\ call'[c].old = call[c].old /\ call'[c].link = call[c].link /\ call'[c].ids = call[c].ids
         /\ UNCHANGED <<password, secret, links, live, index, used, held, origin, line, resets, late,
                        stray, forked, rushed, botched, faults>>
BY GotoCall DEF GetByID, At, Steps, Typed, TypeOK, database, redis, minted, marks

LEMMA RotateFacts ==
  ASSUME Typed, NEW c \in Calls, Rotate(c)
  PROVE  /\ call' \in [Calls -> Call] /\ Others(c) /\ call[c].pc = "rotate"
         /\ call'[c].pc = "set" /\ call'[c].user = call[c].user /\ call'[c].key = call[c].key
         /\ call'[c].old = call[c].old /\ call'[c].link = call[c].link /\ call'[c].ids = call[c].ids
         /\ \/ /\ live' = live \ {call[c].old}
               /\ index' = [index EXCEPT ![call[c].user] = @ \ {call[c].old}]
               /\ UNCHANGED forked
            \/ /\ live' \in {live, live \ {call[c].old}}
               /\ forked' = forked \cup {call[c].old}
               /\ UNCHANGED index
         /\ NoFault \/ Fault
         /\ UNCHANGED <<password, secret, links, used, held, origin, line, resets, late, stray,
                        rushed, botched>>
BY GotoCall DEF Rotate, RevokeSession, At, Steps, Typed, TypeOK, database, minted

\* A session is revoked, or half of it fails.
LEMMA RevokeFacts ==
  ASSUME NEW a, NEW s, \/ Logout(s) /\ a = OwnerOf[s]
                       \/ RevokeOne(a, s)
  PROVE  /\ \/ live' = live \ {s} /\ index' = [index EXCEPT ![a] = @ \ {s}]
            \/ live' \in {live, live \ {s}} /\ UNCHANGED index
         /\ NoFault \/ Fault
         /\ UNCHANGED <<password, secret, links, call, used, held, origin, line, resets, late, stray,
                        forked, rushed, botched>>
BY DEF Logout, RevokeOne, RevokeSession, database, minted, marks

\* A call that issues nothing starts.
LEMMA StartFacts ==
  ASSUME Typed, NEW c \in Calls, NEW r \in Call, Start(c, r)
  PROVE  call' \in [Calls -> Call] /\ Others(c) /\ call[c].pc = "idle" /\ call'[c] = r
BY OneCall DEF Start, At, Typed, TypeOK

LEMMA LogoutAllFacts ==
  ASSUME Typed, NEW c \in Calls, NEW a \in Admins, LogoutAll(c, a)
  PROVE  /\ call' \in [Calls -> Call] /\ Others(c) /\ call[c].pc = "idle"
         /\ call'[c].pc = "members" /\ call'[c].user = a /\ call'[c].link = None /\ call'[c].ids = {}
         /\ UNCHANGED <<password, secret, links, live, index, used, held, origin, line, resets, late,
                        stray, forked, rushed, botched, faults>>
<1> DEFINE r == [Idle EXCEPT !.pc = "members", !.user = a]
<1>1. r \in Call /\ r.pc = "members" /\ r.user = a /\ r.link = None /\ r.ids = {}
  BY DEF Idle, Call, Steps
<1>2. Start(c, r) /\ UNCHANGED <<password, secret, links, live, index, used, held, origin, line,
                                 resets, late, stray, forked, rushed, botched, faults>>
  BY DEF LogoutAll, database, redis, minted, marks
<1> HIDE DEF r
<1>3. QED
  BY <1>1, <1>2, StartFacts

LEMMA ReadMembersFacts ==
  ASSUME Typed, NEW c \in Calls, ReadMembers(c)
  PROVE  /\ call' \in [Calls -> Call] /\ Others(c) /\ call[c].pc = "members"
         /\ \/ /\ \/ index[call[c].user] = {} /\ call'[c] = Idle
                  \/ /\ call'[c].pc = "del" /\ call'[c].ids = index[call[c].user]
                     /\ call'[c].user = call[c].user /\ call'[c].link = call[c].link
               /\ late' = late \cup {call[d].key : d \in {x \in Calls : /\ call[x].user = call[c].user
                                                                       /\ call[x].pc \in Issuing}}
               /\ UNCHANGED botched
            \/ /\ call'[c] = Idle
               /\ botched' = IF call[c].link # None THEN botched \cup {call[c].user} ELSE botched
               /\ UNCHANGED late
         /\ NoFault \/ Fault
         /\ UNCHANGED <<password, secret, links, live, index, used, held, origin, line, resets, stray,
                        forked, rushed>>
<1>1. /\ call[c].pc = "members"
      /\ NoFault \/ Fault
      /\ UNCHANGED <<password, secret, links, live, index, used, held, origin, line, resets, stray,
                     forked, rushed>>
  BY DEF ReadMembers, At, database, redis, minted
<1>2. CASE /\ Stop(c)
           /\ botched' = IF call[c].link # None THEN botched \cup {call[c].user} ELSE botched
           /\ UNCHANGED late
  BY <1>1, <1>2, StopCall DEF Typed, TypeOK
<1>3. CASE /\ IF index[call[c].user] = {} THEN Stop(c)
              ELSE call' = [call EXCEPT ![c].pc = "del", ![c].ids = index[call[c].user]]
           /\ late' = late \cup {call[d].key : d \in {x \in Calls : /\ call[x].user = call[c].user
                                                                   /\ call[x].pc \in Issuing}}
           /\ UNCHANGED botched
  <2>1. CASE index[call[c].user] = {}
    BY <1>1, <1>3, <2>1, StopCall DEF Typed, TypeOK
  <2>2. CASE index[call[c].user] # {}
    <3> DEFINE r == [call[c] EXCEPT !.pc = "del", !.ids = index[call[c].user]]
    <3>1. call[c] \in Call /\ call \in [Calls -> Call] /\ index[call[c].user] \in SUBSET Sessions
      BY <1>1 DEF Typed, TypeOK, BusyInv, Busy
    <3>2. /\ r \in Call /\ r.pc = "del" /\ r.ids = index[call[c].user]
          /\ r.user = call[c].user /\ r.link = call[c].link
      BY <3>1 DEF Call, Steps
    <3>3. call' = [call EXCEPT ![c] = r]
      BY <1>3, <2>2
    <3> HIDE DEF r
    <3>4. call' \in [Calls -> Call] /\ call'[c] = r /\ Others(c)
      BY <3>1, <3>2, <3>3, OneCall
    <3>5. QED
      BY <1>1, <1>3, <3>2, <3>4
  <2>3. QED
    BY <2>1, <2>2
<1>4. QED
  BY <1>2, <1>3 DEF ReadMembers

LEMMA DeleteMembersFacts ==
  ASSUME Typed, NEW c \in Calls, DeleteMembers(c)
  PROVE  /\ call' \in [Calls -> Call] /\ Others(c) /\ call[c].pc = "del"
         /\ \/ /\ live' = live \ call[c].ids
               /\ call'[c].pc = "drop" /\ call'[c].user = call[c].user
               /\ call'[c].link = call[c].link /\ call'[c].ids = call[c].ids
               /\ UNCHANGED botched
            \/ /\ live' \subseteq live
               /\ call'[c] = Idle
               /\ botched' = IF call[c].link # None THEN botched \cup {call[c].user} ELSE botched
         /\ NoFault \/ Fault
         /\ UNCHANGED <<password, secret, links, index, used, held, origin, line, resets, late, stray,
                        forked, rushed>>
<1>1. /\ call[c].pc = "del"
      /\ NoFault \/ Fault
      /\ UNCHANGED <<password, secret, links, index, used, held, origin, line, resets, late, stray,
                     forked, rushed>>
  BY DEF DeleteMembers, At, database, minted
<1>2. CASE live' = live \ call[c].ids /\ Goto(c, "drop") /\ UNCHANGED botched
  BY <1>1, <1>2, GotoCall DEF Typed, TypeOK, Steps
<1>3. CASE /\ live' \in {live \ gone : gone \in SUBSET call[c].ids}
           /\ Stop(c)
           /\ botched' = IF call[c].link # None THEN botched \cup {call[c].user} ELSE botched
  BY <1>1, <1>3, StopCall DEF Typed, TypeOK
<1>4. QED
  BY <1>2, <1>3 DEF DeleteMembers

LEMMA DropIndexFacts ==
  ASSUME Typed, NEW c \in Calls, DropIndex(c)
  PROVE  /\ call' \in [Calls -> Call] /\ Others(c) /\ call[c].pc = "drop" /\ call'[c] = Idle
         /\ index' = [index EXCEPT ![call[c].user] = {}] \/ UNCHANGED index
         /\ NoFault \/ Fault
         /\ UNCHANGED <<password, secret, links, live, used, held, origin, line, resets, late, stray,
                        forked, rushed, botched>>
BY StopCall DEF DropIndex, At, Typed, TypeOK, database, minted, marks

LEMMA GetActiveSessionsFacts ==
  ASSUME Typed, NEW c \in Calls, NEW a \in Admins, GetActiveSessions(c, a)
  PROVE  /\ call' \in [Calls -> Call] /\ Others(c) /\ call[c].pc = "idle"
         /\ call'[c].pc = "mget" /\ call'[c].user = a /\ call'[c].link = None
         /\ call'[c].ids = index[a]
         /\ UNCHANGED <<password, secret, links, live, index, used, held, origin, line, resets, late,
                        stray, forked, rushed, botched, faults>>
<1> DEFINE r == [Idle EXCEPT !.pc = "mget", !.user = a, !.ids = index[a]]
<1>1. r \in Call /\ r.pc = "mget" /\ r.user = a /\ r.link = None /\ r.ids = index[a]
  BY DEF Idle, Call, Steps, Typed, TypeOK
<1>2. Start(c, r) /\ UNCHANGED <<password, secret, links, live, index, used, held, origin, line,
                                 resets, late, stray, forked, rushed, botched, faults>>
  BY DEF GetActiveSessions, database, redis, minted, marks
<1> HIDE DEF r
<1>3. QED
  BY <1>1, <1>2, StartFacts

LEMMA ReadListedFacts ==
  ASSUME Typed, NEW c \in Calls, ReadListed(c)
  PROVE  /\ call' \in [Calls -> Call] /\ Others(c) /\ call[c].pc = "mget"
         /\ \/ call'[c] = Idle
            \/ /\ call'[c].pc = "prune" /\ call'[c].user = call[c].user
               /\ call'[c].link = call[c].link /\ call'[c].ids = call[c].ids \ live
         /\ UNCHANGED <<password, secret, links, live, index, used, held, origin, line, resets, late,
                        stray, forked, rushed, botched, faults>>
<1> DEFINE stale == call[c].ids \ live
           r     == [call[c] EXCEPT !.pc = "prune", !.ids = stale]
<1>1. /\ call[c].pc = "mget"
      /\ IF stale = {} THEN Stop(c) ELSE call' = [call EXCEPT ![c].pc = "prune", ![c].ids = stale]
      /\ UNCHANGED <<password, secret, links, live, index, used, held, origin, line, resets, late,
                     stray, forked, rushed, botched, faults>>
  BY DEF ReadListed, At, database, redis, minted, marks
<1>2. call[c] \in Call /\ call \in [Calls -> Call]
  BY DEF Typed, TypeOK
<1>3. /\ r \in Call /\ r.pc = "prune" /\ r.ids = stale /\ r.user = call[c].user /\ r.link = call[c].link
  BY <1>2 DEF Call, Steps
<1>4. CASE stale = {}
  BY <1>1, <1>2, <1>4, StopCall
<1>5. CASE stale # {}
  <2>1. call' = [call EXCEPT ![c] = r]
    BY <1>1, <1>5
  <2> HIDE DEF r
  <2>2. call' \in [Calls -> Call] /\ call'[c] = r /\ Others(c)
    BY <1>2, <1>3, <2>1, OneCall
  <2>3. QED
    BY <1>1, <1>3, <2>2
<1>6. QED
  BY <1>4, <1>5

LEMMA PruneFacts ==
  ASSUME Typed, NEW c \in Calls, Prune(c)
  PROVE  /\ call' \in [Calls -> Call] /\ Others(c) /\ call[c].pc = "prune" /\ call'[c] = Idle
         /\ index' = [index EXCEPT ![call[c].user] = @ \ call[c].ids]
         /\ UNCHANGED <<password, secret, links, live, used, held, origin, line, resets, late, stray,
                        forked, rushed, botched, faults>>
BY StopCall DEF Prune, At, Typed, TypeOK, database, minted, marks

LEMMA StoreLinkFacts ==
  ASSUME NEW l, ForgotPassword(l) \/ ForgotSecretRequest(l)
  PROVE  /\ l \in Links
         /\ l \notin links /\ resets[l] = 0 /\ l \notin rushed
         /\ \A c \in Calls : call[c].link # l
         /\ links' = links \cup {l}
         /\ UNCHANGED <<password, secret, live, index, call, used, held, origin, line, resets, late,
                        stray, forked, rushed, botched, faults>>
BY DEF ForgotPassword, ForgotSecretRequest, StoreLink, Links, database, minted, marks

LEMMA GetAdminIDFacts ==
  ASSUME Typed, NEW c \in Calls, NEW l \in Links, GetAdminID(c, l)
  PROVE  /\ call' \in [Calls -> Call] /\ Others(c) /\ call[c].pc = "idle"
         /\ call'[c].pc = "burn" /\ call'[c].user = OwnerOf[l] /\ call'[c].link = l
         /\ call'[c].ids = {}
         /\ l \in links
         /\ rushed' = IF \E d \in Calls : call[d].link = l THEN rushed \cup {l} ELSE rushed
         /\ UNCHANGED <<password, secret, links, live, index, used, held, origin, line, resets, late,
                        stray, forked, botched, faults>>
<1> DEFINE r == [Idle EXCEPT !.pc = "burn", !.user = OwnerOf[l], !.link = l]
<1>1. r \in Call /\ r.pc = "burn" /\ r.user = OwnerOf[l] /\ r.link = l /\ r.ids = {}
  BY OwnerType DEF Idle, Call, Steps
<1>2. /\ Start(c, r) /\ l \in links
      /\ rushed' = IF \E d \in Calls : call[d].link = l THEN rushed \cup {l} ELSE rushed
      /\ UNCHANGED <<password, secret, links, live, index, used, held, origin, line, resets, late,
                     stray, forked, botched, faults>>
  BY DEF GetAdminID, database, redis, minted
<1> HIDE DEF r
<1>3. QED
  BY <1>1, <1>2, StartFacts

LEMMA BurnLinkFacts ==
  ASSUME Typed, NEW c \in Calls, BurnLink(c)
  PROVE  /\ call' \in [Calls -> Call] /\ Others(c) /\ call[c].pc = "burn"
         /\ call'[c].pc = "update" /\ call'[c].user = call[c].user /\ call'[c].link = call[c].link
         /\ call'[c].ids = call[c].ids
         /\ \/ links' = links \ {call[c].link} /\ UNCHANGED rushed
            \/ UNCHANGED links /\ rushed' = rushed \cup {call[c].link}
         /\ NoFault \/ Fault
         /\ UNCHANGED <<password, secret, live, index, used, held, origin, line, resets, late, stray,
                        forked, botched>>
BY GotoCall DEF BurnLink, At, Steps, Typed, TypeOK, database, minted

LEMMA ResetFacts ==
  ASSUME Typed, NEW c \in Calls, Reset(c)
  PROVE  /\ call' \in [Calls -> Call] /\ Others(c) /\ call[c].pc = "update"
         /\ call'[c].pc = "members" /\ call'[c].user = call[c].user /\ call'[c].link = call[c].link
         /\ call'[c].ids = call[c].ids
         /\ \/ password' = [password EXCEPT ![call[c].user] = @ + 1] /\ UNCHANGED secret
            \/ secret' = [secret EXCEPT ![call[c].user] = @ + 1] /\ UNCHANGED password
         /\ resets' = [resets EXCEPT ![call[c].link] = @ + 1]
         /\ UNCHANGED <<links, live, index, used, held, origin, line, late, stray, forked, rushed,
                        botched, faults>>
BY GotoCall DEF Reset, UpdatePassword, UpdateSecretKey, At, Steps, Typed, TypeOK, redis, minted, marks

LEMMA FailFacts ==
  ASSUME Typed, NEW c \in Calls, Fail(c)
  PROVE  /\ call' \in [Calls -> Call] /\ Others(c) /\ call'[c] = Idle
         /\ call[c].pc \in {"admin", "set", "burn", "update", "mget", "prune"}
         /\ Fault
         /\ UNCHANGED <<password, secret, links, live, index, used, held, origin, line, resets, late,
                        stray, forked, rushed, botched>>
BY StopCall DEF Fail, Typed, TypeOK, database, redis, minted, marks

(***************************************************************************)
(* Types                                                                   *)
(***************************************************************************)
LEMMA BusyCalls ==
  ASSUME BusyInv, NEW c \in Calls, Others(c), Busy(call'[c])
  PROVE  BusyInv'
<1>1. \A d \in Calls : Busy(call'[d])
  BY DEF BusyInv, Others
<1>2. QED
  BY <1>1 DEF BusyInv, Busy

LEMMA BusyIdle == Busy(Idle)
BY DEF Busy, Idle, Issuing, Revoking

\* The parts of TypeOK but the calls and the number of faults.
Types ==
  /\ password \in [Admins -> Nat]
  /\ secret \in [Admins -> Nat]
  /\ links \subseteq Links
  /\ live \subseteq Sessions
  /\ index \in [Admins -> SUBSET Sessions]
  /\ used \subseteq Sessions
  /\ held \subseteq Sessions
  /\ origin \in [Sessions -> Nat \X Nat]
  /\ line \in [Sessions -> SUBSET Sessions]
  /\ resets \in [Links -> Nat]
  /\ late \subseteq Sessions
  /\ stray \subseteq Sessions
  /\ forked \subseteq Sessions
  /\ rushed \subseteq Links
  /\ botched \subseteq Admins

LEMMA AllTypes == TypeOK <=> Types /\ call \in [Calls -> Call] /\ faults \in 0 .. MaxFaults
BY DEF TypeOK, Types

LEMMA AllTypesPrime ==
  TypeOK' <=> Types' /\ call' \in [Calls -> Call] /\ faults' \in 0 .. MaxFaults
BY DEF TypeOK, Types

\* A step that is typed piece by piece is typed.
LEMMA TypedStep ==
  ASSUME Typed, NEW c \in Calls, call' \in [Calls -> Call], Others(c), Busy(call'[c]),
         NoFault \/ Fault, Types'
  PROVE  Typed'
<1>1. faults' \in 0 .. MaxFaults
  BY FaultType, AllTypes DEF Typed
<1>2. TypeOK'
  BY <1>1, AllTypesPrime
<1>3. BusyInv'
  BY BusyCalls DEF Typed
<1>4. QED
  BY <1>2, <1>3 DEF Typed

LEMMA LoginTyped ==
  ASSUME Typed, NEW c \in Calls, NEW s \in Sessions, Login(c, s)
  PROVE  Typed'
<1>1. Types
  BY AllTypes DEF Typed
<1>2. Busy(call[c])
  BY DEF Typed, BusyInv
<1>3. Types'
  <2>1. Credentials(OwnerOf[s]) \in Nat \X Nat
    BY <1>1, OwnerType DEF Types, Credentials
  <2>2. late' \in {late, late \cup {s}}
    BY LoginFacts
  <2>3. origin' \in [Sessions -> Nat \X Nat]
    BY <1>1, <2>1, LoginFacts DEF Types
  <2>4. QED
    BY <1>1, <2>2, <2>3, LoginFacts DEF Types
<1>4. Busy(call'[c])
  BY <1>1, <1>2, LoginFacts, OwnerType DEF Busy, Issuing, Revoking, Types
<1>5. NoFault \/ Fault
  BY LoginFacts DEF NoFault
<1>6. QED
  BY <1>3, <1>4, <1>5, LoginFacts, TypedStep

LEMMA StoreSessionTyped ==
  ASSUME Typed, NEW c \in Calls, StoreSession(c)
  PROVE  Typed'
<1>1. Types
  BY AllTypes DEF Typed
<1>2. Busy(call[c])
  BY DEF Typed, BusyInv
<1>3. Types'
  BY <1>1, <1>2, StoreSessionFacts DEF Types, Busy, Issuing, Revoking
<1>4. Busy(call'[c])
  BY <1>1, <1>2, StoreSessionFacts, OwnerType DEF Busy, Issuing, Revoking, Types
<1>5. NoFault \/ Fault
  BY StoreSessionFacts DEF NoFault
<1>6. QED
  BY <1>3, <1>4, <1>5, StoreSessionFacts, TypedStep

LEMMA RegisterTyped ==
  ASSUME Typed, NEW c \in Calls, Register(c)
  PROVE  Typed'
<1>1. Types
  BY AllTypes DEF Typed
<1>2. Busy(call[c])
  BY DEF Typed, BusyInv
<1>3. Types'
  <2>1. call[c].key \in Sessions /\ OwnerOf[call[c].key] \in Admins
    BY <1>2, RegisterFacts, OwnerType DEF Busy, Issuing
  <2>2. index' \in [Admins -> SUBSET Sessions]
    <3>1. index[OwnerOf[call[c].key]] \cup {call[c].key} \in SUBSET Sessions
      BY <1>1, <2>1 DEF Types
    <3>2. \/ index' = index
          \/ index' = [index EXCEPT ![OwnerOf[call[c].key]] = index[OwnerOf[call[c].key]] \cup {call[c].key}]
      BY RegisterFacts
    <3>3. QED
      BY <1>1, <3>1, <3>2 DEF Types
  <2>3. held' \in {held, held \cup {call[c].key}} /\ stray' \in {stray, stray \cup {call[c].key}}
    BY RegisterFacts
  <2>4. QED
    BY <1>1, <2>1, <2>2, <2>3, RegisterFacts DEF Types
<1>4. Busy(call'[c])
  BY RegisterFacts, BusyIdle
<1>5. NoFault \/ Fault
  BY RegisterFacts DEF NoFault
<1>6. QED
  BY <1>3, <1>4, <1>5, RegisterFacts, TypedStep

LEMMA RefreshTyped ==
  ASSUME Typed, NEW c \in Calls, NEW old \in Sessions, NEW s \in Sessions, RefreshTokens(c, old, s)
  PROVE  Typed'
<1>1. Types
  BY AllTypes DEF Typed
<1>2. Busy(call[c])
  BY DEF Typed, BusyInv
<1>3. Types'
  <2>1. late' \in {late, late \cup {s}} /\ forked' \in {forked, forked \cup {old}}
    BY RefreshFacts
  <2>2. line' \in [Sessions -> SUBSET Sessions] /\ origin' \in [Sessions -> Nat \X Nat]
    <3>1. line[old] \cup {s} \in SUBSET Sessions /\ origin[old] \in Nat \X Nat
      BY <1>1 DEF Types
    <3>2. /\ line' = [line EXCEPT ![s] = line[old] \cup {s}]
          /\ origin' = [origin EXCEPT ![s] = origin[old]]
      BY RefreshFacts
    <3>3. QED
      BY <1>1, <3>1, <3>2 DEF Types
  <2>3. QED
    BY <1>1, <2>1, <2>2, RefreshFacts DEF Types
<1>4. Busy(call'[c])
  BY <1>1, <1>2, RefreshFacts, OwnerType DEF Busy, Issuing, Revoking, Types
<1>5. NoFault \/ Fault
  BY RefreshFacts DEF NoFault
<1>6. QED
  BY <1>3, <1>4, <1>5, RefreshFacts, TypedStep

LEMMA GetByIDTyped ==
  ASSUME Typed, NEW c \in Calls, GetByID(c)
  PROVE  Typed'
<1>1. Types
  BY AllTypes DEF Typed
<1>2. Busy(call[c])
  BY DEF Typed, BusyInv
<1>3. Types'
  BY <1>1, <1>2, GetByIDFacts DEF Types, Busy, Issuing, Revoking
<1>4. Busy(call'[c])
  BY <1>1, <1>2, GetByIDFacts, OwnerType DEF Busy, Issuing, Revoking, Types
<1>5. NoFault \/ Fault
  BY GetByIDFacts DEF NoFault
<1>6. QED
  BY <1>3, <1>4, <1>5, GetByIDFacts, TypedStep

LEMMA RotateTyped ==
  ASSUME Typed, NEW c \in Calls, Rotate(c)
  PROVE  Typed'
<1>1. Types
  BY AllTypes DEF Typed
<1>2. Busy(call[c])
  BY DEF Typed, BusyInv
<1>3. Types'
  BY <1>1, <1>2, RotateFacts DEF Types, Busy, Issuing, Revoking
<1>4. Busy(call'[c])
  BY <1>1, <1>2, RotateFacts, OwnerType DEF Busy, Issuing, Revoking, Types
<1>5. NoFault \/ Fault
  BY RotateFacts DEF NoFault
<1>6. QED
  BY <1>3, <1>4, <1>5, RotateFacts, TypedStep

LEMMA LogoutAllTyped ==
  ASSUME Typed, NEW c \in Calls, NEW a \in Admins, LogoutAll(c, a)
  PROVE  Typed'
<1>1. Types
  BY AllTypes DEF Typed
<1>2. Busy(call[c])
  BY DEF Typed, BusyInv
<1>3. Types'
  BY <1>1, <1>2, LogoutAllFacts DEF Types, Busy, Issuing, Revoking
<1>4. Busy(call'[c])
  BY <1>1, <1>2, LogoutAllFacts, OwnerType DEF Busy, Issuing, Revoking, Types
<1>5. NoFault \/ Fault
  BY LogoutAllFacts DEF NoFault
<1>6. QED
  BY <1>3, <1>4, <1>5, LogoutAllFacts, TypedStep

LEMMA ReadMembersTyped ==
  ASSUME Typed, NEW c \in Calls, ReadMembers(c)
  PROVE  Typed'
<1>1. Types
  BY AllTypes DEF Typed
<1>2. Busy(call[c])
  BY DEF Typed, BusyInv
<1>3. Types'
  <2>1. call[c].user \in Admins
    BY <1>2, ReadMembersFacts DEF Busy
  <2>2. {call[d].key : d \in {x \in Calls : /\ call[x].user = call[c].user
                                           /\ call[x].pc \in Issuing}} \subseteq Sessions
    BY DEF Typed, BusyInv, Busy
  <2>3. late' \subseteq Sessions /\ botched' \subseteq Admins
    BY <1>1, <2>1, <2>2, ReadMembersFacts DEF Types
  <2>4. QED
    BY <1>1, <2>3, ReadMembersFacts DEF Types
<1>4. Busy(call'[c])
  BY <1>1, <1>2, ReadMembersFacts, BusyIdle DEF Busy, Issuing, Revoking, Types
<1>5. NoFault \/ Fault
  BY ReadMembersFacts DEF NoFault
<1>6. QED
  BY <1>3, <1>4, <1>5, ReadMembersFacts, TypedStep

LEMMA DeleteMembersTyped ==
  ASSUME Typed, NEW c \in Calls, DeleteMembers(c)
  PROVE  Typed'
<1>1. Types
  BY AllTypes DEF Typed
<1>2. Busy(call[c])
  BY DEF Typed, BusyInv
<1>3. Types'
  BY <1>1, <1>2, DeleteMembersFacts DEF Types, Busy, Issuing, Revoking
<1>4. Busy(call'[c])
  BY <1>1, <1>2, DeleteMembersFacts, BusyIdle DEF Busy, Issuing, Revoking, Types
<1>5. NoFault \/ Fault
  BY DeleteMembersFacts DEF NoFault
<1>6. QED
  BY <1>3, <1>4, <1>5, DeleteMembersFacts, TypedStep

LEMMA DropIndexTyped ==
  ASSUME Typed, NEW c \in Calls, DropIndex(c)
  PROVE  Typed'
<1>1. Types
  BY AllTypes DEF Typed
<1>2. Busy(call[c])
  BY DEF Typed, BusyInv
<1>3. Types'
  BY <1>1, <1>2, DropIndexFacts DEF Types, Busy, Issuing, Revoking
<1>4. Busy(call'[c])
  BY DropIndexFacts, BusyIdle
<1>5. NoFault \/ Fault
  BY DropIndexFacts DEF NoFault
<1>6. QED
  BY <1>3, <1>4, <1>5, DropIndexFacts, TypedStep

LEMMA GetActiveSessionsTyped ==
  ASSUME Typed, NEW c \in Calls, NEW a \in Admins, GetActiveSessions(c, a)
  PROVE  Typed'
<1>1. Types
  BY AllTypes DEF Typed
<1>2. Busy(call[c])
  BY DEF Typed, BusyInv
<1>3. Types'
  BY <1>1, <1>2, GetActiveSessionsFacts DEF Types, Busy, Issuing, Revoking
<1>4. Busy(call'[c])
  BY <1>1, <1>2, GetActiveSessionsFacts, OwnerType DEF Busy, Issuing, Revoking, Types
<1>5. NoFault \/ Fault
  BY GetActiveSessionsFacts DEF NoFault
<1>6. QED
  BY <1>3, <1>4, <1>5, GetActiveSessionsFacts, TypedStep

LEMMA ReadListedTyped ==
  ASSUME Typed, NEW c \in Calls, ReadListed(c)
  PROVE  Typed'
<1>1. Types
  BY AllTypes DEF Typed
<1>2. Busy(call[c])
  BY DEF Typed, BusyInv
<1>3. Types'
  BY <1>1, <1>2, ReadListedFacts DEF Types, Busy, Issuing, Revoking
<1>4. Busy(call'[c])
  BY <1>1, <1>2, ReadListedFacts, BusyIdle DEF Busy, Issuing, Revoking, Types
<1>5. NoFault \/ Fault
  BY ReadListedFacts DEF NoFault
<1>6. QED
  BY <1>3, <1>4, <1>5, ReadListedFacts, TypedStep

LEMMA PruneTyped ==
  ASSUME Typed, NEW c \in Calls, Prune(c)
  PROVE  Typed'
<1>1. Types
  BY AllTypes DEF Typed
<1>2. Busy(call[c])
  BY DEF Typed, BusyInv
<1>3. Types'
  BY <1>1, <1>2, PruneFacts DEF Types, Busy, Issuing, Revoking
<1>4. Busy(call'[c])
  BY PruneFacts, BusyIdle
<1>5. NoFault \/ Fault
  BY PruneFacts DEF NoFault
<1>6. QED
  BY <1>3, <1>4, <1>5, PruneFacts, TypedStep

LEMMA GetAdminIDTyped ==
  ASSUME Typed, NEW c \in Calls, NEW l \in Links, GetAdminID(c, l)
  PROVE  Typed'
<1>1. Types
  BY AllTypes DEF Typed
<1>2. Busy(call[c])
  BY DEF Typed, BusyInv
<1>3. Types'
  BY <1>1, <1>2, GetAdminIDFacts DEF Types, Busy, Issuing, Revoking
<1>4. Busy(call'[c])
  BY <1>1, <1>2, GetAdminIDFacts, OwnerType DEF Busy, Issuing, Revoking, Types
<1>5. NoFault \/ Fault
  BY GetAdminIDFacts DEF NoFault
<1>6. QED
  BY <1>3, <1>4, <1>5, GetAdminIDFacts, TypedStep

LEMMA BurnLinkTyped ==
  ASSUME Typed, NEW c \in Calls, BurnLink(c)
  PROVE  Typed'
<1>1. Types
  BY AllTypes DEF Typed
<1>2. Busy(call[c])
  BY DEF Typed, BusyInv
<1>3. Types'
  BY <1>1, <1>2, BurnLinkFacts DEF Types, Busy, Issuing, Revoking
<1>4. Busy(call'[c])
  BY <1>1, <1>2, BurnLinkFacts, OwnerType DEF Busy, Issuing, Revoking, Types
<1>5. NoFault \/ Fault
  BY BurnLinkFacts DEF NoFault
<1>6. QED
  BY <1>3, <1>4, <1>5, BurnLinkFacts, TypedStep

LEMMA ResetTyped ==
  ASSUME Typed, NEW c \in Calls, Reset(c)
  PROVE  Typed'
<1>1. Types
  BY AllTypes DEF Typed
<1>2. Busy(call[c])
  BY DEF Typed, BusyInv
<1>3. Types'
  BY <1>1, <1>2, ResetFacts DEF Types, Busy, Issuing, Revoking
<1>4. Busy(call'[c])
  BY <1>1, <1>2, ResetFacts, OwnerType DEF Busy, Issuing, Revoking, Types
<1>5. NoFault \/ Fault
  BY ResetFacts DEF NoFault
<1>6. QED
  BY <1>3, <1>4, <1>5, ResetFacts, TypedStep

LEMMA FailTyped ==
  ASSUME Typed, NEW c \in Calls, Fail(c)
  PROVE  Typed'
<1>1. Types
  BY AllTypes DEF Typed
<1>2. Busy(call[c])
  BY DEF Typed, BusyInv
<1>3. Types'
  BY <1>1, <1>2, FailFacts DEF Types, Busy, Issuing, Revoking
<1>4. Busy(call'[c])
  BY FailFacts, BusyIdle
<1>5. NoFault \/ Fault
  BY FailFacts DEF NoFault
<1>6. QED
  BY <1>3, <1>4, <1>5, FailFacts, TypedStep

\* The steps of no call.
LEMMA OtherTyped ==
  ASSUME Typed, UNCHANGED call, NoFault \/ Fault, Types'
  PROVE  Typed'
<1>1. faults' \in 0 .. MaxFaults
  BY FaultType, AllTypes DEF Typed
<1>2. TypeOK'
  BY <1>1, AllTypesPrime, AllTypes DEF Typed
<1>3. BusyInv'
  BY DEF Typed, BusyInv, Busy
<1>4. QED
  BY <1>2, <1>3 DEF Typed

LEMMA RevokeTyped ==
  ASSUME Typed, NEW a \in Admins, NEW s \in Sessions, \/ Logout(s) /\ a = OwnerOf[s]
                                                      \/ RevokeOne(a, s)
  PROVE  Typed'
<1>1. Types
  BY AllTypes DEF Typed
<1>2. Types'
  BY <1>1, RevokeFacts DEF Types
<1>3. QED
  BY <1>2, RevokeFacts, OtherTyped

LEMMA StoreLinkTyped ==
  ASSUME Typed, NEW l, ForgotPassword(l) \/ ForgotSecretRequest(l)
  PROVE  Typed'
<1>1. Types
  BY AllTypes DEF Typed
<1>2. Types' /\ NoFault
  BY <1>1, StoreLinkFacts DEF Types, NoFault
<1>3. QED
  BY <1>2, StoreLinkFacts, OtherTyped

LEMMA ExpiryFacts ==
  ASSUME NEW x, SessionExpires(x) \/ LinkExpires(x)
  PROVE  /\ \/ live' = live \ {x} /\ UNCHANGED links
            \/ links' = links \ {x} /\ UNCHANGED live
         /\ UNCHANGED <<password, secret, index, call, used, held, origin, line, resets, late, stray,
                        forked, rushed, botched, faults>>
BY DEF SessionExpires, LinkExpires, database, minted, marks

LEMMA ExpiryTyped ==
  ASSUME Typed, NEW x, SessionExpires(x) \/ LinkExpires(x)
  PROVE  Typed'
<1>1. Types
  BY AllTypes DEF Typed
<1>2. Types' /\ NoFault
  BY <1>1, ExpiryFacts DEF Types, NoFault
<1>3. QED
  BY <1>2, ExpiryFacts, OtherTyped

(***************************************************************************)
(* The steps one by one, with the sessions and links they are about        *)
(***************************************************************************)
CallStep(c) ==
  \/ \E s \in Sessions : Login(c, s)
  \/ \E old, s \in Sessions : RefreshTokens(c, old, s)
  \/ StoreSession(c) \/ Register(c) \/ GetByID(c) \/ Rotate(c)
  \/ \E a \in Admins : LogoutAll(c, a)
  \/ ReadMembers(c) \/ DeleteMembers(c) \/ DropIndex(c)
  \/ \E a \in Admins : GetActiveSessions(c, a)
  \/ ReadListed(c) \/ Prune(c)
  \/ \E l \in Links : GetAdminID(c, l)
  \/ BurnLink(c) \/ Reset(c) \/ Fail(c)

OtherStep ==
  \/ \E a \in Admins, s \in Sessions : \/ Logout(s) /\ a = OwnerOf[s]
                                       \/ RevokeOne(a, s)
  \/ \E l : ForgotPassword(l) \/ ForgotSecretRequest(l)
  \/ \E x : SessionExpires(x) \/ LinkExpires(x)

LEMMA StepsOfNext == Next => OtherStep \/ \E c \in Calls : CallStep(c)
<1> SUFFICES ASSUME Next PROVE OtherStep \/ \E c \in Calls : CallStep(c)
  OBVIOUS
<1>1. CASE HandleLogout \/ HandleRevokeSession
  BY <1>1, OwnerType DEF HandleLogout, HandleRevokeSession, OtherStep
<1>2. CASE HandleForgotPassword \/ HandleForgotSecret
  BY <1>2 DEF HandleForgotPassword, HandleForgotSecret, OtherStep
<1>3. CASE (\E s \in Sessions : SessionExpires(s)) \/ (\E l \in Links : LinkExpires(l))
  BY <1>3 DEF OtherStep
<1>4. ASSUME NEW c \in Calls,
             \/ HandleLogin(c) \/ StoreSession(c) \/ Register(c)
             \/ HandleRefresh(c) \/ GetByID(c) \/ Rotate(c)
             \/ HandleLogoutAll(c) \/ ReadMembers(c) \/ DeleteMembers(c) \/ DropIndex(c)
             \/ HandleGetSessions(c) \/ ReadListed(c) \/ Prune(c)
             \/ HandleResetPassword(c) \/ HandleResetSecret(c) \/ BurnLink(c) \/ Reset(c)
             \/ Fail(c)
      PROVE  CallStep(c)
  BY <1>4 DEF HandleLogin, HandleRefresh, HandleLogoutAll, HandleGetSessions, HandleResetPassword,
              HandleResetSecret, ResetPassword, ResetSecretKey, CallStep
<1>5. QED
  BY <1>1, <1>2, <1>3, <1>4 DEF Next

LEMMA NextTyped == Typed /\ [Next]_vars => Typed'
<1> SUFFICES ASSUME Typed, [Next]_vars PROVE Typed'
  OBVIOUS
<1>1. CASE UNCHANGED vars
  BY <1>1 DEF vars, database, redis, minted, marks, Typed, TypeOK, BusyInv, Busy
<1>2. CASE OtherStep
  BY <1>2, RevokeTyped, StoreLinkTyped, ExpiryTyped DEF OtherStep
<1>3. ASSUME NEW c \in Calls, CallStep(c) PROVE Typed'
  BY <1>3, LoginTyped, RefreshTyped, StoreSessionTyped, RegisterTyped, GetByIDTyped, RotateTyped,
     LogoutAllTyped, ReadMembersTyped, DeleteMembersTyped, DropIndexTyped, GetActiveSessionsTyped,
     ReadListedTyped, PruneTyped, GetAdminIDTyped, BurnLinkTyped, ResetTyped, FailTyped DEF CallStep
<1>4. QED
  BY <1>1, <1>2, <1>3, StepsOfNext

LEMMA InitTyped == Init => Typed
BY IdleType, BusyIdle, FaultAssumption DEF Init, Typed, TypeOK, BusyInv

(***************************************************************************)
(* Mailed links                                                            *)
(***************************************************************************)
\* A link nobody rushed is in the hand of one request; once that has deleted it,
\* it is gone, and before it is used it has set nothing.
LinkInv ==
  \A l \in Links \ rushed :
    /\ \A c, d \in Calls : call[c].link = l /\ call[d].link = l => c = d
    /\ \A c \in Calls : call[c].link = l /\ call[c].pc # "burn" => l \notin links
    /\ l \in links => resets[l] = 0
    /\ \A c \in Calls : call[c].link = l /\ call[c].pc \in {"burn", "update"} => resets[l] = 0
    /\ resets[l] <= 1

\* A step that touches no link.
LEMMA LinkCalm ==
  ASSUME LinkInv, NEW c \in Calls, Others(c), links' \subseteq links, UNCHANGED <<resets, rushed>>,
         \/ call'[c].link = None
         \/ call'[c].link = call[c].link /\ {call[c].pc, call'[c].pc} \subseteq Revoking
  PROVE  LinkInv'
<1>1. ASSUME NEW d \in Calls, NEW l \in Links, call'[d].link = l
      PROVE  /\ call[d].link = l
             /\ call'[d].pc \in {"burn", "update"} => call[d].pc = call'[d].pc
             /\ call'[d].pc # "burn" => call[d].pc # "burn"
  BY <1>1, NoneAssumption DEF Others, Revoking
<1>2. QED
  BY <1>1 DEF LinkInv

LEMMA LinkOther ==
  ASSUME LinkInv, links' \subseteq links, UNCHANGED <<call, resets, rushed>>
  PROVE  LinkInv'
BY DEF LinkInv

LEMMA StoreLinkLink ==
  ASSUME LinkInv, NEW l, ForgotPassword(l) \/ ForgotSecretRequest(l)
  PROVE  LinkInv'
BY StoreLinkFacts DEF LinkInv

LEMMA GetAdminIDLink ==
  ASSUME Typed, LinkInv, NEW c \in Calls, NEW l \in Links, GetAdminID(c, l)
  PROVE  LinkInv'
<1>1. /\ Others(c) /\ call[c].pc = "idle" /\ call'[c].pc = "burn" /\ call'[c].link = l /\ l \in links
      /\ rushed' = IF \E d \in Calls : call[d].link = l THEN rushed \cup {l} ELSE rushed
      /\ UNCHANGED <<links, resets>>
  BY GetAdminIDFacts
<1>2. rushed \subseteq rushed' /\ (l \notin rushed' => \A d \in Calls : call[d].link # l)
  BY <1>1
<1> SUFFICES ASSUME NEW k \in Links \ rushed'
             PROVE  /\ \A d, e \in Calls : call'[d].link = k /\ call'[e].link = k => d = e
                    /\ \A d \in Calls : call'[d].link = k /\ call'[d].pc # "burn" => k \notin links'
                    /\ k \in links' => resets'[k] = 0
                    /\ \A d \in Calls : call'[d].link = k /\ call'[d].pc \in {"burn", "update"}
                                          => resets'[k] = 0
                    /\ resets'[k] <= 1
  BY DEF LinkInv
<1>3. k \in Links \ rushed
  BY <1>2
<1>4. CASE k = l
  BY <1>1, <1>2, <1>3, <1>4 DEF LinkInv, Others
<1>5. CASE k # l
  BY <1>1, <1>3, <1>5 DEF LinkInv, Others
<1>6. QED
  BY <1>4, <1>5

LEMMA BurnLinkLink ==
  ASSUME Typed, LinkInv, NEW c \in Calls, BurnLink(c)
  PROVE  LinkInv'
<1> DEFINE l == call[c].link
<1>1. /\ Others(c) /\ call[c].pc = "burn" /\ call'[c].pc = "update" /\ call'[c].link = l
      /\ \/ links' = links \ {l} /\ UNCHANGED rushed
         \/ UNCHANGED links /\ rushed' = rushed \cup {l}
      /\ UNCHANGED resets
  BY BurnLinkFacts
<1>2. \A d \in Calls : call'[d].link = call[d].link /\ (d # c => call'[d].pc = call[d].pc)
  BY <1>1 DEF Others
<1>3. rushed \subseteq rushed' /\ links' \subseteq links /\ (l \notin rushed' => l \notin links')
  BY <1>1
<1>4. QED
  BY <1>1, <1>2, <1>3 DEF LinkInv

LEMMA ResetLink ==
  ASSUME Typed, LinkInv, NEW c \in Calls, Reset(c)
  PROVE  LinkInv'
<1> DEFINE l == call[c].link
<1>1. /\ Others(c) /\ call[c].pc = "update" /\ call'[c].pc = "members" /\ call'[c].link = l
      /\ resets' = [resets EXCEPT ![l] = @ + 1]
      /\ UNCHANGED <<links, rushed>>
  BY ResetFacts
<1>2. \A d \in Calls : call'[d].link = call[d].link /\ (d # c => call'[d].pc = call[d].pc)
  BY <1>1 DEF Others
<1>3. l \in Links /\ resets \in [Links -> Nat]
  BY <1>1 DEF Typed, TypeOK, BusyInv, Busy
<1>4. resets'[l] = resets[l] + 1 /\ \A k \in Links : k # l => resets'[k] = resets[k]
  BY <1>1, <1>3
<1> HIDE DEF l
<1> SUFFICES ASSUME NEW k \in Links \ rushed
             PROVE  /\ \A d, e \in Calls : call'[d].link = k /\ call'[e].link = k => d = e
                    /\ \A d \in Calls : call'[d].link = k /\ call'[d].pc # "burn" => k \notin links
                    /\ k \in links => resets'[k] = 0
                    /\ \A d \in Calls : call'[d].link = k /\ call'[d].pc \in {"burn", "update"}
                                          => resets'[k] = 0
                    /\ resets'[k] <= 1
  BY <1>1 DEF LinkInv
<1>5. CASE k = l
  <2>1. /\ resets[k] = 0 /\ k \notin links
        /\ \A d \in Calls : call[d].link = k => d = c
    BY <1>1, <1>5 DEF LinkInv, l
  <2>2. resets'[k] = 1
    BY <2>1, <1>4, <1>5
  <2>3. QED
    BY <2>1, <2>2, <1>1, <1>2
<1>6. CASE k # l
  <2>1. resets'[k] = resets[k]
    BY <1>4, <1>6
  <2>2. \A d \in Calls : call'[d].link = k => d # c
    BY <1>1, <1>6
  <2>3. QED
    BY <2>1, <2>2, <1>2 DEF LinkInv
<1>7. QED
  BY <1>5, <1>6

\* A call that neither holds a link nor takes one.
LEMMA Linkless ==
  ASSUME Typed, NEW c \in Calls, call[c].pc \notin {"burn", "update"} \cup Revoking
  PROVE  call[c].link = None
BY DEF Typed, BusyInv, Busy

LEMMA NextLink == Typed /\ LinkInv /\ [Next]_vars => LinkInv'
<1> SUFFICES ASSUME Typed, LinkInv, [Next]_vars PROVE LinkInv'
  OBVIOUS
<1>1. CASE UNCHANGED vars
  BY <1>1, LinkOther DEF vars, redis, marks
<1>2. CASE OtherStep
  BY <1>2, RevokeFacts, ExpiryFacts, LinkOther, StoreLinkLink DEF OtherStep
<1>3. ASSUME NEW c \in Calls, CallStep(c) PROVE LinkInv'
  <2>1. ASSUME NEW s \in Sessions, Login(c, s) PROVE LinkInv'
    BY <2>1, LoginFacts, LinkCalm
  <2>2. ASSUME NEW old \in Sessions, NEW s \in Sessions, RefreshTokens(c, old, s) PROVE LinkInv'
    BY <2>2, RefreshFacts, LinkCalm
  <2>3. CASE StoreSession(c)
    BY <2>3, StoreSessionFacts, LinkCalm, Linkless DEF Revoking
  <2>4. CASE Register(c)
    BY <2>4, RegisterFacts, LinkCalm DEF Idle
  <2>5. CASE GetByID(c)
    BY <2>5, GetByIDFacts, LinkCalm, Linkless DEF Revoking
  <2>6. CASE Rotate(c)
    BY <2>6, RotateFacts, LinkCalm, Linkless DEF Revoking
  <2>7. ASSUME NEW a \in Admins, LogoutAll(c, a) PROVE LinkInv'
    BY <2>7, LogoutAllFacts, LinkCalm
  <2>8. CASE ReadMembers(c)
    BY <2>8, ReadMembersFacts, LinkCalm DEF Idle, Revoking
  <2>9. CASE DeleteMembers(c)
    BY <2>9, DeleteMembersFacts, LinkCalm DEF Idle, Revoking
  <2>10. CASE DropIndex(c)
    BY <2>10, DropIndexFacts, LinkCalm DEF Idle
  <2>11. ASSUME NEW a \in Admins, GetActiveSessions(c, a) PROVE LinkInv'
    BY <2>11, GetActiveSessionsFacts, LinkCalm
  <2>12. CASE ReadListed(c)
    BY <2>12, ReadListedFacts, LinkCalm, Linkless DEF Idle, Revoking
  <2>13. CASE Prune(c)
    BY <2>13, PruneFacts, LinkCalm DEF Idle
  <2>14. CASE Fail(c)
    BY <2>14, FailFacts, LinkCalm DEF Idle
  <2>15. QED
    BY <1>3, <2>1, <2>2, <2>3, <2>4, <2>5, <2>6, <2>7, <2>8, <2>9, <2>10, <2>11, <2>12, <2>13, <2>14,
       GetAdminIDLink, BurnLinkLink, ResetLink DEF CallStep
<1>4. QED
  BY <1>1, <1>2, <1>3, StepsOfNext

(***************************************************************************)
(* Who knows a session                                                     *)
(***************************************************************************)
\* Ids known to Redis and to a list: drawn, and of no session yet to be stored.
Known(ids) ==
  /\ ids \subseteq used
  /\ \A d \in Calls : call[d].pc \in {"admin", "rotate", "set"} => call[d].key \notin ids

\* A session about to be stored belongs to one call and is known to nobody else.
IdentInv ==
  /\ Known(live)
  /\ \A a \in Admins : Known(index[a])
  /\ \A c \in Calls : Known(call[c].ids)
  /\ held \subseteq used
  /\ \A c \in Calls : call[c].pc \in Issuing =>
       /\ call[c].key \in used \ held
       /\ OwnerOf[call[c].key] = call[c].user
       /\ \A d \in Calls : call[d].pc \in Issuing /\ call[d].key = call[c].key => d = c
  /\ \A c \in Calls : call[c].pc \in {"admin", "rotate"} => call[c].old \in held

\* No session is drawn, stored or registered; the call lists what was known, or
\* comes nearer to storing its session.
LEMMA IdentCalm ==
  ASSUME IdentInv, NEW c \in Calls, Others(c), live' \subseteq live, UNCHANGED <<used, held>>,
         \A a \in Admins : index'[a] \subseteq index[a],
         \/ call'[c].pc \notin Issuing /\ Known(call'[c].ids)
         \/ /\ \/ call[c].pc = "admin" /\ call'[c].pc = "rotate"
               \/ call[c].pc = "rotate" /\ call'[c].pc = "set"
            /\ call'[c].key = call[c].key /\ call'[c].user = call[c].user
            /\ call'[c].old = call[c].old /\ call'[c].ids = call[c].ids
  PROVE  IdentInv'
<1>1. \A d \in Calls : call'[d].pc \in Issuing =>
        /\ call[d].pc \in Issuing /\ call'[d].key = call[d].key /\ call'[d].user = call[d].user
        /\ call'[d].pc \in {"admin", "rotate", "set"} => call[d].pc \in {"admin", "rotate", "set"}
        /\ call'[d].pc \in {"admin", "rotate"} => /\ call[d].pc \in {"admin", "rotate"}
                                                  /\ call'[d].old = call[d].old
  BY DEF Others, Issuing
<1>2. \A d \in Calls : Known(call'[d].ids)
  BY DEF IdentInv, Others
<1>3. Known(live)' /\ (\A a \in Admins : Known(index[a])') /\ (\A d \in Calls : Known(call[d].ids)')
  <2>1. Known(live)'
    BY <1>1 DEF IdentInv, Known, Issuing
  <2>2. ASSUME NEW a \in Admins PROVE Known(index[a])'
    BY <1>1 DEF IdentInv, Known, Issuing
  <2>3. ASSUME NEW d \in Calls PROVE Known(call[d].ids)'
    BY <1>1, <1>2 DEF Known, Issuing
  <2>4. QED
    BY <2>1, <2>2, <2>3
<1>4. QED
  BY <1>1, <1>3 DEF IdentInv, Issuing

LEMMA IdentOther ==
  ASSUME IdentInv, live' \subseteq live, UNCHANGED <<call, used, held>>,
         \A a \in Admins : index'[a] \subseteq index[a]
  PROVE  IdentInv'
BY DEF IdentInv, Known

\* A session is drawn.
LEMMA IdentDraw ==
  ASSUME IdentInv, NEW c \in Calls, Others(c), NEW s \in Sessions, s \notin used,
         used' = used \cup {s}, UNCHANGED <<live, index, held>>,
         call[c].pc = "idle", call'[c].pc \in {"set", "admin"}, call'[c].key = s,
         call'[c].user = OwnerOf[s], call'[c].ids = {},
         call'[c].pc = "admin" => call'[c].old \in held
  PROVE  IdentInv'
<1>1. \A ids : Known(ids) => s \notin ids /\ ids \subseteq used'
  BY DEF Known
<1>2. \A d \in Calls : call'[d].pc \in {"admin", "rotate", "set"} =>
        \/ call'[d].key = s
        \/ call[d].pc \in {"admin", "rotate", "set"} /\ call'[d].key = call[d].key
  BY DEF Others
<1>3. Known(live)' /\ \A a \in Admins : Known(index[a])'
  BY <1>1, <1>2 DEF IdentInv, Known
<1>4. ASSUME NEW d \in Calls PROVE Known(call[d].ids)'
  <2>1. CASE d = c
    BY <2>1 DEF Known
  <2>2. CASE d # c
    BY <2>2, <1>1, <1>2 DEF IdentInv, Known, Others
  <2>3. QED
    BY <2>1, <2>2
<1>5. ASSUME NEW d \in Calls, call'[d].pc \in Issuing
      PROVE  /\ call'[d].key \in used' \ held'
             /\ OwnerOf[call'[d].key] = call'[d].user
             /\ \A e \in Calls : call'[e].pc \in Issuing /\ call'[e].key = call'[d].key => e = d
  <2>1. \A e \in Calls : e # c /\ call'[e].pc \in Issuing => call'[e].key # s
    BY DEF IdentInv, Others
  <2>2. CASE d = c
    BY <2>1, <2>2 DEF IdentInv
  <2>3. CASE d # c
    BY <1>5, <2>1, <2>3 DEF IdentInv, Others
  <2>4. QED
    BY <2>2, <2>3
<1>6. \A d \in Calls : call'[d].pc \in {"admin", "rotate"} => call'[d].old \in held'
  BY DEF IdentInv, Others
<1>7. held' \subseteq used'
  BY DEF IdentInv
<1>8. QED
  BY <1>3, <1>4, <1>5, <1>6, <1>7 DEF IdentInv

LEMMA StoreSessionIdent ==
  ASSUME Typed, IdentInv, NEW c \in Calls, StoreSession(c)
  PROVE  IdentInv'
<1>1. /\ Others(c) /\ call[c].pc = "set" /\ call'[c].pc = "add"
      /\ call'[c].user = call[c].user /\ call'[c].key = call[c].key /\ call'[c].ids = call[c].ids
      /\ live' = live \cup {call[c].key}
      /\ UNCHANGED <<index, used, held>>
  BY StoreSessionFacts
<1>2. /\ call[c].key \in used \ held
      /\ \A d \in Calls : d # c /\ call[d].pc \in Issuing => call[d].key # call[c].key
  BY <1>1 DEF IdentInv, Issuing
<1>3. \A d \in Calls : call'[d].pc \in {"admin", "rotate", "set"} =>
        /\ d # c /\ call'[d] = call[d]
        /\ call[d].key # call[c].key
  BY <1>1, <1>2 DEF Others, Issuing
<1>4. Known(live)'
  BY <1>1, <1>2, <1>3 DEF IdentInv, Known
<1>5. \A a \in Admins : Known(index[a])'
  BY <1>1, <1>3 DEF IdentInv, Known
<1>6. \A d \in Calls : Known(call[d].ids)'
  <2>1. \A d \in Calls : call'[d].ids = call[d].ids
    BY <1>1 DEF Others
  <2>2. QED
    BY <2>1, <1>1, <1>3 DEF IdentInv, Known
<1>7. \A d \in Calls : /\ call'[d].pc \in Issuing <=> call[d].pc \in Issuing
                       /\ call'[d].key = call[d].key /\ call'[d].user = call[d].user
  BY <1>1 DEF Others, Issuing
<1>8. QED
  BY <1>1, <1>3, <1>4, <1>5, <1>6, <1>7 DEF IdentInv

LEMMA RegisterIdent ==
  ASSUME Typed, IdentInv, NEW c \in Calls, Register(c)
  PROVE  IdentInv'
<1> DEFINE s == call[c].key
<1>1. /\ Others(c) /\ call[c].pc = "add" /\ call'[c] = Idle
      /\ \/ index' = index
         \/ index' = [index EXCEPT ![OwnerOf[s]] = @ \cup {s}]
      /\ held' \in {held, held \cup {s}}
      /\ UNCHANGED <<live, used>>
  BY RegisterFacts
<1>2. /\ s \in used
      /\ \A d \in Calls : d # c /\ call[d].pc \in Issuing => call[d].key # s
  BY <1>1 DEF IdentInv, Issuing
<1>3. Idle.pc = "idle" /\ Idle.ids = {}
  BY DEF Idle
<1>4. \A d \in Calls : call'[d].pc \in Issuing =>
        d # c /\ call'[d] = call[d] /\ call[d].key # s
  BY <1>1, <1>2, <1>3 DEF Others, Issuing
<1> HIDE DEF s
<1>5. Known(live)'
  BY <1>1, <1>4 DEF IdentInv, Known, Issuing
<1>6. \A a \in Admins : Known(index[a])'
  <2>1. \A a \in Admins : index'[a] \subseteq index[a] \cup {s}
    BY <1>1 DEF Typed, TypeOK
  <2>2. QED
    BY <2>1, <1>1, <1>2, <1>4 DEF IdentInv, Known, Issuing
<1>7. \A d \in Calls : Known(call[d].ids)'
  <2>1. \A d \in Calls : call'[d].ids = {} \/ call'[d].ids = call[d].ids
    BY <1>1, <1>3 DEF Others
  <2>2. QED
    BY <2>1, <1>1, <1>4 DEF IdentInv, Known, Issuing
<1>8. QED
  BY <1>1, <1>2, <1>4, <1>5, <1>6, <1>7 DEF IdentInv, Issuing

\* Lists that are shortened.
LEMMA Shortened ==
  ASSUME Typed, NEW a, NEW ids, \/ index' = index
                                \/ index' = [index EXCEPT ![a] = @ \ ids]
                                \/ index' = [index EXCEPT ![a] = {}]
  PROVE  \A b \in Admins : index'[b] \subseteq index[b]
BY DEF Typed, TypeOK

LEMMA KnownIds ==
  ASSUME IdentInv
  PROVE  /\ Known({}) /\ Known(Idle.ids) /\ Idle.pc \notin Issuing
         /\ \A a \in Admins : Known(index[a])
         /\ \A c \in Calls : Known(call[c].ids) /\ Known(call[c].ids \ live)
BY DEF IdentInv, Known, Idle, Issuing

LEMMA NextIdent == Typed /\ IdentInv /\ [Next]_vars => IdentInv'
<1> SUFFICES ASSUME Typed, IdentInv, [Next]_vars PROVE IdentInv'
  OBVIOUS
<1>1. CASE UNCHANGED vars
  BY <1>1, IdentOther DEF vars, redis, minted
<1>2. CASE OtherStep
  <2>1. ASSUME NEW a \in Admins, NEW s \in Sessions, \/ Logout(s) /\ a = OwnerOf[s]
                                                     \/ RevokeOne(a, s)
        PROVE  IdentInv'
    <3>1. \A b \in Admins : index'[b] \subseteq index[b]
      BY <2>1, RevokeFacts, Shortened
    <3>2. QED
      BY <2>1, <3>1, RevokeFacts, IdentOther
  <2>2. QED
    BY <1>2, <2>1, StoreLinkFacts, ExpiryFacts, IdentOther DEF OtherStep
<1>3. ASSUME NEW c \in Calls, CallStep(c) PROVE IdentInv'
  <2>1. ASSUME NEW s \in Sessions, Login(c, s) PROVE IdentInv'
    BY <2>1, LoginFacts, IdentDraw
  <2>2. ASSUME NEW old \in Sessions, NEW s \in Sessions, RefreshTokens(c, old, s) PROVE IdentInv'
    BY <2>2, RefreshFacts, IdentDraw
  <2>3. CASE GetByID(c)
    BY <2>3, GetByIDFacts, IdentCalm
  <2>4. CASE Rotate(c)
    <3>1. \A b \in Admins : index'[b] \subseteq index[b]
      <4>1. \/ index' = index
            \/ index' = [index EXCEPT ![call[c].user] = @ \ {call[c].old}]
        BY <2>4, RotateFacts
      <4>2. QED
        BY <4>1, Shortened
    <3>2. QED
      BY <2>4, <3>1, RotateFacts, IdentCalm
  <2>5. ASSUME NEW a \in Admins, LogoutAll(c, a) PROVE IdentInv'
    BY <2>5, LogoutAllFacts, IdentCalm, KnownIds DEF Issuing
  <2>6. CASE ReadMembers(c)
    <3>1. Known(index[call[c].user])
      BY <2>6, ReadMembersFacts, KnownIds DEF Typed, BusyInv, Busy
    <3>2. QED
      BY <2>6, <3>1, ReadMembersFacts, IdentCalm, KnownIds DEF Issuing
  <2>7. CASE DeleteMembers(c)
    BY <2>7, DeleteMembersFacts, IdentCalm, KnownIds DEF Issuing
  <2>8. CASE DropIndex(c)
    <3>1. \A b \in Admins : index'[b] \subseteq index[b]
      BY <2>8, DropIndexFacts, Shortened
    <3>2. QED
      BY <2>8, <3>1, DropIndexFacts, IdentCalm, KnownIds
  <2>9. ASSUME NEW a \in Admins, GetActiveSessions(c, a) PROVE IdentInv'
    BY <2>9, GetActiveSessionsFacts, IdentCalm, KnownIds DEF Issuing
  <2>10. CASE ReadListed(c)
    BY <2>10, ReadListedFacts, IdentCalm, KnownIds DEF Issuing
  <2>11. CASE Prune(c)
    <3>1. \A b \in Admins : index'[b] \subseteq index[b]
      BY <2>11, PruneFacts, Shortened
    <3>2. QED
      BY <2>11, <3>1, PruneFacts, IdentCalm, KnownIds
  <2>12. ASSUME NEW l \in Links, GetAdminID(c, l) PROVE IdentInv'
    <3>1. /\ Others(c) /\ call'[c].pc = "burn" /\ call'[c].ids = {}
          /\ UNCHANGED <<live, index, used, held>>
      BY <2>12, GetAdminIDFacts
    <3>2. QED
      BY <3>1, IdentCalm, KnownIds DEF Issuing
  <2>13. CASE BurnLink(c)
    BY <2>13, BurnLinkFacts, IdentCalm, KnownIds DEF Issuing
  <2>14. CASE Reset(c)
    BY <2>14, ResetFacts, IdentCalm, KnownIds DEF Issuing
  <2>15. CASE Fail(c)
    BY <2>15, FailFacts, IdentCalm, KnownIds
  <2>16. QED
    BY <1>3, <2>1, <2>2, <2>3, <2>4, <2>5, <2>6, <2>7, <2>8, <2>9, <2>10, <2>11, <2>12, <2>13, <2>14,
       <2>15, StoreSessionIdent, RegisterIdent DEF CallStep
<1>4. QED
  BY <1>1, <1>2, <1>3, StepsOfNext

LEMMA InitIdent == Init => IdentInv
BY DEF Init, IdentInv, Known, Idle, Issuing

(***************************************************************************)
(* Revocation finds every session                                          *)
(***************************************************************************)
\* While all sessions are being revoked, those being issued are late; those that
\* live were read, or are late or stray; after the DELs only the latter live.
\* What is about to be pruned is dead.
RevokeInv ==
  /\ \A c, d \in Calls : /\ call[c].pc \in {"del", "drop"}
                         /\ call[d].pc \in Issuing /\ call[d].user = call[c].user
                         => call[d].key \in late
  /\ \A c \in Calls : call[c].pc = "del" =>
       \A s \in live : OwnerOf[s] = call[c].user => s \in call[c].ids \cup late \cup stray
  /\ \A c \in Calls : call[c].pc = "drop" =>
       \A s \in live : OwnerOf[s] = call[c].user => s \in late \cup stray
  /\ \A c \in Calls : call[c].pc = "prune" => call[c].ids \cap live = {}

ReachInv == Reachable /\ RevokeInv

LEMMA ReachCalm ==
  ASSUME ReachInv, NEW c \in Calls, Others(c), live' \subseteq live, late \subseteq late',
         stray \subseteq stray', call[c].pc # "add",
         \A s \in live' : s \in index[OwnerOf[s]] => s \in index'[OwnerOf[s]],
         call'[c].pc \notin {"del", "drop", "prune"},
         call'[c].pc \in Issuing => /\ call[c].pc \in Issuing
                                    /\ call'[c].key = call[c].key /\ call'[c].user = call[c].user
  PROVE  ReachInv'
<1>1. Reachable'
  BY DEF ReachInv, Reachable, Others, At
<1>2. \A d \in Calls : call'[d].pc \in {"del", "drop", "prune"} => call'[d] = call[d]
  BY DEF Others
<1>3. \A d \in Calls : call'[d].pc \in Issuing =>
        call[d].pc \in Issuing /\ call'[d].key = call[d].key /\ call'[d].user = call[d].user
  BY DEF Others
<1>4. RevokeInv'
  BY <1>2, <1>3 DEF ReachInv, RevokeInv
<1>5. QED
  BY <1>1, <1>4 DEF ReachInv

LEMMA ReachOther ==
  ASSUME ReachInv, live' \subseteq live, UNCHANGED <<call, late, stray>>,
         \A s \in live' : s \in index[OwnerOf[s]] => s \in index'[OwnerOf[s]]
  PROVE  ReachInv'
BY DEF ReachInv, Reachable, RevokeInv, At

LEMMA ReachDraw ==
  ASSUME ReachInv, NEW c \in Calls, Others(c), NEW s \in Sessions, UNCHANGED <<live, index, stray>>,
         late' = IF BeingRevoked(OwnerOf[s]) THEN late \cup {s} ELSE late,
         call[c].pc = "idle", call'[c].pc \in {"set", "admin"}, call'[c].key = s,
         call'[c].user = OwnerOf[s]
  PROVE  ReachInv'
<1>1. late \subseteq late' /\ (BeingRevoked(OwnerOf[s]) => s \in late')
  OBVIOUS
<1>2. Reachable'
  BY <1>1 DEF ReachInv, Reachable, Others, At
<1>3. \A d \in Calls : call'[d].pc \in {"del", "drop", "prune"} => call'[d] = call[d]
  BY DEF Others
<1>4. ASSUME NEW e \in Calls, NEW d \in Calls, call'[e].pc \in {"del", "drop"},
             call'[d].pc \in Issuing, call'[d].user = call'[e].user
      PROVE  call'[d].key \in late'
  <2>1. call'[e] = call[e]
    BY <1>3, <1>4
  <2>2. CASE d = c
    BY <2>1, <2>2, <1>1, <1>4 DEF BeingRevoked
  <2>3. CASE d # c
    BY <2>1, <2>3, <1>1, <1>4 DEF Others, ReachInv, RevokeInv
  <2>4. QED
    BY <2>2, <2>3
<1>5. RevokeInv'
  BY <1>1, <1>3, <1>4 DEF ReachInv, RevokeInv
<1>6. QED
  BY <1>2, <1>5 DEF ReachInv

LEMMA StoreSessionReach ==
  ASSUME Typed, IdentInv, ReachInv, NEW c \in Calls, StoreSession(c)
  PROVE  ReachInv'
<1> DEFINE s == call[c].key
<1>1. /\ Others(c) /\ call[c].pc = "set" /\ call'[c].pc = "add"
      /\ call'[c].user = call[c].user /\ call'[c].key = s /\ call'[c].ids = call[c].ids
      /\ live' = live \cup {s}
      /\ UNCHANGED <<index, late, stray>>
  BY StoreSessionFacts
<1>2. OwnerOf[s] = call[c].user /\ \A d \in Calls : s \notin call[d].ids
  BY <1>1 DEF IdentInv, Known, Issuing
<1>3. \A d \in Calls : call'[d].pc \in {"del", "drop", "prune"} => call'[d] = call[d]
  BY <1>1 DEF Others
<1>4. \A d \in Calls : /\ call'[d].pc \in Issuing <=> call[d].pc \in Issuing
                       /\ call'[d].key = call[d].key /\ call'[d].user = call[d].user
  BY <1>1 DEF Others, Issuing
<1>5. \A d \in Calls : call[d].pc \in {"del", "drop"} /\ call[d].user = OwnerOf[s] => s \in late
  BY <1>1, <1>2 DEF ReachInv, RevokeInv, Issuing
<1> HIDE DEF s
<1>6. Reachable'
  BY <1>1 DEF ReachInv, Reachable, Others, At
<1>7. RevokeInv'
  BY <1>1, <1>2, <1>3, <1>4, <1>5 DEF ReachInv, RevokeInv
<1>8. QED
  BY <1>6, <1>7 DEF ReachInv

LEMMA RegisterReach ==
  ASSUME Typed, IdentInv, ReachInv, NEW c \in Calls, Register(c)
  PROVE  ReachInv'
<1> DEFINE s == call[c].key
<1>1. /\ Others(c) /\ call[c].pc = "add" /\ call'[c] = Idle
      /\ \/ index' = [index EXCEPT ![OwnerOf[s]] = @ \cup {s}] /\ UNCHANGED stray
         \/ /\ index' \in {index, [index EXCEPT ![OwnerOf[s]] = @ \cup {s}]}
            /\ stray' = stray \cup {s}
      /\ UNCHANGED <<live, late>>
  BY RegisterFacts
<1>2. OwnerOf[s] \in Admins /\ index \in [Admins -> SUBSET Sessions]
  BY <1>1, OwnerType DEF Typed, TypeOK, BusyInv, Busy, Issuing
<1>3. /\ stray \subseteq stray' /\ \A a \in Admins : index[a] \subseteq index'[a]
      /\ s \in index'[OwnerOf[s]] \cup stray'
  BY <1>1, <1>2
<1>4. Idle.pc = "idle"
  BY DEF Idle
<1>5. \A d \in Calls : call'[d].pc # "idle" => d # c /\ call'[d] = call[d]
  BY <1>1, <1>4 DEF Others
<1> HIDE DEF s
<1>6. Reachable'
  <2> SUFFICES ASSUME NEW x \in live
               PROVE  \/ x \in index'[OwnerOf[x]] \/ x \in late \cup stray'
                      \/ \E d \in Calls : call'[d].pc = "add" /\ call'[d].key = x
    BY <1>1 DEF Reachable, At
  <2>1. OwnerOf[x] \in Admins
    BY OwnerType DEF Typed, TypeOK
  <2>2. CASE x = s
    BY <2>2, <1>3
  <2>3. CASE x # s
    <3>1. \A d \in Calls : call[d].pc = "add" /\ call[d].key = x => call'[d] = call[d]
      BY <2>3, <1>1 DEF Others, s
    <3>2. QED
      BY <2>1, <3>1, <1>3 DEF ReachInv, Reachable, At
  <2>4. QED
    BY <2>2, <2>3
<1>7. RevokeInv'
  BY <1>1, <1>3, <1>5 DEF ReachInv, RevokeInv, Issuing
<1>8. QED
  BY <1>6, <1>7 DEF ReachInv

LEMMA ReadMembersReach ==
  ASSUME Typed, IdentInv, ReachInv, NEW c \in Calls, ReadMembers(c)
  PROVE  ReachInv'
<1> DEFINE a    == call[c].user
           keys == {call[d].key : d \in {x \in Calls : call[x].user = a /\ call[x].pc \in Issuing}}
<1>1. Others(c) /\ call[c].pc = "members" /\ UNCHANGED <<live, index, stray>> /\ late \subseteq late'
  BY ReadMembersFacts
<1>2. CASE call'[c] = Idle
  BY <1>1, <1>2, ReachCalm DEF Idle, Issuing
<1>3. CASE call'[c] # Idle
  <2>1. /\ call'[c].pc = "del" /\ call'[c].ids = index[a] /\ call'[c].user = a
        /\ late' = late \cup keys
    BY <1>3, ReadMembersFacts
  <2>2. \A d \in Calls : call[d].pc \in Issuing /\ call[d].user = a => call[d].key \in late'
    BY <2>1
  <2>3. \A d \in Calls : call'[d].pc \in Issuing => d # c /\ call'[d] = call[d]
    BY <1>1, <2>1 DEF Others, Issuing
  <2>4. ASSUME NEW s \in live, OwnerOf[s] = a
        PROVE  s \in index[a] \cup late' \cup stray
    <3>1. ASSUME NEW d \in Calls, At(d, "add"), call[d].key = s
          PROVE  s \in late'
      BY <2>2, <2>4, <3>1 DEF At, IdentInv, Issuing
    <3>2. QED
      BY <1>1, <2>4, <3>1 DEF ReachInv, Reachable
  <2> HIDE DEF a, keys
  <2>5. Reachable'
    <3>1. \A d \in Calls : At(d, "add") => At(d, "add")' /\ call'[d] = call[d]
      BY <1>1 DEF At, Others
    <3>2. QED
      BY <1>1, <3>1 DEF ReachInv, Reachable
  <2>6. \A e, d \in Calls : /\ call'[e].pc \in {"del", "drop"}
                            /\ call'[d].pc \in Issuing /\ call'[d].user = call'[e].user
                            => call'[d].key \in late'
    BY <1>1, <2>1, <2>2, <2>3 DEF ReachInv, RevokeInv, Others
  <2>7. \A e \in Calls : call'[e].pc = "del" =>
          \A s \in live' : OwnerOf[s] = call'[e].user => s \in call'[e].ids \cup late' \cup stray'
    BY <1>1, <2>1, <2>4 DEF ReachInv, RevokeInv, Others
  <2>8. /\ \A e \in Calls : call'[e].pc = "drop" =>
             \A s \in live' : OwnerOf[s] = call'[e].user => s \in late' \cup stray'
        /\ \A e \in Calls : call'[e].pc = "prune" => call'[e].ids \cap live' = {}
    BY <1>1, <2>1 DEF ReachInv, RevokeInv, Others
  <2>9. QED
    BY <2>5, <2>6, <2>7, <2>8 DEF ReachInv, RevokeInv
<1>4. QED
  BY <1>2, <1>3

LEMMA DeleteMembersReach ==
  ASSUME Typed, ReachInv, NEW c \in Calls, DeleteMembers(c)
  PROVE  ReachInv'
<1>1. Others(c) /\ call[c].pc = "del" /\ live' \subseteq live /\ UNCHANGED <<index, late, stray>>
  BY DeleteMembersFacts
<1>2. CASE call'[c] = Idle
  BY <1>1, <1>2, ReachCalm DEF Idle, Issuing
<1>3. CASE call'[c] # Idle
  <2>1. live' = live \ call[c].ids /\ call'[c].pc = "drop" /\ call'[c].user = call[c].user
    BY <1>3, DeleteMembersFacts
  <2>2. \A d \in Calls : call'[d].pc \in Issuing => d # c /\ call'[d] = call[d]
    BY <1>1, <2>1 DEF Others, Issuing
  <2>3. Reachable'
    BY <1>1 DEF ReachInv, Reachable, Others, At
  <2>4. RevokeInv'
    BY <1>1, <2>1, <2>2 DEF ReachInv, RevokeInv, Others
  <2>5. QED
    BY <2>3, <2>4 DEF ReachInv
<1>4. QED
  BY <1>2, <1>3

LEMMA DropIndexReach ==
  ASSUME Typed, ReachInv, NEW c \in Calls, DropIndex(c)
  PROVE  ReachInv'
<1>1. /\ Others(c) /\ call[c].pc = "drop" /\ call'[c] = Idle
      /\ index' = [index EXCEPT ![call[c].user] = {}] \/ UNCHANGED index
      /\ UNCHANGED <<live, late, stray>>
  BY DropIndexFacts
<1>2. Idle.pc = "idle"
  BY DEF Idle
<1>3. \A d \in Calls : call'[d].pc # "idle" => d # c /\ call'[d] = call[d]
  BY <1>1, <1>2 DEF Others
<1>4. RevokeInv'
  BY <1>1, <1>3 DEF ReachInv, RevokeInv, Issuing
<1>5. Reachable'
  <2> SUFFICES ASSUME NEW s \in live
               PROVE  \/ s \in index'[OwnerOf[s]] \/ s \in late \cup stray
                      \/ \E d \in Calls : call'[d].pc = "add" /\ call'[d].key = s
    BY <1>1 DEF Reachable, At
  <2>1. OwnerOf[s] \in Admins /\ index \in [Admins -> SUBSET Sessions]
    BY OwnerType DEF Typed, TypeOK
  <2>2. CASE OwnerOf[s] = call[c].user
    BY <2>2, <1>1 DEF ReachInv, RevokeInv
  <2>3. CASE OwnerOf[s] # call[c].user
    BY <2>1, <2>3, <1>1 DEF ReachInv, Reachable, At, Others
  <2>4. QED
    BY <2>2, <2>3
<1>6. QED
  BY <1>4, <1>5 DEF ReachInv

LEMMA ReadListedReach ==
  ASSUME Typed, ReachInv, NEW c \in Calls, ReadListed(c)
  PROVE  ReachInv'
<1>1. Others(c) /\ call[c].pc = "mget" /\ UNCHANGED <<live, index, late, stray>>
  BY ReadListedFacts
<1>2. CASE call'[c] = Idle
  BY <1>1, <1>2, ReachCalm DEF Idle, Issuing
<1>3. CASE call'[c] # Idle
  <2>1. call'[c].pc = "prune" /\ call'[c].ids \cap live = {}
    BY <1>3, ReadListedFacts
  <2>2. Reachable'
    BY <1>1 DEF ReachInv, Reachable, Others, At
  <2>3. \A d \in Calls : call'[d].pc \in Issuing \/ call'[d].pc \in {"del", "drop"} =>
          call'[d] = call[d]
    BY <1>1, <2>1 DEF Others, Issuing
  <2>4. RevokeInv'
    BY <1>1, <2>1, <2>3 DEF ReachInv, RevokeInv, Others
  <2>5. QED
    BY <2>2, <2>4 DEF ReachInv
<1>4. QED
  BY <1>2, <1>3

\* A session leaves its list together with its key.
LEMMA RemovedFromBoth ==
  ASSUME Typed, NEW a, NEW s, NEW x \in live', x \in index[OwnerOf[x]], live' \subseteq live,
         \/ live' = live \ {s} /\ index' = [index EXCEPT ![a] = @ \ {s}]
         \/ UNCHANGED index
  PROVE  x \in index'[OwnerOf[x]]
<1>1. OwnerOf[x] \in Admins /\ index \in [Admins -> SUBSET Sessions]
  BY OwnerType DEF Typed, TypeOK
<1>2. QED
  BY <1>1

LEMMA NextReach == Typed /\ IdentInv /\ ReachInv /\ [Next]_vars => ReachInv'
<1> SUFFICES ASSUME Typed, IdentInv, ReachInv, [Next]_vars PROVE ReachInv'
  OBVIOUS
<1>1. CASE UNCHANGED vars
  BY <1>1, ReachOther DEF vars, redis, marks
<1>2. CASE OtherStep
  <2>1. ASSUME NEW a \in Admins, NEW s \in Sessions, \/ Logout(s) /\ a = OwnerOf[s]
                                                     \/ RevokeOne(a, s)
        PROVE  ReachInv'
    <3>1. /\ live' \subseteq live /\ UNCHANGED <<call, late, stray>>
          /\ \/ live' = live \ {s} /\ index' = [index EXCEPT ![a] = @ \ {s}]
             \/ UNCHANGED index
      BY <2>1, RevokeFacts
    <3>2. QED
      BY <3>1, RemovedFromBoth, ReachOther
  <2>2. QED
    BY <1>2, <2>1, StoreLinkFacts, ExpiryFacts, ReachOther DEF OtherStep
<1>3. ASSUME NEW c \in Calls, CallStep(c) PROVE ReachInv'
  <2>1. ASSUME NEW s \in Sessions, Login(c, s) PROVE ReachInv'
    BY <2>1, LoginFacts, ReachDraw
  <2>2. ASSUME NEW old \in Sessions, NEW s \in Sessions, RefreshTokens(c, old, s) PROVE ReachInv'
    BY <2>2, RefreshFacts, ReachDraw
  <2>3. CASE GetByID(c)
    BY <2>3, GetByIDFacts, ReachCalm DEF Issuing
  <2>4. CASE Rotate(c)
    <3>1. /\ Others(c) /\ call[c].pc = "rotate" /\ call'[c].pc = "set"
          /\ call'[c].key = call[c].key /\ call'[c].user = call[c].user
          /\ live' \subseteq live /\ UNCHANGED <<late, stray>>
          /\ \/ live' = live \ {call[c].old} /\ index' = [index EXCEPT ![call[c].user] = @ \ {call[c].old}]
             \/ UNCHANGED index
      BY <2>4, RotateFacts
    <3>2. \A x \in live' : x \in index[OwnerOf[x]] => x \in index'[OwnerOf[x]]
      BY <3>1, RemovedFromBoth
    <3>3. QED
      BY <3>1, <3>2, ReachCalm DEF Issuing
  <2>5. ASSUME NEW a \in Admins, LogoutAll(c, a) PROVE ReachInv'
    BY <2>5, LogoutAllFacts, ReachCalm DEF Issuing
  <2>6. ASSUME NEW a \in Admins, GetActiveSessions(c, a) PROVE ReachInv'
    BY <2>6, GetActiveSessionsFacts, ReachCalm DEF Issuing
  <2>7. CASE Prune(c)
    <3>1. /\ Others(c) /\ call[c].pc = "prune" /\ call'[c] = Idle
          /\ index' = [index EXCEPT ![call[c].user] = @ \ call[c].ids]
          /\ UNCHANGED <<live, late, stray>>
      BY <2>7, PruneFacts
    <3>2. ASSUME NEW x \in live', x \in index[OwnerOf[x]] PROVE x \in index'[OwnerOf[x]]
      <4>1. OwnerOf[x] \in Admins /\ index \in [Admins -> SUBSET Sessions]
        BY <3>1, OwnerType DEF Typed, TypeOK
      <4>2. x \notin call[c].ids
        BY <3>1 DEF ReachInv, RevokeInv
      <4>3. QED
        BY <3>1, <3>2, <4>1, <4>2
    <3>3. QED
      BY <3>1, <3>2, ReachCalm DEF Idle, Issuing
  <2>8. ASSUME NEW l \in Links, GetAdminID(c, l) PROVE ReachInv'
    <3>1. /\ Others(c) /\ call[c].pc = "idle" /\ call'[c].pc = "burn"
          /\ UNCHANGED <<live, index, late, stray>>
      BY <2>8, GetAdminIDFacts
    <3>2. QED
      BY <3>1, ReachCalm DEF Issuing
  <2>9. CASE BurnLink(c)
    BY <2>9, BurnLinkFacts, ReachCalm DEF Issuing
  <2>10. CASE Reset(c)
    BY <2>10, ResetFacts, ReachCalm DEF Issuing
  <2>11. CASE Fail(c)
    BY <2>11, FailFacts, ReachCalm DEF Idle, Issuing
  <2>12. QED
    BY <1>3, <2>1, <2>2, <2>3, <2>4, <2>5, <2>6, <2>7, <2>8, <2>9, <2>10, <2>11, StoreSessionReach,
       RegisterReach, ReadMembersReach, DeleteMembersReach, DropIndexReach, ReadListedReach
       DEF CallStep
<1>4. QED
  BY <1>1, <1>2, <1>3, StepsOfNext

LEMMA InitReach == Init => ReachInv
BY DEF Init, ReachInv, Reachable, RevokeInv, Idle

LEMMA InitLink == Init => LinkInv
<1> SUFFICES ASSUME Init PROVE LinkInv
  OBVIOUS
<1>1. \A c \in Calls : call[c].link = None
  BY DEF Init, Idle
<1>2. \A l \in Links : l # None /\ resets[l] = 0 /\ l \notin links
  BY NoneAssumption DEF Init
<1>3. QED
  BY <1>1, <1>2 DEF LinkInv

(***************************************************************************)
(* One successor                                                           *)
(***************************************************************************)
\* A client has it or may get it.
Issued(s) == s \in held \/ \E c \in Calls : call[c].pc \in Issuing /\ call[c].key = s

Refreshing(c, s) == call[c].pc \in {"admin", "rotate"} /\ call[c].old = s

Related(s, t) ==
  \/ line[s] \cap line[t] = {}
  \/ s \in line[t] \/ t \in line[s]
  \/ line[s] \cap line[t] \cap forked # {}

\* It is not to be refreshed again without a mark.
Replaced(x) == x \notin live \/ x \in forked \/ \E c \in Calls : Refreshing(c, x)

Ancestry == \A s \in used : s \in line[s] /\ line[s] \subseteq used

Succession == \A s, t \in used : Issued(s) /\ Issued(t) => Related(s, t)

Retired == \A t \in used : Issued(t) => \A x \in line[t] : x = t \/ Replaced(x)

\* A session being refreshed has the one successor the call is to issue,
Refreshed ==
  \A c \in Calls, o \in Sessions : Refreshing(c, o) =>
    \/ o \in forked
    \/ \A t \in used : Issued(t) /\ o \in line[t] => t \in {o, call[c].key}

\* which has none itself.
Childless ==
  \A c \in Calls : call[c].pc \in Issuing =>
    \A t \in used : call[c].key \in line[t] => t = call[c].key

SuccInv == Ancestry /\ Succession /\ Retired /\ Refreshed /\ Childless

LEMMA IssuedUsed ==
  ASSUME IdentInv, NEW s, Issued(s)
  PROVE  s \in used
BY DEF IdentInv, Issued

\* No session is drawn or stored.
LEMMA SuccCalm ==
  ASSUME SuccInv, live' \subseteq live, forked \subseteq forked', UNCHANGED <<used, line>>,
         \A s \in used : Issued(s)' => Issued(s),
         \A d \in Calls : call'[d].pc \in Issuing =>
           call[d].pc \in Issuing /\ call'[d].key = call[d].key,
         \A d \in Calls, o \in Sessions : Refreshing(d, o)' =>
           Refreshing(d, o) /\ call'[d].key = call[d].key,
         \A t \in used, x \in Sessions :
           Issued(t)' /\ x \in line[t] /\ x # t /\ (\E d \in Calls : Refreshing(d, x)) =>
             Replaced(x)',
         line \in [Sessions -> SUBSET Sessions], used \subseteq Sessions
  PROVE  SuccInv'
<1>1. Ancestry'
  BY DEF SuccInv, Ancestry
<1>2. Succession'
  BY DEF SuccInv, Succession, Related
<1>3. Retired'
  <2> SUFFICES ASSUME NEW t \in used, Issued(t)', NEW x \in line[t], x # t
               PROVE  Replaced(x)'
    BY DEF Retired
  <2>1. x \in Sessions /\ Replaced(x)
    BY DEF SuccInv, Retired
  <2>2. CASE x \notin live \/ x \in forked
    BY <2>2 DEF Replaced
  <2>3. CASE \E d \in Calls : Refreshing(d, x)
    BY <2>1, <2>3
  <2>4. QED
    BY <2>1, <2>2, <2>3 DEF Replaced
<1>4. Refreshed'
  BY DEF SuccInv, Refreshed
<1>5. Childless'
  BY DEF SuccInv, Childless
<1>6. QED
  BY <1>1, <1>2, <1>3, <1>4, <1>5 DEF SuccInv

\* A call that neither refreshes nor starts to.
LEMMA SuccQuiet ==
  ASSUME SuccInv, Typed, NEW c \in Calls, Others(c), live' \subseteq live,
         UNCHANGED <<forked, used, held, line>>,
         call[c].pc \notin {"admin", "rotate"},
         call'[c].pc \notin Issuing
  PROVE  SuccInv'
<1>1. \A d \in Calls : call'[d].pc \in Issuing => call'[d] = call[d]
  BY DEF Others
<1>2. \A d \in Calls : call[d].pc \in {"admin", "rotate"} => call'[d] = call[d]
  BY DEF Others
<1>3. \A s \in used : Issued(s)' => Issued(s)
  BY <1>1 DEF Issued
<1>4. \A d \in Calls, o \in Sessions : Refreshing(d, o)' =>
        Refreshing(d, o) /\ call'[d].key = call[d].key
  BY <1>1 DEF Refreshing, Issuing
<1>5. \A x \in Sessions : (\E d \in Calls : Refreshing(d, x)) => Replaced(x)'
  BY <1>2 DEF Refreshing, Replaced
<1>6. QED
  BY <1>1, <1>3, <1>4, <1>5, SuccCalm DEF Typed, TypeOK

LEMMA SuccOther ==
  ASSUME SuccInv, Typed, live' \subseteq live, UNCHANGED <<call, forked, used, held, line>>
  PROVE  SuccInv'
<1>1. \A s \in used : Issued(s)' => Issued(s)
  BY DEF Issued
<1>2. \A d \in Calls, o \in Sessions : Refreshing(d, o)' <=> Refreshing(d, o)
  BY DEF Refreshing
<1>3. \A x \in Sessions : (\E d \in Calls : Refreshing(d, x)) => Replaced(x)'
  BY <1>2 DEF Replaced
<1>4. QED
  BY <1>1, <1>2, <1>3, SuccCalm DEF Typed, TypeOK

LEMMA GetByIDSucc ==
  ASSUME SuccInv, Typed, NEW c \in Calls, GetByID(c)
  PROVE  SuccInv'
<1>1. /\ Others(c) /\ call[c].pc = "admin" /\ call'[c].pc = "rotate"
      /\ call'[c].key = call[c].key /\ call'[c].old = call[c].old
      /\ UNCHANGED <<live, forked, used, held, line>>
  BY GetByIDFacts
<1>2. \A d \in Calls : /\ call'[d].key = call[d].key
                       /\ call'[d].pc \in Issuing <=> call[d].pc \in Issuing
  BY <1>1 DEF Others, Issuing
<1>3. \A d \in Calls, o \in Sessions : Refreshing(d, o)' <=> Refreshing(d, o)
  BY <1>1 DEF Others, Refreshing
<1>4. \A s \in used : Issued(s)' => Issued(s)
  BY <1>1, <1>2 DEF Issued
<1>5. \A x \in Sessions : (\E d \in Calls : Refreshing(d, x)) => Replaced(x)'
  BY <1>3 DEF Replaced
<1>6. QED
  BY <1>1, <1>2, <1>3, <1>4, <1>5, SuccCalm DEF Typed, TypeOK

LEMMA RotateSucc ==
  ASSUME SuccInv, Typed, NEW c \in Calls, Rotate(c)
  PROVE  SuccInv'
<1> DEFINE o == call[c].old
<1>1. /\ Others(c) /\ call[c].pc = "rotate" /\ call'[c].pc = "set"
      /\ call'[c].key = call[c].key
      /\ live' \subseteq live /\ forked \subseteq forked' /\ (o \notin live' \/ o \in forked')
      /\ UNCHANGED <<used, held, line>>
  BY RotateFacts
<1>2. \A d \in Calls : /\ call'[d].key = call[d].key
                       /\ call'[d].pc \in Issuing <=> call[d].pc \in Issuing
  BY <1>1 DEF Others, Issuing
<1>3. \A d \in Calls, x \in Sessions : Refreshing(d, x)' <=> d # c /\ Refreshing(d, x)
  BY <1>1 DEF Others, Refreshing
<1>4. \A s \in used : Issued(s)' => Issued(s)
  BY <1>1, <1>2 DEF Issued
<1>5. ASSUME NEW x \in Sessions, NEW d \in Calls, Refreshing(d, x) PROVE Replaced(x)'
  <2>1. CASE d = c
    BY <1>1, <1>5, <2>1 DEF Refreshing, Replaced
  <2>2. CASE d # c
    BY <1>3, <1>5, <2>2 DEF Replaced
  <2>3. QED
    BY <2>1, <2>2
<1> HIDE DEF o
<1>6. QED
  BY <1>1, <1>2, <1>3, <1>4, <1>5, SuccCalm DEF Typed, TypeOK

LEMMA StoreSessionSucc ==
  ASSUME SuccInv, Typed, IdentInv, NEW c \in Calls, StoreSession(c)
  PROVE  SuccInv'
<1> DEFINE s == call[c].key
<1>1. /\ Others(c) /\ call[c].pc = "set" /\ call'[c].pc = "add"
      /\ call'[c].key = s /\ call'[c].old = call[c].old
      /\ live' = live \cup {s}
      /\ UNCHANGED <<forked, used, held, line>>
  BY StoreSessionFacts
<1>2. \A d \in Calls : /\ call'[d].key = call[d].key
                       /\ call'[d].pc \in Issuing <=> call[d].pc \in Issuing
  BY <1>1 DEF Others, Issuing
<1>3. \A d \in Calls : \A x : Refreshing(d, x)' <=> Refreshing(d, x)
  BY <1>1 DEF Others, Refreshing
<1>4. \A t \in used : s \in line[t] => t = s
  BY <1>1 DEF SuccInv, Childless, Issuing
<1>5. \A t : Issued(t)' <=> Issued(t)
  BY <1>1, <1>2 DEF Issued
<1> HIDE DEF s
<1>6. Ancestry' /\ Succession'
  BY <1>1, <1>5 DEF SuccInv, Ancestry, Succession, Related
<1>7. Retired'
  BY <1>1, <1>3, <1>4, <1>5 DEF SuccInv, Retired, Replaced
<1>8. Refreshed' /\ Childless'
  BY <1>1, <1>2, <1>3, <1>5 DEF SuccInv, Refreshed, Childless
<1>9. QED
  BY <1>6, <1>7, <1>8 DEF SuccInv

LEMMA RegisterSucc ==
  ASSUME SuccInv, Typed, NEW c \in Calls, Register(c)
  PROVE  SuccInv'
<1>1. /\ Others(c) /\ call[c].pc = "add" /\ call'[c] = Idle
      /\ held' \in {held, held \cup {call[c].key}}
      /\ UNCHANGED <<live, forked, used, line>>
  BY RegisterFacts
<1>2. Idle.pc = "idle"
  BY DEF Idle
<1>3. \A d \in Calls : call'[d].pc \in Issuing => call'[d] = call[d]
  BY <1>1, <1>2 DEF Others, Issuing
<1>4. \A d \in Calls : \A x : Refreshing(d, x)' <=> Refreshing(d, x)
  BY <1>1, <1>2 DEF Others, Refreshing
<1>5. \A s \in used : Issued(s)' => Issued(s)
  BY <1>1, <1>3 DEF Issued, Issuing
<1>6. \A x \in Sessions : (\E d \in Calls : Refreshing(d, x)) => Replaced(x)'
  BY <1>4 DEF Replaced
<1>7. \A d \in Calls, o \in Sessions : Refreshing(d, o)' =>
        Refreshing(d, o) /\ call'[d].key = call[d].key
  BY <1>3, <1>4 DEF Refreshing, Issuing
<1>8. QED
  BY <1>1, <1>3, <1>5, <1>6, <1>7, SuccCalm DEF Typed, TypeOK

LEMMA FailSucc ==
  ASSUME SuccInv, Typed, IdentInv, NEW c \in Calls, Fail(c)
  PROVE  SuccInv'
<1>1. /\ Others(c) /\ call'[c] = Idle /\ UNCHANGED <<live, forked, used, held, line>>
  BY FailFacts
<1>2. Idle.pc = "idle"
  BY DEF Idle
<1>3. \A d \in Calls : call'[d].pc \in Issuing => call'[d] = call[d] /\ d # c
  BY <1>1, <1>2 DEF Others, Issuing
<1>4. \A d \in Calls : \A x : Refreshing(d, x)' <=> d # c /\ Refreshing(d, x)
  BY <1>1, <1>2 DEF Others, Refreshing
<1>5. \A d \in Calls, o \in Sessions : Refreshing(d, o)' =>
        Refreshing(d, o) /\ call'[d].key = call[d].key
  BY <1>3, <1>4 DEF Refreshing, Issuing
<1>6. \A s \in used : Issued(s)' => Issued(s)
  BY <1>1, <1>3 DEF Issued
<1>7. ASSUME NEW t \in used, NEW x \in Sessions, Issued(t)', x \in line[t], x # t,
             NEW d \in Calls, Refreshing(d, x)
      PROVE  Replaced(x)'
  <2>1. CASE d # c
    BY <1>4, <1>7, <2>1 DEF Replaced
  <2>2. CASE x \in forked
    BY <1>1, <2>2 DEF Replaced
  <2>3. CASE d = c /\ x \notin forked
    <3>1. Issued(t)
      BY <1>6, <1>7
    <3>2. t = call[c].key
      BY <1>7, <2>3, <3>1 DEF SuccInv, Refreshed
    <3>3. call[c].pc \in Issuing
      BY <1>7, <2>3 DEF Refreshing, Issuing
    <3>4. t \notin held' /\ \A e \in Calls : call'[e].pc \in Issuing => call'[e].key # t
      BY <1>1, <1>3, <3>2, <3>3 DEF IdentInv
    <3>5. QED
      BY <1>7, <3>4 DEF Issued
  <2>4. QED
    BY <2>1, <2>2, <2>3
<1>8. QED
  BY <1>1, <1>3, <1>5, <1>6, <1>7, SuccCalm DEF Typed, TypeOK

LEMMA LoginSucc ==
  ASSUME SuccInv, Typed, IdentInv, NEW c \in Calls, NEW s \in Sessions, Login(c, s)
  PROVE  SuccInv'
<1>1. /\ Others(c) /\ call[c].pc = "idle" /\ call'[c].pc = "set" /\ call'[c].key = s
      /\ s \notin used /\ used' = used \cup {s}
      /\ line' = [line EXCEPT ![s] = {s}]
      /\ UNCHANGED <<live, held, forked>>
  BY LoginFacts
<1>2. line \in [Sessions -> SUBSET Sessions] /\ used \subseteq Sessions /\ held \subseteq used
  BY DEF Typed, TypeOK, IdentInv
<1>3. line'[s] = {s} /\ \A t \in used : t # s /\ line'[t] = line[t] /\ s \notin line[t]
  BY <1>1, <1>2 DEF SuccInv, Ancestry
<1>4. \A d \in Calls : call'[d].pc \in Issuing =>
        \/ d = c
        \/ call[d].pc \in Issuing /\ call'[d].key = call[d].key /\ call[d].key \in used
  BY <1>1 DEF Others, IdentInv
<1>5. \A t \in used : Issued(t)' => Issued(t)
  BY <1>1, <1>3, <1>4 DEF Issued
<1>6. \A d \in Calls : \A x : Refreshing(d, x)' <=> Refreshing(d, x)
  BY <1>1 DEF Others, Refreshing
<1>7. \A d \in Calls : \A x : Refreshing(d, x) => call'[d] = call[d] /\ x \in used
  BY <1>1, <1>2 DEF Others, Refreshing, IdentInv
<1>8. Ancestry'
  BY <1>1, <1>3 DEF SuccInv, Ancestry
<1>9. Succession'
  BY <1>1, <1>3, <1>5 DEF SuccInv, Succession, Related
<1>10. Retired'
  BY <1>1, <1>3, <1>5, <1>6 DEF SuccInv, Retired, Replaced
<1>11. Refreshed'
  BY <1>1, <1>3, <1>5, <1>6, <1>7 DEF SuccInv, Refreshed
<1>12. Childless'
  BY <1>1, <1>3, <1>4 DEF SuccInv, Childless
<1>13. QED
  BY <1>8, <1>9, <1>10, <1>11, <1>12 DEF SuccInv

LEMMA RefreshSucc ==
  ASSUME SuccInv, Typed, IdentInv, NEW c \in Calls, NEW old \in Sessions, NEW s \in Sessions,
         RefreshTokens(c, old, s)
  PROVE  SuccInv'
<1>1. /\ Others(c) /\ call[c].pc = "idle" /\ call'[c].pc = "admin" /\ call'[c].key = s
      /\ call'[c].old = old /\ old \in held /\ old \in live
      /\ s \notin used /\ used' = used \cup {s}
      /\ line' = [line EXCEPT ![s] = line[old] \cup {s}]
      /\ forked' = IF InHand(c, old) THEN forked \cup {old} ELSE forked
      /\ UNCHANGED <<live, held>>
  BY RefreshFacts
<1>2. line \in [Sessions -> SUBSET Sessions] /\ used \subseteq Sessions /\ held \subseteq used
  BY DEF Typed, TypeOK, IdentInv
<1>3. /\ line'[s] = line[old] \cup {s}
      /\ old \in used /\ Issued(old) /\ old \in line[old] /\ line[old] \subseteq used
      /\ \A t \in used : t # s /\ line'[t] = line[t] /\ s \notin line[t]
  BY <1>1, <1>2 DEF SuccInv, Ancestry, Issued
<1>4. \A d \in Calls : call'[d].pc \in Issuing =>
        \/ d = c
        \/ call[d].pc \in Issuing /\ call'[d].key = call[d].key /\ call[d].key \in used \ held
  BY <1>1 DEF Others, IdentInv
<1>5. \A t \in used : Issued(t)' => Issued(t)
  BY <1>1, <1>3, <1>4 DEF Issued
<1>6. \A d \in Calls : \A x : Refreshing(d, x)' <=> Refreshing(d, x) \/ (d = c /\ x = old)
  BY <1>1 DEF Others, Refreshing
<1>7. \A d \in Calls : \A x : Refreshing(d, x) =>
        /\ d # c /\ call'[d] = call[d] /\ x \in used
        /\ call[d].pc \in Issuing
  BY <1>1, <1>2 DEF Others, Refreshing, IdentInv, Issuing
<1>8. /\ forked \subseteq forked'
      /\ \A d \in Calls : Refreshing(d, old) => old \in forked'
  BY <1>1, <1>7 DEF InHand, Refreshing
\* The session goes back to whatever the refreshed one goes back to.
<1>9. ASSUME NEW t \in used, Issued(t), old \in line[t], t # old
      PROVE  old \in forked'
  BY <1>1, <1>8, <1>9 DEF SuccInv, Retired, Replaced
<1>10. Ancestry'
  BY <1>1, <1>3 DEF SuccInv, Ancestry
<1>11. Succession'
  <2>1. ASSUME NEW t \in used, Issued(t) PROVE Related(s, t)' /\ Related(t, s)'
    <3>1. Related(old, t) /\ line'[s] \cap line'[t] = line[old] \cap line[t]
      BY <1>3, <2>1 DEF SuccInv, Succession
    <3>2. CASE old \in line[t] /\ t # old
      BY <3>2, <1>3, <1>9, <2>1 DEF Related
    <3>3. CASE ~(old \in line[t] /\ t # old)
      BY <3>1, <3>3, <1>3, <1>8, <2>1 DEF Related
    <3>4. QED
      BY <3>2, <3>3
  <2>2. Related(s, s)'
    BY <1>3 DEF Related
  <2>3. ASSUME NEW t \in used, NEW u \in used, Issued(t), Issued(u) PROVE Related(t, u)'
    BY <1>3, <1>8, <2>3 DEF SuccInv, Succession, Related
  <2>4. QED
    BY <1>1, <1>5, <2>1, <2>2, <2>3 DEF Succession
<1>12. Retired'
  <2>1. \A x : Replaced(x) => Replaced(x)'
    BY <1>1, <1>6, <1>8 DEF Replaced
  <2>2. Replaced(old)'
    BY <1>6 DEF Replaced
  <2>3. \A x \in line[old] : Replaced(x)'
    BY <1>3, <2>1, <2>2 DEF SuccInv, Retired
  <2>4. \A t \in used : Issued(t) => \A x \in line'[t] : x = t \/ Replaced(x)'
    BY <1>3, <2>1 DEF SuccInv, Retired
  <2>5. QED
    BY <1>1, <1>3, <1>5, <2>3, <2>4 DEF Retired
<1>13. Refreshed'
  <2> SUFFICES ASSUME NEW d \in Calls, NEW o \in Sessions, Refreshing(d, o)', o \notin forked',
                      NEW t \in used', Issued(t)', o \in line'[t]
               PROVE  t \in {o, call'[d].key}
    BY DEF Refreshed
  <2>1. CASE d = c
    <3>1. o = old
      BY <1>6, <1>7, <2>1
    <3>2. CASE t = s
      BY <1>1, <2>1, <3>2
    <3>3. CASE t # s
      BY <1>1, <1>3, <1>5, <1>9, <3>1, <3>3
    <3>4. QED
      BY <3>2, <3>3
  <2>2. CASE d # c
    <3>1. Refreshing(d, o) /\ call'[d] = call[d] /\ o \in used /\ o \notin forked /\ o # old
      BY <1>6, <1>7, <1>8, <2>2
    <3>2. call[d].key # old
      BY <1>1, <1>7, <3>1 DEF IdentInv
    <3>3. \A u \in used : Issued(u) /\ o \in line[u] => u \in {o, call[d].key}
      BY <3>1 DEF SuccInv, Refreshed
    <3>4. t # s
      BY <1>3, <3>1, <3>2, <3>3
    <3>5. QED
      BY <1>1, <1>3, <1>5, <3>1, <3>3, <3>4
  <2>3. QED
    BY <2>1, <2>2
<1>14. Childless'
  <2> SUFFICES ASSUME NEW d \in Calls, call'[d].pc \in Issuing, NEW t \in used',
                      call'[d].key \in line'[t]
               PROVE  t = call'[d].key
    BY DEF Childless
  <2>1. CASE d = c
    BY <1>1, <1>3, <2>1
  <2>2. CASE d # c
    <3>1. call[d].pc \in Issuing /\ call'[d].key = call[d].key /\ call[d].key \in used \ held
      BY <1>4, <2>2
    <3>2. \A u \in used : call[d].key \in line[u] => u = call[d].key
      BY <3>1 DEF SuccInv, Childless
    <3>3. QED
      BY <1>1, <1>3, <3>1, <3>2
  <2>3. QED
    BY <2>1, <2>2
<1>15. QED
  BY <1>10, <1>11, <1>12, <1>13, <1>14 DEF SuccInv

LEMMA NextSucc == Typed /\ IdentInv /\ SuccInv /\ [Next]_vars => SuccInv'
<1> SUFFICES ASSUME Typed, IdentInv, SuccInv, [Next]_vars PROVE SuccInv'
  OBVIOUS
<1>1. CASE UNCHANGED vars
  BY <1>1, SuccOther DEF vars, redis, minted, marks
<1>2. CASE OtherStep
  <2>1. ASSUME NEW a \in Admins, NEW s \in Sessions, \/ Logout(s) /\ a = OwnerOf[s]
                                                     \/ RevokeOne(a, s)
        PROVE  SuccInv'
    BY <2>1, RevokeFacts, SuccOther
  <2>2. QED
    BY <1>2, <2>1, StoreLinkFacts, ExpiryFacts, SuccOther DEF OtherStep
<1>3. ASSUME NEW c \in Calls, CallStep(c) PROVE SuccInv'
  <2>1. ASSUME NEW a \in Admins, LogoutAll(c, a) PROVE SuccInv'
    BY <2>1, LogoutAllFacts, SuccQuiet DEF Issuing
  <2>2. CASE ReadMembers(c)
    BY <2>2, ReadMembersFacts, SuccQuiet DEF Idle, Issuing
  <2>3. CASE DeleteMembers(c)
    BY <2>3, DeleteMembersFacts, SuccQuiet DEF Idle, Issuing
  <2>4. CASE DropIndex(c)
    BY <2>4, DropIndexFacts, SuccQuiet DEF Idle, Issuing
  <2>5. ASSUME NEW a \in Admins, GetActiveSessions(c, a) PROVE SuccInv'
    BY <2>5, GetActiveSessionsFacts, SuccQuiet DEF Issuing
  <2>6. CASE ReadListed(c)
    BY <2>6, ReadListedFacts, SuccQuiet DEF Idle, Issuing
  <2>7. CASE Prune(c)
    BY <2>7, PruneFacts, SuccQuiet DEF Idle, Issuing
  <2>8. ASSUME NEW l \in Links, GetAdminID(c, l) PROVE SuccInv'
    BY <2>8, GetAdminIDFacts, SuccQuiet DEF Issuing
  <2>9. CASE BurnLink(c)
    BY <2>9, BurnLinkFacts, SuccQuiet DEF Issuing
  <2>10. CASE Reset(c)
    BY <2>10, ResetFacts, SuccQuiet DEF Issuing
  <2>11. QED
    BY <1>3, <2>1, <2>2, <2>3, <2>4, <2>5, <2>6, <2>7, <2>8, <2>9, <2>10, LoginSucc, RefreshSucc,
       StoreSessionSucc, RegisterSucc, GetByIDSucc, RotateSucc, FailSucc DEF CallStep
<1>4. QED
  BY <1>1, <1>2, <1>3, StepsOfNext

LEMMA InitSucc == Init => SuccInv
BY DEF Init, SuccInv, Ancestry, Succession, Retired, Refreshed, Childless, Refreshing, Idle, Issuing

(***************************************************************************)
(* Old credentials                                                         *)
(***************************************************************************)
\* A session that a revocation after a reset still owes.
Old(s) ==
  /\ origin[s] # Credentials(OwnerOf[s])
  /\ line[s] \cap (late \cup stray) = {}
  /\ OwnerOf[s] \notin botched

\* A request has reset a credential of the admin, and is yet to read the sessions,
Owed(a) ==
  \E c \in Calls : call[c].link # None /\ call[c].user = a /\ call[c].pc = "members"

\* or has read this one.
Doomed(s) ==
  \E c \in Calls : /\ call[c].link # None /\ call[c].user = OwnerOf[s]
                   /\ call[c].pc = "del" /\ s \in call[c].ids

OldInv ==
  /\ \A s \in live : Old(s) => Owed(OwnerOf[s]) \/ Doomed(s)
  /\ \A d \in Calls : call[d].pc \in Issuing /\ Old(call[d].key) => Owed(call[d].user)

\* What is old after a step was old before, if no credential changed.
LEMMA OldBefore ==
  ASSUME UNCHANGED <<password, secret>>, late \subseteq late', stray \subseteq stray',
         botched \subseteq botched', NEW s, Old(s)', origin'[s] = origin[s], line'[s] = line[s]
  PROVE  Old(s)
BY DEF Old, Credentials

LEMMA OldCalm ==
  ASSUME OldInv, NEW c \in Calls, Others(c), UNCHANGED <<password, secret, origin, line>>,
         live' \subseteq live, late \subseteq late', stray \subseteq stray', botched \subseteq botched',
         call[c].pc \notin {"members", "del"},
         call'[c].pc \in Issuing => /\ call[c].pc \in Issuing
                                    /\ call'[c].key = call[c].key /\ call'[c].user = call[c].user
  PROVE  OldInv'
<1>1. \A s : Old(s)' => Old(s)
  BY OldBefore
<1>2. \A d \in Calls : call[d].pc \in {"members", "del"} => call'[d] = call[d]
  BY DEF Others
<1>3. \A a : Owed(a) => Owed(a)'
  BY <1>2 DEF Owed
<1>4. \A s : Doomed(s) => Doomed(s)'
  BY <1>2 DEF Doomed
<1>5. \A d \in Calls : call'[d].pc \in Issuing =>
        call[d].pc \in Issuing /\ call'[d].key = call[d].key /\ call'[d].user = call[d].user
  BY DEF Others
<1>6. QED
  BY <1>1, <1>3, <1>4, <1>5 DEF OldInv

LEMMA OldOther ==
  ASSUME OldInv, UNCHANGED <<password, secret, origin, line, call, late, stray, botched>>,
         live' \subseteq live
  PROVE  OldInv'
<1>1. \A s : Old(s)' => Old(s)
  BY OldBefore
<1>2. (\A a : Owed(a) => Owed(a)') /\ (\A s : Doomed(s) => Doomed(s)')
  BY DEF Owed, Doomed
<1>3. QED
  BY <1>1, <1>2 DEF OldInv

\* A session is drawn that is owed no revocation, or that the next one will find.
LEMMA OldDraw ==
  ASSUME OldInv, IdentInv, Typed, NEW c \in Calls, Others(c), NEW s \in Sessions, s \notin used,
         UNCHANGED <<password, secret, live, stray, botched>>, late \subseteq late',
         \A t \in used : origin'[t] = origin[t] /\ line'[t] = line[t],
         call[c].pc = "idle", call'[c].key = s, call'[c].pc \in {"set", "admin"},
         Old(s)' => Owed(call'[c].user)
  PROVE  OldInv'
<1>1. \A t \in used : Old(t)' => Old(t)
  BY OldBefore
<1>2. \A d \in Calls : call[d].pc \in {"members", "del"} => call'[d] = call[d]
  BY DEF Others
<1>3. \A a : Owed(a) => Owed(a)'
  BY <1>2 DEF Owed
<1>4. \A t : Doomed(t) => Doomed(t)'
  BY <1>2 DEF Doomed
<1>5. \A t \in live' : Old(t)' => Owed(OwnerOf[t])' \/ Doomed(t)'
  BY <1>1, <1>3, <1>4 DEF OldInv, IdentInv, Known
<1>6. ASSUME NEW d \in Calls, call'[d].pc \in Issuing, Old(call[d].key)'
      PROVE  Owed(call[d].user)'
  <2>1. CASE d = c
    <3>1. Owed(call'[d].user)
      BY <1>6, <2>1 DEF Old
    <3>2. QED
      BY <3>1, <1>2 DEF Owed
  <2>2. CASE d # c
    <3>1. call'[d] = call[d] /\ call[d].key \in used
      BY <1>6, <2>2 DEF Others, IdentInv
    <3>2. Old(call[d].key)
      BY <3>1, <1>1, <1>6 DEF Old
    <3>3. Owed(call[d].user)
      BY <3>1, <3>2, <1>6 DEF OldInv
    <3>4. QED
      BY <3>1, <3>3, <1>2 DEF Owed
  <2>3. QED
    BY <2>1, <2>2
<1>7. \A d \in Calls : call'[d].pc \in Issuing /\ Old(call[d].key)' => Owed(call[d].user)'
  BY <1>6
<1>8. QED
  BY <1>5, <1>7 DEF OldInv

LEMMA LoginOld ==
  ASSUME Typed, IdentInv, OldInv, NEW c \in Calls, NEW s \in Sessions, Login(c, s)
  PROVE  OldInv'
<1>1. /\ Others(c) /\ call[c].pc = "idle" /\ call'[c].pc = "set" /\ call'[c].key = s
      /\ s \notin used /\ late \subseteq late'
      /\ origin' = [origin EXCEPT ![s] = Credentials(OwnerOf[s])]
      /\ line' = [line EXCEPT ![s] = {s}]
      /\ UNCHANGED <<password, secret, live, stray, botched>>
  BY LoginFacts
<1>2. \A t \in used : origin'[t] = origin[t] /\ line'[t] = line[t]
  BY <1>1 DEF Typed, TypeOK
<1>3. ~Old(s)'
  BY <1>1 DEF Typed, TypeOK, Old, Credentials
<1>4. QED
  BY <1>1, <1>2, <1>3, OldDraw

LEMMA RefreshOld ==
  ASSUME Typed, IdentInv, OldInv, NEW c \in Calls, NEW old \in Sessions, NEW s \in Sessions,
         RefreshTokens(c, old, s)
  PROVE  OldInv'
<1>1. /\ Others(c) /\ call[c].pc = "idle" /\ call'[c].pc = "admin" /\ call'[c].key = s
      /\ call'[c].user = OwnerOf[old] /\ OwnerOf[s] = OwnerOf[old] /\ old \in live
      /\ s \notin used
      /\ origin' = [origin EXCEPT ![s] = origin[old]]
      /\ line' = [line EXCEPT ![s] = line[old] \cup {s}]
      /\ late' = IF BeingRevoked(OwnerOf[s]) THEN late \cup {s} ELSE late
      /\ UNCHANGED <<password, secret, live, stray, botched>>
  BY RefreshFacts
<1>2. origin'[s] = origin[old] /\ line'[s] = line[old] \cup {s}
  BY <1>1 DEF Typed, TypeOK
<1>3. late \subseteq late' /\ (BeingRevoked(OwnerOf[s]) => s \in late')
  BY <1>1
<1>4. \A t \in used : origin'[t] = origin[t] /\ line'[t] = line[t]
  BY <1>1 DEF Typed, TypeOK
<1>5. ASSUME Old(s)' PROVE Owed(OwnerOf[old])
  <2>1. Old(old)
    BY <1>1, <1>2, <1>3, <1>5 DEF Old, Credentials
  <2>2. Owed(OwnerOf[old]) \/ Doomed(old)
    BY <1>1, <2>1 DEF OldInv
  <2>3. ~BeingRevoked(OwnerOf[s])
    BY <1>2, <1>3, <1>5 DEF Old
  <2>4. QED
    BY <1>1, <2>2, <2>3 DEF Doomed, BeingRevoked
<1>6. QED
  BY <1>1, <1>3, <1>4, <1>5, OldDraw

LEMMA StoreSessionOld ==
  ASSUME Typed, IdentInv, OldInv, NEW c \in Calls, StoreSession(c)
  PROVE  OldInv'
<1> DEFINE s == call[c].key
<1>1. /\ Others(c) /\ call[c].pc = "set" /\ call'[c].pc = "add"
      /\ call'[c].key = s /\ call'[c].user = call[c].user
      /\ live' = live \cup {s}
      /\ UNCHANGED <<password, secret, origin, line, late, stray, botched>>
  BY StoreSessionFacts
<1>2. OwnerOf[s] = call[c].user
  BY <1>1 DEF IdentInv, Issuing
<1>3. \A t : Old(t)' => Old(t)
  BY <1>1, OldBefore
<1>4. \A d \in Calls : call[d].pc \in {"members", "del"} => call'[d] = call[d]
  BY <1>1 DEF Others
<1>5. (\A a : Owed(a) => Owed(a)') /\ (\A t : Doomed(t) => Doomed(t)')
  BY <1>4 DEF Owed, Doomed
<1>6. \A d \in Calls : call'[d].pc \in Issuing =>
        call[d].pc \in Issuing /\ call'[d].key = call[d].key /\ call'[d].user = call[d].user
  BY <1>1 DEF Others, Issuing
<1>7. Old(s) => Owed(OwnerOf[s])
  BY <1>1, <1>2 DEF OldInv, Issuing
<1> HIDE DEF s
<1>8. QED
  BY <1>1, <1>3, <1>5, <1>6, <1>7 DEF OldInv

LEMMA ResetOld ==
  ASSUME Typed, IdentInv, OldInv, NEW c \in Calls, Reset(c)
  PROVE  OldInv'
<1> PICK a : a = call[c].user
  OBVIOUS
<1>1. /\ Others(c) /\ call[c].pc = "update" /\ call'[c].pc = "members"
      /\ call'[c].user = a /\ call'[c].link = call[c].link
      /\ \/ password' = [password EXCEPT ![a] = @ + 1] /\ UNCHANGED secret
         \/ secret' = [secret EXCEPT ![a] = @ + 1] /\ UNCHANGED password
      /\ UNCHANGED <<live, origin, line, late, stray, botched>>
  BY ResetFacts
<1>2. call[c].link # None
  BY <1>1, NoneAssumption DEF Typed, BusyInv, Busy
<1>3. Owed(a)'
  BY <1>1, <1>2 DEF Owed
<1>4. \A b \in Admins : b # a => Credentials(b)' = Credentials(b)
  BY <1>1 DEF Typed, TypeOK, Credentials
<1>5. \A s \in Sessions : OwnerOf[s] # a /\ Old(s)' => Old(s)
  BY <1>1, <1>4, OwnerType DEF Old
<1>6. \A d \in Calls : call[d].pc \in {"members", "del"} => call'[d] = call[d]
  BY <1>1 DEF Others
<1>7. (\A b : Owed(b) => Owed(b)') /\ (\A t : Doomed(t) => Doomed(t)')
  BY <1>6 DEF Owed, Doomed
<1>8. \A d \in Calls : call'[d].pc \in Issuing =>
        /\ call'[d] = call[d] /\ call[d].key \in Sessions
        /\ OwnerOf[call[d].key] = call[d].user
  BY <1>1 DEF Others, Issuing, IdentInv, Typed, TypeOK
<1>9. ASSUME NEW s \in live', Old(s)' PROVE Owed(OwnerOf[s])' \/ Doomed(s)'
  <2>1. s \in live /\ s \in Sessions
    BY <1>1 DEF Typed, TypeOK
  <2>2. CASE OwnerOf[s] = a
    BY <1>3, <2>2
  <2>3. CASE OwnerOf[s] # a
    <3>1. Owed(OwnerOf[s]) \/ Doomed(s)
      BY <1>5, <1>9, <2>1, <2>3 DEF OldInv
    <3>2. QED
      BY <3>1, <1>7
  <2>4. QED
    BY <2>2, <2>3
<1>10. ASSUME NEW d \in Calls, call'[d].pc \in Issuing, Old(call[d].key)'
       PROVE  Owed(call[d].user)'
  <2>1. /\ call'[d] = call[d] /\ call[d].key \in Sessions
        /\ OwnerOf[call[d].key] = call[d].user /\ call[d].pc \in Issuing
    BY <1>8, <1>10
  <2>2. CASE call[d].user = a
    BY <1>3, <2>1, <2>2 DEF Owed
  <2>3. CASE call[d].user # a
    <3>1. Old(call[d].key)
      <4>1. PICK k \in Sessions : k = call[d].key
        BY <2>1
      <4>2. Old(k)'
        BY <1>10, <2>1, <4>1 DEF Old
      <4>3. QED
        BY <1>5, <2>1, <2>3, <4>1, <4>2
    <3>2. Owed(call[d].user)
      BY <2>1, <3>1 DEF OldInv
    <3>3. QED
      BY <2>1, <3>2, <1>6 DEF Owed
  <2>4. QED
    BY <2>2, <2>3
<1>11. QED
  BY <1>9, <1>10 DEF OldInv

LEMMA ReadMembersOld ==
  ASSUME Typed, IdentInv, ReachInv, SuccInv, OldInv, NEW c \in Calls, ReadMembers(c)
  PROVE  OldInv'
<1> DEFINE a    == call[c].user
           keys == {call[d].key : d \in {x \in Calls : call[x].user = a /\ call[x].pc \in Issuing}}
<1>1. /\ Others(c) /\ call[c].pc = "members" /\ late \subseteq late' /\ botched \subseteq botched'
      /\ UNCHANGED <<password, secret, live, origin, line, index, stray>>
  BY ReadMembersFacts
<1>2. call'[c].pc \in {"idle", "del"}
  BY ReadMembersFacts DEF Idle
<1>3. \A s : Old(s)' => Old(s)
  BY <1>1, OldBefore
<1>4. /\ \A b : Owed(b) => Owed(b)' \/ (b = a /\ call[c].link # None)
      /\ \A s : Doomed(s) => Doomed(s)'
  BY <1>1 DEF Owed, Doomed, Others
<1>5. \A d \in Calls : call'[d].pc \in Issuing => call'[d] = call[d] /\ call[d].pc \in Issuing
  BY <1>1, <1>2 DEF Others, Issuing
<1>6. \A d \in Calls : call[d].pc \in Issuing => OwnerOf[call[d].key] = call[d].user
  BY DEF IdentInv
\* What is owed to this call's admin after the step is on the list it read.
<1>7. ASSUME call[c].link # None, NEW s \in used, OwnerOf[s] = a, Old(s)'
      PROVE  /\ s \in live => Doomed(s)'
             /\ \A d \in Calls : call[d].pc \in Issuing => call[d].key # s
  <2>1. s \in line'[s] /\ s \notin late' /\ s \notin stray
    BY <1>1, <1>7 DEF Old, SuccInv, Ancestry
  <2>2. a \notin botched'
    BY <1>7 DEF Old
  <2>3. /\ \/ index[a] = {}
           \/ call'[c].pc = "del" /\ call'[c].ids = index[a] /\ call'[c].user = a
              /\ call'[c].link = call[c].link
        /\ late' = late \cup keys
    BY <1>7, <2>2, ReadMembersFacts
  <2>4. \A d \in Calls : call[d].pc \in Issuing => call[d].key # s
    BY <1>6, <1>7, <2>1, <2>3
  <2>5. ASSUME s \in live PROVE s \in index[a]
    BY <1>1, <1>7, <2>1, <2>4, <2>5 DEF ReachInv, Reachable, At, Issuing
  <2>6. QED
    BY <1>7, <2>3, <2>4, <2>5 DEF Doomed
<1> HIDE DEF a
<1>8. \A s \in live' : Old(s)' => Owed(OwnerOf[s])' \/ Doomed(s)'
  BY <1>1, <1>3, <1>4, <1>7 DEF OldInv, IdentInv, Known
<1>9. \A d \in Calls : call'[d].pc \in Issuing /\ Old(call[d].key)' => Owed(call[d].user)'
  BY <1>3, <1>4, <1>5, <1>6, <1>7 DEF OldInv, IdentInv
<1>10. QED
  BY <1>8, <1>9 DEF OldInv

LEMMA DeleteMembersOld ==
  ASSUME Typed, IdentInv, OldInv, NEW c \in Calls, DeleteMembers(c)
  PROVE  OldInv'
<1>1. /\ Others(c) /\ call[c].pc = "del" /\ live' \subseteq live /\ botched \subseteq botched'
      /\ UNCHANGED <<password, secret, origin, line, late, stray>>
      /\ \/ live' = live \ call[c].ids
         \/ call[c].link # None => call[c].user \in botched'
      /\ call'[c].pc \in {"idle", "drop"}
  BY DeleteMembersFacts DEF Idle
<1>2. \A s : Old(s)' => Old(s)
  BY <1>1, OldBefore
<1>3. \A a : Owed(a) => Owed(a)'
  BY <1>1 DEF Owed, Others
<1>4. ASSUME NEW s \in live', Old(s)', Doomed(s)
      PROVE  Doomed(s)'
  <2>1. PICK d \in Calls : /\ call[d].link # None /\ call[d].user = OwnerOf[s]
                           /\ call[d].pc = "del" /\ s \in call[d].ids
    BY <1>4 DEF Doomed
  <2>2. d # c
    BY <1>1, <1>4, <2>1 DEF Old
  <2>3. QED
    BY <1>1, <2>1, <2>2 DEF Others, Doomed
<1>5. \A d \in Calls : call'[d].pc \in Issuing => call'[d] = call[d]
  BY <1>1 DEF Others, Issuing
<1>6. QED
  BY <1>1, <1>2, <1>3, <1>4, <1>5 DEF OldInv

LEMMA NextOld ==
  Typed /\ IdentInv /\ ReachInv /\ SuccInv /\ OldInv /\ [Next]_vars => OldInv'
<1> SUFFICES ASSUME Typed, IdentInv, ReachInv, SuccInv, OldInv, [Next]_vars PROVE OldInv'
  OBVIOUS
<1>1. CASE UNCHANGED vars
  BY <1>1, OldOther DEF vars, database, redis, minted, marks
<1>2. CASE OtherStep
  <2>1. ASSUME NEW a \in Admins, NEW s \in Sessions, \/ Logout(s) /\ a = OwnerOf[s]
                                                     \/ RevokeOne(a, s)
        PROVE  OldInv'
    BY <2>1, RevokeFacts, OldOther
  <2>2. QED
    BY <1>2, <2>1, StoreLinkFacts, ExpiryFacts, OldOther DEF OtherStep
<1>3. ASSUME NEW c \in Calls, CallStep(c) PROVE OldInv'
  <2>1. CASE Register(c)
    BY <2>1, RegisterFacts, OldCalm DEF Idle, Issuing
  <2>2. CASE GetByID(c)
    BY <2>2, GetByIDFacts, OldCalm DEF Issuing
  <2>3. CASE Rotate(c)
    BY <2>3, RotateFacts, OldCalm DEF Issuing
  <2>4. ASSUME NEW a \in Admins, LogoutAll(c, a) PROVE OldInv'
    BY <2>4, LogoutAllFacts, OldCalm DEF Issuing
  <2>5. CASE DropIndex(c)
    BY <2>5, DropIndexFacts, OldCalm DEF Idle, Issuing
  <2>6. ASSUME NEW a \in Admins, GetActiveSessions(c, a) PROVE OldInv'
    BY <2>6, GetActiveSessionsFacts, OldCalm DEF Issuing
  <2>7. CASE ReadListed(c)
    BY <2>7, ReadListedFacts, OldCalm DEF Idle, Issuing
  <2>8. CASE Prune(c)
    BY <2>8, PruneFacts, OldCalm DEF Idle, Issuing
  <2>9. ASSUME NEW l \in Links, GetAdminID(c, l) PROVE OldInv'
    BY <2>9, GetAdminIDFacts, OldCalm DEF Issuing
  <2>10. CASE BurnLink(c)
    BY <2>10, BurnLinkFacts, OldCalm DEF Issuing
  <2>11. CASE Fail(c)
    BY <2>11, FailFacts, OldCalm DEF Idle, Issuing
  <2>12. QED
    BY <1>3, <2>1, <2>2, <2>3, <2>4, <2>5, <2>6, <2>7, <2>8, <2>9, <2>10, <2>11, LoginOld, RefreshOld,
       StoreSessionOld, ResetOld, ReadMembersOld, DeleteMembersOld DEF CallStep
<1>4. QED
  BY <1>1, <1>2, <1>3, StepsOfNext

LEMMA InitOld == Init => OldInv
BY DEF Init, OldInv, Idle, Issuing

(***************************************************************************)
(* Theorems                                                                *)
(***************************************************************************)
IInv == Typed /\ LinkInv /\ IdentInv /\ ReachInv /\ SuccInv /\ OldInv

LEMMA SpecInv == Spec => []IInv
<1>1. Init => IInv
  BY InitTyped, InitLink, InitIdent, InitReach, InitSucc, InitOld DEF IInv
<1>2. IInv /\ [Next]_vars => IInv'
  BY NextTyped, NextLink, NextIdent, NextReach, NextSucc, NextOld DEF IInv
<1>3. QED
  BY <1>1, <1>2, PTL DEF Spec

\* Every record, set and request has its form.
THEOREM TypeCorrect == Spec => []TypeOK
<1>1. IInv => TypeOK
  BY DEF IInv, Typed
<1>2. QED
  BY <1>1, SpecInv, PTL

\* A link sets one password or secret key, unless two requests read it before
\* either deleted it, or its deletion failed (GetAdminIDByToken).
THEOREM SingleUseCorrect == Spec => []SingleUse
<1>1. IInv => SingleUse
  BY DEF IInv, LinkInv, SingleUse
<1>2. QED
  BY <1>1, SpecInv, PTL

\* Every session that lives can be found by a revocation of all sessions, but for
\* those whose issue overlapped another one or failed (StoreSession).
THEOREM ReachableCorrect == Spec => []Reachable
<1>1. IInv => Reachable
  BY DEF IInv, ReachInv
<1>2. QED
  BY <1>1, SpecInv, PTL

\* A session is refreshed into one successor, unless two refreshes had it in hand
\* or its revocation failed (RefreshTokens).
THEOREM SuccessorCorrect == Spec => []OneSuccessor
<1>1. ASSUME IInv, NEW s \in held, NEW t \in held, line[s] \cap line[t] # {}
      PROVE  \/ s \in line[s] \cap line[t] \/ t \in line[s] \cap line[t]
             \/ line[s] \cap line[t] \cap forked # {}
  <2>1. s \in used /\ t \in used /\ Issued(s) /\ Issued(t)
    BY <1>1 DEF IInv, IdentInv, Issued
  <2>2. s \in line[s] /\ t \in line[t] /\ Related(s, t)
    BY <1>1, <2>1 DEF IInv, SuccInv, Ancestry, Succession
  <2>3. QED
    BY <1>1, <2>2 DEF Related
<1>2. IInv => OneSuccessor
  BY <1>1 DEF OneSuccessor
<1>3. QED
  BY <1>2, SpecInv, PTL

\* Once a reset has revoked the sessions, none lives on that goes back to the old
\* credentials, but for those whose issue overlapped a revocation or failed, and
\* where the revocation failed (ResetPassword, ResetSecretKey).
THEOREM OldCredentialsCorrect == Spec => []OldCredentialsOut
<1>1. IInv => OldCredentialsOut
  BY DEF IInv, OldInv, Old, Owed, Doomed, OldCredentialsOut, Revoking
<1>2. QED
  BY <1>1, SpecInv, PTL
=============================================================================
