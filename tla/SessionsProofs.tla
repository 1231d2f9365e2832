---------------------------- MODULE SessionsProofs ----------------------------
(***************************************************************************)
(* Proofs of the safety properties of Sessions, for any users, sessions,   *)
(* links, calls and number of faults.                                      *)
(***************************************************************************)
EXTENDS Sessions, TLAPS

(***************************************************************************)
(* Types.  What a call has at hand depends on the step it is at.           *)
(***************************************************************************)
KeyInv ==
  \A c \in Calls :
    /\ call[c].pc # "idle" => call[c].user \in Users
    /\ call[c].pc \in {"owner", "rotate", "set", "add"} =>
         call[c].key \in Sessions /\ OwnerOf[call[c].key] = call[c].user
    /\ call[c].pc = "mail" => call[c].key \in Links

TypeInv == TypeOK /\ KeyInv

LEMMA IdleType == Idle \in Call
BY DEF Idle, Call, Steps

LEMMA OwnerType == \A x \in Sessions \cup Links : OwnerOf[x] \in Users
BY OwnerAssumption

\* Replacing the record of one call.
LEMMA OneCall ==
  ASSUME call \in [Calls -> Call], NEW c \in Calls, NEW r \in Call,
         call' = [call EXCEPT ![c] = r]
  PROVE  /\ call' \in [Calls -> Call]
         /\ call'[c] = r
         /\ \A d \in Calls : d # c => call'[d] = call[d]
OBVIOUS

LEMMA StopCall ==
  ASSUME call \in [Calls -> Call], NEW c \in Calls, Stop(c)
  PROVE  /\ call' \in [Calls -> Call]
         /\ call'[c] = Idle
         /\ \A d \in Calls : d # c => call'[d] = call[d]
BY IdleType DEF Stop

LEMMA GotoCall ==
  ASSUME call \in [Calls -> Call], NEW c \in Calls, NEW step \in Steps, Goto(c, step)
  PROVE  /\ call' \in [Calls -> Call]
         /\ call'[c] = [call[c] EXCEPT !.pc = step]
         /\ \A d \in Calls : d # c => call'[d] = call[d]
<1>1. [call[c] EXCEPT !.pc = step] \in Call
  BY DEF Call
<1>2. call' = [call EXCEPT ![c] = [call[c] EXCEPT !.pc = step]]
  BY DEF Goto
<1>3. QED
  BY <1>1, <1>2, OneCall

LEMMA StartCall ==
  ASSUME call \in [Calls -> Call], NEW c \in Calls, NEW step \in Steps,
         NEW u \in Users, Start(c, step, u)
  PROVE  /\ call' \in [Calls -> Call]
         /\ call'[c] = [Idle EXCEPT !.pc = step, !.user = u]
         /\ \A d \in Calls : d # c => call'[d] = call[d]
<1>1. [Idle EXCEPT !.pc = step, !.user = u] \in Call
  BY IdleType DEF Call
<1>2. QED
  BY <1>1, OneCall DEF Start

LEMMA StartWithCall ==
  ASSUME call \in [Calls -> Call], NEW c \in Calls, NEW step \in Steps,
         NEW x \in Sessions \cup Links, StartWith(c, step, x)
  PROVE  /\ call' \in [Calls -> Call]
         /\ call'[c] = [Idle EXCEPT !.pc = step, !.user = OwnerOf[x], !.key = x]
         /\ \A d \in Calls : d # c => call'[d] = call[d]
<1>1. [Idle EXCEPT !.pc = step, !.user = OwnerOf[x], !.key = x] \in Call
  BY IdleType, OwnerType DEF Call
<1>2. QED
  BY <1>1, OneCall DEF StartWith

\* What Mint does when it makes the session s.
Minted(c, u, st, s) ==
  /\ OwnerOf[s] = u
  /\ used' = used \cup {s}
  /\ claims' = [claims EXCEPT ![s] = st]
  /\ call'[c] = [call[c] EXCEPT !.pc = "set", !.user = u, !.key = s, !.seen = st]

LEMMA MintCall ==
  ASSUME call \in [Calls -> Call], NEW c \in Calls, NEW u \in Users,
         NEW st \in Statuses \cup {"absent"}, Mint(c, u, st)
  PROVE  /\ call' \in [Calls -> Call]
         /\ \A d \in Calls : d # c => call'[d] = call[d]
         /\ \/ st = "banned" /\ call'[c] = Idle /\ used' = used /\ claims' = claims
            \/ \E s \in Sessions \ used : Minted(c, u, st, s)
<1>1. CASE st = "banned"
  BY <1>1, StopCall DEF Mint
<1>2. CASE st # "banned"
  <2>1. PICK s \in Sessions \ used :
          /\ OwnerOf[s] = u
          /\ used' = used \cup {s}
          /\ claims' = [claims EXCEPT ![s] = st]
          /\ call' = [call EXCEPT ![c] = [@ EXCEPT !.pc = "set", !.user = u,
                                                   !.key = s, !.seen = st]]
    BY <1>2 DEF Mint
  <2> DEFINE r == [call[c] EXCEPT !.pc = "set", !.user = u, !.key = s, !.seen = st]
  <2>2. r \in Call
    BY DEF Call, Steps
  <2>3. call' = [call EXCEPT ![c] = r]
    BY <2>1
  <2> HIDE DEF r
  <2>4. call' \in [Calls -> Call] /\ call'[c] = r /\ \A d \in Calls : d # c => call'[d] = call[d]
    BY <2>2, <2>3, OneCall
  <2>5. Minted(c, u, st, s)
    BY <2>1, <2>4 DEF r, Minted
  <2>6. QED
    BY <2>4, <2>5
<1>3. QED
  BY <1>1, <1>2

(***************************************************************************)
(* What the steps do to a call.  Every invariant below follows from these  *)
(* facts and from what a step does to the other variables.                 *)
(***************************************************************************)
\* The call fields that KeyInv speaks of.
KeyOK(r) == /\ r.pc # "idle" => r.user \in Users
            /\ r.pc \in {"owner", "rotate", "set", "add"} =>
                 r.key \in Sessions /\ OwnerOf[r.key] = r.user
            /\ r.pc = "mail" => r.key \in Links

LEMMA KeyStep ==
  ASSUME KeyInv, NEW c \in Calls, KeyOK(call'[c]),
         \A d \in Calls : d # c => call'[d] = call[d]
  PROVE  KeyInv'
BY DEF KeyInv, KeyOK

LEMMA KeyHere == KeyInv => \A c \in Calls : KeyOK(call[c])
BY DEF KeyInv, KeyOK

LEMMA IdleKey == KeyOK(Idle)
BY DEF KeyOK, Idle

LEMMA MintType ==
  ASSUME TypeOK, NEW c \in Calls, NEW u \in Users,
         NEW st \in Statuses \cup {"absent"}, Mint(c, u, st)
  PROVE  /\ call' \in [Calls -> Call]
         /\ \A d \in Calls : d # c => call'[d] = call[d]
         /\ KeyOK(call'[c])
         /\ used' \subseteq Sessions
         /\ claims' \in [Sessions -> Statuses \cup {"absent"}]
<1>0. call \in [Calls -> Call] /\ used \subseteq Sessions
      /\ claims \in [Sessions -> Statuses \cup {"absent"}]
  BY DEF TypeOK
<1>1. CASE call'[c] = Idle /\ used' = used /\ claims' = claims
  BY <1>0, <1>1, MintCall, IdleKey
<1>2. CASE \E s \in Sessions \ used : Minted(c, u, st, s)
  <2>1. PICK s \in Sessions \ used : Minted(c, u, st, s)
    BY <1>2
  <2>2. call[c] \in Call
    BY <1>0
  <2>3. call'[c].pc = "set" /\ call'[c].user = u /\ call'[c].key = s
    BY <2>1, <2>2 DEF Call, Minted
  <2>4. KeyOK(call'[c])
    BY <2>1, <2>3 DEF KeyOK, Minted
  <2>5. claims' \in [Sessions -> Statuses \cup {"absent"}] /\ used' \subseteq Sessions
    BY <1>0, <2>1 DEF Minted
  <2>6. QED
    BY <1>0, <2>4, <2>5, MintCall
<1>3. QED
  BY <1>0, <1>1, <1>2, MintCall

LEMMA RequestType ==
  ASSUME TypeInv, NEW c \in Calls, NEW u \in Users, Request(c, u)
  PROVE  TypeInv'
<1> USE DEF TypeInv
<1>0. call \in [Calls -> Call] /\ account \in [Users -> Statuses \cup {"absent"}]
      /\ account[u] \in Statuses \cup {"absent"}
  BY DEF TypeOK
<1> DEFINE Moves == /\ call' \in [Calls -> Call]
                    /\ KeyInv'
<1>1. ASSUME NEW kind \in {VerifyLinks, ResetLinks}, NewLink(c, u, kind)
      PROVE  Moves
  <2>1. PICK l \in kind : OwnerOf[l] = u /\ StartWith(c, "mail", l)
    BY <1>1 DEF NewLink
  <2>2. l \in Links
    BY DEF Links
  <2>3. /\ call' \in [Calls -> Call]
        /\ call'[c] = [Idle EXCEPT !.pc = "mail", !.user = OwnerOf[l], !.key = l]
        /\ \A d \in Calls : d # c => call'[d] = call[d]
    BY <1>0, <2>1, <2>2, StartWithCall DEF Steps
  <2>4. KeyOK(call'[c])
    BY <2>1, <2>2, <2>3 DEF KeyOK, Idle
  <2>5. QED
    BY <2>3, <2>4, KeyStep
<1>2. ASSUME NEW st \in Statuses \cup {"absent"}, Mint(c, u, st)
      PROVE  Moves /\ used' \subseteq Sessions
                   /\ claims' \in [Sessions -> Statuses \cup {"absent"}]
  BY <1>0, <1>2, MintType, KeyStep
<1>3. ASSUME Start(c, "members", u) PROVE Moves
  <2>1. "members" \in Steps
    BY DEF Steps
  <2>2. /\ call' \in [Calls -> Call]
        /\ call'[c] = [Idle EXCEPT !.pc = "members", !.user = u]
        /\ \A d \in Calls : d # c => call'[d] = call[d]
    BY <1>0, <1>3, <2>1, StartCall
  <2>3. KeyOK(call'[c])
    BY <2>2 DEF KeyOK, Idle
  <2>4. QED
    BY <2>2, <2>3, KeyStep
<1>4. ASSUME UNCHANGED call PROVE Moves
  BY <1>0, <1>4 DEF KeyInv
<1>5. CASE Register(c, u) \/ ResendVerification(c, u) \/ ForgotPassword(c, u)
  <2>1. Moves
    BY <1>1, <1>5 DEF Register, ResendVerification, ForgotPassword
  <2>2. account' \in [Users -> Statuses \cup {"absent"}]
    BY <1>5, <1>0 DEF Register, ResendVerification, ForgotPassword, database, Statuses
  <2>3. UNCHANGED <<verified, google, redis, minted, marks, faults>>
    BY <1>5 DEF Register, ResendVerification, ForgotPassword, database, minted
  <2>4. QED
    BY <2>1, <2>2, <2>3 DEF TypeOK, redis, minted, marks
<1>6. CASE Login(c, u) \/ GoogleLogin(c, u) \/ GoogleSignUp(c, u)
  <2>1. \E st \in Statuses \cup {"absent"} : Mint(c, u, st)
    BY <1>6, <1>0 DEF Login, GoogleLogin, GoogleSignUp, Statuses
  <2>2. Moves /\ used' \subseteq Sessions
              /\ claims' \in [Sessions -> Statuses \cup {"absent"}]
    BY <1>2, <2>1
  <2>3. account' \in [Users -> Statuses \cup {"absent"}] /\ verified' \subseteq Users
        /\ google' \subseteq Users
    BY <1>6, <1>0 DEF Login, GoogleLogin, GoogleSignUp, database, Statuses, TypeOK
  <2>4. UNCHANGED <<redis, held, marks, faults>>
    BY <1>6 DEF Login, GoogleLogin, GoogleSignUp
  <2>5. QED
    BY <2>2, <2>3, <2>4 DEF TypeOK, redis, marks
<1>7. CASE LogoutAll(c, u) \/ ChangePassword(c, u)
  <2>1. Moves
    BY <1>3, <1>7 DEF LogoutAll, ChangePassword
  <2>2. UNCHANGED <<database, redis, minted, marks, faults>>
    BY <1>7 DEF LogoutAll, ChangePassword
  <2>3. QED
    BY <2>1, <2>2 DEF TypeOK, database, redis, minted, marks
<1>8. CASE ListSessions(c, u)
  <2> DEFINE r == [Idle EXCEPT !.pc = "mget", !.user = u, !.ids = index[u]]
  <2>1. r \in Call
    BY IdleType DEF Call, Steps, TypeOK
  <2>2. call' = [call EXCEPT ![c] = r]
    BY <1>8 DEF ListSessions
  <2>3. KeyOK(r)
    BY DEF KeyOK, Idle
  <2> HIDE DEF r
  <2>4. Moves
    BY <1>0, <2>1, <2>2, <2>3, OneCall, KeyStep
  <2>5. UNCHANGED <<database, redis, minted, marks, faults>>
    BY <1>8 DEF ListSessions
  <2>6. QED
    BY <2>4, <2>5 DEF TypeOK, database, redis, minted, marks
<1>9. CASE \E st \in Statuses : UpdateUserStatus(c, u, st)
  <2>1. Moves
    BY <1>3, <1>4, <1>9 DEF UpdateUserStatus
  <2>2. account' \in [Users -> Statuses \cup {"absent"}] /\ botched' \subseteq Users
        /\ faults' \in 0 .. MaxFaults
    BY <1>9, <1>0, FaultAssumption DEF UpdateUserStatus, TypeOK, NoFault, Fault
  <2>3. UNCHANGED <<verified, google, redis, minted, late, lost>>
    BY <1>9 DEF UpdateUserStatus
  <2>4. QED
    BY <2>1, <2>2, <2>3 DEF TypeOK, redis, minted
<1>10. QED
  BY <1>5, <1>6, <1>7, <1>8, <1>9 DEF Request

\* A revocation marks other calls; what they have at hand stays the same.
LEMMA MembersCall ==
  ASSUME TypeInv, NEW c \in Calls, ReadMembers(c)
  PROVE  /\ call' \in [Calls -> Call]
         /\ KeyInv'
<1> DEFINE u == call[c].user
           r(d) == IF d = c THEN IF index[u] = {} THEN Idle
                                 ELSE [call[c] EXCEPT !.pc = "del", !.ids = index[u]]
                   ELSE IF call[d].user = u /\ call[d].pc \in Issuing
                     THEN [call[d] EXCEPT !.late = TRUE]
                     ELSE call[d]
<1>1. u \in Users /\ index[u] \subseteq Sessions
  BY DEF ReadMembers, At, TypeInv, TypeOK, KeyInv
<1>2. ASSUME NEW d \in Calls PROVE r(d) \in Call /\ KeyOK(r(d))
  <2>1. call[d] \in Call /\ call[c] \in Call /\ KeyOK(call[d])
    BY KeyHere DEF TypeInv, TypeOK
  <2>2. CASE d = c /\ index[u] = {}
    BY <2>2, IdleType, IdleKey
  <2>3. CASE d = c /\ index[u] # {}
    <3>1. r(d) = [call[c] EXCEPT !.pc = "del", !.ids = index[u]]
      BY <2>3
    <3>2. r(d) \in Call
      BY <1>1, <2>1, <3>1 DEF Call, Steps
    <3>3. r(d).pc = "del" /\ r(d).user = u
      BY <2>1, <3>1 DEF Call
    <3>4. QED
      BY <1>1, <3>2, <3>3 DEF KeyOK
  <2>4. CASE d # c /\ call[d].user = u /\ call[d].pc \in Issuing
    <3>1. r(d) = [call[d] EXCEPT !.late = TRUE]
      BY <2>4
    <3>2. r(d) \in Call
      BY <2>1, <3>1 DEF Call
    <3>3. r(d).pc = call[d].pc /\ r(d).user = call[d].user /\ r(d).key = call[d].key
      BY <2>1, <3>1 DEF Call
    <3>4. QED
      BY <2>1, <3>2, <3>3 DEF KeyOK
  <2>5. CASE d # c /\ ~(call[d].user = u /\ call[d].pc \in Issuing)
    BY <2>1, <2>5
  <2>6. QED
    BY <2>2, <2>3, <2>4, <2>5
<1>3. call' = [d \in Calls |-> r(d)]
  BY DEF ReadMembers
<1> HIDE DEF r
<1>4. call' \in [Calls -> Call] /\ \A d \in Calls : KeyOK(call'[d])
  BY <1>2, <1>3
<1>5. QED
  BY <1>4 DEF KeyInv, KeyOK

LEMMA ContinueType ==
  ASSUME TypeInv, NEW c \in Calls, Continue(c)
  PROVE  TypeInv'
<1> USE DEF TypeInv
<1>0. /\ call \in [Calls -> Call]
      /\ call[c] \in Call
      /\ KeyOK(call[c])
      /\ At(c, "idle") \/ call[c].user \in Users
  BY KeyHere DEF TypeOK, KeyOK, At
<1> DEFINE Moves == /\ call' \in [Calls -> Call]
                    /\ KeyInv'
           u == call[c].user
<1>1. ASSUME Stop(c) PROVE Moves
  BY <1>0, <1>1, StopCall, IdleKey, KeyStep
<1>2. ASSUME NEW step \in {"add", "verify", "reset", "members", "drop"}, Goto(c, step),
             ~At(c, "idle"),
             step = "add" => At(c, "set")
      PROVE  Moves
  <2>1. step \in Steps
    BY DEF Steps
  <2>2. /\ call' \in [Calls -> Call]
        /\ call'[c] = [call[c] EXCEPT !.pc = step]
        /\ \A d \in Calls : d # c => call'[d] = call[d]
    BY <1>0, <1>2, <2>1, GotoCall
  <2>3. call'[c].pc = step /\ call'[c].user = u /\ call'[c].key = call[c].key
    BY <1>0, <2>2 DEF Call
  <2>4. KeyOK(call'[c])
    BY <1>0, <1>2, <2>3 DEF KeyOK, At
  <2>5. QED
    BY <2>2, <2>4, KeyStep
<1>3. ASSUME NEW step \in {"promote", "rotate"}, NEW st \in Statuses \cup {"absent"},
             call' = [call EXCEPT ![c].pc = step, ![c].seen = st],
             ~At(c, "idle"),
             step = "rotate" => At(c, "owner")
      PROVE  Moves
  <2> DEFINE r == [call[c] EXCEPT !.pc = step, !.seen = st]
  <2>1. call' = [call EXCEPT ![c] = r]
    BY <1>0, <1>3
  <2>2. r \in Call /\ r.pc = step /\ r.user = u /\ r.key = call[c].key
    BY <1>0 DEF Call, Steps
  <2> HIDE DEF r
  <2>3. call' \in [Calls -> Call] /\ call'[c] = r
        /\ \A d \in Calls : d # c => call'[d] = call[d]
    BY <1>0, <2>1, <2>2, OneCall
  <2>4. KeyOK(r)
    BY <1>0, <1>3, <2>2 DEF KeyOK, At
  <2>5. QED
    BY <2>3, <2>4, KeyStep
<1>4. ASSUME Mint(c, u, call[c].seen), ~At(c, "idle")
      PROVE  Moves /\ used' \subseteq Sessions
                   /\ claims' \in [Sessions -> Statuses \cup {"absent"}]
  <2>1. call[c].seen \in Statuses \cup {"absent"}
    BY <1>0 DEF Call
  <2>2. QED
    BY <1>0, <1>4, <2>1, MintType, KeyStep
<1>5. CASE StoreLink(c)
  <2>1. Moves
    BY <1>1, <1>5 DEF StoreLink
  <2>2. links' \subseteq Links
    BY <1>0, <1>5 DEF StoreLink, KeyOK, At, TypeOK
  <2>3. UNCHANGED <<database, live, index, minted, marks, faults>>
    BY <1>5 DEF StoreLink
  <2>4. QED
    BY <2>1, <2>2, <2>3 DEF TypeOK, database, minted, marks
<1>6. CASE BurnLink(c)
  <2>1. Moves
    BY <1>2, <1>6 DEF BurnLink, At
  <2>2. links' \subseteq Links /\ faults' \in 0 .. MaxFaults
    BY <1>6, FaultAssumption DEF BurnLink, TypeOK, Fault, NoFault
  <2>3. UNCHANGED <<database, live, index, minted, marks>>
    BY <1>6 DEF BurnLink
  <2>4. QED
    BY <2>1, <2>2, <2>3 DEF TypeOK, database, minted, marks
<1>7. CASE ReadUnverified(c) \/ ReadOwner(c)
  <2>1. ~At(c, "idle") /\ account[u] \in Statuses \cup {"absent"}
    BY <1>0, <1>7 DEF ReadUnverified, ReadOwner, At, TypeOK
  <2>2. Moves
    BY <1>1, <1>3, <1>7, <2>1 DEF ReadUnverified, ReadOwner
  <2>3. UNCHANGED <<database, redis, minted, marks, faults>>
    BY <1>7 DEF ReadUnverified, ReadOwner
  <2>4. QED
    BY <2>2, <2>3 DEF TypeOK, database, redis, minted, marks
<1>8. CASE Promote(c)
  <2>1. ~At(c, "idle") /\ u \in Users
    BY <1>0, <1>8 DEF Promote, At
  <2>2. Moves /\ used' \subseteq Sessions
              /\ claims' \in [Sessions -> Statuses \cup {"absent"}]
    BY <1>4, <1>8, <2>1 DEF Promote
  <2>3. account' \in [Users -> Statuses \cup {"absent"}] /\ verified' \subseteq Users
    BY <1>8, <2>1 DEF Promote, TypeOK, Statuses
  <2>4. UNCHANGED <<google, redis, held, marks, faults>>
    BY <1>8 DEF Promote
  <2>5. QED
    BY <2>2, <2>3, <2>4 DEF TypeOK, redis, marks
<1>9. CASE ResetPassword(c)
  <2>1. Moves
    BY <1>1, <1>2, <1>9 DEF ResetPassword, At
  <2>2. links' \subseteq Links
    BY <1>9 DEF ResetPassword, TypeOK
  <2>3. UNCHANGED <<database, live, index, minted, marks, faults>>
    BY <1>9 DEF ResetPassword
  <2>4. QED
    BY <2>1, <2>2, <2>3 DEF TypeOK, database, minted, marks
<1>10. CASE Rotate(c)
  <2>1. ~At(c, "idle") /\ call[c].key \in Sessions
    BY <1>0, <1>10 DEF Rotate, At, KeyOK
  <2>2. Moves /\ used' \subseteq Sessions
              /\ claims' \in [Sessions -> Statuses \cup {"absent"}]
    BY <1>4, <1>10, <2>1 DEF Rotate
  <2>3. live' \subseteq Sessions /\ index' \in [Users -> SUBSET Sessions]
        /\ faults' \in 0 .. MaxFaults
    BY <1>10, FaultAssumption DEF Rotate, TryRevoke, Revoke, TypeOK, Fault, NoFault
  <2>4. UNCHANGED <<database, links, held, marks>>
    BY <1>10 DEF Rotate
  <2>5. QED
    BY <2>2, <2>3, <2>4 DEF TypeOK, database, marks
<1>11. CASE SetSession(c)
  <2>1. Moves
    BY <1>2, <1>11 DEF SetSession, At
  <2>2. live' \subseteq Sessions /\ index' = index
    BY <1>0, <1>11 DEF SetSession, StoreCommand, At, KeyOK, TypeOK
  <2>3. UNCHANGED <<database, links, minted, marks, faults>>
    BY <1>11 DEF SetSession
  <2>4. QED
    BY <2>1, <2>2, <2>3 DEF TypeOK, database, minted, marks
<1>12. CASE AddSession(c)
  <2>1. Moves
    BY <1>1, <1>12 DEF AddSession
  <2>2. call[c].key \in Sessions /\ OwnerOf[call[c].key] \in Users
    BY <1>0, <1>12, OwnerType DEF AddSession, At, KeyOK
  <2>3. index' \in [Users -> SUBSET Sessions] /\ live' = live
    BY <1>12, <2>2 DEF AddSession, StoreCommand, TypeOK
  <2>4. held' \subseteq Sessions /\ late' \subseteq Sessions
    BY <1>12, <2>2 DEF AddSession, TypeOK
  <2>5. UNCHANGED <<database, links, used, claims, lost, botched, faults>>
    BY <1>12 DEF AddSession
  <2>6. QED
    BY <2>1, <2>3, <2>4, <2>5 DEF TypeOK, database
<1>13. CASE ReadMembers(c)
  <2>1. Moves
    BY <1>13, MembersCall
  <2>2. UNCHANGED <<database, redis, minted, marks, faults>>
    BY <1>13 DEF ReadMembers
  <2>3. QED
    BY <2>1, <2>2 DEF TypeOK, database, redis, minted, marks
<1>14. CASE DeleteMembers(c)
  <2>1. Moves
    BY <1>2, <1>14 DEF DeleteMembers, At
  <2>2. UNCHANGED <<database, links, index, minted, marks, faults>> /\ live' \subseteq live
    BY <1>14 DEF DeleteMembers
  <2>3. QED
    BY <2>1, <2>2 DEF TypeOK, database, minted, marks
<1>15. CASE DropIndex(c)
  <2>1. Moves
    BY <1>1, <1>15 DEF DropIndex
  <2>2. u \in Users
    BY <1>0, <1>15 DEF DropIndex, At
  <2>3. index' \in [Users -> SUBSET Sessions] /\ lost' \subseteq Sessions
    BY <1>15, <2>2 DEF DropIndex, TypeOK
  <2>4. UNCHANGED <<database, links, live, minted, late, botched, faults>>
    BY <1>15 DEF DropIndex
  <2>5. QED
    BY <2>1, <2>3, <2>4 DEF TypeOK, database, minted
<1>16. CASE ReadListed(c)
  <2> DEFINE stale == call[c].ids \ live
             r == [call[c] EXCEPT !.pc = "prune", !.ids = stale]
  <2>1. r \in Call /\ r.pc = "prune" /\ r.user = u
    BY <1>0 DEF Call, Steps
  <2>2. u \in Users
    BY <1>0, <1>16 DEF ReadListed, At
  <2>3. KeyOK(r)
    BY <2>1, <2>2 DEF KeyOK
  <2>4. Stop(c) \/ call' = [call EXCEPT ![c] = r]
    BY <1>0, <1>16 DEF ReadListed
  <2> HIDE DEF r
  <2>5. Moves
    BY <1>0, <1>1, <2>1, <2>3, <2>4, OneCall, KeyStep
  <2>6. UNCHANGED <<database, redis, minted, marks, faults>>
    BY <1>16 DEF ReadListed
  <2>7. QED
    BY <2>5, <2>6 DEF TypeOK, database, redis, minted, marks
<1>17. CASE PruneIndex(c)
  <2>1. Moves
    BY <1>1, <1>17 DEF PruneIndex
  <2>2. index' \in [Users -> SUBSET Sessions]
    BY <1>17 DEF PruneIndex, TypeOK
  <2>3. UNCHANGED <<database, links, live, minted, marks, faults>>
    BY <1>17 DEF PruneIndex
  <2>4. QED
    BY <2>1, <2>2, <2>3 DEF TypeOK, database, minted, marks
<1>18. CASE Abort(c)
  <2>1. Moves
    BY <1>1, <1>18 DEF Abort
  <2>2. live' \subseteq Sessions /\ botched' \subseteq Users /\ faults' \in 0 .. MaxFaults
    BY <1>0, <1>18, FaultAssumption DEF Abort, Fault, TypeOK
  <2>3. UNCHANGED <<database, links, index, minted, late, lost>>
    BY <1>18 DEF Abort
  <2>4. QED
    BY <2>1, <2>2, <2>3 DEF TypeOK, database, minted
<1>19. QED
  BY <1>5, <1>6, <1>7, <1>8, <1>9, <1>10, <1>11, <1>12, <1>13, <1>14, <1>15, <1>16,
     <1>17, <1>18 DEF Continue

LEMMA OtherType ==
  ASSUME TypeInv,
         \/ \E c \in Calls : \/ \E l \in Links : ReadLink(c, l)
                             \/ \E s \in Sessions : RefreshTokens(c, s)
         \/ \E s \in Sessions : \/ Logout(s) \/ Expire(s)
                                \/ \E u \in Users : RevokeOne(u, s)
         \/ \E l \in Links : LinkExpires(l)
  PROVE  TypeInv'
<1> USE DEF TypeInv
<1>1. CASE \E c \in Calls : \/ \E l \in Links : ReadLink(c, l)
                            \/ \E s \in Sessions : RefreshTokens(c, s)
  <2>1. PICK c \in Calls : \/ \E l \in Links : ReadLink(c, l)
                           \/ \E s \in Sessions : RefreshTokens(c, s)
    BY <1>1
  <2>2. "burn" \in Steps /\ "owner" \in Steps
    BY DEF Steps
  <2>3. ASSUME \E l \in Links : ReadLink(c, l)
        PROVE  call' \in [Calls -> Call] /\ KeyInv'
    <3>1. PICK l \in Links : StartWith(c, "burn", l)
      BY <2>3 DEF ReadLink
    <3>2. /\ call' \in [Calls -> Call]
          /\ call'[c] = [Idle EXCEPT !.pc = "burn", !.user = OwnerOf[l], !.key = l]
          /\ \A d \in Calls : d # c => call'[d] = call[d]
      BY <2>2, <3>1, StartWithCall DEF TypeOK
    <3>3. KeyOK(call'[c])
      BY <3>2, OwnerType DEF KeyOK, Idle
    <3>4. QED
      BY <3>2, <3>3, KeyStep
  <2>4. ASSUME \E s \in Sessions : RefreshTokens(c, s)
        PROVE  call' \in [Calls -> Call] /\ KeyInv'
    <3>1. PICK s \in Sessions : StartWith(c, "owner", s)
      BY <2>4 DEF RefreshTokens
    <3>2. /\ call' \in [Calls -> Call]
          /\ call'[c] = [Idle EXCEPT !.pc = "owner", !.user = OwnerOf[s], !.key = s]
          /\ \A d \in Calls : d # c => call'[d] = call[d]
      BY <2>2, <3>1, StartWithCall DEF TypeOK
    <3>3. KeyOK(call'[c])
      BY <3>2, OwnerType DEF KeyOK, Idle
    <3>4. QED
      BY <3>2, <3>3, KeyStep
  <2>5. call' \in [Calls -> Call] /\ KeyInv'
    BY <2>1, <2>3, <2>4
  <2>6. UNCHANGED <<database, redis, minted, marks, faults>>
    BY <2>1 DEF ReadLink, RefreshTokens
  <2>7. QED
    BY <2>5, <2>6 DEF TypeOK, database, redis, minted, marks
<1>2. CASE \E s \in Sessions : \/ Logout(s) \/ Expire(s)
                               \/ \E u \in Users : RevokeOne(u, s)
  <2>1. /\ live' \subseteq Sessions
        /\ index' \in [Users -> SUBSET Sessions]
        /\ faults' \in 0 .. MaxFaults
    BY <1>2, FaultAssumption
       DEF Logout, Expire, RevokeOne, TryRevoke, Revoke, TypeOK, Fault, NoFault
  <2>2. UNCHANGED <<database, links, call, minted, marks>>
    BY <1>2 DEF Logout, Expire, RevokeOne
  <2>3. QED
    BY <2>1, <2>2 DEF TypeOK, KeyInv, database, minted, marks
<1>3. CASE \E l \in Links : LinkExpires(l)
  <2>1. UNCHANGED <<database, live, index, call, minted, marks, faults>>
        /\ links' \subseteq Links
    BY <1>3 DEF LinkExpires, TypeOK
  <2>2. QED
    BY <2>1 DEF TypeOK, KeyInv, database, minted, marks
<1>4. QED
  BY <1>1, <1>2, <1>3

LEMMA NextType == TypeInv /\ [Next]_vars => TypeInv'
<1> SUFFICES ASSUME TypeInv, [Next]_vars PROVE TypeInv'
  OBVIOUS
<1>1. CASE UNCHANGED vars
  BY <1>1 DEF TypeInv, TypeOK, KeyInv, vars, database, redis, minted, marks
<1>2. CASE Next
  BY <1>2, RequestType, ContinueType, OtherType DEF Next
<1>3. QED
  BY <1>1, <1>2

LEMMA InitType == Init => TypeInv
BY IdleType, IdleKey, FaultAssumption DEF Init, TypeInv, TypeOK, KeyInv, Idle, Statuses

\* Every variable has its type in every reachable state.
THEOREM TypeCorrect == Spec => []TypeOK
<1>1. TypeInv => TypeOK
  BY DEF TypeInv
<1>2. QED
  BY <1>1, InitType, NextType, PTL DEF Spec
(***************************************************************************)
(* Sessions come and go.  A session to be stored is one nobody knows of.   *)
(***************************************************************************)
Pending(r) == r.pc \in {"set", "add"}

KnownInv ==
  /\ live \subseteq used
  /\ held \subseteq used
  /\ \A u \in Users : index[u] \subseteq used
  /\ \A c \in Calls : call[c].ids \subseteq used

PendingInv ==
  \A c \in Calls :
    /\ Pending(call[c]) => call[c].key \in used
    /\ call[c].pc = "set" =>
         /\ call[c].key \notin live \cup held
         /\ \A u \in Users : call[c].key \notin index[u]
         /\ \A d \in Calls : call[c].key \notin call[d].ids
    /\ \A d \in Calls :
         d # c /\ Pending(call[c]) /\ Pending(call[d]) => call[c].key # call[d].key

IndexInv == KnownInv /\ PendingInv /\ NoResurrection /\ IndexedUnlessLost

(***************************************************************************)
(* Bans.  A session of a blocked user that AuthRequired would let in, and  *)
(* one on its way, have a revocation still ahead of them.                  *)
(***************************************************************************)
Banned(u) == account[u] \in Blocked /\ u \notin botched

\* The call d is about to read the set of u.
Ahead(d, u) == call[d].user = u /\ call[d].pc = "members"

BanInv ==
  \A u \in Users : Banned(u) =>
    /\ \A s \in Sessions :
         OwnerOf[s] = u /\ Admitted(s) /\ s \notin late \cup lost =>
           \E d \in Calls : \/ Ahead(d, u)
                            \/ call[d].user = u /\ call[d].pc = "del" /\ s \in call[d].ids
    /\ \A c \in Calls :
         /\ call[c].user = u
         /\ call[c].pc \in {"rotate", "set", "add"}
         /\ ~call[c].late
         => \E d \in Calls : Ahead(d, u)

\* What most steps do: sessions and set members are only removed, a member that
\* is still a usable session only into lost, and each call is as before, or
\* moves away from storing a session, or has just made one.
Fewer ==
  /\ live' \subseteq live
  /\ used \subseteq used'
  /\ held' = held
  /\ lost \subseteq lost'
  /\ \A u \in Users : index'[u] \subseteq index[u]
  /\ \A s \in held \cap live' :
       s \in index[OwnerOf[s]] => s \in index'[OwnerOf[s]] \cup lost'

Same(d) == /\ call'[d].pc = call[d].pc
           /\ call'[d].key = call[d].key
           /\ call'[d].ids = call[d].ids

Moved(d) == /\ ~Pending(call'[d])
            /\ \/ call'[d].ids \subseteq call[d].ids
               \/ \E u \in Users : call'[d].ids \subseteq index[u]
            /\ call'[d].pc \in {"drop", "prune"} => call'[d].ids \cap live' = {}

New(d) == /\ call'[d].pc = "set"
          /\ call'[d].key \in used' \ used
          /\ call'[d].ids = call[d].ids

Calm == /\ Fewer
        /\ \A d \in Calls : Same(d) \/ Moved(d) \/ New(d)
        /\ \A d, e \in Calls : New(d) /\ New(e) => d = e

LEMMA CalmStep ==
  ASSUME TypeOK, IndexInv, Calm
  PROVE  IndexInv'
<1> USE DEF IndexInv
<1>1. KnownInv'
  <2>1. ASSUME NEW d \in Calls PROVE call'[d].ids \subseteq used'
    BY DEF Calm, Fewer, Same, Moved, New, KnownInv
  <2>2. QED
    BY <2>1 DEF Calm, Fewer, KnownInv
<1>2. PendingInv'
  <2>1. SUFFICES ASSUME NEW d \in Calls
                 PROVE  /\ Pending(call'[d]) => call'[d].key \in used'
                        /\ call'[d].pc = "set" =>
                             /\ call'[d].key \notin live' \cup held'
                             /\ \A u \in Users : call'[d].key \notin index'[u]
                             /\ \A e \in Calls : call'[d].key \notin call'[e].ids
                        /\ \A e \in Calls :
                             e # d /\ Pending(call'[d]) /\ Pending(call'[e]) =>
                               call'[d].key # call'[e].key
    BY DEF PendingInv, Pending
  <2>2. Pending(call'[d]) => call'[d].key \in used'
    BY DEF Calm, Fewer, Same, Moved, New, PendingInv, Pending
  <2>3. ASSUME call'[d].pc = "set"
        PROVE  /\ call'[d].key \notin live' \cup held'
               /\ \A u \in Users : call'[d].key \notin index'[u]
               /\ \A e \in Calls : call'[d].key \notin call'[e].ids
    <3>1. CASE Same(d)
      <4>1. /\ call[d].key \notin live \cup held
            /\ \A u \in Users : call[d].key \notin index[u]
            /\ \A e \in Calls : call[d].key \notin call[e].ids
        BY <2>3, <3>1 DEF Same, PendingInv
      <4>2. \A e \in Calls : call[d].key \notin call'[e].ids
        BY <4>1 DEF Calm, Same, Moved, New
      <4>3. QED
        BY <3>1, <4>1, <4>2 DEF Calm, Fewer, Same
    <3>2. CASE New(d)
      <4>1. call'[d].key \notin used
        BY <3>2 DEF New
      <4>2. \A e \in Calls : call'[e].ids \subseteq used
        BY DEF Calm, Same, Moved, New, KnownInv
      <4>3. QED
        BY <4>1, <4>2 DEF Calm, Fewer, KnownInv
    <3>3. QED
      BY <2>3, <3>1, <3>2 DEF Calm, Moved, Pending
  <2>4. ASSUME NEW e \in Calls, e # d, Pending(call'[d]), Pending(call'[e])
        PROVE  call'[d].key # call'[e].key
    BY <2>4 DEF Calm, Same, Moved, New, PendingInv, Pending
  <2>5. QED
    BY <2>2, <2>3, <2>4
<1>3. NoResurrection'
  <2>1. ASSUME NEW d \in Calls, call'[d].pc \in {"drop", "prune"}
        PROVE  call'[d].ids \cap live' = {}
    BY <2>1 DEF Calm, Fewer, Same, Moved, New, NoResurrection
  <2>2. QED
    BY <2>1 DEF NoResurrection
<1>4. IndexedUnlessLost'
  BY DEF Calm, Fewer, IndexedUnlessLost
<1>5. QED
  BY <1>1, <1>2, <1>3, <1>4

LEMMA OneMovesSame ==
  ASSUME NEW c \in Calls, \A d \in Calls : d # c => Same(d),
         PendingInv, Fewer, Moved(c) \/ New(c)
  PROVE  Calm
<1>1. \A d \in Calls : New(d) => d = c
  <2>1. SUFFICES ASSUME NEW d \in Calls, New(d), d # c PROVE FALSE
    OBVIOUS
  <2>2. QED
    BY <2>1 DEF New, Same, PendingInv, Pending
<1>2. QED
  BY <1>1 DEF Calm

LEMMA OneMoves ==
  ASSUME NEW c \in Calls, \A d \in Calls : d # c => call'[d] = call[d],
         PendingInv, Fewer, Moved(c) \/ New(c)
  PROVE  Calm
<1>1. \A d \in Calls : d # c => Same(d)
  BY DEF Same
<1>2. QED
  BY <1>1, OneMovesSame

\* A call that goes on without storing, dropping or pruning.
LEMMA GoesOn ==
  ASSUME NEW c \in Calls, \A d \in Calls : d # c => call'[d] = call[d],
         PendingInv, Fewer,
         call'[c].pc \notin {"set", "add", "drop", "prune"},
         \/ call'[c].ids \subseteq call[c].ids
         \/ \E u \in Users : call'[c].ids \subseteq index[u]
  PROVE  Calm
BY OneMoves DEF Moved, Pending

LEMMA StopCalm ==
  ASSUME TypeOK, PendingInv, Fewer, NEW c \in Calls, Stop(c)
  PROVE  Calm
<1>1. call'[c] = Idle /\ \A d \in Calls : d # c => call'[d] = call[d]
  BY StopCall DEF TypeOK
<1>2. call'[c].pc = "idle" /\ call'[c].ids = {}
  BY <1>1 DEF Idle
<1>3. QED
  BY <1>1, <1>2, GoesOn

LEMMA GotoCalm ==
  ASSUME TypeOK, PendingInv, Fewer, NEW c \in Calls,
         NEW step \in {"verify", "reset", "members"}, Goto(c, step)
  PROVE  Calm
<1>1. step \in Steps
  BY DEF Steps
<1>2. /\ call'[c] = [call[c] EXCEPT !.pc = step]
      /\ \A d \in Calls : d # c => call'[d] = call[d]
  BY <1>1, GotoCall DEF TypeOK
<1>3. call[c] \in Call
  BY DEF TypeOK
<1>4. call'[c].pc = step /\ call'[c].ids = call[c].ids
  BY <1>2, <1>3 DEF Call
<1>5. QED
  BY <1>2, <1>4, GoesOn

LEMMA MintCalm ==
  ASSUME TypeOK, PendingInv, Fewer, NEW c \in Calls, NEW u \in Users,
         NEW st \in Statuses \cup {"absent"}, Mint(c, u, st)
  PROVE  Calm
<1>1. call \in [Calls -> Call] /\ call[c] \in Call
  BY DEF TypeOK
<1>2. \A d \in Calls : d # c => call'[d] = call[d]
  BY <1>1, MintCall
<1>3. CASE call'[c] = Idle
  <2>1. call'[c].pc = "idle" /\ call'[c].ids = {}
    BY <1>3 DEF Idle
  <2>2. QED
    BY <1>2, <2>1, GoesOn
<1>4. CASE \E s \in Sessions \ used : Minted(c, u, st, s)
  <2>1. PICK s \in Sessions \ used : Minted(c, u, st, s)
    BY <1>4
  <2>2. call'[c].pc = "set" /\ call'[c].key = s /\ call'[c].ids = call[c].ids
    BY <1>1, <2>1 DEF Call, Minted
  <2>3. New(c)
    BY <2>1, <2>2 DEF New, Minted
  <2>4. QED
    BY <1>2, <2>3, OneMoves
<1>5. QED
  BY <1>1, <1>3, <1>4, MintCall

LEMMA MintUsed ==
  ASSUME NEW c \in Calls, NEW u \in Users, NEW st, Mint(c, u, st)
  PROVE  used \subseteq used'
BY DEF Mint

LEMMA QuietFewer ==
  ASSUME used \subseteq used', UNCHANGED <<live, index, held, lost>>
  PROVE  Fewer
BY DEF Fewer

LEMMA QuietCalm ==
  ASSUME Fewer, UNCHANGED call, PendingInv
  PROVE  Calm
<1>1. \A d \in Calls : Same(d)
  BY DEF Same
<1>2. \A d \in Calls : ~New(d)
  BY DEF New, PendingInv, Pending
<1>3. QED
  BY <1>1, <1>2 DEF Calm

\* Deleting a session and its entry, or one of the two as far as it gets.
LEMMA RevokeFewer ==
  ASSUME TypeOK, NEW s \in Sessions, TryRevoke(s), used \subseteq used',
         UNCHANGED <<held, lost>>
  PROVE  Fewer
<1>1. live' \in {live, live \ {s}}
  BY DEF TryRevoke, Revoke
<1>2. \/ index' = index
      \/ index' = [index EXCEPT ![OwnerOf[s]] = @ \ {s}] /\ live' = live \ {s}
  BY DEF TryRevoke, Revoke
<1>3. OwnerOf[s] \in Users /\ index \in [Users -> SUBSET Sessions]
  BY OwnerType DEF TypeOK
<1>4. \A u \in Users : index'[u] \subseteq index[u]
  BY <1>2, <1>3
<1>5. ASSUME NEW t \in held \cap live', t \in index[OwnerOf[t]]
      PROVE  t \in index'[OwnerOf[t]]
  <2>1. OwnerOf[t] \in Users
    BY OwnerType DEF TypeOK
  <2>2. CASE index' = index
    BY <1>5, <2>2
  <2>3. CASE index' = [index EXCEPT ![OwnerOf[s]] = @ \ {s}] /\ live' = live \ {s}
    BY <1>3, <1>5, <2>1, <2>3
  <2>4. QED
    BY <1>2, <2>2, <2>3
<1>6. QED
  BY <1>1, <1>4, <1>5 DEF Fewer

LEMMA RequestIndex ==
  ASSUME TypeInv, IndexInv, NEW c \in Calls, NEW u \in Users, Request(c, u)
  PROVE  IndexInv'
<1> USE DEF TypeInv
<1>0. /\ TypeOK /\ PendingInv
      /\ call \in [Calls -> Call]
      /\ account[u] \in Statuses \cup {"absent"}
  BY DEF IndexInv, TypeOK
<1>1. ASSUME NEW kind \in {VerifyLinks, ResetLinks}, NewLink(c, u, kind), Fewer
      PROVE  Calm
  <2>1. PICK l \in kind : StartWith(c, "mail", l)
    BY <1>1 DEF NewLink
  <2>2. l \in Sessions \cup Links /\ "mail" \in Steps
    BY DEF Links, Steps
  <2>3. /\ call' \in [Calls -> Call]
        /\ call'[c] = [Idle EXCEPT !.pc = "mail", !.user = OwnerOf[l], !.key = l]
        /\ \A d \in Calls : d # c => call'[d] = call[d]
    BY <1>0, <2>1, <2>2, StartWithCall
  <2>4. call'[c].pc = "mail" /\ call'[c].ids = {}
    BY <2>3 DEF Idle
  <2>5. QED
    BY <1>0, <1>1, <2>3, <2>4, GoesOn
<1>2. ASSUME Start(c, "members", u), Fewer PROVE Calm
  <2>1. "members" \in Steps
    BY DEF Steps
  <2>2. /\ call'[c] = [Idle EXCEPT !.pc = "members", !.user = u]
        /\ \A d \in Calls : d # c => call'[d] = call[d]
    BY <1>0, <1>2, <2>1, StartCall
  <2>3. call'[c].pc = "members" /\ call'[c].ids = {}
    BY <2>2 DEF Idle
  <2>4. QED
    BY <1>0, <1>2, <2>2, <2>3, GoesOn
<1>3. CASE Register(c, u) \/ ResendVerification(c, u) \/ ForgotPassword(c, u)
  <2>1. Fewer
    BY <1>3, QuietFewer
       DEF Register, ResendVerification, ForgotPassword, redis, minted, marks
  <2>2. QED
    BY <1>1, <1>3, <2>1, CalmStep DEF Register, ResendVerification, ForgotPassword
<1>4. CASE Login(c, u) \/ GoogleLogin(c, u) \/ GoogleSignUp(c, u)
  <2>1. PICK st \in Statuses \cup {"absent"} : Mint(c, u, st)
    BY <1>4, <1>0 DEF Login, GoogleLogin, GoogleSignUp, Statuses
  <2>2. Fewer
    BY <1>4, <2>1, MintUsed, QuietFewer DEF Login, GoogleLogin, GoogleSignUp, redis, marks
  <2>3. QED
    BY <1>0, <2>1, <2>2, MintCalm, CalmStep
<1>5. CASE LogoutAll(c, u) \/ ChangePassword(c, u)
  <2>1. Fewer
    BY <1>5, QuietFewer DEF LogoutAll, ChangePassword, redis, minted, marks
  <2>2. QED
    BY <1>2, <1>5, <2>1, CalmStep DEF LogoutAll, ChangePassword
<1>6. CASE ListSessions(c, u)
  <2> DEFINE r == [Idle EXCEPT !.pc = "mget", !.user = u, !.ids = index[u]]
  <2>1. r \in Call /\ r.pc = "mget" /\ r.ids = index[u]
    BY IdleType DEF Call, Steps, TypeOK, Idle
  <2>2. call' = [call EXCEPT ![c] = r]
    BY <1>6 DEF ListSessions
  <2>3. Fewer
    BY <1>6, QuietFewer DEF ListSessions, redis, minted, marks
  <2> HIDE DEF r
  <2>4. call'[c] = r /\ \A d \in Calls : d # c => call'[d] = call[d]
    BY <1>0, <2>1, <2>2, OneCall
  <2>5. QED
    BY <1>0, <2>1, <2>3, <2>4, GoesOn, CalmStep
<1>7. CASE \E st \in Statuses : UpdateUserStatus(c, u, st)
  <2>1. Fewer
    BY <1>7, QuietFewer DEF UpdateUserStatus, redis, minted
  <2>2. Start(c, "members", u) \/ UNCHANGED call
    BY <1>7 DEF UpdateUserStatus
  <2>3. QED
    BY <1>0, <1>2, <2>1, <2>2, QuietCalm, CalmStep
<1>8. QED
  BY <1>3, <1>4, <1>5, <1>6, <1>7 DEF Request

\* The session comes to life: nobody else is about to store it or has read it.
LEMMA SetIndex ==
  ASSUME TypeInv, IndexInv, NEW c \in Calls, SetSession(c)
  PROVE  IndexInv'
<1> DEFINE s == call[c].key
<1>0. TypeOK /\ call[c] \in Call /\ s \in used
      /\ call[c].pc = "set"
  BY DEF TypeInv, TypeOK, IndexInv, PendingInv, Pending, SetSession, At
<1>1. /\ live' = live \cup {s}
      /\ UNCHANGED <<index, used, held, lost>>
  BY DEF SetSession, StoreCommand, minted, marks
<1>2. /\ call' \in [Calls -> Call]
      /\ call'[c] = [call[c] EXCEPT !.pc = "add"]
      /\ \A d \in Calls : d # c => call'[d] = call[d]
  <2>1. "add" \in Steps
    BY DEF Steps
  <2>2. call \in [Calls -> Call] /\ Goto(c, "add")
    BY <1>0 DEF TypeOK, SetSession
  <2>3. QED
    BY <2>1, <2>2, GotoCall
<1>3. call'[c].pc = "add" /\ call'[c].key = s /\ call'[c].ids = call[c].ids
  BY <1>0, <1>2 DEF Call
<1>4. \A d \in Calls : call'[d].ids = call[d].ids /\ call'[d].key = call[d].key
  BY <1>2, <1>3
<1>5. KnownInv'
  BY <1>0, <1>1, <1>4 DEF IndexInv, KnownInv
<1>6. PendingInv'
  <2>1. ASSUME NEW d \in Calls, Pending(call'[d])
        PROVE  /\ Pending(call[d])
               /\ call'[d].pc = "set" => d # c /\ call[d].pc = "set"
    BY <1>0, <1>2, <1>3, <2>1 DEF Pending
  <2>2. \A d \in Calls : d # c /\ Pending(call[d]) => call[d].key # s
    BY <1>0 DEF IndexInv, PendingInv, Pending
  <2>3. SUFFICES ASSUME NEW d \in Calls
                 PROVE  /\ Pending(call'[d]) => call'[d].key \in used'
                        /\ call'[d].pc = "set" =>
                             /\ call'[d].key \notin live' \cup held'
                             /\ \A u \in Users : call'[d].key \notin index'[u]
                             /\ \A e \in Calls : call'[d].key \notin call'[e].ids
                        /\ \A e \in Calls :
                             e # d /\ Pending(call'[d]) /\ Pending(call'[e]) =>
                               call'[d].key # call'[e].key
    BY DEF PendingInv, Pending
  <2>4. Pending(call'[d]) => call'[d].key \in used'
    BY <1>1, <1>4, <2>1 DEF IndexInv, PendingInv
  <2>5. ASSUME call'[d].pc = "set"
        PROVE  /\ call'[d].key \notin live' \cup held'
               /\ \A u \in Users : call'[d].key \notin index'[u]
               /\ \A e \in Calls : call'[d].key \notin call'[e].ids
    <3>1. d # c /\ call[d].pc = "set" /\ call[d].key # s
      BY <2>1, <2>2, <2>5 DEF Pending
    <3>2. QED
      BY <1>1, <1>4, <3>1 DEF IndexInv, PendingInv
  <2>6. \A e \in Calls : e # d /\ Pending(call'[d]) /\ Pending(call'[e]) =>
                           call'[d].key # call'[e].key
    BY <1>4, <2>1 DEF IndexInv, PendingInv
  <2>7. QED
    BY <2>4, <2>5, <2>6
<1>7. NoResurrection'
  <2>1. ASSUME NEW d \in Calls, call'[d].pc \in {"drop", "prune"}
        PROVE  call'[d].ids \cap live' = {}
    <3>1. call[d].pc \in {"drop", "prune"}
      BY <1>2, <1>3, <2>1
    <3>2. s \notin call[d].ids
      BY <1>0 DEF IndexInv, PendingInv
    <3>3. QED
      BY <1>1, <1>4, <3>1, <3>2 DEF IndexInv, NoResurrection
  <2>2. QED
    BY <2>1 DEF NoResurrection
<1>8. IndexedUnlessLost'
  <2>1. s \notin held
    BY <1>0 DEF IndexInv, PendingInv
  <2>2. QED
    BY <1>1, <2>1 DEF IndexInv, IndexedUnlessLost
<1>9. QED
  BY <1>5, <1>6, <1>7, <1>8 DEF IndexInv

\* The session is entered in its owner's set when the client gets it.
LEMMA AddIndex ==
  ASSUME TypeInv, IndexInv, NEW c \in Calls, AddSession(c)
  PROVE  IndexInv'
<1> DEFINE s == call[c].key
<1>0. TypeOK /\ call[c] \in Call /\ s \in used /\ call[c].pc = "add"
      /\ s \in Sessions /\ OwnerOf[s] \in Users
  BY OwnerType DEF TypeInv, TypeOK, KeyInv, IndexInv, PendingInv, Pending, AddSession, At
<1>1. /\ index' = [index EXCEPT ![OwnerOf[s]] = @ \cup {s}]
      /\ held' = held \cup {s}
      /\ UNCHANGED <<live, used, lost>>
  BY DEF AddSession, StoreCommand
<1>2. call'[c] = Idle /\ \A d \in Calls : d # c => call'[d] = call[d]
  BY StopCall DEF TypeInv, TypeOK, AddSession
<1>3. call'[c].pc = "idle" /\ call'[c].ids = {}
  BY <1>2 DEF Idle
<1>4. /\ \A u \in Users : index'[u] \subseteq index[u] \cup {s}
      /\ \A u \in Users : index[u] \subseteq index'[u]
      /\ s \in index'[OwnerOf[s]]
  BY <1>0, <1>1 DEF TypeOK
<1>5. KnownInv'
  BY <1>0, <1>1, <1>2, <1>3, <1>4 DEF IndexInv, KnownInv
<1>6. PendingInv'
  <2>1. ASSUME NEW d \in Calls, Pending(call'[d]) PROVE d # c /\ call'[d] = call[d]
    BY <1>2, <1>3, <2>1 DEF Pending
  <2>2. ASSUME NEW d \in Calls, call'[d].pc = "set"
        PROVE  d # c /\ call'[d] = call[d] /\ call[d].key # s
    BY <1>0, <2>1, <2>2 DEF IndexInv, PendingInv, Pending
  <2>3. \A d \in Calls : call'[d].ids \subseteq call[d].ids
    BY <1>2, <1>3
  <2>4. ASSUME NEW d \in Calls, call'[d].pc = "set"
        PROVE  /\ call'[d].key \notin live' \cup held'
               /\ \A u \in Users : call'[d].key \notin index'[u]
               /\ \A e \in Calls : call'[d].key \notin call'[e].ids
    BY <1>1, <1>4, <2>2, <2>3, <2>4 DEF IndexInv, PendingInv
  <2>5. \A d \in Calls : Pending(call'[d]) => call'[d].key \in used'
    BY <1>1, <2>1 DEF IndexInv, PendingInv
  <2>6. \A d, e \in Calls : e # d /\ Pending(call'[d]) /\ Pending(call'[e]) =>
                              call'[d].key # call'[e].key
    BY <2>1 DEF IndexInv, PendingInv
  <2>7. QED
    BY <2>4, <2>5, <2>6 DEF PendingInv, Pending
<1>7. NoResurrection'
  BY <1>1, <1>2, <1>3 DEF IndexInv, NoResurrection
<1>8. IndexedUnlessLost'
  <2>1. SUFFICES ASSUME NEW t \in held' \cap live'
                 PROVE  t \in index'[OwnerOf[t]] \/ t \in lost'
    BY DEF IndexedUnlessLost
  <2>2. CASE t = s
    BY <1>4, <2>2
  <2>3. CASE t # s
    <3>1. t \in held \cap live /\ OwnerOf[t] \in Users
      BY <1>0, <1>1, <2>1, <2>3, OwnerType DEF TypeOK
    <3>2. QED
      BY <1>1, <1>4, <3>1 DEF IndexInv, IndexedUnlessLost
  <2>4. QED
    BY <2>2, <2>3
<1>9. QED
  BY <1>5, <1>6, <1>7, <1>8 DEF IndexInv

LEMMA ContinueIndex ==
  ASSUME TypeInv, IndexInv, NEW c \in Calls, Continue(c)
  PROVE  IndexInv'
<1> USE DEF TypeInv
<1> DEFINE u == call[c].user
<1>0. /\ TypeOK /\ PendingInv
      /\ call \in [Calls -> Call]
      /\ call[c] \in Call
      /\ KeyOK(call[c])
      /\ At(c, "idle") \/ u \in Users
  BY KeyHere DEF TypeOK, KeyOK, At, IndexInv
<1>1. ASSUME Stop(c), Fewer PROVE IndexInv'
  BY <1>0, <1>1, StopCalm, CalmStep
<1>2. ASSUME NEW r \in Call, call' = [call EXCEPT ![c] = r], Fewer,
             r.pc \notin {"set", "add", "drop", "prune"},
             r.ids = call[c].ids
      PROVE  IndexInv'
  <2>1. call'[c] = r /\ \A d \in Calls : d # c => call'[d] = call[d]
    BY <1>0, <1>2, OneCall
  <2>2. QED
    BY <1>0, <1>2, <2>1, GoesOn, CalmStep
<1>3. ASSUME NEW step \in {"promote", "rotate"}, NEW st \in Statuses \cup {"absent"},
             call' = [call EXCEPT ![c].pc = step, ![c].seen = st], Fewer
      PROVE  IndexInv'
  <2> DEFINE r == [call[c] EXCEPT !.pc = step, !.seen = st]
  <2>1. call' = [call EXCEPT ![c] = r]
    BY <1>0, <1>3
  <2>2. r \in Call /\ r.pc = step /\ r.ids = call[c].ids
    BY <1>0 DEF Call, Steps
  <2> HIDE DEF r
  <2>3. QED
    BY <1>2, <1>3, <2>1, <2>2
<1>4. ASSUME Mint(c, u, call[c].seen), ~At(c, "idle"), Fewer PROVE IndexInv'
  <2>1. call[c].seen \in Statuses \cup {"absent"}
    BY <1>0 DEF Call
  <2>2. QED
    BY <1>0, <1>4, <2>1, MintCalm, CalmStep
<1>5. CASE StoreLink(c)
  BY <1>1, <1>5, QuietFewer DEF StoreLink, minted, marks
<1>6. CASE BurnLink(c)
  <2>1. Fewer
    BY <1>6, QuietFewer DEF BurnLink, minted, marks
  <2>2. Goto(c, "verify") \/ Goto(c, "reset")
    BY <1>6 DEF BurnLink
  <2>3. QED
    BY <1>0, <2>1, <2>2, GotoCalm, CalmStep
<1>7. CASE ReadUnverified(c) \/ ReadOwner(c)
  <2>1. Fewer
    BY <1>7, QuietFewer DEF ReadUnverified, ReadOwner, redis, minted, marks
  <2>2. At(c, "verify") \/ At(c, "owner")
    BY <1>7 DEF ReadUnverified, ReadOwner
  <2>3. account[u] \in Statuses \cup {"absent"}
    BY <1>0, <2>2 DEF TypeOK, At
  <2>4. QED
    BY <1>1, <1>3, <1>7, <2>1, <2>3 DEF ReadUnverified, ReadOwner
<1>8. CASE Promote(c)
  <2>1. ~At(c, "idle") /\ Mint(c, u, call[c].seen)
    BY <1>8 DEF Promote, At
  <2>2. used \subseteq used'
    BY <2>1 DEF Mint
  <2>3. Fewer
    BY <1>8, <2>2, QuietFewer DEF Promote, redis, marks
  <2>4. QED
    BY <1>4, <2>1, <2>3
<1>9. CASE ResetPassword(c)
  <2>1. Fewer
    BY <1>9, QuietFewer DEF ResetPassword, minted, marks
  <2>2. QED
    BY <1>0, <1>1, <1>9, <2>1, GotoCalm, CalmStep DEF ResetPassword
<1>10. CASE Rotate(c)
  <2>1. ~At(c, "idle") /\ Mint(c, u, call[c].seen) /\ call[c].key \in Sessions
    BY <1>0, <1>10 DEF Rotate, At, KeyOK
  <2>2. used \subseteq used'
    BY <2>1 DEF Mint
  <2>3. Fewer
    BY <1>0, <1>10, <2>1, <2>2, RevokeFewer DEF Rotate, marks
  <2>4. QED
    BY <1>4, <2>1, <2>3
<1>11. CASE ReadMembers(c)
  <2>1. Fewer
    BY <1>11, QuietFewer DEF ReadMembers, redis, minted, marks
  <2>2. \A d \in Calls : d # c => Same(d)
    BY <1>0, <1>11 DEF ReadMembers, Same, Call
  <2>3. u \in Users
    BY <1>0, <1>11 DEF ReadMembers, At
  <2>4. CASE index[u] = {}
    <3>1. call'[c] = Idle
      BY <1>11, <2>4 DEF ReadMembers
    <3>2. call'[c].pc = "idle" /\ call'[c].ids = {}
      BY <3>1 DEF Idle
    <3>3. Moved(c)
      BY <3>2 DEF Moved, Pending
    <3>4. QED
      BY <1>0, <2>1, <2>2, <3>3, OneMovesSame, CalmStep
  <2>5. CASE index[u] # {}
    <3>1. call'[c] = [call[c] EXCEPT !.pc = "del", !.ids = index[u]]
      BY <1>11, <2>5 DEF ReadMembers
    <3>2. call'[c].pc = "del" /\ call'[c].ids = index[u]
      BY <1>0, <3>1 DEF Call
    <3>3. Moved(c)
      BY <2>3, <3>2 DEF Moved, Pending
    <3>4. QED
      BY <1>0, <2>1, <2>2, <3>3, OneMovesSame, CalmStep
  <2>6. QED
    BY <2>4, <2>5
<1>12. CASE DeleteMembers(c)
  <2>1. Fewer
    BY <1>12 DEF DeleteMembers, Fewer, minted, marks
  <2>2. "drop" \in Steps
    BY DEF Steps
  <2>3. /\ call' \in [Calls -> Call]
        /\ call'[c] = [call[c] EXCEPT !.pc = "drop"]
        /\ \A d \in Calls : d # c => call'[d] = call[d]
    BY <1>0, <1>12, <2>2, GotoCall DEF DeleteMembers
  <2>4. call'[c].pc = "drop" /\ call'[c].ids = call[c].ids
    BY <1>0, <2>3 DEF Call
  <2>5. Moved(c)
    BY <1>12, <2>4 DEF Moved, DeleteMembers, Pending
  <2>6. QED
    BY <1>0, <2>1, <2>3, <2>5, OneMoves, CalmStep
<1>13. CASE DropIndex(c)
  <2>1. u \in Users /\ call[c].pc = "drop" /\ Stop(c)
    BY <1>0, <1>13 DEF DropIndex, At
  <2>2. call[c].ids \cap live = {}
    BY <2>1 DEF IndexInv, NoResurrection
  <2>3. Fewer
    <3>1. /\ index' = [index EXCEPT ![u] = {}]
          /\ lost' = lost \cup (index[u] \ call[c].ids)
          /\ UNCHANGED <<live, used, held>>
      BY <1>13 DEF DropIndex, minted
    <3>2. QED
      BY <1>0, <2>1, <2>2, <3>1 DEF Fewer, TypeOK
  <2>4. QED
    BY <1>1, <2>1, <2>3
<1>14. CASE ReadListed(c)
  <2> DEFINE stale == call[c].ids \ live
             r == [call[c] EXCEPT !.pc = "prune", !.ids = stale]
  <2>1. r \in Call /\ r.pc = "prune" /\ r.ids = stale
    BY <1>0 DEF Call, Steps
  <2>2. Fewer
    BY <1>14, QuietFewer DEF ReadListed, redis, minted, marks
  <2>3. Stop(c) \/ call' = [call EXCEPT ![c] = r]
    BY <1>0, <1>14 DEF ReadListed
  <2> HIDE DEF r
  <2>4. CASE call' = [call EXCEPT ![c] = r]
    <3>1. call'[c] = r /\ \A d \in Calls : d # c => call'[d] = call[d]
      BY <1>0, <2>1, <2>4, OneCall
    <3>2. Moved(c)
      BY <1>14, <2>1, <3>1 DEF Moved, Pending, ReadListed, redis
    <3>3. QED
      BY <1>0, <2>2, <3>1, <3>2, OneMoves, CalmStep
  <2>5. QED
    BY <1>1, <2>2, <2>3, <2>4
<1>15. CASE PruneIndex(c)
  <2>1. u \in Users /\ call[c].pc = "prune" /\ Stop(c)
    BY <1>0, <1>15 DEF PruneIndex, At
  <2>2. call[c].ids \cap live = {}
    BY <2>1 DEF IndexInv, NoResurrection
  <2>3. Fewer
    BY <1>15, <2>1, <2>2 DEF PruneIndex, Fewer, TypeOK, minted, marks
  <2>4. QED
    BY <1>1, <2>1, <2>3
<1>16. CASE Abort(c)
  <2>1. Fewer
    BY <1>16 DEF Abort, Fewer, minted
  <2>2. QED
    BY <1>1, <1>16, <2>1 DEF Abort
<1>17. QED
  BY <1>5, <1>6, <1>7, <1>8, <1>9, <1>10, <1>11, <1>12, <1>13, <1>14, <1>15, <1>16,
     SetIndex, AddIndex DEF Continue

LEMMA OtherIndex ==
  ASSUME TypeInv, IndexInv,
         \/ \E c \in Calls : \/ \E l \in Links : ReadLink(c, l)
                             \/ \E s \in Sessions : RefreshTokens(c, s)
         \/ \E s \in Sessions : \/ Logout(s) \/ Expire(s)
                                \/ \E u \in Users : RevokeOne(u, s)
         \/ \E l \in Links : LinkExpires(l)
  PROVE  IndexInv'
<1> USE DEF TypeInv
<1>0. TypeOK /\ PendingInv /\ call \in [Calls -> Call]
  BY DEF IndexInv, TypeOK
<1>1. ASSUME NEW c \in Calls, NEW step \in {"burn", "owner"},
             NEW x \in Sessions \cup Links, StartWith(c, step, x), Fewer
      PROVE  IndexInv'
  <2>1. step \in Steps
    BY DEF Steps
  <2>2. /\ call' \in [Calls -> Call]
        /\ call'[c] = [Idle EXCEPT !.pc = step, !.user = OwnerOf[x], !.key = x]
        /\ \A d \in Calls : d # c => call'[d] = call[d]
    BY <1>0, <1>1, <2>1, StartWithCall
  <2>3. call'[c].pc = step /\ call'[c].ids = {}
    BY <2>2 DEF Idle
  <2>4. QED
    BY <1>0, <1>1, <2>2, <2>3, GoesOn, CalmStep
<1>2. ASSUME NEW c \in Calls, NEW l \in Links, ReadLink(c, l) PROVE IndexInv'
  <2>1. StartWith(c, "burn", l) /\ l \in Sessions \cup Links
    BY <1>2 DEF ReadLink
  <2>2. Fewer
    BY <1>2, QuietFewer DEF ReadLink, redis, minted, marks
  <2>3. QED
    BY <1>1, <2>1, <2>2
<1>3. ASSUME NEW c \in Calls, NEW s \in Sessions, RefreshTokens(c, s) PROVE IndexInv'
  <2>1. StartWith(c, "owner", s) /\ s \in Sessions \cup Links
    BY <1>3 DEF RefreshTokens
  <2>2. Fewer
    BY <1>3, QuietFewer DEF RefreshTokens, redis, minted, marks
  <2>3. QED
    BY <1>1, <2>1, <2>2
<1>4. ASSUME NEW s \in Sessions,
             Logout(s) \/ Expire(s) \/ \E u \in Users : RevokeOne(u, s)
      PROVE  IndexInv'
  <2>1. UNCHANGED <<call, used, held, lost>>
    BY <1>4 DEF Logout, Expire, RevokeOne, minted, marks
  <2>2. TryRevoke(s) \/ Expire(s)
    BY <1>4 DEF Logout, RevokeOne
  <2>3. Fewer
    BY <1>0, <2>1, <2>2, RevokeFewer DEF Expire, Fewer
  <2>4. QED
    BY <1>0, <2>1, <2>3, QuietCalm, CalmStep
<1>5. ASSUME NEW l \in Links, LinkExpires(l) PROVE IndexInv'
  BY <1>0, <1>5, QuietFewer, QuietCalm, CalmStep DEF LinkExpires, minted, marks
<1>6. QED
  BY <1>2, <1>3, <1>4, <1>5

LEMMA InitIndex == Init => IndexInv
BY DEF Init, IndexInv, KnownInv, PendingInv, Pending, NoResurrection, IndexedUnlessLost,
       Idle

LEMMA NextIndex == TypeInv /\ IndexInv /\ [Next]_vars => IndexInv'
<1> SUFFICES ASSUME TypeInv, IndexInv, [Next]_vars PROVE IndexInv'
  OBVIOUS
<1>1. CASE UNCHANGED vars
  BY <1>1 DEF IndexInv, KnownInv, PendingInv, Pending, NoResurrection, IndexedUnlessLost,
              vars, redis, minted, marks
<1>2. CASE Next
  BY <1>2, RequestIndex, ContinueIndex, OtherIndex DEF Next
<1>3. QED
  BY <1>1, <1>2

\* What a listing or a revocation acts on is never alive again.
THEOREM RevokedStayDead == Spec => []NoResurrection
<1>1. IndexInv => NoResurrection
  BY DEF IndexInv
<1>2. QED
  BY <1>1, InitType, InitIndex, NextType, NextIndex, PTL DEF Spec

\* Every session in use is in its owner's set, but for those a revocation lost.
THEOREM SessionsIndexed == Spec => []IndexedUnlessLost
<1>1. IndexInv => IndexedUnlessLost
  BY DEF IndexInv
<1>2. QED
  BY <1>1, InitType, InitIndex, NextType, NextIndex, PTL DEF Spec

\* What a step may do to usable sessions, to marks and to bans.
BanFrame ==
  /\ \A u \in Users : Banned(u)' => Banned(u) \/ \E d \in Calls : Ahead(d, u)'
  /\ \A s \in held' \cap live' :
       \/ s \in held \cap live /\ claims'[s] = claims[s]
       \/ s \in late'
       \/ Banned(OwnerOf[s])' => \E d \in Calls : Ahead(d, OwnerOf[s])'
  /\ late \subseteq late'
  /\ lost \subseteq lost'

\* A revocation of a blocked user goes on, or has deleted what it read.
Kept(d) ==
  \A u \in Users : call[d].pc \in Revoking /\ call[d].user = u /\ Banned(u)' =>
    \/ /\ call'[d].pc = call[d].pc
       /\ call'[d].user = call[d].user
       /\ call'[d].ids = call[d].ids
    \/ call[d].pc = "del" /\ call[d].ids \cap live' = {}

\* Nobody starts issuing a session to a blocked user.
Issuer(r) == r.pc \in {"rotate", "set", "add"} /\ ~r.late

Issued(d) ==
  \A u \in Users : Issuer(call'[d]) /\ call'[d].user = u /\ Banned(u)' =>
    Issuer(call[d]) /\ call[d].user = u

LEMMA BanStep ==
  ASSUME BanInv, BanFrame, \A d \in Calls : Kept(d) /\ Issued(d)
  PROVE  BanInv'
<1>1. SUFFICES ASSUME NEW u \in Users, Banned(u)',
                      ~\E d \in Calls : Ahead(d, u)'
               PROVE  /\ \A s \in Sessions :
                           OwnerOf[s] = u /\ Admitted(s)' /\ s \notin late' \cup lost' =>
                             \E d \in Calls : /\ call'[d].user = u
                                              /\ call'[d].pc = "del"
                                              /\ s \in call'[d].ids
                      /\ \A c \in Calls : ~(call'[c].user = u /\ Issuer(call'[c]))
  BY DEF BanInv, Issuer, Banned, Ahead, Admitted
<1>2. Banned(u)
  BY <1>1 DEF BanFrame
<1>3. ASSUME NEW d \in Calls, Ahead(d, u) PROVE FALSE
  BY <1>1, <1>3 DEF Kept, Ahead, Revoking
<1>4. ASSUME NEW s \in Sessions, OwnerOf[s] = u, Admitted(s)', s \notin late' \cup lost'
      PROVE  \E d \in Calls : /\ call'[d].user = u
                              /\ call'[d].pc = "del"
                              /\ s \in call'[d].ids
  <2>1. s \in held \cap live /\ claims'[s] = claims[s] /\ s \in live'
    BY <1>1, <1>4 DEF BanFrame, Admitted
  <2>2. Admitted(s) /\ s \notin late \cup lost
    BY <1>4, <2>1 DEF BanFrame, Admitted
  <2>3. PICK d \in Calls : call[d].user = u /\ call[d].pc = "del" /\ s \in call[d].ids
    BY <1>2, <1>3, <1>4, <2>2 DEF BanInv
  <2>4. call'[d].pc = "del" /\ call'[d].user = u /\ call'[d].ids = call[d].ids
    BY <1>1, <2>1, <2>3 DEF Kept, Revoking
  <2>5. QED
    BY <2>3, <2>4
<1>5. ASSUME NEW c \in Calls, call'[c].user = u, Issuer(call'[c]) PROVE FALSE
  <2>1. call[c].user = u /\ Issuer(call[c])
    BY <1>1, <1>5 DEF Issued
  <2>2. QED
    BY <1>2, <1>3, <2>1 DEF BanInv, Issuer
<1>6. QED
  BY <1>4, <1>5

LEMMA OneBan ==
  ASSUME BanInv, BanFrame, NEW c \in Calls, \A d \in Calls : d # c => call'[d] = call[d],
         Kept(c), Issued(c)
  PROVE  BanInv'
<1>1. ASSUME NEW d \in Calls PROVE Kept(d) /\ Issued(d)
  BY DEF Kept, Issued
<1>2. QED
  BY <1>1, BanStep

LEMMA QuietBan ==
  ASSUME live' \subseteq live, UNCHANGED <<account, claims, held, marks>>
  PROVE  BanFrame
BY DEF BanFrame, Banned, marks

\* A call that is not revoking goes on to a step that does not issue.
LEMMA FreeStep ==
  ASSUME NEW c \in Calls, call[c].pc \notin Revoking,
         call'[c].pc \notin {"rotate", "set", "add"}
  PROVE  Kept(c) /\ Issued(c)
BY DEF Kept, Issued, Issuer

LEMMA StopBan ==
  ASSUME TypeOK, BanInv, BanFrame, NEW c \in Calls, Stop(c),
         \A u \in Users : call[c].pc \in Revoking /\ call[c].user = u => ~Banned(u)'
  PROVE  BanInv'
<1>1. call'[c] = Idle /\ \A d \in Calls : d # c => call'[d] = call[d]
  BY StopCall DEF TypeOK
<1>2. call'[c].pc = "idle"
  BY <1>1 DEF Idle
<1>3. Kept(c) /\ Issued(c)
  BY <1>2 DEF Kept, Issued, Issuer
<1>4. QED
  BY <1>1, <1>3, OneBan

LEMMA GotoBan ==
  ASSUME TypeOK, BanInv, BanFrame, NEW c \in Calls, call[c].pc \notin Revoking,
         NEW step \in {"verify", "reset", "members"}, Goto(c, step)
  PROVE  BanInv'
<1>1. step \in Steps
  BY DEF Steps
<1>2. /\ call' \in [Calls -> Call]
      /\ call'[c] = [call[c] EXCEPT !.pc = step]
      /\ \A d \in Calls : d # c => call'[d] = call[d]
  BY <1>1, GotoCall DEF TypeOK
<1>3. call[c] \in Call
  BY DEF TypeOK
<1>4. call'[c].pc = step
  BY <1>2, <1>3 DEF Call
<1>5. QED
  BY <1>2, <1>4, FreeStep, OneBan

\* A session is made for a user who is not blocked, or by a rotation.
LEMMA MintBan ==
  ASSUME TypeOK, KnownInv, BanInv, NEW c \in Calls, call[c].pc \notin Revoking,
         NEW u \in Users, NEW st \in Statuses \cup {"absent"}, Mint(c, u, st),
         \/ ~Banned(u)'
         \/ call[c].pc = "rotate" /\ call[c].user = u,
         \A v \in Users : Banned(v)' => Banned(v),
         live' \subseteq live, UNCHANGED <<held, late, lost>>
  PROVE  BanInv'
<1>1. call \in [Calls -> Call] /\ call[c] \in Call
  BY DEF TypeOK
<1>2. \A d \in Calls : d # c => call'[d] = call[d]
  BY <1>1, MintCall
<1>3. CASE call'[c] = Idle /\ claims' = claims
  <2>1. call'[c].pc = "idle"
    BY <1>3 DEF Idle
  <2>2. BanFrame
    BY <1>3 DEF BanFrame
  <2>3. QED
    BY <1>2, <2>1, <2>2, FreeStep, OneBan
<1>4. CASE \E s \in Sessions \ used : Minted(c, u, st, s)
  <2>1. PICK s \in Sessions \ used : Minted(c, u, st, s)
    BY <1>4
  <2>2. \A t \in held : claims'[t] = claims[t]
    BY <2>1 DEF Minted, KnownInv, TypeOK
  <2>3. BanFrame
    BY <2>2 DEF BanFrame
  <2>4. call'[c].pc = "set" /\ call'[c].user = u /\ call'[c].late = call[c].late
    BY <1>1, <2>1 DEF Call, Minted
  <2>5. Kept(c) /\ Issued(c)
    BY <2>4 DEF Kept, Issued, Issuer
  <2>6. QED
    BY <1>2, <2>3, <2>5, OneBan
<1>5. QED
  BY <1>1, <1>3, <1>4, MintCall

LEMMA RequestBan ==
  ASSUME TypeInv, IndexInv, BanInv, NEW c \in Calls, NEW u \in Users, Request(c, u)
  PROVE  BanInv'
<1> USE DEF TypeInv
<1>0. /\ TypeOK /\ KnownInv
      /\ call \in [Calls -> Call]
      /\ account \in [Users -> Statuses \cup {"absent"}]
      /\ account[u] \in Statuses \cup {"absent"}
  BY DEF IndexInv, TypeOK
<1>1. ASSUME NEW kind \in {VerifyLinks, ResetLinks}, NewLink(c, u, kind), BanFrame
      PROVE  BanInv'
  <2>1. PICK l \in kind : StartWith(c, "mail", l)
    BY <1>1 DEF NewLink
  <2>2. l \in Sessions \cup Links /\ "mail" \in Steps
    BY DEF Links, Steps
  <2>3. /\ call' \in [Calls -> Call]
        /\ call'[c] = [Idle EXCEPT !.pc = "mail", !.user = OwnerOf[l], !.key = l]
        /\ \A d \in Calls : d # c => call'[d] = call[d]
    BY <1>0, <2>1, <2>2, StartWithCall
  <2>4. call'[c].pc = "mail" /\ call[c].pc \notin Revoking
    BY <2>1, <2>3 DEF Idle, StartWith, At, Revoking
  <2>5. QED
    BY <1>1, <2>3, <2>4, FreeStep, OneBan
<1>2. ASSUME Start(c, "members", u)
      PROVE  /\ Ahead(c, u)'
             /\ call[c].pc \notin Revoking
             /\ call'[c].pc = "members"
             /\ \A d \in Calls : d # c => call'[d] = call[d]
  <2>1. "members" \in Steps
    BY DEF Steps
  <2>2. /\ call' \in [Calls -> Call]
        /\ call'[c] = [Idle EXCEPT !.pc = "members", !.user = u]
        /\ \A d \in Calls : d # c => call'[d] = call[d]
    BY <1>0, <1>2, <2>1, StartCall
  <2>3. call'[c].pc = "members" /\ call'[c].user = u
    BY <2>2 DEF Idle
  <2>4. QED
    BY <1>2, <2>2, <2>3 DEF Ahead, Start, At, Revoking
<1>3. CASE Register(c, u) \/ ResendVerification(c, u) \/ ForgotPassword(c, u)
  <2>1. \A v \in Users : Banned(v)' => Banned(v)
    BY <1>0, <1>3
       DEF Register, ResendVerification, ForgotPassword, Banned, Blocked, database, marks
  <2>2. UNCHANGED <<live, claims, held, late, lost>>
    BY <1>3 DEF Register, ResendVerification, ForgotPassword, redis, minted, marks
  <2>3. BanFrame
    BY <2>1, <2>2 DEF BanFrame
  <2>4. QED
    BY <1>1, <1>3, <2>3 DEF Register, ResendVerification, ForgotPassword
<1>4. CASE Login(c, u) \/ GoogleLogin(c, u) \/ GoogleSignUp(c, u)
  <2>1. PICK st \in Statuses \cup {"absent"} : Mint(c, u, st)
    BY <1>4, <1>0 DEF Login, GoogleLogin, GoogleSignUp, Statuses
  <2>2. ~Banned(u)'
    BY <1>0, <1>4 DEF Login, GoogleLogin, GoogleSignUp, CanLogin, Banned, Blocked, database
  <2>3. \A v \in Users : Banned(v)' => Banned(v)
    BY <1>0, <1>4 DEF Login, GoogleLogin, GoogleSignUp, Banned, Blocked, database, marks
  <2>4. UNCHANGED <<live, held, late, lost>>
    BY <1>4 DEF Login, GoogleLogin, GoogleSignUp, redis, marks
  <2>5. call[c].pc \notin Revoking
    BY <1>4 DEF Login, GoogleLogin, GoogleSignUp, At, Revoking
  <2>6. QED
    BY <1>0, <2>1, <2>2, <2>3, <2>4, <2>5, MintBan
<1>5. CASE LogoutAll(c, u) \/ ChangePassword(c, u)
  <2>1. BanFrame /\ Start(c, "members", u)
    BY <1>5, QuietBan DEF LogoutAll, ChangePassword, database, redis, minted
  <2>2. QED
    BY <1>2, <2>1, FreeStep, OneBan
<1>6. CASE ListSessions(c, u)
  <2> DEFINE r == [Idle EXCEPT !.pc = "mget", !.user = u, !.ids = index[u]]
  <2>1. r \in Call /\ r.pc = "mget"
    BY IdleType DEF Call, Steps, TypeOK, Idle
  <2>2. call' = [call EXCEPT ![c] = r] /\ call[c].pc \notin Revoking
    BY <1>6 DEF ListSessions, At, Revoking
  <2>3. BanFrame
    BY <1>6, QuietBan DEF ListSessions, database, redis, minted
  <2> HIDE DEF r
  <2>4. call'[c] = r /\ \A d \in Calls : d # c => call'[d] = call[d]
    BY <1>0, <2>1, <2>2, OneCall
  <2>5. QED
    BY <2>1, <2>2, <2>3, <2>4, FreeStep, OneBan
<1>7. CASE \E st \in Statuses : UpdateUserStatus(c, u, st)
  <2>1. PICK st \in Statuses : UpdateUserStatus(c, u, st)
    BY <1>7
  <2>2. UNCHANGED <<live, claims, held, late, lost>>
    BY <2>1 DEF UpdateUserStatus, redis, minted
  <2>3. account' = [account EXCEPT ![u] = st]
    BY <2>1 DEF UpdateUserStatus
  <2>4. CASE Start(c, "members", u) /\ UNCHANGED botched
    <3>1. \A v \in Users : Banned(v)' => Banned(v) \/ Ahead(c, v)'
      BY <1>0, <1>2, <2>3, <2>4 DEF Banned
    <3>2. BanFrame
      BY <2>2, <3>1 DEF BanFrame
    <3>3. QED
      BY <1>2, <2>4, <3>2, FreeStep, OneBan
  <2>5. CASE UNCHANGED call /\ (u \in botched' \/ st \notin Blocked) /\ botched \subseteq botched'
    <3>1. \A v \in Users : Banned(v)' => Banned(v)
      BY <1>0, <2>3, <2>5 DEF Banned
    <3>2. BanFrame
      BY <2>2, <3>1 DEF BanFrame
    <3>3. QED
      BY <2>5, <3>2, OneBan DEF Kept, Issued
  <2>6. QED
    BY <2>1, <2>4, <2>5 DEF UpdateUserStatus
<1>8. QED
  BY <1>3, <1>4, <1>5, <1>6, <1>7 DEF Request

\* The user's set is read: whoever is issuing a session is late from now on,
\* and every other usable session is in the set.
LEMMA MembersBan ==
  ASSUME TypeInv, IndexInv, BanInv, NEW c \in Calls, ReadMembers(c)
  PROVE  BanInv'
<1>0. PICK w \in Users : call[c].user = w
  BY DEF ReadMembers, At, TypeInv, KeyInv
<1>1. /\ call \in [Calls -> Call]
      /\ UNCHANGED <<account, claims, held, live, index, late, lost, botched>>
  BY DEF TypeInv, TypeOK, ReadMembers, database, redis, minted, marks
<1>2. /\ index[w] = {} => call'[c] = Idle
      /\ index[w] # {} => call'[c] = [call[c] EXCEPT !.pc = "del", !.ids = index[w]]
      /\ \A d \in Calls : d # c =>
           call'[d] = IF call[d].user = w /\ call[d].pc \in Issuing
                        THEN [call[d] EXCEPT !.late = TRUE]
                        ELSE call[d]
  BY <1>0 DEF ReadMembers
<1>3. ASSUME NEW d \in Calls, d # c
      PROVE  /\ call'[d].pc = call[d].pc /\ call'[d].user = call[d].user
             /\ call'[d].ids = call[d].ids
             /\ Issuer(call'[d]) => Issuer(call[d]) /\ call[d].user # w
  BY <1>1, <1>2, <1>3 DEF Call, Issuer, Issuing
<1>4. call'[c].pc \notin {"rotate", "set", "add"}
  <2>1. CASE index[w] = {}
    BY <1>2, <2>1 DEF Idle
  <2>2. CASE index[w] # {}
    <3>1. call'[c].pc = "del"
      BY <1>1, <1>2, <2>2 DEF Call
    <3>2. QED
      BY <3>1
  <2>3. QED
    BY <2>1, <2>2
<1>5. SUFFICES ASSUME NEW u \in Users, Banned(u)
               PROVE  /\ \A s \in Sessions :
                           OwnerOf[s] = u /\ Admitted(s) /\ s \notin late \cup lost =>
                             \E d \in Calls : /\ call'[d].user = u
                                              /\ \/ call'[d].pc = "members"
                                                 \/ call'[d].pc = "del" /\ s \in call'[d].ids
                      /\ \A e \in Calls :
                           call'[e].user = u /\ Issuer(call'[e]) =>
                             \E d \in Calls : call'[d].user = u /\ call'[d].pc = "members"
  BY <1>1 DEF BanInv, Issuer, Banned, Ahead, Admitted
<1>6. CASE u = w
  <2>1. ASSUME NEW s \in Sessions, OwnerOf[s] = u, Admitted(s), s \notin late \cup lost
        PROVE  call'[c].user = u /\ call'[c].pc = "del" /\ s \in call'[c].ids
    <3>1. s \in index[w]
      BY <1>6, <2>1 DEF IndexInv, IndexedUnlessLost, Admitted
    <3>2. call'[c] = [call[c] EXCEPT !.pc = "del", !.ids = index[w]]
      BY <1>2, <3>1
    <3>3. QED
      BY <1>0, <1>1, <1>6, <3>1, <3>2 DEF Call
  <2>2. \A e \in Calls : ~(call'[e].user = u /\ Issuer(call'[e]))
    BY <1>3, <1>4, <1>6 DEF Issuer
  <2>3. QED
    BY <2>1, <2>2
<1>7. CASE u # w
  <2>1. \A d \in Calls : call[d].user = u => d # c
    BY <1>0, <1>7
  <2>2. \A e \in Calls : call'[e].user = u /\ Issuer(call'[e]) =>
                           call[e].user = u /\ Issuer(call[e])
    BY <1>3, <1>4 DEF Issuer
  <2>3. \A d \in Calls : Ahead(d, u) => call'[d].user = u /\ call'[d].pc = "members"
    BY <1>3, <2>1 DEF Ahead
  <2>4. ASSUME NEW s \in Sessions, OwnerOf[s] = u, Admitted(s), s \notin late \cup lost
        PROVE  \E d \in Calls : /\ call'[d].user = u
                                /\ \/ call'[d].pc = "members"
                                   \/ call'[d].pc = "del" /\ s \in call'[d].ids
    <3>1. PICK d \in Calls : \/ Ahead(d, u)
                             \/ call[d].user = u /\ call[d].pc = "del" /\ s \in call[d].ids
      BY <1>5, <2>4 DEF BanInv
    <3>2. QED
      BY <1>3, <2>1, <2>3, <3>1
  <2>5. ASSUME NEW e \in Calls, call'[e].user = u, Issuer(call'[e])
        PROVE  \E d \in Calls : call'[d].user = u /\ call'[d].pc = "members"
    <3>1. \E d \in Calls : Ahead(d, u)
      BY <1>5, <2>2, <2>5 DEF BanInv, Issuer
    <3>2. QED
      BY <2>3, <3>1
  <2>6. QED
    BY <2>4, <2>5
<1>8. QED
  BY <1>6, <1>7

\* A session that is handed out is late, or has a revocation ahead of it.
LEMMA AddBan ==
  ASSUME TypeInv, BanInv, NEW c \in Calls, AddSession(c)
  PROVE  BanInv'
<1>0. /\ TypeOK /\ call[c].pc = "add" /\ Stop(c)
      /\ OwnerOf[call[c].key] = call[c].user
  BY DEF TypeInv, KeyInv, AddSession, At
<1>1. PICK s \in Sessions : s = call[c].key
  BY <1>0 DEF TypeInv, KeyInv
<1>2. /\ held' = held \cup {s}
      /\ late' = IF call[c].late THEN late \cup {s} ELSE late
      /\ UNCHANGED <<live, account, botched, claims, lost>>
  BY <1>1 DEF AddSession, StoreCommand, database
<1>3. \A d \in Calls : d # c => call'[d] = call[d]
  BY <1>0, StopCall DEF TypeOK
<1>4. ASSUME ~call[c].late, Banned(OwnerOf[s])
      PROVE  \E d \in Calls : Ahead(d, OwnerOf[s])'
  <2>1. OwnerOf[s] \in Users
    BY OwnerType
  <2>2. PICK d \in Calls : Ahead(d, OwnerOf[s])
    BY <1>0, <1>1, <1>4, <2>1 DEF BanInv
  <2>3. d # c
    BY <1>0, <2>2 DEF Ahead
  <2>4. QED
    BY <1>3, <2>2, <2>3 DEF Ahead
<1>5. BanFrame
  BY <1>2, <1>4 DEF BanFrame, Banned
<1>6. QED
  BY <1>0, <1>5, StopBan DEF Revoking

LEMMA ContinueBan ==
  ASSUME TypeInv, IndexInv, BanInv, NEW c \in Calls, Continue(c)
  PROVE  BanInv'
<1> USE DEF TypeInv
<1> DEFINE u == call[c].user
<1>0. /\ TypeOK /\ KnownInv /\ PendingInv
      /\ call \in [Calls -> Call]
      /\ call[c] \in Call
      /\ KeyOK(call[c])
      /\ At(c, "idle") \/ u \in Users
  BY KeyHere DEF TypeOK, KeyOK, At, IndexInv
<1>1. ASSUME call[c].pc \notin Revoking, Stop(c), BanFrame PROVE BanInv'
  BY <1>0, <1>1, StopBan
<1>2. ASSUME NEW step \in {"promote", "rotate"}, NEW st \in Statuses \cup {"absent"},
             call' = [call EXCEPT ![c].pc = step, ![c].seen = st], BanFrame,
             call[c].pc \notin Revoking,
             step = "rotate" => \A v \in Users : v = u => ~Banned(v)'
      PROVE  BanInv'
  <2> DEFINE r == [call[c] EXCEPT !.pc = step, !.seen = st]
  <2>1. call' = [call EXCEPT ![c] = r]
    BY <1>0, <1>2
  <2>2. r \in Call /\ r.pc = step /\ r.user = u
    BY <1>0 DEF Call, Steps
  <2> HIDE DEF r
  <2>3. call'[c] = r /\ \A d \in Calls : d # c => call'[d] = call[d]
    BY <1>0, <2>1, <2>2, OneCall
  <2>4. Kept(c)
    BY <1>2 DEF Kept
  <2>5. Issued(c)
    BY <1>2, <2>2, <2>3 DEF Issued, Issuer
  <2>6. QED
    BY <1>2, <2>3, <2>4, <2>5, OneBan
<1>3. CASE StoreLink(c)
  BY <1>1, <1>3, QuietBan DEF StoreLink, database, minted, At, Revoking
<1>4. CASE BurnLink(c)
  <2>1. BanFrame /\ call[c].pc \notin Revoking
    BY <1>4, QuietBan DEF BurnLink, database, minted, At, Revoking
  <2>2. Goto(c, "verify") \/ Goto(c, "reset")
    BY <1>4 DEF BurnLink
  <2>3. QED
    BY <1>0, <2>1, <2>2, GotoBan
<1>5. CASE ReadUnverified(c)
  <2>1. BanFrame /\ call[c].pc \notin Revoking /\ call[c].pc # "idle"
    BY <1>5, QuietBan DEF ReadUnverified, database, redis, minted, At, Revoking
  <2>2. account[u] \in Statuses \cup {"absent"}
    BY <1>0, <2>1 DEF TypeOK, At
  <2>3. QED
    BY <1>1, <1>2, <1>5, <2>1, <2>2 DEF ReadUnverified
<1>6. CASE ReadOwner(c)
  <2>1. BanFrame /\ call[c].pc \notin Revoking /\ call[c].pc # "idle"
    BY <1>6, QuietBan DEF ReadOwner, database, redis, minted, At, Revoking
  <2>2. account[u] \in Statuses \cup {"absent"}
    BY <1>0, <2>1 DEF TypeOK, At
  <2>3. CASE CanLogin(u)
    <3>1. \A v \in Users : v = u => ~Banned(v)'
      BY <1>6, <2>3 DEF CanLogin, Banned, Blocked, ReadOwner, database
    <3>2. QED
      BY <1>2, <1>6, <2>1, <2>2, <2>3, <3>1 DEF ReadOwner
  <2>4. QED
    BY <1>1, <1>6, <2>1, <2>3 DEF ReadOwner
<1>7. CASE Promote(c)
  <2>1. PICK v \in Users : v = u
    BY <1>0, <1>7 DEF Promote, At
  <2>2. PICK st \in Statuses \cup {"absent"} : st = call[c].seen
    BY <1>0 DEF Call
  <2>3. Mint(c, v, st)
    BY <1>7, <2>1, <2>2 DEF Promote, Mint
  <2>4. account' = [account EXCEPT ![v] = "active"] /\ call[c].pc \notin Revoking
    BY <1>7, <2>1 DEF Promote, At, Revoking
  <2>5. ~Banned(v)' /\ \A x \in Users : Banned(x)' => Banned(x)
    BY <1>0, <1>7, <2>4 DEF Promote, Banned, Blocked, marks, TypeOK
  <2>6. UNCHANGED <<live, held, late, lost>>
    BY <1>7 DEF Promote, redis, marks
  <2>7. QED
    BY <1>0, <2>3, <2>4, <2>5, <2>6, MintBan
<1>8. CASE ResetPassword(c)
  <2>1. BanFrame /\ call[c].pc \notin Revoking
    BY <1>8, QuietBan DEF ResetPassword, database, minted, At, Revoking
  <2>2. QED
    BY <1>0, <1>1, <1>8, <2>1, GotoBan DEF ResetPassword
<1>9. CASE Rotate(c)
  <2>1. PICK v \in Users : v = u
    BY <1>0, <1>9 DEF Rotate, At
  <2>2. PICK st \in Statuses \cup {"absent"} : st = call[c].seen
    BY <1>0 DEF Call
  <2>3. Mint(c, v, st)
    BY <1>9, <2>1, <2>2 DEF Rotate, Mint
  <2>4. call[c].pc = "rotate" /\ call[c].user = v /\ call[c].pc \notin Revoking
    BY <1>9, <2>1 DEF Rotate, At, Revoking
  <2>5. \A x \in Users : Banned(x)' => Banned(x)
    BY <1>9 DEF Rotate, Banned, database, marks
  <2>6. live' \subseteq live /\ UNCHANGED <<held, late, lost>>
    BY <1>9 DEF Rotate, TryRevoke, Revoke, marks
  <2>7. QED
    BY <1>0, <2>3, <2>4, <2>5, <2>6, MintBan
<1>10. CASE SetSession(c)
  <2>1. call[c].pc = "set" /\ call[c].key \notin held
    BY <1>0, <1>10 DEF SetSession, At, PendingInv
  <2>2. live' = live \cup {call[c].key} /\ UNCHANGED <<account, claims, held, marks>>
    BY <1>10 DEF SetSession, StoreCommand, database, minted
  <2>3. BanFrame
    BY <2>1, <2>2 DEF BanFrame, Banned, marks
  <2>4. "add" \in Steps
    BY DEF Steps
  <2>5. /\ call' \in [Calls -> Call]
        /\ call'[c] = [call[c] EXCEPT !.pc = "add"]
        /\ \A d \in Calls : d # c => call'[d] = call[d]
    BY <1>0, <1>10, <2>4, GotoCall DEF SetSession
  <2>6. call'[c].user = u /\ call'[c].late = call[c].late
    BY <1>0, <2>5 DEF Call
  <2>7. Kept(c) /\ Issued(c)
    BY <2>1, <2>6 DEF Kept, Issued, Issuer, Revoking
  <2>8. QED
    BY <2>3, <2>5, <2>7, OneBan
<1>11. CASE DeleteMembers(c)
  <2>1. BanFrame /\ call[c].pc = "del" /\ call[c].ids \cap live' = {}
    BY <1>11, QuietBan DEF DeleteMembers, database, minted, At
  <2>2. "drop" \in Steps
    BY DEF Steps
  <2>3. /\ call' \in [Calls -> Call]
        /\ call'[c] = [call[c] EXCEPT !.pc = "drop"]
        /\ \A d \in Calls : d # c => call'[d] = call[d]
    BY <1>0, <1>11, <2>2, GotoCall DEF DeleteMembers
  <2>4. call'[c].pc = "drop"
    BY <1>0, <2>3 DEF Call
  <2>5. Kept(c) /\ Issued(c)
    BY <2>1, <2>4 DEF Kept, Issued, Issuer
  <2>6. QED
    BY <2>1, <2>3, <2>5, OneBan
<1>12. CASE DropIndex(c)
  <2>1. UNCHANGED <<live, account, claims, held, late, botched>> /\ lost \subseteq lost'
    BY <1>12 DEF DropIndex, database, minted
  <2>2. BanFrame
    BY <2>1 DEF BanFrame, Banned
  <2>3. QED
    BY <1>1, <1>12, <2>2 DEF DropIndex, At, Revoking
<1>13. CASE ReadListed(c)
  <2> DEFINE stale == call[c].ids \ live
             r == [call[c] EXCEPT !.pc = "prune", !.ids = stale]
  <2>1. r \in Call /\ r.pc = "prune"
    BY <1>0 DEF Call, Steps
  <2>2. BanFrame /\ call[c].pc \notin Revoking
    BY <1>13, QuietBan DEF ReadListed, database, redis, minted, At, Revoking
  <2>3. Stop(c) \/ call' = [call EXCEPT ![c] = r]
    BY <1>0, <1>13 DEF ReadListed
  <2> HIDE DEF r
  <2>4. CASE call' = [call EXCEPT ![c] = r]
    <3>1. call'[c] = r /\ \A d \in Calls : d # c => call'[d] = call[d]
      BY <1>0, <2>1, <2>4, OneCall
    <3>2. QED
      BY <2>1, <2>2, <3>1, FreeStep, OneBan
  <2>5. QED
    BY <1>1, <2>2, <2>3, <2>4
<1>14. CASE PruneIndex(c)
  BY <1>1, <1>14, QuietBan DEF PruneIndex, database, minted, At, Revoking
<1>15. CASE Abort(c)
  <2>1. /\ live' \subseteq live /\ UNCHANGED <<account, claims, held, late, lost>>
        /\ botched \subseteq botched' /\ Stop(c)
    BY <1>15 DEF Abort, database, minted
  <2>2. BanFrame
    BY <2>1 DEF BanFrame, Banned
  <2>3. \A v \in Users : call[c].pc \in Revoking /\ call[c].user = v => ~Banned(v)'
    BY <1>15 DEF Abort, Banned
  <2>4. QED
    BY <1>0, <2>1, <2>2, <2>3, StopBan
<1>16. QED
  BY <1>3, <1>4, <1>5, <1>6, <1>7, <1>8, <1>9, <1>10, <1>11, <1>12, <1>13, <1>14, <1>15,
     MembersBan, AddBan DEF Continue

LEMMA OtherBan ==
  ASSUME TypeInv, BanInv,
         \/ \E c \in Calls : \/ \E l \in Links : ReadLink(c, l)
                             \/ \E s \in Sessions : RefreshTokens(c, s)
         \/ \E s \in Sessions : \/ Logout(s) \/ Expire(s)
                                \/ \E u \in Users : RevokeOne(u, s)
         \/ \E l \in Links : LinkExpires(l)
  PROVE  BanInv'
<1> USE DEF TypeInv
<1>0. TypeOK /\ call \in [Calls -> Call]
  BY DEF TypeOK
<1>1. ASSUME NEW c \in Calls, NEW step \in {"burn", "owner"},
             NEW x \in Sessions \cup Links, StartWith(c, step, x), BanFrame
      PROVE  BanInv'
  <2>1. step \in Steps
    BY DEF Steps
  <2>2. /\ call' \in [Calls -> Call]
        /\ call'[c] = [Idle EXCEPT !.pc = step, !.user = OwnerOf[x], !.key = x]
        /\ \A d \in Calls : d # c => call'[d] = call[d]
    BY <1>0, <1>1, <2>1, StartWithCall
  <2>3. call'[c].pc = step /\ call[c].pc \notin Revoking
    BY <1>1, <2>2 DEF Idle, StartWith, At, Revoking
  <2>4. QED
    BY <1>1, <2>2, <2>3, FreeStep, OneBan
<1>2. ASSUME NEW c \in Calls, NEW l \in Links, ReadLink(c, l) PROVE BanInv'
  <2>1. StartWith(c, "burn", l) /\ l \in Sessions \cup Links
    BY <1>2 DEF ReadLink
  <2>2. BanFrame
    BY <1>2, QuietBan DEF ReadLink, database, redis, minted
  <2>3. QED
    BY <1>1, <2>1, <2>2
<1>3. ASSUME NEW c \in Calls, NEW s \in Sessions, RefreshTokens(c, s) PROVE BanInv'
  <2>1. StartWith(c, "owner", s) /\ s \in Sessions \cup Links
    BY <1>3 DEF RefreshTokens
  <2>2. BanFrame
    BY <1>3, QuietBan DEF RefreshTokens, database, redis, minted
  <2>3. QED
    BY <1>1, <2>1, <2>2
<1>4. ASSUME UNCHANGED call, BanFrame PROVE BanInv'
  BY <1>4, BanStep DEF Kept, Issued
<1>5. ASSUME NEW s \in Sessions,
             Logout(s) \/ Expire(s) \/ \E u \in Users : RevokeOne(u, s)
      PROVE  BanInv'
  <2>1. UNCHANGED <<call, account, claims, held, marks>>
    BY <1>5 DEF Logout, Expire, RevokeOne, minted, database
  <2>2. live' \subseteq live
    BY <1>5 DEF Logout, Expire, RevokeOne, TryRevoke, Revoke
  <2>3. QED
    BY <1>4, <2>1, <2>2, QuietBan
<1>6. ASSUME NEW l \in Links, LinkExpires(l) PROVE BanInv'
  BY <1>4, <1>6, QuietBan DEF LinkExpires, minted, database
<1>7. QED
  BY <1>2, <1>3, <1>5, <1>6

LEMMA InitBan == Init => BanInv
BY DEF Init, BanInv, Banned, Admitted, Idle, Blocked

LEMMA NextBan == TypeInv /\ IndexInv /\ BanInv /\ [Next]_vars => BanInv'
<1> SUFFICES ASSUME TypeInv, IndexInv, BanInv, [Next]_vars PROVE BanInv'
  OBVIOUS
<1>1. CASE UNCHANGED vars
  <2>1. BanFrame /\ UNCHANGED call
    BY <1>1, QuietBan DEF vars, database, redis, minted
  <2>2. QED
    BY <2>1, BanStep DEF Kept, Issued
<1>2. CASE Next
  BY <1>2, RequestBan, ContinueBan, OtherBan DEF Next
<1>3. QED
  BY <1>1, <1>2

\* A blocked user is out once the revocation behind the ban is through.
THEOREM BansHold == Spec => []BannedIsOut
<1>1. BanInv => BannedIsOut
  BY DEF BanInv, BannedIsOut, Banned, Ahead, Cleared, Revoking
<1>2. QED
  BY <1>1, InitType, InitIndex, InitBan, NextType, NextIndex, NextBan, PTL DEF Spec

=============================================================================
