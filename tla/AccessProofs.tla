---------------------------- MODULE AccessProofs ----------------------------
(***************************************************************************)
(* Of sessions, delegated roles and the decisions about them:              *)
(*                                                                         *)
(* A request is let through by a statement that reads session and account  *)
(* in one go, so what became of them between its earlier statements does   *)
(* not matter.                                                             *)
(*                                                                         *)
(* A step-up code is used up by one step only, the decision it was asked   *)
(* for; that step takes the review out of "pending", so no second code is  *)
(* used up for it. Codes and reviews name rows that are there, so a review *)
(* that is new finds no code that was used up before it.                   *)
(*                                                                         *)
(* A role that waits is matched with its one assignment, one in force with *)
(* at most one revocation: whichever decision comes, it is about the role  *)
(* as it is, and a role that ran out is never put in force again.          *)
(*                                                                         *)
(* And of private files, which share nothing with them but the kind of     *)
(* argument: what storage has under a key is what the key names or nothing,*)
(* so the object that was scanned is the one that is read later; and what  *)
(* the reader of the audit log has been shown is always a whole end of it. *)
(***************************************************************************)
EXTENDS Access, Files, FiniteSetTheorems, SequenceTheorems, TLAPS

SessionRow   == [user: People, revoked: BOOLEAN, expired: BOOLEAN]
ChallengeRow == [purpose: {"login", "high_risk"}, user: People, session: Nat,
                 about: [review: Nat, decision: Decisions] \cup {Nothing},
                 attempts: 0 .. MaxAttempts, state: {"sent", "verified", "consumed"},
                 expired: BOOLEAN]
RoleRow      == [user: People, code: Codes, period: {"ahead", "current", "over"},
                 status: {"pending", "active", "revoked", "expired"}]
ReviewRow    == [role: Nat, operation: {"assign", "revoke"}, by: People,
                 status: {"pending"} \cup Decisions, reviewer: People \cup {"nobody"}]

\* What a row names is there.
Linked ==
  /\ \A q \in Requests : request[q].phase # "idle" => request[q].session \in DOMAIN session
  /\ \A c \in DOMAIN challenge :
       challenge[c].purpose = "high_risk" => challenge[c].about.review \in DOMAIN review
  /\ \A r \in DOMAIN review : review[r].role \in DOMAIN role

\* RoleHeldOnce, without counting.
HeldOnce ==
  \A u \in People, code \in Codes :
    /\ PrimaryRole[u] = code => Holding(u, code) = {}
    /\ \A i, j \in Holding(u, code) : i = j

ReviewedOnce ==
  \A i \in DOMAIN role :
    /\ \A r, t \in PendingFor(i) : r = t
    /\ role[i].status = "pending" => PendingFor(i) # {}
    /\ role[i].status = "revoked" => PendingFor(i) = {}
    /\ \A r \in PendingFor(i) :
         review[r].operation = IF role[i].status = "pending" THEN "assign" ELSE "revoke"

AccessInv == AccessTypeOK /\ Linked /\ DecisionClaimed /\ HeldOnce /\ ReviewedOnce

-----------------------------------------------------------------------------
(* Rows *)

\* Writing one row of a table.
LEMMA Written ==
  ASSUME NEW S, NEW s \in Seq(S), NEW v \in DOMAIN s, NEW row \in S
  PROVE  /\ [s EXCEPT ![v] = row] \in Seq(S)
         /\ DOMAIN [s EXCEPT ![v] = row] = DOMAIN s
         /\ [s EXCEPT ![v] = row][v] = row
         /\ \A x \in DOMAIN s : x # v => [s EXCEPT ![v] = row][x] = s[x]
  BY LenProperties, ExceptSeq

\* Appending one.
LEMMA Inserted ==
  ASSUME NEW S, NEW s \in Seq(S), NEW row \in S
  PROVE  /\ Append(s, row) \in Seq(S)
         /\ DOMAIN Append(s, row) = DOMAIN s \cup {Len(s) + 1}
         /\ Append(s, row)[Len(s) + 1] = row
         /\ \A x \in DOMAIN s : Append(s, row)[x] = s[x]
         /\ Len(s) + 1 \notin DOMAIN s
         /\ Len(s) + 1 \in Nat
  BY LenProperties

\* Rewriting all of them.
LEMMA Rewritten ==
  ASSUME NEW S, NEW s \in Seq(S), NEW t, DOMAIN t = DOMAIN s, t = [x \in DOMAIN s |-> t[x]],
         \A x \in DOMAIN s : t[x] \in S
  PROVE  t \in Seq(S)
  <1>1. Len(s) \in Nat /\ DOMAIN s = 1 .. Len(s)
    BY LenProperties
  <1>2. t \in [1 .. Len(s) -> S]
    BY <1>1
  <1> QED BY <1>1, <1>2, SeqDef

\* What a row of a table is made of.
LEMMA RowsTyped ==
  ASSUME NEW S, NEW s \in Seq(S), NEW x \in DOMAIN s
  PROVE  s[x] \in S /\ x \in Nat
  BY LenProperties, ElementOfSeq

\* The types, with the rows named.
LEMMA Tables ==
  AccessTypeOK <=>
    /\ account \in [People -> [status: {"none", "active", "locked", "disabled"},
                               failed: 0 .. MaxAttempts]]
    /\ trusted \subseteq People
    /\ session \in Seq(SessionRow)
    /\ challenge \in Seq(ChallengeRow)
    /\ role \in Seq(RoleRow)
    /\ review \in Seq(ReviewRow)
    /\ request \in [Requests -> [phase: {"idle", "seen", "roled", "uncounted", "granted"},
         session: Nat, roles: SUBSET ({PrimaryRole[u] : u \in People} \cup Codes)]]
  BY DEF AccessTypeOK, SessionRow, ChallengeRow, RoleRow, ReviewRow

-----------------------------------------------------------------------------
(* Requests let through *)

\* Whether the row is found is read off session and account as they are.
LEMMA Granted ==
  ASSUME AccessTypeOK, Linked, [AccessNext]_accessVars, NEW q \in Requests,
         request'[q].phase = "granted", request[q].phase # "granted"
  PROVE  /\ ~session'[request'[q].session].revoked
         /\ account'[session'[request'[q].session].user].status = "active"
  <1>1. PICK p \in Requests : Heartbeat(p) \/ Revalidate(p)
    <2>1. CASE UNCHANGED accessVars
      BY <2>1 DEF accessVars
    <2>2. CASE \E s \in DOMAIN session, p \in Requests : FindSession(p, s)
      BY <2>2 DEF FindSession, AccessTypeOK
    <2>3. CASE \E p \in Requests : ReadRoles(p)
      BY <2>3 DEF ReadRoles, AccessTypeOK
    <2>4. CASE TimePasses \/ (\E u \in People : LoginWrong(u) \/ LoginRight(u))
               \/ (\E c \in DOMAIN challenge : VerifyLogin(c))
               \/ (\E s \in DOMAIN session : Logout(s))
      BY <2>4 DEF TimePasses, LoginWrong, LoginRight, VerifyLogin, Logout
    <2>5. CASE \E p \in Requests : request' = [request EXCEPT ![p] = Idle]
      BY <2>5 DEF Idle, AccessTypeOK
    <2>6. CASE \E p \in Requests : Commits(p)
      BY <2>5, <2>6 DEF Commits
    <2>7. CASE \E p \in Requests : EndRequest(p)
      BY <2>5, <2>7 DEF EndRequest
    <2>8. CASE \E p \in Requests : \E u \in People :
                 \/ CreateAccount(p, u) \/ ResetPassword(p, u) \/ DisableAccount(p, u)
                 \/ RestoreAccount(p, u) \/ UnlockAccount(p, u)
                 \/ \E code \in Codes, period \in Periods : RequestRole(p, u, code, period)
      <3>1. \A p \in Requests, u \in People :
              /\ CreateAccount(p, u) => Commits(p)
              /\ ResetPassword(p, u) => Commits(p)
              /\ DisableAccount(p, u) => Commits(p)
              /\ RestoreAccount(p, u) => Commits(p)
              /\ UnlockAccount(p, u) => Commits(p)
        BY DEF CreateAccount, ResetPassword, DisableAccount, RestoreAccount, UnlockAccount, ByAdmin
      <3>2. \A p \in Requests, u \in People, code \in Codes, period \in Periods :
              RequestRole(p, u, code, period) => Commits(p)
        BY DEF RequestRole, ByAdmin
      <3> QED BY <2>6, <2>8, <3>1, <3>2
    <2>9. CASE \E p \in Requests :
                 \/ ListUsers(p)
                 \/ \E i \in DOMAIN role : RequestRevocation(p, i)
                 \/ \E r \in DOMAIN review, decision \in Decisions :
                      \/ RequestStepUp(p, r, decision)
                      \/ \E c \in DOMAIN challenge : DecideRole(p, r, c, decision)
                 \/ \E c \in DOMAIN challenge : VerifyStepUp(p, c)
      <3>1. \A p \in Requests :
              /\ ListUsers(p) => Commits(p)
              /\ \A i \in DOMAIN role : RequestRevocation(p, i) => Commits(p)
              /\ \A c \in DOMAIN challenge : VerifyStepUp(p, c) => Commits(p)
        BY DEF ListUsers, RequestRevocation, VerifyStepUp, ByAdmin
      <3>2. \A p \in Requests, r \in DOMAIN review, decision \in Decisions :
              /\ RequestStepUp(p, r, decision) => Commits(p)
              /\ \A c \in DOMAIN challenge : DecideRole(p, r, c, decision) => Commits(p)
        BY DEF RequestStepUp, DecideRole, ByAdmin
      <3> QED BY <2>6, <2>9, <3>1, <3>2
    <2> QED BY <2>1, <2>2, <2>3, <2>4, <2>7, <2>8, <2>9 DEF AccessNext
  <1>2. p = q
    BY <1>1 DEF Heartbeat, Revalidate, Moved, AccessTypeOK
  <1>3. StillLive(q) /\ Moved(q, "granted")
    <2>1. CASE Heartbeat(p)
      BY <1>2, <2>1 DEF Heartbeat, Moved, AccessTypeOK
    <2>2. CASE Revalidate(p)
      BY <1>2, <2>2 DEF Revalidate, Idle, AccessTypeOK
    <2> QED BY <1>1, <2>1, <2>2
  <1>4. request'[q].session = request[q].session
    BY <1>3 DEF Moved, AccessTypeOK
  <1>5. UNCHANGED <<account, session>>
    BY <1>1 DEF Heartbeat, Revalidate, OnlyRequests
  <1> QED BY <1>3, <1>4, <1>5 DEF StillLive, UserOf

-----------------------------------------------------------------------------
(* What most steps leave as it is *)

AccountsTyped ==
  /\ account \in [People -> [status: {"none", "active", "locked", "disabled"},
                             failed: 0 .. MaxAttempts]]
  /\ trusted \subseteq People

SessionsKept == session' \in Seq(SessionRow) /\ DOMAIN session \subseteq DOMAIN session'

RequestTypes == [phase: {"idle", "seen", "roled", "uncounted", "granted"},
                 session: Nat, roles: SUBSET ({PrimaryRole[u] : u \in People} \cup Codes)]

RequestsKept ==
  /\ request' \in [Requests -> RequestTypes]
  /\ \A q \in Requests : request'[q].phase # "idle" => request'[q].session \in DOMAIN session

\* Codes that were used up, and only those, still are; those that are new are
\* about reviews that are there.
ClaimsKept ==
  /\ challenge' \in Seq(ChallengeRow)
  /\ DOMAIN challenge \subseteq DOMAIN challenge'
  /\ \A c \in DOMAIN challenge :
       /\ challenge'[c].purpose = challenge[c].purpose /\ challenge'[c].user = challenge[c].user
       /\ challenge'[c].about = challenge[c].about
       /\ challenge[c].purpose = "high_risk" =>
            (challenge'[c].state = "consumed" <=> challenge[c].state = "consumed")
  /\ \A c \in DOMAIN challenge' \ DOMAIN challenge :
       challenge'[c].purpose = "high_risk" =>
         challenge'[c].state # "consumed" /\ challenge'[c].about.review \in DOMAIN review

\* No role comes into force or is given to someone else.
HoldersKept ==
  /\ role' \in Seq(RoleRow)
  /\ DOMAIN role' = DOMAIN role
  /\ \A i \in DOMAIN role :
       /\ role'[i].user = role[i].user /\ role'[i].code = role[i].code
       /\ role'[i].status \in {"pending", "active"} => role[i].status \in {"pending", "active"}

RolesKept ==
  /\ HoldersKept
  /\ \A i \in DOMAIN role :
       /\ role'[i].status = "pending" <=> role[i].status = "pending"
       /\ role'[i].status = "revoked" <=> role[i].status = "revoked"

ReviewsAdded ==
  /\ review' \in Seq(ReviewRow)
  /\ DOMAIN review \subseteq DOMAIN review'
  /\ \A r \in DOMAIN review : review'[r] = review[r]
  /\ \A r \in DOMAIN review' \ DOMAIN review :
       review'[r].status = "pending" /\ review'[r].role \in DOMAIN role'

\* Nothing was used up for a review that is new, nothing more for another one.
LEMMA ClaimsStand ==
  ASSUME AccessInv, ClaimsKept, ReviewsAdded
  PROVE  DecisionClaimed'
  <1> SUFFICES ASSUME NEW r \in DOMAIN review'
               PROVE  IF review'[r].status = "pending" THEN Claims(r)' = {}
                      ELSE \E c \in Claims(r)' :
                             /\ Claims(r)' = {c}
                             /\ challenge'[c].user = review'[r].reviewer
                             /\ challenge'[c].about.decision = review'[r].status
    BY DEF DecisionClaimed
  <1>1. r \in DOMAIN review => Claims(r)' = Claims(r)
    BY DEF Claims, ClaimsKept
  <1>2. r \notin DOMAIN review => Claims(r)' = {}
    BY DEF Claims, ClaimsKept, AccessInv, Linked
  <1>3. CASE r \in DOMAIN review
    <2>1. review'[r] = review[r]
      BY <1>3 DEF ReviewsAdded
    <2>2. \A c \in Claims(r) : /\ challenge'[c].user = challenge[c].user
                               /\ challenge'[c].about = challenge[c].about
      BY DEF Claims, ClaimsKept
    <2> QED BY <1>1, <1>3, <2>1, <2>2 DEF AccessInv, DecisionClaimed
  <1>4. CASE r \notin DOMAIN review
    BY <1>2, <1>4 DEF ReviewsAdded
  <1> QED BY <1>3, <1>4

LEMMA HoldersStand ==
  ASSUME HeldOnce, HoldersKept
  PROVE  HeldOnce'
  BY DEF HeldOnce, HoldersKept, Holding

\* A step that leaves the reviews alone and changes nothing but the frame.
LEMMA Framed ==
  ASSUME AccessInv, AccountsTyped', SessionsKept, RequestsKept, ClaimsKept, RolesKept,
         review' = review
  PROVE  AccessInv'
  <1>1. AccessTypeOK'
    BY Tables DEF AccessInv, AccountsTyped, SessionsKept, RequestsKept, RequestTypes, ClaimsKept,
       RolesKept, HoldersKept, AccessTypeOK, SessionRow, ChallengeRow, RoleRow, ReviewRow
  <1>2. Linked'
    BY DEF AccessInv, Linked, SessionsKept, RequestsKept, ClaimsKept, RolesKept, HoldersKept
  <1>3. ReviewsAdded
    BY Tables DEF AccessInv, ReviewsAdded
  <1>4. DecisionClaimed'
    BY <1>3, ClaimsStand
  <1>5. HeldOnce'
    BY HoldersStand DEF AccessInv, RolesKept
  <1>6. \A i \in DOMAIN role : PendingFor(i)' = PendingFor(i)
    BY DEF PendingFor
  <1>7. ReviewedOnce'
    BY <1>6 DEF AccessInv, ReviewedOnce, RolesKept, HoldersKept
  <1> QED BY <1>1, <1>2, <1>4, <1>5, <1>7 DEF AccessInv

\* What is unchanged is kept.
LEMMA Unchanged ==
  ASSUME AccessInv
  PROVE  /\ UNCHANGED <<account, trusted>> => AccountsTyped'
         /\ UNCHANGED session => SessionsKept
         /\ UNCHANGED request => RequestsKept
         /\ UNCHANGED challenge => ClaimsKept
         /\ UNCHANGED role => RolesKept
         /\ UNCHANGED review => ReviewsAdded
  <1>1. UNCHANGED <<account, trusted>> => AccountsTyped'
    BY DEF AccessInv, AccessTypeOK, AccountsTyped
  <1>2. UNCHANGED session => SessionsKept
    BY Tables DEF AccessInv, SessionsKept
  <1>3. UNCHANGED request => RequestsKept
    BY DEF AccessInv, AccessTypeOK, RequestsKept, RequestTypes, Linked
  <1>4. UNCHANGED challenge => ClaimsKept
    BY Tables DEF AccessInv, ClaimsKept
  <1>5. UNCHANGED role => RolesKept
    BY Tables DEF AccessInv, RolesKept, HoldersKept
  <1>6. UNCHANGED review => ReviewsAdded
    BY Tables DEF AccessInv, ReviewsAdded
  <1> QED BY <1>1, <1>2, <1>3, <1>4, <1>5, <1>6

-----------------------------------------------------------------------------
(* Writing the tables *)

\* One answer to a code, or its use for a login.
LEMMA ChallengeWritten ==
  ASSUME AccessInv, NEW c \in DOMAIN challenge, NEW row \in ChallengeRow,
         row.purpose = challenge[c].purpose, row.user = challenge[c].user,
         row.about = challenge[c].about,
         row.purpose = "high_risk" => (row.state = "consumed" <=> challenge[c].state = "consumed"),
         challenge' = [challenge EXCEPT ![c] = row]
  PROVE  ClaimsKept
  <1>1. challenge \in Seq(ChallengeRow)
    BY Tables DEF AccessInv
  <1>2. /\ challenge' \in Seq(ChallengeRow)
        /\ DOMAIN challenge' = DOMAIN challenge
        /\ challenge'[c] = row
        /\ \A x \in DOMAIN challenge : x # c => challenge'[x] = challenge[x]
    BY <1>1, Written
  <1> QED BY <1>2 DEF ClaimsKept

LEMMA ChallengeFailed ==
  ASSUME AccessInv, NEW c \in DOMAIN challenge, NEW purpose, Answerable(c, purpose),
         FailChallenge(c)
  PROVE  ClaimsKept
  <1> DEFINE row == [challenge[c] EXCEPT !.attempts = @ + 1]
  <1>1. challenge[c] \in ChallengeRow
    BY Tables, RowsTyped DEF AccessInv
  <1>2. row \in ChallengeRow
    BY <1>1, AttemptsAssumption DEF Answerable, ChallengeRow
  <1>3. /\ row.purpose = challenge[c].purpose /\ row.user = challenge[c].user
        /\ row.about = challenge[c].about /\ row.state = challenge[c].state
    BY <1>1 DEF ChallengeRow
  <1>4. challenge' = [challenge EXCEPT ![c] = row]
    BY DEF FailChallenge
  <1> HIDE DEF row
  <1> QED BY <1>2, <1>3, <1>4, ChallengeWritten

LEMMA ChallengeAnswered ==
  ASSUME AccessInv, NEW c \in DOMAIN challenge, NEW state \in {"verified", "consumed"},
         challenge[c].state # "consumed",
         challenge[c].purpose = "high_risk" => state = "verified",
         challenge' = [challenge EXCEPT ![c].state = state]
  PROVE  ClaimsKept
  <1> DEFINE row == [challenge[c] EXCEPT !.state = state]
  <1>1. challenge[c] \in ChallengeRow
    BY Tables, RowsTyped DEF AccessInv
  <1>2. row \in ChallengeRow
    BY <1>1 DEF ChallengeRow
  <1>3. /\ row.purpose = challenge[c].purpose /\ row.user = challenge[c].user
        /\ row.about = challenge[c].about /\ row.state = state
    BY <1>1 DEF ChallengeRow
  <1>4. challenge' = [challenge EXCEPT ![c] = row]
    OBVIOUS
  <1> HIDE DEF row
  <1> QED BY <1>2, <1>3, <1>4, ChallengeWritten

\* A code that is sent, about a review that is there.
LEMMA ChallengeSent ==
  ASSUME AccessInv, NEW purpose \in {"login", "high_risk"}, NEW u \in People, NEW n \in Nat,
         NEW about \in [review: Nat, decision: Decisions] \cup {Nothing},
         purpose = "high_risk" => about.review \in DOMAIN review,
         SendChallenge(purpose, u, n, about)
  PROVE  ClaimsKept
  <1> DEFINE row == [purpose |-> purpose, user |-> u, session |-> n, about |-> about,
                     attempts |-> 0, state |-> "sent", expired |-> FALSE]
  <1>1. row \in ChallengeRow
    BY AttemptsAssumption DEF ChallengeRow
  <1>2. challenge \in Seq(ChallengeRow) /\ challenge' = Append(challenge, row)
    BY Tables DEF AccessInv, SendChallenge
  <1>3. row.purpose = purpose /\ row.state = "sent" /\ row.about = about
    OBVIOUS
  <1> HIDE DEF row
  <1>4. /\ challenge' \in Seq(ChallengeRow)
        /\ DOMAIN challenge' = DOMAIN challenge \cup {Len(challenge) + 1}
        /\ challenge'[Len(challenge) + 1] = row
        /\ \A x \in DOMAIN challenge : challenge'[x] = challenge[x]
    BY <1>1, <1>2, Inserted
  <1> QED BY <1>3, <1>4 DEF ClaimsKept

\* A session that is opened, revoked or expires.
LEMMA SessionOpened ==
  ASSUME AccessInv, NEW u \in People, OpenSession(u)
  PROVE  SessionsKept
  <1> DEFINE row == [user |-> u, revoked |-> FALSE, expired |-> FALSE]
  <1>1. row \in SessionRow
    BY DEF SessionRow
  <1>2. session \in Seq(SessionRow) /\ session' = Append(session, row)
    BY Tables DEF AccessInv, OpenSession
  <1> HIDE DEF row
  <1> QED BY <1>1, <1>2, Inserted DEF SessionsKept

LEMMA SessionsRevoked ==
  ASSUME AccessInv, NEW u, session' = Revoked(u)
  PROVE  SessionsKept
  <1>1. session \in Seq(SessionRow)
    BY Tables DEF AccessInv
  <1>2. \A s \in DOMAIN session : Revoked(u)[s] \in SessionRow
    <2> SUFFICES ASSUME NEW s \in DOMAIN session PROVE Revoked(u)[s] \in SessionRow
      OBVIOUS
    <2>1. session[s] \in SessionRow
      BY <1>1, RowsTyped
    <2>2. [session[s] EXCEPT !.revoked = TRUE] \in SessionRow
      BY <2>1 DEF SessionRow
    <2> QED BY <2>1, <2>2 DEF Revoked
  <1>3. DOMAIN Revoked(u) = DOMAIN session
        /\ Revoked(u) = [s \in DOMAIN session |-> Revoked(u)[s]]
    BY DEF Revoked
  <1>4. Revoked(u) \in Seq(SessionRow)
    BY <1>1, <1>2, <1>3, Rewritten
  <1> QED BY <1>3, <1>4 DEF SessionsKept

LEMMA SessionWritten ==
  ASSUME AccessInv, NEW s \in DOMAIN session, NEW row \in SessionRow,
         session' = [session EXCEPT ![s] = row]
  PROVE  SessionsKept
  <1>1. session \in Seq(SessionRow)
    BY Tables DEF AccessInv
  <1> QED BY <1>1, Written DEF SessionsKept

\* A request that goes on, or ends.
LEMMA RequestMoved ==
  ASSUME AccessInv, NEW q \in Requests, NEW row \in RequestTypes,
         row.phase # "idle" => row.session \in DOMAIN session,
         request' = [request EXCEPT ![q] = row]
  PROVE  RequestsKept
  BY DEF AccessInv, AccessTypeOK, Linked, RequestsKept, RequestTypes

LEMMA RequestEnded ==
  ASSUME AccessInv, NEW q \in Requests, request' = [request EXCEPT ![q] = Idle]
  PROVE  RequestsKept
  <1>1. Idle \in RequestTypes /\ Idle.phase = "idle"
    BY DEF Idle, RequestTypes
  <1> QED BY <1>1, RequestMoved

\* Whose request it is.
LEMMA Requester ==
  ASSUME AccessInv, NEW q \in Requests, request[q].phase # "idle"
  PROVE  /\ request[q].session \in DOMAIN session
         /\ request[q].session \in Nat
         /\ UserOf(q) \in People
  <1>1. session \in Seq(SessionRow) /\ request[q].session \in DOMAIN session
    BY Tables DEF AccessInv, Linked
  <1>2. session[request[q].session] \in SessionRow /\ request[q].session \in Nat
    BY <1>1, RowsTyped
  <1> QED BY <1>1, <1>2 DEF UserOf, SessionRow

-----------------------------------------------------------------------------
(* The commands *)

\* Logins and lockouts.
LEMMA LoginSteps ==
  ASSUME AccessInv, NEW u \in People, LoginWrong(u) \/ LoginRight(u)
  PROVE  AccessInv'
  <1>1. UNCHANGED <<trusted, role, review, request>>
    BY DEF LoginWrong, LoginRight
  <1>2. AccountsTyped'
    <2>1. CASE LoginWrong(u)
      BY <2>1, AttemptsAssumption
      DEF LoginWrong, AfterFailure, AccessInv, AccessTypeOK, AccountsTyped
    <2>2. CASE LoginRight(u)
      BY <2>2, AttemptsAssumption DEF LoginRight, Forgiven, AccessInv, AccessTypeOK, AccountsTyped
    <2> QED BY <2>1, <2>2
  <1>3. CASE UNCHANGED <<session, challenge>>
    BY <1>1, <1>2, <1>3, Unchanged, Framed
  <1>4. CASE OpenSession(u) /\ UNCHANGED challenge
    BY <1>1, <1>2, <1>4, Unchanged, SessionOpened, Framed
  <1>5. CASE SendChallenge("login", u, 0, Nothing) /\ UNCHANGED session
    <2>1. ClaimsKept
      BY <1>5, ChallengeSent
    <2> QED BY <1>1, <1>2, <1>5, <2>1, Unchanged, Framed
  <1> QED BY <1>3, <1>4, <1>5 DEF LoginWrong, LoginRight

LEMMA VerifyLoginStep ==
  ASSUME AccessInv, NEW c \in DOMAIN challenge, VerifyLogin(c)
  PROVE  AccessInv'
  <1>1. challenge[c] \in ChallengeRow
    BY Tables, RowsTyped DEF AccessInv
  <1>2. CASE FailChallenge(c) /\ UNCHANGED <<trusted, session>>
    <2>1. ClaimsKept
      BY <1>2, ChallengeFailed DEF VerifyLogin
    <2> QED BY <1>2, <2>1, Unchanged, Framed DEF VerifyLogin
  <1>3. CASE /\ challenge' = [challenge EXCEPT ![c].state = "consumed"]
             /\ trusted' = trusted \cup {challenge[c].user}
             /\ OpenSession(challenge[c].user)
    <2>1. ClaimsKept
      BY <1>3, ChallengeAnswered DEF VerifyLogin, Answerable
    <2>2. challenge[c].user \in People
      BY <1>1 DEF ChallengeRow
    <2>3. AccountsTyped' /\ SessionsKept
      BY <1>3, <2>2, SessionOpened DEF VerifyLogin, AccountsTyped, AccessInv, AccessTypeOK
    <2> QED BY <2>1, <2>3, Unchanged, Framed DEF VerifyLogin
  <1> QED BY <1>2, <1>3 DEF VerifyLogin

\* Time takes nothing back that was used, and puts nothing in force.
LEMMA TimeStep ==
  ASSUME AccessInv, TimePasses
  PROVE  AccessInv'
  <1>1. UNCHANGED <<account, review, request>>
    BY DEF TimePasses
  <1>2. CASE \E u \in trusted : trusted' = trusted \ {u} /\ UNCHANGED <<session, challenge, role>>
    <2>1. AccountsTyped'
      BY <1>1, <1>2 DEF AccountsTyped, AccessInv, AccessTypeOK
    <2> QED BY <1>1, <1>2, <2>1, Unchanged, Framed
  <1>3. ASSUME NEW s \in DOMAIN session, session' = [session EXCEPT ![s].expired = TRUE],
               UNCHANGED <<trusted, challenge, role>>
        PROVE  AccessInv'
    <2>1. session[s] \in SessionRow
      BY Tables, RowsTyped DEF AccessInv
    <2>2. [session[s] EXCEPT !.expired = TRUE] \in SessionRow
      BY <2>1 DEF SessionRow
    <2>3. session' = [session EXCEPT ![s] = [session[s] EXCEPT !.expired = TRUE]]
      BY <1>3
    <2>4. SessionsKept
      BY <2>2, <2>3, SessionWritten
    <2> QED BY <1>1, <1>3, <2>4, Unchanged, Framed
  <1>4. ASSUME NEW c \in DOMAIN challenge, challenge' = [challenge EXCEPT ![c].expired = TRUE],
               UNCHANGED <<trusted, session, role>>
        PROVE  AccessInv'
    <2> DEFINE row == [challenge[c] EXCEPT !.expired = TRUE]
    <2>1. challenge[c] \in ChallengeRow
      BY Tables, RowsTyped DEF AccessInv
    <2>2. /\ row \in ChallengeRow
          /\ row.purpose = challenge[c].purpose /\ row.user = challenge[c].user
          /\ row.about = challenge[c].about /\ row.state = challenge[c].state
      BY <2>1 DEF ChallengeRow
    <2>3. challenge' = [challenge EXCEPT ![c] = row]
      BY <1>4
    <2> HIDE DEF row
    <2>4. ClaimsKept
      BY <2>2, <2>3, ChallengeWritten
    <2> QED BY <1>1, <1>4, <2>4, Unchanged, Framed
  <1>5. ASSUME NEW i \in DOMAIN role,
               role' = [role EXCEPT ![i].period = IF @ = "ahead" THEN "current" ELSE "over"],
               UNCHANGED <<trusted, session, challenge>>
        PROVE  AccessInv'
    <2> DEFINE row == [role[i] EXCEPT !.period = IF @ = "ahead" THEN "current" ELSE "over"]
    <2>1. role[i] \in RoleRow /\ role \in Seq(RoleRow)
      BY Tables, RowsTyped DEF AccessInv
    <2>2. /\ row \in RoleRow
          /\ row.user = role[i].user /\ row.code = role[i].code /\ row.status = role[i].status
      BY <2>1 DEF RoleRow
    <2>3. role' = [role EXCEPT ![i] = row]
      BY <1>5
    <2> HIDE DEF row
    <2>4. /\ role' \in Seq(RoleRow)
          /\ DOMAIN role' = DOMAIN role
          /\ role'[i] = row
          /\ \A x \in DOMAIN role : x # i => role'[x] = role[x]
      BY <2>1, <2>2, <2>3, Written
    <2>5. RolesKept
      BY <2>2, <2>4 DEF RolesKept, HoldersKept
    <2> QED BY <1>1, <1>5, <2>5, Unchanged, Framed
  <1> QED BY <1>2, <1>3, <1>4, <1>5 DEF TimePasses

\* A request on its way.
LEMMA RequestSteps ==
  ASSUME AccessInv, NEW q \in Requests,
         \/ \E s \in DOMAIN session : FindSession(q, s)
         \/ ReadRoles(q) \/ Heartbeat(q) \/ Revalidate(q) \/ EndRequest(q)
  PROVE  AccessInv'
  <1>1. OnlyRequests
    BY DEF FindSession, ReadRoles, Heartbeat, Revalidate, EndRequest
  <1>2. RequestsKept
    <2>1. ASSUME NEW s \in DOMAIN session, FindSession(q, s)
          PROVE  RequestsKept
      <3> DEFINE row == [phase |-> "seen", session |-> s, roles |-> {}]
      <3>1. s \in Nat
        BY Tables, RowsTyped DEF AccessInv
      <3>2. row \in RequestTypes /\ row.session \in DOMAIN session
        BY <3>1 DEF RequestTypes
      <3>3. request' = [request EXCEPT ![q] = row]
        BY <2>1 DEF FindSession
      <3> HIDE DEF row
      <3> QED BY <3>2, <3>3, RequestMoved
    <2>2. CASE ReadRoles(q)
      <3> DEFINE roles == {PrimaryRole[UserOf(q)]} \cup Delegated(UserOf(q))
      <3>1. role \in Seq(RoleRow) /\ UserOf(q) \in People
        BY <2>2, Tables, Requester DEF AccessInv, ReadRoles
      <3>2. ASSUME NEW i \in DOMAIN role PROVE role[i].code \in Codes
        <4>1. role[i] \in RoleRow
          BY <3>1, RowsTyped
        <4> QED BY <4>1 DEF RoleRow
      <3>3. roles \in SUBSET ({PrimaryRole[u] : u \in People} \cup Codes)
        BY <3>1, <3>2 DEF Delegated
      <3>4. request' = [request EXCEPT ![q].phase = "roled", ![q].roles = roles]
        BY <2>2 DEF ReadRoles
      <3> HIDE DEF roles
      <3> DEFINE row == [request[q] EXCEPT !.phase = "roled", !.roles = roles]
      <3>5. request[q] \in RequestTypes /\ request[q].session \in DOMAIN session
        BY <2>2, Requester DEF ReadRoles, AccessInv, AccessTypeOK, RequestTypes
      <3>6. row \in RequestTypes /\ row.session = request[q].session
        BY <3>3, <3>5 DEF RequestTypes
      <3>7. request' = [request EXCEPT ![q] = row]
        BY <3>4
      <3> HIDE DEF row
      <3> QED BY <3>5, <3>6, <3>7, RequestMoved
    <2>3. ASSUME request[q].phase # "idle",
                 NEW phase \in {"granted", "uncounted"}, Moved(q, phase)
          PROVE  RequestsKept
      <3> DEFINE row == [request[q] EXCEPT !.phase = phase]
      <3>1. request[q] \in RequestTypes /\ request[q].session \in DOMAIN session
        BY <2>3, Requester DEF AccessInv, AccessTypeOK, RequestTypes
      <3>2. row \in RequestTypes /\ row.session = request[q].session
        BY <3>1 DEF RequestTypes
      <3>3. request' = [request EXCEPT ![q] = row]
        BY <2>3 DEF Moved
      <3> HIDE DEF row
      <3> QED BY <3>1, <3>2, <3>3, RequestMoved
    <2>4. CASE request' = [request EXCEPT ![q] = Idle]
      BY <2>4, RequestEnded
    <2>5. CASE Heartbeat(q)
      BY <2>3, <2>5 DEF Heartbeat
    <2>6. CASE Revalidate(q)
      BY <2>3, <2>4, <2>6 DEF Revalidate
    <2> QED BY <2>1, <2>2, <2>4, <2>5, <2>6 DEF EndRequest
  <1> QED BY <1>1, <1>2, Unchanged, Framed DEF OnlyRequests

LEMMA LogoutStep ==
  ASSUME AccessInv, NEW s \in DOMAIN session, Logout(s)
  PROVE  AccessInv'
  <1>1. session[s] \in SessionRow
    BY Tables, RowsTyped DEF AccessInv
  <1>2. [session[s] EXCEPT !.revoked = TRUE] \in SessionRow
    BY <1>1 DEF SessionRow
  <1>3. session' = [session EXCEPT ![s] = [session[s] EXCEPT !.revoked = TRUE]]
    BY DEF Logout
  <1>4. SessionsKept
    BY <1>2, <1>3, SessionWritten
  <1> QED BY <1>4, Unchanged, Framed DEF Logout

\* What an administrator does to an account.
LEMMA AccountSteps ==
  ASSUME AccessInv, NEW q \in Requests, NEW u \in People,
         \/ CreateAccount(q, u) \/ ResetPassword(q, u) \/ DisableAccount(q, u)
         \/ RestoreAccount(q, u) \/ UnlockAccount(q, u)
  PROVE  AccessInv'
  <1>1. UNCHANGED <<trusted, challenge, role, review>> /\ Commits(q)
    BY DEF CreateAccount, ResetPassword, DisableAccount, RestoreAccount, UnlockAccount, ByAdmin
  <1>2. RequestsKept
    BY <1>1, RequestEnded DEF Commits
  <1>3. SessionsKept
    <2>1. session' = Revoked(u) \/ UNCHANGED session
      BY DEF CreateAccount, ResetPassword, DisableAccount, RestoreAccount, UnlockAccount
    <2> QED BY <2>1, SessionsRevoked, Unchanged
  <1>4. AccountsTyped'
    <2> USE AttemptsAssumption, <1>1 DEF AccountsTyped
    <2>0. AccountsTyped
      BY DEF AccessInv, AccessTypeOK
    <2>1. CASE CreateAccount(q, u)
      BY <2>0, <2>1 DEF CreateAccount
    <2>2. CASE ResetPassword(q, u)
      BY <2>0, <2>2 DEF ResetPassword
    <2>3. CASE DisableAccount(q, u)
      BY <2>0, <2>3 DEF DisableAccount
    <2>4. CASE RestoreAccount(q, u)
      BY <2>0, <2>4 DEF RestoreAccount
    <2>5. CASE UnlockAccount(q, u)
      BY <2>0, <2>5 DEF UnlockAccount
    <2> QED BY <2>1, <2>2, <2>3, <2>4, <2>5
  <1> QED BY <1>1, <1>2, <1>3, <1>4, Unchanged, Framed

\* The list of users.
LEMMA ListStep ==
  ASSUME AccessInv, NEW q \in Requests, ListUsers(q)
  PROVE  AccessInv'
  <1>1. UNCHANGED <<account, trusted, session, challenge, review>> /\ Commits(q)
    BY DEF ListUsers, ByAdmin
  <1>2. RequestsKept
    BY <1>1, RequestEnded DEF Commits
  <1>3. role \in Seq(RoleRow) /\ DOMAIN role' = DOMAIN role
    BY Tables DEF AccessInv, ListUsers
  <1>4. ASSUME NEW i \in DOMAIN role
        PROVE  /\ role'[i] \in RoleRow
               /\ role'[i].user = role[i].user /\ role'[i].code = role[i].code
               /\ \/ role'[i].status = role[i].status
                  \/ role'[i].status = "expired" /\ role[i].status = "active"
    <2>1. role[i] \in RoleRow
      BY <1>3, RowsTyped
    <2>2. role'[i] = IF role[i].status = "active" /\ role[i].period = "over"
                     THEN [role[i] EXCEPT !.status = "expired"] ELSE role[i]
      BY DEF ListUsers
    <2> QED BY <2>1, <2>2 DEF RoleRow
  <1>5. role' = [i \in DOMAIN role |-> role'[i]]
    BY DEF ListUsers
  <1>6. role' \in Seq(RoleRow)
    BY <1>3, <1>4, <1>5, Rewritten
  <1>7. RolesKept
    BY <1>3, <1>4, <1>6 DEF RolesKept, HoldersKept
  <1> QED BY <1>1, <1>2, <1>7, Unchanged, Framed

\* Step-up codes that are asked for and answered.
LEMMA StepUpSteps ==
  ASSUME AccessInv, NEW q \in Requests,
         \/ \E r \in DOMAIN review, decision \in Decisions : RequestStepUp(q, r, decision)
         \/ \E c \in DOMAIN challenge : VerifyStepUp(q, c)
  PROVE  AccessInv'
  <1>1. UNCHANGED <<account, trusted, session, role, review>> /\ Commits(q)
    BY DEF RequestStepUp, VerifyStepUp
  <1>2. RequestsKept
    BY <1>1, RequestEnded DEF Commits
  <1>3. ClaimsKept
    <2>1. ASSUME NEW r \in DOMAIN review, NEW decision \in Decisions,
                 RequestStepUp(q, r, decision)
          PROVE  ClaimsKept
      <3> DEFINE about == [review |-> r, decision |-> decision]
      <3>1. request[q].session \in Nat /\ UserOf(q) \in People
        BY <1>1, Requester DEF Commits
      <3>2. r \in Nat
        BY Tables, RowsTyped DEF AccessInv
      <3>3. about \in [review: Nat, decision: Decisions] \cup {Nothing}
            /\ about.review \in DOMAIN review
        BY <3>2
      <3>4. SendChallenge("high_risk", UserOf(q), request[q].session, about)
        BY <2>1 DEF RequestStepUp
      <3> HIDE DEF about
      <3> QED BY <3>1, <3>3, <3>4, ChallengeSent
    <2>2. ASSUME NEW c \in DOMAIN challenge, VerifyStepUp(q, c)
          PROVE  ClaimsKept
      <3>1. CASE FailChallenge(c)
        BY <2>2, <3>1, ChallengeFailed DEF VerifyStepUp
      <3>2. CASE challenge' = [challenge EXCEPT ![c].state = "verified"]
        BY <2>2, <3>2, ChallengeAnswered DEF VerifyStepUp, Answerable
      <3> QED BY <2>2, <3>1, <3>2 DEF VerifyStepUp
    <2> QED BY <2>1, <2>2
  <1> QED BY <1>1, <1>2, <1>3, Unchanged, Framed

\* A review that is asked for, about a role that is there.
LEMMA ReviewAsked ==
  ASSUME AccessInv, NEW i \in Nat, NEW operation \in {"assign", "revoke"}, NEW u \in People,
         Asked(i, operation, u)
  PROVE  /\ review' \in Seq(ReviewRow)
         /\ DOMAIN review' = DOMAIN review \cup {Len(review) + 1}
         /\ Len(review) + 1 \notin DOMAIN review
         /\ review'[Len(review) + 1].role = i
         /\ review'[Len(review) + 1].operation = operation
         /\ review'[Len(review) + 1].status = "pending"
         /\ \A r \in DOMAIN review : review'[r] = review[r]
         /\ PendingFor(i)' = PendingFor(i) \cup {Len(review) + 1}
         /\ \A j : j # i => PendingFor(j)' = PendingFor(j)
  <1> DEFINE row == [role |-> i, operation |-> operation, by |-> u, status |-> "pending",
                     reviewer |-> "nobody"]
  <1>1. row \in ReviewRow
    BY DEF ReviewRow
  <1>2. review \in Seq(ReviewRow) /\ review' = Append(review, row)
    BY Tables DEF AccessInv, Asked
  <1>3. row.role = i /\ row.operation = operation /\ row.status = "pending"
    OBVIOUS
  <1> HIDE DEF row
  <1>4. /\ review' \in Seq(ReviewRow)
        /\ DOMAIN review' = DOMAIN review \cup {Len(review) + 1}
        /\ review'[Len(review) + 1] = row
        /\ \A r \in DOMAIN review : review'[r] = review[r]
        /\ Len(review) + 1 \notin DOMAIN review
    BY <1>1, <1>2, Inserted
  <1>5. PendingFor(i)' = PendingFor(i) \cup {Len(review) + 1}
    BY <1>3, <1>4 DEF PendingFor
  <1>6. \A j : j # i => PendingFor(j)' = PendingFor(j)
    BY <1>3, <1>4 DEF PendingFor
  <1> QED BY <1>3, <1>4, <1>5, <1>6

-----------------------------------------------------------------------------
(* Roles that are asked for and decided *)

LEMMA RoleRequested ==
  ASSUME AccessInv, NEW q \in Requests, NEW u \in People, NEW code \in Codes,
         NEW period \in Periods, RequestRole(q, u, code, period)
  PROVE  AccessInv'
  <1> DEFINE row == [user |-> u, code |-> code, period |-> period, status |-> "pending"]
  <1>0. PICK new : new = Len(role) + 1
    OBVIOUS
  <1>1. UNCHANGED <<account, trusted, session, challenge>> /\ Commits(q)
    BY DEF RequestRole, ByAdmin
  <1>2. RequestsKept
    BY <1>1, RequestEnded DEF Commits
  <1>3. row \in RoleRow /\ role \in Seq(RoleRow)
    BY Tables, PeriodsAssumption DEF RoleRow, AccessInv
  <1>4. row.user = u /\ row.code = code /\ row.status = "pending"
    OBVIOUS
  <1>5. role' = Append(role, row)
    BY DEF RequestRole
  <1> HIDE DEF row
  <1>6. /\ role' \in Seq(RoleRow)
        /\ DOMAIN role' = DOMAIN role \cup {new}
        /\ role'[new] = row
        /\ \A i \in DOMAIN role : role'[i] = role[i]
        /\ new \notin DOMAIN role /\ new \in Nat
    BY <1>0, <1>3, <1>5, Inserted
  <1>7. UserOf(q) \in People /\ Asked(new, "assign", UserOf(q))
    BY <1>0, <1>1, Requester DEF Commits, RequestRole
  <1>8. /\ review' \in Seq(ReviewRow)
        /\ DOMAIN review' = DOMAIN review \cup {Len(review) + 1}
        /\ Len(review) + 1 \notin DOMAIN review
        /\ review'[Len(review) + 1].role = new
        /\ review'[Len(review) + 1].operation = "assign"
        /\ review'[Len(review) + 1].status = "pending"
        /\ \A r \in DOMAIN review : review'[r] = review[r]
        /\ PendingFor(new)' = PendingFor(new) \cup {Len(review) + 1}
        /\ \A j : j # new => PendingFor(j)' = PendingFor(j)
    BY <1>6, <1>7, ReviewAsked
  <1>9. AccessTypeOK'
    BY <1>1, <1>2, <1>6, <1>8, Tables
    DEF AccessInv, AccessTypeOK, RequestsKept, RequestTypes, SessionRow, ChallengeRow, RoleRow,
        ReviewRow
  <1>10. Linked'
    BY <1>1, <1>2, <1>6, <1>8 DEF AccessInv, Linked, RequestsKept
  <1>11. DecisionClaimed'
    <2>1. ClaimsKept /\ ReviewsAdded
      BY <1>1, <1>6, <1>8, Unchanged DEF ReviewsAdded
    <2> QED BY <2>1, ClaimsStand
  <1>12. HeldOnce'
    <2> SUFFICES ASSUME NEW v \in People, NEW k \in Codes
                 PROVE  /\ PrimaryRole[v] = k => Holding(v, k)' = {}
                        /\ \A i, j \in Holding(v, k)' : i = j
      BY DEF HeldOnce
    <2>1. /\ PrimaryRole[v] = k => Holding(v, k) = {}
          /\ \A i, j \in Holding(v, k) : i = j
      BY DEF AccessInv, HeldOnce
    <2>2. CASE v = u /\ k = code
      <3>1. Holding(v, k) = {} /\ PrimaryRole[v] # k
        BY <2>2 DEF RequestRole
      <3>2. Holding(v, k)' = {new}
        BY <1>4, <1>6, <2>2, <3>1 DEF Holding
      <3> QED BY <3>1, <3>2
    <2>3. CASE ~(v = u /\ k = code)
      <3>1. Holding(v, k)' = Holding(v, k)
        BY <1>4, <1>6, <2>3 DEF Holding
      <3> QED BY <2>1, <3>1
    <2> QED BY <2>2, <2>3
  <1>13. ReviewedOnce'
    <2>1. PendingFor(new) = {}
      BY <1>6 DEF PendingFor, AccessInv, Linked
    <2>2. PendingFor(new)' = {Len(review) + 1} /\ role'[new].status = "pending"
      BY <1>4, <1>6, <1>8, <2>1
    <2>3. ASSUME NEW i \in DOMAIN role
          PROVE  /\ role'[i] = role[i] /\ PendingFor(i)' = PendingFor(i)
                 /\ \A r \in PendingFor(i) : review'[r] = review[r]
      BY <1>6, <1>8 DEF PendingFor
    <2>4. review'[Len(review) + 1].operation = "assign"
      BY <1>8
    <2> SUFFICES ASSUME NEW i \in DOMAIN role'
                 PROVE  /\ \A r, t \in PendingFor(i)' : r = t
                        /\ role'[i].status = "pending" => PendingFor(i)' # {}
                        /\ role'[i].status = "revoked" => PendingFor(i)' = {}
                        /\ \A r \in PendingFor(i)' :
                             review'[r].operation =
                               IF role'[i].status = "pending" THEN "assign" ELSE "revoke"
      BY DEF ReviewedOnce
    <2>5. CASE i = new
      BY <2>2, <2>4, <2>5
    <2>6. CASE i \in DOMAIN role
      BY <2>3, <2>6 DEF AccessInv, ReviewedOnce
    <2> QED BY <1>6, <2>5, <2>6
  <1> QED BY <1>9, <1>10, <1>11, <1>12, <1>13 DEF AccessInv

LEMMA RevocationRequested ==
  ASSUME AccessInv, NEW q \in Requests, NEW i \in DOMAIN role, RequestRevocation(q, i)
  PROVE  AccessInv'
  <1>1. UNCHANGED <<account, trusted, session, challenge, role>> /\ Commits(q)
    BY DEF RequestRevocation, ByAdmin
  <1>2. RequestsKept
    BY <1>1, RequestEnded DEF Commits
  <1>3. i \in Nat
    BY Tables, RowsTyped DEF AccessInv
  <1>4. /\ UserOf(q) \in People /\ Asked(i, "revoke", UserOf(q))
        /\ role[i].status = "active" /\ PendingFor(i) = {}
    BY <1>1, Requester DEF Commits, RequestRevocation
  <1>5. /\ review' \in Seq(ReviewRow)
        /\ DOMAIN review' = DOMAIN review \cup {Len(review) + 1}
        /\ Len(review) + 1 \notin DOMAIN review
        /\ review'[Len(review) + 1].role = i
        /\ review'[Len(review) + 1].operation = "revoke"
        /\ review'[Len(review) + 1].status = "pending"
        /\ \A r \in DOMAIN review : review'[r] = review[r]
        /\ PendingFor(i)' = PendingFor(i) \cup {Len(review) + 1}
        /\ \A j : j # i => PendingFor(j)' = PendingFor(j)
    BY <1>3, <1>4, ReviewAsked
  <1>6. AccessTypeOK'
    BY <1>1, <1>2, <1>5, Tables
    DEF AccessInv, AccessTypeOK, RequestsKept, RequestTypes, SessionRow, ChallengeRow, RoleRow,
        ReviewRow
  <1>7. Linked'
    BY <1>1, <1>2, <1>5 DEF AccessInv, Linked, RequestsKept
  <1>8. DecisionClaimed'
    <2>1. ClaimsKept /\ ReviewsAdded
      BY <1>1, <1>5, Unchanged DEF ReviewsAdded
    <2> QED BY <2>1, ClaimsStand
  <1>9. HeldOnce'
    BY <1>1, Unchanged, HoldersStand DEF AccessInv, RolesKept
  <1>10. ReviewedOnce'
    <2>1. PendingFor(i)' = {Len(review) + 1}
      BY <1>4, <1>5
    <2>2. \A j \in DOMAIN role : \A r \in PendingFor(j) : review'[r] = review[r]
      BY <1>5 DEF PendingFor
    <2>3. review'[Len(review) + 1].operation = "revoke" /\ role' = role
      BY <1>1, <1>5
    <2> SUFFICES ASSUME NEW j \in DOMAIN role
                 PROVE  /\ \A r, t \in PendingFor(j)' : r = t
                        /\ role[j].status = "pending" => PendingFor(j)' # {}
                        /\ role[j].status = "revoked" => PendingFor(j)' = {}
                        /\ \A r \in PendingFor(j)' :
                             review'[r].operation =
                               IF role[j].status = "pending" THEN "assign" ELSE "revoke"
      BY <2>3 DEF ReviewedOnce
    <2>4. CASE j = i
      BY <1>4, <2>1, <2>3, <2>4
    <2>5. CASE j # i
      BY <1>5, <2>2, <2>5 DEF AccessInv, ReviewedOnce
    <2> QED BY <2>4, <2>5
  <1> QED BY <1>6, <1>7, <1>8, <1>9, <1>10 DEF AccessInv

\* The decision: one code, one review and one role change together.
LEMMA RoleDecided ==
  ASSUME AccessInv, NEW q \in Requests, NEW r \in DOMAIN review, NEW c \in DOMAIN challenge,
         NEW decision \in Decisions, DecideRole(q, r, c, decision)
  PROVE  AccessInv'
  <1> DEFINE taken == [challenge[c] EXCEPT !.state = "consumed"]
             done  == [review[r] EXCEPT !.status = decision, !.reviewer = UserOf(q)]
             now   == IF (review[r].operation = "revoke") = (decision = "approved")
                      THEN "revoked" ELSE "active"
  <1>0. PICK i : i = review[r].role
    OBVIOUS
  <1> DEFINE held == [role[i] EXCEPT !.status = now]
  <1>1. UNCHANGED <<account, trusted, session>> /\ Commits(q)
    BY DEF DecideRole, ByAdmin
  <1>2. RequestsKept /\ UserOf(q) \in People
    BY <1>1, RequestEnded, Requester DEF Commits
  <1>3. /\ challenge \in Seq(ChallengeRow) /\ review \in Seq(ReviewRow) /\ role \in Seq(RoleRow)
        /\ i \in DOMAIN role
    BY <1>0, Tables DEF AccessInv, Linked
  <1>4. /\ challenge[c] \in ChallengeRow /\ review[r] \in ReviewRow /\ role[i] \in RoleRow
    BY <1>3, RowsTyped
  <1>5. /\ taken \in ChallengeRow /\ taken.purpose = challenge[c].purpose
        /\ taken.user = challenge[c].user /\ taken.about = challenge[c].about
        /\ taken.state = "consumed"
    BY <1>4 DEF ChallengeRow
  <1>6. /\ done \in ReviewRow /\ done.role = i /\ done.operation = review[r].operation
        /\ done.status = decision /\ done.reviewer = UserOf(q)
    BY <1>0, <1>2, <1>4 DEF ReviewRow
  <1>7. /\ held \in RoleRow /\ held.user = role[i].user /\ held.code = role[i].code
        /\ held.status = now
    BY <1>4 DEF RoleRow
  <1>8. /\ challenge' = [challenge EXCEPT ![c] = taken]
        /\ review' = [review EXCEPT ![r] = done]
        /\ role' = [role EXCEPT ![i] = held]
    BY <1>0 DEF DecideRole
  <1>9. /\ challenge[c].purpose = "high_risk" /\ challenge[c].state = "verified"
        /\ challenge[c].user = UserOf(q)
        /\ challenge[c].about.review = r /\ challenge[c].about.decision = decision
    BY DEF DecideRole, Fits
  <1>10. /\ review[r].status = "pending"
         /\ role[i].status = IF review[r].operation = "revoke" THEN "active" ELSE "pending"
    BY <1>0 DEF DecideRole, EffectApplies
  <1>11. now \in {"revoked", "active"}
    OBVIOUS
  <1> HIDE DEF taken, done, held, now
  <1>12. /\ challenge' \in Seq(ChallengeRow)
         /\ DOMAIN challenge' = DOMAIN challenge
         /\ challenge'[c] = taken
         /\ \A x \in DOMAIN challenge : x # c => challenge'[x] = challenge[x]
    BY <1>3, <1>5, <1>8, Written
  <1>13. /\ review' \in Seq(ReviewRow)
         /\ DOMAIN review' = DOMAIN review
         /\ review'[r] = done
         /\ \A x \in DOMAIN review : x # r => review'[x] = review[x]
    BY <1>3, <1>6, <1>8, Written
  <1>14. /\ role' \in Seq(RoleRow)
         /\ DOMAIN role' = DOMAIN role
         /\ role'[i] = held
         /\ \A x \in DOMAIN role : x # i => role'[x] = role[x]
    BY <1>3, <1>7, <1>8, Written
  <1>15. AccessTypeOK'
    BY <1>1, <1>2, <1>12, <1>13, <1>14, Tables
    DEF AccessInv, AccessTypeOK, RequestsKept, RequestTypes, SessionRow, ChallengeRow, RoleRow,
        ReviewRow
  <1>16. Linked'
    <2>1. \A x \in DOMAIN challenge : /\ challenge'[x].purpose = challenge[x].purpose
                                      /\ challenge'[x].about = challenge[x].about
      BY <1>5, <1>12
    <2>2. \A x \in DOMAIN review : review'[x].role = review[x].role
      BY <1>0, <1>6, <1>13
    <2> QED BY <1>1, <1>2, <1>12, <1>13, <1>14, <2>1, <2>2 DEF AccessInv, Linked, RequestsKept
  <1>17. DecisionClaimed'
    <2>1. Claims(r) = {}
      BY <1>10 DEF AccessInv, DecisionClaimed
    <2>2. Claims(r)' = {c}
      BY <1>5, <1>9, <1>12, <2>1 DEF Claims
    <2>3. review'[r].status = decision /\ decision # "pending" /\ review'[r].reviewer = UserOf(q)
      BY <1>6, <1>13 DEF Decisions
    <2>4. challenge'[c].user = UserOf(q) /\ challenge'[c].about.decision = decision
      BY <1>5, <1>9, <1>12
    <2>5. ASSUME NEW x \in DOMAIN review, x # r
          PROVE  Claims(x)' = Claims(x) /\ review'[x] = review[x] /\ c \notin Claims(x)
      BY <1>5, <1>9, <1>12, <1>13, <2>5 DEF Claims
    <2>6. ASSUME NEW x \in DOMAIN review, x # r
          PROVE  IF review'[x].status = "pending" THEN Claims(x)' = {}
                 ELSE \E y \in Claims(x)' :
                        /\ Claims(x)' = {y}
                        /\ challenge'[y].user = review'[x].reviewer
                        /\ challenge'[y].about.decision = review'[x].status
      <3>1. \A y \in Claims(x) : challenge'[y] = challenge[y]
        BY <1>12, <2>5, <2>6 DEF Claims
      <3> QED BY <2>5, <2>6, <3>1 DEF AccessInv, DecisionClaimed
    <2> QED BY <1>13, <2>2, <2>3, <2>4, <2>6 DEF DecisionClaimed
  <1>18. HeldOnce'
    <2>1. HoldersKept
      BY <1>7, <1>10, <1>14 DEF HoldersKept
    <2> QED BY <2>1, HoldersStand DEF AccessInv
  <1>19. ReviewedOnce'
    <2>1. PendingFor(i) = {r}
      BY <1>0, <1>3, <1>10 DEF AccessInv, ReviewedOnce, PendingFor
    <2>2. PendingFor(i)' = {}
      BY <1>6, <1>13, <2>1 DEF PendingFor, Decisions
    <2>3. ASSUME NEW j \in DOMAIN role, j # i
          PROVE  /\ PendingFor(j)' = PendingFor(j) /\ role'[j] = role[j]
                 /\ \A x \in PendingFor(j) : review'[x] = review[x]
      BY <1>0, <1>6, <1>13, <1>14, <2>3 DEF PendingFor
    <2>4. role'[i].status # "pending"
      BY <1>7, <1>11, <1>14
    <2> SUFFICES ASSUME NEW j \in DOMAIN role
                 PROVE  /\ \A x, t \in PendingFor(j)' : x = t
                        /\ role'[j].status = "pending" => PendingFor(j)' # {}
                        /\ role'[j].status = "revoked" => PendingFor(j)' = {}
                        /\ \A x \in PendingFor(j)' :
                             review'[x].operation =
                               IF role'[j].status = "pending" THEN "assign" ELSE "revoke"
      BY <1>14 DEF ReviewedOnce
    <2>5. CASE j = i
      BY <2>2, <2>4, <2>5
    <2>6. CASE j # i
      BY <2>3, <2>6 DEF AccessInv, ReviewedOnce
    <2> QED BY <2>5, <2>6
  <1> QED BY <1>15, <1>16, <1>17, <1>18, <1>19 DEF AccessInv

-----------------------------------------------------------------------------
LEMMA InitAccess == AccessInit => AccessInv
  <1> SUFFICES ASSUME AccessInit PROVE AccessInv
    OBVIOUS
  <1>1. /\ session = <<>> /\ challenge = <<>> /\ role = <<>> /\ review = <<>>
        /\ request = [q \in Requests |-> Idle] /\ trusted = Known
        /\ account = [u \in People |->
                       [status |-> IF u \in Seeded THEN "active" ELSE "none", failed |-> 0]]
    BY DEF AccessInit
  <1>2. AccessTypeOK
    BY <1>1, EmptySeq, PeopleAssumption, AttemptsAssumption DEF AccessTypeOK, Idle
  <1>3. /\ DOMAIN session = {} /\ DOMAIN challenge = {} /\ DOMAIN role = {} /\ DOMAIN review = {}
    BY <1>1
  <1>4. Linked
    BY <1>1, <1>3 DEF Linked, Idle
  <1>5. DecisionClaimed /\ HeldOnce /\ ReviewedOnce
    BY <1>3 DEF DecisionClaimed, HeldOnce, ReviewedOnce, Holding
  <1> QED BY <1>2, <1>4, <1>5 DEF AccessInv

LEMMA AccessStep == AccessInv /\ [AccessNext]_accessVars => AccessInv'
  <1> SUFFICES ASSUME AccessInv, [AccessNext]_accessVars PROVE AccessInv'
    OBVIOUS
  <1>1. CASE UNCHANGED accessVars
    BY <1>1, Unchanged, Framed DEF accessVars
  <1>2. CASE TimePasses
    BY <1>2, TimeStep
  <1>3. CASE \E u \in People : LoginWrong(u) \/ LoginRight(u)
    BY <1>3, LoginSteps
  <1>4. CASE \E c \in DOMAIN challenge : VerifyLogin(c)
    BY <1>4, VerifyLoginStep
  <1>5. CASE \E s \in DOMAIN session : Logout(s)
    BY <1>5, LogoutStep
  <1>6. CASE \E q \in Requests : \/ \E s \in DOMAIN session : FindSession(q, s)
                                 \/ ReadRoles(q) \/ Heartbeat(q) \/ Revalidate(q) \/ EndRequest(q)
    BY <1>6, RequestSteps
  <1>7. CASE \E q \in Requests, u \in People :
               \/ CreateAccount(q, u) \/ ResetPassword(q, u) \/ DisableAccount(q, u)
               \/ RestoreAccount(q, u) \/ UnlockAccount(q, u)
    BY <1>7, AccountSteps
  <1>8. CASE \E q \in Requests, u \in People, code \in Codes, period \in Periods :
               RequestRole(q, u, code, period)
    BY <1>8, RoleRequested
  <1>9. CASE \E q \in Requests : ListUsers(q)
    BY <1>9, ListStep
  <1>10. CASE \E q \in Requests, i \in DOMAIN role : RequestRevocation(q, i)
    BY <1>10, RevocationRequested
  <1>11. CASE \E q \in Requests :
                \/ \E r \in DOMAIN review, decision \in Decisions : RequestStepUp(q, r, decision)
                \/ \E c \in DOMAIN challenge : VerifyStepUp(q, c)
    BY <1>11, StepUpSteps
  <1>12. CASE \E q \in Requests, r \in DOMAIN review, c \in DOMAIN challenge,
                 decision \in Decisions : DecideRole(q, r, c, decision)
    BY <1>12, RoleDecided
  <1> QED BY <1>1, <1>2, <1>3, <1>4, <1>5, <1>6, <1>7, <1>8, <1>9, <1>10, <1>11, <1>12
      DEF AccessNext

LEMMA AccessInvariant == AccessSpec => []AccessInv
  BY InitAccess, AccessStep, PTL DEF AccessSpec

\* The tables of users, sessions, codes, roles and requests hold what their
\* columns may hold, in every reachable state.
THEOREM AccessTypes == AccessSpec => []AccessTypeOK
  <1>1. AccessInv => AccessTypeOK
    BY DEF AccessInv
  <1> QED BY <1>1, AccessInvariant, PTL

\* Each decision about a role cost one step-up code, its reviewer's own, asked
\* for that decision; nobody holds a role twice, and each role that waits does
\* so for one review: users/index.ts, auth/writes.ts, approvals/writes.ts.
THEOREM RolesWereDecided == AccessSpec => []RolesAsDecided
  <1>1. AccessInv => RolesAsDecided
    <2> SUFFICES ASSUME AccessInv PROVE RoleHeldOnce
      BY DEF AccessInv, RolesAsDecided
    <2>1. ASSUME NEW u \in People, NEW code \in Codes
          PROVE  Cardinality(Holding(u, code)) =< (IF PrimaryRole[u] = code THEN 0 ELSE 1)
      <3>1. CASE Holding(u, code) = {}
        BY <3>1, FS_EmptySet
      <3>2. CASE Holding(u, code) # {}
        <4>1. PICK i \in Holding(u, code) : TRUE
          BY <3>2
        <4>2. Holding(u, code) = {i} /\ PrimaryRole[u] # code
          BY <4>1 DEF AccessInv, HeldOnce
        <4> QED BY <4>2, FS_Singleton
      <3> QED BY <3>1, <3>2
    <2>2. ASSUME NEW i \in DOMAIN role
          PROVE  CASE role[i].status = "pending" ->
                        \E r \in PendingFor(i) : PendingFor(i) = {r}
                                                 /\ review[r].operation = "assign"
                   [] role[i].status = "revoked" -> PendingFor(i) = {}
                   [] OTHER -> /\ Cardinality(PendingFor(i)) =< 1
                               /\ \A r \in PendingFor(i) : review[r].operation = "revoke"
      <3>1. /\ \A r, t \in PendingFor(i) : r = t
            /\ role[i].status = "pending" => PendingFor(i) # {}
            /\ role[i].status = "revoked" => PendingFor(i) = {}
            /\ \A r \in PendingFor(i) :
                 review[r].operation = IF role[i].status = "pending" THEN "assign" ELSE "revoke"
        BY DEF AccessInv, ReviewedOnce
      <3>2. CASE PendingFor(i) = {}
        <4>1. Cardinality(PendingFor(i)) = 0
          BY <3>2, FS_EmptySet
        <4> QED BY <3>1, <3>2, <4>1
      <3>3. ASSUME NEW r \in PendingFor(i)
            PROVE  PendingFor(i) = {r} /\ Cardinality(PendingFor(i)) = 1
        <4>1. PendingFor(i) = {r}
          BY <3>1, <3>3
        <4> QED BY <4>1, FS_Singleton
      <3>4. CASE PendingFor(i) # {}
        <4>1. PICK r \in PendingFor(i) : TRUE
          BY <3>4
        <4> QED BY <3>1, <3>3, <3>4, <4>1
      <3> QED BY <3>2, <3>4
    <2> QED BY <2>1, <2>2 DEF RoleHeldOnce
  <1> QED BY <1>1, AccessInvariant, PTL

\* Whoever gets through does so by a session nobody revoked and an account that
\* is active at that step: loadSessionContext (auth/index.ts).
THEOREM RevokedIsOut == AccessSpec => RevokedStaysOut
  <1> DEFINE Out == \A q \in Requests :
       request'[q].phase = "granted" /\ request[q].phase # "granted"
       => /\ ~session'[request'[q].session].revoked
          /\ account'[session'[request'[q].session].user].status = "active"
  <1>1. AccessInv /\ [AccessNext]_accessVars => [Out]_accessVars
    BY Granted DEF AccessInv
  <1>2. AccessSpec => [][Out]_accessVars
    BY <1>1, AccessInvariant, PTL DEF AccessSpec
  <1> QED BY <1>2 DEF RevokedStaysOut

-----------------------------------------------------------------------------
(* The audit log and who pages through it *)

LogRow == [id: Nat, what: {"upload_quarantined", "scan_file", "download", "view_audit_logs"},
           file: Nat, by: Accounts \cup {"worker"}]

\* Rows have their ids to themselves.
Numbered(L) ==
  /\ L \in Seq(LogRow)
  /\ \A p \in DOMAIN L : L[p].id =< Len(L)
  /\ \A p, q \in DOMAIN L : L[p] = L[q] => p = q

\* M is L with a row more, above or just below its last.
Grows(L, M) ==
  /\ Len(M) = Len(L) + 1
  /\ \A p \in 1 .. Len(L) - 1 : M[p] = L[p]
  /\ Len(L) # 0 => \E q \in {Len(L), Len(L) + 1} : M[q] = L[Len(L)]
  /\ \A p \in DOMAIN M : (\E q \in DOMAIN L : M[p] = L[q]) \/ M[p].id = Len(M)

\* Of the rows the reader v found, those shown are a whole end of the log L:
\* what stands above a row that is shown, and what the pages should have shown.
Unbroken(L, v) ==
  /\ v.page \in Nat
  /\ v.page = 0 => v.before = {} /\ v.seen = {}
  /\ \A row \in v.before \cup v.seen : \E p \in DOMAIN L : L[p] = row
  /\ \A p, s \in DOMAIN L : L[p] \in v.before /\ L[s] \in v.seen /\ s =< p => L[p] \in v.seen
  /\ \A p \in DOMAIN L : L[p] \in v.before /\ p > Len(L) - v.page * PageSize => L[p] \in v.seen

\* Writing a row.
LEMMA LogGrown ==
  ASSUME Numbered(log), NEW what \in {"upload_quarantined", "scan_file", "download", "view_audit_logs"},
         NEW f \in Nat, NEW u \in Accounts \cup {"worker"}, Logged(what, f, u)
  PROVE  Numbered(log') /\ Grows(log, log')
  <1> DEFINE n == Len(log)
             row == [id |-> n + 1, what |-> what, file |-> f, by |-> u]
             short == SubSeq(log, 1, n - 1)
  <1>1. /\ log \in Seq(LogRow) /\ n \in Nat /\ DOMAIN log = 1 .. n
        /\ \A p \in 1 .. n : log[p] \in LogRow /\ log[p].id =< n
        /\ \A p, q \in 1 .. n : log[p] = log[q] => p = q
    BY LenProperties, ElementOfSeq DEF Numbered
  <1>2. row \in LogRow /\ row.id = n + 1
    BY <1>1 DEF LogRow
  <1>3. \/ log' = Append(log, row)
        \/ log # <<>> /\ log' = short \o <<row, log[n]>>
    BY DEF Logged
  <1>4. \A p \in 1 .. n : log[p] # row
    BY <1>1, <1>2
  <1> HIDE DEF row
  <1>5. CASE log' = Append(log, row)
    <2>1. /\ log' \in Seq(LogRow) /\ DOMAIN log' = 1 .. n + 1 /\ Len(log') = n + 1
          /\ log'[n + 1] = row /\ \A p \in 1 .. n : log'[p] = log[p]
      BY <1>1, <1>2, <1>5
    <2>2. ASSUME NEW p \in 1 .. n + 1, NEW q \in 1 .. n + 1, log'[p] = log'[q]
          PROVE  p = q
      BY <1>1, <1>4, <2>1, <2>2
    <2>3. \A p \in 1 .. n + 1 : log'[p].id =< n + 1
      <3> SUFFICES ASSUME NEW p \in 1 .. n + 1 PROVE log'[p].id =< n + 1
        OBVIOUS
      <3>1. CASE p = n + 1
        BY <1>1, <1>2, <2>1, <3>1
      <3>2. CASE p # n + 1
        <4>1. p \in 1 .. n /\ log'[p] = log[p]
          BY <1>1, <2>1, <3>2
        <4>2. log[p].id =< n /\ log[p].id \in Nat
          BY <1>1, <4>1 DEF LogRow
        <4> QED BY <1>1, <4>1, <4>2
      <3> QED BY <3>1, <3>2
    <2>4. Numbered(log')
      BY <2>1, <2>2, <2>3 DEF Numbered
    <2>5. Grows(log, log')
      BY <1>1, <1>2, <2>1 DEF Grows
    <2> QED BY <2>4, <2>5
  <1>6. CASE log # <<>> /\ log' = short \o <<row, log[n]>>
    <2>1. n # 0
      BY <1>1, <1>6, EmptySeq
    <2>2. /\ short \in Seq(LogRow) /\ Len(short) = n - 1
          /\ \A p \in 1 .. n - 1 : short[p] = log[p]
      BY <1>1, <2>1, SubSeqProperties
    <2>3. /\ <<row, log[n]>> \in Seq(LogRow) /\ Len(<<row, log[n]>>) = 2
          /\ <<row, log[n]>>[1] = row /\ <<row, log[n]>>[2] = log[n]
      BY <1>1, <1>2, <2>1
    <2> HIDE DEF short
    <2>4. /\ log' \in Seq(LogRow) /\ Len(log') = n + 1 /\ DOMAIN log' = 1 .. n + 1
          /\ \A p \in 1 .. n - 1 : log'[p] = log[p]
          /\ log'[n] = row /\ log'[n + 1] = log[n]
      <3>1. /\ log' \in Seq(LogRow) /\ Len(log') = n - 1 + 2
            /\ \A p \in 1 .. n - 1 + 2 : log'[p] = IF p =< n - 1 THEN short[p]
                                                   ELSE <<row, log[n]>>[p - (n - 1)]
        BY <1>1, <1>6, <2>1, <2>2, <2>3, ConcatProperties
      <3> QED BY <1>1, <2>1, <2>2, <2>3, <3>1, LenProperties
    <2>5. \A p \in 1 .. n + 1 : /\ log'[p] \in LogRow /\ log'[p].id =< n + 1
                                /\ (\E q \in 1 .. n : log'[p] = log[q]) \/ log'[p].id = n + 1
      <3> SUFFICES ASSUME NEW p \in 1 .. n + 1
                   PROVE  /\ log'[p] \in LogRow /\ log'[p].id =< n + 1
                          /\ (\E q \in 1 .. n : log'[p] = log[q]) \/ log'[p].id = n + 1
        OBVIOUS
      <3>1. CASE p = n
        BY <1>1, <1>2, <2>4, <3>1
      <3>2. CASE p # n
        <4>1. \E q \in 1 .. n : log'[p] = log[q]
          BY <1>1, <2>1, <2>4, <3>2
        <4> QED BY <1>1, <4>1 DEF LogRow
      <3> QED BY <3>1, <3>2
    <2>6. ASSUME NEW p \in 1 .. n + 1, NEW q \in 1 .. n + 1, log'[p] = log'[q]
          PROVE  p = q
      BY <1>1, <1>4, <2>1, <2>4, <2>6
    <2> QED BY <1>1, <2>1, <2>4, <2>5, <2>6 DEF Numbered, Grows
  <1> QED BY <1>3, <1>5, <1>6

\* A row more hides none from the reader: the last row may move up, and the
\* first page has shown it.
LEMMA StaysUnbroken ==
  ASSUME NEW L, NEW M, NEW v, Numbered(L), Numbered(M), Grows(L, M), Unbroken(L, v)
  PROVE  Unbroken(M, v)
  <1> DEFINE n == Len(L)
             k == v.page * PageSize
  <1>1. /\ n \in Nat /\ DOMAIN L = 1 .. n /\ DOMAIN M = 1 .. n + 1 /\ Len(M) = n + 1
        /\ \A p \in 1 .. n : L[p].id =< n
        /\ \A p, q \in 1 .. n + 1 : M[p] = M[q] => p = q
        /\ \A p \in 1 .. n - 1 : M[p] = L[p]
        /\ n # 0 => M[n] = L[n] \/ M[n + 1] = L[n]
        /\ \A p \in 1 .. n + 1 : (\E q \in 1 .. n : M[p] = L[q]) \/ M[p].id = n + 1
    BY LenProperties DEF Numbered, Grows
  <1>2. /\ v.page \in Nat
        /\ v.page = 0 => v.before = {} /\ v.seen = {}
        /\ \A row \in v.before \cup v.seen : \E p \in 1 .. n : L[p] = row
        /\ \A p, s \in 1 .. n : L[p] \in v.before /\ L[s] \in v.seen /\ s =< p => L[p] \in v.seen
        /\ \A p \in 1 .. n : L[p] \in v.before /\ p > n - k => L[p] \in v.seen
    BY <1>1 DEF Unbroken
  <1>3. k \in Nat /\ (v.page # 0 => k > 0)
    BY <1>2, FilesAssumption
  <1> HIDE DEF n, k
  <1>4. ASSUME NEW p \in 1 .. n + 1, M[p] \in v.before \cup v.seen
        PROVE  \E q \in 1 .. n : /\ M[p] = L[q]
                                 /\ q = p \/ (q = n /\ p = n + 1)
    <2>1. PICK q \in 1 .. n : L[q] = M[p]
      BY <1>2, <1>4
    <2>2. CASE q < n
      BY <1>1, <2>1, <2>2
    <2>3. CASE q = n
      BY <1>1, <2>1, <2>3
    <2> QED BY <1>1, <2>1, <2>2, <2>3
  <1>5. ASSUME NEW p \in 1 .. n + 1, NEW s \in 1 .. n + 1, M[p] \in v.before, M[s] \in v.seen, s =< p
        PROVE  M[p] \in v.seen
    <2>1. PICK q \in 1 .. n : M[p] = L[q] /\ (q = p \/ (q = n /\ p = n + 1))
      BY <1>4, <1>5
    <2>2. PICK t \in 1 .. n : M[s] = L[t] /\ (t = s \/ (t = n /\ s = n + 1))
      BY <1>4, <1>5
    <2>3. t =< q
      BY <1>1, <1>5, <2>1, <2>2
    <2> QED BY <1>2, <1>5, <2>1, <2>2, <2>3
  <1>6. ASSUME NEW p \in 1 .. n + 1, M[p] \in v.before, p > n + 1 - k
        PROVE  M[p] \in v.seen
    <2>1. PICK q \in 1 .. n : M[p] = L[q] /\ (q = p \/ (q = n /\ p = n + 1))
      BY <1>4, <1>6
    <2>2. k \in Nat /\ k > 0
      BY <1>2, <1>3, <1>6
    <2>3. q > n - k
      BY <1>1, <1>6, <2>1, <2>2
    <2> QED BY <1>2, <1>6, <2>1, <2>3
  <1>7. \A row \in v.before \cup v.seen : \E p \in 1 .. n + 1 : M[p] = row
    <2> SUFFICES ASSUME NEW row \in v.before \cup v.seen PROVE \E p \in 1 .. n + 1 : M[p] = row
      OBVIOUS
    <2>1. PICK q \in 1 .. n : L[q] = row
      BY <1>2
    <2>2. CASE q < n
      BY <1>1, <2>1, <2>2
    <2>3. CASE q = n
      BY <1>1, <2>1, <2>3
    <2> QED BY <1>1, <2>2, <2>3
  <1>8. \A p \in DOMAIN M : M[p] \in v.before /\ p > Len(M) - v.page * PageSize => M[p] \in v.seen
    <2>1. v.page * PageSize = k
      BY DEF k
    <2> SUFFICES ASSUME NEW p \in DOMAIN M, M[p] \in v.before, p > Len(M) - v.page * PageSize
                 PROVE  M[p] \in v.seen
      OBVIOUS
    <2>2. p \in 1 .. n + 1 /\ p > n + 1 - k
      BY <1>1, <1>3, <2>1
    <2> QED BY <1>6, <2>2
  <1> QED BY <1>1, <1>2, <1>5, <1>7, <1>8 DEF Unbroken

\* The next page.
LEMMA PageTurned ==
  ASSUME Numbered(log), Unbroken(log, view), NEW v,
         v = [page   |-> view.page + 1,
              before |-> IF view.page + 1 = 1 THEN {log[p] : p \in DOMAIN log} ELSE view.before,
              seen   |-> view.seen \cup PageOf(view.page + 1)]
  PROVE  Unbroken(log, v)
  <1> DEFINE n == Len(log)
             k == view.page * PageSize
             m == v.page * PageSize
  <1>1. /\ n \in Nat /\ DOMAIN log = 1 .. n
        /\ \A p, q \in 1 .. n : log[p] = log[q] => p = q
    BY LenProperties DEF Numbered
  <1>2. /\ view.page \in Nat
        /\ view.page = 0 => view.before = {} /\ view.seen = {}
        /\ \A row \in view.before \cup view.seen : \E p \in 1 .. n : log[p] = row
        /\ \A p, s \in 1 .. n : log[p] \in view.before /\ log[s] \in view.seen /\ s =< p
                                => log[p] \in view.seen
        /\ \A p \in 1 .. n : log[p] \in view.before /\ p > n - k => log[p] \in view.seen
    BY <1>1 DEF Unbroken
  <1>3. /\ v.page = view.page + 1 /\ v.page \in Nat /\ v.page # 0
        /\ v.before = IF view.page = 0 THEN {log[p] : p \in 1 .. n} ELSE view.before
        /\ v.seen = view.seen \cup PageOf(view.page + 1)
    <2>1. /\ v.page = view.page + 1
          /\ v.before = IF view.page + 1 = 1 THEN {log[p] : p \in DOMAIN log} ELSE view.before
          /\ v.seen = view.seen \cup PageOf(view.page + 1)
      OBVIOUS
    <2>2. view.page + 1 = 1 <=> view.page = 0
      BY <1>2
    <2>3. v.page \in Nat /\ v.page # 0
      BY <1>2, <2>1
    <2>4. v.before = IF view.page = 0 THEN {log[p] : p \in 1 .. n} ELSE view.before
      BY <1>1, <2>1, <2>2
    <2> QED BY <2>1, <2>3, <2>4
  <1>4. PageSize \in Nat /\ k \in Nat /\ m = k + PageSize /\ (view.page = 0 => k = 0)
    BY <1>2, <1>3, FilesAssumption
  <1>5. PageOf(view.page + 1) = {log[p] : p \in {p \in 1 .. n : p =< n - k /\ p > n - k - PageSize}}
    <2>1. Offset(view.page + 1) = k
      BY <1>2 DEF Offset
    <2> QED BY <1>1, <2>1 DEF PageOf
  <1> HIDE DEF n, k, m
  <1>6. ASSUME NEW p \in 1 .. n, log[p] \in v.before, p > n - m
        PROVE  log[p] \in v.seen
    <2>1. CASE p =< n - k
      BY <1>1, <1>3, <1>4, <1>5, <1>6, <2>1
    <2>2. CASE p > n - k
      <3>1. view.page # 0
        BY <1>1, <1>4, <2>2
      <3> QED BY <1>2, <1>3, <1>6, <2>2, <3>1
    <2> QED BY <1>1, <1>4, <2>1, <2>2
  <1>7. ASSUME NEW p \in 1 .. n, NEW s \in 1 .. n, log[p] \in v.before, log[s] \in v.seen, s =< p
        PROVE  log[p] \in v.seen
    <2>1. CASE log[s] \in view.seen
      <3>1. view.page # 0
        BY <1>2, <2>1
      <3> QED BY <1>2, <1>3, <1>7, <2>1, <3>1
    <2>2. CASE log[s] \in PageOf(view.page + 1)
      <3>1. s > n - k - PageSize
        BY <1>1, <1>5, <2>2
      <3>2. p > n - m
        BY <1>1, <1>4, <1>7, <3>1
      <3> QED BY <1>6, <1>7, <3>2
    <2> QED BY <1>3, <1>7, <2>1, <2>2
  <1>8. \A row \in v.before \cup v.seen : \E p \in 1 .. n : log[p] = row
    <2>1. \A row \in PageOf(view.page + 1) : \E p \in 1 .. n : log[p] = row
      BY <1>5
    <2>2. \A row \in v.before : \E p \in 1 .. n : log[p] = row
      BY <1>2, <1>3
    <2> QED BY <1>2, <1>3, <2>1, <2>2
  <1> QED BY <1>1, <1>3, <1>6, <1>7, <1>8 DEF Unbroken, n, m

\* The paging of the log, as an invariant.
LogInv == Numbered(log) /\ Unbroken(log, view)

\* Where the log holds a row, by the definition NoGaps uses.
LEMMA NoGapsHold ==
  ASSUME LogInv
  PROVE  NoGaps
  <1> DEFINE At(row) == CHOOSE p \in DOMAIN log : log[p] = row
  <1>1. ASSUME NEW row \in view.before \cup view.seen
        PROVE  At(row) \in DOMAIN log /\ log[At(row)] = row
    <2>1. \E p \in DOMAIN log : log[p] = row
      BY <1>1 DEF LogInv, Unbroken
    <2> QED BY <2>1
  <1> HIDE DEF At
  <1>2. ASSUME NEW row \in view.before, NEW s \in view.seen, At(s) =< At(row)
        PROVE  row \in view.seen
    <2>1. /\ At(row) \in DOMAIN log /\ log[At(row)] = row
          /\ At(s) \in DOMAIN log /\ log[At(s)] = s
      BY <1>1
    <2>2. log[At(row)] \in view.seen
      BY <1>2, <2>1 DEF LogInv, Unbroken
    <2> QED BY <2>1, <2>2
  <1>3. \A row \in view.before : (\E s \in view.seen : At(s) =< At(row)) => row \in view.seen
    BY <1>2
  <1> QED BY <1>3 DEF NoGaps, At

-----------------------------------------------------------------------------
(* The contents of the files *)

FileRow     == [key: Keys, content: Contents, owner: Accounts,
                factory: {FactoryOf[u] : u \in Accounts}, status: {"quarantined", "clean", "rejected"}]
ScanRow     == [status: {"pending", "completed", "dead"}, attempts: Nat,
                verdict: {"none", "clean", "rejected"}]
UploadRow   == [key: Keys, content: Contents, file: Nat,
                at: {"checked", "put", "stored", "refused", "unknown"}]
DownloadRow == [file: Nat, by: Accounts, content: Contents \cup {NoBytes},
                at: {"audit", "read", "served", "failed"}]

FilesTyped ==
  /\ object \in [ObjectKeys -> Contents \cup {NoBytes}]
  /\ command \in [Keys -> [content: Contents \cup {NoBytes}, file: Nat]]
  /\ file \in Seq(FileRow) /\ scan \in Seq(ScanRow) /\ DOMAIN scan = DOMAIN file
  /\ upload \in Seq(UploadRow) /\ download \in Seq(DownloadRow)
  /\ used \subseteq DOMAIN file /\ \A d \in DOMAIN download : download[d].file \in DOMAIN file

\* An object is what its key names, or not there.
NamedByContent == \A k \in Keys, c \in Contents : object[<<k, c>>] \in {NoBytes, c}

\* The object of file f is stored and harmless.
Clean(f) == Stored(f) \in Harmless

\* What was found clean is.
FoundClean ==
  /\ \A f \in DOMAIN file : file[f].status = "clean" \/ scan[f].verdict = "clean" => Clean(f)
  /\ \A d \in DOMAIN download : Clean(download[d].file)
  /\ \A d \in DOMAIN download : download[d].at = "served" => download[d].content \in Harmless
  /\ \A f \in used : Clean(f)

FilesInv == FilesTyped /\ NamedByContent /\ FoundClean /\ LogInv

\* Files are never deleted and keep their key and content, and objects may only
\* become what their key names.
Kept ==
  /\ DOMAIN file \subseteq DOMAIN file'
  /\ \A f \in DOMAIN file : file'[f].key = file[f].key /\ file'[f].content = file[f].content
  /\ \A k \in Keys, c \in Contents : object'[<<k, c>>] \in {object[<<k, c>>], c}

\* A row of a table by its type.
LEMMA FileTables ==
  ASSUME FilesTyped
  PROVE  /\ \A f \in DOMAIN file : file[f] \in FileRow /\ scan[f] \in ScanRow /\ f \in Nat
         /\ \A r \in DOMAIN upload : upload[r] \in UploadRow
         /\ \A d \in DOMAIN download : download[d] \in DownloadRow
  <1>1. \A f \in DOMAIN file : file[f] \in FileRow /\ f \in Nat
    BY ElementOfSeq, LenProperties DEF FilesTyped
  <1>2. \A f \in DOMAIN scan : scan[f] \in ScanRow
    BY ElementOfSeq, LenProperties DEF FilesTyped
  <1>3. \A r \in DOMAIN upload : upload[r] \in UploadRow
    BY ElementOfSeq, LenProperties DEF FilesTyped
  <1>4. \A d \in DOMAIN download : download[d] \in DownloadRow
    BY ElementOfSeq, LenProperties DEF FilesTyped
  <1> QED BY <1>1, <1>2, <1>3, <1>4 DEF FilesTyped

\* So a file that is clean stays clean.
LEMMA CleanStays ==
  ASSUME FilesTyped, NamedByContent, Kept, NEW f \in DOMAIN file, Clean(f)
  PROVE  Clean(f)'
  <1> DEFINE k == file[f].key
             c == file[f].content
  <1>1. k \in Keys /\ c \in Contents
    BY FileTables DEF FileRow
  <1>2. object[<<k, c>>] \in Harmless /\ object[<<k, c>>] \in {NoBytes, c}
    BY <1>1 DEF Clean, Stored, ObjectKey, NamedByContent
  <1>3. object[<<k, c>>] = c
    BY <1>2, FilesAssumption
  <1>4. object'[<<k, c>>] = c /\ file'[f].key = k /\ file'[f].content = c
    BY <1>1, <1>3 DEF Kept
  <1> QED BY <1>2, <1>3, <1>4 DEF Clean, Stored, ObjectKey

\* A command of uploads, downloads or scans that takes only what was clean, or
\* what is, as clean.
LEMMA FilesFrame ==
  ASSUME FilesInv, Kept, FilesTyped', NamedByContent',
         \A f \in DOMAIN file' :
           file'[f].status = "clean" \/ scan'[f].verdict = "clean"
           => \/ f \in DOMAIN file /\ (file[f].status = "clean" \/ scan[f].verdict = "clean" \/ Clean(f)),
         \A d \in DOMAIN download' :
           /\ \/ d \in DOMAIN download /\ download'[d].file = download[d].file
              \/ download'[d].file \in DOMAIN file /\ Clean(download'[d].file)
           /\ download'[d].at = "served" =>
                \/ d \in DOMAIN download /\ download[d].at = "served"
                   /\ download'[d].content = download[d].content
                \/ download'[d].content \in Harmless,
         \A f \in used' : f \in DOMAIN file /\ Clean(f)
  PROVE  FoundClean'
  <1>1. \A f \in DOMAIN file : Clean(f) => Clean(f)'
    BY CleanStays DEF FilesInv
  <1>2. \A f \in DOMAIN file' : file'[f].status = "clean" \/ scan'[f].verdict = "clean" => Clean(f)'
    BY <1>1 DEF FilesInv, FoundClean
  <1>3. ASSUME NEW d \in DOMAIN download' PROVE Clean(download[d].file)'
    <2>1. download'[d].file \in DOMAIN file /\ Clean(download'[d].file)
      BY DEF FilesInv, FoundClean, FilesTyped
    <2>2. PICK f \in DOMAIN file : f = download'[d].file
      BY <2>1
    <2>3. Clean(f)'
      BY <1>1, <2>1, <2>2
    <2>4. Clean(f)' <=> Clean(download[d].file)'
      BY <2>2 DEF Clean, Stored
    <2> QED BY <2>3, <2>4
  <1>4. \A d \in DOMAIN download' : download'[d].at = "served" => download'[d].content \in Harmless
    BY DEF FilesInv, FoundClean
  <1>5. \A f \in used' : Clean(f)'
    BY <1>1
  <1> QED BY <1>2, <1>3, <1>4, <1>5 DEF FoundClean

ContentsInv == FilesTyped /\ NamedByContent /\ FoundClean

\* A step of the form or of an upload that stores nothing.
LEMMA UploadsOnly ==
  ASSUME FilesInv, UNCHANGED <<server, download, used>>, upload' \in Seq(UploadRow)
  PROVE  ContentsInv'
  BY DEF FilesInv, ContentsInv, FilesTyped, NamedByContent, FoundClean, Clean, Stored, server

\* An upload goes on.
LEMMA UploadMoved ==
  ASSUME FilesTyped, NEW r \in DOMAIN upload,
         NEW phase \in {"checked", "put", "stored", "refused", "unknown"}, Goto(r, phase)
  PROVE  upload' \in Seq(UploadRow)
  <1>1. upload' = [upload EXCEPT ![r] = [upload[r] EXCEPT !.at = phase]]
    BY DEF Goto
  <1>2. [upload[r] EXCEPT !.at = phase] \in UploadRow
    BY FileTables DEF UploadRow
  <1> QED BY <1>1, <1>2, Written DEF FilesTyped

\* The form's steps, and uploads that are refused or lost.
LEMMA FormSteps ==
  ASSUME FilesInv,
         \/ \E k \in Keys, c \in Contents : Submit(k, c)
         \/ Resume \/ Learn \/ GiveUp \/ LearnVerdict
         \/ \E r \in DOMAIN upload : Refuse(r) \/ LoseUpload(r)
  PROVE  ContentsInv'
  <1>0. FilesTyped /\ upload \in Seq(UploadRow)
    BY DEF FilesInv, FilesTyped
  <1>1. ASSUME NEW k \in Keys, NEW c \in Contents, Submit(k, c) PROVE ContentsInv'
    <2> DEFINE row == [key |-> k, content |-> c, at |-> "checked", file |-> 0]
    <2>1. row \in UploadRow
      BY DEF UploadRow
    <2>2. upload' = Append(upload, row) /\ UNCHANGED <<server, download, used>>
      BY <1>1 DEF Submit
    <2> HIDE DEF row
    <2>3. upload' \in Seq(UploadRow)
      BY <1>0, <2>1, <2>2, Inserted
    <2> QED BY <2>2, <2>3, UploadsOnly
  <1>2. CASE Resume \/ Learn \/ GiveUp \/ LearnVerdict
    <2>1. UNCHANGED <<server, upload, download, used>>
      BY <1>2 DEF Resume, Learn, GiveUp, LearnVerdict
    <2> QED BY <1>0, <2>1, UploadsOnly
  <1>3. ASSUME NEW r \in DOMAIN upload, Refuse(r) \/ LoseUpload(r) PROVE ContentsInv'
    <2>1. (Goto(r, "refused") \/ Goto(r, "unknown")) /\ UNCHANGED <<server, download, used>>
      BY <1>3 DEF Refuse, LoseUpload
    <2>2. upload' \in Seq(UploadRow)
      BY <1>0, <2>1, UploadMoved
    <2> QED BY <2>1, <2>2, UploadsOnly
  <1> QED BY <1>1, <1>2, <1>3

\* An object is written before anybody compared the key with earlier uploads.
LEMMA ObjectPut ==
  ASSUME FilesInv, NEW r \in DOMAIN upload, PutObject(r)
  PROVE  ContentsInv'
  <1> DEFINE k == upload[r].key
             c == upload[r].content
  <1>0. FilesTyped /\ NamedByContent /\ FoundClean
    BY DEF FilesInv
  <1>1. k \in Keys /\ c \in Contents
    BY <1>0, FileTables DEF UploadRow
  <1>2. /\ object' = [object EXCEPT ![<<k, c>>] = c]
        /\ Goto(r, "put") \/ Goto(r, "refused")
        /\ UNCHANGED <<file, command, scan, download, used>>
    BY DEF PutObject, Put, ObjectKey
  <1>3. upload' \in Seq(UploadRow)
    BY <1>0, <1>2, UploadMoved
  <1> HIDE DEF k, c
  <1>4. <<k, c>> \in ObjectKeys /\ object \in [ObjectKeys -> Contents \cup {NoBytes}]
    BY <1>0, <1>1 DEF ObjectKeys, FilesTyped
  <1>5. /\ object' \in [ObjectKeys -> Contents \cup {NoBytes}]
        /\ \A x \in ObjectKeys : object'[x] = IF x = <<k, c>> THEN c ELSE object[x]
    BY <1>1, <1>2, <1>4
  <1>6. \A l \in Keys, e \in Contents : object'[<<l, e>>] \in {object[<<l, e>>], e}
    BY <1>5 DEF ObjectKeys
  <1>7. FilesTyped'
    BY <1>0, <1>2, <1>3, <1>5 DEF FilesTyped
  <1>8. NamedByContent'
    BY <1>0, <1>6 DEF NamedByContent
  <1>9. Kept
    BY <1>2, <1>6 DEF Kept
  <1>10. FoundClean'
    BY <1>0, <1>2, <1>7, <1>8, <1>9, FilesFrame DEF FoundClean, FilesTyped
  <1> QED BY <1>7, <1>8, <1>10 DEF ContentsInv

\* The row of a file is written, to be scanned.
LEMMA FileStored ==
  ASSUME FilesInv, NEW r \in DOMAIN upload, StoreFile(r)
  PROVE  ContentsInv'
  <1> DEFINE k == upload[r].key
             c == upload[r].content
             f == Len(file) + 1
             row == [key |-> k, content |-> c, owner |-> Uploader, factory |-> FactoryOf[Uploader],
                     status |-> "quarantined"]
             job == [status |-> "pending", attempts |-> 0, verdict |-> "none"]
  <1>0. /\ FilesTyped /\ NamedByContent /\ FoundClean
        /\ file \in Seq(FileRow) /\ scan \in Seq(ScanRow) /\ DOMAIN scan = DOMAIN file
        /\ upload \in Seq(UploadRow) /\ upload[r] \in UploadRow
    BY FileTables DEF FilesInv, FilesTyped
  <1>1. /\ k \in Keys /\ c \in Contents /\ row \in FileRow /\ job \in ScanRow
        /\ row.status = "quarantined" /\ job.verdict = "none"
    BY <1>0, FilesAssumption DEF UploadRow, FileRow, ScanRow
  <1>2. /\ command' = [command EXCEPT ![k] = [content |-> c, file |-> f]]
        /\ file' = Append(file, row) /\ scan' = Append(scan, job)
        /\ upload' \in {[upload EXCEPT ![r] = [upload[r] EXCEPT !.at = "stored", !.file = f]],
                        [upload EXCEPT ![r] = [upload[r] EXCEPT !.at = "unknown"]]}
        /\ UNCHANGED <<object, download, used>>
    BY DEF StoreFile
  <1> HIDE DEF row, job, k, c
  <1>3. /\ file' \in Seq(FileRow) /\ DOMAIN file' = DOMAIN file \cup {f} /\ file'[f] = row
        /\ \A g \in DOMAIN file : file'[g] = file[g]
        /\ f \in Nat /\ f \notin DOMAIN file
    BY <1>0, <1>1, <1>2, Inserted
  <1>4. Len(scan) = Len(file)
    BY <1>0, LenProperties
  <1>5. /\ scan' \in Seq(ScanRow) /\ DOMAIN scan' = DOMAIN scan \cup {f} /\ scan'[f] = job
        /\ \A g \in DOMAIN scan : scan'[g] = scan[g]
    BY <1>0, <1>1, <1>2, <1>4, Inserted
  <1>6. upload' \in Seq(UploadRow)
    <2> DEFINE stored == [upload[r] EXCEPT !.at = "stored", !.file = f]
               lost   == [upload[r] EXCEPT !.at = "unknown"]
    <2>1. stored \in UploadRow
      BY <1>0, <1>3 DEF UploadRow
    <2>2. lost \in UploadRow
      BY <1>0 DEF UploadRow
    <2>3. upload' = [upload EXCEPT ![r] = stored] \/ upload' = [upload EXCEPT ![r] = lost]
      BY <1>2
    <2>4. upload \in Seq(UploadRow)
      BY <1>0
    <2> HIDE DEF stored, lost
    <2> QED BY <2>1, <2>2, <2>3, <2>4, Written
  <1> HIDE DEF f
  <1>7. command' \in [Keys -> [content: Contents \cup {NoBytes}, file: Nat]]
    <2>1. [content |-> c, file |-> f] \in [content: Contents \cup {NoBytes}, file: Nat]
      BY <1>1, <1>3
    <2>2. command \in [Keys -> [content: Contents \cup {NoBytes}, file: Nat]]
      BY <1>0 DEF FilesTyped
    <2> QED BY <1>2, <2>1, <2>2
  <1>8. FilesTyped'
    BY <1>0, <1>2, <1>3, <1>5, <1>6, <1>7 DEF FilesTyped
  <1>9. NamedByContent' /\ Kept
    BY <1>0, <1>2, <1>3 DEF NamedByContent, Kept
  <1>10. \A g \in DOMAIN file' : file'[g].status = "clean" \/ scan'[g].verdict = "clean"
           => g \in DOMAIN file /\ (file[g].status = "clean" \/ scan[g].verdict = "clean" \/ Clean(g))
    BY <1>0, <1>1, <1>3, <1>5
  <1>11. FoundClean'
    BY <1>0, <1>2, <1>8, <1>9, <1>10, FilesFrame DEF FoundClean, FilesTyped
  <1> QED BY <1>8, <1>9, <1>11 DEF ContentsInv

\* An upload whose key was used is answered again.
LEMMA UploadReplayed ==
  ASSUME FilesInv, NEW r \in DOMAIN upload, ReplayUpload(r)
  PROVE  ContentsInv'
  <1> DEFINE f == command[upload[r].key].file
  <1>0. FilesTyped /\ upload \in Seq(UploadRow) /\ upload[r] \in UploadRow
    BY FileTables DEF FilesInv, FilesTyped
  <1>1. f \in Nat
    BY <1>0 DEF FilesTyped, UploadRow
  <1>2. /\ \/ upload' = [upload EXCEPT ![r] = [upload[r] EXCEPT !.at = "stored", !.file = f]]
           \/ upload' = [upload EXCEPT ![r] = [upload[r] EXCEPT !.at = "refused"]]
        /\ UNCHANGED <<server, download, used>>
    BY DEF ReplayUpload
  <1> HIDE DEF f
  <1>3. [upload[r] EXCEPT !.at = "stored", !.file = f] \in UploadRow
    BY <1>0, <1>1 DEF UploadRow
  <1>4. [upload[r] EXCEPT !.at = "refused"] \in UploadRow
    BY <1>0 DEF UploadRow
  <1>5. upload' \in Seq(UploadRow)
    BY <1>0, <1>2, <1>3, <1>4, Written
  <1> QED BY <1>2, <1>5, UploadsOnly

\* A step that touches neither objects, files, commands nor uploads, by the rows
\* of the downloads and what was used.
LEMMA DownloadsMoved ==
  ASSUME FilesInv, UNCHANGED <<server, upload>>, download' \in Seq(DownloadRow),
         used' \subseteq DOMAIN file,
         \A d \in DOMAIN download' :
           /\ \/ d \in DOMAIN download /\ download'[d].file = download[d].file
              \/ download'[d].file \in DOMAIN file /\ Clean(download'[d].file)
           /\ download'[d].at = "served" =>
                \/ d \in DOMAIN download /\ download[d].at = "served"
                   /\ download'[d].content = download[d].content
                \/ download'[d].content \in Harmless,
         \A f \in used' : Clean(f)
  PROVE  ContentsInv'
  <1>0. FilesTyped /\ NamedByContent /\ FoundClean
    BY DEF FilesInv
  <1>1. UNCHANGED object /\ UNCHANGED file /\ UNCHANGED command /\ UNCHANGED scan
    BY DEF server
  <1>2. \A d \in DOMAIN download' : download'[d].file \in DOMAIN file
    BY <1>0 DEF FilesTyped
  <1>3. FilesTyped'
    BY <1>0, <1>1, <1>2 DEF FilesTyped
  <1>4. NamedByContent'
    BY <1>0, <1>1 DEF NamedByContent
  <1>5. Kept
    BY <1>1 DEF Kept
  <1>6. \A g \in DOMAIN file' : file'[g].status = "clean" \/ scan'[g].verdict = "clean"
          => g \in DOMAIN file /\ (file[g].status = "clean" \/ scan[g].verdict = "clean" \/ Clean(g))
    BY <1>1
  <1>7. \A f \in used' : f \in DOMAIN file /\ Clean(f)
    OBVIOUS
  <1>8. FoundClean'
    BY <1>3, <1>4, <1>5, <1>6, <1>7, FilesFrame
  <1> QED BY <1>3, <1>4, <1>8 DEF ContentsInv

\* A step of a scan.
LEMMA ScansMoved ==
  ASSUME FilesInv, UNCHANGED <<object, command, upload, download, used>>,
         NEW f \in DOMAIN file, NEW row \in FileRow, NEW job \in ScanRow,
         file' = [file EXCEPT ![f] = row], scan' = [scan EXCEPT ![f] = job],
         row.key = file[f].key, row.content = file[f].content,
         row.status = "clean" \/ job.verdict = "clean"
         => file[f].status = "clean" \/ scan[f].verdict = "clean" \/ Clean(f)
  PROVE  ContentsInv'
  <1>0. FilesTyped /\ NamedByContent /\ FoundClean
        /\ file \in Seq(FileRow) /\ scan \in Seq(ScanRow) /\ DOMAIN scan = DOMAIN file
    BY DEF FilesInv, FilesTyped
  <1>1. /\ file' \in Seq(FileRow) /\ DOMAIN file' = DOMAIN file /\ file'[f] = row
        /\ \A g \in DOMAIN file : g # f => file'[g] = file[g]
    BY <1>0, Written
  <1>2. /\ scan' \in Seq(ScanRow) /\ DOMAIN scan' = DOMAIN scan /\ scan'[f] = job
        /\ \A g \in DOMAIN scan : g # f => scan'[g] = scan[g]
    BY <1>0, Written
  <1>3. FilesTyped'
    BY <1>0, <1>1, <1>2 DEF FilesTyped
  <1>4. NamedByContent'
    BY <1>0 DEF NamedByContent
  <1>5. Kept
    BY <1>1 DEF Kept
  <1>6. \A g \in DOMAIN file' : file'[g].status = "clean" \/ scan'[g].verdict = "clean"
          => g \in DOMAIN file /\ (file[g].status = "clean" \/ scan[g].verdict = "clean" \/ Clean(g))
    BY <1>0, <1>1, <1>2
  <1>7. \A g \in used' : g \in DOMAIN file /\ Clean(g)
    BY <1>0 DEF FoundClean, FilesTyped
  <1>8. ASSUME NEW d \in DOMAIN download'
        PROVE  /\ d \in DOMAIN download /\ download'[d].file = download[d].file
               /\ download'[d].content = download[d].content /\ download'[d].at = download[d].at
    OBVIOUS
  <1>9. FoundClean'
    BY <1>3, <1>4, <1>5, <1>6, <1>7, <1>8, FilesFrame
  <1> QED BY <1>3, <1>4, <1>9 DEF ContentsInv

\* A verdict is about the object as it is now, and that stays what it is.
LEMMA ScanSteps ==
  ASSUME FilesInv, NEW f \in DOMAIN file, ScanFile(f) \/ FinishScan(f) \/ AbandonScan(f)
  PROVE  ContentsInv'
  <1>0. /\ FilesTyped /\ FoundClean /\ file[f] \in FileRow /\ scan[f] \in ScanRow
        /\ file \in Seq(FileRow) /\ scan \in Seq(ScanRow) /\ DOMAIN scan = DOMAIN file
        /\ file = [file EXCEPT ![f] = file[f]]
    <2>1. FilesTyped
      BY DEF FilesInv
    <2>2. file \in [1 .. Len(file) -> FileRow]
      BY <2>1, LenProperties DEF FilesTyped
    <2> QED BY <2>1, <2>2, FileTables DEF FilesInv, FilesTyped
  <1>1. CASE ScanFile(f)
    <2>1. PICK verdict \in {"none", IF Stored(f) \in Harmless THEN "clean" ELSE "rejected"} :
            scan' = [scan EXCEPT ![f] = [scan[f] EXCEPT !.attempts = @ + 1, !.verdict = verdict]]
      BY <1>1 DEF ScanFile
    <2> DEFINE job == [scan[f] EXCEPT !.attempts = @ + 1, !.verdict = verdict]
    <2>0. verdict \in {"none", "clean", "rejected"}
      OBVIOUS
    <2>2. job \in ScanRow /\ job.verdict = verdict
      <3>1. scan[f].attempts + 1 \in Nat
        BY <1>0 DEF ScanRow
      <3> QED BY <1>0, <2>0, <3>1 DEF ScanRow
    <2>3. job.verdict = "clean" => Clean(f)
      BY <2>1, <2>2 DEF Clean
    <2>4. file' = [file EXCEPT ![f] = file[f]] /\ UNCHANGED <<object, command, upload, download, used>>
      BY <1>0, <1>1 DEF ScanFile
    <2> HIDE DEF job
    <2> QED BY <1>0, <2>1, <2>2, <2>3, <2>4, ScansMoved DEF job
  <1>2. CASE FinishScan(f)
    <2> DEFINE job == [scan[f] EXCEPT !.status = "completed"]
               row == [file[f] EXCEPT !.status = scan[f].verdict]
    <2>1. /\ scan' = [scan EXCEPT ![f] = job] /\ file' = [file EXCEPT ![f] = row]
          /\ UNCHANGED <<object, command, upload, download, used>> /\ scan[f].verdict # "none"
      BY <1>2 DEF FinishScan
    <2>2. job \in ScanRow /\ job.verdict = scan[f].verdict
      BY <1>0 DEF ScanRow
    <2>3. row \in FileRow /\ row.status = scan[f].verdict /\ row.key = file[f].key
          /\ row.content = file[f].content
      BY <1>0, <2>1 DEF ScanRow, FileRow
    <2> HIDE DEF job, row
    <2> QED BY <2>1, <2>2, <2>3, ScansMoved
  <1>3. CASE AbandonScan(f)
    <2> DEFINE job == [scan[f] EXCEPT !.status = "dead"]
    <2>1. /\ scan' = [scan EXCEPT ![f] = job] /\ file' = [file EXCEPT ![f] = file[f]]
          /\ UNCHANGED <<object, command, upload, download, used>>
      BY <1>0, <1>3 DEF AbandonScan
    <2>2. job \in ScanRow /\ job.verdict = scan[f].verdict
      BY <1>0 DEF ScanRow
    <2> HIDE DEF job
    <2> QED BY <1>0, <2>1, <2>2, ScansMoved
  <1> QED BY <1>1, <1>2, <1>3

\* A download is opened on a clean file, and served what that file's key holds.
LEMMA DownloadOpened ==
  ASSUME FilesInv, NEW f \in DOMAIN file, NEW u \in Accounts, OpenDownload(f, u)
  PROVE  ContentsInv'
  <1> DEFINE row == [file |-> f, by |-> u, at |-> "audit", content |-> NoBytes]
             n == Len(download) + 1
  <1>0. FilesTyped /\ FoundClean /\ download \in Seq(DownloadRow) /\ f \in Nat
    BY FileTables DEF FilesInv, FilesTyped
  <1>1. row \in DownloadRow /\ row.file = f /\ row.at = "audit"
    BY <1>0 DEF DownloadRow
  <1>2. Clean(f) /\ download' = Append(download, row) /\ UNCHANGED <<server, upload, used>>
    BY <1>0 DEF OpenDownload, FoundClean
  <1> HIDE DEF row
  <1>3. /\ download' \in Seq(DownloadRow) /\ DOMAIN download' = DOMAIN download \cup {n}
        /\ download'[n] = row /\ \A d \in DOMAIN download : download'[d] = download[d]
    BY <1>0, <1>1, <1>2, Inserted
  <1> HIDE DEF n
  <1>4. ASSUME NEW d \in DOMAIN download'
        PROVE  /\ \/ d \in DOMAIN download /\ download'[d].file = download[d].file
                  \/ download'[d].file \in DOMAIN file /\ Clean(download'[d].file)
               /\ download'[d].at = "served" =>
                    \/ d \in DOMAIN download /\ download[d].at = "served"
                       /\ download'[d].content = download[d].content
                    \/ download'[d].content \in Harmless
    <2>1. CASE d = n
      <3>1. download'[d].file = f /\ download'[d].at = "audit"
        BY <1>1, <1>3, <2>1
      <3> QED BY <1>2, <3>1
    <2>2. CASE d \in DOMAIN download
      BY <1>3, <2>2
    <2> QED BY <1>3, <2>1, <2>2
  <1>5. used' \subseteq DOMAIN file /\ \A g \in used' : Clean(g)
    BY <1>0, <1>2 DEF FoundClean, FilesTyped
  <1> QED BY <1>2, <1>3, <1>4, <1>5, DownloadsMoved

\* A download that is under way.
LEMMA DownloadWritten ==
  ASSUME FilesInv, UNCHANGED <<server, upload, used>>, NEW d \in DOMAIN download,
         NEW row \in DownloadRow, download' = [download EXCEPT ![d] = row],
         row.file = download[d].file, row.at = "served" => row.content \in Harmless
  PROVE  ContentsInv'
  <1>0. FilesTyped /\ FoundClean /\ download \in Seq(DownloadRow)
    BY DEF FilesInv, FilesTyped
  <1>1. /\ download' \in Seq(DownloadRow) /\ DOMAIN download' = DOMAIN download
        /\ download'[d] = row /\ \A e \in DOMAIN download : e # d => download'[e] = download[e]
    BY <1>0, Written
  <1>2. ASSUME NEW e \in DOMAIN download'
        PROVE  /\ \/ e \in DOMAIN download /\ download'[e].file = download[e].file
                  \/ download'[e].file \in DOMAIN file /\ Clean(download'[e].file)
               /\ download'[e].at = "served" =>
                    \/ e \in DOMAIN download /\ download[e].at = "served"
                       /\ download'[e].content = download[e].content
                    \/ download'[e].content \in Harmless
    BY <1>1
  <1>3. used' \subseteq DOMAIN file /\ \A g \in used' : Clean(g)
    BY <1>0 DEF FoundClean, FilesTyped
  <1> QED BY <1>1, <1>2, <1>3, DownloadsMoved

LEMMA DownloadSteps ==
  ASSUME FilesInv, NEW d \in DOMAIN download, AuditDownload(d) \/ ReadObject(d)
  PROVE  ContentsInv'
  <1> DEFINE to(phase) == [download[d] EXCEPT !.at = phase]
             served == [download[d] EXCEPT !.at = "served", !.content = Stored(download[d].file)]
  <1>0. FilesTyped /\ download[d] \in DownloadRow
    BY FileTables DEF FilesInv
  <1>1. /\ to("read") \in DownloadRow /\ to("read").file = download[d].file /\ to("read").at = "read"
        /\ to("failed") \in DownloadRow /\ to("failed").file = download[d].file
        /\ to("failed").at = "failed"
    BY <1>0 DEF DownloadRow
  <1>2. Clean(download[d].file)
    BY DEF FilesInv, FoundClean
  <1>3. /\ served \in DownloadRow /\ served.file = download[d].file
        /\ served.content \in Harmless
    BY <1>0, <1>2, FilesAssumption DEF DownloadRow, Clean
  <1>4. /\ UNCHANGED <<server, upload, used>>
        /\ \/ download' = [download EXCEPT ![d] = to("read")]
           \/ download' = [download EXCEPT ![d] = to("failed")]
           \/ download' = [download EXCEPT ![d] = served]
    BY DEF AuditDownload, AuditFails, ReadObject
  <1> HIDE DEF to, served
  <1>5. CASE download' = [download EXCEPT ![d] = to("read")]
    BY <1>1, <1>4, <1>5, DownloadWritten
  <1>6. CASE download' = [download EXCEPT ![d] = to("failed")]
    BY <1>1, <1>4, <1>6, DownloadWritten
  <1>7. CASE download' = [download EXCEPT ![d] = served]
    BY <1>3, <1>4, <1>7, DownloadWritten
  <1> QED BY <1>4, <1>5, <1>6, <1>7

LEMMA EvidenceTaken ==
  ASSUME FilesInv, NEW f \in DOMAIN file, NEW u \in Accounts, UseAsEvidence(f, u)
  PROVE  ContentsInv'
  <1>0. FilesTyped /\ FoundClean /\ download \in Seq(DownloadRow)
    BY DEF FilesInv, FilesTyped
  <1>1. Clean(f) /\ used' = used \cup {f} /\ UNCHANGED <<server, upload, download>>
    BY <1>0 DEF UseAsEvidence, FoundClean
  <1>2. used' \subseteq DOMAIN file /\ \A g \in used' : Clean(g)
    BY <1>0, <1>1 DEF FoundClean, FilesTyped
  <1> QED BY <1>0, <1>1, <1>2, DownloadsMoved

-----------------------------------------------------------------------------
(* Every step *)

\* What a step does to the log: nothing, one row, or one row and a page shown.
LEMMA LogStep ==
  ASSUME FilesInv, FilesNext
  PROVE  LogInv'
  <1>0. FilesTyped /\ Numbered(log) /\ Unbroken(log, view)
    BY DEF FilesInv, LogInv
  <1>1. CASE UNCHANGED <<log, view>>
    BY <1>0, <1>1 DEF LogInv, Numbered, Unbroken
  <1>2. ASSUME NEW what \in {"upload_quarantined", "scan_file", "download"}, NEW f \in Nat,
               NEW u \in Accounts \cup {"worker"}, Logged(what, f, u), UNCHANGED view
        PROVE  LogInv'
    <2>1. Numbered(log') /\ Grows(log, log')
      BY <1>0, <1>2, LogGrown
    <2>2. Unbroken(log', view)
      BY <1>0, <2>1, StaysUnbroken
    <2>3. Unbroken(log', view')
      BY <1>2, <2>2
    <2> QED BY <2>1, <2>3 DEF LogInv
  <1>3. ASSUME NEW u \in Accounts, ViewPage(u) PROVE LogInv'
    <2>1. Logged("view_audit_logs", 0, u) /\ 0 \in Nat
      BY <1>3 DEF ViewPage
    <2>2. Numbered(log') /\ Grows(log, log')
      BY <1>0, <2>1, LogGrown
    <2>3. Unbroken(log, view')
      BY <1>0, <1>3, PageTurned DEF ViewPage
    <2>4. Unbroken(log', view')
      BY <1>0, <2>2, <2>3, StaysUnbroken
    <2> QED BY <2>2, <2>4 DEF LogInv
  <1>4. ASSUME NEW r \in DOMAIN upload, StoreFile(r) PROVE LogInv'
    <2>1. Logged("upload_quarantined", Len(file) + 1, Uploader) /\ UNCHANGED view
      BY <1>4 DEF StoreFile
    <2>2. Len(file) + 1 \in Nat /\ Uploader \in Accounts
      BY <1>0, LenProperties, FilesAssumption DEF FilesTyped
    <2> QED BY <1>2, <2>1, <2>2
  <1>5. ASSUME NEW f \in DOMAIN file, FinishScan(f) PROVE LogInv'
    <2>1. Logged("scan_file", f, "worker") /\ UNCHANGED view
      BY <1>5 DEF FinishScan
    <2>2. f \in Nat
      BY <1>0, FileTables
    <2> QED BY <1>2, <2>1, <2>2
  <1>6. ASSUME NEW d \in DOMAIN download, AuditDownload(d) PROVE LogInv'
    <2>1. \/ Logged("download", download[d].file, download[d].by) /\ UNCHANGED view
          \/ UNCHANGED <<log, view>>
      BY <1>6 DEF AuditDownload
    <2>2. download[d].file \in Nat /\ download[d].by \in Accounts
      BY <1>0, FileTables DEF DownloadRow
    <2> QED BY <1>1, <1>2, <2>1, <2>2
  <1>7. \/ UNCHANGED <<log, view>>
        \/ \E r \in DOMAIN upload : StoreFile(r)
        \/ \E f \in DOMAIN file : FinishScan(f)
        \/ \E d \in DOMAIN download : AuditDownload(d)
        \/ \E u \in Accounts : ViewPage(u)
    BY DEF FilesNext, Submit, Resume, Learn, GiveUp, LearnVerdict, Refuse, PutObject, ReplayUpload,
           LoseUpload, ScanFile, AbandonScan, OpenDownload, UseAsEvidence, ReadObject
  <1> QED BY <1>1, <1>3, <1>4, <1>5, <1>6, <1>7

LEMMA InitFiles == FilesInit => FilesInv
  <1> SUFFICES ASSUME FilesInit PROVE FilesInv
    OBVIOUS
  <1>1. \A S : <<>> \in Seq(S) /\ Len(<<>>) = 0
    BY EmptySeq
  <1>2. FilesTyped
    <2>1. object \in [ObjectKeys -> Contents \cup {NoBytes}]
      BY DEF FilesInit
    <2>2. command \in [Keys -> [content: Contents \cup {NoBytes}, file: Nat]]
      BY DEF FilesInit, NoCommand
    <2>3. /\ file = <<>> /\ scan = <<>> /\ upload = <<>> /\ download = <<>> /\ used = {}
      BY DEF FilesInit
    <2> QED BY <1>1, <2>1, <2>2, <2>3 DEF FilesTyped
  <1>3. NamedByContent
    BY DEF FilesInit, NamedByContent, ObjectKeys
  <1>4. FoundClean
    BY DEF FilesInit, FoundClean
  <1>5. Numbered(log)
    BY <1>1 DEF FilesInit, Numbered
  <1>6. Unbroken(log, view)
    BY DEF FilesInit, Unbroken
  <1> QED BY <1>2, <1>3, <1>4, <1>5, <1>6 DEF FilesInv, LogInv

LEMMA FilesStep == FilesInv /\ [FilesNext]_filesVars => FilesInv'
  <1>1. ASSUME FilesInv, UNCHANGED filesVars PROVE FilesInv'
    BY <1>1 DEF FilesInv, FilesTyped, NamedByContent, FoundClean, Clean, Stored, LogInv, Numbered,
                Unbroken, filesVars, server
  <1>2. ASSUME FilesInv, FilesNext PROVE FilesInv'
    <2>1. ASSUME \/ \E k \in Keys, c \in Contents : Submit(k, c)
                 \/ Resume \/ Learn \/ GiveUp \/ LearnVerdict
                 \/ \E r \in DOMAIN upload : Refuse(r) \/ LoseUpload(r)
          PROVE  ContentsInv'
      BY <1>2, <2>1, FormSteps
    <2>2. ASSUME NEW r \in DOMAIN upload, PutObject(r) \/ StoreFile(r) \/ ReplayUpload(r)
          PROVE  ContentsInv'
      BY <1>2, <2>2, ObjectPut, FileStored, UploadReplayed
    <2>3. ASSUME NEW f \in DOMAIN file, ScanFile(f) \/ FinishScan(f) \/ AbandonScan(f)
          PROVE  ContentsInv'
      BY <1>2, <2>3, ScanSteps
    <2>4. ASSUME NEW f \in DOMAIN file, NEW u \in Accounts, OpenDownload(f, u) \/ UseAsEvidence(f, u)
          PROVE  ContentsInv'
      BY <1>2, <2>4, DownloadOpened, EvidenceTaken
    <2>5. ASSUME NEW d \in DOMAIN download, AuditDownload(d) \/ ReadObject(d)
          PROVE  ContentsInv'
      BY <1>2, <2>5, DownloadSteps
    <2>6. ASSUME NEW u \in Accounts, ViewPage(u) PROVE ContentsInv'
      <3>1. UNCHANGED <<server, upload, download, used>> /\ upload \in Seq(UploadRow)
        BY <1>2, <2>6 DEF ViewPage, FilesInv, FilesTyped
      <3> QED BY <1>2, <3>1, UploadsOnly
    <2>7. ContentsInv'
      BY <1>2, <2>1, <2>2, <2>3, <2>4, <2>5, <2>6 DEF FilesNext
    <2> QED BY <1>2, <2>7, LogStep DEF FilesInv, ContentsInv
  <1> QED BY <1>1, <1>2

LEMMA FilesInvariant == FilesSpec => []FilesInv
  BY InitFiles, FilesStep, PTL DEF FilesSpec

\* Whoever downloads a file, or offers it as evidence, gets or offers bytes the
\* scanner found clean, whatever uploads put into storage in the meantime.
THEOREM OnlyHarmlessIsServed == FilesSpec => []HarmlessOnly
  <1>1. FilesInv => HarmlessOnly
    BY DEF FilesInv, FoundClean, Clean, HarmlessOnly
  <1> QED BY <1>1, FilesInvariant, PTL

\* An administrator who pages through the audit log while it is written misses
\* no row that was there at the first page.
THEOREM PagingHidesNothing == FilesSpec => []NoGaps
  <1>1. FilesInv => NoGaps
    BY NoGapsHold DEF FilesInv
  <1> QED BY <1>1, FilesInvariant, PTL
=============================================================================
