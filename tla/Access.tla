------------------------------- MODULE Access -------------------------------
(***************************************************************************)
(* Who may act: passwords, trusted devices and one-time codes, sessions,   *)
(* the authentication of a request, accounts, delegated roles, and the     *)
(* step-up codes a high-risk decision consumes.                            *)
(*                                                                         *)
(* A command is one transaction, but the request that brings it is         *)
(* authenticated before, by three statements outside any transaction: what *)
(* they read may be stale when the next one, or the command, runs. A       *)
(* request is refused at any point by returning it to "idle". Each user    *)
(* has one device. Sequences stand for tables: an id is a position.        *)
(***************************************************************************)
EXTENDS Integers, Sequences, FiniteSets

CONSTANTS People,        \* users there are or may be
          PrimaryRole,   \* PrimaryRole[u]: users.role
          Seeded,        \* people who have an account from the start
          Known,         \* of these, the ones whose device is trusted
          Codes,         \* role codes that are tried in assignments (a bound)
          Periods,       \* periods assigned roles may have (a bound)
          Requests,      \* HTTP requests in progress at once
          MaxAttempts,   \* MAX_ATTEMPTS
          MaxSessions,   \* bounds of the tables that grow
          MaxChallenges,
          MaxRoles,
          MaxReviews

ASSUME PeopleAssumption == /\ Seeded \subseteq People /\ Known \subseteq Seeded
                           /\ DOMAIN PrimaryRole = People
ASSUME AttemptsAssumption == MaxAttempts \in Nat \ {0}
ASSUME PeriodsAssumption == Periods \subseteq {"ahead", "current", "over"}

VARIABLES account,   \* users.account_status, auth_credentials.failed_attempts
          trusted,   \* users whose device has a trusted_devices row in force
          session,   \* auth_sessions
          challenge, \* auth_challenges
          role,      \* user_roles
          review,    \* user_role_change rows of approval_requests
          request    \* request[q]: how far the request has come

accessVars == <<account, trusted, session, challenge, role, review, request>>

Decisions == {"approved", "rejected"}
Nothing == [review |-> 0, decision |-> "none"]
Idle    == [phase |-> "idle", session |-> 0, roles |-> {}]

AccessTypeOK ==
  /\ account \in [People -> [status: {"none", "active", "locked", "disabled"},
                             failed: 0 .. MaxAttempts]]
  /\ trusted \subseteq People
  /\ session \in Seq([user: People, revoked: BOOLEAN, expired: BOOLEAN])
  /\ challenge \in Seq([purpose: {"login", "high_risk"}, user: People, session: Nat,
       about: [review: Nat, decision: Decisions] \cup {Nothing}, attempts: 0 .. MaxAttempts,
       state: {"sent", "verified", "consumed"}, expired: BOOLEAN])
  /\ role \in Seq([user: People, code: Codes, period: {"ahead", "current", "over"},
       status: {"pending", "active", "revoked", "expired"}])
  /\ review \in Seq([role: Nat, operation: {"assign", "revoke"}, by: People,
       status: {"pending"} \cup Decisions, reviewer: People \cup {"nobody"}])
  /\ request \in [Requests -> [phase: {"idle", "seen", "roled", "uncounted", "granted"},
       session: Nat, roles: SUBSET ({PrimaryRole[u] : u \in People} \cup Codes)]]

AccessInit ==
  /\ account = [u \in People |->
                  [status |-> IF u \in Seeded THEN "active" ELSE "none", failed |-> 0]]
  /\ trusted = Known
  /\ session = <<>> /\ challenge = <<>> /\ role = <<>> /\ review = <<>>
  /\ request = [q \in Requests |-> Idle]

-----------------------------------------------------------------------------
(* Login *)

AfterFailure(u) ==
  IF account[u].failed < MaxAttempts THEN account[u].failed + 1 ELSE MaxAttempts

\* auth.login, wrong password: enough of them lock an active account.
LoginWrong(u) ==
  LET failed == AfterFailure(u)
      a == account[u]
  IN /\ a.status # "none"
     /\ account' = [account EXCEPT ![u] =
          [status |-> IF failed >= MaxAttempts /\ a.status = "active" THEN "locked" ELSE a.status,
           failed |-> failed]]
     /\ UNCHANGED <<trusted, session, challenge, role, review, request>>

\* A right password forgets the failures before it, below the limit only.
Forgiven(u) == IF account[u].failed < MaxAttempts
               THEN [account EXCEPT ![u].failed = 0] ELSE account

OpenSession(u) ==
  /\ Len(session) < MaxSessions
  /\ session' = Append(session, [user |-> u, revoked |-> FALSE, expired |-> FALSE])

SendChallenge(purpose, u, s, about) ==
  /\ Len(challenge) < MaxChallenges
  /\ challenge' = Append(challenge,
       [purpose |-> purpose, user |-> u, session |-> s, about |-> about,
        attempts |-> 0, state |-> "sent", expired |-> FALSE])

\* auth.login, right password: a session at once from a trusted device, else
\* (or when its region is not the device's last one) a one-time code.
LoginRight(u) ==
  /\ account[u].status = "active"
  /\ account' = Forgiven(u)
  /\ \/ u \in trusted /\ OpenSession(u) /\ UNCHANGED challenge
     \/ SendChallenge("login", u, 0, Nothing) /\ UNCHANGED session
  /\ UNCHANGED <<trusted, role, review, request>>

Answerable(c, purpose) ==
  /\ challenge[c].purpose = purpose
  /\ challenge[c].state = "sent"
  /\ ~challenge[c].expired
  /\ challenge[c].attempts < MaxAttempts

\* A wrong code, of either purpose.
FailChallenge(c) == challenge' = [challenge EXCEPT ![c].attempts = @ + 1]

\* auth.verify. The account is not read again.
VerifyLogin(c) ==
  /\ Answerable(c, "login")
  /\ \/ FailChallenge(c) /\ UNCHANGED <<trusted, session>>
     \/ /\ challenge' = [challenge EXCEPT ![c].state = "consumed"]
        /\ trusted' = trusted \cup {challenge[c].user}
        /\ OpenSession(challenge[c].user)
  /\ UNCHANGED <<account, role, review, request>>

\* trusted_until, expires_at of sessions and codes, and the periods of roles
\* pass.
TimePasses ==
  /\ \/ \E u \in trusted : trusted' = trusted \ {u} /\ UNCHANGED <<session, challenge, role>>
     \/ \E s \in DOMAIN session :
          ~session[s].expired /\ session' = [session EXCEPT ![s].expired = TRUE]
          /\ UNCHANGED <<trusted, challenge, role>>
     \/ \E c \in DOMAIN challenge :
          ~challenge[c].expired /\ challenge' = [challenge EXCEPT ![c].expired = TRUE]
          /\ UNCHANGED <<trusted, session, role>>
     \/ \E i \in DOMAIN role :
          /\ role[i].period # "over"
          /\ role' = [role EXCEPT ![i].period = IF @ = "ahead" THEN "current" ELSE "over"]
          /\ UNCHANGED <<trusted, session, challenge>>
  /\ UNCHANGED <<account, review, request>>

-----------------------------------------------------------------------------
(* Authentication of a request *)

UserOf(q) == session[request[q].session].user
Moved(q, phase) == request' = [request EXCEPT ![q].phase = phase]

OnlyRequests == UNCHANGED <<account, trusted, session, challenge, role, review>>

\* loadSessionContext, first statement: session and account together. The
\* expiry of the session is compared with this moment throughout.
FindSession(q, s) ==
  /\ request[q].phase = "idle"
  /\ ~session[s].revoked /\ ~session[s].expired
  /\ account[session[s].user].status = "active"
  /\ request' = [request EXCEPT ![q] = [phase |-> "seen", session |-> s, roles |-> {}]]
  /\ OnlyRequests

Delegated(u) ==
  {role[i].code : i \in {j \in DOMAIN role : /\ role[j].user = u
                                             /\ role[j].status = "active"
                                             /\ role[j].period = "current"}}

\* Second statement: the roles in force.
ReadRoles(q) ==
  /\ request[q].phase = "seen"
  /\ request' = [request EXCEPT ![q].phase = "roled",
                                ![q].roles = {PrimaryRole[UserOf(q)]} \cup Delegated(UserOf(q))]
  /\ OnlyRequests

\* Mutant: the row is found whatever became of the session and the account.
StillLiveUnasked(q) == TRUE

StillLive(q) == /\ ~session[request[q].session].revoked
                /\ account[UserOf(q)].status = "active"

\* Third statement: the conditional UPDATE of last_seen_at, which counts no row
\* either when the millisecond is the one already stored.
Heartbeat(q) ==
  /\ request[q].phase = "roled"
  /\ \/ StillLive(q) /\ Moved(q, "granted")
     \/ Moved(q, "uncounted")
  /\ OnlyRequests

\* Then the fourth statement reads session and account once more.
Revalidate(q) ==
  /\ request[q].phase = "uncounted"
  /\ IF StillLive(q) THEN Moved(q, "granted") ELSE request' = [request EXCEPT ![q] = Idle]
  /\ OnlyRequests

\* The request ends with no effect: a read, or a command that was refused.
EndRequest(q) ==
  /\ request[q].phase # "idle"
  /\ request' = [request EXCEPT ![q] = Idle]
  /\ OnlyRequests

\* The command of a granted request commits.
Commits(q) == /\ request[q].phase = "granted"
              /\ request' = [request EXCEPT ![q] = Idle]

ByAdmin(q) == Commits(q) /\ "admin" \in request[q].roles

\* auth.logout finds its session by the token alone, without authentication.
Logout(s) ==
  /\ ~session[s].revoked
  /\ session' = [session EXCEPT ![s].revoked = TRUE]
  /\ UNCHANGED <<account, trusted, challenge, role, review, request>>

-----------------------------------------------------------------------------
(* Accounts *)

Exists(u) == account[u].status # "none"

Revoked(u) ==
  [s \in DOMAIN session |-> IF session[s].user = u THEN [session[s] EXCEPT !.revoked = TRUE]
                                                   ELSE session[s]]

\* users.create: an account with a primary role other than admin.
CreateAccount(q, u) ==
  /\ ByAdmin(q)
  /\ account[u].status = "none" /\ PrimaryRole[u] # "admin"
  /\ account' = [account EXCEPT ![u].status = "active"]
  /\ UNCHANGED <<trusted, session, challenge, role, review>>

\* users.reset-password: whatever the status, which stays.
ResetPassword(q, u) ==
  /\ ByAdmin(q)
  /\ Exists(u)
  /\ account' = [account EXCEPT ![u].failed = 0]
  /\ session' = Revoked(u)
  /\ UNCHANGED <<trusted, challenge, role, review>>

\* users.disable.
DisableAccount(q, u) ==
  /\ ByAdmin(q)
  /\ account[u].status \in {"active", "locked"}
  /\ account' = [account EXCEPT ![u].status = "disabled"]
  /\ session' = Revoked(u)
  /\ UNCHANGED <<trusted, challenge, role, review>>

\* users.restore: failures stay counted.
RestoreAccount(q, u) ==
  /\ ByAdmin(q)
  /\ account[u].status = "disabled"
  /\ account' = [account EXCEPT ![u].status = "active"]
  /\ UNCHANGED <<trusted, session, challenge, role, review>>

\* users.unlock.
UnlockAccount(q, u) ==
  /\ ByAdmin(q)
  /\ account[u].status = "locked"
  /\ account' = [account EXCEPT ![u] = [status |-> "active", failed |-> 0]]
  /\ session' = Revoked(u)
  /\ UNCHANGED <<trusted, challenge, role, review>>

-----------------------------------------------------------------------------
(* Delegated roles *)

\* Roles of code held, or asked for, by u.
Holding(u, code) == {i \in DOMAIN role : /\ role[i].user = u /\ role[i].code = code
                                         /\ role[i].status \in {"pending", "active"}}

PendingFor(i) == {r \in DOMAIN review : review[r].role = i /\ review[r].status = "pending"}

Asked(i, operation, u) ==
  /\ Len(review) < MaxReviews
  /\ review' = Append(review, [role |-> i, operation |-> operation, by |-> u,
                               status |-> "pending", reviewer |-> "nobody"])

\* users.assign-role.
RequestRole(q, u, code, period) ==
  /\ ByAdmin(q)
  /\ account[u].status \in {"active", "locked"}
  /\ PrimaryRole[u] # code
  /\ Holding(u, code) = {}
  /\ Len(role) < MaxRoles
  /\ role' = Append(role, [user |-> u, code |-> code, period |-> period, status |-> "pending"])
  /\ Asked(Len(role) + 1, "assign", UserOf(q))
  /\ UNCHANGED <<account, trusted, session, challenge>>

\* users.revoke-role.
RequestRevocation(q, i) ==
  /\ ByAdmin(q)
  /\ role[i].status = "active"
  /\ PendingFor(i) = {}
  /\ Asked(i, "revoke", UserOf(q))
  /\ UNCHANGED <<account, trusted, session, challenge, role>>

\* queryUsers: the list of users first expires the roles whose period is over.
ListUsers(q) ==
  /\ ByAdmin(q)
  /\ role' = [i \in DOMAIN role |->
       IF role[i].status = "active" /\ role[i].period = "over"
       THEN [role[i] EXCEPT !.status = "expired"] ELSE role[i]]
  /\ UNCHANGED <<account, trusted, session, challenge, review>>

-----------------------------------------------------------------------------
(* Step-up codes and the decision they allow *)

\* step-up.request: the account is read again, under the transaction.
RequestStepUp(q, r, decision) ==
  /\ Commits(q)
  /\ account[UserOf(q)].status = "active"
  /\ SendChallenge("high_risk", UserOf(q), request[q].session,
                   [review |-> r, decision |-> decision])
  /\ UNCHANGED <<account, trusted, session, role, review>>

\* step-up.verify: in the session that asked.
VerifyStepUp(q, c) ==
  /\ Commits(q)
  /\ Answerable(c, "high_risk")
  /\ challenge[c].session = request[q].session
  /\ \/ FailChallenge(c)
     \/ challenge' = [challenge EXCEPT ![c].state = "verified"]
  /\ UNCHANGED <<account, trusted, session, role, review>>

\* Mutant: the digest of the decision is left out of the claim.
FitsReview(c, q, r, decision) ==
  /\ challenge[c].purpose = "high_risk" /\ challenge[c].state = "verified"
  /\ challenge[c].user = UserOf(q) /\ challenge[c].session = request[q].session
  /\ challenge[c].about.review = r
  /\ ~challenge[c].expired

\* consumeStepUpClaim: the user's, the session's, for this decision of this
\* review, verified, neither consumed nor expired.
Fits(c, q, r, decision) ==
  /\ challenge[c].purpose = "high_risk" /\ challenge[c].state = "verified"
  /\ challenge[c].user = UserOf(q) /\ challenge[c].session = request[q].session
  /\ challenge[c].about = [review |-> r, decision |-> decision]
  /\ ~challenge[c].expired

\* The role must be as it was when the change was asked for.
EffectApplies(r) ==
  role[review[r].role].status = IF review[r].operation = "revoke" THEN "active" ELSE "pending"

\* decideApproval with effect r1.user_role_change.
DecideRole(q, r, c, decision) ==
  /\ ByAdmin(q)
  /\ review[r].by # UserOf(q)
  /\ review[r].status = "pending"
  /\ Fits(c, q, r, decision)
  /\ challenge' = [challenge EXCEPT ![c].state = "consumed"]
  /\ review' = [review EXCEPT ![r].status = decision, ![r].reviewer = UserOf(q)]
  /\ EffectApplies(r)
  /\ role' = [role EXCEPT ![review[r].role].status =
       IF (review[r].operation = "revoke") = (decision = "approved") THEN "revoked" ELSE "active"]
  /\ UNCHANGED <<account, trusted, session>>

-----------------------------------------------------------------------------
AccessNext ==
  \/ TimePasses
  \/ \E u \in People : LoginWrong(u) \/ LoginRight(u)
  \/ \E c \in DOMAIN challenge : VerifyLogin(c)
  \/ \E s \in DOMAIN session : Logout(s) \/ \E q \in Requests : FindSession(q, s)
  \/ \E q \in Requests :
       \/ ReadRoles(q) \/ Heartbeat(q) \/ Revalidate(q)
       \/ EndRequest(q) \/ ListUsers(q)
       \/ \E u \in People :
            \/ CreateAccount(q, u) \/ ResetPassword(q, u) \/ DisableAccount(q, u)
            \/ RestoreAccount(q, u) \/ UnlockAccount(q, u)
            \/ \E code \in Codes, period \in Periods : RequestRole(q, u, code, period)
       \/ \E i \in DOMAIN role : RequestRevocation(q, i)
       \/ \E r \in DOMAIN review, decision \in Decisions :
            \/ RequestStepUp(q, r, decision)
            \/ \E c \in DOMAIN challenge : DecideRole(q, r, c, decision)
       \/ \E c \in DOMAIN challenge : VerifyStepUp(q, c)

AccessSpec == AccessInit /\ [][AccessNext]_accessVars

-----------------------------------------------------------------------------
(* Properties *)

\* A request that gets through is of a session nobody revoked and of an account
\* that is active at that very step, whatever logins, lockouts, disabling,
\* resets and restoring happened since its first statement.
RevokedStaysOut ==
  [][\A q \in Requests :
       request'[q].phase = "granted" /\ request[q].phase # "granted"
       => /\ ~session'[request'[q].session].revoked
          /\ account'[session'[request'[q].session].user].status = "active"]_accessVars

Claims(r) == {c \in DOMAIN challenge : /\ challenge[c].purpose = "high_risk"
                                       /\ challenge[c].state = "consumed"
                                       /\ challenge[c].about.review = r}

\* A decision cost exactly one step-up code, which its reviewer asked for and
\* answered for that decision; a code nobody decided by is never used up.
DecisionClaimed ==
  \A r \in DOMAIN review :
    IF review[r].status = "pending" THEN Claims(r) = {}
    ELSE \E c \in Claims(r) :
           /\ Claims(r) = {c}
           /\ challenge[c].user = review[r].reviewer
           /\ challenge[c].about.decision = review[r].status

\* Nobody holds, or waits for, one role code twice, or the code of the primary
\* role; a role that waits does so for one review, and one in force, or that
\* ran out meanwhile, has at most one revocation pending.
RoleHeldOnce ==
  /\ \A u \in People, code \in Codes :
       Cardinality(Holding(u, code)) =< (IF PrimaryRole[u] = code THEN 0 ELSE 1)
  /\ \A i \in DOMAIN role :
       CASE role[i].status = "pending" ->
              \E r \in PendingFor(i) : PendingFor(i) = {r} /\ review[r].operation = "assign"
         [] role[i].status = "revoked" -> PendingFor(i) = {}
         [] OTHER -> /\ Cardinality(PendingFor(i)) =< 1
                     /\ \A r \in PendingFor(i) : review[r].operation = "revoke"

\* Roles are what was decided: each decision was its reviewer's, made with a
\* code of its own, and no role was decided, or is held, twice.
RolesAsDecided == DecisionClaimed /\ RoleHeldOnce
=============================================================================
