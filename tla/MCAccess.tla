----------------------------- MODULE MCAccess -------------------------------
EXTENDS Access, TLC

\* Two administrators, a member of staff, and one who has no account yet.
MCPrimaryRole ==
  [ann |-> "admin", bob |-> "admin", cal |-> "supply_chain", dan |-> "finance"]

CONSTANTS q1, q2
RequestSymmetry == Permutations({q1, q2})

-----------------------------------------------------------------------------
\* Lockout, disabling and restoring while two requests are on their way.
AccountScene ==
  /\ role = <<>>
  /\ Len(challenge) =< 1
  /\ \A s \in DOMAIN session : session[s].user \in {"ann", "cal"} /\ ~session[s].expired
  /\ \A u \in {"ann", "bob"} : account[u] = [status |-> "active", failed |-> 0]
  /\ \A c \in DOMAIN challenge : challenge[c].user = "cal" /\ ~challenge[c].expired

\* Roles asked for, decided, run out and revoked, one request at a time.
RoleScene ==
  /\ request[q2] = Idle
  /\ trusted = Known
  /\ \A u \in Seeded : account[u] = [status |-> "active", failed |-> 0]
  /\ \A s \in DOMAIN session :
       session[s] = [user |-> <<"ann", "bob">>[s], revoked |-> FALSE, expired |-> FALSE]
  /\ \A c \in DOMAIN challenge :
       challenge[c].purpose = "high_risk" /\ challenge[c].attempts = 0
  /\ \A i \in DOMAIN role : role[i].user = "cal"
  /\ \A r \in DOMAIN review : review[r].by = "ann"

AccessScenes == AccountScene \/ RoleScene
=============================================================================
