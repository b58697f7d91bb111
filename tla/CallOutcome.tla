---------------------------- MODULE CallOutcome -----------------------------
(***************************************************************************)
(* What the database client promises whoever calls it to write: "ok" means *)
(* that the writes are in the database, "failed" that they are not and     *)
(* never will be; only after "unknown" may they still appear.              *)
(***************************************************************************)
CONSTANT Writers      \* calls that write

VARIABLES committed,  \* calls whose writes are in the database
          told        \* told[o]: what the caller of o was told, or "none"

Init == committed = {} /\ told = [o \in Writers |-> "none"]

Commit(o) ==
  /\ o \notin committed
  /\ told[o] \in {"none", "unknown"}
  /\ committed' = committed \cup {o}
  /\ UNCHANGED told

Tell(o, reply) ==
  /\ told[o] = "none"
  /\ reply = "ok" => o \in committed
  /\ reply = "failed" => o \notin committed
  /\ told' = [told EXCEPT ![o] = reply]
  /\ UNCHANGED committed

Next == \E o \in Writers : \/ Commit(o)
                           \/ \E reply \in {"ok", "failed", "unknown"} : Tell(o, reply)

Spec == Init /\ [][Next]_<<committed, told>>
=============================================================================
