--------------------------- MODULE CommandClient ----------------------------
(***************************************************************************)
(* mutateJson in the web client: a user wants one thing done, and submits  *)
(* the same form again until told it is done. The idempotency key of what  *)
(* is pending lives in sessionStorage: kept while the outcome is unknown,  *)
(* dropped when the server answers "ok" or a definite error.               *)
(***************************************************************************)
EXTENDS CommandExecutor

CONSTANT Form   \* the digest of the form; its text is also the pending id

VARIABLES pending, \* the key in sessionStorage, or NoKey
          seen     \* seen[a]: what fetch made of attempt a

clientVars == <<pending, seen>>
NoKey == "none"

ClientInit == /\ Init
              /\ pending = NoKey
              /\ seen = [a \in Attempts |-> "none"]

Fresh == Keys \ {request[a].key : a \in Attempts}

\* The form can be submitted while no submission is under way and none was
\* answered "ok".
Submit(a, k) ==
  /\ \A b \in Attempts : seen[b] \notin {"waiting", "ok"}
  /\ IF pending = NoKey THEN k \in Fresh ELSE k = pending
  /\ Send(a, [key |-> k, digest |-> Form])
  /\ pending' = k
  /\ seen' = [seen EXCEPT ![a] = "waiting"]

\* The answer to an attempt arrives.
Receive(a) ==
  /\ seen[a] = "waiting"
  /\ answer[a] # Silence
  /\ seen' = [seen EXCEPT ![a] = answer[a].status]
  /\ pending' = IF answer[a] = Unknown THEN pending ELSE NoKey
  /\ UNCHANGED vars

\* fetch throws, or a proxy answers 502 or 504.
Lose(a) ==
  /\ seen[a] = "waiting"
  /\ seen' = [seen EXCEPT ![a] = "unknown"]
  /\ UNCHANGED pending
  /\ UNCHANGED vars

ClientNext ==
  \/ \E a \in Attempts : \/ \E k \in Keys : Submit(a, k)
                         \/ Receive(a)
                         \/ Lose(a)
  \/ ServerNext /\ UNCHANGED clientVars

ClientSpec == ClientInit /\ [][ClientNext]_<<vars, clientVars>>

-----------------------------------------------------------------------------
\* docs/refactor/01-business-baseline.md:301: retrying a command has no second
\* business result. So what a user submits until it is done is done once.
DoneOnce == \A a, b \in applied : a = b
=============================================================================
