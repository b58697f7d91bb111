----------------------------- MODULE AtMostOnce -----------------------------
(***************************************************************************)
(* What the command executor promises its callers, whatever fails: a key   *)
(* is bound to at most one request body, which takes effect once; an       *)
(* answer "ok" carries the result of that one execution, to a request of   *)
(* the same body; and an answer "error" means the attempt that got it      *)
(* neither had nor will have an effect.                                    *)
(***************************************************************************)
CONSTANTS Attempts,  \* HTTP requests, retries included
          Keys,      \* command, actor and idempotency key
          Digests    \* canonical digests of the request bodies

VARIABLES request,   \* request[a]: key and digest of attempt a, or NoRequest
          outcome,   \* outcome[k]: what key k is bound to, or Unbound
          answer     \* answer[a]: what the caller of attempt a was told

NoOne == "no one"

Requests  == [key: Keys, digest: Digests]
NoRequest == [key |-> "none", digest |-> "none"]

\* The attempt that executed stands for the result of its execution.
Outcomes == [digest: Digests, by: Attempts]
Unbound  == [digest |-> "none", by |-> NoOne]

Ok(a)   == [status |-> "ok", by |-> a]
Error   == [status |-> "error", by |-> NoOne]
Unknown == [status |-> "unknown", by |-> NoOne]
Silence == [status |-> "none", by |-> NoOne]
Answers == {Ok(a) : a \in Attempts} \cup {Error, Unknown}

Init ==
  /\ request = [a \in Attempts |-> NoRequest]
  /\ outcome = [k \in Keys |-> Unbound]
  /\ answer = [a \in Attempts |-> Silence]

HasEffect(a) == \E k \in Keys : outcome[k].by = a

Ask(a, r) ==
  /\ request[a] = NoRequest
  /\ request' = [request EXCEPT ![a] = r]
  /\ UNCHANGED <<outcome, answer>>

Execute(a) ==
  /\ request[a] # NoRequest
  /\ outcome[request[a].key] = Unbound
  /\ answer[a] # Error
  /\ outcome' = [outcome EXCEPT ![request[a].key] = [digest |-> request[a].digest, by |-> a]]
  /\ UNCHANGED <<request, answer>>

Tell(a, reply) ==
  /\ request[a] # NoRequest
  /\ answer[a] = Silence
  /\ reply = Error => ~HasEffect(a)
  /\ reply.status = "ok" =>
       outcome[request[a].key] = [digest |-> request[a].digest, by |-> reply.by]
  /\ answer' = [answer EXCEPT ![a] = reply]
  /\ UNCHANGED <<request, outcome>>

Next == \E a \in Attempts :
          \/ \E r \in Requests : Ask(a, r)
          \/ Execute(a)
          \/ \E reply \in Answers : Tell(a, reply)

Spec == Init /\ [][Next]_<<request, outcome, answer>>
=============================================================================
