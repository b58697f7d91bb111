-------------------------- MODULE CommandExecutor ---------------------------
(***************************************************************************)
(* executeIdempotentCommand and the database transaction it runs in: the   *)
(* write fence, the idempotency row of a key, the command's body, and a    *)
(* commit whose acknowledgement may be lost. An attempt is one HTTP        *)
(* request; it runs in the API process (pc) and as a transaction in MySQL  *)
(* (tx), and the two may be cut off from each other at any step.           *)
(***************************************************************************)
CONSTANTS Attempts,  \* HTTP requests that may be made, retries included (a bound)
          Keys,      \* command, actor and idempotency key of a request
          Digests    \* canonical digests of request bodies

NoOne == "no one"

Requests  == [key: Keys, digest: Digests]
NoRequest == [key |-> "none", digest |-> "none"]

\* A committed command_idempotency row; the attempt that ran the body stands
\* for the response it stored. Every committed row has status 'completed'.
Entries == [digest: Digests, by: Attempts]
NoEntry == [digest |-> "none", by |-> NoOne]

Ok(a)   == [status |-> "ok", by |-> a]
Error   == [status |-> "error", by |-> NoOne]
Unknown == [status |-> "unknown", by |-> NoOne]
Silence == [status |-> "none", by |-> NoOne]
Answers == {Ok(a) : a \in Attempts} \cup {Error, Unknown}

ASSUME DistinctAssumption == /\ NoOne \notin Attempts
                             /\ "none" \notin Keys \cup Digests

VARIABLES request, \* request[a]: key and digest of the request, or NoRequest
          pc,      \* pc[a]: what the API is at, for attempt a
          tx,      \* tx[a]: the state of its transaction in MySQL
          shares,  \* attempts whose transaction holds the fence row FOR SHARE
          inserts, \* attempts whose transaction inserted the row of their key
          entry,   \* entry[k]: the committed idempotency row of k, or NoEntry
          applied, \* attempts whose body's writes are committed
          enabled, \* writer_fences.enabled, for the expected owner and generation
          answer   \* answer[a]: what the caller was told

dbVars == <<tx, shares, inserts, entry, applied>>
vars == <<request, pc, dbVars, enabled, answer>>

Phases   == {"idle", "begin", "fence", "insert", "run", "commit", "replay", "rollback", "done"}
TxStates == {"none", "open", "committing", "committed", "aborted"}

TypeOK ==
  /\ request \in [Attempts -> Requests \cup {NoRequest}]
  /\ pc \in [Attempts -> Phases]
  /\ tx \in [Attempts -> TxStates]
  /\ shares \in SUBSET Attempts
  /\ inserts \in SUBSET Attempts
  /\ entry \in [Keys -> Entries \cup {NoEntry}]
  /\ applied \in SUBSET Attempts
  /\ enabled \in BOOLEAN
  /\ answer \in [Attempts -> Answers \cup {Silence}]

Init ==
  /\ request = [a \in Attempts |-> NoRequest]
  /\ pc = [a \in Attempts |-> "idle"]
  /\ tx = [a \in Attempts |-> "none"]
  /\ shares = {} /\ inserts = {}
  /\ entry = [k \in Keys |-> NoEntry]
  /\ applied = {}
  /\ enabled = TRUE
  /\ answer = [a \in Attempts |-> Silence]

Key(a)    == request[a].key
Digest(a) == request[a].digest

Goto(a, phase) == pc' = [pc EXCEPT ![a] = phase]

Tell(a, reply) == /\ answer' = [answer EXCEPT ![a] = reply]
                  /\ Goto(a, "done")

\* The transactions that still hold their locks.
Live == {a \in Attempts : tx[a] \in {"open", "committing"}}

-----------------------------------------------------------------------------
(* The API process *)

\* A request arrives.
Send(a, r) ==
  /\ pc[a] = "idle"
  /\ request' = [request EXCEPT ![a] = r]
  /\ Goto(a, "begin")
  /\ UNCHANGED <<dbVars, enabled, answer>>

\* Refused before there is a transaction: origin, CSRF, session, digest
\* header, or no connection from the pool in time.
Refuse(a) ==
  /\ pc[a] = "begin"
  /\ Tell(a, Error)
  /\ UNCHANGED <<request, dbVars, enabled>>

Begin(a) ==
  /\ pc[a] = "begin"
  /\ tx' = [tx EXCEPT ![a] = "open"]
  /\ Goto(a, "fence")
  /\ UNCHANGED <<request, shares, inserts, entry, applied, enabled, answer>>

\* Mutant: the fence is read without a lock.
SharesNothing(a) == UNCHANGED shares

LockFence(a) == shares' = shares \cup {a}

\* requireWriterFence: SELECT ... FOR SHARE.
CheckFence(a) ==
  /\ pc[a] = "fence" /\ tx[a] = "open"
  /\ LockFence(a)
  /\ Goto(a, IF enabled THEN "insert" ELSE "rollback")
  /\ UNCHANGED <<request, tx, inserts, entry, applied, enabled, answer>>

\* Mutant: the key has no unique index, so nobody waits for anybody.
NoRival(a) == TRUE

\* Nobody else's transaction holds the row of the key.
Unrivalled(a) == \A b \in inserts \cap Live : Key(b) = Key(a) => b = a

\* INSERT IGNORE and SELECT ... FOR UPDATE of the key's row.
InsertKey(a) ==
  /\ pc[a] = "insert" /\ tx[a] = "open"
  /\ Unrivalled(a)
  /\ LET e == entry[Key(a)]
     IN  IF e = NoEntry
         THEN inserts' = inserts \cup {a} /\ Goto(a, "run")
         ELSE /\ UNCHANGED inserts
              /\ Goto(a, IF e.digest = Digest(a) THEN "replay" ELSE "rollback")
  /\ UNCHANGED <<request, tx, shares, entry, applied, enabled, answer>>

\* The body returns, the row is completed and COMMIT is sent.
RunBody(a) ==
  /\ pc[a] = "run" /\ tx[a] = "open"
  /\ tx' = [tx EXCEPT ![a] = "committing"]
  /\ Goto(a, "commit")
  /\ UNCHANGED <<request, shares, inserts, entry, applied, enabled, answer>>

\* The body throws.
FailBody(a) ==
  /\ pc[a] = "run" /\ tx[a] = "open"
  /\ Goto(a, "rollback")
  /\ UNCHANGED <<request, dbVars, enabled, answer>>

\* The stored response is returned; the transaction has nothing to commit.
Replay(a) ==
  /\ pc[a] = "replay" /\ tx[a] = "open"
  /\ tx' = [tx EXCEPT ![a] = "committing"]
  /\ Goto(a, "commit")
  /\ UNCHANGED <<request, shares, inserts, entry, applied, enabled, answer>>

\* The acknowledgement of the COMMIT arrives.
Acknowledge(a) ==
  /\ pc[a] = "commit" /\ tx[a] = "committed"
  /\ Tell(a, Ok(entry[Key(a)].by))
  /\ UNCHANGED <<request, dbVars, enabled>>

\* ROLLBACK is acknowledged and the error that led to it is answered.
Rollback(a) ==
  /\ pc[a] = "rollback" /\ tx[a] = "open"
  /\ tx' = [tx EXCEPT ![a] = "aborted"]
  /\ Tell(a, Error)
  /\ UNCHANGED <<request, shares, inserts, entry, applied, enabled>>

\* What the caller is told when its connection is destroyed.
CancelledAnswer(a) == Unknown

(***************************************************************************)
(* The transaction's time is up, an operation times out, BEGIN, COMMIT or  *)
(* ROLLBACK fails, or the process dies: the connection is destroyed and    *)
(* the caller does not learn what became of the transaction.               *)
(***************************************************************************)
Cancel(a) ==
  /\ pc[a] \in {"begin", "fence", "insert", "run", "commit", "replay", "rollback"}
  /\ Tell(a, CancelledAnswer(a))
  /\ UNCHANGED <<request, dbVars, enabled>>

-----------------------------------------------------------------------------
(* MySQL *)

DbCommit(a) ==
  /\ tx[a] = "committing"
  /\ tx' = [tx EXCEPT ![a] = "committed"]
  /\ IF a \in inserts
     THEN /\ entry' = [entry EXCEPT ![Key(a)] = [digest |-> Digest(a), by |-> a]]
          /\ applied' = applied \cup {a}
     ELSE UNCHANGED <<entry, applied>>
  /\ UNCHANGED <<request, pc, shares, inserts, enabled, answer>>

(***************************************************************************)
(* MySQL rolls a transaction back: its connection is gone, before or while *)
(* the COMMIT is received, or it is the victim of a deadlock.              *)
(***************************************************************************)
DbAbort(a) ==
  /\ a \in Live
  /\ tx' = [tx EXCEPT ![a] = "aborted"]
  /\ UNCHANGED <<request, pc, shares, inserts, entry, applied, enabled, answer>>

\* A statement fails, on a transaction still open or one rolled back; the
\* executor goes on to ROLLBACK, which succeeds when nothing is open either.
FailStatement(a) ==
  /\ pc[a] \in {"fence", "insert", "run", "replay"}
  /\ Goto(a, "rollback")
  /\ UNCHANGED <<request, dbVars, enabled, answer>>

RollbackNothing(a) ==
  /\ pc[a] = "rollback" /\ tx[a] = "aborted"
  /\ Tell(a, Error)
  /\ UNCHANGED <<request, dbVars, enabled>>

\* An operator updates writer_fences; the UPDATE waits for the shared locks.
SetFence ==
  /\ shares \cap Live = {}
  /\ enabled' = ~enabled
  /\ UNCHANGED <<request, pc, dbVars, answer>>

ServerNext ==
  \/ \E a \in Attempts :
       \/ Refuse(a)
       \/ Begin(a)
       \/ CheckFence(a)
       \/ InsertKey(a)
       \/ RunBody(a)
       \/ FailBody(a)
       \/ Replay(a)
       \/ Acknowledge(a)
       \/ Rollback(a)
       \/ Cancel(a)
       \/ DbCommit(a)
       \/ DbAbort(a)
       \/ FailStatement(a)
       \/ RollbackNothing(a)
  \/ SetFence

Next == (\E a \in Attempts, r \in Requests : Send(a, r)) \/ ServerNext

Spec == Init /\ [][Next]_vars

-----------------------------------------------------------------------------
\* A key has one effect whatever is retried, concurrently or after a crash;
\* a replay answers what that effect answered; an error is true.
Promise == INSTANCE AtMostOnce WITH outcome <- entry

KeepsPromise == Promise!Spec

\* No command commits once its fence is disabled, even one that passed the
\* fence before: disabling it waits for every command under way.
CommitsBehindFence == [][applied' # applied => enabled]_vars
=============================================================================
