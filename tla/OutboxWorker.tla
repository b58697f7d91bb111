---------------------------- MODULE OutboxWorker ----------------------------
(***************************************************************************)
(* The outbox and the worker processes that drain it. A worker claims one  *)
(* message at a time under a lease, processes it, and completes, fails or  *)
(* pauses it; the last three count only while the lease is still its own.  *)
(* Any other error ends the worker's loop and, with it, the process, which *)
(* its container starts again. Each transaction is one step; the calls to  *)
(* the providers, and everything that happens meanwhile, lie between two.  *)
(***************************************************************************)
EXTENDS Naturals

CONSTANTS Workers,     \* worker processes
          Messages,    \* outbox rows there may ever be
          Topic,       \* the topic of each message
          Parent,      \* the message whose dispatch inserts this one, or itself
          MaxAttempts, \* outbox_messages.max_attempts of each
          MaxFaults    \* crashes and fences disabled in one behaviour (a bound)

\* Topics that are processed in the database alone, that are handed to a
\* provider, and that write what the provider answers.
Internal == {"notification.dispatch", "domain.event"}
Provided == {"email.deliver", "sms.deliver"}
Topics   == Internal \cup Provided \cup {"file.scan"}
Fences   == {"outbox.worker", "files.worker"}

NoOne == "nobody"

ASSUME OutboxAssumption == /\ Topic \in [Messages -> Topics]
                           /\ Parent \in [Messages -> Messages]
                           /\ MaxAttempts \in [Messages -> Nat \ {0}]
                           /\ MaxFaults \in Nat
                           /\ NoOne \notin Workers

VARIABLES status,   \* status[m]: of the row, "absent" until it is inserted
          attempts, \* attempts[m]
          lockedBy, \* lockedBy[m]: worker that holds the lease, or NoOne
          stale,    \* messages whose lease has run out (locked_at < now - leaseMs)
          due,      \* messages whose available_at has come
          effects,  \* effects[m]: committed notification rows or scan results of m
          sent,     \* messages a provider has accepted
          pc,       \* pc[w]: where worker w is in its loop
          job,      \* job[w]: what it read of the message it works on
          enabled,  \* writer_fences that are enabled
          faults    \* crashes and disabled fences so far

row  == <<status, attempts, lockedBy, stale, due>>
vars == <<row, effects, sent, pc, job, enabled, faults>>

Statuses == {"absent", "pending", "processing", "completed", "dead"}
Phases   == {"idle", "check", "send", "finish", "fail", "pause", "down"}
Jobs     == [msg: Messages, attempt: Nat \ {0}, permanent: BOOLEAN]
NoJob    == [msg |-> NoOne, attempt |-> 0, permanent |-> FALSE]

TypeOK ==
  /\ status \in [Messages -> Statuses]
  /\ attempts \in [Messages -> Nat]
  /\ lockedBy \in [Messages -> Workers \cup {NoOne}]
  /\ stale \in SUBSET Messages
  /\ due \in SUBSET Messages
  /\ effects \in [Messages -> Nat]
  /\ sent \in SUBSET Messages
  /\ pc \in [Workers -> Phases]
  /\ job \in [Workers -> Jobs \cup {NoJob}]
  /\ enabled \in SUBSET Fences
  /\ faults \in 0 .. MaxFaults

Init ==
  /\ status = [m \in Messages |-> IF Parent[m] = m THEN "pending" ELSE "absent"]
  /\ attempts = [m \in Messages |-> 0]
  /\ lockedBy = [m \in Messages |-> NoOne]
  /\ stale = {} /\ due = Messages
  /\ effects = [m \in Messages |-> 0]
  /\ sent = {}
  /\ pc = [w \in Workers |-> "idle"]
  /\ job = [w \in Workers |-> NoJob]
  /\ enabled = Fences
  /\ faults = 0

Goto(w, phase) == pc' = [pc EXCEPT ![w] = phase]

\* The worker is rid of its message and takes the next one, or its loop ends.
MoveOn(w, phase) == Goto(w, phase) /\ job' = [job EXCEPT ![w] = NoJob]

\* The fence a message is processed under, apart from claiming it.
FenceOf(m) == IF Topic[m] = "file.scan" THEN "files.worker" ELSE "outbox.worker"

\* Mutant: an update of a message does not ask whose lease it is under.
HoldsAny(w, m) == status[m] # "absent"

\* WHERE id = ? AND status = 'processing' AND locked_by = ?
Holds(w, m) == status[m] = "processing" /\ lockedBy[m] = w

-----------------------------------------------------------------------------
(* claim *)

\* Mutant: no lease is ever exhausted.
ExhaustedNever(m) == FALSE

\* The last attempt's lease ran out.
Exhausted(m) == status[m] = "processing" /\ m \in stale /\ attempts[m] >= MaxAttempts[m]

\* Mutant: a message that no one has locked may be claimed, finished or not.
ClaimableUnlocked(m) == /\ attempts[m] < MaxAttempts[m]
                        /\ m \in due
                        /\ status[m] # "absent"
                        /\ lockedBy[m] = NoOne \/ m \in stale

Claimable(m) == /\ attempts[m] < MaxAttempts[m]
                /\ m \in due
                /\ \/ status[m] = "pending"
                   \/ status[m] = "processing" /\ m \in stale

\* What processMessage begins with.
FirstPhase(m) == IF Topic[m] \in Internal THEN "finish" ELSE "check"

\* Message m is claimed, after the exhausted ones are declared dead.
Claim(w, m) ==
  /\ pc[w] = "idle" /\ "outbox.worker" \in enabled
  /\ Claimable(m)
  /\ status' = [n \in Messages |-> IF n = m THEN "processing"
                                   ELSE IF Exhausted(n) THEN "dead" ELSE status[n]]
  /\ lockedBy' = [n \in Messages |-> IF n = m THEN w
                                     ELSE IF Exhausted(n) THEN NoOne ELSE lockedBy[n]]
  /\ stale' = {n \in stale \ {m} : ~Exhausted(n)}
  /\ attempts' = [attempts EXCEPT ![m] = @ + 1]
  /\ job' = [job EXCEPT ![w] = [msg |-> m, attempt |-> attempts[m] + 1, permanent |-> FALSE]]
  /\ Goto(w, FirstPhase(m))
  /\ UNCHANGED <<due, effects, sent, enabled, faults>>

\* There is nothing to claim.
ClaimNothing(w) ==
  /\ pc[w] = "idle" /\ "outbox.worker" \in enabled
  /\ ~\E m \in Messages : Claimable(m)
  /\ status' = [m \in Messages |-> IF Exhausted(m) THEN "dead" ELSE status[m]]
  /\ lockedBy' = [m \in Messages |-> IF Exhausted(m) THEN NoOne ELSE lockedBy[m]]
  /\ stale' = {m \in stale : ~Exhausted(m)}
  /\ UNCHANGED <<attempts, due, effects, sent, pc, job, enabled, faults>>

-----------------------------------------------------------------------------
(* processMessage *)

\* requireFence(pool, ...), before the provider is called.
CheckFence(w) ==
  /\ pc[w] = "check"
  /\ Goto(w, IF FenceOf(job[w].msg) \in enabled THEN "send" ELSE "pause")
  /\ UNCHANGED <<row, effects, sent, job, enabled, faults>>

\* The provider accepts the message, and the worker learns it or times out.
Deliver(w) ==
  /\ pc[w] = "send"
  /\ sent' = sent \cup {job[w].msg}
  /\ \/ Goto(w, "finish")
     \/ Goto(w, "fail")
  /\ UNCHANGED <<row, effects, job, enabled, faults>>

\* What the completion of a message commits with it: its notification rows,
\* the emails they are sent by, the file's scan status, the email's "sent".
Children(m) == {n \in Messages \ {m} : Parent[n] = m /\ status[n] = "absent"}

Completes(m) ==
  /\ status' = [n \in Messages |-> IF n = m THEN "completed"
                                   ELSE IF n \in Children(m) THEN "pending" ELSE status[n]]
  /\ lockedBy' = [lockedBy EXCEPT ![m] = NoOne]
  /\ stale' = stale \ {m}
  /\ effects' = [effects EXCEPT ![m] = @ + 1]

(***************************************************************************)
(* dispatchNotification, dispatchDomainEvent, complete, and the second     *)
(* half of a file scan: one transaction that checks the fence, writes and  *)
(* completes the message, and is rolled back when the lease is lost. If    *)
(* the answer to its COMMIT is lost, the worker takes it to have failed.   *)
(***************************************************************************)
Finish(w) ==
  LET m == job[w].msg
  IN  /\ pc[w] = "finish" /\ FenceOf(m) \in enabled
      /\ IF Holds(w, m)
         THEN /\ Completes(m)
              /\ UNCHANGED <<attempts, due>>
              /\ \/ MoveOn(w, "idle")
                 \/ Goto(w, "fail") /\ UNCHANGED job
         ELSE /\ Goto(w, "fail")
              /\ UNCHANGED <<row, effects, job>>
      /\ UNCHANGED <<sent, enabled, faults>>

\* The same transaction finds its fence disabled.
FinishPaused(w) ==
  /\ pc[w] = "finish" /\ FenceOf(job[w].msg) \notin enabled
  /\ Goto(w, "pause")
  /\ UNCHANGED <<row, effects, sent, job, enabled, faults>>

\* A payload is invalid, a recipient or file is missing, the provider refuses
\* the message, or a statement or a connection fails.
Throw(w, permanent) ==
  /\ pc[w] \in {"check", "send", "finish"}
  /\ job' = [job EXCEPT ![w].permanent = permanent]
  /\ Goto(w, "fail")
  /\ UNCHANGED <<row, effects, sent, enabled, faults>>

-----------------------------------------------------------------------------
(* pause, fail and the end of the loop *)

Released(m, s) ==
  /\ status' = [status EXCEPT ![m] = s]
  /\ lockedBy' = [lockedBy EXCEPT ![m] = NoOne]
  /\ stale' = stale \ {m}

Dead(w) == job[w].permanent \/ job[w].attempt >= MaxAttempts[job[w].msg]

Fail(w) ==
  /\ pc[w] = "fail" /\ Holds(w, job[w].msg)
  /\ Released(job[w].msg, IF Dead(w) THEN "dead" ELSE "pending")
  /\ due' = due \ {job[w].msg}
  /\ MoveOn(w, "idle")
  /\ UNCHANGED <<attempts, effects, sent, enabled, faults>>

\* available_at is a second from now, in the notation and time zone of the
\* database; compared as text it may lie in the past or hours ahead.
Pause(w) ==
  /\ pc[w] = "pause" /\ Holds(w, job[w].msg)
  /\ Released(job[w].msg, "pending")
  /\ attempts' = [attempts EXCEPT ![job[w].msg] = @ - 1]
  /\ due' \in {due, due \ {job[w].msg}}
  /\ MoveOn(w, "idle")
  /\ UNCHANGED <<effects, sent, enabled, faults>>

\* The lease was lost: fail and pause throw, and the loop ends.
LoseLease(w) ==
  /\ pc[w] \in {"fail", "pause"} /\ ~Holds(w, job[w].msg)
  /\ MoveOn(w, "down")
  /\ UNCHANGED <<row, effects, sent, enabled, faults>>

\* The process is stopped or dies, or claim, fail or pause meets an error.
Crash(w) ==
  /\ pc[w] # "down" /\ faults < MaxFaults
  /\ faults' = faults + 1
  /\ MoveOn(w, "down")
  /\ UNCHANGED <<row, effects, sent, enabled>>

Restart(w) ==
  /\ pc[w] = "down"
  /\ Goto(w, "idle")
  /\ UNCHANGED <<row, effects, sent, job, enabled, faults>>

-----------------------------------------------------------------------------
(* Time and the operator *)

\* leaseMs have passed since the message was claimed.
Expire(m) ==
  /\ status[m] = "processing" /\ m \notin stale
  /\ stale' = stale \cup {m}
  /\ UNCHANGED <<status, attempts, lockedBy, due, effects, sent, pc, job, enabled, faults>>

BecomeDue(m) ==
  /\ m \notin due
  /\ due' = due \cup {m}
  /\ UNCHANGED <<status, attempts, lockedBy, stale, effects, sent, pc, job, enabled, faults>>

Disable(f) ==
  /\ f \in enabled /\ faults < MaxFaults
  /\ faults' = faults + 1
  /\ enabled' = enabled \ {f}
  /\ UNCHANGED <<row, effects, sent, pc, job>>

Enable(f) ==
  /\ f \notin enabled
  /\ enabled' = enabled \cup {f}
  /\ UNCHANGED <<row, effects, sent, pc, job, faults>>

Work(w) ==
  \/ \E m \in Messages : Claim(w, m)
  \/ ClaimNothing(w)
  \/ CheckFence(w)
  \/ Deliver(w)
  \/ Finish(w)
  \/ FinishPaused(w)
  \/ \E permanent \in BOOLEAN : Throw(w, permanent)
  \/ Fail(w)
  \/ Pause(w)
  \/ LoseLease(w)
  \/ Restart(w)

Passes == \/ \E m \in Messages : Expire(m) \/ BecomeDue(m)
          \/ \E f \in Fences : Enable(f)

Next == \/ \E w \in Workers : Work(w) \/ Crash(w)
        \/ Passes
        \/ \E f \in Fences : Disable(f)

Spec == Init /\ [][Next]_vars

(***************************************************************************)
(* The loop goes on, a container that stopped is started again, time       *)
(* passes, and a fence that was disabled is enabled again. Nothing makes a *)
(* delivery succeed, a crash or an operator's intervention happen.         *)
(***************************************************************************)
Fairness == /\ \A w \in Workers : WF_vars(Work(w))
            /\ \A m \in Messages : WF_vars(Expire(m)) /\ WF_vars(BecomeDue(m))
            /\ \A f \in Fences : WF_vars(Enable(f))

FairSpec == Spec /\ Fairness

-----------------------------------------------------------------------------
\* What a message writes is committed exactly when the message is completed,
\* and once, however many workers held it at the same time.
EffectOnce == \A m \in Messages : effects[m] = IF status[m] = "completed" THEN 1 ELSE 0

\* A message is completed only after its provider accepted it.
DeliveredFirst ==
  \A m \in Messages : status[m] = "completed" /\ Topic[m] \notin Internal => m \in sent

\* A pending message has an attempt left, so that some claim may take it, and
\* one under way is on an attempt of its own.
AttemptLeft ==
  \A m \in Messages : /\ status[m] = "pending" => attempts[m] < MaxAttempts[m]
                      /\ status[m] = "processing" => attempts[m] \in 1 .. MaxAttempts[m]

\* Completed and dead are final: no late answer of a worker that lost its
\* lease brings a message back.
FinishedForGood ==
  [][\A m \in Messages : status[m] \in {"completed", "dead"} => status'[m] = status[m]]_vars

\* Every message is completed or declared dead in the end, whatever crashes.
Settles ==
  \A m \in Messages : status[m] = "pending" ~> status[m] \in {"completed", "dead"}
=============================================================================
