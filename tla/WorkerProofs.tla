---------------------------- MODULE WorkerProofs ----------------------------
(***************************************************************************)
(* What the worker's leases guarantee, for any workers, messages, attempts *)
(* and faults. Several workers may work on one message at a time; the      *)
(* inductive invariant says what a worker knows of the message it works    *)
(* on: on which attempt, if the lease is still its own, and that a message *)
(* for a provider was accepted before its completion is tried.             *)
(***************************************************************************)
EXTENDS OutboxWorker, TLAPS

Working == {"check", "send", "finish", "fail", "pause"}

\* A worker that works on a message has read it.
JobRead == \A w \in Workers : pc[w] \in Working => job[w] \in Jobs

\* If the lease is still its own, nobody counted another attempt meanwhile.
JobCurrent ==
  \A w \in Workers :
    pc[w] \in Working /\ Holds(w, job[w].msg) => attempts[job[w].msg] = job[w].attempt

\* The completion of a message for a provider is tried after it was accepted.
SentFirst ==
  \A w \in Workers :
    pc[w] = "finish" /\ Topic[job[w].msg] \notin Internal => job[w].msg \in sent

\* A row that is not inserted yet has no history.
AbsentFresh == \A m \in Messages : status[m] = "absent" => attempts[m] = 0

WorkerInv == /\ TypeOK /\ JobRead /\ JobCurrent /\ SentFirst /\ AbsentFresh
             /\ EffectOnce /\ DeliveredFirst /\ AttemptLeft

-----------------------------------------------------------------------------
\* Nothing of this is lost by the first state.
LEMMA InitWorker == Init => WorkerInv
  BY OutboxAssumption
  DEF Init, WorkerInv, TypeOK, JobRead, JobCurrent, SentFirst, AbsentFresh, EffectOnce,
      DeliveredFirst, AttemptLeft, Working, Statuses, Phases, NoJob, Fences, Holds

\* A claim: the message's row and the worker's job are of one attempt; rows
\* that are exhausted leave their lease.
LEMMA ClaimRow ==
  ASSUME WorkerInv, NEW w \in Workers, NEW m \in Messages, Claim(w, m)
  PROVE  WorkerInv'
<1> USE OutboxAssumption DEF row
<1>1. job[w]' = [msg |-> m, attempt |-> attempts[m] + 1, permanent |-> FALSE]
      /\ pc[w]' = FirstPhase(m) /\ attempts[m]' = attempts[m] + 1
      /\ status[m]' = "processing" /\ lockedBy[m]' = w
  BY DEF Claim, Goto, WorkerInv, TypeOK
<1>2. \A v \in Workers \ {w} : job[v]' = job[v] /\ pc[v]' = pc[v]
  BY DEF Claim, Goto, WorkerInv, TypeOK
<1>3. \A n \in Messages \ {m} :
         /\ attempts[n]' = attempts[n]
         /\ \/ status[n]' = status[n] /\ lockedBy[n]' = lockedBy[n]
            \/ status[n] = "processing" /\ status[n]' = "dead" /\ lockedBy[n]' = NoOne
  BY DEF Claim, Goto, WorkerInv, TypeOK, Exhausted
<1>4. FirstPhase(m) \in {"finish", "check"} /\ (FirstPhase(m) = "finish" => Topic[m] \in Internal)
  BY DEF FirstPhase
<1>5. status[m] \in {"pending", "processing"} /\ attempts[m] < MaxAttempts[m]
  BY DEF Claim, Claimable
<1>6. TypeOK'
  <2>1. job' \in [Workers -> Jobs \cup {NoJob}]
    BY DEF Claim, WorkerInv, TypeOK, Jobs
  <2>2. status' \in [Messages -> Statuses] /\ lockedBy' \in [Messages -> Workers \cup {NoOne}]
    BY DEF Claim, WorkerInv, TypeOK, Statuses
  <2>3. pc' \in [Workers -> Phases] /\ attempts' \in [Messages -> Nat] /\ stale' \in SUBSET Messages
    BY <1>4 DEF Claim, Goto, WorkerInv, TypeOK, Phases
  <2> QED BY <2>1, <2>2, <2>3 DEF Claim, WorkerInv, TypeOK
<1>7. JobRead'
  <2>1. job[w]' \in Jobs BY <1>1 DEF Jobs, WorkerInv, TypeOK
  <2>2. \A v \in Workers \ {w} : pc[v]' \in Working => job[v]' \in Jobs
    BY <1>2 DEF JobRead, WorkerInv
  <2> QED BY <2>1, <2>2 DEF JobRead
<1>8. JobCurrent'
  <2> SUFFICES ASSUME NEW v \in Workers, (pc[v] \in Working)', Holds(v, job[v].msg)'
               PROVE  (attempts[job[v].msg] = job[v].attempt)'
    BY DEF JobCurrent
  <2>1. CASE v = w BY <2>1, <1>1
  <2>2. CASE v # w
    <3>1. job[v] \in Jobs /\ job[v]' = job[v] BY <2>2, <1>2 DEF WorkerInv, JobRead
    <3>2. job[v].msg # m BY <3>1, <2>2, <1>1 DEF Holds
    <3>3. job[v].msg \in Messages BY <3>1 DEF Jobs
    <3> QED BY <3>1, <3>2, <3>3, <2>2, <1>2, <1>3 DEF WorkerInv, JobCurrent, Holds
  <2> QED BY <2>1, <2>2
<1>9. SentFirst'
  <2> SUFFICES ASSUME NEW v \in Workers, pc[v]' = "finish", Topic[job[v].msg]' \notin Internal
               PROVE  job[v].msg' \in sent'
    BY DEF SentFirst
  <2>1. sent' = sent BY DEF Claim
  <2> QED BY <2>1, <1>1, <1>2, <1>4 DEF WorkerInv, SentFirst
<1>10. AbsentFresh' BY <1>1, <1>3 DEF WorkerInv, AbsentFresh
<1>11. EffectOnce'
  <2>1. effects' = effects BY DEF Claim
  <2> QED BY <2>1, <1>1, <1>3, <1>5 DEF WorkerInv, EffectOnce
<1>12. DeliveredFirst'
  <2>1. sent' = sent BY DEF Claim
  <2> QED BY <2>1, <1>1, <1>3 DEF WorkerInv, DeliveredFirst
<1>13. AttemptLeft'
  BY <1>1, <1>3, <1>5 DEF WorkerInv, AttemptLeft, TypeOK
<1> QED BY <1>6, <1>7, <1>8, <1>9, <1>10, <1>11, <1>12, <1>13 DEF WorkerInv

\* Nothing to claim: exhausted rows leave their lease.
LEMMA ClaimNothingRow ==
  ASSUME WorkerInv, NEW w \in Workers, ClaimNothing(w)
  PROVE  WorkerInv'
<1> USE OutboxAssumption
<1>1. UNCHANGED <<attempts, due, effects, sent, pc, job, enabled, faults>>
  BY DEF ClaimNothing
<1>2. \A n \in Messages :
         \/ status[n]' = status[n] /\ lockedBy[n]' = lockedBy[n]
         \/ status[n] = "processing" /\ status[n]' = "dead" /\ lockedBy[n]' = NoOne
  BY DEF ClaimNothing, WorkerInv, TypeOK, Exhausted
<1>3. TypeOK'
  BY <1>1 DEF ClaimNothing, WorkerInv, TypeOK, Statuses
<1>4. JobCurrent'
  <2> SUFFICES ASSUME NEW v \in Workers, (pc[v] \in Working)', Holds(v, job[v].msg)'
               PROVE  (attempts[job[v].msg] = job[v].attempt)'
    BY DEF JobCurrent
  <2>1. job[v].msg \in Messages BY <1>1 DEF WorkerInv, JobRead, Jobs
  <2> QED BY <1>1, <1>2, <2>1 DEF WorkerInv, JobCurrent, Holds
<1>5. JobRead' /\ SentFirst' BY <1>1 DEF WorkerInv, JobRead, SentFirst
<1>6. AbsentFresh' /\ EffectOnce' /\ DeliveredFirst' /\ AttemptLeft'
  BY <1>1, <1>2 DEF WorkerInv, AbsentFresh, EffectOnce, DeliveredFirst, AttemptLeft
<1> QED BY <1>3, <1>4, <1>5, <1>6 DEF WorkerInv

\* A step of a worker that leaves the rows alone, and hands its message on or
\* gets rid of it.
LEMMA QuietStep ==
  ASSUME WorkerInv, NEW w \in Workers,
         UNCHANGED <<row, effects, enabled>>,
         faults' \in 0 .. MaxFaults,
         sent' \in SUBSET Messages, sent \subseteq sent',
         NEW phase \in Phases, Goto(w, phase),
         \/ phase \in {"idle", "down"} /\ job' = [job EXCEPT ![w] = NoJob]
         \/ phase \in {"idle", "down"} /\ UNCHANGED job
         \/ /\ pc[w] \in Working
            /\ \E permanent \in BOOLEAN :
                 job' = job \/ job' = [job EXCEPT ![w].permanent = permanent],
         phase = "finish" => job[w].msg \in sent'
  PROVE  WorkerInv'
<1> USE OutboxAssumption DEF row
<1>1. pc[w]' = phase /\ \A v \in Workers \ {w} : pc[v]' = pc[v] /\ job[v]' = job[v]
  BY DEF Goto, WorkerInv, TypeOK
<1>2. pc[w]' \in Working =>
        /\ job[w] \in Jobs /\ job[w]' \in Jobs
        /\ job[w].msg' = job[w].msg /\ job[w].attempt' = job[w].attempt
  BY <1>1 DEF Goto, WorkerInv, TypeOK, JobRead, Jobs, Working
<1>3. TypeOK'
  <2>1. job' \in [Workers -> Jobs \cup {NoJob}]
    BY DEF WorkerInv, TypeOK, JobRead, Jobs
  <2>2. pc' \in [Workers -> Phases] BY DEF Goto, WorkerInv, TypeOK
  <2> QED BY <2>1, <2>2 DEF WorkerInv, TypeOK
<1>4. JobRead' BY <1>1, <1>2 DEF WorkerInv, JobRead
<1>5. JobCurrent'
  <2> SUFFICES ASSUME NEW v \in Workers, (pc[v] \in Working)', Holds(v, job[v].msg)'
               PROVE  (attempts[job[v].msg] = job[v].attempt)'
    BY DEF JobCurrent
  <2>1. CASE v # w BY <2>1, <1>1 DEF WorkerInv, JobCurrent, Holds
  <2>2. CASE v = w
    <3>1. pc[w] \in Working BY <2>2, <1>1 DEF Working
    <3> QED BY <2>2, <3>1, <1>2 DEF WorkerInv, JobCurrent, Holds
  <2> QED BY <2>1, <2>2
<1>6. SentFirst'
  <2> SUFFICES ASSUME NEW v \in Workers, pc[v]' = "finish", Topic[job[v].msg]' \notin Internal
               PROVE  job[v].msg' \in sent'
    BY DEF SentFirst
  <2>1. CASE v # w BY <2>1, <1>1 DEF WorkerInv, SentFirst
  <2>2. CASE v = w BY <2>2, <1>1, <1>2 DEF Working
  <2> QED BY <2>1, <2>2
<1>7. AbsentFresh' /\ EffectOnce' /\ DeliveredFirst' /\ AttemptLeft'
  BY DEF WorkerInv, AbsentFresh, EffectOnce, DeliveredFirst, AttemptLeft
<1> QED BY <1>3, <1>4, <1>5, <1>6, <1>7 DEF WorkerInv

\* A completion: the message is done, its children are inserted, and whoever
\* else works on it no longer holds it.
LEMMA FinishRow ==
  ASSUME WorkerInv, NEW w \in Workers, pc[w] = "finish",
         NEW m \in Messages, job[w].msg = m, Holds(w, m), Completes(m),
         MoveOn(w, "idle") \/ (Goto(w, "fail") /\ UNCHANGED job),
         UNCHANGED <<attempts, due, sent, enabled, faults>>
  PROVE  WorkerInv'
<1> USE OutboxAssumption
<1>2. /\ status[m] = "processing" /\ status[m]' = "completed"
      /\ lockedBy[m]' = NoOne /\ effects[m]' = effects[m] + 1
  BY DEF Completes, Holds, WorkerInv, TypeOK
<1>3. \A n \in Messages \ {m} :
         /\ effects[n]' = effects[n] /\ lockedBy[n]' = lockedBy[n]
         /\ \/ status[n]' = status[n]
            \/ status[n] = "absent" /\ status[n]' = "pending"
  BY DEF Completes, Children, WorkerInv, TypeOK
<1>4. pc[w]' \in {"idle", "fail"} /\ (pc[w]' = "fail" => job' = job)
  BY DEF MoveOn, Goto, WorkerInv, TypeOK
<1>5. \A v \in Workers \ {w} : pc[v]' = pc[v] /\ job[v]' = job[v]
  BY DEF MoveOn, Goto, WorkerInv, TypeOK
<1>6. TypeOK'
  <2>1. pc' \in [Workers -> Phases] /\ job' \in [Workers -> Jobs \cup {NoJob}]
    BY DEF MoveOn, Goto, WorkerInv, TypeOK, Phases
  <2>2. /\ status' \in [Messages -> Statuses] /\ stale' \in SUBSET Messages
        /\ lockedBy' \in [Messages -> Workers \cup {NoOne}]
        /\ effects' \in [Messages -> Nat]
    BY DEF Completes, WorkerInv, TypeOK, Statuses
  <2> QED BY <2>1, <2>2 DEF WorkerInv, TypeOK
<1>7. JobRead'
  BY <1>4, <1>5 DEF WorkerInv, JobRead, Working
<1>8. JobCurrent'
  <2> SUFFICES ASSUME NEW v \in Workers, (pc[v] \in Working)', Holds(v, job[v].msg)'
               PROVE  (attempts[job[v].msg] = job[v].attempt)'
    BY DEF JobCurrent
  <2>1. CASE v = w BY <2>1, <1>2, <1>4 DEF Holds, Working
  <2>2. CASE v # w
    <3>1. job[v].msg \in Messages /\ job[v]' = job[v] /\ pc[v]' = pc[v]
      BY <2>2, <1>5 DEF WorkerInv, JobRead, Jobs
    <3>2. Holds(v, job[v].msg)
      BY <3>1, <1>2, <1>3 DEF Holds
    <3> QED BY <3>1, <3>2 DEF WorkerInv, JobCurrent
  <2> QED BY <2>1, <2>2
<1>9. SentFirst' BY <1>4, <1>5 DEF WorkerInv, SentFirst
<1>10. AbsentFresh' BY <1>2, <1>3 DEF WorkerInv, AbsentFresh
<1>11. EffectOnce' BY <1>2, <1>3 DEF WorkerInv, EffectOnce
<1>12. DeliveredFirst' BY <1>2, <1>3 DEF WorkerInv, DeliveredFirst, SentFirst
<1>13. AttemptLeft'
  <2> SUFFICES ASSUME NEW n \in Messages
               PROVE  /\ status[n]' = "pending" => attempts[n] < MaxAttempts[n]
                      /\ status[n]' = "processing" => attempts[n] \in 1 .. MaxAttempts[n]
    BY DEF AttemptLeft
  <2>1. CASE status[n]' = status[n] BY <2>1 DEF WorkerInv, AttemptLeft
  <2>2. CASE status[n] = "absent" /\ status[n]' = "pending"
    BY <2>2 DEF WorkerInv, AbsentFresh
  <2>3. CASE n = m BY <2>3, <1>2
  <2> QED BY <2>1, <2>2, <2>3, <1>3
<1> QED BY <1>6, <1>7, <1>8, <1>9, <1>10, <1>11, <1>12, <1>13 DEF WorkerInv

\* A failure or a pause: the message leaves its lease, with an attempt left
\* if it is to be claimed again.
LEMMA ReleaseRow ==
  ASSUME WorkerInv, NEW w \in Workers, NEW m \in Messages, Holds(w, m),
         NEW s \in {"pending", "dead"}, Released(m, s), MoveOn(w, "idle"),
         \/ UNCHANGED attempts
         \/ attempts' = [attempts EXCEPT ![m] = @ - 1],
         s = "pending" => attempts[m]' < MaxAttempts[m],
         due' \in SUBSET Messages,
         UNCHANGED <<effects, sent, enabled, faults>>
  PROVE  WorkerInv'
<1> USE OutboxAssumption
<1>2. /\ status[m] = "processing" /\ status[m]' = s /\ lockedBy[m]' = NoOne
      /\ attempts[m] \in 1 .. MaxAttempts[m]
  BY DEF Released, Holds, WorkerInv, TypeOK, AttemptLeft
<1>3. \A n \in Messages \ {m} :
         status[n]' = status[n] /\ lockedBy[n]' = lockedBy[n] /\ attempts[n]' = attempts[n]
  BY DEF Released, WorkerInv, TypeOK
<1>4. pc[w]' = "idle" /\ \A v \in Workers \ {w} : pc[v]' = pc[v] /\ job[v]' = job[v]
  BY DEF MoveOn, Goto, WorkerInv, TypeOK
<1>5. TypeOK'
  <2>1. pc' \in [Workers -> Phases] /\ job' \in [Workers -> Jobs \cup {NoJob}]
    BY DEF MoveOn, Goto, WorkerInv, TypeOK, Phases
  <2>2. /\ status' \in [Messages -> Statuses] /\ stale' \in SUBSET Messages
        /\ lockedBy' \in [Messages -> Workers \cup {NoOne}]
    BY DEF Released, WorkerInv, TypeOK, Statuses
  <2>3. attempts' \in [Messages -> Nat]
    BY <1>2 DEF WorkerInv, TypeOK
  <2> QED BY <2>1, <2>2, <2>3 DEF WorkerInv, TypeOK
<1>6. JobRead' BY <1>4 DEF WorkerInv, JobRead, Working
<1>7. JobCurrent'
  <2> SUFFICES ASSUME NEW v \in Workers, (pc[v] \in Working)', Holds(v, job[v].msg)'
               PROVE  (attempts[job[v].msg] = job[v].attempt)'
    BY DEF JobCurrent
  <2>1. v # w BY <1>4 DEF Working
  <2>2. job[v].msg \in Messages \ {m} /\ job[v]' = job[v] /\ pc[v]' = pc[v]
    BY <2>1, <1>2, <1>4 DEF WorkerInv, JobRead, Jobs, Holds
  <2> QED BY <2>2, <1>3 DEF WorkerInv, JobCurrent, Holds
<1>8. SentFirst' BY <1>4 DEF WorkerInv, SentFirst
<1>9. AbsentFresh' BY <1>2, <1>3 DEF WorkerInv, AbsentFresh
<1>10. EffectOnce' /\ DeliveredFirst'
  BY <1>2, <1>3 DEF WorkerInv, EffectOnce, DeliveredFirst
<1>11. AttemptLeft' BY <1>2, <1>3 DEF WorkerInv, AttemptLeft
<1> QED BY <1>5, <1>6, <1>7, <1>8, <1>9, <1>10, <1>11 DEF WorkerInv

-----------------------------------------------------------------------------
\* Every step of a worker keeps the invariant.
LEMMA WorkStep ==
  ASSUME WorkerInv, NEW w \in Workers, Work(w) \/ Crash(w)
  PROVE  WorkerInv'
<1> USE OutboxAssumption
<1>t. TypeOK /\ pc[w] \in Phases /\ job[w] \in Jobs \cup {NoJob}
  BY DEF WorkerInv, TypeOK
<1>r. pc[w] \in Working => job[w].msg \in Messages
  BY DEF WorkerInv, JobRead, Jobs
<1>1. CASE \E m \in Messages : Claim(w, m) BY <1>1, ClaimRow
<1>2. CASE ClaimNothing(w) BY <1>2, ClaimNothingRow
<1>3. CASE CheckFence(w)
  <2>1. PICK phase \in {"send", "pause"} : Goto(w, phase) BY <1>3 DEF CheckFence
  <2> QED BY <1>3, <1>t, <2>1, QuietStep DEF CheckFence, TypeOK, Phases, Working
<1>4. CASE Deliver(w)
  <2>1. PICK phase \in {"finish", "fail"} : Goto(w, phase) BY <1>4 DEF Deliver
  <2>2. pc[w] \in Working BY <1>4 DEF Deliver, Working
  <2> QED BY <1>4, <1>t, <1>r, <2>1, <2>2, QuietStep DEF Deliver, TypeOK, Phases
<1>5. CASE Finish(w)
  <2>1. CASE Holds(w, job[w].msg)
    <3>1. PICK m \in Messages : m = job[w].msg BY <1>5, <1>r DEF Finish, Working
    <3> QED BY <1>5, <2>1, <3>1, FinishRow DEF Finish
  <2>2. CASE ~Holds(w, job[w].msg)
    BY <1>5, <1>t, <2>2, QuietStep DEF Finish, TypeOK, Phases, Working
  <2> QED BY <2>1, <2>2
<1>6. CASE FinishPaused(w)
  BY <1>6, <1>t, QuietStep DEF FinishPaused, TypeOK, Phases, Working
<1>7. CASE \E permanent \in BOOLEAN : Throw(w, permanent)
  BY <1>7, <1>t, QuietStep DEF Throw, TypeOK, Phases, Working
<1>8. CASE Fail(w)
  <2>1. pc[w] \in Working /\ job[w] \in Jobs
    BY <1>8 DEF Fail, Working, WorkerInv, JobRead
  <2>2. PICK m \in Messages : m = job[w].msg BY <2>1, <1>r
  <2>3. attempts[m] = job[w].attempt
    BY <1>8, <2>1, <2>2 DEF Fail, WorkerInv, JobCurrent
  <2>4. PICK s \in {"pending", "dead"} : s = IF Dead(w) THEN "dead" ELSE "pending"
    OBVIOUS
  <2>5. UNCHANGED attempts /\ (s = "pending" => attempts[m]' < MaxAttempts[m])
    BY <1>8, <2>1, <2>2, <2>3, <2>4 DEF Fail, Dead, Jobs
  <2>6. due' \in SUBSET Messages BY <1>8, <1>t DEF Fail, TypeOK
  <2> QED BY <1>8, <2>2, <2>4, <2>5, <2>6, ReleaseRow DEF Fail
<1>9. CASE Pause(w)
  <2>1. PICK m \in Messages : m = job[w].msg BY <1>9, <1>r DEF Pause, Working
  <2>2. attempts[m] \in 1 .. MaxAttempts[m]
    BY <1>9, <2>1 DEF Pause, Holds, WorkerInv, AttemptLeft
  <2>3. attempts[m]' < MaxAttempts[m]
    BY <1>9, <1>t, <2>1, <2>2 DEF Pause, TypeOK
  <2>4. due' \in SUBSET Messages BY <1>9, <1>t DEF Pause, TypeOK
  <2> QED BY <1>9, <2>1, <2>3, <2>4, ReleaseRow DEF Pause
<1>10. CASE LoseLease(w)
  BY <1>10, <1>t, QuietStep DEF LoseLease, MoveOn, TypeOK, Phases
<1>11. CASE Crash(w)
  <2>1. faults' \in 0 .. MaxFaults BY <1>11, <1>t DEF Crash, TypeOK
  <2> QED BY <1>11, <1>t, <2>1, QuietStep DEF Crash, MoveOn, TypeOK, Phases
<1>12. CASE Restart(w)
  BY <1>12, <1>t, QuietStep DEF Restart, TypeOK, Phases
<1> QED BY <1>1, <1>2, <1>3, <1>4, <1>5, <1>6, <1>7, <1>8, <1>9, <1>10, <1>11, <1>12 DEF Work

\* Time and the operator change no row's status, attempt or holder.
LEMMA OtherStep ==
  ASSUME WorkerInv, Passes \/ (\E f \in Fences : Disable(f)) \/ UNCHANGED vars
  PROVE  WorkerInv'
<1>1. UNCHANGED <<status, attempts, lockedBy, effects, sent, pc, job>>
  BY DEF Passes, Expire, BecomeDue, Enable, Disable, vars, row
<1>2. TypeOK'
  <2>1. stale' \in SUBSET Messages /\ due' \in SUBSET Messages
    BY DEF Passes, Expire, BecomeDue, Enable, Disable, vars, row, WorkerInv, TypeOK
  <2>2. enabled' \in SUBSET Fences /\ faults' \in 0 .. MaxFaults
    BY OutboxAssumption
    DEF Passes, Expire, BecomeDue, Enable, Disable, vars, row, WorkerInv, TypeOK
  <2> QED BY <1>1, <2>1, <2>2 DEF WorkerInv, TypeOK
<1> QED
  BY <1>1, <1>2 DEF WorkerInv, JobRead, JobCurrent, SentFirst, AbsentFresh, EffectOnce,
                    DeliveredFirst, AttemptLeft, Holds

\* The invariant is inductive.
LEMMA NextWorker == WorkerInv /\ [Next]_vars => WorkerInv'
  BY WorkStep, OtherStep DEF Next

\* Every reachable state satisfies it.
LEMMA WorkerInvariant == Spec => []WorkerInv
  BY InitWorker, NextWorker, PTL DEF Spec

-----------------------------------------------------------------------------
\* What the completion of a message writes is committed exactly when the
\* message is completed, and once: a worker whose lease went to another
\* cannot complete the message again.
THEOREM EffectsOnce == Spec => []EffectOnce
  BY WorkerInvariant, PTL DEF WorkerInv

\* No message is marked completed that its provider did not accept, however
\* crashes, retries and lost commits fall.
THEOREM DeliveredBeforeDone == Spec => []DeliveredFirst
  BY WorkerInvariant, PTL DEF WorkerInv

\* A pending message can always be claimed once more: failures on the last
\* attempt and pauses that give an attempt back strand none.
THEOREM AttemptsLeft == Spec => []AttemptLeft
  BY WorkerInvariant, PTL DEF WorkerInv

\* A message that is completed or dead stays so: late answers change nothing.
THEOREM FinalStays == Spec => FinishedForGood
<1>1. ASSUME WorkerInv, [Next]_vars,
             NEW m \in Messages, status[m] \in {"completed", "dead"}
      PROVE  status'[m] = status[m]
  <2> USE OutboxAssumption DEF row
  <2>1. CASE \E w \in Workers, n \in Messages : Claim(w, n)
    BY <1>1, <2>1 DEF Claim, Claimable, Exhausted, WorkerInv, TypeOK
  <2>2. CASE \E w \in Workers : ClaimNothing(w)
    BY <1>1, <2>2 DEF ClaimNothing, Exhausted, WorkerInv, TypeOK
  <2>3. CASE \E w \in Workers : Finish(w)
    BY <1>1, <2>3 DEF Finish, Completes, Children, Holds, WorkerInv, TypeOK
  <2>4. CASE \E w \in Workers : Fail(w) \/ Pause(w)
    BY <1>1, <2>4 DEF Fail, Pause, Released, Holds, WorkerInv, TypeOK
  <2>5. CASE \E w \in Workers : \/ CheckFence(w) \/ Deliver(w) \/ FinishPaused(w)
                                \/ (\E permanent \in BOOLEAN : Throw(w, permanent))
                                \/ LoseLease(w) \/ Restart(w) \/ Crash(w)
    BY <1>1, <2>5 DEF CheckFence, Deliver, FinishPaused, Throw, LoseLease, Restart, Crash
  <2>6. CASE Passes \/ (\E f \in Fences : Disable(f)) \/ UNCHANGED vars
    BY <2>6 DEF Passes, Expire, BecomeDue, Enable, Disable, vars
  <2> QED BY <1>1, <2>1, <2>2, <2>3, <2>4, <2>5, <2>6 DEF Next, Work
<1>2. WorkerInv /\ [Next]_vars
        => [\A m \in Messages : status[m] \in {"completed", "dead"} => status'[m] = status[m]]_vars
  BY <1>1
<1> QED BY <1>2, WorkerInvariant, PTL DEF Spec, FinishedForGood
=============================================================================
