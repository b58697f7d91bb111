--------------------------- MODULE ExecutorProofs ---------------------------
(***************************************************************************)
(* Proofs about CommandExecutor: its type invariant, that it implements    *)
(* AtMostOnce, and that nothing is committed behind a disabled fence.      *)
(***************************************************************************)
EXTENDS CommandExecutor, TLAPS

\* What the API is at agrees with the state of the transaction.
PhaseInv ==
  \A a \in Attempts :
    /\ pc[a] = "idle" <=> request[a] = NoRequest
    /\ pc[a] # "done" <=> answer[a] = Silence
    /\ pc[a] \in {"idle", "begin"} => tx[a] = "none"
    /\ pc[a] \in {"fence", "insert", "run", "replay", "rollback"} => tx[a] \in {"open", "aborted"}
    /\ pc[a] = "run" => a \in inserts
    /\ tx[a] = "none" => a \notin inserts
    /\ answer[a] = Error => tx[a] \in {"none", "aborted"}

\* Who inserted the row of a key holds it alone until its transaction ends.
RivalInv ==
  \A a \in inserts \cap Live :
    /\ entry[Key(a)] = NoEntry
    /\ \A b \in inserts \cap Live : Key(b) = Key(a) => b = a

\* Whoever may be told "ok" has run the body or read its stored result.
ResultInv ==
  \A a \in Attempts :
    /\ pc[a] = "replay" => entry[Key(a)].digest = Digest(a)
    /\ tx[a] = "committing" => a \in inserts \/ entry[Key(a)].digest = Digest(a)
    /\ tx[a] = "committed" => entry[Key(a)].digest = Digest(a)

\* Only a committed transaction leaves a row behind.
EntryInv == \A k \in Keys, a \in Attempts : entry[k].by = a => tx[a] = "committed"

\* Who is past the fence holds it enabled.
FenceInv ==
  \A a \in Live : pc[a] = "insert" \/ a \in inserts => a \in shares /\ enabled

Inv == TypeOK /\ PhaseInv /\ RivalInv /\ ResultInv /\ EntryInv /\ FenceInv

-----------------------------------------------------------------------------
LEMMA InitInv == Init => Inv
  <1> SUFFICES ASSUME Init PROVE Inv
    OBVIOUS
  <1>1. TypeOK
    BY DEF Init, TypeOK, Phases, TxStates
  <1>2. PhaseInv
    BY DEF Init, PhaseInv, Silence, Error
  <1>3. RivalInv /\ FenceInv
    BY DEF Init, RivalInv, FenceInv, Live
  <1>4. ResultInv
    BY DEF Init, ResultInv
  <1>5. EntryInv
    BY DistinctAssumption DEF Init, EntryInv, NoEntry
  <1> QED
    BY <1>1, <1>2, <1>3, <1>4, <1>5 DEF Inv

\* An attempt under way has a key of Keys and a digest of Digests.
LEMMA UnderWay ==
  ASSUME TypeOK, NEW a \in Attempts, request[a] # NoRequest
  PROVE  request[a] \in Requests /\ Key(a) \in Keys /\ Digest(a) \in Digests
  BY DEF TypeOK, Requests, Key, Digest

\* The row of a key is absent, or it is one of Entries.
LEMMA Rows ==
  ASSUME TypeOK, NEW k \in Keys, entry[k] # NoEntry
  PROVE  entry[k] \in Entries /\ entry[k].by \in Attempts /\ entry[k].digest # "none"
  BY DistinctAssumption DEF TypeOK, Entries
-----------------------------------------------------------------------------
\* Every step keeps the types.
LEMMA TypeStep ==
  ASSUME TypeOK, PhaseInv, ResultInv, EntryInv, [Next]_vars
  PROVE  TypeOK'
  <1> USE DEF TypeOK, Phases, TxStates, Answers, Requests
  <1>1. ASSUME NEW a \in Attempts, NEW r \in Requests, Send(a, r)
        PROVE  TypeOK'
    BY <1>1 DEF Send, Goto, dbVars
  <1>2. ASSUME NEW a \in Attempts, Refuse(a)
        PROVE  TypeOK'
    BY <1>2 DEF Refuse, Tell, Goto, dbVars
  <1>3. ASSUME NEW a \in Attempts, Begin(a)
        PROVE  TypeOK'
    BY <1>3 DEF Begin, Goto, dbVars
  <1>4. ASSUME NEW a \in Attempts, CheckFence(a)
        PROVE  TypeOK'
    BY <1>4 DEF CheckFence, LockFence, Goto, dbVars
  <1>5. ASSUME NEW a \in Attempts, InsertKey(a)
        PROVE  TypeOK'
    BY <1>5 DEF InsertKey, Unrivalled, Goto, dbVars
  <1>6. ASSUME NEW a \in Attempts, RunBody(a)
        PROVE  TypeOK'
    BY <1>6 DEF RunBody, Goto, dbVars
  <1>7. ASSUME NEW a \in Attempts, FailBody(a)
        PROVE  TypeOK'
    BY <1>7 DEF FailBody, Goto, dbVars
  <1>8. ASSUME NEW a \in Attempts, Replay(a)
        PROVE  TypeOK'
    BY <1>8 DEF Replay, Goto, dbVars
  <1>9. ASSUME NEW a \in Attempts, Acknowledge(a)
        PROVE  TypeOK'
    <2>1. request[a] # NoRequest
      BY <1>9 DEF Acknowledge, PhaseInv
    <2>2. entry[Key(a)].digest \in Digests
      BY <1>9, <2>1, UnderWay DEF Acknowledge, ResultInv
    <2>3. entry[Key(a)] # NoEntry
      BY <2>2, DistinctAssumption DEF NoEntry
    <2>4. entry[Key(a)].by \in Attempts
      BY <2>1, <2>3, UnderWay, Rows
    <2> QED
      BY <1>9, <2>4 DEF Acknowledge, Tell, Goto, dbVars
  <1>10. ASSUME NEW a \in Attempts, Rollback(a)
        PROVE  TypeOK'
    BY <1>10 DEF Rollback, Tell, Goto, dbVars
  <1>11. ASSUME NEW a \in Attempts, Cancel(a)
        PROVE  TypeOK'
    BY <1>11 DEF Cancel, CancelledAnswer, Tell, Goto, dbVars
  <1>12. ASSUME NEW a \in Attempts, DbCommit(a)
        PROVE  TypeOK'
    <2>1. request[a] # NoRequest
      BY <1>12 DEF DbCommit, PhaseInv
    <2>2. [digest |-> Digest(a), by |-> a] \in Entries
      BY <2>1, UnderWay DEF Entries
    <2>3. entry' \in [Keys -> Entries \cup {NoEntry}]
      BY <1>12, <2>2 DEF DbCommit
    <2> QED
      BY <1>12, <2>3 DEF DbCommit
  <1>13. ASSUME NEW a \in Attempts, DbAbort(a)
        PROVE  TypeOK'
    BY <1>13 DEF DbAbort, dbVars
  <1>14. ASSUME NEW a \in Attempts, FailStatement(a)
        PROVE  TypeOK'
    BY <1>14 DEF FailStatement, Goto, dbVars
  <1>15. ASSUME NEW a \in Attempts, RollbackNothing(a)
        PROVE  TypeOK'
    BY <1>15 DEF RollbackNothing, Tell, Goto, dbVars
  <1>16. CASE SetFence
    BY <1>16 DEF SetFence, dbVars
  <1>17. CASE UNCHANGED vars
    BY <1>17 DEF vars, dbVars
  <1> QED
    BY <1>1, <1>2, <1>3, <1>4, <1>5, <1>6, <1>7, <1>8, <1>9, <1>10, <1>11, <1>12, <1>13, <1>14, <1>15, <1>16, <1>17 DEF Next, ServerNext

\* The API and its transaction stay in step.
LEMMA PhaseStep ==
  ASSUME TypeOK, PhaseInv, EntryInv, [Next]_vars
  PROVE  PhaseInv'
  <1> USE DEF TypeOK, PhaseInv, Phases, TxStates, Silence, Error, Ok, Unknown
  <1>1. ASSUME NEW a \in Attempts, NEW r \in Requests, Send(a, r)
        PROVE  PhaseInv'
    BY <1>1, DistinctAssumption DEF Send, Goto, dbVars, NoRequest, Requests
  <1>2. ASSUME NEW a \in Attempts, Refuse(a)
        PROVE  PhaseInv'
    BY <1>2 DEF Refuse, Tell, Goto, dbVars
  <1>3. ASSUME NEW a \in Attempts, Begin(a)
        PROVE  PhaseInv'
    BY <1>3 DEF Begin, Goto, dbVars
  <1>4. ASSUME NEW a \in Attempts, CheckFence(a)
        PROVE  PhaseInv'
    BY <1>4 DEF CheckFence, LockFence, Goto, dbVars
  <1>5. ASSUME NEW a \in Attempts, InsertKey(a)
        PROVE  PhaseInv'
    BY <1>5 DEF InsertKey, Unrivalled, Goto, dbVars
  <1>6. ASSUME NEW a \in Attempts, RunBody(a)
        PROVE  PhaseInv'
    BY <1>6 DEF RunBody, Goto, dbVars
  <1>7. ASSUME NEW a \in Attempts, FailBody(a)
        PROVE  PhaseInv'
    BY <1>7 DEF FailBody, Goto, dbVars
  <1>8. ASSUME NEW a \in Attempts, Replay(a)
        PROVE  PhaseInv'
    BY <1>8 DEF Replay, Goto, dbVars
  <1>9. ASSUME NEW a \in Attempts, Acknowledge(a)
        PROVE  PhaseInv'
    BY <1>9 DEF Acknowledge, Tell, Goto, dbVars
  <1>10. ASSUME NEW a \in Attempts, Rollback(a)
        PROVE  PhaseInv'
    BY <1>10 DEF Rollback, Tell, Goto, dbVars
  <1>11. ASSUME NEW a \in Attempts, Cancel(a)
        PROVE  PhaseInv'
    BY <1>11 DEF Cancel, CancelledAnswer, Tell, Goto, dbVars
  <1>12. ASSUME NEW a \in Attempts, DbCommit(a)
        PROVE  PhaseInv'
    BY <1>12 DEF DbCommit, dbVars
  <1>13. ASSUME NEW a \in Attempts, DbAbort(a)
        PROVE  PhaseInv'
    BY <1>13 DEF DbAbort, dbVars, Live
  <1>14. ASSUME NEW a \in Attempts, FailStatement(a)
        PROVE  PhaseInv'
    BY <1>14 DEF FailStatement, Goto, dbVars
  <1>15. ASSUME NEW a \in Attempts, RollbackNothing(a)
        PROVE  PhaseInv'
    BY <1>15 DEF RollbackNothing, Tell, Goto, dbVars
  <1>16. CASE SetFence
    BY <1>16 DEF SetFence, dbVars
  <1>17. CASE UNCHANGED vars
    BY <1>17 DEF vars, dbVars
  <1> QED
    BY <1>1, <1>2, <1>3, <1>4, <1>5, <1>6, <1>7, <1>8, <1>9, <1>10, <1>11, <1>12, <1>13, <1>14, <1>15, <1>16, <1>17 DEF Next, ServerNext

\* The row of a key keeps one holder.
LEMMA RivalStep ==
  ASSUME TypeOK, PhaseInv, RivalInv, [Next]_vars
  PROVE  RivalInv'
  <1> USE DEF TypeOK, RivalInv, Live, Key
  <1>1. ASSUME NEW a \in Attempts, NEW r \in Requests, Send(a, r)
        PROVE  RivalInv'
    BY <1>1 DEF Send, Goto, dbVars, PhaseInv
  <1>2. ASSUME NEW a \in Attempts, Refuse(a)
        PROVE  RivalInv'
    BY <1>2 DEF Refuse, Tell, Goto, dbVars
  <1>3. ASSUME NEW a \in Attempts, Begin(a)
        PROVE  RivalInv'
    BY <1>3 DEF Begin, Goto, dbVars, PhaseInv
  <1>4. ASSUME NEW a \in Attempts, CheckFence(a)
        PROVE  RivalInv'
    BY <1>4 DEF CheckFence, LockFence, Goto, dbVars
  <1>5. ASSUME NEW a \in Attempts, InsertKey(a)
        PROVE  RivalInv'
    BY <1>5 DEF InsertKey, Unrivalled, Goto, dbVars
  <1>6. ASSUME NEW a \in Attempts, RunBody(a)
        PROVE  RivalInv'
    BY <1>6 DEF RunBody, Goto, dbVars
  <1>7. ASSUME NEW a \in Attempts, FailBody(a)
        PROVE  RivalInv'
    BY <1>7 DEF FailBody, Goto, dbVars
  <1>8. ASSUME NEW a \in Attempts, Replay(a)
        PROVE  RivalInv'
    BY <1>8 DEF Replay, Goto, dbVars
  <1>9. ASSUME NEW a \in Attempts, Acknowledge(a)
        PROVE  RivalInv'
    BY <1>9 DEF Acknowledge, Tell, Goto, dbVars
  <1>10. ASSUME NEW a \in Attempts, Rollback(a)
        PROVE  RivalInv'
    BY <1>10 DEF Rollback, Tell, Goto, dbVars
  <1>11. ASSUME NEW a \in Attempts, Cancel(a)
        PROVE  RivalInv'
    BY <1>11 DEF Cancel, CancelledAnswer, Tell, Goto, dbVars
  <1>12. ASSUME NEW a \in Attempts, DbCommit(a)
        PROVE  RivalInv'
    <2> SUFFICES ASSUME NEW b \in inserts \cap Live', b # a
                 PROVE  entry'[Key(b)] = NoEntry
      BY <1>12 DEF DbCommit
    <2>1. b \in inserts \cap Live /\ request[b] # NoRequest
      BY <1>12 DEF DbCommit, PhaseInv
    <2>2. Key(b) \in Keys /\ entry[Key(b)] = NoEntry
      BY <2>1, UnderWay
    <2>3. a \in inserts => Key(b) # Key(a)
      BY <1>12, <2>1 DEF DbCommit
    <2> QED
      BY <1>12, <2>2, <2>3 DEF DbCommit
  <1>13. ASSUME NEW a \in Attempts, DbAbort(a)
        PROVE  RivalInv'
    BY <1>13 DEF DbAbort, dbVars
  <1>14. ASSUME NEW a \in Attempts, FailStatement(a)
        PROVE  RivalInv'
    BY <1>14 DEF FailStatement, Goto, dbVars
  <1>15. ASSUME NEW a \in Attempts, RollbackNothing(a)
        PROVE  RivalInv'
    BY <1>15 DEF RollbackNothing, Tell, Goto, dbVars
  <1>16. CASE SetFence
    BY <1>16 DEF SetFence, dbVars
  <1>17. CASE UNCHANGED vars
    BY <1>17 DEF vars, dbVars
  <1> QED
    BY <1>1, <1>2, <1>3, <1>4, <1>5, <1>6, <1>7, <1>8, <1>9, <1>10, <1>11, <1>12, <1>13, <1>14, <1>15, <1>16, <1>17 DEF Next, ServerNext

\* A result once committed stays what it is.
LEMMA ResultStep ==
  ASSUME TypeOK, PhaseInv, RivalInv, ResultInv, [Next]_vars
  PROVE  ResultInv'
  <1> USE DEF TypeOK, ResultInv, Key, Digest
  <1>1. ASSUME NEW a \in Attempts, NEW r \in Requests, Send(a, r)
        PROVE  ResultInv'
    BY <1>1 DEF Send, Goto, dbVars, PhaseInv
  <1>2. ASSUME NEW a \in Attempts, Refuse(a)
        PROVE  ResultInv'
    BY <1>2 DEF Refuse, Tell, Goto, dbVars
  <1>3. ASSUME NEW a \in Attempts, Begin(a)
        PROVE  ResultInv'
    BY <1>3 DEF Begin, Goto, dbVars
  <1>4. ASSUME NEW a \in Attempts, CheckFence(a)
        PROVE  ResultInv'
    BY <1>4 DEF CheckFence, LockFence, Goto, dbVars
  <1>5. ASSUME NEW a \in Attempts, InsertKey(a)
        PROVE  ResultInv'
    BY <1>5 DEF InsertKey, Unrivalled, Goto, dbVars
  <1>6. ASSUME NEW a \in Attempts, RunBody(a)
        PROVE  ResultInv'
    BY <1>6 DEF RunBody, Goto, dbVars, PhaseInv
  <1>7. ASSUME NEW a \in Attempts, FailBody(a)
        PROVE  ResultInv'
    BY <1>7 DEF FailBody, Goto, dbVars
  <1>8. ASSUME NEW a \in Attempts, Replay(a)
        PROVE  ResultInv'
    BY <1>8 DEF Replay, Goto, dbVars
  <1>9. ASSUME NEW a \in Attempts, Acknowledge(a)
        PROVE  ResultInv'
    BY <1>9 DEF Acknowledge, Tell, Goto, dbVars
  <1>10. ASSUME NEW a \in Attempts, Rollback(a)
        PROVE  ResultInv'
    BY <1>10 DEF Rollback, Tell, Goto, dbVars
  <1>11. ASSUME NEW a \in Attempts, Cancel(a)
        PROVE  ResultInv'
    BY <1>11 DEF Cancel, CancelledAnswer, Tell, Goto, dbVars
  <1>12. ASSUME NEW a \in Attempts, DbCommit(a)
        PROVE  ResultInv'
    <2>1. CASE a \notin inserts
      BY <1>12, <2>1 DEF DbCommit
    <2>2. CASE a \in inserts
      <3>1. entry[Key(a)] = NoEntry /\ request[a] # NoRequest
        BY <1>12, <2>2 DEF DbCommit, RivalInv, Live, PhaseInv
      <3>2. entry' = [entry EXCEPT ![Key(a)] = [digest |-> Digest(a), by |-> a]] /\ Key(a) \in Keys
        BY <1>12, <2>2, <3>1, UnderWay DEF DbCommit
      <3>3. ASSUME NEW b \in Attempts, b # a, entry[Key(b)].digest = Digest(b),
                   pc[b] = "replay" \/ tx[b] \in {"committing", "committed"}
            PROVE  entry'[Key(b)] = entry[Key(b)]
        <4>1. request[b] # NoRequest
          BY <3>3 DEF PhaseInv
        <4>2. Key(b) # Key(a)
          BY <3>1, <3>3, <4>1, UnderWay, DistinctAssumption DEF NoEntry
        <4> QED
          BY <3>2, <4>2
      <3>4. entry'[Key(a)].digest = Digest(a) /\ pc[a] # "replay"
        BY <1>12, <3>2 DEF DbCommit, PhaseInv
      <3> QED
        BY <1>12, <2>2, <3>3, <3>4 DEF DbCommit
    <2> QED
      BY <2>1, <2>2
  <1>13. ASSUME NEW a \in Attempts, DbAbort(a)
        PROVE  ResultInv'
    BY <1>13 DEF DbAbort, dbVars
  <1>14. ASSUME NEW a \in Attempts, FailStatement(a)
        PROVE  ResultInv'
    BY <1>14 DEF FailStatement, Goto, dbVars
  <1>15. ASSUME NEW a \in Attempts, RollbackNothing(a)
        PROVE  ResultInv'
    BY <1>15 DEF RollbackNothing, Tell, Goto, dbVars
  <1>16. CASE SetFence
    BY <1>16 DEF SetFence, dbVars
  <1>17. CASE UNCHANGED vars
    BY <1>17 DEF vars, dbVars
  <1> QED
    BY <1>1, <1>2, <1>3, <1>4, <1>5, <1>6, <1>7, <1>8, <1>9, <1>10, <1>11, <1>12, <1>13, <1>14, <1>15, <1>16, <1>17 DEF Next, ServerNext

\* Rows are left by committed transactions only.
LEMMA EntryStep ==
  ASSUME TypeOK, PhaseInv, EntryInv, [Next]_vars
  PROVE  EntryInv'
  <1> USE DEF TypeOK, EntryInv
  <1>1. ASSUME NEW a \in Attempts, NEW r \in Requests, Send(a, r)
        PROVE  EntryInv'
    BY <1>1 DEF Send, Goto, dbVars
  <1>2. ASSUME NEW a \in Attempts, Refuse(a)
        PROVE  EntryInv'
    BY <1>2 DEF Refuse, Tell, Goto, dbVars
  <1>3. ASSUME NEW a \in Attempts, Begin(a)
        PROVE  EntryInv'
    BY <1>3 DEF Begin, Goto, dbVars, PhaseInv
  <1>4. ASSUME NEW a \in Attempts, CheckFence(a)
        PROVE  EntryInv'
    BY <1>4 DEF CheckFence, LockFence, Goto, dbVars
  <1>5. ASSUME NEW a \in Attempts, InsertKey(a)
        PROVE  EntryInv'
    BY <1>5 DEF InsertKey, Unrivalled, Goto, dbVars
  <1>6. ASSUME NEW a \in Attempts, RunBody(a)
        PROVE  EntryInv'
    BY <1>6 DEF RunBody, Goto, dbVars
  <1>7. ASSUME NEW a \in Attempts, FailBody(a)
        PROVE  EntryInv'
    BY <1>7 DEF FailBody, Goto, dbVars
  <1>8. ASSUME NEW a \in Attempts, Replay(a)
        PROVE  EntryInv'
    BY <1>8 DEF Replay, Goto, dbVars
  <1>9. ASSUME NEW a \in Attempts, Acknowledge(a)
        PROVE  EntryInv'
    BY <1>9 DEF Acknowledge, Tell, Goto, dbVars
  <1>10. ASSUME NEW a \in Attempts, Rollback(a)
        PROVE  EntryInv'
    BY <1>10 DEF Rollback, Tell, Goto, dbVars
  <1>11. ASSUME NEW a \in Attempts, Cancel(a)
        PROVE  EntryInv'
    BY <1>11 DEF Cancel, CancelledAnswer, Tell, Goto, dbVars
  <1>12. ASSUME NEW a \in Attempts, DbCommit(a)
        PROVE  EntryInv'
    BY <1>12 DEF DbCommit, dbVars
  <1>13. ASSUME NEW a \in Attempts, DbAbort(a)
        PROVE  EntryInv'
    BY <1>13 DEF DbAbort, dbVars, Live
  <1>14. ASSUME NEW a \in Attempts, FailStatement(a)
        PROVE  EntryInv'
    BY <1>14 DEF FailStatement, Goto, dbVars
  <1>15. ASSUME NEW a \in Attempts, RollbackNothing(a)
        PROVE  EntryInv'
    BY <1>15 DEF RollbackNothing, Tell, Goto, dbVars
  <1>16. CASE SetFence
    BY <1>16 DEF SetFence, dbVars
  <1>17. CASE UNCHANGED vars
    BY <1>17 DEF vars, dbVars
  <1> QED
    BY <1>1, <1>2, <1>3, <1>4, <1>5, <1>6, <1>7, <1>8, <1>9, <1>10, <1>11, <1>12, <1>13, <1>14, <1>15, <1>16, <1>17 DEF Next, ServerNext

\* The fence stays enabled under those past it.
LEMMA FenceStep ==
  ASSUME TypeOK, PhaseInv, FenceInv, [Next]_vars
  PROVE  FenceInv'
  <1> USE DEF TypeOK, FenceInv, Live
  <1>1. ASSUME NEW a \in Attempts, NEW r \in Requests, Send(a, r)
        PROVE  FenceInv'
    BY <1>1 DEF Send, Goto, dbVars
  <1>2. ASSUME NEW a \in Attempts, Refuse(a)
        PROVE  FenceInv'
    BY <1>2 DEF Refuse, Tell, Goto, dbVars
  <1>3. ASSUME NEW a \in Attempts, Begin(a)
        PROVE  FenceInv'
    BY <1>3 DEF Begin, Goto, dbVars, PhaseInv
  <1>4. ASSUME NEW a \in Attempts, CheckFence(a)
        PROVE  FenceInv'
    BY <1>4 DEF CheckFence, LockFence, Goto, dbVars
  <1>5. ASSUME NEW a \in Attempts, InsertKey(a)
        PROVE  FenceInv'
    BY <1>5 DEF InsertKey, Unrivalled, Goto, dbVars
  <1>6. ASSUME NEW a \in Attempts, RunBody(a)
        PROVE  FenceInv'
    BY <1>6 DEF RunBody, Goto, dbVars
  <1>7. ASSUME NEW a \in Attempts, FailBody(a)
        PROVE  FenceInv'
    BY <1>7 DEF FailBody, Goto, dbVars
  <1>8. ASSUME NEW a \in Attempts, Replay(a)
        PROVE  FenceInv'
    BY <1>8 DEF Replay, Goto, dbVars
  <1>9. ASSUME NEW a \in Attempts, Acknowledge(a)
        PROVE  FenceInv'
    BY <1>9 DEF Acknowledge, Tell, Goto, dbVars
  <1>10. ASSUME NEW a \in Attempts, Rollback(a)
        PROVE  FenceInv'
    BY <1>10 DEF Rollback, Tell, Goto, dbVars
  <1>11. ASSUME NEW a \in Attempts, Cancel(a)
        PROVE  FenceInv'
    BY <1>11 DEF Cancel, CancelledAnswer, Tell, Goto, dbVars
  <1>12. ASSUME NEW a \in Attempts, DbCommit(a)
        PROVE  FenceInv'
    BY <1>12 DEF DbCommit, dbVars
  <1>13. ASSUME NEW a \in Attempts, DbAbort(a)
        PROVE  FenceInv'
    BY <1>13 DEF DbAbort, dbVars
  <1>14. ASSUME NEW a \in Attempts, FailStatement(a)
        PROVE  FenceInv'
    BY <1>14 DEF FailStatement, Goto, dbVars
  <1>15. ASSUME NEW a \in Attempts, RollbackNothing(a)
        PROVE  FenceInv'
    BY <1>15 DEF RollbackNothing, Tell, Goto, dbVars
  <1>16. CASE SetFence
    BY <1>16 DEF SetFence, dbVars
  <1>17. CASE UNCHANGED vars
    BY <1>17 DEF vars, dbVars
  <1> QED
    BY <1>1, <1>2, <1>3, <1>4, <1>5, <1>6, <1>7, <1>8, <1>9, <1>10, <1>11, <1>12, <1>13, <1>14, <1>15, <1>16, <1>17 DEF Next, ServerNext

-----------------------------------------------------------------------------
LEMMA InvStep == Inv /\ [Next]_vars => Inv'
  BY TypeStep, PhaseStep, RivalStep, ResultStep, EntryStep, FenceStep DEF Inv

LEMMA InvHolds == Spec => []Inv
  BY InitInv, InvStep, PTL DEF Spec

\* The state of every request, transaction, row and answer is well typed.
THEOREM ExecutorTypes == Spec => []TypeOK
  <1>1. Inv => TypeOK
    BY DEF Inv
  <1> QED
    BY <1>1, InvHolds, PTL

\* No command commits behind a disabled fence: what it shares, the operator's
\* UPDATE waits for, so it is enabled until the transaction has ended.
THEOREM NothingBehindFence == Spec => CommitsBehindFence
  <1>1. Inv /\ [Next]_vars => [applied' # applied => enabled]_vars
    <2> SUFFICES ASSUME Inv, Next, applied' # applied
                 PROVE  enabled
      BY DEF vars
    <2>1. PICK a \in Attempts : DbCommit(a) /\ a \in inserts
      BY DEF Next, ServerNext, Send, Refuse, Begin, CheckFence, InsertKey, RunBody, FailBody, Replay,
             Acknowledge, Rollback, Cancel, DbCommit, DbAbort, FailStatement, RollbackNothing,
             SetFence, dbVars
    <2> QED
      BY <2>1 DEF Inv, FenceInv, Live, DbCommit
  <1> QED
    BY <1>1, InvHolds, PTL DEF Spec, CommitsBehindFence

-----------------------------------------------------------------------------
\* The two modules mean the same by a request, a row and an answer.
LEMMA SameConstants ==
  /\ Promise!Requests = Requests
  /\ Promise!NoRequest = NoRequest
  /\ Promise!Unbound = NoEntry
  /\ Promise!Error = Error
  /\ Promise!Silence = Silence
  /\ Promise!Answers = Answers
  BY DEF Promise!Requests, Requests, Promise!NoRequest, NoRequest, Promise!Unbound, NoEntry,
         Promise!Error, Error, Promise!Silence, Silence, Promise!Answers, Answers,
         Promise!Ok, Ok, Promise!Unknown, Unknown, Promise!NoOne, NoOne

\* An attempt that is told an error, without a transaction that committed, has
\* no effect.
LEMMA NoEffect ==
  ASSUME Inv, NEW a \in Attempts, tx[a] # "committed"
  PROVE  ~Promise!HasEffect(a)
  BY DEF Inv, EntryInv, Promise!HasEffect

\* Every answer the executor gives, the promise allows.
LEMMA Tells ==
  ASSUME Inv, NEW a \in Attempts, NEW reply \in Answers, Tell(a, reply),
         pc[a] \notin {"idle", "done"}, UNCHANGED <<request, entry>>,
         reply = Error => tx[a] # "committed",
         reply.status = "ok" => entry[Key(a)] = [digest |-> Digest(a), by |-> reply.by]
  PROVE  Promise!Next
  <1>1. request[a] # NoRequest /\ answer[a] = Silence
    BY DEF Inv, PhaseInv
  <1>2. answer' = [answer EXCEPT ![a] = reply]
    BY DEF Tell
  <1>3. Promise!Tell(a, reply)
    BY <1>1, <1>2, NoEffect, SameConstants DEF Promise!Tell, Key, Digest
  <1> QED
    BY <1>3, SameConstants DEF Promise!Next

\* A step of the executor is a step of the promise or leaves it alone.
LEMMA PromiseStep ==
  ASSUME Inv, [Next]_vars
  PROVE  [Promise!Next]_<<request, entry, answer>>
  <1> USE DEF Inv
  <1>1. ASSUME NEW a \in Attempts, NEW r \in Requests, Send(a, r)
        PROVE  Promise!Next
    <2>1. Promise!Ask(a, r)
      BY <1>1, SameConstants DEF Send, dbVars, PhaseInv, Promise!Ask
    <2> QED
      BY <2>1, SameConstants DEF Promise!Next
  <1>2. ASSUME NEW a \in Attempts, Refuse(a) \/ Rollback(a) \/ RollbackNothing(a)
        PROVE  Promise!Next
    <2>1. Tell(a, Error) /\ pc[a] \in {"begin", "rollback"} /\ UNCHANGED <<request, entry>>
      BY <1>2 DEF Refuse, Rollback, RollbackNothing, dbVars
    <2>2. tx[a] # "committed"
      BY <2>1 DEF PhaseInv
    <2> QED
      BY <2>1, <2>2, Tells DEF Error, Answers
  <1>3. ASSUME NEW a \in Attempts, Cancel(a)
        PROVE  Promise!Next
    <2>1. Tell(a, Unknown) /\ pc[a] \notin {"idle", "done"} /\ UNCHANGED <<request, entry>>
      BY <1>3 DEF Cancel, CancelledAnswer, dbVars
    <2> QED
      BY <2>1, Tells DEF Unknown, Error, Answers
  <1>4. ASSUME NEW a \in Attempts, Acknowledge(a)
        PROVE  Promise!Next
    <2>1. request[a] # NoRequest /\ entry[Key(a)].digest = Digest(a)
      BY <1>4 DEF Acknowledge, PhaseInv, ResultInv
    <2>2. entry[Key(a)] # NoEntry /\ Key(a) \in Keys
      BY <2>1, UnderWay, DistinctAssumption DEF NoEntry
    <2>3. entry[Key(a)] \in Entries /\ entry[Key(a)].by \in Attempts
      BY <2>2, Rows
    <2>4. entry[Key(a)] = [digest |-> Digest(a), by |-> entry[Key(a)].by]
      BY <2>1, <2>3 DEF Entries
    <2>5. Tell(a, Ok(entry[Key(a)].by)) /\ pc[a] = "commit" /\ UNCHANGED <<request, entry>>
      BY <1>4 DEF Acknowledge, dbVars
    <2> QED
      BY <2>3, <2>4, <2>5, Tells DEF Ok, Error, Answers
  <1>5. ASSUME NEW a \in Attempts, DbCommit(a)
        PROVE  [Promise!Next]_<<request, entry, answer>>
    <2>1. CASE a \in inserts
      <3>1. request[a] # NoRequest /\ entry[Key(a)] = NoEntry /\ answer[a] # Error
        BY <1>5, <2>1 DEF DbCommit, PhaseInv, RivalInv, Live
      <3>2. Promise!Execute(a)
        BY <1>5, <2>1, <3>1, SameConstants DEF DbCommit, Promise!Execute, Key, Digest
      <3> QED
        BY <3>2 DEF Promise!Next
    <2>2. CASE a \notin inserts
      BY <1>5, <2>2 DEF DbCommit
    <2> QED
      BY <2>1, <2>2
  <1>6. ASSUME NEW a \in Attempts,
               Begin(a) \/ CheckFence(a) \/ InsertKey(a) \/ RunBody(a) \/ FailBody(a) \/ Replay(a)
                 \/ DbAbort(a) \/ FailStatement(a)
        PROVE  UNCHANGED <<request, entry, answer>>
    BY <1>6 DEF Begin, CheckFence, InsertKey, RunBody, FailBody, Replay, DbAbort, FailStatement, dbVars
  <1>7. SetFence \/ UNCHANGED vars => UNCHANGED <<request, entry, answer>>
    BY DEF SetFence, vars, dbVars
  <1> QED
    BY <1>1, <1>2, <1>3, <1>4, <1>5, <1>6, <1>7 DEF Next, ServerNext

(***************************************************************************)
(* The executor implements the at-most-once promise, whatever transactions *)
(* are cut off, rolled back or committed unheard, and however often and    *)
(* concurrently a key is retried.                                          *)
(***************************************************************************)
THEOREM AtMostOnceKept == Spec => KeepsPromise
  <1>1. Init => Promise!Init
    BY SameConstants DEF Init, Promise!Init
  <1> QED
    BY <1>1, InvHolds, PromiseStep, PTL DEF Spec, KeepsPromise, Promise!Spec
=============================================================================
