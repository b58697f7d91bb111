-------------------------- MODULE ConnectionsProofs --------------------------
(***************************************************************************)
(* The database client keeps the promise of CallOutcome, and hands on no   *)
(* connection with anything left on it: for any calls, connections, pool   *)
(* size and number of faults.                                              *)
(***************************************************************************)
EXTENDS Connections, TLAPS

Labels  == {"idle", "waiting", "run", "begin", "work", "commit", "rollback", "done"}
Answers == {"none", "ok", "refused", "failed", "unknown"}
Places  == {"none", "free", "held", "gone"}
Wires   == Commands \cup {"quiet", "done", "error"}

TypeInv ==
  /\ pc \in [Calls -> Labels]
  /\ answer \in [Calls -> Answers]
  /\ late \subseteq Calls
  /\ place \in [Conns -> Places]
  /\ user \in [Conns -> Calls \cup {NoCall}]
  /\ wire \in [Conns -> Wires]
  /\ open \subseteq Conns /\ down \subseteq Conns
  /\ committed \subseteq Writers
  /\ closed \in BOOLEAN

\* What was answered is true, and a call that was not sent its COMMIT, or its
\* only statement, has written nothing.
AnswerInv ==
  \A o \in Calls :
    /\ answer[o] = "none" <=> pc[o] # "done"
    /\ answer[o] = "ok" /\ o \in Writers => o \in committed
    /\ answer[o] = "refused" => o \notin committed
    /\ answer[o] = "failed" /\ Kind[o] # "execute" => o \notin committed
    /\ pc[o] \in {"idle", "waiting", "begin", "work", "rollback"} => o \notin committed

\* A connection works for the call that holds it, or, destroyed with a command
\* still to be served, for one that was told it does not know the outcome.
PoolInv ==
  \A c \in Conns :
    /\ place[c] \in {"none", "free"} => wire[c] = "quiet" /\ c \notin open
    /\ place[c] \in {"held", "gone"} => user[c] \in Calls
    /\ place[c] = "held" => pc[user[c]] \in {"run", "begin", "work", "commit", "rollback"}
    /\ place[c] = "gone" /\ wire[c] \in Commands => answer[user[c]] = "unknown"
    /\ wire[c] \in {"write", "commit"} => user[c] \in Writers

\* No call holds two connections.
Exclusive ==
  \A c, d \in Conns : place[c] = "held" /\ place[d] = "held" /\ user[c] = user[d] => c = d

(***************************************************************************)
(* What a call knows of its connection at each stage: which command may be *)
(* on the wire, and what a reply to it means for the transaction in MySQL. *)
(***************************************************************************)
Running(o, c) ==
  /\ Kind[o] # "transaction" /\ c \notin open
  /\ wire[c] \in {"write", "ask", "done", "error"}
  /\ wire[c] = "done" /\ o \in Writers => o \in committed
  /\ o \in Writers => wire[c] # "ask"

Beginning(o, c) ==
  /\ Kind[o] = "transaction"
  /\ wire[c] \in {"begin", "done", "error"}
  /\ wire[c] = "done" => c \in open

\* A statement is never sent outside of the transaction: if that was lost, so
\* was the connection.
Working(o, c) ==
  /\ Kind[o] = "transaction"
  /\ wire[c] \in {"quiet", "write", "done", "error"}
  /\ wire[c] \in {"write", "done"} => c \in open
  /\ wire[c] = "quiet" => c \in open \cup down

Committing(o, c) ==
  /\ Kind[o] = "transaction"
  /\ wire[c] \in {"commit", "done", "error"}
  /\ wire[c] = "done" => c \notin open /\ o \in committed

RollingBack(o, c) ==
  /\ Kind[o] = "transaction"
  /\ wire[c] \in {"rollback", "done", "error"}
  /\ wire[c] = "done" => c \notin open

StageInv ==
  \A o \in Calls, c \in Conns : Holds(o, c) =>
    /\ pc[o] = "run"      => Running(o, c)
    /\ pc[o] = "begin"    => Beginning(o, c)
    /\ pc[o] = "work"     => Working(o, c)
    /\ pc[o] = "commit"   => Committing(o, c)
    /\ pc[o] = "rollback" => RollingBack(o, c)

ConnInv == TypeInv /\ AnswerInv /\ PoolInv /\ Exclusive /\ StageInv

-----------------------------------------------------------------------------
LEMMA InitInv == Init => ConnInv
  <1> SUFFICES ASSUME Init PROVE ConnInv
    OBVIOUS
  <1> USE ConnectionsAssumption DEF Init, Labels, Answers, Places, Wires, Commands, Writers
  <1>1. TypeInv
    BY DEF TypeInv
  <1>2. AnswerInv
    BY DEF AnswerInv
  <1>3. PoolInv
    BY DEF PoolInv
  <1>4. Exclusive /\ StageInv
    BY DEF Exclusive, StageInv, Holds
  <1> QED
    BY <1>1, <1>2, <1>3, <1>4 DEF ConnInv

LEMMA TypeInvStep ==
  ASSUME ConnInv, [Next]_vars
  PROVE  TypeInv'
  <1> USE ConnectionsAssumption DEF
        ConnInv, TypeInv, PoolInv, Labels, Answers, Places, Wires, Commands, Writers, Holds,
        vars, clientVars, poolVars, serverVars
  <1>1. ASSUME NEW o \in Calls, Refuse(o)
        PROVE  TypeInv'
    BY <1>1 DEF Refuse, Answer
  <1>2. ASSUME NEW o \in Calls, Ask(o)
        PROVE  TypeInv'
    BY <1>2 DEF Ask, Goto
  <1>3. ASSUME NEW o \in Calls, NoConnection(o)
        PROVE  TypeInv'
    BY <1>3 DEF NoConnection, Answer
  <1>4. ASSUME NEW o \in Calls, GiveUp(o)
        PROVE  TypeInv'
    BY <1>4 DEF GiveUp, Answer
  <1>5. ASSUME NEW o \in Calls, NoLateConnection(o)
        PROVE  TypeInv'
    BY <1>5 DEF NoLateConnection
  <1>6. ASSUME NEW o \in Calls, NEW c \in Conns, Grant(o, c)
        PROVE  TypeInv'
    BY <1>6 DEF Grant, Goto, Send, Available
  <1>7. ASSUME NEW o \in Calls, NEW c \in Conns, GrantTooLate(o, c)
        PROVE  TypeInv'
    BY <1>7 DEF GrantTooLate, Answer, Available
  <1>8. ASSUME NEW o \in Calls, NEW c \in Conns, Returns(o, c)
        PROVE  TypeInv'
    BY <1>8 DEF Returns, Answer, Release, EndSession, Quiet
  <1>9. ASSUME NEW o \in Calls, NEW c \in Conns, Fails(o, c)
        PROVE  TypeInv'
    BY <1>9 DEF Fails, Answer, Release, Destroy, EndSession, Quiet
  <1>10. ASSUME NEW o \in Calls, NEW c \in Conns, Interrupt(o, c)
        PROVE  TypeInv'
    BY <1>10 DEF Interrupt, Answer, Destroy, EndSession, Quiet
  <1>11. ASSUME NEW o \in Calls, NEW c \in Conns, Begun(o, c)
        PROVE  TypeInv'
    BY <1>11 DEF Begun, Goto, Quiet
  <1>12. ASSUME NEW o \in Calls, NEW c \in Conns, BeginFails(o, c)
        PROVE  TypeInv'
    BY <1>12 DEF BeginFails, Answer, Destroy, EndSession, Quiet
  <1>13. ASSUME NEW o \in Calls, NEW c \in Conns, Execute(o, c)
        PROVE  TypeInv'
    BY <1>13 DEF Execute, Send
  <1>14. ASSUME NEW o \in Calls, NEW c \in Conns, Executed(o, c)
        PROVE  TypeInv'
    BY <1>14 DEF Executed, Quiet
  <1>15. ASSUME NEW o \in Calls, NEW c \in Conns, CallbackThrows(o, c)
        PROVE  TypeInv'
    BY <1>15 DEF CallbackThrows, Goto, Send
  <1>16. ASSUME NEW o \in Calls, NEW c \in Conns, CallbackReturns(o, c)
        PROVE  TypeInv'
    BY <1>16 DEF CallbackReturns, Goto, Send
  <1>17. ASSUME NEW o \in Calls, NEW c \in Conns, CommitReturns(o, c)
        PROVE  TypeInv'
    BY <1>17 DEF CommitReturns, Answer, Release, EndSession, Quiet
  <1>18. ASSUME NEW o \in Calls, NEW c \in Conns, CommitFails(o, c)
        PROVE  TypeInv'
    BY <1>18 DEF CommitFails, Answer, Destroy, EndSession, Quiet
  <1>19. ASSUME NEW o \in Calls, NEW c \in Conns, RollbackReturns(o, c)
        PROVE  TypeInv'
    BY <1>19 DEF RollbackReturns, Answer, Release, EndSession, Quiet
  <1>20. ASSUME NEW o \in Calls, NEW c \in Conns, RollbackFails(o, c)
        PROVE  TypeInv'
    BY <1>20 DEF RollbackFails, Answer, Destroy, EndSession, Quiet
  <1>21. ASSUME NEW o \in Calls, NEW c \in Conns, Cancel(o, c)
        PROVE  TypeInv'
    BY <1>21 DEF Cancel, Answer, Destroy, EndSession, Quiet
  <1>22. ASSUME NEW o \in Calls, NEW c \in Conns, LateConnection(o, c)
        PROVE  TypeInv'
    BY <1>22 DEF LateConnection, Available
  <1>23. ASSUME NEW c \in Conns, Serve(c)
        PROVE  TypeInv'
    BY <1>23 DEF Serve, EndSession, Quiet
  <1>24. ASSUME NEW c \in Conns, Reject(c)
        PROVE  TypeInv'
    BY <1>24 DEF Reject
  <1>25. ASSUME NEW c \in Conns, Lose(c)
        PROVE  TypeInv'
    BY <1>25 DEF Lose
  <1>26. ASSUME NEW c \in Conns, Vanish(c)
        PROVE  TypeInv'
    BY <1>26 DEF Vanish, EndSession, Quiet
  <1>27. CASE Close
    BY <1>27 DEF Close
  <1>28. CASE UNCHANGED vars
    BY <1>28
  <1> QED
    BY <1>1, <1>2, <1>3, <1>4, <1>5, <1>6, <1>7, <1>8, <1>9, <1>10, <1>11, <1>12, <1>13,
       <1>14, <1>15, <1>16, <1>17, <1>18, <1>19, <1>20, <1>21, <1>22, <1>23, <1>24, <1>25, <1>26,
       <1>27, <1>28 DEF Next, Call

LEMMA AnswerInvStep ==
  ASSUME ConnInv, [Next]_vars
  PROVE  AnswerInv'
  <1> USE ConnectionsAssumption DEF
        ConnInv, TypeInv, AnswerInv, PoolInv, StageInv, Running, Beginning, Working,
        Committing, RollingBack, Labels, Answers, Places, Wires, Commands, Writers, Holds,
        vars, clientVars, poolVars, serverVars
  <1>1. ASSUME NEW o \in Calls, Refuse(o)
        PROVE  AnswerInv'
    BY <1>1 DEF Refuse, Answer
  <1>2. ASSUME NEW o \in Calls, Ask(o)
        PROVE  AnswerInv'
    BY <1>2 DEF Ask, Goto
  <1>3. ASSUME NEW o \in Calls, NoConnection(o)
        PROVE  AnswerInv'
    BY <1>3 DEF NoConnection, Answer
  <1>4. ASSUME NEW o \in Calls, GiveUp(o)
        PROVE  AnswerInv'
    BY <1>4 DEF GiveUp, Answer
  <1>5. ASSUME NEW o \in Calls, NoLateConnection(o)
        PROVE  AnswerInv'
    BY <1>5 DEF NoLateConnection
  <1>6. ASSUME NEW o \in Calls, NEW c \in Conns, Grant(o, c)
        PROVE  AnswerInv'
    BY <1>6 DEF Grant, Goto, Send, Available
  <1>7. ASSUME NEW o \in Calls, NEW c \in Conns, GrantTooLate(o, c)
        PROVE  AnswerInv'
    BY <1>7 DEF GrantTooLate, Answer, Available
  <1>8. ASSUME NEW o \in Calls, NEW c \in Conns, Returns(o, c)
        PROVE  AnswerInv'
    BY <1>8 DEF Returns, Answer, Release, EndSession, Quiet
  <1>9. ASSUME NEW o \in Calls, NEW c \in Conns, Fails(o, c)
        PROVE  AnswerInv'
    BY <1>9 DEF Fails, Answer, Release, Destroy, EndSession, Quiet
  <1>10. ASSUME NEW o \in Calls, NEW c \in Conns, Interrupt(o, c)
        PROVE  AnswerInv'
    BY <1>10 DEF Interrupt, Answer, Destroy, EndSession, Quiet
  <1>11. ASSUME NEW o \in Calls, NEW c \in Conns, Begun(o, c)
        PROVE  AnswerInv'
    BY <1>11 DEF Begun, Goto, Quiet
  <1>12. ASSUME NEW o \in Calls, NEW c \in Conns, BeginFails(o, c)
        PROVE  AnswerInv'
    BY <1>12 DEF BeginFails, Answer, Destroy, EndSession, Quiet
  <1>13. ASSUME NEW o \in Calls, NEW c \in Conns, Execute(o, c)
        PROVE  AnswerInv'
    BY <1>13 DEF Execute, Send
  <1>14. ASSUME NEW o \in Calls, NEW c \in Conns, Executed(o, c)
        PROVE  AnswerInv'
    BY <1>14 DEF Executed, Quiet
  <1>15. ASSUME NEW o \in Calls, NEW c \in Conns, CallbackThrows(o, c)
        PROVE  AnswerInv'
    BY <1>15 DEF CallbackThrows, Goto, Send
  <1>16. ASSUME NEW o \in Calls, NEW c \in Conns, CallbackReturns(o, c)
        PROVE  AnswerInv'
    BY <1>16 DEF CallbackReturns, Goto, Send
  <1>17. ASSUME NEW o \in Calls, NEW c \in Conns, CommitReturns(o, c)
        PROVE  AnswerInv'
    BY <1>17 DEF CommitReturns, Answer, Release, EndSession, Quiet
  <1>18. ASSUME NEW o \in Calls, NEW c \in Conns, CommitFails(o, c)
        PROVE  AnswerInv'
    BY <1>18 DEF CommitFails, Answer, Destroy, EndSession, Quiet
  <1>19. ASSUME NEW o \in Calls, NEW c \in Conns, RollbackReturns(o, c)
        PROVE  AnswerInv'
    BY <1>19 DEF RollbackReturns, Answer, Release, EndSession, Quiet
  <1>20. ASSUME NEW o \in Calls, NEW c \in Conns, RollbackFails(o, c)
        PROVE  AnswerInv'
    BY <1>20 DEF RollbackFails, Answer, Destroy, EndSession, Quiet
  <1>21. ASSUME NEW o \in Calls, NEW c \in Conns, Cancel(o, c)
        PROVE  AnswerInv'
    BY <1>21 DEF Cancel, Answer, Destroy, EndSession, Quiet
  <1>22. ASSUME NEW o \in Calls, NEW c \in Conns, LateConnection(o, c)
        PROVE  AnswerInv'
    BY <1>22 DEF LateConnection, Available
  <1>23. ASSUME NEW c \in Conns, Serve(c)
        PROVE  AnswerInv'
    BY <1>23 DEF Serve, EndSession, Quiet
  <1>24. ASSUME NEW c \in Conns, Reject(c)
        PROVE  AnswerInv'
    BY <1>24 DEF Reject
  <1>25. ASSUME NEW c \in Conns, Lose(c)
        PROVE  AnswerInv'
    BY <1>25 DEF Lose
  <1>26. ASSUME NEW c \in Conns, Vanish(c)
        PROVE  AnswerInv'
    BY <1>26 DEF Vanish, EndSession, Quiet
  <1>27. CASE Close
    BY <1>27 DEF Close
  <1>28. CASE UNCHANGED vars
    BY <1>28
  <1> QED
    BY <1>1, <1>2, <1>3, <1>4, <1>5, <1>6, <1>7, <1>8, <1>9, <1>10, <1>11, <1>12, <1>13,
       <1>14, <1>15, <1>16, <1>17, <1>18, <1>19, <1>20, <1>21, <1>22, <1>23, <1>24, <1>25, <1>26,
       <1>27, <1>28 DEF Next, Call

LEMMA PoolInvStep ==
  ASSUME ConnInv, [Next]_vars
  PROVE  PoolInv'
  <1> USE ConnectionsAssumption DEF
        ConnInv, TypeInv, AnswerInv, PoolInv, StageInv, Exclusive, Running, Beginning,
        Working, Committing, RollingBack, Labels, Answers, Places, Wires, Commands, Writers,
        Holds, vars, clientVars, poolVars, serverVars
  <1>1. ASSUME NEW o \in Calls, Refuse(o)
        PROVE  PoolInv'
    BY <1>1 DEF Refuse, Answer
  <1>2. ASSUME NEW o \in Calls, Ask(o)
        PROVE  PoolInv'
    BY <1>2 DEF Ask, Goto
  <1>3. ASSUME NEW o \in Calls, NoConnection(o)
        PROVE  PoolInv'
    BY <1>3 DEF NoConnection, Answer
  <1>4. ASSUME NEW o \in Calls, GiveUp(o)
        PROVE  PoolInv'
    BY <1>4 DEF GiveUp, Answer
  <1>5. ASSUME NEW o \in Calls, NoLateConnection(o)
        PROVE  PoolInv'
    BY <1>5 DEF NoLateConnection
  <1>6. ASSUME NEW o \in Calls, NEW c \in Conns, Grant(o, c)
        PROVE  PoolInv'
    BY <1>6 DEF Grant, Goto, Send, Available
  <1>7. ASSUME NEW o \in Calls, NEW c \in Conns, GrantTooLate(o, c)
        PROVE  PoolInv'
    BY <1>7 DEF GrantTooLate, Answer, Available
  <1>8. ASSUME NEW o \in Calls, NEW c \in Conns, Returns(o, c)
        PROVE  PoolInv'
    BY <1>8 DEF Returns, Answer, Release, EndSession, Quiet
  <1>9. ASSUME NEW o \in Calls, NEW c \in Conns, Fails(o, c)
        PROVE  PoolInv'
    BY <1>9 DEF Fails, Answer, Release, Destroy, EndSession, Quiet
  <1>10. ASSUME NEW o \in Calls, NEW c \in Conns, Interrupt(o, c)
        PROVE  PoolInv'
    BY <1>10 DEF Interrupt, Answer, Destroy, EndSession, Quiet
  <1>11. ASSUME NEW o \in Calls, NEW c \in Conns, Begun(o, c)
        PROVE  PoolInv'
    BY <1>11 DEF Begun, Goto, Quiet
  <1>12. ASSUME NEW o \in Calls, NEW c \in Conns, BeginFails(o, c)
        PROVE  PoolInv'
    BY <1>12 DEF BeginFails, Answer, Destroy, EndSession, Quiet
  <1>13. ASSUME NEW o \in Calls, NEW c \in Conns, Execute(o, c)
        PROVE  PoolInv'
    BY <1>13 DEF Execute, Send
  <1>14. ASSUME NEW o \in Calls, NEW c \in Conns, Executed(o, c)
        PROVE  PoolInv'
    BY <1>14 DEF Executed, Quiet
  <1>15. ASSUME NEW o \in Calls, NEW c \in Conns, CallbackThrows(o, c)
        PROVE  PoolInv'
    BY <1>15 DEF CallbackThrows, Goto, Send
  <1>16. ASSUME NEW o \in Calls, NEW c \in Conns, CallbackReturns(o, c)
        PROVE  PoolInv'
    BY <1>16 DEF CallbackReturns, Goto, Send
  <1>17. ASSUME NEW o \in Calls, NEW c \in Conns, CommitReturns(o, c)
        PROVE  PoolInv'
    BY <1>17 DEF CommitReturns, Answer, Release, EndSession, Quiet
  <1>18. ASSUME NEW o \in Calls, NEW c \in Conns, CommitFails(o, c)
        PROVE  PoolInv'
    BY <1>18 DEF CommitFails, Answer, Destroy, EndSession, Quiet
  <1>19. ASSUME NEW o \in Calls, NEW c \in Conns, RollbackReturns(o, c)
        PROVE  PoolInv'
    BY <1>19 DEF RollbackReturns, Answer, Release, EndSession, Quiet
  <1>20. ASSUME NEW o \in Calls, NEW c \in Conns, RollbackFails(o, c)
        PROVE  PoolInv'
    BY <1>20 DEF RollbackFails, Answer, Destroy, EndSession, Quiet
  <1>21. ASSUME NEW o \in Calls, NEW c \in Conns, Cancel(o, c)
        PROVE  PoolInv'
    BY <1>21 DEF Cancel, Answer, Destroy, EndSession, Quiet
  <1>22. ASSUME NEW o \in Calls, NEW c \in Conns, LateConnection(o, c)
        PROVE  PoolInv'
    BY <1>22 DEF LateConnection, Available
  <1>23. ASSUME NEW c \in Conns, Serve(c)
        PROVE  PoolInv'
    BY <1>23 DEF Serve, EndSession, Quiet
  <1>24. ASSUME NEW c \in Conns, Reject(c)
        PROVE  PoolInv'
    BY <1>24 DEF Reject
  <1>25. ASSUME NEW c \in Conns, Lose(c)
        PROVE  PoolInv'
    BY <1>25 DEF Lose
  <1>26. ASSUME NEW c \in Conns, Vanish(c)
        PROVE  PoolInv'
    BY <1>26 DEF Vanish, EndSession, Quiet
  <1>27. CASE Close
    BY <1>27 DEF Close
  <1>28. CASE UNCHANGED vars
    BY <1>28
  <1> QED
    BY <1>1, <1>2, <1>3, <1>4, <1>5, <1>6, <1>7, <1>8, <1>9, <1>10, <1>11, <1>12, <1>13,
       <1>14, <1>15, <1>16, <1>17, <1>18, <1>19, <1>20, <1>21, <1>22, <1>23, <1>24, <1>25, <1>26,
       <1>27, <1>28 DEF Next, Call

LEMMA ExclusiveStep ==
  ASSUME ConnInv, [Next]_vars
  PROVE  Exclusive'
  <1> USE ConnectionsAssumption DEF
        ConnInv, TypeInv, PoolInv, Exclusive, Labels, Answers, Places, Wires, Commands,
        Writers, Holds, vars, clientVars, poolVars, serverVars
  <1>1. ASSUME NEW o \in Calls, Refuse(o)
        PROVE  Exclusive'
    BY <1>1 DEF Refuse, Answer
  <1>2. ASSUME NEW o \in Calls, Ask(o)
        PROVE  Exclusive'
    BY <1>2 DEF Ask, Goto
  <1>3. ASSUME NEW o \in Calls, NoConnection(o)
        PROVE  Exclusive'
    BY <1>3 DEF NoConnection, Answer
  <1>4. ASSUME NEW o \in Calls, GiveUp(o)
        PROVE  Exclusive'
    BY <1>4 DEF GiveUp, Answer
  <1>5. ASSUME NEW o \in Calls, NoLateConnection(o)
        PROVE  Exclusive'
    BY <1>5 DEF NoLateConnection
  <1>6. ASSUME NEW o \in Calls, NEW c \in Conns, Grant(o, c)
        PROVE  Exclusive'
    BY <1>6 DEF Grant, Goto, Send, Available
  <1>7. ASSUME NEW o \in Calls, NEW c \in Conns, GrantTooLate(o, c)
        PROVE  Exclusive'
    BY <1>7 DEF GrantTooLate, Answer, Available
  <1>8. ASSUME NEW o \in Calls, NEW c \in Conns, Returns(o, c)
        PROVE  Exclusive'
    BY <1>8 DEF Returns, Answer, Release, EndSession, Quiet
  <1>9. ASSUME NEW o \in Calls, NEW c \in Conns, Fails(o, c)
        PROVE  Exclusive'
    BY <1>9 DEF Fails, Answer, Release, Destroy, EndSession, Quiet
  <1>10. ASSUME NEW o \in Calls, NEW c \in Conns, Interrupt(o, c)
        PROVE  Exclusive'
    BY <1>10 DEF Interrupt, Answer, Destroy, EndSession, Quiet
  <1>11. ASSUME NEW o \in Calls, NEW c \in Conns, Begun(o, c)
        PROVE  Exclusive'
    BY <1>11 DEF Begun, Goto, Quiet
  <1>12. ASSUME NEW o \in Calls, NEW c \in Conns, BeginFails(o, c)
        PROVE  Exclusive'
    BY <1>12 DEF BeginFails, Answer, Destroy, EndSession, Quiet
  <1>13. ASSUME NEW o \in Calls, NEW c \in Conns, Execute(o, c)
        PROVE  Exclusive'
    BY <1>13 DEF Execute, Send
  <1>14. ASSUME NEW o \in Calls, NEW c \in Conns, Executed(o, c)
        PROVE  Exclusive'
    BY <1>14 DEF Executed, Quiet
  <1>15. ASSUME NEW o \in Calls, NEW c \in Conns, CallbackThrows(o, c)
        PROVE  Exclusive'
    BY <1>15 DEF CallbackThrows, Goto, Send
  <1>16. ASSUME NEW o \in Calls, NEW c \in Conns, CallbackReturns(o, c)
        PROVE  Exclusive'
    BY <1>16 DEF CallbackReturns, Goto, Send
  <1>17. ASSUME NEW o \in Calls, NEW c \in Conns, CommitReturns(o, c)
        PROVE  Exclusive'
    BY <1>17 DEF CommitReturns, Answer, Release, EndSession, Quiet
  <1>18. ASSUME NEW o \in Calls, NEW c \in Conns, CommitFails(o, c)
        PROVE  Exclusive'
    BY <1>18 DEF CommitFails, Answer, Destroy, EndSession, Quiet
  <1>19. ASSUME NEW o \in Calls, NEW c \in Conns, RollbackReturns(o, c)
        PROVE  Exclusive'
    BY <1>19 DEF RollbackReturns, Answer, Release, EndSession, Quiet
  <1>20. ASSUME NEW o \in Calls, NEW c \in Conns, RollbackFails(o, c)
        PROVE  Exclusive'
    BY <1>20 DEF RollbackFails, Answer, Destroy, EndSession, Quiet
  <1>21. ASSUME NEW o \in Calls, NEW c \in Conns, Cancel(o, c)
        PROVE  Exclusive'
    BY <1>21 DEF Cancel, Answer, Destroy, EndSession, Quiet
  <1>22. ASSUME NEW o \in Calls, NEW c \in Conns, LateConnection(o, c)
        PROVE  Exclusive'
    BY <1>22 DEF LateConnection, Available
  <1>23. ASSUME NEW c \in Conns, Serve(c)
        PROVE  Exclusive'
    BY <1>23 DEF Serve, EndSession, Quiet
  <1>24. ASSUME NEW c \in Conns, Reject(c)
        PROVE  Exclusive'
    BY <1>24 DEF Reject
  <1>25. ASSUME NEW c \in Conns, Lose(c)
        PROVE  Exclusive'
    BY <1>25 DEF Lose
  <1>26. ASSUME NEW c \in Conns, Vanish(c)
        PROVE  Exclusive'
    BY <1>26 DEF Vanish, EndSession, Quiet
  <1>27. CASE Close
    BY <1>27 DEF Close
  <1>28. CASE UNCHANGED vars
    BY <1>28
  <1> QED
    BY <1>1, <1>2, <1>3, <1>4, <1>5, <1>6, <1>7, <1>8, <1>9, <1>10, <1>11, <1>12, <1>13,
       <1>14, <1>15, <1>16, <1>17, <1>18, <1>19, <1>20, <1>21, <1>22, <1>23, <1>24, <1>25, <1>26,
       <1>27, <1>28 DEF Next, Call

LEMMA StageInvStep ==
  ASSUME ConnInv, [Next]_vars
  PROVE  StageInv'
  <1> USE ConnectionsAssumption DEF
        ConnInv, TypeInv, AnswerInv, PoolInv, Exclusive, StageInv, Running, Beginning,
        Working, Committing, RollingBack, Labels, Answers, Places, Wires, Commands, Writers,
        Holds, vars, clientVars, poolVars, serverVars
  <1>1. ASSUME NEW o \in Calls, Refuse(o)
        PROVE  StageInv'
    BY <1>1 DEF Refuse, Answer
  <1>2. ASSUME NEW o \in Calls, Ask(o)
        PROVE  StageInv'
    BY <1>2 DEF Ask, Goto
  <1>3. ASSUME NEW o \in Calls, NoConnection(o)
        PROVE  StageInv'
    BY <1>3 DEF NoConnection, Answer
  <1>4. ASSUME NEW o \in Calls, GiveUp(o)
        PROVE  StageInv'
    BY <1>4 DEF GiveUp, Answer
  <1>5. ASSUME NEW o \in Calls, NoLateConnection(o)
        PROVE  StageInv'
    BY <1>5 DEF NoLateConnection
  <1>6. ASSUME NEW o \in Calls, NEW c \in Conns, Grant(o, c)
        PROVE  StageInv'
    BY <1>6 DEF Grant, Goto, Send, Available
  <1>7. ASSUME NEW o \in Calls, NEW c \in Conns, GrantTooLate(o, c)
        PROVE  StageInv'
    BY <1>7 DEF GrantTooLate, Answer, Available
  <1>8. ASSUME NEW o \in Calls, NEW c \in Conns, Returns(o, c)
        PROVE  StageInv'
    BY <1>8 DEF Returns, Answer, Release, EndSession, Quiet
  <1>9. ASSUME NEW o \in Calls, NEW c \in Conns, Fails(o, c)
        PROVE  StageInv'
    BY <1>9 DEF Fails, Answer, Release, Destroy, EndSession, Quiet
  <1>10. ASSUME NEW o \in Calls, NEW c \in Conns, Interrupt(o, c)
        PROVE  StageInv'
    BY <1>10 DEF Interrupt, Answer, Destroy, EndSession, Quiet
  <1>11. ASSUME NEW o \in Calls, NEW c \in Conns, Begun(o, c)
        PROVE  StageInv'
    BY <1>11 DEF Begun, Goto, Quiet
  <1>12. ASSUME NEW o \in Calls, NEW c \in Conns, BeginFails(o, c)
        PROVE  StageInv'
    BY <1>12 DEF BeginFails, Answer, Destroy, EndSession, Quiet
  <1>13. ASSUME NEW o \in Calls, NEW c \in Conns, Execute(o, c)
        PROVE  StageInv'
    BY <1>13 DEF Execute, Send
  <1>14. ASSUME NEW o \in Calls, NEW c \in Conns, Executed(o, c)
        PROVE  StageInv'
    BY <1>14 DEF Executed, Quiet
  <1>15. ASSUME NEW o \in Calls, NEW c \in Conns, CallbackThrows(o, c)
        PROVE  StageInv'
    BY <1>15 DEF CallbackThrows, Goto, Send
  <1>16. ASSUME NEW o \in Calls, NEW c \in Conns, CallbackReturns(o, c)
        PROVE  StageInv'
    BY <1>16 DEF CallbackReturns, Goto, Send
  <1>17. ASSUME NEW o \in Calls, NEW c \in Conns, CommitReturns(o, c)
        PROVE  StageInv'
    BY <1>17 DEF CommitReturns, Answer, Release, EndSession, Quiet
  <1>18. ASSUME NEW o \in Calls, NEW c \in Conns, CommitFails(o, c)
        PROVE  StageInv'
    BY <1>18 DEF CommitFails, Answer, Destroy, EndSession, Quiet
  <1>19. ASSUME NEW o \in Calls, NEW c \in Conns, RollbackReturns(o, c)
        PROVE  StageInv'
    BY <1>19 DEF RollbackReturns, Answer, Release, EndSession, Quiet
  <1>20. ASSUME NEW o \in Calls, NEW c \in Conns, RollbackFails(o, c)
        PROVE  StageInv'
    BY <1>20 DEF RollbackFails, Answer, Destroy, EndSession, Quiet
  <1>21. ASSUME NEW o \in Calls, NEW c \in Conns, Cancel(o, c)
        PROVE  StageInv'
    BY <1>21 DEF Cancel, Answer, Destroy, EndSession, Quiet
  <1>22. ASSUME NEW o \in Calls, NEW c \in Conns, LateConnection(o, c)
        PROVE  StageInv'
    BY <1>22 DEF LateConnection, Available
  <1>23. ASSUME NEW c \in Conns, Serve(c)
        PROVE  StageInv'
    BY <1>23 DEF Serve, EndSession, Quiet
  <1>24. ASSUME NEW c \in Conns, Reject(c)
        PROVE  StageInv'
    BY <1>24 DEF Reject
  <1>25. ASSUME NEW c \in Conns, Lose(c)
        PROVE  StageInv'
    BY <1>25 DEF Lose
  <1>26. ASSUME NEW c \in Conns, Vanish(c)
        PROVE  StageInv'
    BY <1>26 DEF Vanish, EndSession, Quiet
  <1>27. CASE Close
    BY <1>27 DEF Close
  <1>28. CASE UNCHANGED vars
    BY <1>28
  <1> QED
    BY <1>1, <1>2, <1>3, <1>4, <1>5, <1>6, <1>7, <1>8, <1>9, <1>10, <1>11, <1>12, <1>13,
       <1>14, <1>15, <1>16, <1>17, <1>18, <1>19, <1>20, <1>21, <1>22, <1>23, <1>24, <1>25, <1>26,
       <1>27, <1>28 DEF Next, Call

-----------------------------------------------------------------------------
LEMMA InvHolds == Spec => []ConnInv
  <1>1. ConnInv /\ [Next]_vars => ConnInv'
    BY TypeInvStep, AnswerInvStep, PoolInvStep, ExclusiveStep, StageInvStep DEF ConnInv
  <1> QED
    BY InitInv, <1>1, PTL DEF Spec

\* A connection in the pool has nothing of an earlier call on it, and one in
\* use belongs to one call that still waits for its answer.
THEOREM HandoverIsClean == Spec => []CleanHandover
  <1>1. ConnInv => CleanHandover
    <2> SUFFICES ASSUME ConnInv, NEW c \in Conns
                 PROVE  /\ place[c] \in {"none", "free"} => wire[c] = "quiet" /\ c \notin open
                        /\ place[c] = "held" => /\ pc[user[c]] \notin {"idle", "waiting", "done"}
                                                /\ \A d \in Conns \ {c} : ~Holds(user[c], d)
      BY DEF CleanHandover
    <2>1. place[c] \in {"none", "free"} => wire[c] = "quiet" /\ c \notin open
      BY DEF ConnInv, PoolInv
    <2>2. place[c] = "held" => pc[user[c]] \notin {"idle", "waiting", "done"}
      BY DEF ConnInv, PoolInv
    <2>3. ASSUME place[c] = "held", NEW d \in Conns \ {c}
          PROVE  ~Holds(user[c], d)
      BY <2>3 DEF ConnInv, Exclusive, Holds
    <2> QED
      BY <2>1, <2>2, <2>3
  <1> QED
    BY <1>1, InvHolds, PTL

-----------------------------------------------------------------------------
told == [o \in Writers |-> Told(o)]

\* A call is answered once, without a write, and the promise lets it be told so.
LEMMA Tells ==
  ASSUME ConnInv, NEW o \in Calls, NEW reply \in Answers \ {"none"},
         Answer(o, reply), pc[o] # "done", UNCHANGED committed,
         reply = "ok" /\ o \in Writers => o \in committed,
         reply = "refused" => o \notin committed,
         reply = "failed" /\ Kind[o] # "execute" => o \notin committed
  PROVE  [Outcome!Next]_<<committed, told>>
  <1>1. answer[o] = "none" /\ answer' = [answer EXCEPT ![o] = reply] /\ answer \in [Calls -> Answers]
    BY DEF ConnInv, TypeInv, AnswerInv, Answer
  <1>2. CASE o \notin Writers
    <2>1. \A w \in Writers : answer'[w] = answer[w]
      BY <1>1, <1>2 DEF Writers
    <2>2. told' = told
      BY <2>1 DEF told, Told
    <2> QED
      BY <2>2
  <1>3. CASE o \in Writers
    <2> DEFINE said == Told(o)'
    <2>1. said \in {"ok", "failed", "unknown"}
      BY <1>1 DEF Told, Answers
    <2>2. told[o] = "none"
      BY <1>1, <1>3 DEF told, Told
    <2>3. /\ said = "ok" => o \in committed
          /\ said = "failed" => o \notin committed
      BY <1>1, <1>3 DEF Told, Answers
    <2>4. told' = [told EXCEPT ![o] = said]
      <3>1. \A w \in Writers \ {o} : Told(w)' = Told(w)
        BY <1>1 DEF Told, Writers
      <3> QED
        BY <1>3, <3>1 DEF told
    <2>5. Outcome!Tell(o, said)
      BY <2>2, <2>3, <2>4 DEF Outcome!Tell, told
    <2> QED
      BY <1>3, <2>1, <2>5 DEF Outcome!Next
  <1> QED
    BY <1>2, <1>3

\* MySQL commits for a call that is not answered yet, or was told that the
\* outcome is unknown.
LEMMA Commits ==
  ASSUME ConnInv, NEW c \in Conns, Serve(c)
  PROVE  [Outcome!Next]_<<committed, told>>
  <1>1. told' = told
    BY DEF Serve, clientVars, told, Told
  <1>2. CASE committed' = committed
    BY <1>1, <1>2
  <1>3. CASE committed' # committed
    <2>1. /\ wire[c] \in {"write", "commit"}
          /\ user[c] \in Writers
          /\ user[c] \notin committed
          /\ committed' = committed \cup {user[c]}
      BY <1>3 DEF Serve, ConnInv, PoolInv
    <2>2. answer[user[c]] \in {"none", "unknown"}
      BY <2>1 DEF ConnInv, TypeInv, PoolInv, AnswerInv, Commands, Places, Writers
    <2>3. told[user[c]] \in {"none", "unknown"}
      BY <2>1, <2>2 DEF told, Told
    <2>4. Outcome!Commit(user[c])
      BY <1>1, <2>1, <2>3 DEF Outcome!Commit, told
    <2> QED
      BY <2>1, <2>4 DEF Outcome!Next
  <1> QED
    BY <1>2, <1>3

\* A step of the client, the pool or MySQL is a step of the promise, or leaves
\* alone what it is about.
LEMMA OutcomeStep ==
  ASSUME ConnInv, [Next]_vars
  PROVE  [Outcome!Next]_<<committed, told>>
  <1>1. ASSUME NEW o \in Calls, Refuse(o) \/ NoConnection(o) \/ GiveUp(o)
        PROVE  [Outcome!Next]_<<committed, told>>
    <2>1. Answer(o, "refused") /\ pc[o] \in {"idle", "waiting"} /\ UNCHANGED committed
      BY <1>1 DEF Refuse, NoConnection, GiveUp, serverVars
    <2>2. o \notin committed
      BY <2>1 DEF ConnInv, AnswerInv
    <2> QED
      BY <2>1, <2>2, Tells DEF Answers
  <1>2. ASSUME NEW o \in Calls, NEW c \in Conns, GrantTooLate(o, c)
        PROVE  [Outcome!Next]_<<committed, told>>
    <2>1. Answer(o, "refused") /\ pc[o] \in {"idle", "waiting"} /\ UNCHANGED committed
      BY <1>2 DEF GrantTooLate, serverVars
    <2>2. o \notin committed
      BY <2>1 DEF ConnInv, AnswerInv
    <2> QED
      BY <2>1, <2>2, Tells DEF Answers
  <1>3. ASSUME NEW o \in Calls, NEW c \in Conns, Returns(o, c) \/ CommitReturns(o, c)
        PROVE  [Outcome!Next]_<<committed, told>>
    <2>1. Answer(o, "ok") /\ pc[o] \in {"run", "commit"} /\ UNCHANGED committed
      BY <1>3 DEF Returns, CommitReturns, Release, EndSession, serverVars
    <2>2. o \in Writers => o \in committed
      BY <1>3 DEF Returns, CommitReturns, ConnInv, StageInv, Running, Committing
    <2> QED
      BY <2>1, <2>2, Tells DEF Answers
  <1>4. ASSUME NEW o \in Calls, NEW c \in Conns, Fails(o, c)
        PROVE  [Outcome!Next]_<<committed, told>>
    <2>1. Answer(o, "failed") /\ pc[o] \in {"run"} /\ UNCHANGED committed
      BY <1>4 DEF Fails, Release, Destroy, EndSession, serverVars
    <2>2. Kind[o] # "execute" => o \notin Writers
      BY <1>4 DEF Fails, ConnInv, StageInv, Running, Writers
    <2>3. Kind[o] # "execute" => o \notin committed
      BY <2>2 DEF ConnInv, TypeInv
    <2> QED
      BY <2>1, <2>3, Tells DEF Answers
  <1>5. ASSUME NEW o \in Calls, NEW c \in Conns, BeginFails(o, c) \/ RollbackReturns(o, c)
        PROVE  [Outcome!Next]_<<committed, told>>
    <2>1. Answer(o, "failed") /\ pc[o] \in {"begin", "rollback"} /\ UNCHANGED committed
      BY <1>5 DEF BeginFails, RollbackReturns, Release, Destroy, EndSession, serverVars
    <2>2. o \notin committed
      BY <2>1 DEF ConnInv, AnswerInv
    <2> QED
      BY <2>1, <2>2, Tells DEF Answers
  <1>6. ASSUME NEW o \in Calls, NEW c \in Conns,
               Interrupt(o, c) \/ CommitFails(o, c) \/ RollbackFails(o, c) \/ Cancel(o, c)
        PROVE  [Outcome!Next]_<<committed, told>>
    <2>1. Answer(o, "unknown") /\ pc[o] \in {"run", "begin", "work", "commit", "rollback"} /\ UNCHANGED committed
      BY <1>6 DEF Interrupt, CommitFails, RollbackFails, Cancel, Destroy, EndSession, serverVars
    <2> QED
      BY <2>1, Tells DEF Answers
  <1>7. ASSUME NEW o \in Calls, Ask(o) \/ NoLateConnection(o)
        PROVE  UNCHANGED <<committed, answer>>
    BY <1>7 DEF Ask, NoLateConnection, Goto, serverVars
  <1>8. ASSUME NEW o \in Calls, NEW c \in Conns,
               \/ Grant(o, c) \/ LateConnection(o, c) \/ Begun(o, c) \/ Execute(o, c)
               \/ Executed(o, c) \/ CallbackThrows(o, c) \/ CallbackReturns(o, c)
        PROVE  UNCHANGED <<committed, answer>>
    BY <1>8 DEF Grant, LateConnection, Begun, Execute, Executed, CallbackThrows, CallbackReturns,
               Goto, clientVars, serverVars
  <1>9. ASSUME NEW c \in Conns, Reject(c) \/ Lose(c) \/ Vanish(c)
        PROVE  UNCHANGED <<committed, answer>>
    BY <1>9 DEF Reject, Lose, Vanish, clientVars
  <1>10. Close \/ UNCHANGED vars => UNCHANGED <<committed, answer>>
    BY DEF Close, vars, clientVars, serverVars
  <1>11. ASSUME UNCHANGED <<committed, answer>>
        PROVE  [Outcome!Next]_<<committed, told>>
    BY <1>11 DEF told, Told
  <1> QED
    BY <1>1, <1>2, <1>3, <1>4, <1>5, <1>6, <1>7, <1>8, <1>9, <1>10, <1>11, Commits DEF Next,
       Call

(***************************************************************************)
(* The client implements CallOutcome: "ok" is only answered to a call      *)
(* whose writes are in the database, and an error that names the outcome   *)
(* only to one whose writes never will be, although MySQL may still serve  *)
(* the COMMIT of a connection that was destroyed.                          *)
(***************************************************************************)
THEOREM OutcomeKept == Spec => KeepsOutcome
  <1>1. Init => Outcome!Init
    BY DEF Init, Outcome!Init, Told, Writers
  <1>2. ConnInv /\ [Next]_vars => [Outcome!Next]_<<committed, [o \in Writers |-> Told(o)]>>
    BY OutcomeStep DEF told
  <1> QED
    BY <1>1, <1>2, InvHolds, PTL DEF Spec, KeepsOutcome, Outcome!Spec
=============================================================================
