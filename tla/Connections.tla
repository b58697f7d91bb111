---------------------------- MODULE Connections -----------------------------
(***************************************************************************)
(* The database client of the API: query, execute, ping and transaction    *)
(* over a pool of connections (infrastructure/database.ts). Every await of *)
(* a call is a race with its cancellation, which is its deadline or the    *)
(* abort signal of its caller. What a call leaves behind when it loses the *)
(* race goes on without it: a connection still to come, a command already  *)
(* sent, a transaction open in MySQL.                                      *)
(*                                                                         *)
(* The pool (mysql2) and the server are external: the pool hands out a     *)
(* connection that is free, or a new one while it has fewer than PoolSize, *)
(* in any order, and may fail to; a destroyed connection is not handed out *)
(* again. resetOnRelease is left out: what is shown here does not need it. *)
(***************************************************************************)
EXTENDS FiniteSets, Naturals

CONSTANTS Calls,     \* calls of the client, each made at most once (a bound)
          Kind,      \* Kind[o]: what call o is
          Conns,     \* the connections there may be at a time
          PoolSize,  \* connectionLimit
          NoCall,
          MaxFaults  \* how often a connection or a command fails (a bound)

Kinds == {"transaction", "execute", "query", "ping"}

ASSUME ConnectionsAssumption ==
  /\ Kind \in [Calls -> Kinds]
  /\ PoolSize \in Nat /\ MaxFaults \in Nat
  /\ NoCall \notin Calls

VARIABLES
  pc,         \* pc[o]: what call o waits for
  answer,     \* answer[o]: how call o ended, or "none"
  late,       \* calls that have given up, the connection they asked for still to come
  place,      \* place[c]: "none", "free" in the pool, "held" by a call, "gone" (destroyed)
  user,       \* user[c]: the call its session works for, or NoCall
  wire,       \* wire[c]: the command sent on it, or the reply to read, or "quiet"
  open,       \* connections with a transaction open in MySQL
  down,       \* connections that were lost
  committed,  \* calls whose writes are in the database
  closed,     \* the client was closed
  faults

clientVars == <<pc, answer, late>>
poolVars   == <<place, user>>
serverVars == <<open, down, committed, faults>>
vars == <<clientVars, poolVars, wire, serverVars, closed>>

Commands == {"begin", "write", "commit", "rollback", "ask"}

Init ==
  /\ pc = [o \in Calls |-> "idle"]
  /\ answer = [o \in Calls |-> "none"]
  /\ late = {}
  /\ place = [c \in Conns |-> "none"]
  /\ user = [c \in Conns |-> NoCall]
  /\ wire = [c \in Conns |-> "quiet"]
  /\ open = {} /\ down = {} /\ committed = {}
  /\ closed = FALSE
  /\ faults = 0

-----------------------------------------------------------------------------
(* Helpers *)

Holds(o, c) == place[c] = "held" /\ user[c] = o

Goto(o, label) == pc' = [pc EXCEPT ![o] = label] /\ UNCHANGED <<answer, late>>

\* "ok", "refused" (nothing was started), "failed", or "unknown": timed out or
\* aborted while something was under way.
Answer(o, reply) == /\ pc' = [pc EXCEPT ![o] = "done"]
                    /\ answer' = [answer EXCEPT ![o] = reply]

\* A connection that was lost, or whose pool has ended, takes no command.
Send(c, command) ==
  wire' = [wire EXCEPT ![c] = IF c \in down \/ closed THEN "error" ELSE command]

Quiet(c) == wire' = [wire EXCEPT ![c] = "quiet"]

\* MySQL closes the session of c, rolling back what it has open.
EndSession(c) ==
  /\ place' = [place EXCEPT ![c] = "none"]
  /\ user' = [user EXCEPT ![c] = NoCall]
  /\ Quiet(c)
  /\ open' = open \ {c} /\ down' = down \ {c}
  /\ UNCHANGED faults

Release(c) ==
  IF c \in down \/ closed
  THEN EndSession(c) /\ UNCHANGED committed
  ELSE /\ place' = [place EXCEPT ![c] = "free"]
       /\ user' = [user EXCEPT ![c] = NoCall]
       /\ Quiet(c)
       /\ UNCHANGED serverVars

\* The socket is closed; a command MySQL has received may still be served.
Destroy(c) ==
  IF c \in down
  THEN EndSession(c) /\ UNCHANGED committed
  ELSE /\ place' = [place EXCEPT ![c] = "gone"]
       /\ UNCHANGED <<user, wire, serverVars>>

InPool == {c \in Conns : place[c] \in {"free", "held"}}

Available(c) == /\ ~closed
                /\ place[c] = "free" \/ (place[c] = "none" /\ Cardinality(InPool) < PoolSize)

-----------------------------------------------------------------------------
(* Getting a connection *)

\* The client is closed, or the signal was aborted before.
Refuse(o) ==
  /\ pc[o] = "idle"
  /\ Answer(o, "refused")
  /\ UNCHANGED <<late, poolVars, wire, serverVars, closed>>

Ask(o) ==
  /\ pc[o] = "idle" /\ ~closed
  /\ Goto(o, "waiting")
  /\ UNCHANGED <<poolVars, wire, serverVars, closed>>

\* The queue is full, connecting fails, or the pool has ended.
NoConnection(o) ==
  /\ pc[o] = "waiting"
  /\ Answer(o, "refused")
  /\ UNCHANGED <<late, poolVars, wire, serverVars, closed>>

GiveUp(o) ==
  /\ pc[o] = "waiting"
  /\ Answer(o, "refused")
  /\ late' = late \cup {o}
  /\ UNCHANGED <<poolVars, wire, serverVars, closed>>

\* Mutant: the connection that comes late is left with the call that gave up.
LateConnectionKept(o, c) ==
  /\ o \in late /\ Available(c)
  /\ late' = late \ {o}
  /\ place' = [place EXCEPT ![c] = "held"]
  /\ user' = [user EXCEPT ![c] = o]
  /\ UNCHANGED <<pc, answer, wire, serverVars, closed>>

\* releaseLateConnection
LateConnection(o, c) ==
  /\ o \in late /\ Available(c)
  /\ late' = late \ {o}
  /\ place' = [place EXCEPT ![c] = "free"]
  /\ UNCHANGED <<pc, answer, user, wire, serverVars, closed>>

NoLateConnection(o) ==
  /\ o \in late
  /\ late' = late \ {o}
  /\ UNCHANGED <<pc, answer, poolVars, wire, serverVars, closed>>

Grant(o, c) ==
  /\ pc[o] = "waiting" /\ Available(c)
  /\ Goto(o, IF Kind[o] = "transaction" THEN "begin" ELSE "run")
  /\ place' = [place EXCEPT ![c] = "held"]
  /\ user' = [user EXCEPT ![c] = o]
  /\ Send(c, CASE Kind[o] = "transaction" -> "begin"
               [] Kind[o] = "execute"     -> "write"
               [] OTHER                   -> "ask")
  /\ UNCHANGED <<serverVars, closed>>

\* The signal is aborted, or no time is left, before the statement is sent.
GrantTooLate(o, c) ==
  /\ pc[o] = "waiting" /\ Available(c)
  /\ Kind[o] \in {"query", "execute"}
  /\ Answer(o, "refused")
  /\ place' = [place EXCEPT ![c] = "free"]
  /\ UNCHANGED <<late, user, wire, serverVars, closed>>

-----------------------------------------------------------------------------
(* query, execute and ping *)

Returns(o, c) ==
  /\ pc[o] = "run" /\ Holds(o, c) /\ wire[c] = "done"
  /\ Answer(o, "ok")
  /\ Release(c)
  /\ UNCHANGED <<late, closed>>

Fails(o, c) ==
  /\ pc[o] = "run" /\ Holds(o, c) /\ wire[c] = "error"
  /\ Answer(o, "failed")
  /\ IF Kind[o] = "ping" THEN Destroy(c) ELSE Release(c)
  /\ UNCHANGED <<late, closed>>

Interrupt(o, c) ==
  /\ pc[o] = "run" /\ Holds(o, c)
  /\ Answer(o, "unknown")
  /\ Destroy(c)
  /\ UNCHANGED <<late, closed>>

-----------------------------------------------------------------------------
(* transaction *)

Begun(o, c) ==
  /\ pc[o] = "begin" /\ Holds(o, c) /\ wire[c] = "done"
  /\ Goto(o, "work")
  /\ Quiet(c)
  /\ UNCHANGED <<poolVars, serverVars, closed>>

BeginFails(o, c) ==
  /\ pc[o] = "begin" /\ Holds(o, c) /\ wire[c] = "error"
  /\ Answer(o, "failed")
  /\ Destroy(c)
  /\ UNCHANGED <<late, closed>>

\* The callback sends its statements one after the other.
Execute(o, c) ==
  /\ pc[o] = "work" /\ Holds(o, c) /\ wire[c] = "quiet"
  /\ Send(c, "write")
  /\ UNCHANGED <<clientVars, poolVars, serverVars, closed>>

Executed(o, c) ==
  /\ pc[o] = "work" /\ Holds(o, c) /\ wire[c] = "done"
  /\ Quiet(c)
  /\ UNCHANGED <<clientVars, poolVars, serverVars, closed>>

\* The callback throws, for reasons of its own or as its statement failed.
CallbackThrows(o, c) ==
  /\ pc[o] = "work" /\ Holds(o, c) /\ wire[c] \in {"quiet", "error"}
  /\ Goto(o, "rollback")
  /\ Send(c, "rollback")
  /\ UNCHANGED <<poolVars, serverVars, closed>>

CallbackReturns(o, c) ==
  /\ pc[o] = "work" /\ Holds(o, c) /\ wire[c] = "quiet"
  /\ Goto(o, "commit")
  /\ Send(c, "commit")
  /\ UNCHANGED <<poolVars, serverVars, closed>>

CommitReturns(o, c) ==
  /\ pc[o] = "commit" /\ Holds(o, c) /\ wire[c] = "done"
  /\ Answer(o, "ok")
  /\ Release(c)
  /\ UNCHANGED <<late, closed>>

\* Mutant: COMMIT returned an error, so nothing was committed.
CommitFailsForSure(o, c) ==
  /\ pc[o] = "commit" /\ Holds(o, c) /\ wire[c] = "error"
  /\ Answer(o, "failed")
  /\ Destroy(c)
  /\ UNCHANGED <<late, closed>>

CommitFails(o, c) ==
  /\ pc[o] = "commit" /\ Holds(o, c) /\ wire[c] = "error"
  /\ Answer(o, "unknown")
  /\ Destroy(c)
  /\ UNCHANGED <<late, closed>>

\* The error of the callback is thrown on.
RollbackReturns(o, c) ==
  /\ pc[o] = "rollback" /\ Holds(o, c) /\ wire[c] = "done"
  /\ Answer(o, "failed")
  /\ Release(c)
  /\ UNCHANGED <<late, closed>>

RollbackFails(o, c) ==
  /\ pc[o] = "rollback" /\ Holds(o, c) /\ wire[c] = "error"
  /\ Answer(o, "unknown")
  /\ Destroy(c)
  /\ UNCHANGED <<late, closed>>

\* Mutant: the connection of a cancelled transaction goes back to the pool.
CancelAndRelease(o, c) ==
  /\ pc[o] \in {"begin", "work", "commit", "rollback"} /\ Holds(o, c)
  /\ Answer(o, "unknown")
  /\ Release(c)
  /\ UNCHANGED <<late, closed>>

\* The time of the transaction is up, or of a statement in it.
Cancel(o, c) ==
  /\ pc[o] \in {"begin", "work", "commit", "rollback"} /\ Holds(o, c)
  /\ Answer(o, "unknown")
  /\ Destroy(c)
  /\ UNCHANGED <<late, closed>>

-----------------------------------------------------------------------------
(* The server and the network *)

\* MySQL serves the command it received, even on a connection just destroyed;
\* a statement outside a transaction commits by itself.
Serve(c) ==
  /\ wire[c] \in Commands
  /\ committed' = IF wire[c] = "commit" \/ (wire[c] = "write" /\ c \notin open)
                  THEN committed \cup {user[c]} ELSE committed
  /\ IF place[c] = "gone"
     THEN EndSession(c)
     ELSE /\ wire' = [wire EXCEPT ![c] = "done"]
          /\ open' = CASE wire[c] = "begin"                -> open \cup {c}
                       [] wire[c] \in {"commit", "rollback"} -> open \ {c}
                       [] OTHER                            -> open
          /\ UNCHANGED <<place, user, down, faults>>
  /\ UNCHANGED <<clientVars, closed>>

\* It refuses one, or rolls the transaction back as the victim of a deadlock.
Reject(c) ==
  /\ place[c] = "held" /\ wire[c] \in Commands \ {"rollback"} /\ faults < MaxFaults
  /\ faults' = faults + 1
  /\ wire' = [wire EXCEPT ![c] = "error"]
  /\ open' \in {open, open \ {c}}
  /\ UNCHANGED <<clientVars, poolVars, down, committed, closed>>

\* The connection is lost, and with it a reply on its way.
Lose(c) ==
  /\ place[c] \in {"free", "held"} /\ c \notin down /\ faults < MaxFaults
  /\ faults' = faults + 1
  /\ IF place[c] = "free"
     THEN /\ place' = [place EXCEPT ![c] = "none"]
          /\ UNCHANGED <<wire, down>>
     ELSE /\ wire' = [wire EXCEPT ![c] = IF @ = "quiet" THEN @ ELSE "error"]
          /\ down' = down \cup {c}
          /\ UNCHANGED place
  /\ open' = open \ {c}
  /\ UNCHANGED <<clientVars, user, committed, closed>>

\* MySQL notices that the socket of a destroyed connection is closed.
Vanish(c) ==
  /\ place[c] = "gone"
  /\ EndSession(c)
  /\ UNCHANGED <<clientVars, committed, closed>>

\* close: pool.end closes what is free, and what is held takes no command more.
Close ==
  /\ ~closed
  /\ closed' = TRUE
  /\ place' = [c \in Conns |-> IF place[c] = "free" THEN "none" ELSE place[c]]
  /\ UNCHANGED <<clientVars, user, wire, serverVars>>

-----------------------------------------------------------------------------
Call(o, c) ==
  \/ Grant(o, c)           \/ GrantTooLate(o, c)
  \/ Returns(o, c)         \/ Fails(o, c)        \/ Interrupt(o, c)
  \/ Begun(o, c)           \/ BeginFails(o, c)
  \/ Execute(o, c)         \/ Executed(o, c)
  \/ CallbackThrows(o, c)  \/ CallbackReturns(o, c)
  \/ CommitReturns(o, c)   \/ CommitFails(o, c)
  \/ RollbackReturns(o, c) \/ RollbackFails(o, c)
  \/ Cancel(o, c)
  \/ LateConnection(o, c)

Next ==
  \/ \E o \in Calls : Refuse(o) \/ Ask(o) \/ NoConnection(o) \/ GiveUp(o) \/ NoLateConnection(o)
  \/ \E o \in Calls, c \in Conns : Call(o, c)
  \/ \E c \in Conns : Serve(c) \/ Reject(c) \/ Lose(c) \/ Vanish(c)
  \/ Close

Spec == Init /\ [][Next]_vars

(***************************************************************************)
(* Timers fire, a connection asked for comes or fails in the end (there is *)
(* a connect timeout), and MySQL notices a closed socket. Nothing makes it *)
(* serve a command, or a callback return.                                  *)
(***************************************************************************)
Fairness ==
  /\ \A o \in Calls : /\ WF_vars(GiveUp(o))
                      /\ WF_vars(\E c \in Conns : Interrupt(o, c) \/ Cancel(o, c))
                      /\ WF_vars(NoLateConnection(o) \/ \E c \in Conns : LateConnection(o, c))
  /\ \A c \in Conns : WF_vars(Vanish(c))

FairSpec == Spec /\ Fairness

-----------------------------------------------------------------------------
\* What a call that writes is told is true, and stays so: after "ok" its
\* writes are committed; after an error that does not call the outcome unknown
\* they are not and never will be, even if MySQL still holds a COMMIT of a
\* connection that was destroyed. One exception: an execute outside of a
\* transaction that is told "failed" as its connection was lost may have written.
Writers == {o \in Calls : Kind[o] \in {"transaction", "execute"}}

Told(o) == CASE answer[o] = "refused"                            -> "failed"
             [] answer[o] = "failed" /\ Kind[o] = "execute" -> "unknown"
             [] OTHER                                            -> answer[o]

Outcome == INSTANCE CallOutcome WITH told <- [o \in Writers |-> Told(o)]

KeepsOutcome == Outcome!Spec

\* A connection in the pool is as good as new: it has no transaction of an
\* earlier call open, and no command of it is under way. One in use is used by
\* the one call that got it, until that call has its answer.
CleanHandover ==
  \A c \in Conns :
    /\ place[c] \in {"none", "free"} => wire[c] = "quiet" /\ c \notin open
    /\ place[c] = "held" => /\ pc[user[c]] \notin {"idle", "waiting", "done"}
                            /\ \A d \in Conns \ {c} : ~Holds(user[c], d)

\* In the end every call that was made has its answer and all connections are
\* back in the pool, or closed, whatever MySQL and the callbacks do.
PoolRecovers ==
  <>[](/\ \A o \in Calls : pc[o] \in {"idle", "done"}
       /\ \A c \in Conns : place[c] \in {"none", "free"}
       /\ late = {})
=============================================================================
