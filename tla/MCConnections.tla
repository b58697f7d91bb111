---------------------------- MODULE MCConnections ----------------------------
(* A small instance of Connections. *)
EXTENDS Connections

MCKind == [o \in Calls |-> CASE o = "e" -> "execute"
                             [] o = "p" -> "ping"
                             [] OTHER   -> "transaction"]
=============================================================================
