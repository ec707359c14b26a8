---------------------------- MODULE AppServerClient ----------------------------
(***************************************************************************)
(* packages/codex/src/app-server-client.mjs: one WebSocket to the Codex    *)
(* App Server, and a table of the requests that await their answer.        *)
(*                                                                         *)
(* A request ends by its answer, by its timer, or by the shutdown that the *)
(* end of the socket, an error of it or close() brings, whichever comes    *)
(* first.  An answer to a request that has ended is looked up in vain and  *)
(* changes nothing: no action stands for it.  Nor does one for the server's *)
(* own requests, which are answered or refused as they come in.            *)
(***************************************************************************)
CONSTANT Id        \* the requests that are made

VARIABLES
    socket,        \* "off", "open" or "closed"
    closed,        \* #closed
    table,         \* #pending
    timers,        \* the timers of requests that run
    outcome        \* outcome[i]: "none" (not made), "pending", "ok" or "error"

rpc == <<socket, closed, table, timers, outcome>>

RpcTypeOK ==
    /\ socket \in {"off", "open", "closed"} /\ closed \in BOOLEAN
    /\ table \subseteq Id /\ timers \subseteq Id
    /\ outcome \in [Id -> {"none", "pending", "ok", "error"}]

RpcInit ==
    /\ socket = "off" /\ closed = FALSE
    /\ table = {} /\ timers = {}
    /\ outcome = [i \in Id |-> "none"]

Settle(I, how) ==
    outcome' = [i \in Id |-> IF i \in I /\ outcome[i] = "pending" THEN how ELSE outcome[i]]

(* transport.ready *)
Open == socket = "off" /\ socket' = "open" /\ UNCHANGED <<closed, table, timers, outcome>>

(* Variant: no timer is set. *)
RequestUntimed(i) ==
    /\ outcome[i] = "none"
    /\ outcome' = [outcome EXCEPT ![i] = "pending"]
    /\ table' = table \cup {i}
    /\ UNCHANGED <<socket, closed, timers>>

(* request: refused at once by a client that is shut down. *)
Request(i) ==
    /\ outcome[i] = "none"
    /\ \/ /\ closed
          /\ outcome' = [outcome EXCEPT ![i] = "error"]
          /\ UNCHANGED <<table, timers>>
       \/ /\ ~closed
          /\ outcome' = [outcome EXCEPT ![i] = "pending"]
          /\ table' = table \cup {i}
          /\ timers' = timers \cup {i}
    /\ UNCHANGED <<socket, closed>>

(* #receive: a result or an error. *)
Receive(i) ==
    /\ socket = "open" /\ i \in table
    /\ \E how \in {"ok", "error"} : Settle({i}, how)
    /\ table' = table \ {i}
    /\ timers' = timers \ {i}
    /\ UNCHANGED <<socket, closed>>

(* Variant: the entry of the table is overwritten, not removed. *)
TimeOutCleared(i) ==
    /\ i \in timers
    /\ Settle({i}, "error")
    /\ table' = (table \ {i}) \cup {"cleared"}
    /\ timers' = timers \ {i}
    /\ UNCHANGED <<socket, closed>>

(* The timer of request. *)
TimeOut(i) ==
    /\ i \in timers
    /\ Settle({i}, "error")
    /\ table' = table \ {i}
    /\ timers' = timers \ {i}
    /\ UNCHANGED <<socket, closed>>

(* Variant: the timers run on. *)
ShutdownKeepsTimers ==
    /\ closed' = TRUE
    /\ Settle(table, "error")
    /\ table' = {}
    /\ UNCHANGED timers

(* #shutdown; the second one does nothing more. *)
Shutdown ==
    /\ closed' = TRUE
    /\ Settle(table, "error")
    /\ table' = {}
    /\ timers' = timers \ table

(* The socket ends or fails, and close. *)
SocketCloses == socket' = "closed" /\ Shutdown

RpcStep == \E i \in Id : Receive(i) \/ TimeOut(i)
==============================================================================
