------------------------------- MODULE FileTools -------------------------------
(***************************************************************************)
(* packages/core/src/mcp/tools/files.ts and messaging.ts: the handlers of  *)
(* send_file, save_file and get_files as the server of a connector runs    *)
(* them, side by side, inside the admission of ToolRegistry                *)
(* (mcp/registry.ts) and with the file context of file-context.ts.         *)
(*                                                                         *)
(* A handler is cut at its awaits.  A request to the daemon is one step:   *)
(* it is served and answered, refused, or fails.  The silent rebind of     *)
(* runTool is ToolBinding; here it may let a send start over once.         *)
(***************************************************************************)
EXTENDS Naturals

CONSTANTS
    Request,     \* the calls
    Kinds,       \* which tool each call may be of: [Request -> tool] functions
    MaxFailures  \* bound: requests, reads, writes and releases that fail

ASSUME KindsAssumption == Kinds \subseteq [Request -> {"send", "save", "get"}]
ASSUME MaxFailuresAssumption == MaxFailures \in Nat

VARIABLES
    kind,        \* kind[r]: the tool of the call
    managed,     \* the server has a ToolPolicy
    at,          \* at[r]: where its handler is
    admitted,    \* calls whose admission is held
    aborted,     \* calls whose extra.signal is aborted
    again,       \* calls that have been started over
    read,        \* calls of get_files that know their rows are marked read
    written,     \* calls of save_file whose file is complete
    result,      \* result[r]: what the handler has come to
    failures

tool == <<kind, managed>>
effects == <<read, written>>
handler == <<at, admitted, aborted, again, read, written, result, failures>>

(* The places between the admission and its release. *)
Working == {"client", "upload", "send", "open", "write", "get", "probe", "release"}

Results == {"ok", "error"}

TypeOK ==
    /\ kind \in Kinds /\ managed \in BOOLEAN
    /\ at \in [Request -> {"off", "admit", "reply"} \cup Working]
    /\ admitted \subseteq Request /\ aborted \subseteq Request /\ again \subseteq Request
    /\ read \subseteq Request /\ written \subseteq Request
    /\ result \in [Request -> Results]
    /\ failures \in 0 .. MaxFailures

Init ==
    /\ kind \in Kinds /\ managed \in BOOLEAN
    /\ at = [r \in Request |-> "off"]
    /\ admitted = {} /\ aborted = {} /\ again = {} /\ read = {} /\ written = {}
    /\ result = [r \in Request |-> "error"]
    /\ failures = 0

Fails == failures < MaxFailures /\ failures' = failures + 1

Goes(r, to) == at' = [at EXCEPT ![r] = to] /\ UNCHANGED result

(* The handler returns or throws: `finally { await release?.() }`. *)
Ends(r, how) == at' = [at EXCEPT ![r] = "release"] /\ result' = [result EXCEPT ![r] = how]

(* It goes on, or has failed for r's signal or otherwise. *)
GoesOrFails(r, to) ==
    \/ r \notin aborted /\ Goes(r, to) /\ UNCHANGED failures
    \/ r \in aborted /\ Ends(r, "error") /\ UNCHANGED failures
    \/ Fails /\ Ends(r, "error")

(* The request comes in. *)
Accept(r) ==
    /\ at' = [at EXCEPT ![r] = "admit"]
    /\ UNCHANGED <<admitted, aborted, again, read, written, result, failures>>

(* notifications/cancelled: a handler that is at work is told. *)
Abort(r) ==
    /\ aborted' = IF at[r] = "off" THEN aborted ELSE aborted \cup {r}
    /\ UNCHANGED <<at, admitted, again, read, written, result, failures>>

------------------------------------------------------------------------------

(* Variant: `return handler(...)`, which is not awaited inside the try. *)
AdmitUnawaited(r) ==
    /\ at[r] = "admit"
    /\ Goes(r, "client")
    /\ UNCHANGED <<tool, admitted, aborted, again, effects, failures>>

(* policy.admit grants or throws; without a policy nothing is held. *)
Admit(r) ==
    /\ at[r] = "admit"
    /\ \/ /\ Goes(r, "client")
          /\ admitted' = IF managed THEN admitted \cup {r} ELSE admitted
          /\ UNCHANGED failures
       \/ /\ managed /\ Fails
          /\ at' = [at EXCEPT ![r] = "reply"]
          /\ result' = [result EXCEPT ![r] = "error"]
          /\ UNCHANGED admitted
    /\ UNCHANGED <<tool, aborted, again, effects>>

(* clientFor, and what comes before the first request: a send opens its    *)
(* source (which may be unreadable), get_files does not look at its signal. *)
Client(r) ==
    /\ at[r] = "client"
    /\ \/ kind[r] = "send" /\ GoesOrFails(r, "upload")
       \/ kind[r] = "save" /\ GoesOrFails(r, "open")
       \/ kind[r] = "get" /\ Goes(r, "get") /\ UNCHANGED failures
       \/ kind[r] = "get" /\ Fails /\ Ends(r, "error")
    /\ UNCHANGED <<tool, admitted, aborted, again, effects>>

(* NOT_BOUND: the send starts over, from the file, once. *)
StartsOver(r) ==
    /\ r \notin again /\ ~managed
    /\ Fails
    /\ Goes(r, "client")
    /\ again' = again \cup {r}

(* uploadFile, `finally { await source.close() }`, throwIfAborted. *)
Upload(r) ==
    /\ at[r] = "upload"
    /\ \/ GoesOrFails(r, "send") /\ UNCHANGED again
       \/ StartsOver(r)
    /\ UNCHANGED <<tool, admitted, aborted, effects>>

(* sendFile: the signal is not looked at any more. *)
Send(r) ==
    /\ at[r] = "send"
    /\ \/ Ends(r, "ok") /\ UNCHANGED <<again, failures>>
       \/ Fails /\ Ends(r, "error") /\ UNCHANGED again
       \/ StartsOver(r)
    /\ UNCHANGED <<tool, admitted, aborted, effects>>

(* openFile; its body is cancelled for an aborted call. *)
Open(r) ==
    /\ at[r] = "open"
    /\ GoesOrFails(r, "write")
    /\ UNCHANGED <<tool, admitted, aborted, again, effects>>

(* files.write rejects for want of a directory or of space, and (by its    *)
(* pipeline) for an aborted call, unless it has just ended.                *)
WriteRejects(r) == (r \in aborted /\ UNCHANGED failures) \/ Fails

Write(r) ==
    /\ at[r] = "write"
    /\ \/ Ends(r, "ok") /\ written' = written \cup {r} /\ UNCHANGED failures
       \/ WriteRejects(r) /\ Ends(r, "error") /\ UNCHANGED written
    /\ UNCHANGED <<tool, admitted, aborted, again, read>>

(* A refused selection keeps its category and items, another refusal its   *)
(* message, and an outage is thrown: an error in any case.                 *)
GetRefused(r) == Fails /\ Ends(r, "error") /\ UNCHANGED read

(* getFiles: the daemon commits the rows as read and answers. *)
Get(r) ==
    /\ at[r] = "get"
    /\ \/ Goes(r, "probe") /\ read' = read \cup {r} /\ UNCHANGED failures
       \/ GetRefused(r)
    /\ UNCHANGED <<tool, admitted, aborted, again, written>>

(* Variant: a probe that throws is not caught. *)
ProbeThrows(r) ==
    /\ at[r] = "probe"
    /\ \/ Ends(r, "ok") /\ UNCHANGED failures
       \/ Fails /\ Ends(r, "error")
    /\ UNCHANGED <<tool, admitted, aborted, again, effects>>

(* canRead, of every path: whatever it answers or throws only annotates    *)
(* the result.                                                             *)
Probe(r) ==
    /\ at[r] = "probe"
    /\ Ends(r, "ok")
    /\ UNCHANGED failures \/ Fails
    /\ UNCHANGED <<tool, admitted, aborted, again, effects>>

(* A release that throws takes the place of what the handler returned. *)
Release(r) ==
    /\ at[r] = "release"
    /\ at' = [at EXCEPT ![r] = "reply"]
    /\ admitted' = admitted \ {r}
    /\ \/ UNCHANGED <<result, failures>>
       \/ managed /\ Fails /\ result' = [result EXCEPT ![r] = "error"]
    /\ UNCHANGED <<tool, aborted, again, effects>>

(* The answer leaves the server; the MCP SDK sends none for an aborted     *)
(* request.                                                                *)
Replied(r) ==
    /\ at[r] = "reply"
    /\ at' = [at EXCEPT ![r] = "off"]
    /\ UNCHANGED <<tool, admitted, aborted, again, effects, result, failures>>

(* The server goes: nothing of its handlers is left. *)
Killed ==
    /\ at' = [r \in Request |-> "off"]
    /\ admitted' = {}
    /\ UNCHANGED <<tool, aborted, again, effects, result>>

HandlerStep(r) ==
    Admit(r) \/ Client(r) \/ Upload(r) \/ Send(r) \/ Open(r) \/ Write(r)
        \/ Get(r) \/ Probe(r) \/ Release(r)

------------------------------------------------------------------------------
(* An admission is held exactly as long as a handler of a managed server   *)
(* works, callbacks and rendering included: none is held by a handler that *)
(* has ended, however it did, and no handler works without its own         *)
(* (registry.ts:10, "Admission spans the entire handler").                 *)
AdmissionSpansHandler ==
    \A r \in Request : r \in admitted <=> managed /\ at[r] \in Working

(* Once the daemon has marked files read, their listing is what the        *)
(* handler returns, whatever the probes of their paths do (files.ts:138,   *)
(* "The unread commit already happened. A failed probe must not hide its   *)
(* result"); only a release that throws may still replace it.              *)
ReadIsReported ==
    \A r \in Request : at[r] = "release" /\ r \in read => result[r] = "ok"
==============================================================================
