--------------------------- MODULE ContainerTransfer ---------------------------
(***************************************************************************)
(* A client's file calls on their way to FileTools: directly over stdio,   *)
(* or through packages/codex/bin/container-file-transfer.mjs, the proxy of *)
(* a server that runs in a container and does not see the host's files.    *)
(*                                                                         *)
(* The proxy reads the client's lines one by one and awaits what each one  *)
(* needs; it reads the server's lines one by one, beside that.  A file to  *)
(* send is staged in a directory of the container before the call is       *)
(* forwarded, a file to save is written there by the server and copied to  *)
(* the host when the answer passes.  file-stage, file-read and file-remove *)
(* are child processes (container.ts): each is a step of its own.          *)
(*                                                                         *)
(* Lines the proxy forwards unread are left out, except cancellations.     *)
(***************************************************************************)
EXTENDS FileTools, Sequences

CONSTANT Nobody      \* no call

VARIABLES
    container,       \* there is a proxy
    call,            \* the client: call[r] is "new", "open", "ok" or "error"
    cancelled,       \* the client: calls it has cancelled
    lines,           \* stdin: what the proxy has not read yet
    ended,           \* stdin is closed
    server,          \* the server process: "up" or "exited"
    answers,         \* its stdout: <<call, result>> the proxy has not read yet
    input, visiting, \* inputDone: where it is, and with which call
    table,           \* pending: the calls whose answer needs work
    output, serving, \* outputDone: where it is, and with which call
    stopping,        \* stopInput has been called
    staged, leaked,  \* transfer directories: there, and never to be removed
    copied,          \* calls of save_file copied to the host
    caught,          \* history: a call was on its way to its client at the end of input
    connector        \* what the client talks to is "up" or "gone"

client == <<call, cancelled>>
stdin == <<lines, ended>>
inbound == <<input, visiting>>
outbound == <<output, serving>>
dirs == <<staged, leaked, copied>>
proxy == <<container, client, stdin, server, answers, inbound, table, outbound,
           stopping, dirs, caught, connector>>
vars == <<tool, handler, proxy>>

ProxyTypeOK ==
    /\ TypeOK
    /\ container \in BOOLEAN
    /\ call \in [Request -> {"new", "open", "ok", "error"}]
    /\ lines \in Seq({"call", "cancel"} \X Request)
    /\ server \in {"up", "exited"} /\ connector \in {"up", "gone"}
    /\ answers \in Seq(Request \X Results)
    /\ input \in {"read", "stage", "undo", "refuse", "end"} /\ visiting \in Request \cup {Nobody}
    /\ output \in {"read", "copy", "remove"} /\ serving \in Request \cup {Nobody}
    /\ {ended, stopping, caught} \subseteq BOOLEAN
    /\ UNION {cancelled, table, staged, leaked, copied} \subseteq Request

ProxyInit ==
    /\ Init
    /\ container \in BOOLEAN /\ (container => ~managed)
    /\ call = [r \in Request |-> "new"]
    /\ lines = <<>> /\ ended = FALSE
    /\ server = "up" /\ connector = "up" /\ answers = <<>>
    /\ input = "read" /\ visiting = Nobody /\ output = "read" /\ serving = Nobody
    /\ stopping = FALSE /\ caught = FALSE
    /\ cancelled = {} /\ table = {} /\ staged = {} /\ leaked = {} /\ copied = {}

Answer(r, how) == call' = [call EXCEPT ![r] = how]

------------------------------------------------------------------------------
(* The client. *)

Submit(r) ==
    /\ call[r] = "new" /\ ~ended /\ connector = "up"
    /\ r = CHOOSE q \in Request : call[q] = "new"
    /\ Answer(r, "open")
    /\ \/ container /\ lines' = Append(lines, <<"call", r>>) /\ UNCHANGED handler
       \/ ~container /\ Accept(r) /\ UNCHANGED lines
    /\ UNCHANGED <<tool, container, cancelled, ended, server, answers, inbound, table,
                   outbound, stopping, dirs, caught, connector>>

Cancel(r) ==
    /\ call[r] = "open" /\ r \notin cancelled /\ ~ended /\ connector = "up"
    /\ cancelled' = cancelled \cup {r}
    /\ \/ container /\ lines' = Append(lines, <<"cancel", r>>) /\ UNCHANGED handler
       \/ ~container /\ Abort(r) /\ UNCHANGED lines
    /\ UNCHANGED <<tool, container, call, ended, server, answers, inbound, table,
                   outbound, stopping, dirs, caught, connector>>

(* A call is before or inside clientFor, which registers its watcher when  *)
(* it is done, also after the server has stopped those there were.  A      *)
(* server with a policy has one client from its start.                     *)
Entering == server = "up" /\ ~managed /\ \E r \in Request : at[r] \in {"admit", "client"}

CloseInput ==
    /\ ~ended
    /\ ended' = TRUE
    /\ caught' = (~container /\ Entering)
    /\ UNCHANGED <<tool, handler, container, client, lines, server, answers, inbound,
                   table, outbound, stopping, dirs, connector>>

------------------------------------------------------------------------------
(* The server's ends of the pipes. *)

(* A line reaches a server that is there, and nothing else. *)
Forward(r) ==
    IF server = "up" /\ ~stopping THEN Accept(r) ELSE UNCHANGED handler

(* An answer leaves; none does for an aborted call. *)
Respond(r) ==
    /\ Replied(r)
    /\ \/ container /\ r \notin aborted
          /\ answers' = Append(answers, <<r, result[r]>>) /\ UNCHANGED <<call, copied>>
       \/ ~container /\ r \notin aborted
          /\ Answer(r, result[r])
          /\ copied' = copied \cup ({r} \cap written)
          /\ UNCHANGED answers
       \/ r \in aborted /\ UNCHANGED <<call, answers, copied>>
    /\ UNCHANGED <<container, cancelled, stdin, server, inbound, table, outbound,
                   stopping, staged, leaked, caught, connector>>

(* The server process is gone, and without a proxy so is the connector. *)
Exits ==
    /\ server = "up" /\ server' = "exited"
    /\ Killed
    /\ connector' = IF container THEN "up" ELSE "gone"
    /\ UNCHANGED <<container, client, stdin, answers, inbound, table, outbound,
                   stopping, dirs, caught>>

(* It ends when its input does, or dies.  The watcher of a caught call may *)
(* keep it for good (ConnectorClients): nothing owes that step then.       *)
ServerEnds == (IF container THEN input = "end" ELSE ended) /\ Exits /\ UNCHANGED failures
ServerDies == Fails /\ Exits

------------------------------------------------------------------------------
(* inputDone: one line of the client after the other. *)

(* eachLine: the next line, when the visit of the last one is over. *)
ReadsLine(what) ==
    /\ container /\ connector = "up" /\ input = "read"
    /\ lines # <<>> /\ Head(lines)[1] = what
    /\ lines' = Tail(lines)
    /\ UNCHANGED <<tool, container, client, ended, server, answers, outbound, stopping,
                   leaked, copied, caught, connector>>

Line == Head(lines)[2]

AbortsThere(r) == IF server = "up" THEN Abort(r) ELSE UNCHANGED handler

(* Variant: a cancellation forgets the transfer and removes its directory. *)
VisitCancelRemoves ==
    /\ ReadsLine("cancel")
    /\ AbortsThere(Line)
    /\ table' = table \ {Line} /\ staged' = staged \ {Line}
    /\ UNCHANGED inbound

(* A cancellation is forwarded as it is, and the transfer kept. *)
VisitCancel ==
    /\ ReadsLine("cancel")
    /\ AbortsThere(Line)
    /\ UNCHANGED <<inbound, table, staged>>

(* So is a call that names no file of the host. *)
VisitOther ==
    /\ ReadsLine("call") /\ kind[Line] = "get"
    /\ Forward(Line)
    /\ UNCHANGED <<inbound, table, staged>>

(* Variant: the directory is named for the line, not for the call. *)
MakesDirOfLine(r) == staged' = staged \cup {<<r>>}

(* file-stage, file-target: make the directory of the transfer. *)
MakesDir(r) == staged' = staged \cup {r}

(* A file to send: stageFile begins. *)
VisitSend ==
    /\ ReadsLine("call") /\ kind[Line] = "send"
    /\ MakesDir(Line)
    /\ input' = "stage" /\ visiting' = Line
    /\ UNCHANGED <<handler, table>>

(* helperJson blocks the proxy until file-target has answered or failed    *)
(* (after 5 seconds, with or without the directory).                       *)
VisitSave ==
    /\ ReadsLine("call") /\ kind[Line] = "save"
    /\ \/ /\ MakesDir(Line)
          /\ table' = table \cup {Line}
          /\ Forward(Line)
          /\ UNCHANGED inbound
       \/ /\ Fails
          /\ UNCHANGED staged \/ MakesDir(Line)
          /\ input' = "undo" /\ visiting' = Line
          /\ UNCHANGED <<at, admitted, aborted, again, effects, result, table>>

(* stageFile ends: with the file in place, or (file-stage removes what it  *)
(* has made, unless it is killed) with an error.                           *)
StageEnds ==
    /\ input = "stage"
    /\ \/ /\ table' = table \cup {visiting}
          /\ Forward(visiting)
          /\ input' = "read" /\ visiting' = Nobody
          /\ UNCHANGED staged
       \/ /\ Fails
          /\ staged' \in {staged, staged \ {visiting}}
          /\ input' = "undo"
          /\ UNCHANGED <<at, admitted, aborted, again, effects, result, visiting, table>>
    /\ UNCHANGED <<tool, container, client, stdin, server, answers, outbound, stopping,
                   leaked, copied, caught, connector>>

(* removeTransfer of R: a removal that fails is passed over. *)
Removes(R) ==
    /\ staged' = staged \ R
    /\ \/ UNCHANGED <<leaked, failures>>
       \/ Fails /\ \E L \in SUBSET (R \cap staged) : leaked' = leaked \cup L

(* The catch of a visit: remove, *)
Undo ==
    /\ input = "undo"
    /\ Removes({visiting})
    /\ input' = "refuse"
    /\ UNCHANGED <<tool, at, admitted, aborted, again, effects, result, container, client,
                   stdin, server, answers, visiting, table, outbound, stopping, copied,
                   caught, connector>>

(* Variant: the error is not answered. *)
RefuseSilently ==
    /\ input = "refuse"
    /\ input' = "read" /\ visiting' = Nobody
    /\ UNCHANGED <<tool, handler, container, client, stdin, server, answers, table,
                   outbound, stopping, dirs, caught, connector>>

(* then answer with the error. *)
Refuse ==
    /\ input = "refuse"
    /\ Answer(visiting, "error")
    /\ input' = "read" /\ visiting' = Nobody
    /\ UNCHANGED <<tool, handler, container, cancelled, stdin, server, answers, table,
                   outbound, stopping, dirs, caught, connector>>

(* The client's end of input, or stopInput: lines of a chunk that has been *)
(* read may still be visited after it.  The server's input is closed.      *)
InputEnds ==
    /\ container /\ input = "read"
    /\ stopping \/ (ended /\ lines = <<>>)
    /\ input' = "end"
    /\ caught' = Entering
    /\ UNCHANGED <<tool, handler, container, client, stdin, server, answers, visiting,
                   table, outbound, stopping, dirs, connector>>

------------------------------------------------------------------------------
(* outputDone: one line of the server after the other. *)

Relay ==
    /\ output = "read" /\ answers # <<>>
    /\ answers' = Tail(answers)
    /\ LET r == Head(answers)[1]
           how == Head(answers)[2] IN
       \/ r \notin table /\ Answer(r, how) /\ UNCHANGED <<table, outbound>>
       \/ /\ r \in table
          /\ table' = table \ {r}
          /\ serving' = r
          /\ IF kind[r] = "save" /\ how = "ok"
             THEN output' = "copy" /\ UNCHANGED call
             ELSE output' = "remove" /\ Answer(r, how)
    /\ UNCHANGED <<tool, handler, container, cancelled, stdin, server, inbound, stopping,
                   dirs, caught, connector>>

(* file-read into the host's file, and the answer. *)
Copy ==
    /\ output = "copy"
    /\ \/ copied' = copied \cup {serving} /\ Answer(serving, "ok") /\ UNCHANGED failures
       \/ Fails /\ Answer(serving, "error") /\ UNCHANGED copied
    /\ output' = "remove"
    /\ UNCHANGED <<tool, at, admitted, aborted, again, effects, result, container, cancelled,
                   stdin, server, answers, inbound, table, serving, stopping, staged, leaked,
                   caught, connector>>

(* finally: remove. *)
RemoveServed ==
    /\ output = "remove"
    /\ Removes({serving})
    /\ output' = "read" /\ serving' = Nobody
    /\ UNCHANGED <<tool, at, admitted, aborted, again, effects, result, container, client,
                   stdin, server, answers, inbound, table, stopping, copied, caught, connector>>

------------------------------------------------------------------------------
(* The end of the server. *)

(* Its stdin breaks, or its streams have closed: stopInput. *)
StopInput ==
    /\ container /\ server = "exited" /\ ~stopping
    /\ stopping' = TRUE
    /\ UNCHANGED <<tool, handler, container, client, stdin, server, answers, inbound, table,
                   outbound, dirs, caught, connector>>

(* Variant: what inputDone is at is not awaited. *)
SweepAtOnce ==
    /\ container /\ connector = "up" /\ stopping
    /\ answers = <<>> /\ output = "read"
    /\ Removes(table)
    /\ table' = {}
    /\ connector' = "gone"
    /\ UNCHANGED <<tool, at, admitted, aborted, again, effects, result, container, client,
                   stdin, server, answers, inbound, outbound, stopping, copied, caught>>

(* Input and output are done: remove what is still pending, and go. *)
Sweep ==
    /\ container /\ connector = "up" /\ stopping
    /\ input = "end" /\ answers = <<>> /\ output = "read"
    /\ Removes(table)
    /\ table' = {}
    /\ connector' = "gone"
    /\ UNCHANGED <<tool, at, admitted, aborted, again, effects, result, container, client,
                   stdin, server, answers, inbound, outbound, stopping, copied, caught>>

InputStep ==
    VisitCancel \/ VisitOther \/ VisitSend \/ VisitSave
        \/ StageEnds \/ Undo \/ Refuse \/ InputEnds
OutputStep == Relay \/ Copy \/ RemoveServed

ServerStep(r) == HandlerStep(r) /\ UNCHANGED proxy

Next ==
    \/ \E r \in Request : Submit(r) \/ Cancel(r) \/ ServerStep(r) \/ Respond(r)
    \/ CloseInput
    \/ ServerEnds
    \/ ServerDies
    \/ InputStep
    \/ OutputStep
    \/ StopInput
    \/ Sweep

Spec == ProxyInit /\ [][Next]_vars

(* Requests to the daemon and the helper processes end, somehow; a server  *)
(* whose input has ended exits, unless a call was caught: then it may stay *)
(* with its transport closed.  The client and failures owe nothing.        *)
Fairness ==
    /\ \A r \in Request : WF_vars(ServerStep(r) \/ (~caught /\ Respond(r)))
    /\ WF_vars(InputStep) /\ WF_vars(OutputStep)
    /\ WF_vars(~caught /\ ServerEnds)
    /\ WF_vars(StopInput \/ Sweep)

FairSpec == Spec /\ Fairness

------------------------------------------------------------------------------
(* The proxy, the server and its handlers keep what TransferContract says: *)
(* one answer a call, a save that succeeds only with the file on the host, *)
(* a staged copy that stays while its handler works on it and is gone when *)
(* the connector is, however answers, cancellations, the end of the input  *)
(* and the death of the server interleave.                                 *)
Contract == INSTANCE TransferContract WITH
    saves  <- {r \in Request : kind[r] = "save"},
    call   <- [r \in Request |-> IF call[r] = "open" /\ connector = "gone"
                                 THEN "lost" ELSE call[r]],
    staged <- staged,
    leaked <- leaked,
    used   <- {r \in Request : container /\ kind[r] # "get" /\ at[r] # "off"},
    saved  <- copied,
    up     <- connector = "up"

ContractSpec == Contract!Spec

(* A call is answered, unless the client cancels it or the server dies,    *)
(* and the connector goes after its client: through the proxy, past what   *)
(* it is staging, copying or removing.  Left out is a server whose input   *)
(* ended while a call was on its way through clientFor (caught).           *)
CallsSettle ==
    /\ \A r \in Request : call[r] = "open"
          ~> (call[r] # "open" \/ r \in cancelled \/ connector = "gone" \/ caught)
    /\ ended ~> (connector = "gone" \/ caught)
==============================================================================
