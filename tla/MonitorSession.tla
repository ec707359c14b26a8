----------------------------- MODULE MonitorSession -----------------------------
(***************************************************************************)
(* One Codex session around the control server of CodexMonitor:            *)
(* packages/codex/src/hooks/runner.mjs tells it of bindings and of the     *)
(* thread, monitor-mcp.mjs arms, disarms and asks, the App Server's        *)
(* notifications register the thread as well.  foreground_monitor waits    *)
(* for the first line of a child, network-watch.mjs.                       *)
(*                                                                         *)
(* A session waits for its tool call and for the hook after it.  A sender  *)
(* gives up after two seconds; what it wrote to the socket is still read,  *)
(* in the order of the connections.                                        *)
(***************************************************************************)
EXTENDS CodexMonitor

CONSTANTS
    Modes,        \* TRUE: a session of ours-codex; FALSE: of plain codex
    Call          \* calls of foreground_monitor

ASSUME ModesAssumption == Modes \subseteq BOOLEAN
ASSUME CallAssumption == Call \cap {"ready", "hook", "tool"} = {}

VARIABLES
    live,         \* the session's mode: there is a control socket
    bound,        \* the identity the session holds at the daemon
    turn,         \* what the session waits for
    asked,        \* the command whose answer it waits for
    wire,         \* commands written to the control socket
    reported,     \* history: the last change of bound was sent
    child,        \* child[c]: the network watch of a call
    killed,       \* killed[c]: its SIGTERM was sent
    line,         \* line[c]: a line is in its pipe
    outcome       \* outcome[c]

session == <<live, bound, turn, asked, wire, reported>>
foreground == <<child, killed, line, outcome>>
monitorVars == <<vars, session, foreground>>

Children == {"none", "starting", "attaching", "watching", "closing", "gone"}

SessionTypeOK ==
    /\ TypeOK
    /\ live \in Modes
    /\ bound \in Identity \cup {None}
    /\ turn \in {"ready", "hook", "tool"} \cup Call
    /\ asked \in Command \cup {None}
    /\ wire \in Seq(Commands)
    /\ reported \in BOOLEAN
    /\ child \in [Call -> Children]
    /\ killed \in [Call -> BOOLEAN]
    /\ line \in [Call -> BOOLEAN]
    /\ outcome \in [Call -> {"none", "mail", "failed", "stopped"}]

SessionInit ==
    /\ Init
    /\ live \in Modes
    /\ bound = None
    /\ turn = "ready"
    /\ asked = None
    /\ wire = <<>>
    /\ reported = TRUE
    /\ child = [c \in Call |-> "none"]
    /\ killed = [c \in Call |-> FALSE]
    /\ line = [c \in Call |-> FALSE]
    /\ outcome = [c \in Call |-> "none"]

------------------------------------------------------------------------------
(* sendControlCommand *)

Free == {k \in Command : pc[k] = "new" /\ \A n \in DOMAIN wire : wire[n].slot # k}

Message(kind, i, t) ==
    [slot |-> CHOOSE k \in Free : TRUE, kind |-> kind, identity |-> i, thread |-> t]

Registration(t) == Message("register", None, t)

(* The command is written, or the connection fails. *)
Send(m) ==
    \/ wire' = Append(wire, m) /\ asked' = m.slot
    \/ MayFail /\ UNCHANGED <<wire, asked>>

(* The control server reads the commands in the order of the connections. *)
Receive ==
    /\ wire # <<>>
    /\ Apply(Head(wire))
    /\ wire' = Tail(wire)
    /\ UNCHANGED <<live, bound, turn, asked, reported, foreground>>

(* The answer, or the timer; the hook swallows a failure, a tool tells it. *)
Waits == turn \in {"hook", "tool"}

Answered ==
    /\ Waits
    /\ asked # None => reply[asked] # "none" \/ MayFail
    /\ turn' = "ready"
    /\ asked' = None
    /\ UNCHANGED <<vars, live, bound, wire, reported, foreground>>

------------------------------------------------------------------------------
(* The hooks. *)

(* The tools that bind: [tool, named]; a temporary identity may be created *)
(* without a name.                                                         *)
BindTools == [tool : {"choose_identity", "create_identity", "create_temporary_identity"},
              named : {TRUE}]
             \cup {[tool |-> "create_temporary_identity", named |-> FALSE]}

(* Variant: the hook looks at choose_identity only. *)
TellsOfChoice(b) == b.named /\ b.tool = "choose_identity"

(* PostToolUse sends what the tool was asked for, not what it returned. *)
Tells(b) == b.named

(* A tool binds i, and the hook runs before the session goes on. *)
BindTool(b, i) ==
    /\ turn = "ready"
    /\ i # bound
    /\ bound' = i
    /\ \/ /\ live /\ Tells(b)
          /\ Free # {}
          /\ turn' = "hook"
          /\ \E t \in Thread : Send(Message("binding", i, t))
          /\ reported' = (asked' # None)
       \/ /\ ~(live /\ Tells(b))
          /\ reported' = (live /\ b.named)
          /\ UNCHANGED <<turn, asked, wire>>
    /\ UNCHANGED <<vars, live, foreground>>

(* Another session takes the identity, or it is closed: no hook looks.     *)
Lose ==
    /\ turn = "ready"
    /\ bound # None
    /\ bound' = None
    /\ reported' = FALSE
    /\ UNCHANGED <<vars, live, turn, asked, wire, foreground>>

SessionStart ==
    /\ live
    /\ turn = "ready" /\ Free # {}
    /\ turn' = "hook"
    /\ \E t \in Thread : Send(Registration(t))
    /\ UNCHANGED <<vars, live, bound, reported, foreground>>

(* thread/started, resumed and the like: control.apply, without a socket.  *)
Registered ==
    /\ live
    /\ Free # {}
    /\ \E t \in Thread : Apply(Registration(t))
    /\ UNCHANGED <<session, foreground>>

(* handleMonitorCommand: the tools of the monitor's server; without a      *)
(* control socket they only answer.                                        *)
MonitorTool(kind) ==
    /\ live
    /\ turn = "ready" /\ Free # {}
    /\ bound # None
    /\ turn' = "tool"
    /\ \E t \in Thread : Send(Message(kind, bound, t))
    /\ UNCHANGED <<vars, live, bound, reported, foreground>>

------------------------------------------------------------------------------
(* waitForForegroundMail and runNetworkWatch. *)

Becomes(c, s) == child' = [child EXCEPT ![c] = s]

Up(c) == child[c] \notin {"none", "gone"}

(* Variant: a call that was aborted leaves its child alone. *)
StopUnlessAborted(c, o) == killed' = [killed EXCEPT ![c] = @ \/ (Up(c) /\ o # "stopped")]

(* stop: one SIGTERM, unless the child has gone. *)
Stop(c, o) == killed' = [killed EXCEPT ![c] = @ \/ Up(c)]

(* finish: the call settles once. *)
Finish(c, o) ==
    /\ turn = c
    /\ turn' = "ready"
    /\ outcome' = [outcome EXCEPT ![c] = o]
    /\ Stop(c, o)
    /\ UNCHANGED <<vars, live, bound, asked, wire, reported>>

(* The child is spawned, or cannot be.  The tool is offered, and its       *)
(* description allows it, in a session without background monitoring.      *)
Foreground(c) ==
    /\ ~live
    /\ turn = "ready"
    /\ bound # None
    /\ outcome[c] = "none"
    /\ \/ turn' = c /\ Becomes(c, "starting") /\ UNCHANGED outcome
       \/ /\ MayFail
          /\ outcome' = [outcome EXCEPT ![c] = "failed"]
          /\ UNCHANGED <<turn, child>>
    /\ UNCHANGED <<vars, live, bound, asked, wire, reported, killed, line>>

(* The user presses Escape. *)
Abort(c) == Finish(c, "stopped") /\ UNCHANGED <<child, line>>

Line(c) ==
    /\ line[c]
    /\ Finish(c, "mail")
    /\ line' = [line EXCEPT ![c] = FALSE]
    /\ UNCHANGED child

(* exit comes after what the child wrote has been read. *)
Exited(c) ==
    /\ child[c] = "gone" /\ ~line[c]
    /\ Finish(c, "failed")
    /\ UNCHANGED <<child, line>>

ChildMoves(c, from, to) ==
    /\ child[c] = from
    /\ Becomes(c, to)
    /\ UNCHANGED <<vars, session, killed, line, outcome>>

(* Before the handlers are installed, and once they are off, the signal    *)
(* ends the process.                                                       *)
Dies(c) == killed[c] /\ \E s \in {"starting", "closing"} : ChildMoves(c, s, "gone")

(* The client is attached, or cannot be. *)
Attach(c) == \/ ChildMoves(c, "starting", "attaching")
             \/ ChildMoves(c, "attaching", "watching")
             \/ MayFail /\ ChildMoves(c, "attaching", "closing")

(* In between it aborts the stream of events. *)
StreamAborted(c) == killed[c] /\ ChildMoves(c, "watching", "closing")

StreamFails(c) == MayFail /\ ChildMoves(c, "watching", "closing")

(* The first event is written as one line, and the watch ends. *)
Arrival(c) ==
    /\ child[c] = "watching"
    /\ Becomes(c, "closing")
    /\ line' = [line EXCEPT ![c] = TRUE]
    /\ UNCHANGED <<vars, session, killed, outcome>>

(* finally: the handlers are taken off, the client is closed. *)
Closes(c) == ChildMoves(c, "closing", "gone")

(* What a child does without the daemon. *)
Winds(c) == Dies(c) \/ Attach(c) \/ StreamAborted(c) \/ Closes(c)

------------------------------------------------------------------------------
Server == \E k \in Command : WriteTmp(k) \/ Rename(k) \/ RunEffects(k)

SessionNext ==
    \/ (Server \/ LoseAuthentication) /\ UNCHANGED <<session, foreground>>
    \/ Receive \/ Answered
    \/ \E b \in BindTools, i \in Identity : BindTool(b, i)
    \/ Lose \/ SessionStart \/ Registered
    \/ \E kind \in {"arm", "disarm", "status"} : MonitorTool(kind)
    \/ \E c \in Call : \/ Foreground(c) \/ Abort(c) \/ Line(c) \/ Exited(c)
                       \/ Winds(c) \/ StreamFails(c) \/ Arrival(c)

SessionSpec == SessionInit /\ [][SessionNext]_monitorVars

(* Attaching and closing end, and signals are delivered.  Nothing says     *)
(* that mail arrives, or that the stream fails.                            *)
FairSession == SessionSpec /\ \A c \in Call : WF_monitorVars(Winds(c))

------------------------------------------------------------------------------
(* The control server believes in the session's own identity, and arms no  *)
(* other, once the commands sent so far have come in - whichever senders   *)
(* gave up on, and whatever saves failed or overlapped - unless the last   *)
(* change of the binding was not sent.                                     *)
MonitorFollowsSession == reported /\ wire = <<>> =>
    /\ state.bound \in {bound, None}
    /\ state.armed \in {state.bound, None}

(* "Pressing Escape interrupts and disarms the foreground wait": however   *)
(* a call ended, and wherever its child was, the child goes.               *)
ForegroundStops == \A c \in Call : (Up(c) /\ turn # c) ~> ~Up(c)

(* README: "Switching identity disarms the previous monitor."  When the    *)
(* session goes on nothing is watched for an identity it has left.         *)
SwitchDisarms ==
    turn = "ready" /\ wire = <<>> /\ Idle /\ bound # None => watching \in {bound, None}
==============================================================================
