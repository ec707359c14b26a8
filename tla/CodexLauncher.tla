----------------------------- MODULE CodexLauncher -----------------------------
(***************************************************************************)
(* packages/codex/src/launcher.mjs: runLauncher starts the Codex App       *)
(* Server, connects to it, starts the control server, runs the Codex TUI   *)
(* and, when that has exited or anything before it has failed, cleans up:  *)
(* it stops the watcher, closes the control server, ends the ours session  *)
(* of the registered thread with a child process that may hang, and stops  *)
(* what it started.                                                        *)
(*                                                                         *)
(* Beside it: the App Server and its notifications, the connections of     *)
(* hooks and of the monitor MCP server to the control server (their        *)
(* commands are CodexMonitor, here only what the launcher is told by       *)
(* them: which thread is registered, and when to watch), the watcher's     *)
(* requests, and the signals of the user.                                  *)
(***************************************************************************)
EXTENDS AppServerClient, Naturals

CONSTANTS
    Initialize,    \* the request of connectAppServer; the others are the watcher's
    Command,       \* commands and notifications that reach the launcher
    Thread,        \* threads of the App Server that are registered
    NoThread,      \* threadId: null
    MaxFaults,     \* bound: failing steps, deaths of children
    MaxSignals     \* bound: signals of the user

ASSUME InitializeAssumption == Initialize \in Id
ASSUME ThreadAssumption == NoThread \notin Thread
ASSUME BoundsAssumption == {MaxFaults, MaxSignals} \subseteq Nat

VARIABLES
    main,          \* where runLauncher is
    directory,     \* the runtime directory: "none", "there", "gone", or "kept" as
                   \* its removal failed
    app, tui, end, \* children: "off", "up", "told" to stop, "down"
    client,        \* the client has been assigned
    control,       \* the control server: "off", "listening", "closing", "closed"
    watching,      \* the watcher runs
    thread,        \* ControlServer.state.threadId
    retained,      \* retainedState.threadId
    given,         \* the thread session-end is started with
    ended,         \* session-end has exited with 0: the thread's session is ended
    reported,      \* cleanupFailure has been written
    known,         \* history: the thread when the TUI had exited
    replaced,      \* history: another was registered before the state was retained
    deadline,      \* the timer of the cleanup runs
    command,       \* command[c]: its kind
    at,            \* at[c]: where it is
    connected,     \* commands whose connection is open
    late,          \* history: a command had effects after the watcher was stopped
    faults, signals

children == <<app, tui, end>>
farewell == <<given, ended, reported>>
session == <<watching, thread, retained, farewell, known, replaced, late>>
commands == <<command, at, connected>>
bounds == <<faults, signals>>
vars == <<rpc, main, directory, children, client, control, session, deadline, commands,
          bounds>>

Starting == {"profile", "directory", "port", "spawn", "ready", "connect", "initialize",
             "control"}
Cleaning == {"stop", "close", "part", "ending", "remove"}

LauncherTypeOK ==
    /\ RpcTypeOK
    /\ main \in Starting \cup {"run"} \cup Cleaning \cup {"settled", "killed"}
    /\ directory \in {"none", "there", "gone", "kept"}
    /\ {app, tui, end} \subseteq {"off", "up", "told", "down"}
    /\ control \in {"off", "listening", "closing", "closed"}
    /\ {client, watching, ended, reported, replaced, deadline, late} \subseteq BOOLEAN
    /\ {thread, retained, given, known} \subseteq Thread \cup {NoThread}
    /\ command \in [Command -> {"none", "register", "arm"}]
    /\ at \in [Command -> {"off", "connected", "save", "effects", "done"}]
    /\ connected \subseteq Command
    /\ faults \in 0 .. MaxFaults /\ signals \in 0 .. MaxSignals

Init ==
    /\ RpcInit
    /\ main = "profile" /\ directory = "none"
    /\ app = "off" /\ tui = "off" /\ end = "off"
    /\ client = FALSE /\ control = "off"
    /\ thread = NoThread /\ retained = NoThread /\ given = NoThread /\ known = NoThread
    /\ watching = FALSE /\ deadline = FALSE /\ ended = FALSE /\ reported = FALSE
    /\ replaced = FALSE /\ late = FALSE
    /\ command = [c \in Command |-> "none"] /\ at = [c \in Command |-> "off"]
    /\ connected = {}
    /\ faults = 0 /\ signals = 0

Faults == faults < MaxFaults /\ faults' = faults + 1 /\ UNCHANGED signals

Stopped(child) == IF child = "up" THEN "told" ELSE child

------------------------------------------------------------------------------
(* Start-up. *)

(* resolveDaemonProfile: the daemon answers with the profile's server, or  *)
(* the launcher ends.                                                      *)
Resolve ==
    /\ main = "profile"
    /\ \/ main' = "directory" /\ UNCHANGED bounds
       \/ main' = "settled" /\ Faults
    /\ UNCHANGED <<rpc, directory, children, client, control, session, deadline, commands>>

(* mkdtemp, chmod, freePort: before the try, so that a failure ends the    *)
(* launcher where it is.                                                   *)
Prepare ==
    /\ \/ /\ main = "directory" /\ main' = "port"
          /\ directory' = "there" /\ UNCHANGED bounds
       \/ main = "port" /\ main' = "spawn" /\ UNCHANGED <<directory, bounds>>
       \/ /\ main \in {"directory", "port"} /\ main' = "settled"
          /\ Faults /\ UNCHANGED directory
    /\ UNCHANGED <<rpc, children, client, control, session, deadline, commands>>

(* spawn: a command that is not there ends at once. *)
SpawnApp ==
    /\ main = "spawn" /\ main' = "ready"
    /\ \/ app' = "up" /\ UNCHANGED bounds
       \/ app' = "down" /\ Faults
    /\ UNCHANGED <<rpc, directory, tui, end, client, control, session, deadline, commands>>

(* waitReady: 80 attempts, fewer when the App Server exits. *)
WaitReady ==
    /\ main = "ready"
    /\ \/ app = "up" /\ main' = "connect" /\ UNCHANGED bounds
       \/ app = "down" /\ main' = "stop" /\ UNCHANGED bounds
       \/ Faults /\ main' = "stop"
    /\ UNCHANGED <<rpc, directory, children, client, control, session, deadline, commands>>

(* connectAppServer: the socket opens and initialize is sent, or it fails  *)
(* (at the latest after 5 seconds; nobody closes one that opens later).    *)
Connect ==
    /\ main = "connect"
    /\ \/ /\ app = "up"
          /\ main' = "initialize"
          /\ socket' = "open"
          /\ outcome' = [outcome EXCEPT ![Initialize] = "pending"]
          /\ table' = {Initialize} /\ timers' = {Initialize}
          /\ UNCHANGED <<closed, bounds>>
       \/ app = "down" /\ main' = "stop" /\ UNCHANGED <<rpc, bounds>>
       \/ /\ Faults /\ main' = "stop"
          /\ UNCHANGED socket \/ (app = "up" /\ socket' = "open")
          /\ UNCHANGED <<closed, table, timers, outcome>>
    /\ UNCHANGED <<directory, children, client, control, session, deadline, commands>>

(* Its answer: only then is the client there to be closed.  One whose      *)
(* initialize failed keeps its socket.                                     *)
Initialized ==
    /\ main = "initialize"
    /\ \/ outcome[Initialize] = "ok" /\ main' = "control" /\ client' = TRUE
       \/ outcome[Initialize] = "error" /\ main' = "stop" /\ UNCHANGED client
    /\ UNCHANGED <<rpc, directory, children, control, session, deadline, commands, bounds>>

(* control.start, then the TUI and the signal handlers, in one step. *)
Run ==
    /\ main = "control"
    /\ \/ main' = "run" /\ control' = "listening" /\ tui' = "up" /\ UNCHANGED bounds
       \/ Faults /\ main' = "stop" /\ control' \in {"off", "listening"} /\ UNCHANGED tui
    /\ UNCHANGED <<rpc, directory, app, end, client, session, deadline, commands>>

(* waitExit *)
TuiExited ==
    /\ main = "run" /\ tui = "down"
    /\ main' = "stop"
    /\ known' = thread
    /\ UNCHANGED <<rpc, directory, children, client, control, watching, thread, retained,
                   farewell, replaced, late, deadline, commands, bounds>>

------------------------------------------------------------------------------
(* cleanup *)

(* watcher.stop, which closes its client: that is awaited, and commands    *)
(* are applied meanwhile.                                                  *)
StopWatcher ==
    /\ main = "stop"
    /\ watching' = FALSE
    /\ main' = "close"
    /\ UNCHANGED <<rpc, directory, children, client, control, thread, retained, farewell,
                   known, replaced, late, deadline, commands, bounds>>

(* retainedState is read, and control.close begins. *)
CloseControl ==
    /\ main = "close"
    /\ retained' = thread
    /\ control' = IF control = "listening" THEN "closing" ELSE "closed"
    /\ main' = "part"
    /\ UNCHANGED <<rpc, directory, children, client, watching, thread, farewell, known,
                   replaced, late, deadline, commands, bounds>>

(* server.close is done when the last connection is. *)
ControlClosed ==
    /\ control = "closing" /\ connected = {}
    /\ control' = "closed"
    /\ UNCHANGED <<rpc, main, directory, children, client, session, deadline, commands,
                   bounds>>

(* sessionEndPayload: there is a session to end. *)
SessionEndPayload == retained # NoThread

ClosesClient == IF client THEN SocketCloses ELSE UNCHANGED rpc

(* Variant: a session without an App Server is not ended. *)
PartIfServed ==
    /\ main = "part" /\ control = "closed"
    /\ ClosesClient
    /\ \/ /\ ~SessionEndPayload \/ app = "down"
          /\ main' = "remove"
          /\ tui' = Stopped(tui) /\ app' = Stopped(app)
          /\ UNCHANGED <<end, given, deadline, bounds>>
       \/ /\ SessionEndPayload /\ app # "down"
          /\ main' = "ending" /\ end' = "up" /\ given' = retained /\ deadline' = TRUE
          /\ UNCHANGED <<tui, app, bounds>>
    /\ UNCHANGED <<directory, client, control, watching, thread, retained, ended, reported,
                   known, replaced, late, commands>>

(* client.close, and with no thread to end: stop the children.  Otherwise  *)
(* session-end is spawned with the retained thread, and a deadline.        *)
Part ==
    /\ main = "part" /\ control = "closed"
    /\ ClosesClient
    /\ \/ /\ ~SessionEndPayload
          /\ main' = "remove"
          /\ tui' = Stopped(tui) /\ app' = Stopped(app)
          /\ UNCHANGED <<end, given, deadline, bounds>>
       \/ /\ SessionEndPayload
          /\ main' = "ending"
          /\ given' = retained
          /\ deadline' = TRUE
          /\ \/ end' = "up" /\ UNCHANGED bounds
             \/ end' = "down" /\ Faults
          /\ UNCHANGED <<tui, app>>
    /\ UNCHANGED <<directory, client, control, watching, thread, retained, ended, reported,
                   known, replaced, late, commands>>

(* waitCleanupExit: its exit, by a code or a signal, or its error. *)
EndSettled == end = "down"

(* Variant: nothing but the exit of session-end is awaited. *)
EndingUndated ==
    /\ main = "ending" /\ EndSettled
    /\ reported' = ~ended
    /\ main' = "remove"
    /\ deadline' = FALSE
    /\ tui' = Stopped(tui) /\ app' = Stopped(app)
    /\ UNCHANGED <<rpc, directory, end, client, control, watching, thread, retained, given,
                   ended, known, replaced, late, commands, bounds>>

(* The end of the child or the deadline, which is cleared in any case: all *)
(* but an exit with 0 is reported.  A child that is still there is told to *)
(* stop.                                                                   *)
Ending ==
    /\ main = "ending"
    /\ \/ EndSettled /\ reported' = ~ended
       \/ ~EndSettled /\ deadline /\ reported' = TRUE
    /\ main' = "remove"
    /\ deadline' = FALSE
    /\ end' = Stopped(end) /\ tui' = Stopped(tui) /\ app' = Stopped(app)
    /\ UNCHANGED <<rpc, directory, client, control, watching, thread, retained, given, ended,
                   known, replaced, late, commands, bounds>>

(* rm, and runLauncher returns or throws: what rm throws, if it fails.     *)
Remove ==
    /\ main = "remove"
    /\ \/ directory' = "gone" /\ UNCHANGED bounds
       \/ directory' = "kept" /\ Faults
    /\ main' = "settled"
    /\ UNCHANGED <<rpc, children, client, control, session, deadline, commands>>

------------------------------------------------------------------------------
(* Beside it. *)

(* Once runLauncher has returned the process goes on with what holds it.   *)
Alive == main # "killed"

(* The App Server's end closes its socket. *)
AppExits ==
    /\ \/ app = "told" /\ UNCHANGED bounds
       \/ app = "up" /\ Faults
    /\ app' = "down"
    /\ IF socket = "open" THEN SocketCloses ELSE UNCHANGED rpc
    /\ UNCHANGED <<main, directory, tui, end, client, control, session, deadline, commands>>

(* The transport fails, as by a line that is no JSON: #shutdown, and the   *)
(* socket stays open.                                                      *)
TransportFails ==
    /\ Alive /\ socket = "open" /\ ~closed /\ outcome[Initialize] # "none"
    /\ Faults
    /\ Shutdown /\ UNCHANGED socket
    /\ UNCHANGED <<main, directory, children, client, control, session, deadline, commands>>

(* The TUI ends when its user likes, or when it is told. *)
TuiExits ==
    /\ tui \in {"up", "told"} /\ tui' = "down"
    /\ UNCHANGED <<rpc, main, directory, app, end, client, control, session, deadline,
                   commands, bounds>>

(* With 0 when the session is ended; by another code or a signal, also     *)
(* where it is.                                                            *)
SessionEndExits ==
    /\ end \in {"up", "told"} /\ end' = "down"
    /\ ended' \in BOOLEAN
    /\ UNCHANGED <<rpc, main, directory, app, tui, client, control, watching, thread,
                   retained, given, reported, known, replaced, late, deadline, commands,
                   bounds>>

(* The TUI gets the signals while it runs; before its handlers are         *)
(* installed and after they are removed a signal ends the launcher.        *)
Signal ==
    /\ main \notin {"settled", "killed"} /\ signals < MaxSignals
    /\ signals' = signals + 1
    /\ \/ main = "run" /\ tui' = Stopped(tui) /\ UNCHANGED main
       \/ main # "run" /\ main' = "killed" /\ UNCHANGED tui
    /\ UNCHANGED <<rpc, directory, app, end, client, control, session, deadline, commands,
                   faults>>

(* A hook or the monitor MCP server connects. *)
Connects(c) ==
    /\ Alive /\ control = "listening" /\ at[c] = "off"
    /\ at' = [at EXCEPT ![c] = "connected"]
    /\ connected' = connected \cup {c}
    /\ UNCHANGED <<rpc, main, directory, children, client, control, session, deadline,
                   command, bounds>>

(* apply: the state is changed (registerSession overwrites the thread),    *)
(* then saved.                                                             *)
Applies(c, kind, t) ==
    /\ command' = [command EXCEPT ![c] = kind]
    /\ thread' = t
    /\ replaced' = (replaced \/ (main \in {"stop", "close"} /\ t # thread))
    /\ at' = [at EXCEPT ![c] = "save"]
    /\ UNCHANGED <<rpc, main, directory, children, client, control, watching, retained,
                   farewell, known, late, deadline, connected, bounds>>

Registers(c) == \E t \in Thread : Applies(c, "register", t)

Commands(c) == /\ Alive /\ at[c] = "connected"
               /\ Registers(c) \/ Applies(c, "arm", thread)

(* thread/started or turn/started. *)
Notified(c) ==
    /\ Alive /\ at[c] = "off"
    /\ tui # "off" /\ socket = "open"
    /\ Registers(c)

(* The save ends; one that fails answers with the error. *)
Saved(c) ==
    /\ Alive /\ at[c] = "save"
    /\ \/ at' = [at EXCEPT ![c] = "effects"] /\ UNCHANGED <<connected, bounds>>
       \/ Faults /\ at' = [at EXCEPT ![c] = "done"] /\ connected' = connected \ {c}
    /\ UNCHANGED <<rpc, main, directory, children, client, control, session, deadline,
                   command>>

(* onEffects: an arm subscribes the registered thread; then the answer.    *)
Effects(c) ==
    /\ Alive /\ at[c] = "effects"
    /\ at' = [at EXCEPT ![c] = "done"]
    /\ connected' = connected \ {c}
    /\ watching' = (watching \/ (command[c] = "arm" /\ thread # NoThread))
    /\ late' = (late \/ (command[c] = "arm" /\ main \in (Cleaning \ {"stop"}) \cup {"settled"}))
    /\ UNCHANGED <<rpc, main, directory, children, client, control, thread, retained,
                   farewell, known, replaced, deadline, command, bounds>>

(* sendControlCommand gives up after two seconds. *)
GivesUp(c) ==
    /\ Alive /\ c \in connected
    /\ connected' = connected \ {c}
    /\ at' = [at EXCEPT ![c] = IF @ = "connected" THEN "done" ELSE @]
    /\ UNCHANGED <<rpc, main, directory, children, client, control, session, deadline,
                   command, bounds>>

(* The watcher asks the App Server. *)
WatcherAsks(i) ==
    /\ Alive /\ watching /\ i # Initialize
    /\ Request(i)
    /\ UNCHANGED <<main, directory, children, client, control, session, deadline, commands,
                   bounds>>

Rpc ==
    /\ Alive /\ RpcStep
    /\ UNCHANGED <<main, directory, children, client, control, session, deadline, commands,
                   bounds>>

Step == Resolve \/ Prepare \/ SpawnApp \/ WaitReady \/ Connect \/ Initialized \/ Run \/ TuiExited
            \/ StopWatcher \/ CloseControl \/ ControlClosed \/ Part \/ Ending \/ Remove

CommandStep(c) == Saved(c) \/ Effects(c) \/ GivesUp(c)

Next ==
    \/ Step
    \/ AppExits \/ TransportFails \/ TuiExits \/ SessionEndExits
    \/ Signal
    \/ \E c \in Command : Connects(c) \/ Commands(c) \/ Notified(c) \/ CommandStep(c)
    \/ \E i \in Id : WatcherAsks(i)
    \/ Rpc

Spec == Init /\ [][Next]_vars

(* The launcher's awaits end: by an answer, by a timer of its own, or by a *)
(* timer of the client's.  A TUI that is told to stop stops; session-end   *)
(* owes nothing.                                                           *)
Fairness ==
    /\ WF_vars(Step)
    /\ \A c \in Command : WF_vars(CommandStep(c))
    /\ WF_vars(Rpc)
    /\ WF_vars(tui = "told" /\ TuiExits)

FairSpec == Spec /\ Fairness

------------------------------------------------------------------------------
Held == \/ {app, tui, end} \cap {"up"} # {}
        \/ timers # {} \/ deadline
        \/ control \in {"listening", "closing"}
        \/ socket = "open" /\ (client \/ app # "told")
        \/ directory = "there"
        \/ watching /\ ~late

(* What runLauncher leaves when it has returned or thrown after its        *)
(* start-up: no child that was not told to stop, no timer of a request or  *)
(* of the cleanup that would keep the process, no socket, no directory but *)
(* one whose removal failed, and no watcher.  Left out are a watcher whose *)
(* arm had its effects after the watcher was stopped (late), and a socket  *)
(* whose opening or initialize failed, which nothing closes but the App    *)
(* Server: that one has been told to stop.                                 *)
NothingHeld == main = "settled" /\ app # "off" => ~Held

(* session-end is started with the thread that was registered when the TUI *)
(* exited, whatever became of the App Server, or with one that took its    *)
(* place before the state was read; and the session it is started for is   *)
(* ended when the launcher settles, or the launcher has said that it is    *)
(* not: when session-end could not be started, failed, hung or was killed. *)
ThreadIsEnded == main = "settled" =>
    /\ known # NoThread => given # NoThread /\ (~replaced => given = known)
    /\ given # NoThread => ended \/ reported

(* Neither the start-up nor the cleanup stays on its way: not on an App    *)
(* Server that never answers, nor on a connection to the control server    *)
(* that is left open, nor on a session-end that hangs.  A signalled TUI    *)
(* brings the cleanup, and a request settles.                              *)
LauncherEnds ==
    /\ main # "run" ~> main \in {"run", "settled", "killed"}
    /\ (main = "run" /\ tui = "told") ~> main \in {"settled", "killed"}
    /\ \A i \in Id : outcome[i] = "pending" ~> (outcome[i] # "pending" \/ ~Alive)
==============================================================================
