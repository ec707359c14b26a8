# ours-mcp: TLA+ models, checks and proofs

This directory holds a formal model of the parts of ours-mcp in which several
actors share state: processes on one record file, tool calls on one daemon
binding, tools on one identity list, commands and a poll loop on one monitor,
calls and watchers of one connector, two message streams on one table of
transfers, a launcher and the processes it starts.
`tlc` checks the models on small instances, `tlapm` proves theorems about all of
them for every instance.

    tlc -workers 2 -config NativeSession_recovery.cfg MCNativeSession
    tlapm NativeSessionProofs.tla

`PROJECT.json` lists the runs, the source lines behind every definition, and for
every property a change of the code that breaks it.

## 1. The system

ours-mcp is the client side of the ours network. An external **daemon** (reached
over HTTP through `@ours.network/sdk`) owns identities, mail, leases and
exclusive bindings; nothing of it is in this repository. The repository holds
what runs at the user's side.

| part | code | state | operations |
|---|---|---|---|
| native session owners | `core/src/native-session.ts`, `session-guard.ts` | a record file per session (owner UUID, active / pending / ended), a SQLite guard file, a per-process promise chain and client cache | `nativeClientForAtRoot`, `endNativeSessionAtRoot` |
| tool calls and the binding | `core/src/mcp/tool.ts`, `mcp/tools/identity.ts`, `mcp/server.ts` | `boundIdentities`, `managedClients` (weak maps by client) | `runTool`, `reassertBinding`, `rememberBinding`, `markManagedClient` |
| application identities | `core/src/application-identities.ts`, `mcp/tools/identity.ts` | `~/.ours-mcp/config.json`, shared by all connectors of a user | `has`, `add`, `remove`, `list`; adopt/drop protocols of seven tools |
| connector | `core/src/connector.ts`, `mcp/push.ts` | clients and arrival watchers per session, `seeded` | `clientFor`, `seedBinding`, `ArrivalWatcher.run`, shutdown |
| tool registry | `core/src/mcp/registry.ts`, `server.ts` | names and effect classes, a supervisor's policy | `registration`, `admit` / release |
| tool adapters | `core/src/mcp/tools/*.ts`, `format.ts` | none | one SDK request and its rendering per tool |
| profile, container, cli | `core/src/host-profile.ts`, `container.ts`, `cli.ts` | none | validation, argument parsing |
| monitor state and control server | `codex/src/monitor-state.mjs`, `control-server.mjs` | session, thread, bound and armed identity; `state.json` | `register_session`, `binding_changed`, `arm`, `disarm`, `status` |
| mail watcher | `codex/src/watcher.mjs` | `current` (cursor), `running`, `turnActive`, `pending`, `queued` | `start`, `stop`, `pollOnce`, `#wake`, `#trackCompletion`, the notification handler |
| App Server client | `codex/src/app-server-client.mjs` | table of pending requests | `request`, `#receive`, `#shutdown` |
| launcher | `codex/src/launcher.mjs` | child processes, the parts above | start-up, effects, signals, cleanup |
| foreground monitor, network watch | `codex/src/monitor-mcp.mjs`, `network-watch.mjs` | one child process | wait for one line of mail |
| hooks and proxies | `codex/src/hooks/runner.mjs`, `claude-code/src/hooks/runner.ts`, `*/bin/proxy.mjs` | none | session events to commands, session end |
| container file transfer | `codex/bin/container-file-transfer.mjs` | table of pending transfers, staging directories | stage, forward, copy back, remove |
| installers, release scripts | `codex/bin/*-install.mjs`, `hermes/bin`, `*.sh` | configuration files | edit, publish |

How they interact. An agent host starts a **connector** per session. Its tools go
through `runTool` to a client; for a host profile, `clientFor` finds the client
through the **native session owners**, so that a restarted connector resumes the
lease of its session, and the session-end hook of another process ends it. The
identity tools also edit the **application identity list**. With Codex, the
**launcher** starts the App Server and the TUI, the **control server** takes
commands from hooks and from the monitor MCP server, its effects start and stop
the **watcher**, and the watcher polls the daemon and starts turns through the
**App Server client**.

What is hard, and where:

* steps of two processes between a read and a write of one file (native session
  records, where a guard protects them; the identity list, where nothing does);
* a crash between the persisted intent to end a session, the release of its
  lease and the persisted end; a release whose answer is lost;
* a synchronous wait inside SQLite that stops a whole event loop, of two
  processes at once;
* a retry after NOT_BOUND: of a call whose first attempt may have had an effect,
  to an identity the session may have left, against a session that took it;
* a name learned by a deferred request whose answer is late;
* commands that change a state at once, save it later and act on it later still,
  with one name for all temporary files;
* a poll loop that is stopped and restarted while it awaits a page, a save or a
  turn; turn notifications and turn polling that both drive the same flags;
* senders that give up on a command which is applied all the same, and hooks that
  see what a tool was asked for and not what it did;
* a file call whose copy, answer, cancellation and directory are handled by two
  loops and a server that may die between any two of them;
* a cleanup that runs while commands are still being saved, beside children that
  hang, and that has to end all the same.

`PROJECT.json` lists these hazards at their lines with the properties aimed at
them, and those no property covers yet.

## 2. The modules

Every model cuts a call at its awaits: between two awaits JavaScript runs one
step, and one action stands for all of it. Requests to the daemon are one step
of the daemon and one answer; where the code cannot tell, an answer is lost after
its effect. Comments that begin with "Variant:" mark changed forms of the
definition below them, which the corresponding property must reject; they are no
part of the specification.

### NativeSession, OwnerLifecycle, NativeSessionProofs

`record`, `guard` and `lease` are the file, its SQLite lock and the daemon's
leases; `tail` and `clients` are the maps `operations` and `clients` of a process;
a call has a `pc` per await of `serialized`, `nativeClientForAtRoot`,
`endNativeSessionAtRoot`, `releaseOwner`, `finishPending`. `Start` and `Leave` are
the promise chain, `AskGuard`/`TakeGuard`/`GuardTimeout` the SQLite transaction
(a process that waits for it runs nothing else: `Stalled`), `Crash` frees guards
and forgets memory. `Fail` and `Throws` let every request and every file
operation fail before or after its effect.

`OwnerLifecycle` is the abstract specification: an owner is issued to a record
once, is leased, has its end intended on disk, is released, and ends, and only
then may the next one be issued. `LifecycleSpec` states that NativeSession
implements it, under the identity mapping of `record`, `lease` and `issued`.

### ToolBinding, ToolBindingProofs

`memory` is `boundIdentities`, `Managed` is `managedClients`; `bound` and `open`
are the daemon's bindings and identities. A call goes `Begin`, its requests
(`ResolveTarget`, `Serve`, `LoseRequest`), `Settle` (the branches of `runTool` after the first
answer), then either `Reassert`, `Forget` and a second round, or `Ask` and `Learn`
(the deferred `currentIdentity`). Three tools stand for all: one that works under
the binding, `choose_identity`, and `close_temporary_identity` without a name, the
only one with two requests.

### AppIdentities, AppIdentitiesProofs

`list` is the file, `hosted` the daemon's identities. An edit is `Read` then `Write`
(read the whole file, rename a whole new one over it); `stage` says whether it is
the tool's edit, its rollback, or the last edit of `remove_identity`. `Has` is
`wasVisible`, `Mutate` the daemon's operation, `Cleanup` the closing of a generated
identity that could not be listed. `seedBinding` is the tool "seed", with its
swallowed failure of `has`.

### CodexMonitor, MonitorSession, MonitorSessionProofs

`state` is `ControlServer.state`, `Transition` the reducer functions of
`monitor-state.mjs`. `Apply` is the synchronous part of `apply`, `WriteTmp` and
`Rename` the two halves of `AtomicStateStore.save` with their single temporary
name, `RunEffects` is `onEffects` of the launcher. Here the watcher is only the
identity it runs for; `LoseAuthentication` ends it behind the server's back.

`MonitorSession` puts a session around it. `bound` is what the daemon takes the
session for; `BindTool` is a tool that binds, with the PostToolUse hook after it,
`MonitorTool` a tool of the monitor's server, `SessionStart` and `Registered` the
two ways a thread is told. `wire` is the control socket: what was written is read
in the order of the connections (`Receive`), also after its sender gave up
(`Answered`). A session waits for its tool call and its hook (`turn`), as hosts run
hooks between a tool and the next request; `Registered` comes at any time. In
a session without a control socket `Foreground` spawns a network watch; `child[c]` is where
`runNetworkWatch` is (its signal handlers are on while it attaches and watches),
`Finish` the one settlement of `waitForForegroundMail`. `exit` is taken to come
after what the child wrote has been read, as libuv delivers them.

### CodexWatcher, CodexWatcherProofs

`at[l]` is where the loop of a `start()` is: `page` and `unread` (the requests of
`pollOnce`), `save`, `waking` (inside `#wake`, awaiting `startTurn`), `sleep`.
`Advance` and `PollFails` are what `#loop` does with the outcome, `Halt` is what `stop`
resets. `asked[w]` is a `startTurn` request, `track[w]` its `#trackCompletion` task,
`Deliver` the notification handler. Mail is a count: a cursor is the number of the
last arrival seen. A wake stands for a new one as soon as nothing is left of it
(`Free`). The App Server runs one turn at a time; whether this connection is
notified of turns (`subscribed`) is left open, as the code supports both.

### ConnectorClients, ConnectorClientsProofs

The connector process. Its start (`Boot`) opens a host profile, attaches the owner a
supervisor selected, or is refused (`Open`); an attached client is seeded by the same
steps as a session's and has one watcher (`WatchAlone`), and every call gets that client
(`Alone`). For a host profile a call is at an await of `clientFor` (`select` is
`nativeClientFor`; `current`, `adopt`, `choose`, `rollback` are the requests of
`seedBinding`; `ready` is the rest, up to `void watcher.run()`), then in its tool
(`run`, one step: its inside is ToolBinding). `slot` is `nativeWatchers`,
`registered` the set `watchers`, `memory` is `boundIdentities`. The loop of a
watcher sleeps, watches or waits to retry; `Look` is its synchronous part, as it
finds the memory then. `Close` is the end of stdio, `CloseRefusal` that of a connector
that could not start and only says so. The daemon's bindings, the
ends of sessions by other processes and arrivals are external; that owners follow
one another as `Select` has it is what NativeSession shows.

### FileTools, ContainerTransfer, TransferContract, ContainerTransferProofs

`FileTools` is the handlers of send_file, save_file and get_files inside the
admission of `ToolRegistry`, cut at their awaits: `at[r]` is the client, the upload,
the request, the opening and writing of a destination, the probe of the paths, the
release. `ContainerTransfer` extends it by the way there: directly, or through the
proxy `container-file-transfer.mjs`. `lines` and `answers` are the two streams,
`input` and `output` where `inputDone` and `outputDone` are, `table` is `pending`;
`VisitSend`, `StageEnds`, `Undo`, `Refuse` handle a line of the client, `Relay`,
`Copy`, `RemoveServed` a line of the server, `StopInput` and `Sweep` the end. A
helper process (`file-stage`, `file-read`, `file-remove`) is one step that may fail.
The end of the server's input may catch a call on its way through `clientFor`
(`Entering`, `caught`), whose watcher nothing stops: that server need not exit. The
proxy is exported (`runContainerProxy`) and called by nothing in this repository.

`TransferContract` is what a caller is promised, without proxy or order of
work: one answer, a save that succeeds with the file in place, a staged copy that
stays while its handler uses it and is gone with the connector unless its removal failed.
`ContractSpec` states that ContainerTransfer implements it: a call is "lost" when
the connector has gone without an answer, a copy is in use while the handler works
in the container, `saved` is what was copied to the host.

### AppServerClient, CodexLauncher, CodexLauncherProofs

`AppServerClient` is the socket, the table of pending requests and their timers:
`Receive`, `TimeOut` and `Shutdown` compete for a request. `CodexLauncher` extends it:
`main` is where `runLauncher` is, in its start-up or in its cleanup, `app`, `tui` and
`end` the three children, `at[c]` and `connected` a command and its connection to the
control server. Of its state only `thread` is there, which every registration
overwrites; the rest is CodexMonitor. `known` is the thread at the TUI's exit, `retained`
the one the cleanup reads, `given` the one session-end is started with; `replaced` says
that another was registered in between. session-end exits with 0 (`ended`) or otherwise, may
not be spawned, or hangs: `reported` is the failure the launcher writes. `TransportFails` is an
error of the socket that shuts the client down and leaves it open; a socket whose
opening or initialize failed stays open as well, for nobody has a client to close. `Remove`
may fail (the directory is "kept"). `Signal` before the handlers are installed, or
after they are off, kills the process, which leaves everything: nothing is said of that.

Each `MC*` module names the model values and the calls of its instances.

## 3. The runs

| run | instance | shows |
|---|---|---|
| `session_recovery` | 1 record, 2 processes, 3 call slots, 5 calls, 2 crashes, 3 failures | one live owner, clients of the current owner only, an end that leaves no lease, release only after a persisted intent, and the refinement of OwnerLifecycle |
| `session_progress` | 2 records, 2 processes, 2 slots each | processes that freeze on each other's guard: the busy timeout lets every call end |
| `binding_rivals` | 3 clients (one managed), 2 identities, 3 calls, 1 restart, 1 lost answer | the rebind repeats nothing, takes nothing, acts only as what was chosen, leaves managed clients alone, and ends |
| `binding_switch` | one session, 3 calls, 1 restart | **violation** of `ActsAsWanted` |
| `identities_tools` | any two tools on two names or a generated one, 3 failures | list and daemon agree with what an undisturbed tool reports, on success and on refusal |
| `identities_adoptions` | two creations | **violation** of `AdoptedIsListed` |
| `monitor_commands` | 3 commands of one ours-codex session's hooks, tools and notifications, any failures; or 2 foreground calls of a plain session | consent, a monitor that follows the session's binding, a watcher that follows the state where commands do not overlap, no foreground child that outlives its call |
| `monitor_switch` | 4 commands, nothing fails | **violation** of `SwitchDisarms` |
| `watcher_mail` | 2 arrivals, 1 turn of the user, 1 failure; or 2 starts, 1 stop, 1 arrival | no arrival passed over, no wake stranded, mail read in the end, also while a stopped loop is still under way |
| `connector_calls` | a host profile or a selected owner, 2 sessions, 3 clients, 2 calls, 2 watchers, 1 arrival, 2 troubles (a start in vain, a session's end, an eviction, a failed request) | one running watcher a session, no binding replaced by the seeding, a watch that is taken up again, a process that goes |
| `transfers` | 2 file calls of any tool, with a proxy, a tool policy or neither, 2 failures | an admission as long as its handler, a listing that survives its probe, the refinement of TransferContract, calls that are answered, a connector that goes after its client |
| `launcher` | 2 commands, 2 threads, 1 request of the watcher, 2 faults, 1 signal | a start-up and a cleanup that end, a registered thread whose session is ended or reported as not ended, nothing left that holds the process |

Why the bounds are enough. The properties relate a call to at most one other call
and to one event of the environment at a time. Two processes with two calls in
one of them reach every overlap of line, guard and record; two crashes and three
failures allow a failure during recovery from a failure. Two identities and a
rival reach a switch, an eviction and a refused rebind; a second restart meets
a call that has used its one retry. Two calls with three failures
reach every rollback, the failure of a rollback, and both again. Two arrivals
tell mail that arrived before a poll from mail that arrived after it; two loops
are an old and a new one, and a third would find the same flags. Two calls of a
connector, of one session whose owner ends between them or of two sessions, make
every watcher meet a successor and every seeding a binding. Three commands are a
registration, an arm and a switch in any order, each able to overlap with the next; the
fourth of `monitor_switch` lets another save take its file. Two file calls put one into
each loop of the proxy, and two failures a failing copy with a failing removal. Two
faults let a child die in the start-up or the cleanup that another brought about; two
threads are one that is registered and one that takes its place. Runs stop at
their bounds, therefore `CHECK_DEADLOCK FALSE` (real calls are made for ever); what
must not wait for ever is stated as a liveness property.

Fairness. `CallsEnd` of NativeSession assumes that the event loop runs what is
ready, that a request is answered or fails, and that SQLite's busy timeout
(5 s, `session-guard.ts:15`) fires; it does not assume that a guard is ever
granted. `CallsEnd` of ToolBinding assumes that a call's next step is taken, as
every request is answered or given up by the transport. `MailIsRead` assumes the
same of loops and wakes, the delivery of notifications, and that a turn that was
accepted is run to its end and reads its mail, as `WAKE_PROMPT` asks. `WatchResumes` and
`ExitsWhenIdle` assume of a connector that the event loop goes on, requests and
aborted streams end, and timers fire. `ForegroundStops` assumes that a client is
attached or refused and closed, and that signals are delivered. `CallsSettle` assumes
that requests of the daemon and helper processes end, somehow, and that a server exits
when its input has ended and caught no call inside `clientFor`; `LauncherEnds` that timers
fire and that a TUI which is told to stop stops, not that session-end or the App Server do anything. Nothing is assumed
of users, senders, restarts, crashes or failures.

### Where the code and its documents differ

* **`binding_switch`.** The connector learns the bound name once
  (`tool.ts:120`). After `choose_identity` switched the session and a daemon restart dropped its
  lease, the silent rebind takes the session back to its first identity, and the
  retried call works as that one.
* **`identities_adoptions`.** `add()` reads the list and replaces the file with
  nothing held in between (`application-identities.ts:115`): of two adoptions at
  once one is lost, although both tools report success.
* **`monitor_switch`.** Two ways. The PostToolUse hook looks at the name in the
  tool's input (`hooks/runner.mjs:62`): a temporary identity with a generated name sends no
  command, the watcher goes on for the identity before, and an arm for the new
  one is refused. And all saves of the control server share a temporary file
  (`control-server.mjs:10`): of a switch and a thread notification that overlap one
  fails in `rename` after its state change, and its effects are dropped. The run's trace
  is the first, as the shorter one; the second comes when `BindTools` is left with
  the named tools.

Further, not among the runs: the properties leave out situations in which the
model, checked without the restriction, fails them.

* A shutdown while a call is inside `clientFor` (`caught`, in `ExitsWhenIdle`, `ClientsInv`
  and `CallsSettle`). The call goes on, registers a
  watcher after the shutdown has stopped those there were (`connector.ts:274`), and
  nothing stops this one: the process outlives its client, which
  `test/proxy-exit-on-stdin-eof.test.mjs` guards against for an idle connector.
* An arm that is being saved when the cleanup of the launcher stops the watcher
  (`late`, `launcher.mjs:111`). Its effects start the watcher again, which polls on: the
  process stays, which "launcher exits naturally after ... cleanup"
  (`codex/test/launcher.test.mjs:11`) guards against without a command under way.
* Mail during a turn the watcher is notified of (`subscribed` in CodexWatcher).
  `turn/started` has reset `pending`, the arrival sets `queued`, and `turn/completed`
  only looks at `pending` (`watcher.mjs:26`): the mail waits for the next arrival.
* Two overlapping first calls of a session (`mixed`). Both seed; one may have chosen an
  identity when the `chooseIdentity` of the other's seeding replaces it, although an
  existing binding "takes precedence" (`connector.ts:119`).
* A registration of another thread while the cleanup awaits `watcher.stop()` (`replaced`,
  `launcher.mjs:111`). It takes the place of the thread that was registered at the TUI's
  exit, and session-end is started for the new one only; a registration after the state was
  read (`launcher.mjs:112`) is not ended at all.
* The socket of a connection whose opening or initialize failed
  (`app-server-client.mjs:105`). Nothing closes it; `NothingHeld` allows it while the App
  Server has been told to stop and is still there, as its end closes the socket.
* A start-up that fails before the App Server is spawned: `chmod` or `freePort` leave the
  directory (`launcher.mjs:99`), and `NothingHeld` begins after that.

Two properties exclude a situation in which the code loses its place and no
document promises otherwise: a stopped loop that comes back from a save or a
`startTurn` (`stale` in CodexWatcher), and commands that overlap or fail (`clean` in
CodexMonitor). Two more things the models show and no document rules out: the
directory of a cancelled call stays until the proxy ends, for the MCP SDK sends no answer that
would remove it, and mail that arrives between `get_messages` and the attachment of the next
network watch is for the SDK's stream to report, which is not in this repository.

## 4. What is proved

Every safety invariant, every action property and both refinements that the passing
runs check are theorems, for all values of the constants. The proofs assume what the
ASSUMEs of the modules say and no bound: any number of records, owners, processes, calls,
clients, watchers, commands, file calls, faults and restarts. The daemon's part, the
App Server's and the server's in the container are assumptions of the models. Each
proof module shows an invariant `IInv` inductive, one lemma per action (or group of actions
with one effect), and derives its theorems from `Invariance`, in NativeSessionProofs
together with `LineInv`. TLC has checked every one of these invariants on the instance
of its run.

| module | theorem | property |
|---|---|---|
| `NativeSessionProofs` | `TypeCorrect`, `OneOwnerLives`, `ClientIsCurrent`, `EndLeavesNoLease`, `NoProcessBlocksItself` | `TypeOK`, `OneLiveOwner`, `ReturnsCurrentOwner`, `EndReleases`, `NoSelfBlock` |
| | `ReleaseAfterIntent`, `Refinement` | `ReleaseNeedsIntent`, `LifecycleSpec` |
| `ToolBindingProofs` | `TypeCorrect`, `OneEffect`, `ActsAsChosen` | `TypeOK`, `AtMostOnce`, `OnlyChosen` |
| | `NothingTaken`, `ManagedAlone` | `EvictionIsForced`, `ManagedIsLeftAlone` |
| `AppIdentitiesProofs` | `TypeCorrect`, `SuccessIsListed`, `RefusalIsUndone`, `GeneratedIsAdoptedOrClosed` | `TypeOK`, `ListFollowsResult`, `RefusalRestores`, `NoOrphan` |
| | `ListIsEditedFirst` | `EditComesFirst` |
| `MonitorSessionProofs` | `TypeCorrect`, `NeverUninvited`, `WatcherAgrees`, `ServerFollows` | `SessionTypeOK`, `WatchNeedsConsent`, `WatcherFollowsState`, `MonitorFollowsSession` |
| `CodexWatcherProofs` | `NoWakeIsStranded`, `NoArrivalIsMissed` | `WatcherInv`, `NoArrivalSlips` |
| `ConnectorClientsProofs` | `NoWatcherRunsAway`, `SeedingYields` | `ClientsInv`, `SeedYields` |
| | `ClientsArePrivate` | (`OneSession`, stated in the module) |
| `ContainerTransferProofs` | `TypeCorrect`, `HandlersAreAdmitted`, `ReadRowsAreReported` | `ProxyTypeOK`, `AdmissionSpansHandler`, `ReadIsReported` |
| | `Refinement` | `ContractSpec` |
| `CodexLauncherProofs` | `TypeCorrect`, `NothingIsHeld`, `ThreadSessionEnds` | `LauncherTypeOK`, `NothingHeld`, `ThreadIsEnded` |
| | `RequestsAreTracked` | (`TableOK`, stated in the module) |

`NativeSessionProofs`. `OneLiveOwner` and its companions are not inductive: whether
a call may write a record depends on what it read before an await. `IInv` adds
what a call under its guard may rely on (`CallOK`: it still sees the record it
read, the owner it works on is the record's), why it may (`GuardInv`: guards are exclusive),
and that records share no owner (`StoreInv`, `CacheInv`). Each action either is a step of the
guard's holder, for which `CallOK` is shown anew, or leaves what others rely on
untouched (`Untouched`, `Untouching`). `Refinement` maps every step to a step of
OwnerLifecycle or to a stutter. `NoSelfBlock` needs the promise chain instead. `LineInv` says
that the calls of a process on a record can be numbered in the order they came, so that
each waits for the one before it, the first for nobody, and the tail came last (an
existential witness stands for the order: a cycle of calls that wait for one
another satisfies every statement about neighbours). A call that waits for the
guard and one that holds it have both stopped waiting in line, hence are both its head.

`ToolBindingProofs`. `AtMostOnce` is not inductive: a call that is about to be
repeated must not have had an effect. `IInv` says that of every point from which a
call can still be repeated (`Untried`), and that what a call is about to bind, to
close or to remember was chosen by its session (`CallOK`, `Remembered`). A step of one
call leaves the others alone (`Undisturbed`). `NothingTaken` is a case split on who may
change a binding; managed clients are offered no binding tool and never re-assert
(`ManagedAlone`).

`AppIdentitiesProofs`. What the list and the daemon say of a name is compared with the
result of a tool only while no other tool disturbs it, so the invariant follows an
undisturbed tool from its `has` to its answer: what it found, what it has written, what
a rollback still has to restore, and which file content the pending write is computed from.

`MonitorSessionProofs`. `Consent`: what is still to be done for a command subscribes
only identities armed for it. `Orderly` holds while commands have not overlapped or
failed: the file, the state and the watcher are what the command in flight has made and
will make of them. `Follows` is about the wire: from some command on, all commands that are
written are about the identity the session is bound to, and before the first of them
the server has nothing to correct.

`CodexWatcherProofs`. At most one loop has not been aborted (`Single`), a
loop awaits one `startTurn` (`Awaits`). As long as no stopped loop has come back, the cursor of
that loop is the watcher's and a page it is about to pass over is read (`CursorsOK`,
`SeenOK`). Where completions are polled a queued wake waits for a pending one, a
pending one has a request or a completion to come, and no live loop's request is
under way while something is queued (`Ahead`): its failure would reset `pending` and
leave the queue alone.

`ConnectorClientsProofs`. That no watcher runs away depends on what a call and the start
hold where they are (`CallsOK`, `BootOK`), on watchers having clients, and on no call
being inside `clientFor` when the connector closes, except where `caught` says so (`WatchersOK`).
A client is one session's for good (`OneSession`: owners are not shared). Unless two
first calls of a session overlapped (`Overlap`), a client that is being seeded has no
binding until the seeding makes one (`Seeding`).

`ContainerTransferProofs`. `HandlerOK` ties the place of a handler to its admission and to
what it has uploaded, opened or probed; `PlaceOK` the place of a call's line,
answer, copies and table entry to one another; `LinesOnce` and `AnswersOnce` say that a
line is in one place only; `PartsOK` what the two loops of the proxy are in the middle of. The
refinement has one lemma per action: most actions are stutters, and what they change
is invisible to the contract because of `PlaceOK`.

`CodexLauncherProofs`. `TableOK`: the entries of the client's table are the
requests that have not been settled, and each has its timer. `StartOK` says what exists at
every step of the start-up, so that a failure there finds it; `EndOK` and `Parted` what the
cleanup has put away, step by step, and that a socket which is still open belongs to no
client. `PartingOK`: a thread gives way only to another one, so the one at the TUI's exit is
retained, and handed to session-end, unless it was replaced; and once the parts are told to stop,
session-end has exited with 0 or its failure is reported.

Three assumptions on constants are there for the proofs: names of turns are no
command slots (`CallAssumption` of MonitorSession), there is a name, and adopted and hosted
identities are names (`SetsAssumption` of AppIdentities).

## 5. Only model-checked, and not modelled

Only model-checked: the liveness properties (`CallsEnd` twice, `MailIsRead`,
`WatchResumes`, `ExitsWhenIdle`, `ForegroundStops`, `CallsSettle`, `LauncherEnds`),
whose proof needs ENABLED and fairness. The three expected violations are
counterexamples, not theorems.

Abstracted: file permissions and formats, message texts, the delays of the poll
loop, the daemon beyond leases, exclusive bindings, existence of identities and
arrival counts; identity names are model values, so the choice of a generated
name is an unused one.

Not modelled: the tools that are one request and its text beside `runTool`
(contacts, profile, history, commands, messages), what hooks make of the daemon's
answers, the plugin proxies, installers, profile validation and build scripts: sequential code
without state of its own, whose risk is in texts and formats. `PROJECT.json` gives the
reason for each.

## 6. Plan

Done: all modules above, with their runs, and the theorems of section 4.

Theorems planned: the identity list with one tool at a time and no failure at all
(every adoption is listed), lemmas that compose modules (an owner of ConnectorClients
as one of NativeSession), the invariants of the compositions below.

Models planned: the composition of CodexMonitor and CodexWatcher (the watcher of the
one refined by the other), and of ConnectorClients with OwnerLifecycle; the edits of the
installers against reference definitions over small documents.
