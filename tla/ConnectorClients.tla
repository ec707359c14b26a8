--------------------------- MODULE ConnectorClients ---------------------------
(***************************************************************************)
(* packages/core/src/connector.ts: the start of a connector process, for a *)
(* host profile or for an owner that a supervisor selected, its clients,   *)
(* the seeding of their sessions with OURS_BIND_IDENTITY, their arrival    *)
(* watchers, and the shutdown.                                             *)
(*                                                                         *)
(* Concurrent actors: the start, tool calls, each cut at its awaits        *)
(* (nativeClientFor, the requests of seedBinding, the tool itself), the    *)
(* loop of every watcher, and whoever closes stdio: a signal before the    *)
(* connector listens ends it.  External: the daemon's bindings,            *)
(* and the owners of native sessions, which the hooks of other processes   *)
(* end (NativeSession models how they are found and ended, AppIdentities   *)
(* what an adoption does to the list, ToolBinding the inside of a tool     *)
(* call: each of those is one step or one open choice here).               *)
(***************************************************************************)
EXTENDS Naturals

CONSTANTS
    Session,      \* native session selectors
    Client,       \* clients of owners; an owner that succeeds another has a new one
    Call,         \* tool calls
    Boot,         \* the start of the connector, runConnector up to its listeners
    Supervised,   \* the sessions whose owner a supervisor may select
    Watcher,      \* bound: the arrival watchers that may be made
    Identity,
    Seed,         \* OURS_BIND_IDENTITY
    Null,         \* no owner, no binding, no watcher, no client
    Work,         \* a tool that works under the binding
    Workload,     \* the calls that may be made: [call, session, tool]
    Owners,       \* what the record files may say when the connector starts
    MaxArrivals,  \* bound: arrivals
    MaxTroubles   \* bound: failing requests, ends of sessions, and bindings
                  \* taken by sessions of other connectors

ASSUME NullAssumption == Null \notin Session \cup Client \cup Watcher \cup Identity
ASSUME SeedAssumption == Seed \in Identity /\ Work \notin Identity
ASSUME BootAssumption == Boot \notin Call /\ Supervised \subseteq Session
ASSUME WorkloadAssumption ==
    Workload \subseteq [call : Call, session : Session, tool : Identity \cup {Work}]
ASSUME OwnersAssumption == \A o \in Owners :
    /\ o \in [Session -> Client \cup {Null}]
    /\ \A s, t \in Session : o[s] = o[t] => s = t \/ o[s] = Null
ASSUME BoundsAssumption == {MaxArrivals, MaxTroubles} \subseteq Nat

VARIABLES
    owner,      \* the client of a session's owner, as the record file names it
    issued,     \* the clients issued so far
    bound,      \* daemon: the identity of a client's session
    memory,     \* boundIdentities: what the connector knows of it
    seeded,     \* the clients it has seeded
    pc, session, tool, client,   \* a call, its arguments and its client; the
                \* start, and the client that it attached (Null: a host profile)
    slot,       \* nativeWatchers: the watcher of a session
    registered, \* watchers: those the shutdown stops
    at, of,     \* where the loop of a watcher is, whose watcher it is
    watching,   \* its this.bound
    stopped,    \* its this.stopped, and its abort signal
    event,      \* the daemon has an event for its stream
    closing,    \* the shutdown has begun
    caught,     \* history: a call was inside clientFor then
    mixed,      \* history: sessions with two calls at once
    arrivals, troubles

daemon == <<owner, issued, bound>>
memories == <<memory, seeded>>
calls == <<pc, session, tool, client>>
watchers == <<slot, registered, at, of, watching, stopped, event>>
history == <<caught, mixed>>
bounds == <<arrivals, troubles>>
vars == <<daemon, memories, calls, watchers, closing, history, bounds>>

Task == Call \cup {Boot}

Inside == {"select", "current", "adopt", "choose", "rollback", "ready"}

TypeOK ==
    /\ owner \in [Session -> Client \cup {Null}] /\ issued \in SUBSET Client
    /\ bound \in [Client -> Identity \cup {Null}]
    /\ memory \in [Client -> Identity \cup {Null}] /\ seeded \in SUBSET Client
    /\ pc \in [Task -> Inside \cup {"new", "run", "done", "serve", "refuse"}]
    /\ session \in [Call -> Session \cup {Null}]
    /\ tool \in [Call -> Identity \cup {Work}]
    /\ client \in [Task -> Client \cup {Null}]
    /\ slot \in [Session -> Watcher \cup {Null}] /\ registered \in SUBSET Watcher
    /\ at \in [Watcher -> {"new", "sleep", "watch", "retry", "end"}]
    /\ of \in [Watcher -> Client \cup {Null}]
    /\ watching \in [Watcher -> Identity \cup {Null}]
    /\ stopped \in [Watcher -> BOOLEAN] /\ event \in [Watcher -> BOOLEAN]
    /\ {closing, caught} \subseteq BOOLEAN /\ mixed \in SUBSET Session
    /\ {arrivals, troubles} \subseteq Nat

(* A connector that starts again finds sessions that go on: their owners   *)
(* are on disk and the daemon still knows their bindings.                  *)
Init ==
    /\ owner \in Owners
    /\ issued = {c \in Client : \E s \in Session : owner[s] = c}
    /\ bound \in {b \in [Client -> Identity \cup {Null}] :
                     /\ \A c \in Client : b[c] # Null => c \in issued
                     /\ \A c, d \in Client : b[c] = b[d] => c = d \/ b[c] = Null}
    /\ memory = [c \in Client |-> Null] /\ seeded = {}
    /\ pc = [k \in Task |-> "new"]
    /\ session = [k \in Call |-> Null]
    /\ tool = [k \in Call |-> Work]
    /\ client = [k \in Task |-> Null]
    /\ slot = [s \in Session |-> Null] /\ registered = {}
    /\ at = [w \in Watcher |-> "new"]
    /\ of = [w \in Watcher |-> Null]
    /\ watching = [w \in Watcher |-> Null]
    /\ stopped = [w \in Watcher |-> FALSE]
    /\ event = [w \in Watcher |-> FALSE]
    /\ closing = FALSE /\ caught = FALSE /\ mixed = {}
    /\ arrivals = 0 /\ troubles = 0

Goto(k, label) == pc' = [pc EXCEPT ![k] = label]

Trouble ==
    /\ troubles < MaxTroubles
    /\ troubles' = troubles + 1
    /\ UNCHANGED arrivals

------------------------------------------------------------------------------
(* The daemon and other processes. *)

(* A client whose owner was ended has no session any more. *)
Live(c) == \E s \in Session : owner[s] = c

(* Bindings are exclusive, and a choice without force takes none away. *)
Available(i, c) == \A d \in Client \ {c} : bound[d] # i

EndSession(s) ==
    /\ owner[s] # Null
    /\ Trouble
    /\ bound' = [bound EXCEPT ![owner[s]] = Null]
    /\ owner' = [owner EXCEPT ![s] = Null]
    /\ UNCHANGED <<issued, memories, calls, watchers, closing, history>>

Evict(c) ==
    /\ bound[c] # Null
    /\ Trouble
    /\ bound' = [bound EXCEPT ![c] = Null]
    /\ UNCHANGED <<owner, issued, memories, calls, watchers, closing, history>>

(* A request for c fails: its session has ended, or something else broke.  *)
RequestFails(c) ==
    \/ ~Live(c) /\ UNCHANGED bounds
    \/ Trouble

Arrive(i) ==
    /\ arrivals < MaxArrivals
    /\ arrivals' = arrivals + 1
    /\ event' = [w \in Watcher |-> event[w] \/ (at[w] = "watch" /\ watching[w] = i)]
    /\ UNCHANGED <<daemon, memories, calls, slot, registered, at, of, watching, stopped,
                   closing, history, troubles>>

------------------------------------------------------------------------------
(* runConnector: a host profile has a client per session, a selected owner *)
(* has one, attached and seeded before the connector serves.               *)
Profile == Goto(Boot, "ready") /\ UNCHANGED client

Attach ==
    /\ \E s \in Supervised :
          /\ owner[s] # Null
          /\ client' = [client EXCEPT ![Boot] = owner[s]]
    /\ Goto(Boot, "current")

Open ==
    /\ pc[Boot] = "new"
    /\ \/ (Profile \/ Attach) /\ UNCHANGED bounds
       \/ Trouble /\ Goto(Boot, "refuse") /\ UNCHANGED client
    /\ UNCHANGED <<daemon, memories, session, tool, watchers, closing, history>>

Alone == client[Boot] # Null

------------------------------------------------------------------------------
(* clientFor, which is the attached client where there is one. *)

Start(k) ==
    /\ pc[k] = "new" /\ pc[Boot] = "serve" /\ ~closing
    /\ \E x \in Workload :
          /\ x.call = k
          /\ session' = [session EXCEPT ![k] = x.session]
          /\ tool' = [tool EXCEPT ![k] = x.tool]
          /\ mixed' = IF \E j \in Call : session[j] = x.session /\ pc[j] # "done"
                      THEN mixed \cup {x.session} ELSE mixed
    /\ Goto(k, IF Alone THEN "run" ELSE "select")
    /\ client' = [client EXCEPT ![k] = client[Boot]]
    /\ UNCHANGED <<daemon, memories, watchers, closing, caught, bounds>>

(* The session's owner, or a new one, with its cached client. *)
OwnerOf(s) == IF owner[s] # Null THEN owner[s] ELSE CHOOSE c \in Client : c \notin issued

Select(k) ==
    /\ pc[k] = "select"
    /\ \/ /\ owner[session[k]] # Null \/ issued # Client
          /\ LET c == OwnerOf(session[k]) IN
                /\ owner' = [owner EXCEPT ![session[k]] = c]
                /\ issued' = issued \cup {c}
                /\ client' = [client EXCEPT ![k] = c]
                /\ Goto(k, IF c \in seeded THEN "ready" ELSE "current")
          /\ UNCHANGED bounds
       \/ Trouble /\ Goto(k, "done") /\ UNCHANGED <<owner, issued, client>>
    /\ UNCHANGED <<bound, memories, session, tool, watchers, closing, history>>

(* Variant: the session is seeded without a look at its binding. *)
CurrentUnasked(k) ==
    /\ pc[k] = "current"
    /\ Goto(k, "adopt")
    /\ UNCHANGED <<daemon, memories, session, tool, client, watchers, closing, history, bounds>>

(* seedBinding: a session that has a binding keeps it; one that cannot be  *)
(* asked is left alone.                                                    *)
Current(k) ==
    /\ pc[k] = "current"
    /\ \/ /\ Live(client[k]) /\ bound[client[k]] # Null
          /\ memory' = [memory EXCEPT ![client[k]] = bound[client[k]]]
          /\ Goto(k, "ready")
          /\ UNCHANGED bounds
       \/ /\ Live(client[k]) /\ bound[client[k]] = Null
          /\ Goto(k, "adopt")
          /\ UNCHANGED <<memory, bounds>>
       \/ /\ RequestFails(client[k])
          /\ Goto(k, "ready")
          /\ UNCHANGED memory
    /\ UNCHANGED <<daemon, seeded, session, tool, client, watchers, closing, history>>

(* Only a name this seeding has listed itself is taken off the list again. *)
Refused(k) == \E next \in {"rollback", "ready"} : Goto(k, next)

Adopt(k) ==
    /\ pc[k] = "adopt"
    /\ \/ Goto(k, "choose") /\ UNCHANGED bounds
       \/ Trouble /\ Refused(k)
    /\ UNCHANGED <<daemon, memories, session, tool, client, watchers, closing, history>>

MayBind(k, i) == Live(client[k]) /\ Available(i, client[k])

Bind(k, i) == bound' = [bound EXCEPT ![client[k]] = i]

Remember(k, i) == memory' = [memory EXCEPT ![client[k]] = i]

(* chooseIdentity without force, whose answer may be lost. *)
Choose(k) ==
    /\ pc[k] = "choose"
    /\ \/ /\ MayBind(k, Seed)
          /\ Bind(k, Seed) /\ Remember(k, Seed)
          /\ Goto(k, "ready")
          /\ UNCHANGED bounds
       \/ /\ MayBind(k, Seed)
          /\ Bind(k, Seed)
          /\ Trouble /\ Refused(k)
          /\ UNCHANGED memory
       \/ /\ \/ ~MayBind(k, Seed) /\ UNCHANGED bounds
             \/ Trouble
          /\ Refused(k)
          /\ UNCHANGED <<bound, memory>>
    /\ UNCHANGED <<owner, issued, seeded, session, tool, client, watchers, closing, history>>

Rollback(k) ==
    /\ pc[k] = "rollback"
    /\ Goto(k, "ready")
    /\ UNCHANGED <<daemon, memories, session, tool, client, watchers, closing, history, bounds>>

(* run() up to its next await, as w's loop finds the variables: it looks   *)
(* for the binding until it knows one, then watches that identity.         *)
Look(w, halted, known, name) ==
    /\ at' = [at EXCEPT ![w] = CASE halted -> "end"
                                 [] ~halted /\ name = Null /\ known = Null -> "sleep"
                                 [] OTHER -> "watch"]
    /\ watching' = [watching EXCEPT ![w] =
                       IF ~halted /\ name = Null THEN known ELSE name]

Halt(S) == stopped' = [w \in Watcher |-> stopped[w] \/ w \in S]

(* Variant: the watcher of a replaced client is not stopped. *)
WatchBeside(s, c) ==
    /\ LET w == CHOOSE v \in Watcher : at[v] = "new" IN
          /\ slot' = [slot EXCEPT ![s] = w]
          /\ registered' = registered \cup {w}
          /\ of' = [of EXCEPT ![w] = c]
          /\ Look(w, FALSE, memory[c], Null)
    /\ UNCHANGED <<stopped, event>>

Watched(s, c) == slot[s] # Null /\ of[slot[s]] = c

NewWatchers == {w \in Watcher : at[w] = "new"}
NewWatcher == CHOOSE w \in NewWatchers : TRUE

(* A new watcher for client c of session s takes the place of the old one. *)
Watch(s, c) ==
    \/ Watched(s, c) /\ UNCHANGED watchers
    \/ /\ ~Watched(s, c) /\ NewWatchers # {}
       /\ Halt({slot[s]})
       /\ LET w == NewWatcher IN
             /\ slot' = [slot EXCEPT ![s] = w]
             /\ registered' = (registered \ {slot[s]}) \cup {w}
             /\ of' = [of EXCEPT ![w] = c]
             /\ Look(w, FALSE, memory[c], Null)
       /\ UNCHANGED event

(* The rest of clientFor: the client has been seeded, and is watched. *)
Ready(k) ==
    /\ pc[k] = "ready"
    /\ seeded' = seeded \cup {client[k]}
    /\ Watch(session[k], client[k])
    /\ Goto(k, "run")
    /\ UNCHANGED <<daemon, memory, session, tool, client, closing, history, bounds>>

(* The server is there: an attached client has its watcher from here on.   *)
WatchAlone(c) ==
    LET w == NewWatcher IN
        /\ NewWatchers # {}
        /\ registered' = registered \cup {w}
        /\ of' = [of EXCEPT ![w] = c]
        /\ Look(w, FALSE, memory[c], Null)
        /\ UNCHANGED <<slot, stopped, event>>

Serve ==
    /\ pc[Boot] = "ready"
    /\ \/ Alone /\ WatchAlone(client[Boot])
       \/ ~Alone /\ UNCHANGED watchers
    /\ Goto(Boot, "serve")
    /\ UNCHANGED <<daemon, memories, session, tool, client, closing, history, bounds>>

------------------------------------------------------------------------------
(* The tool, by runTool: a success learns the bound name if none is known, *)
(* an unbound session gets back the name that is, or it is forgotten.      *)
Learn(c, i) == memory' = [memory EXCEPT ![c] = IF memory[c] = Null THEN i ELSE memory[c]]

RunWork(k, c) ==
    /\ tool[k] = Work
    /\ Live(c)
    /\ \/ bound[c] # Null /\ Learn(c, bound[c]) /\ UNCHANGED bound
       \/ bound[c] = Null /\ memory[c] = Null /\ UNCHANGED <<bound, memory>>
       \/ /\ bound[c] = Null /\ memory[c] # Null
          /\ \/ Available(memory[c], c) /\ Bind(k, memory[c]) /\ UNCHANGED memory
             \/ ~Available(memory[c], c) /\ Remember(k, Null) /\ UNCHANGED bound
    /\ UNCHANGED bounds

RunChoose(k, c, i) ==
    /\ tool[k] = i
    /\ \/ MayBind(k, i) /\ Bind(k, i) /\ Learn(c, i)
       \/ ~MayBind(k, i) /\ UNCHANGED <<bound, memory>>
    /\ UNCHANGED bounds

Run(k) ==
    /\ pc[k] = "run"
    /\ Goto(k, "done")
    /\ \/ RunWork(k, client[k])
       \/ \E i \in Identity : RunChoose(k, client[k], i)
       \/ RequestFails(client[k]) /\ UNCHANGED <<bound, memory>>
    /\ UNCHANGED <<owner, issued, seeded, session, tool, client, watchers, closing, history>>

------------------------------------------------------------------------------
(* ArrivalWatcher.run *)

(* An event is announced (a failing push is absorbed), and a watch that    *)
(* finds the binding changed looks again.                                  *)
Announce(w) ==
    /\ at[w] = "watch" /\ event[w] /\ ~stopped[w]
    /\ event' = [event EXCEPT ![w] = FALSE]
    /\ \/ /\ memory[of[w]] = watching[w]
          /\ UNCHANGED <<at, watching>>
       \/ /\ memory[of[w]] # watching[w]
          /\ Look(w, FALSE, memory[of[w]], Null)
    /\ UNCHANGED <<daemon, memories, calls, slot, registered, of, stopped, closing,
                   history, bounds>>

(* Variant: a failed watch is not taken up again. *)
BreakForGood(w) ==
    /\ at[w] = "watch"
    /\ stopped[w] \/ ~Live(of[w])
    /\ at' = [at EXCEPT ![w] = "end"]
    /\ UNCHANGED <<daemon, memories, calls, slot, registered, of, watching, stopped, event,
                   closing, history, bounds>>

(* The stream ends: aborted; or failing, and the loop looks again later;   *)
(* or it just ends, and the same identity is watched anew.                 *)
Break(w) ==
    /\ at[w] = "watch"
    /\ event' = [event EXCEPT ![w] = FALSE]
    /\ \/ /\ stopped[w]
          /\ at' = [at EXCEPT ![w] = "end"]
          /\ UNCHANGED <<watching, bounds>>
       \/ /\ ~stopped[w]
          /\ RequestFails(of[w])
          /\ at' = [at EXCEPT ![w] = "retry"]
          /\ watching' = [watching EXCEPT ![w] = Null]
       \/ /\ ~stopped[w]
          /\ Trouble
          /\ UNCHANGED <<at, watching>>
    /\ UNCHANGED <<daemon, memories, calls, slot, registered, of, stopped, closing, history>>

(* Variant: the timer's callback does not check this.stopped. *)
SleptOn(w) ==
    /\ at[w] \in {"sleep", "retry"}
    /\ Look(w, FALSE, memory[of[w]], watching[w])
    /\ UNCHANGED <<daemon, memories, calls, slot, registered, of, stopped, event, closing,
                   history, bounds>>

Slept(w) ==
    /\ at[w] \in {"sleep", "retry"}
    /\ Look(w, stopped[w], memory[of[w]], watching[w])
    /\ UNCHANGED <<daemon, memories, calls, slot, registered, of, stopped, event, closing,
                   history, bounds>>

------------------------------------------------------------------------------
(* stdio closes, or a signal: every watcher is stopped, and the process    *)
(* goes when nothing is left that keeps its event loop alive.              *)
Close ==
    /\ pc[Boot] = "serve" /\ ~closing
    /\ closing' = TRUE
    /\ Halt(registered)
    /\ caught' = \E k \in Call : pc[k] \in Inside
    /\ UNCHANGED <<daemon, memories, calls, slot, registered, at, of, watching, event,
                   mixed, bounds>>

(* A connector that could not start only says so until stdio closes.       *)
CloseRefusal ==
    /\ pc[Boot] = "refuse" /\ ~closing
    /\ closing' = TRUE
    /\ UNCHANGED <<daemon, memories, calls, watchers, history, bounds>>

BootStep == Open \/ Current(Boot) \/ Adopt(Boot) \/ Choose(Boot) \/ Rollback(Boot) \/ Serve

CallStep(k) == Select(k) \/ Current(k) \/ Adopt(k) \/ Choose(k) \/ Rollback(k) \/ Ready(k)
               \/ Run(k)

WatcherStep(w) == Announce(w) \/ Break(w) \/ Slept(w)

Next ==
    \/ \E k \in Call : Start(k) \/ CallStep(k)
    \/ \E w \in Watcher : WatcherStep(w)
    \/ \E s \in Session : EndSession(s)
    \/ \E c \in Client : Evict(c)
    \/ \E i \in Identity : Arrive(i)
    \/ BootStep
    \/ Close
    \/ CloseRefusal

Spec == Init /\ [][Next]_vars

(* The event loop runs what is ready, requests are answered or fail, an    *)
(* aborted stream ends and timers fire.                                    *)
Fairness ==
    /\ WF_vars(BootStep)
    /\ \A k \in Call : WF_vars(CallStep(k))
    /\ \A w \in Watcher : WF_vars(WatcherStep(w))

FairSpec == Spec /\ Fairness

------------------------------------------------------------------------------
(* A loop that runs on is the watcher of one session, for the client that  *)
(* this session last got, or the one of the attached client, and the       *)
(* shutdown reaches it: no loop of a replaced client goes on beside it.    *)
Runs(w) == at[w] \notin {"new", "end"} /\ ~stopped[w]

NoRunaway == \A w \in Watcher : Runs(w) =>
    /\ w \in registered
    /\ IF Alone THEN of[w] = client[Boot] ELSE \E s \in Session : slot[s] = w
    /\ closing => caught

(* The invariant of the whole state: its type, and no watcher that runs on. *)
ClientsInv == TypeOK /\ NoRunaway

(* Where a session makes one call after the other, and at the start, the   *)
(* seeding never replaces a binding, and never binds a session twice: a    *)
(* choice, a binding from before the connector started and an eviction     *)
(* stay.                                                                   *)
Seeds(k) == pc[k] = "choose" /\ pc'[k] # "choose"

SeedYields == [][\A k \in Task :
    Seeds(k) /\ (k # Boot => session[k] \notin mixed) /\ bound' # bound =>
        client[k] \notin seeded /\ bound[client[k]] \in {Null, Seed}]_vars

Known(w) == of[w] # Null /\ memory[of[w]] # Null

(* A watch that failed, or waited for a binding, watches once one is known *)
(* (or is stopped).                                                        *)
WatchResumes == \A w \in Watcher :
    Known(w) ~> (at[w] = "watch" \/ stopped[w] \/ ~Known(w))

Exited == closing /\ (\A k \in Call : pc[k] \in {"new", "done"})
                  /\ (\A w \in Watcher : at[w] \in {"new", "end"})

(* The process goes when stdio closes, if no call waits for its client.    *)
ExitsWhenIdle == (closing /\ ~caught) ~> Exited
==============================================================================
