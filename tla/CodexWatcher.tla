------------------------------ MODULE CodexWatcher ------------------------------
(***************************************************************************)
(* packages/codex/src/watcher.mjs: MonitorWatcher polls the daemon for     *)
(* arrivals of one identity and wakes the Codex thread with a turn that    *)
(* reads the mail.                                                         *)
(*                                                                         *)
(* Concurrent actors: the poll loop of each start() (a stopped loop may    *)
(* still be in the middle of a poll), a #trackCompletion task per wake,    *)
(* the notifications of the App Server, the user's own turns, and the      *)
(* senders of mail.  Mail is numbered: 1 .. arrived has arrived, the agent *)
(* has read 1 .. readTo, a cursor is the number of the last arrival seen.  *)
(* The daemon and the App Server are external: the App Server runs one     *)
(* turn at a time, and a turn that was asked for runs when its turn comes. *)
(***************************************************************************)
EXTENDS Naturals, Sequences

CONSTANTS
    Loop,         \* the calls of start()
    Wake,         \* the wake turns that may be asked for
    Null,         \* no cursor, no turn, no loop
    User,         \* the user's turn
    Bounds        \* bounds: mail, calls of start() and stop(), turns of the
                  \* user, failing requests and saves

ASSUME NullAssumption == Null \notin Loop \cup Wake \cup Nat
ASSUME UserAssumption == User \notin Wake \cup {Null}
ASSUME BoundsAssumption ==
    Bounds \subseteq [arrivals : Nat, starts : Nat, stops : Nat, turns : Nat, failures : Nat]

VARIABLES
    arrived, readTo,             \* daemon: the mail
    running, current,            \* MonitorWatcher: this.running, current.cursor
    turnActive, pending, queued, \* MonitorWatcher: its view of the turns
    authFailed, alive,           \* its authFailed; the launcher process
    at,                          \* at[l]: where loop l is
    aborted,                     \* aborted[l]: its signal
    cursor, page, hot,           \* of its poll: argument, answer, is there mail
    caller,                      \* caller[w]: the loop whose poll awaits startTurn
    asked,                       \* asked[w]: where the startTurn request w is
    track,                       \* track[w]: where the #trackCompletion of w is
    completed,                   \* App Server: wakes whose turn has ended
    turn,                        \* App Server: the running turn
    subscribed,                  \* App Server: it notifies this connection of turns
    waiting,                     \* App Server: the turns to run
    drained,                     \* App Server: the running turn has read the mail
    notes,                       \* notifications on their way
    noticed,                     \* history: mail up to here has a wake
    stale,                       \* history: a stopped loop has come back
    left                         \* bound: what may still happen

mail == <<arrived, readTo>>
watcher == <<running, current, turnActive, pending, queued, authFailed, alive>>
loops == <<at, aborted, cursor, page, hot>>
wakes == <<caller, asked, track, completed>>
appServer == <<turn, subscribed, waiting, drained, notes>>
history == <<noticed, stale>>
vars == <<mail, watcher, loops, wakes, appServer, history, left>>

Cursors == Nat \cup {Null}

TypeOK ==
    /\ arrived \in Nat /\ readTo \in 0 .. arrived /\ noticed \in 0 .. arrived
    /\ {running, alive, authFailed, stale, subscribed} \subseteq BOOLEAN
    /\ current \in Cursors
    /\ turnActive \in BOOLEAN /\ pending \in BOOLEAN /\ queued \in BOOLEAN
    /\ at \in [Loop -> {"off", "page", "unread", "save", "waking", "sleep", "end"}]
    /\ aborted \in [Loop -> BOOLEAN]
    /\ cursor \in [Loop -> Cursors]
    /\ page \in [Loop -> 0 .. arrived]
    /\ hot \in [Loop -> BOOLEAN]
    /\ caller \in [Wake -> Loop \cup {Null}]
    /\ asked \in [Wake -> {"no", "asking", "answered"}]
    /\ track \in [Wake -> {"off", "reading", "sleep"}]
    /\ turn \in Wake \cup {User, Null}
    /\ waiting \in SUBSET Wake /\ completed \in SUBSET Wake
    /\ drained \in BOOLEAN
    /\ notes \in Seq({"started", "completed"})
    /\ left \in [arrivals : Nat, starts : Nat, stops : Nat, turns : Nat, failures : Nat]

Init ==
    /\ arrived = 0 /\ readTo = 0 /\ noticed = 0
    /\ running = FALSE /\ alive = TRUE /\ authFailed = FALSE /\ current = Null
    /\ stale = FALSE
    /\ turnActive = FALSE /\ pending = FALSE /\ queued = FALSE
    /\ at = [l \in Loop |-> "off"]
    /\ aborted = [l \in Loop |-> FALSE]
    /\ cursor = [l \in Loop |-> Null]
    /\ page = [l \in Loop |-> 0]
    /\ hot = [l \in Loop |-> FALSE]
    /\ caller = [w \in Wake |-> Null]
    /\ asked = [w \in Wake |-> "no"]
    /\ track = [w \in Wake |-> "off"]
    /\ turn = Null /\ waiting = {} /\ completed = {} /\ drained = FALSE
    /\ notes = <<>> /\ subscribed \in BOOLEAN
    /\ left \in Bounds

(* One of what is left of the bound. *)
Uses(field) ==
    /\ left[field] > 0
    /\ left' = [left EXCEPT ![field] = @ - 1]

Fails == Uses("failures")

(* A stopped loop comes back from a save or from startTurn. *)
ComesBack(l) == stale' = (stale \/ aborted[l])

At(l, label) == at' = [at EXCEPT ![l] = label]

(* Nothing is left of wake w: it stands for a new one. *)
Free(w) ==
    \/ asked[w] = "no"
    \/ asked[w] = "answered" /\ track[w] = "off" /\ w \notin waiting /\ turn # w

Fresh == CHOOSE w \in Wake : Free(w)

(* startTurn is sent.  A is asked[] so far, from the loop that awaits it. *)
Asks(A, from) ==
    /\ \E w \in Wake : Free(w)
    /\ asked' = [A EXCEPT ![Fresh] = "asking"]
    /\ caller' = [caller EXCEPT ![Fresh] = from]
    /\ completed' = completed \ {Fresh}

------------------------------------------------------------------------------
(* start and stop *)

(* stop() aborts every loop and forgets what is asked for and queued. *)
Halt(live) ==
    /\ aborted' = [l \in Loop |-> l \notin live]
    /\ pending' = FALSE
    /\ queued' = FALSE
    /\ noticed' = readTo

Start(l) ==
    /\ alive /\ at[l] = "off"
    /\ l = CHOOSE j \in Loop : at[j] = "off"
    /\ Halt({j \in Loop : at[j] = "off"})
    /\ running' = TRUE
    /\ authFailed' = FALSE
    /\ current' = Null
    /\ cursor' = [cursor EXCEPT ![l] = Null]
    /\ At(l, "page")
    /\ Uses("starts")
    /\ UNCHANGED <<mail, turnActive, alive, page, hot, wakes, appServer, stale>>

Stop ==
    /\ alive /\ running /\ Uses("stops")
    /\ Halt({j \in Loop : at[j] = "off"})
    /\ running' = FALSE
    /\ UNCHANGED <<mail, turnActive, authFailed, alive, current, at, cursor, page,
                   hot, wakes, appServer, stale>>

------------------------------------------------------------------------------
(* The poll loop. *)

Continues(l) == running /\ ~aborted[l]

(* pollOnce returns: its answer becomes this.current, whoever stopped the  *)
(* loop in the meantime, and the loop polls on from there or ends.         *)
Advance(l) ==
    /\ current' = page[l]
    /\ cursor' = [cursor EXCEPT ![l] = page[l]]
    /\ At(l, IF Continues(l) THEN "page" ELSE "end")

(* Variant: the cursor is kept although the poll failed. *)
PollFailsAdvanced(l) ==
    /\ At(l, IF Continues(l) THEN "sleep" ELSE "end")
    /\ current' = page[l]
    /\ UNCHANGED <<running, cursor>>

(* pollOnce throws: sleep and poll again from this.current, end when       *)
(* stopped or when the authentication failed.                              *)
PollFails(l) ==
    /\ At(l, IF Continues(l) /\ ~authFailed THEN "sleep" ELSE "end")
    /\ running' = (running /\ (aborted[l] \/ ~authFailed))
    /\ UNCHANGED <<current, cursor>>

(* A request of a stopped loop rejects; any request may fail, for want of  *)
(* authentication (which also ends the loop) or otherwise.                 *)
RequestFails(l) ==
    \/ aborted[l] /\ PollFails(l) /\ UNCHANGED <<authFailed, left>>
    \/ Fails /\ PollFails(l) /\ UNCHANGED authFailed
    \/ /\ Fails
       /\ authFailed' = TRUE
       /\ At(l, "end")
       /\ running' = (running /\ aborted[l])
       /\ UNCHANGED <<current, cursor>>

(* The notification page: from the tip, or what arrived after the cursor. *)
Page(l) ==
    /\ alive /\ at[l] = "page"
    /\ \/ /\ page' = [page EXCEPT ![l] = arrived]
          /\ hot' = [hot EXCEPT ![l] = cursor[l] # Null /\ arrived > cursor[l]]
          /\ At(l, IF cursor[l] = Null THEN "unread" ELSE "save")
          /\ UNCHANGED <<running, authFailed, current, cursor, left>>
       \/ RequestFails(l) /\ UNCHANGED <<page, hot>>
    /\ UNCHANGED <<mail, turnActive, pending, queued, alive, aborted, wakes,
                   appServer, history>>

(* The first poll of a loop then asks for mail that is already there. *)
Unread(l) ==
    /\ alive /\ at[l] = "unread"
    /\ \/ /\ hot' = [hot EXCEPT ![l] = readTo < arrived]
          /\ At(l, "save")
          /\ UNCHANGED <<running, authFailed, current, cursor, left>>
       \/ RequestFails(l) /\ UNCHANGED hot
    /\ UNCHANGED <<mail, turnActive, pending, queued, alive, aborted, page, wakes,
                   appServer, history>>

(* The cursor is saved, then #wake runs up to its first await: it queues   *)
(* while a turn is active or asked for.                                    *)
Save(l) ==
    /\ alive /\ at[l] = "save"
    /\ ComesBack(l)
    /\ \/ /\ ~hot[l]
          /\ Advance(l)
          /\ UNCHANGED <<running, pending, queued, asked, caller, completed, noticed, left>>
       \/ /\ hot[l] /\ (turnActive \/ pending)
          /\ queued' = TRUE
          /\ noticed' = arrived
          /\ Advance(l)
          /\ UNCHANGED <<running, pending, asked, caller, completed, left>>
       \/ /\ hot[l] /\ ~turnActive /\ ~pending
          /\ pending' = TRUE
          /\ Asks(asked, l)
          /\ At(l, "waking")
          /\ UNCHANGED <<running, current, cursor, queued, noticed, left>>
       \/ /\ Fails
          /\ PollFails(l)
          /\ UNCHANGED <<pending, queued, asked, caller, completed, noticed>>
    /\ UNCHANGED <<mail, turnActive, authFailed, alive, aborted, page, hot, track, appServer>>

Slept(l) ==
    /\ alive /\ at[l] = "sleep"
    /\ At(l, IF Continues(l) THEN "page" ELSE "end")
    /\ cursor' = [cursor EXCEPT ![l] = current]
    /\ UNCHANGED <<mail, watcher, aborted, page, hot, wakes, appServer, history, left>>

------------------------------------------------------------------------------
(* A wake: the answer to startTurn, and #trackCompletion. *)

(* Variant: what was queued is forgotten with the turn. *)
TrackEndsQuietly(w, A) ==
    /\ track' = [track EXCEPT ![w] = "off"]
    /\ pending' = FALSE
    /\ asked' = A
    /\ UNCHANGED <<queued, caller, completed>>

(* Its end: nothing is pending any more, a queued wake is asked for (and   *)
(* queued again while a turn is active).  A is asked[] so far.             *)
TrackEnds(w, A) ==
    /\ track' = [track EXCEPT ![w] = "off"]
    /\ \/ /\ ~queued \/ turnActive
          /\ pending' = FALSE
          /\ asked' = A
          /\ UNCHANGED <<queued, caller, completed>>
       \/ /\ queued /\ ~turnActive
          /\ queued' = FALSE
          /\ pending' = TRUE
          /\ Asks(A, Null)

(* while (this.pending): read the thread. *)
TrackChecks(w, A) ==
    \/ /\ pending
       /\ track' = [track EXCEPT ![w] = "reading"]
       /\ asked' = A
       /\ UNCHANGED <<pending, queued, caller, completed>>
    \/ ~pending /\ TrackEnds(w, A)

Answered(w) == [asked EXCEPT ![w] = "answered"]

Accepted(w) ==
    /\ alive /\ asked[w] = "asking"
    /\ waiting' = waiting \cup ({w} \ (completed \cup {turn}))
    /\ noticed' = arrived
    /\ TrackChecks(w, Answered(w))
    /\ \/ caller[w] # Null /\ Advance(caller[w]) /\ ComesBack(caller[w])
       \/ caller[w] = Null /\ UNCHANGED <<at, cursor, current, stale>>
    /\ UNCHANGED <<mail, running, turnActive, authFailed, alive, aborted, page, hot,
                   turn, subscribed, drained, notes, left>>

(* Variant: pending is not reset. *)
RejectedStaysPending(w) ==
    /\ alive /\ asked[w] = "asking"
    /\ Fails
    /\ asked' = Answered(w)
    /\ caller[w] # Null /\ PollFails(caller[w]) /\ ComesBack(caller[w])
    /\ UNCHANGED <<mail, turnActive, pending, queued, authFailed, alive, aborted, page, hot,
                   caller, track, completed, appServer, noticed>>

(* startTurn fails, or times out although the turn was taken.  Nobody      *)
(* awaits a wake that a completion started: its rejection is unhandled,    *)
(* and ends the process.                                                   *)
Rejected(w) ==
    /\ alive /\ asked[w] = "asking"
    /\ Fails
    /\ waiting' \in {waiting, waiting \cup ({w} \ (completed \cup {turn}))}
    /\ pending' = FALSE
    /\ asked' = Answered(w)
    /\ \/ /\ caller[w] # Null
          /\ PollFails(caller[w])
          /\ ComesBack(caller[w])
          /\ UNCHANGED alive
       \/ /\ caller[w] = Null
          /\ alive' = FALSE
          /\ UNCHANGED <<at, running, cursor, current, stale>>
    /\ UNCHANGED <<mail, turnActive, queued, authFailed, aborted, page, hot, caller, track,
                   turn, subscribed, completed, drained, notes, noticed>>

(* readThread: the turn goes on, or has ended, or the request failed. *)
TrackReads(w) ==
    /\ alive /\ track[w] = "reading"
    /\ \/ /\ w \notin completed
          /\ track' = [track EXCEPT ![w] = "sleep"]
          /\ UNCHANGED <<pending, queued, asked, caller, completed, left>>
       \/ w \in completed /\ TrackEnds(w, asked) /\ UNCHANGED left
       \/ Fails /\ TrackEnds(w, asked)
    /\ UNCHANGED <<mail, running, current, turnActive, authFailed, alive, loops,
                   appServer, history>>

TrackSlept(w) ==
    /\ alive /\ track[w] = "sleep"
    /\ TrackChecks(w, asked)
    /\ UNCHANGED <<mail, running, current, turnActive, authFailed, alive, loops,
                   appServer, history, left>>

(* The notification handler.  #wake finds pending set and queues. *)
Deliver ==
    /\ alive /\ notes # <<>>
    /\ notes' = Tail(notes)
    /\ \/ /\ Head(notes) = "started"
          /\ turnActive' = TRUE
          /\ pending' = FALSE
          /\ UNCHANGED <<queued, noticed>>
       \/ /\ Head(notes) = "completed"
          /\ turnActive' = FALSE
          /\ queued' = (queued \/ pending)
          /\ noticed' = IF pending THEN arrived ELSE noticed
          /\ UNCHANGED pending
    /\ UNCHANGED <<mail, running, current, authFailed, alive, loops, wakes,
                   turn, subscribed, waiting, drained, stale, left>>

------------------------------------------------------------------------------
(* Mail and the App Server, as long as the launcher lives. *)

Arrive ==
    /\ alive /\ Uses("arrivals")
    /\ arrived' = arrived + 1
    /\ UNCHANGED <<readTo, watcher, loops, wakes, appServer, history>>

Notify(note) == notes' = IF subscribed THEN Append(notes, note) ELSE notes

(* A turn runs: the user's, or one that was asked for.  (A request that    *)
(* the client has given up, or not yet heard of, may already run.)         *)
TurnStarts(x) ==
    /\ alive /\ turn = Null
    /\ turn' = x
    /\ Notify("started")
    /\ \/ /\ x = User
          /\ Uses("turns")
          /\ UNCHANGED waiting
       \/ /\ x \in waiting \/ (x \in Wake /\ asked[x] = "asking" /\ x \notin completed)
          /\ waiting' = waiting \ {x}
          /\ UNCHANGED left
    /\ UNCHANGED <<mail, watcher, loops, wakes, subscribed, drained, history>>

(* get_messages *)
Drain ==
    /\ alive /\ turn # Null /\ ~drained
    /\ drained' = TRUE
    /\ readTo' = arrived
    /\ UNCHANGED <<arrived, watcher, loops, wakes, turn, subscribed, waiting, notes,
                   history, left>>

(* A wake turn reads the mail, a turn of the user need not. *)
TurnEnds ==
    /\ alive /\ turn # Null
    /\ turn = User \/ drained
    /\ completed' = IF turn = User THEN completed ELSE completed \cup {turn}
    /\ turn' = Null
    /\ drained' = FALSE
    /\ Notify("completed")
    /\ UNCHANGED <<mail, watcher, loops, caller, asked, track, subscribed, waiting, history,
                   left>>

LoopStep(l) == Page(l) \/ Unread(l) \/ Save(l) \/ Slept(l)

WakeStep(w) == Accepted(w) \/ Rejected(w) \/ TrackReads(w) \/ TrackSlept(w)

Next ==
    \/ \E l \in Loop : Start(l) \/ LoopStep(l)
    \/ Stop
    \/ \E w \in Wake : WakeStep(w)
    \/ Deliver
    \/ Arrive
    \/ \E x \in Wake \cup {User} : TurnStarts(x)
    \/ Drain
    \/ TurnEnds

Spec == Init /\ [][Next]_vars

(* The event loop runs what is ready and requests are answered or fail,    *)
(* the turns of this connection are run, read their mail and end.          *)
Fairness ==
    /\ \A l \in Loop : WF_vars(LoopStep(l))
    /\ WF_vars(\E w \in Wake : WakeStep(w))
    /\ WF_vars(Deliver)
    /\ WF_vars(Drain \/ TurnEnds \/ \E w \in waiting : TurnStarts(w))

FairSpec == Spec /\ Fairness

------------------------------------------------------------------------------
(* The first poll takes the tip before it asks for unread mail, and a      *)
(* cursor only advances past mail a wake was asked or queued for: the      *)
(* watcher passes over no arrival, whatever fails.  (A stopped loop that   *)
(* comes back may hand its cursor to the next one: then nothing is said.)  *)
NoArrivalSlips == running /\ alive /\ ~stale /\ current # Null =>
    current <= noticed \/ current <= readTo

Quiet == /\ turn = Null /\ waiting = {} /\ notes = <<>>
         /\ \A w \in Wake : asked[w] # "asking" /\ track[w] = "off"

(* A wake that was queued while a turn was active or asked for has a turn, *)
(* a request or a completion ahead that will ask for it.                   *)
QueuedAhead == running /\ alive /\ queued => ~Quiet

(* It has, where completions are polled and no stopped loop comes back     *)
(* (its failing startTurn resets the pending wake the queue waits for).    *)
NoStrandedWake == subscribed \/ stale \/ QueuedAhead

(* The invariant of the whole state: its type, and no stranded wake. *)
WatcherInv == TypeOK /\ NoStrandedWake

(* Mail that arrives while the watcher runs gets read without the user,    *)
(* unless the monitor is stopped or dies, or a stopped loop comes back.    *)
MailIsRead ==
    (running /\ ~subscribed /\ readTo < arrived)
        ~> (readTo = arrived \/ ~running \/ ~alive \/ stale)
==============================================================================
