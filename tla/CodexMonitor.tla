------------------------------ MODULE CodexMonitor ------------------------------
(***************************************************************************)
(* packages/codex/src/control-server.mjs, monitor-state.mjs and the effect *)
(* handler of launcher.mjs: commands change the monitor state at once, the *)
(* state is saved, and only then the effects reach the watcher.            *)
(*                                                                         *)
(* Commands come from several processes (the hooks, the monitor MCP        *)
(* server) and from App Server notifications, and overlap.  Each save      *)
(* writes a temporary file, whose name depends on the process only, and    *)
(* renames it.                                                             *)
(***************************************************************************)
EXTENDS Sequences, Naturals

CONSTANTS
    Identity,     \* ours identities
    Thread,       \* Codex threads
    Command,      \* commands in flight
    None,         \* no identity, no thread, no file
    MayFail       \* TRUE: writes fail, and the watcher may lose its authentication

Kinds == {"register", "binding", "arm", "disarm", "status"}

(* What a sender may write; a registration names no identity. *)
Commands == [slot : Command, kind : Kinds \ {"register"}, identity : Identity, thread : Thread]
            \cup [slot : Command, kind : {"register"}, identity : {None}, thread : Thread]

ASSUME NoneAssumption == None \notin Identity \cup Thread
ASSUME MayFailAssumption == MayFail \in BOOLEAN

VARIABLES
    state,        \* ControlServer.state: [bound, armed, thread]
    tmp,          \* the temporary file: a state, or None
    disk,         \* state.json
    watching,     \* the identity the watcher runs for
    pc,           \* pc[k]: how far command k is
    effects,      \* effects[k]: what is still to be done for k
    saving,       \* saving[k]: the state k saves
    reply,        \* reply[k]
    consented,    \* history: the identities some arm command named
    clean         \* history: no two commands overlapped, nothing failed

vars == <<state, tmp, disk, watching, pc, effects, saving, reply, consented, clean>>

States == [bound : Identity \cup {None}, armed : Identity \cup {None},
           thread : Thread \cup {None}]

Effects == [type : {"subscribe", "unsubscribe"}, identity : Identity]

TypeOK ==
    /\ state \in States
    /\ tmp \in States \cup {None}
    /\ disk \in States \cup {None}
    /\ watching \in Identity \cup {None}
    /\ pc \in [Command -> {"new", "write", "rename", "effects", "done"}]
    /\ effects \in [Command -> Seq(Effects)]
    /\ saving \in [Command -> States]
    /\ reply \in [Command -> {"none", "ok", "error"}]
    /\ consented \in SUBSET Identity
    /\ clean \in BOOLEAN

(* createMonitorState *)
Initial == [bound |-> None, armed |-> None, thread |-> None]

Init ==
    /\ state = Initial
    /\ tmp = None
    /\ disk = None
    /\ watching = None
    /\ pc = [k \in Command |-> "new"]
    /\ effects = [k \in Command |-> <<>>]
    /\ saving = [k \in Command |-> Initial]
    /\ reply = [k \in Command |-> "none"]
    /\ consented = {}
    /\ clean = TRUE

InFlight(k) == pc[k] \in {"write", "rename", "effects"}

Idle == \A k \in Command : ~InFlight(k)

------------------------------------------------------------------------------
(* monitor-state.mjs: a transition yields a state and effects. *)

Subscribe(i) == <<[type |-> "subscribe", identity |-> i]>>

(* Variant: what was never armed is unsubscribed as well. *)
UnsubscribeAlways(i) == <<[type |-> "unsubscribe", identity |-> i]>>

Unsubscribe(i) == IF i = None THEN <<>> ELSE <<[type |-> "unsubscribe", identity |-> i]>>

RegisterSession(s, t) == [state |-> [s EXCEPT !.thread = t], effects |-> <<>>]

(* Variant: the monitor follows the binding. *)
BindingChangedFollows(s, i) ==
    [state |-> [s EXCEPT !.bound = i, !.armed = IF @ = None THEN None ELSE i],
     effects |-> IF s.armed \in {None, i} THEN <<>>
                 ELSE Unsubscribe(s.armed) \o Subscribe(i)]

BindingChanged(s, i) ==
    [state |-> [s EXCEPT !.bound = i, !.armed = IF @ = i THEN i ELSE None],
     effects |-> IF s.armed = i THEN <<>> ELSE Unsubscribe(s.armed)]

(* arm throws when another identity is bound. *)
MayArm(s, i) == s.bound \in {None, i}

Arm(s, i) ==
    [state |-> [s EXCEPT !.bound = i, !.armed = i],
     effects |-> IF s.armed = i THEN <<>> ELSE Subscribe(i)]

(* Variant: the watcher is not told. *)
DisarmQuietly(s) == [state |-> [s EXCEPT !.armed = None], effects |-> <<>>]

Disarm(s) == [state |-> [s EXCEPT !.armed = None], effects |-> Unsubscribe(s.armed)]

Transition(s, m) == CASE m.kind = "register" -> RegisterSession(s, m.thread)
                      [] m.kind = "binding" -> BindingChanged(s, m.identity)
                      [] m.kind = "arm" -> Arm(s, m.identity)
                      [] m.kind = "disarm" -> Disarm(s)
                      [] m.kind = "status" -> [state |-> s, effects |-> <<>>]

------------------------------------------------------------------------------
(* apply, cut at its awaits. *)

Goto(k, label) == pc' = [pc EXCEPT ![k] = label]

(* What the command worked with goes with it. *)
Reply(k, r) ==
    /\ Goto(k, "done")
    /\ reply' = [reply EXCEPT ![k] = r]
    /\ effects' = [effects EXCEPT ![k] = <<>>]
    /\ saving' = [saving EXCEPT ![k] = Initial]

(* The transition and the assignment of this.state are one step. *)
Accept(m) ==
    LET next == Transition(state, m) IN
    /\ m.kind = "arm" => MayArm(state, m.identity)
    /\ state' = next.state
    /\ effects' = [effects EXCEPT ![m.slot] = next.effects]
    /\ saving' = [saving EXCEPT ![m.slot] = next.state]
    /\ consented' = IF m.kind = "arm" THEN consented \cup {m.identity} ELSE consented
    /\ Goto(m.slot, "write")
    /\ UNCHANGED reply

Reject(m) ==
    /\ m.kind = "arm" /\ ~MayArm(state, m.identity)
    /\ Reply(m.slot, "error")
    /\ UNCHANGED <<state, consented>>

Apply(m) ==
    /\ pc[m.slot] = "new"
    /\ Accept(m) \/ Reject(m)
    /\ clean' = (clean /\ Idle)
    /\ UNCHANGED <<tmp, disk, watching>>

Fails(k) ==
    /\ Reply(k, "error")
    /\ clean' = FALSE

(* AtomicStateStore.save: the temporary file is written ... *)
WriteTmp(k) ==
    /\ pc[k] = "write"
    /\ \/ tmp' = saving[k] /\ Goto(k, "rename") /\ UNCHANGED <<effects, saving, reply, clean>>
       \/ MayFail /\ Fails(k) /\ UNCHANGED tmp
    /\ UNCHANGED <<state, disk, watching, consented>>

(* ... and renamed, unless another command's rename took it (ENOENT). *)
Rename(k) ==
    /\ pc[k] = "rename"
    /\ \/ /\ tmp # None
          /\ disk' = tmp
          /\ tmp' = None
          /\ Goto(k, "effects")
          /\ UNCHANGED <<effects, saving, reply, clean>>
       \/ tmp = None /\ Fails(k) /\ UNCHANGED <<disk, tmp>>
    /\ UNCHANGED <<state, watching, consented>>

(* onEffects: one effect after the other, without a pause, so that the     *)
(* last one decides whom the watcher runs for; a subscription needs the    *)
(* thread of the latest state, and throws without it.                      *)
AfterEffect(e) == IF e.type = "subscribe" THEN e.identity ELSE None

AfterEffects(k) ==
    IF effects[k] = <<>> THEN watching ELSE AfterEffect(effects[k][Len(effects[k])])

NeedsThread(k) == \E i \in DOMAIN effects[k] : effects[k][i].type = "subscribe"

RunEffects(k) ==
    /\ pc[k] = "effects"
    /\ \/ /\ NeedsThread(k) => state.thread # None
          /\ watching' = AfterEffects(k)
          /\ Reply(k, "ok")
          /\ UNCHANGED clean
       \/ /\ NeedsThread(k) /\ state.thread = None
          /\ Fails(k)
          /\ UNCHANGED watching
    /\ UNCHANGED <<state, tmp, disk, consented>>

(* The daemon refuses the token: the watcher's loop ends, nothing tells    *)
(* the control server.                                                     *)
LoseAuthentication ==
    /\ MayFail
    /\ watching # None
    /\ watching' = None
    /\ clean' = FALSE
    /\ UNCHANGED <<state, tmp, disk, pc, effects, saving, reply, consented>>

Next ==
    \/ \E m \in Commands : Apply(m)
    \/ \E k \in Command : WriteTmp(k) \/ Rename(k) \/ RunEffects(k)
    \/ LoseAuthentication

Spec == Init /\ [][Next]_vars

------------------------------------------------------------------------------
(* "Live monitoring is never automatic": the watcher only runs for an      *)
(* identity that an arm command named, in whatever order effects arrive.   *)
WatchNeedsConsent == watching \in consented \cup {None}

(* Commands that do not overlap, with nothing failing, leave the watcher   *)
(* on exactly the armed identity, and the file with the state.             *)
WatcherFollowsState == clean /\ Idle =>
    /\ watching = state.armed
    /\ (\E k \in Command : reply[k] = "ok") => disk = state
==============================================================================
