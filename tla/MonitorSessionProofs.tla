------------------------- MODULE MonitorSessionProofs -------------------------
(***************************************************************************)
(* Theorems about MonitorSession (and CodexMonitor, which it extends) for  *)
(* any number of identities, threads, commands and foreground calls.       *)
(*                                                                         *)
(* Consent and Orderly are about the control server alone, Follows is      *)
(* about what the commands still on the wire will make of its state.       *)
(***************************************************************************)
EXTENDS MonitorSession, SequenceTheorems, TLAPS

(* Whatever an effect subscribes was armed by name. *)
Consent ==
    /\ watching \in consented \cup {None} /\ state.armed \in consented \cup {None}
    /\ \A k \in Command : \A n \in 1 .. Len(effects[k]) :
          effects[k][n].type = "subscribe" => effects[k][n].identity \in consented

(* As long as commands do not overlap and nothing fails: what the command  *)
(* in flight has saved, and what its effects will make of the watcher.     *)
InOrder(k) ==
    /\ \A j \in Command : InFlight(j) => j = k
    /\ AfterEffects(k) = state.armed
    /\ pc[k] = "write" => saving[k] = state
    /\ pc[k] = "rename" => tmp = state
    /\ pc[k] = "effects" => disk = state

Orderly == clean =>
    /\ \A k \in Command : InFlight(k) => InOrder(k)
    /\ Idle => watching = state.armed
    /\ Idle /\ (\E k \in Command : reply[k] = "ok") => disk = state

(* From the n-th command on, all commands are about the session's own      *)
(* identity.                                                               *)
FollowsFrom(n) ==
    /\ n = 0 => state.bound \in {bound, None}
    /\ n > 0 => wire[n].kind = "binding" /\ wire[n].identity = bound
    /\ \A j \in n + 1 .. Len(wire) :
          wire[j].kind \in {"binding", "arm"} => wire[j].identity = bound

Follows ==
    /\ state.armed \in {state.bound, None}
    /\ turn \notin {"hook", "tool"} => asked = None
    /\ reported => \E n \in 0 .. Len(wire) : FollowsFrom(n)

IInv == SessionTypeOK /\ Consent /\ Orderly /\ Follows

------------------------------------------------------------------------------
(* Commands and transitions. *)

LEMMA CommandTypes ==
    ASSUME NEW m \in Commands
    PROVE  /\ m.slot \in Command /\ m.kind \in Kinds /\ m.thread \in Thread
           /\ m.kind # "register" => m.identity \in Identity
    BY DEF Commands, Kinds

(* What a list of at most two effects is. *)
LEMMA OneEffect ==
    ASSUME NEW i \in Identity, NEW t \in {"subscribe", "unsubscribe"}
    PROVE  LET e == <<[type |-> t, identity |-> i]>> IN
           e \in Seq(Effects) /\ Len(e) = 1 /\ e # <<>> /\ e[1] = [type |-> t, identity |-> i]
    BY DEF Effects

(* What a transition says of the effects it asks for: nobody is subscribed *)
(* but by an arm command, and the last effect agrees with the new state.   *)
Agrees(s, m, next) ==
    /\ next.state \in States
    /\ next.effects \in Seq(Effects)
    /\ next.state.armed \in {next.state.bound, None}
    /\ next.state.armed \in {s.armed, None} \/ (m.kind = "arm" /\ next.state.armed = m.identity)
    /\ \A n \in 1 .. Len(next.effects) : next.effects[n].type = "subscribe" =>
          m.kind = "arm" /\ next.effects[n].identity = m.identity
    /\ next.effects = <<>> => next.state.armed = s.armed
    /\ next.effects # <<>> => AfterEffect(next.effects[Len(next.effects)]) = next.state.armed
    /\ next.state.bound = IF m.kind \in {"binding", "arm"} THEN m.identity ELSE s.bound

LEMMA TransitionAgrees ==
    ASSUME NEW s \in States, NEW m \in Commands,
           s.armed \in {s.bound, None},
           m.kind = "arm" => MayArm(s, m.identity)
    PROVE  Agrees(s, m, Transition(s, m))
    <1> DEFINE next == Transition(s, m)
    <1> HIDE DEF next
    <1>m. m.kind \in Kinds /\ m.thread \in Thread /\ (m.kind # "register" => m.identity \in Identity)
        BY CommandTypes
    <1>s. /\ s.bound \in Identity \cup {None} /\ s.armed \in Identity \cup {None}
          /\ s.thread \in Thread \cup {None}
        BY DEF States
    <1>n. None \notin Identity  BY NoneAssumption
    <1>e. <<>> \in Seq(Effects) /\ Len(<<>>) = 0  OBVIOUS
    <1>u. Unsubscribe(s.armed) = IF s.armed = None THEN <<>>
                                 ELSE <<[type |-> "unsubscribe", identity |-> s.armed]>>
        BY DEF Unsubscribe
    <1>v. s.armed # None =>
            LET e == <<[type |-> "unsubscribe", identity |-> s.armed]>> IN
            e \in Seq(Effects) /\ Len(e) = 1 /\ e # <<>> /\ e[1].type = "unsubscribe"
        BY <1>s, OneEffect
    <1>1. CASE m.kind = "register"
        <2>1. next = [state |-> [s EXCEPT !.thread = m.thread], effects |-> <<>>]
            BY <1>1 DEF next, Transition, RegisterSession
        <2>2. /\ next.state \in States /\ next.state.armed = s.armed /\ next.state.bound = s.bound
              /\ next.effects = <<>>
            BY <2>1, <1>m DEF States
        <2> QED  BY <2>2, <1>1, <1>e DEF Agrees, next
    <1>2. CASE m.kind = "binding"
        <2>1. next = BindingChanged(s, m.identity)  BY <1>2 DEF next, Transition
        <2>2. /\ next.state \in States /\ next.state.bound = m.identity
              /\ next.state.armed = IF s.armed = m.identity THEN m.identity ELSE None
              /\ next.effects = IF s.armed = m.identity THEN <<>> ELSE Unsubscribe(s.armed)
            BY <2>1, <1>2, <1>m DEF BindingChanged, States
        <2>3. CASE s.armed = m.identity
            BY <2>2, <2>3, <1>2, <1>e DEF Agrees, next
        <2>4. CASE s.armed # m.identity /\ s.armed = None
            BY <2>2, <2>4, <1>u, <1>2, <1>e DEF Agrees, next
        <2>5. CASE s.armed # m.identity /\ s.armed # None
            <3>1. next.effects = <<[type |-> "unsubscribe", identity |-> s.armed]>>
                BY <2>2, <2>5, <1>u
            <3>2. /\ next.effects \in Seq(Effects) /\ Len(next.effects) = 1
                  /\ next.effects # <<>> /\ next.effects[1].type = "unsubscribe"
                BY <3>1, <1>v, <2>5
            <3> QED  BY <2>2, <2>5, <3>2, <1>2 DEF Agrees, AfterEffect, next
        <2> QED  BY <2>3, <2>4, <2>5
    <1>3. CASE m.kind = "arm"
        <2>1. next = Arm(s, m.identity)  BY <1>3 DEF next, Transition
        <2>2. /\ next.state \in States /\ next.state.bound = m.identity
              /\ next.state.armed = m.identity
              /\ next.effects = IF s.armed = m.identity THEN <<>>
                                ELSE <<[type |-> "subscribe", identity |-> m.identity]>>
            BY <2>1, <1>3, <1>m DEF Arm, Subscribe, States
        <2>3. CASE s.armed = m.identity
            BY <2>2, <2>3, <1>3, <1>e DEF Agrees, next
        <2>4. CASE s.armed # m.identity
            <3>1. next.effects = <<[type |-> "subscribe", identity |-> m.identity]>>
                BY <2>2, <2>4
            <3>2. /\ next.effects \in Seq(Effects) /\ Len(next.effects) = 1 /\ next.effects # <<>>
                  /\ next.effects[1].type = "subscribe" /\ next.effects[1].identity = m.identity
                <4>1. m.identity \in Identity  BY <1>m, <1>3
                <4> DEFINE e == [type |-> "subscribe", identity |-> m.identity]
                <4>2. e \in Effects /\ e.type = "subscribe" /\ e.identity = m.identity
                    BY <4>1 DEF Effects
                <4> HIDE DEF e
                <4>3. <<e>> \in Seq(Effects) /\ Len(<<e>>) = 1 /\ <<e>> # <<>> /\ <<e>>[1] = e
                    BY <4>2
                <4> QED  BY <3>1, <4>2, <4>3 DEF e
            <3> QED  BY <2>2, <2>4, <3>2, <1>3 DEF Agrees, AfterEffect, next
        <2> QED  BY <2>3, <2>4
    <1>4. CASE m.kind = "disarm"
        <2>1. next = Disarm(s)  BY <1>4 DEF next, Transition
        <2>2. /\ next.state \in States /\ next.state.bound = s.bound /\ next.state.armed = None
              /\ next.effects = Unsubscribe(s.armed)
            BY <2>1 DEF Disarm, States
        <2>3. CASE s.armed = None
            BY <2>2, <2>3, <1>u, <1>4, <1>e DEF Agrees, next
        <2>4. CASE s.armed # None
            <3>1. next.effects = <<[type |-> "unsubscribe", identity |-> s.armed]>>
                BY <2>2, <2>4, <1>u
            <3>2. /\ next.effects \in Seq(Effects) /\ Len(next.effects) = 1
                  /\ next.effects # <<>> /\ next.effects[1].type = "unsubscribe"
                BY <3>1, <1>v, <2>4
            <3> QED  BY <2>2, <2>4, <3>2, <1>4 DEF Agrees, AfterEffect, next
        <2> QED  BY <2>3, <2>4
    <1>5. CASE m.kind = "status"
        <2>1. next.state = s /\ next.effects = <<>>  BY <1>5 DEF next, Transition
        <2> QED  BY <2>1, <1>5, <1>e DEF Agrees, next
    <1> QED  BY <1>m, <1>1, <1>2, <1>3, <1>4, <1>5 DEF Kinds

------------------------------------------------------------------------------
(* The control server alone. *)

MonitorInv == TypeOK /\ Consent /\ Orderly /\ state.armed \in {state.bound, None}

(* Accept and Reject are about the slot of their command only. *)
LEMMA ApplyInv ==
    ASSUME MonitorInv, NEW m \in Commands, Apply(m)
    PROVE  MonitorInv'
    <1> DEFINE k == m.slot
               next == Transition(state, m)
    <1>k. k \in Command /\ m.kind \in Kinds /\ (m.kind # "register" => m.identity \in Identity)
        BY CommandTypes
    <1>t. TypeOK /\ Consent /\ Orderly /\ state.armed \in {state.bound, None}  BY DEF MonitorInv
    <1>u. pc[k] = "new" /\ clean' = (clean /\ Idle) /\ tmp' = tmp /\ disk' = disk /\ watching' = watching
        BY DEF Apply
    <1>1. CASE Accept(m)
        <2>1. Agrees(state, m, next)  BY <1>1, <1>t, TransitionAgrees DEF Accept, TypeOK
        <2> HIDE DEF next
        <2>2. /\ state' = next.state /\ reply' = reply
              /\ effects' = [effects EXCEPT ![k] = next.effects]
              /\ saving' = [saving EXCEPT ![k] = next.state]
              /\ consented' = IF m.kind = "arm" THEN consented \cup {m.identity} ELSE consented
              /\ pc' = [pc EXCEPT ![k] = "write"]
            BY <1>1 DEF Accept, Goto, next
        <2>3. /\ effects'[k] = next.effects /\ saving'[k] = next.state /\ pc'[k] = "write"
              /\ \A j \in Command : j # k => effects'[j] = effects[j] /\ saving'[j] = saving[j] /\ pc'[j] = pc[j]
            BY <2>2, <1>k, <1>t DEF TypeOK
        <2>4. TypeOK'
            BY <2>2, <2>1, <1>t, <1>u, <1>k DEF TypeOK, Agrees, Idle
        <2>5. consented \subseteq consented' /\ (m.kind = "arm" => m.identity \in consented')
            BY <2>2
        <2>6. Consent'
            <3>1. watching' \in consented' \cup {None}  BY <2>5, <1>u, <1>t DEF Consent
            <3>2. state'.armed \in consented' \cup {None}
                BY <2>5, <2>1, <2>2, <1>t DEF Consent, Agrees
            <3>3. ASSUME NEW j \in Command, NEW n \in 1 .. Len(effects'[j]), effects'[j][n].type = "subscribe"
                  PROVE  effects'[j][n].identity \in consented'
                <4>1. CASE j = k  BY <3>3, <4>1, <2>3, <2>1, <2>5 DEF Agrees
                <4>2. CASE j # k  BY <3>3, <4>2, <2>3, <2>5, <1>t DEF Consent
                <4> QED  BY <4>1, <4>2
            <3> QED  BY <3>1, <3>2, <3>3 DEF Consent
        <2>7. Orderly'
            <3> SUFFICES ASSUME clean' PROVE Orderly'  BY DEF Orderly
            <3>1. clean /\ Idle /\ watching = state.armed  BY <1>u, <1>t DEF Orderly, TypeOK
            <3>2. InFlight(k)'  BY <2>3 DEF InFlight
            <3>3. \A j \in Command : InFlight(j)' => j = k  BY <2>3, <3>1 DEF Idle, InFlight
            <3>4. AfterEffects(k)' = state'.armed
                BY <2>1, <2>2, <2>3, <3>1, <1>u DEF AfterEffects, Agrees, AfterEffect
            <3>5. InOrder(k)'
                BY <3>3, <3>4, <2>2, <2>3 DEF InOrder
            <3>6. ~Idle'  BY <3>2, <1>k DEF Idle
            <3> QED  BY <3>3, <3>5, <3>6 DEF Orderly
        <2>8. state'.armed \in {state'.bound, None}  BY <2>1, <2>2 DEF Agrees
        <2> QED  BY <2>4, <2>6, <2>7, <2>8 DEF MonitorInv
    <1>2. CASE Reject(m)
        <2>1. /\ state' = state /\ consented' = consented
              /\ pc' = [pc EXCEPT ![k] = "done"] /\ reply' = [reply EXCEPT ![k] = "error"]
              /\ effects' = [effects EXCEPT ![k] = <<>>] /\ saving' = [saving EXCEPT ![k] = Initial]
            BY <1>2 DEF Reject, Reply, Goto
        <2>2. /\ effects'[k] = <<>> /\ pc'[k] = "done" /\ reply'[k] = "error"
              /\ \A j \in Command : j # k => /\ effects'[j] = effects[j] /\ saving'[j] = saving[j]
                                             /\ pc'[j] = pc[j] /\ reply'[j] = reply[j]
            BY <2>1, <1>k, <1>t DEF TypeOK
        <2>3. TypeOK'
            BY <2>1, <1>t, <1>u, <1>k DEF TypeOK, Idle, Initial, States
        <2>4. Consent'
            BY <2>1, <2>2, <1>t, <1>u DEF Consent
        <2>5. Orderly'
            <3> SUFFICES ASSUME clean' PROVE Orderly'  BY DEF Orderly
            <3>1. clean /\ Idle  BY <1>u
            <3>2. \A j \in Command : ~InFlight(j)'  BY <3>1, <2>2 DEF Idle, InFlight
            <3>3. (\E j \in Command : reply'[j] = "ok") => \E j \in Command : reply[j] = "ok"
                BY <2>2
            <3> QED  BY <3>1, <3>2, <3>3, <2>1, <1>t, <1>u DEF Orderly
        <2> QED  BY <2>1, <2>3, <2>4, <2>5, <1>t DEF MonitorInv
    <1> QED  BY <1>1, <1>2 DEF Apply

(* A command that is answered leaves nothing behind, the others alone. *)
LEMMA ReplyFacts ==
    ASSUME TypeOK, NEW k \in Command, NEW r \in {"ok", "error"}, Reply(k, r)
    PROVE  /\ effects'[k] = <<>> /\ pc'[k] = "done" /\ reply'[k] = r
           /\ \A j \in Command : j # k => /\ effects'[j] = effects[j] /\ saving'[j] = saving[j]
                                          /\ pc'[j] = pc[j] /\ reply'[j] = reply[j]
           /\ pc' \in [Command -> {"new", "write", "rename", "effects", "done"}]
           /\ effects' \in [Command -> Seq(Effects)]
           /\ saving' \in [Command -> States]
           /\ reply' \in [Command -> {"none", "ok", "error"}]
    <1>1. /\ pc' = [pc EXCEPT ![k] = "done"] /\ reply' = [reply EXCEPT ![k] = r]
          /\ effects' = [effects EXCEPT ![k] = <<>>] /\ saving' = [saving EXCEPT ![k] = Initial]
        BY DEF Reply, Goto
    <1>2. Initial \in States  BY DEF Initial, States
    <1> QED  BY <1>1, <1>2 DEF TypeOK

(* A command that fails: what it left is no longer orderly. *)
LEMMA FailsInv ==
    ASSUME MonitorInv, NEW k \in Command, Fails(k),
           UNCHANGED <<state, tmp, disk, watching, consented>>
    PROVE  MonitorInv'
    <1>1. Reply(k, "error") /\ clean' = FALSE  BY DEF Fails
    <1>t. TypeOK /\ Consent  BY DEF MonitorInv
    <1>2. /\ effects'[k] = <<>> /\ \A j \in Command : j # k => effects'[j] = effects[j]
          /\ pc' \in [Command -> {"new", "write", "rename", "effects", "done"}]
          /\ effects' \in [Command -> Seq(Effects)]
          /\ saving' \in [Command -> States]
          /\ reply' \in [Command -> {"none", "ok", "error"}]
        BY <1>1, <1>t, ReplyFacts
    <1>3. TypeOK'  BY <1>1, <1>2, <1>t DEF TypeOK
    <1>4. Consent'
        <2>1. watching' \in consented' \cup {None} /\ state'.armed \in consented' \cup {None}
            BY <1>2, <1>t DEF Consent
        <2>2. ASSUME NEW j \in Command, NEW n \in 1 .. Len(effects'[j]), effects'[j][n].type = "subscribe"
              PROVE  effects'[j][n].identity \in consented'
            <3>1. j # k  BY <2>2, <1>2
            <3> QED  BY <3>1, <2>2, <1>2, <1>t DEF Consent
        <2> QED  BY <2>1, <2>2 DEF Consent
    <1>5. Orderly'  BY <1>1 DEF Orderly
    <1> QED  BY <1>3, <1>4, <1>5 DEF MonitorInv

LEMMA WriteInv ==
    ASSUME MonitorInv, NEW k \in Command, WriteTmp(k)
    PROVE  MonitorInv'
    <1>t. TypeOK /\ Consent /\ Orderly  BY DEF MonitorInv
    <1>u. pc[k] = "write" /\ UNCHANGED <<state, disk, watching, consented>>  BY DEF WriteTmp
    <1>1. CASE tmp' = saving[k] /\ Goto(k, "rename") /\ UNCHANGED <<effects, saving, reply, clean>>
        <2>1. /\ tmp' = saving[k] /\ pc' = [pc EXCEPT ![k] = "rename"]
              /\ effects' = effects /\ saving' = saving /\ reply' = reply /\ clean' = clean
              /\ state' = state /\ disk' = disk /\ watching' = watching /\ consented' = consented
            BY <1>1, <1>u DEF Goto
        <2>2. pc'[k] = "rename" /\ \A j \in Command : j # k => pc'[j] = pc[j]
            BY <2>1, <1>t DEF TypeOK
        <2>3. TypeOK'  BY <2>1, <1>t DEF TypeOK
        <2>4. Consent'  BY <2>1, <1>t DEF Consent
        <2>5. Orderly'
            <3> SUFFICES ASSUME clean' PROVE Orderly'  BY DEF Orderly
            <3>1. InFlight(k) /\ InOrder(k)  BY <1>u, <1>t, <2>1 DEF Orderly, InFlight
            <3>2. \A j \in Command : InFlight(j)' => j = k  BY <2>2, <3>1 DEF InOrder, InFlight
            <3>3. AfterEffects(k)' = state'.armed  BY <2>1, <3>1 DEF InOrder, AfterEffects
            <3>4. InOrder(k)'  BY <2>1, <2>2, <3>1, <3>2, <3>3, <1>u DEF InOrder
            <3>5. ~Idle'  BY <2>2 DEF Idle, InFlight
            <3> QED  BY <3>2, <3>4, <3>5 DEF Orderly
        <2> QED  BY <2>1, <2>3, <2>4, <2>5 DEF MonitorInv
    <1>2. CASE Fails(k) /\ UNCHANGED tmp
        BY <1>2, <1>u, FailsInv
    <1> QED  BY <1>1, <1>2 DEF WriteTmp

LEMMA RenameInv ==
    ASSUME MonitorInv, NEW k \in Command, Rename(k)
    PROVE  MonitorInv'
    <1>t. TypeOK /\ Consent /\ Orderly  BY DEF MonitorInv
    <1>u. pc[k] = "rename" /\ UNCHANGED <<state, watching, consented>>  BY DEF Rename
    <1>1. CASE /\ tmp # None /\ disk' = tmp /\ tmp' = None /\ Goto(k, "effects")
               /\ UNCHANGED <<effects, saving, reply, clean>>
        <2>1. /\ tmp' = None /\ disk' = tmp /\ pc' = [pc EXCEPT ![k] = "effects"]
              /\ effects' = effects /\ saving' = saving /\ reply' = reply /\ clean' = clean
              /\ state' = state /\ watching' = watching /\ consented' = consented
            BY <1>1, <1>u DEF Goto
        <2>2. pc'[k] = "effects" /\ \A j \in Command : j # k => pc'[j] = pc[j]
            BY <2>1, <1>t DEF TypeOK
        <2>3. TypeOK'  BY <2>1, <1>t DEF TypeOK
        <2>4. Consent'  BY <2>1, <1>t DEF Consent
        <2>5. Orderly'
            <3> SUFFICES ASSUME clean' PROVE Orderly'  BY DEF Orderly
            <3>1. InFlight(k) /\ InOrder(k)  BY <1>u, <1>t, <2>1 DEF Orderly, InFlight
            <3>2. \A j \in Command : InFlight(j)' => j = k  BY <2>2, <3>1 DEF InOrder, InFlight
            <3>3. AfterEffects(k)' = state'.armed  BY <2>1, <3>1 DEF InOrder, AfterEffects
            <3>4. InOrder(k)'  BY <2>1, <2>2, <3>1, <3>2, <3>3, <1>u DEF InOrder
            <3>5. ~Idle'  BY <2>2 DEF Idle, InFlight
            <3> QED  BY <3>2, <3>4, <3>5 DEF Orderly
        <2> QED  BY <2>1, <2>3, <2>4, <2>5 DEF MonitorInv
    <1>2. CASE Fails(k) /\ UNCHANGED <<disk, tmp>>
        BY <1>2, <1>u, FailsInv
    <1> QED  BY <1>1, <1>2 DEF Rename

LEMMA RunInv ==
    ASSUME MonitorInv, NEW k \in Command, RunEffects(k)
    PROVE  MonitorInv'
    <1>t. TypeOK /\ Consent /\ Orderly  BY DEF MonitorInv
    <1>u. pc[k] = "effects" /\ UNCHANGED <<state, tmp, disk, consented>>  BY DEF RunEffects
    <1>1. CASE watching' = AfterEffects(k) /\ Reply(k, "ok") /\ UNCHANGED clean
        <2>1. /\ effects'[k] = <<>> /\ pc'[k] = "done"
              /\ \A j \in Command : j # k => effects'[j] = effects[j] /\ pc'[j] = pc[j]
              /\ pc' \in [Command -> {"new", "write", "rename", "effects", "done"}]
              /\ effects' \in [Command -> Seq(Effects)]
              /\ saving' \in [Command -> States]
              /\ reply' \in [Command -> {"none", "ok", "error"}]
            BY <1>1, <1>t, ReplyFacts
        <2>2. watching' \in (Identity \cap consented) \cup {None}
            <3>1. CASE effects[k] = <<>>  BY <1>1, <3>1, <1>t DEF AfterEffects, Consent, TypeOK
            <3>2. CASE effects[k] # <<>>
                <4> DEFINE n == Len(effects[k])
                <4>1. effects[k] \in Seq(Effects)  BY <1>t DEF TypeOK
                <4>2. n \in 1 .. Len(effects[k])  BY <4>1, <3>2
                <4>3. effects[k][n] \in Effects  BY <4>1, <4>2
                <4>4. effects[k][n].type = "subscribe" => effects[k][n].identity \in consented
                    BY <4>2, <1>t DEF Consent
                <4>5. watching' = AfterEffect(effects[k][n])  BY <1>1, <3>2 DEF AfterEffects
                <4> QED  BY <4>3, <4>4, <4>5 DEF AfterEffect, Effects
            <3> QED  BY <3>1, <3>2
        <2>3. TypeOK'  BY <2>1, <2>2, <1>1, <1>u, <1>t DEF TypeOK
        <2>4. Consent'
            <3>1. watching' \in consented' \cup {None} /\ state'.armed \in consented' \cup {None}
                BY <2>1, <2>2, <1>u, <1>t DEF Consent
            <3>2. ASSUME NEW j \in Command, NEW n \in 1 .. Len(effects'[j]), effects'[j][n].type = "subscribe"
                  PROVE  effects'[j][n].identity \in consented'
                <4>1. j # k  BY <3>2, <2>1
                <4> QED  BY <4>1, <3>2, <2>1, <2>2, <1>u, <1>t DEF Consent
            <3> QED  BY <3>1, <3>2 DEF Consent
        <2>5. Orderly'
            <3> SUFFICES ASSUME clean' PROVE Orderly'  BY DEF Orderly
            <3>1. InFlight(k) /\ InOrder(k)  BY <1>u, <1>t, <1>1 DEF Orderly, InFlight
            <3>2. \A j \in Command : ~InFlight(j)'  BY <2>1, <3>1 DEF InOrder, InFlight
            <3>3. watching' = state'.armed /\ disk' = state'  BY <3>1, <1>1, <1>u DEF InOrder
            <3> QED  BY <3>2, <3>3 DEF Orderly
        <2> QED  BY <2>3, <2>4, <2>5, <1>u DEF MonitorInv
    <1>2. CASE Fails(k) /\ UNCHANGED watching
        BY <1>2, <1>u, FailsInv
    <1> QED  BY <1>1, <1>2 DEF RunEffects

LEMMA LoseAuthenticationInv ==
    ASSUME MonitorInv, LoseAuthentication
    PROVE  MonitorInv'
    <1>1. TypeOK'  BY DEF MonitorInv, TypeOK, LoseAuthentication
    <1>2. Consent'  BY DEF MonitorInv, Consent, LoseAuthentication
    <1>3. Orderly'  BY DEF Orderly, LoseAuthentication
    <1> QED  BY <1>1, <1>2, <1>3 DEF MonitorInv, LoseAuthentication

LEMMA UnchangedInv ==
    ASSUME MonitorInv, UNCHANGED vars
    PROVE  MonitorInv'
    <1>0. /\ state' = state /\ tmp' = tmp /\ disk' = disk /\ watching' = watching /\ pc' = pc
          /\ effects' = effects /\ saving' = saving /\ reply' = reply
          /\ consented' = consented /\ clean' = clean
        BY DEF vars
    <1>1. TypeOK'  BY <1>0 DEF MonitorInv, TypeOK
    <1>2. Consent'  BY <1>0 DEF MonitorInv, Consent
    <1>3. Orderly'  BY <1>0 DEF MonitorInv, Orderly, InOrder, InFlight, Idle, AfterEffects
    <1> QED  BY <1>0, <1>1, <1>2, <1>3 DEF MonitorInv

------------------------------------------------------------------------------
(* The session around it. *)

(* The rest of SessionTypeOK. *)
RestOK ==
    /\ live \in Modes
    /\ bound \in Identity \cup {None}
    /\ turn \in {"ready", "hook", "tool"} \cup Call
    /\ asked \in Command \cup {None}
    /\ wire \in Seq(Commands)
    /\ reported \in BOOLEAN
    /\ child \in [Call -> Children]
    /\ killed \in [Call -> BOOLEAN]
    /\ line \in [Call -> BOOLEAN]
    /\ outcome \in [Call -> {"none", "mail", "failed", "stopped"}]

LEMMA Parts ==
    /\ IInv <=> MonitorInv /\ RestOK /\ Follows
    BY DEF IInv, MonitorInv, RestOK, SessionTypeOK, Follows

LEMMA PartsPrimed ==
    MonitorInv' /\ RestOK' /\ Follows' => IInv'
    BY DEF IInv, MonitorInv, RestOK, SessionTypeOK, Follows

LEMMA MessageTypes ==
    ASSUME Free # {}, NEW kind, NEW i, NEW t \in Thread,
           \/ kind = "register" /\ i = None
           \/ kind \in {"binding", "arm", "disarm", "status"} /\ i \in Identity
    PROVE  LET m == Message(kind, i, t) IN
           m \in Commands /\ m.slot \in Command /\ m.kind = kind /\ m.identity = i
    <1> DEFINE k == CHOOSE k \in Free : TRUE
    <1>1. k \in Free  OBVIOUS
    <1>2. k \in Command  BY <1>1 DEF Free
    <1> HIDE DEF k
    <1>3. Message(kind, i, t) = [slot |-> k, kind |-> kind, identity |-> i, thread |-> t]
        BY DEF Message, k
    <1>4. CASE kind = "register" /\ i = None
        BY <1>2, <1>3, <1>4 DEF Commands, Kinds
    <1>5. CASE kind \in {"binding", "arm", "disarm", "status"} /\ i \in Identity
        BY <1>2, <1>3, <1>5 DEF Commands, Kinds
    <1> QED  BY <1>4, <1>5

LEMMA AppendWire ==
    ASSUME NEW w \in Seq(Commands), NEW m \in Commands
    PROVE  /\ Append(w, m) \in Seq(Commands) /\ Len(Append(w, m)) = Len(w) + 1
           /\ \A n \in 1 .. Len(w) : Append(w, m)[n] = w[n]
           /\ Append(w, m)[Len(w) + 1] = m
    OBVIOUS

LEMMA TailWire ==
    ASSUME NEW w \in Seq(Commands), w # <<>>
    PROVE  /\ Tail(w) \in Seq(Commands) /\ Len(Tail(w)) = Len(w) - 1 /\ Len(w) \in Nat \ {0}
           /\ \A n \in 1 .. Len(w) - 1 : Tail(w)[n] = w[n + 1]
           /\ Head(w) = w[1] /\ Head(w) \in Commands
    OBVIOUS

(* A command about the session's own identity changes nothing. *)
LEMMA AppendFollows ==
    ASSUME RestOK, Follows, NEW m \in Commands,
           m.kind \in {"binding", "arm"} => m.identity = bound,
           wire' = Append(wire, m), state' = state, bound' = bound, reported' = reported
    PROVE  reported' => \E n \in 0 .. Len(wire') : FollowsFrom(n)'
    <1> SUFFICES ASSUME reported PROVE \E n \in 0 .. Len(wire') : FollowsFrom(n)'  OBVIOUS
    <1>1. PICK n \in 0 .. Len(wire) : FollowsFrom(n)  BY DEF Follows
    <1>w. wire \in Seq(Commands)  BY DEF RestOK
    <1>2. /\ Len(wire') = Len(wire) + 1 /\ Len(wire) \in Nat
          /\ \A j \in 1 .. Len(wire) : wire'[j] = wire[j]
          /\ wire'[Len(wire) + 1] = m
        BY <1>w, AppendWire
    <1>3. n \in 0 .. Len(wire')  BY <1>2
    <1>4. n > 0 => wire'[n].kind = "binding" /\ wire'[n].identity = bound
        BY <1>1, <1>2 DEF FollowsFrom
    <1>5. ASSUME NEW j \in n + 1 .. Len(wire'), wire'[j].kind \in {"binding", "arm"}
          PROVE  wire'[j].identity = bound
        <2>1. CASE j = Len(wire) + 1  BY <2>1, <1>2, <1>5
        <2>2. CASE j # Len(wire) + 1
            <3>1. j \in n + 1 .. Len(wire) /\ j \in 1 .. Len(wire)  BY <2>2, <1>2
            <3> QED  BY <3>1, <1>1, <1>2, <1>5 DEF FollowsFrom
        <2> QED  BY <2>1, <2>2
    <1>6. FollowsFrom(n)'  BY <1>1, <1>4, <1>5 DEF FollowsFrom
    <1> QED  BY <1>3, <1>6

(* The server's own steps leave its state alone. *)
LEMMA ServerStep ==
    ASSUME IInv, Server \/ LoseAuthentication, UNCHANGED <<session, foreground>>
    PROVE  IInv'
    <1>t. MonitorInv /\ RestOK /\ Follows  BY Parts
    <1>1. MonitorInv' /\ state' = state
        <2>1. CASE Server
            <3>1. PICK k \in Command : WriteTmp(k) \/ Rename(k) \/ RunEffects(k)  BY <2>1 DEF Server
            <3>2. CASE WriteTmp(k)  BY <3>2, <1>t, WriteInv DEF WriteTmp
            <3>3. CASE Rename(k)  BY <3>3, <1>t, RenameInv DEF Rename
            <3>4. CASE RunEffects(k)  BY <3>4, <1>t, RunInv DEF RunEffects
            <3> QED  BY <3>1, <3>2, <3>3, <3>4
        <2>2. CASE LoseAuthentication
            BY <2>2, <1>t, LoseAuthenticationInv DEF LoseAuthentication
        <2> QED  BY <2>1, <2>2
    <1>2. /\ live' = live /\ bound' = bound /\ turn' = turn /\ asked' = asked /\ wire' = wire
          /\ reported' = reported /\ child' = child /\ killed' = killed /\ line' = line
          /\ outcome' = outcome
        BY DEF session, foreground
    <1>3. RestOK'  BY <1>2, <1>t DEF RestOK
    <1>4. Follows'  BY <1>1, <1>2, <1>t DEF Follows, FollowsFrom
    <1> QED  BY <1>1, <1>3, <1>4, PartsPrimed

(* What a command makes of the state. *)
LEMMA ApplyState ==
    ASSUME MonitorInv, NEW m \in Commands, Apply(m)
    PROVE  /\ state'.bound = m.identity \/ (state'.bound = state.bound /\ m.kind # "binding")
           /\ m.kind \notin {"binding", "arm"} => state'.bound = state.bound
    <1>1. CASE Accept(m)
        <2>1. Agrees(state, m, Transition(state, m))
            BY <1>1, TransitionAgrees DEF Accept, MonitorInv, TypeOK
        <2>2. state' = Transition(state, m).state  BY <1>1 DEF Accept
        <2> QED  BY <2>1, <2>2 DEF Agrees
    <1>2. CASE Reject(m)  BY <1>2 DEF Reject
    <1> QED  BY <1>1, <1>2 DEF Apply

LEMMA ReceiveStep ==
    ASSUME IInv, Receive
    PROVE  IInv'
    <1>t. MonitorInv /\ RestOK /\ Follows  BY Parts
    <1> DEFINE m == Head(wire)
    <1>w. wire \in Seq(Commands) /\ wire # <<>>  BY <1>t DEF RestOK, Receive
    <1>1. /\ m \in Commands /\ m = wire[1] /\ Len(wire) \in Nat \ {0} /\ Len(Tail(wire)) = Len(wire) - 1
          /\ Tail(wire) \in Seq(Commands)
          /\ \A n \in 1 .. Len(wire) - 1 : Tail(wire)[n] = wire[n + 1]
        BY <1>w, TailWire
    <1> HIDE DEF m
    <1>2. Apply(m)  BY DEF Receive, m
    <1>3. /\ live' = live /\ bound' = bound /\ turn' = turn /\ asked' = asked /\ wire' = Tail(wire)
          /\ reported' = reported /\ child' = child /\ killed' = killed /\ line' = line
          /\ outcome' = outcome
        BY DEF Receive, foreground
    <1>4. MonitorInv'  BY <1>1, <1>2, <1>t, ApplyInv
    <1>5. RestOK'  BY <1>1, <1>3, <1>t DEF RestOK
    <1>6. ASSUME reported PROVE \E n \in 0 .. Len(wire') : FollowsFrom(n)'
        <2>1. PICK n \in 0 .. Len(wire) : FollowsFrom(n)  BY <1>6, <1>t DEF Follows
        <2>2. \A j \in 1 .. Len(wire) : j > n /\ wire[j].kind \in {"binding", "arm"} => wire[j].identity = bound
            BY <2>1 DEF FollowsFrom
        <2>3. /\ state'.bound = m.identity \/ (state'.bound = state.bound /\ m.kind # "binding")
              /\ m.kind \notin {"binding", "arm"} => state'.bound = state.bound
            BY <1>1, <1>2, <1>t, ApplyState
        <2>4. CASE n > 1
            <3> DEFINE i == n - 1
            <3>1. i \in 0 .. Len(wire') /\ i > 0  BY <2>4, <1>1, <1>3
            <3>2. wire'[i].kind = "binding" /\ wire'[i].identity = bound
                BY <2>1, <2>4, <1>1, <1>3 DEF FollowsFrom
            <3>3. ASSUME NEW j \in i + 1 .. Len(wire'), wire'[j].kind \in {"binding", "arm"}
                  PROVE  wire'[j].identity = bound
                <4>1. wire'[j] = wire[j + 1] /\ j + 1 \in 1 .. Len(wire) /\ j + 1 > n  BY <3>1, <1>1, <1>3
                <4> QED  BY <4>1, <2>2, <3>3
            <3> HIDE DEF i
            <3>4. FollowsFrom(i)'  BY <3>1, <3>2, <3>3, <1>3 DEF FollowsFrom
            <3> QED  BY <3>1, <3>4
        <2>5. CASE n \in {0, 1}
            <3>1. state'.bound \in {bound, None}
                <4>1. CASE n = 1
                    <5>1. m.kind = "binding" /\ m.identity = bound  BY <2>1, <4>1, <1>1 DEF FollowsFrom
                    <5> QED  BY <5>1, <2>3
                <4>2. CASE n = 0
                    <5>1. state.bound \in {bound, None}  BY <2>1, <4>2 DEF FollowsFrom
                    <5>2. m.kind \in {"binding", "arm"} => m.identity = bound  BY <2>2, <4>2, <1>1
                    <5> QED  BY <5>1, <5>2, <2>3
                <4> QED  BY <2>5, <4>1, <4>2
            <3>2. ASSUME NEW j \in 0 + 1 .. Len(wire'), wire'[j].kind \in {"binding", "arm"}
                  PROVE  wire'[j].identity = bound
                <4>1. wire'[j] = wire[j + 1] /\ j + 1 \in 1 .. Len(wire) /\ j + 1 > n  BY <2>5, <1>1, <1>3
                <4> QED  BY <4>1, <2>2, <3>2
            <3>3. FollowsFrom(0)'  BY <3>1, <3>2, <1>3 DEF FollowsFrom
            <3>4. 0 \in 0 .. Len(wire')  BY <1>1, <1>3
            <3> QED  BY <3>3, <3>4
        <2> QED  BY <2>4, <2>5, <1>1
    <1>7. state'.armed \in {state'.bound, None}  BY <1>4 DEF MonitorInv
    <1>8. Follows'  BY <1>3, <1>6, <1>7, <1>t DEF Follows
    <1> QED  BY <1>4, <1>5, <1>8, PartsPrimed

(* A thread is registered: neither the binding nor what is armed changes. *)
LEMMA RegisteredStep ==
    ASSUME IInv, Registered
    PROVE  IInv'
    <1>t. MonitorInv /\ RestOK /\ Follows  BY Parts
    <1>1. PICK t \in Thread : Apply(Registration(t))  BY DEF Registered
    <1> DEFINE m == Registration(t)
    <1>2. m \in Commands /\ m.kind = "register"
        BY MessageTypes DEF Registered, Registration
    <1> HIDE DEF m
    <1>3. Apply(m)  BY <1>1 DEF m
    <1>4. /\ live' = live /\ bound' = bound /\ turn' = turn /\ asked' = asked /\ wire' = wire
          /\ reported' = reported /\ child' = child /\ killed' = killed /\ line' = line
          /\ outcome' = outcome
        BY DEF Registered, session, foreground
    <1>5. MonitorInv'  BY <1>2, <1>3, <1>t, ApplyInv
    <1>6. state'.bound = state.bound  BY <1>2, <1>3, <1>t, ApplyState
    <1>7. state'.armed \in {state'.bound, None}  BY <1>5 DEF MonitorInv
    <1>8. RestOK'  BY <1>4, <1>t DEF RestOK
    <1>9. Follows'  BY <1>4, <1>6, <1>7, <1>t DEF Follows, FollowsFrom
    <1> QED  BY <1>5, <1>8, <1>9, PartsPrimed

LEMMA AnsweredStep ==
    ASSUME IInv, Answered
    PROVE  IInv'
    <1>t. MonitorInv /\ RestOK /\ Follows  BY Parts
    <1>1. /\ UNCHANGED vars /\ turn' = "ready" /\ asked' = None
          /\ live' = live /\ bound' = bound /\ wire' = wire
          /\ reported' = reported /\ child' = child /\ killed' = killed /\ line' = line
          /\ outcome' = outcome
        BY DEF Answered, foreground
    <1>2. MonitorInv'  BY <1>1, <1>t, UnchangedInv
    <1>3. state' = state  BY <1>1 DEF vars
    <1>4. RestOK'  BY <1>1, <1>t DEF RestOK
    <1>5. Follows'  BY <1>1, <1>3, <1>t DEF Follows, FollowsFrom
    <1> QED  BY <1>2, <1>4, <1>5, PartsPrimed

(* The binding command is the first the session is judged by. *)
LEMMA BindToolStep ==
    ASSUME IInv, NEW b \in BindTools, NEW i \in Identity, BindTool(b, i)
    PROVE  IInv'
    <1>t. MonitorInv /\ RestOK /\ Follows  BY Parts
    <1>1. /\ UNCHANGED vars /\ turn = "ready" /\ bound' = i /\ live' = live
          /\ child' = child /\ killed' = killed /\ line' = line /\ outcome' = outcome
        BY DEF BindTool, foreground
    <1>2. MonitorInv' /\ state' = state  BY <1>1, <1>t, UnchangedInv DEF vars
    <1>3. asked = None /\ state.armed \in {state.bound, None} /\ wire \in Seq(Commands)
        BY <1>1, <1>t DEF Follows, RestOK
    <1>4. CASE ~(live /\ Tells(b))
        <2>1. reported' = (live /\ b.named) /\ turn' = turn /\ asked' = asked /\ wire' = wire
            BY <1>4, <1>1 DEF BindTool
        <2>2. ~reported'  BY <2>1, <1>4 DEF Tells
        <2>3. reported' \in BOOLEAN  BY <2>1
        <2>4. RestOK'  BY <2>1, <2>3, <1>1, <1>t DEF RestOK
        <2>5. Follows'  BY <2>1, <2>2, <1>2, <1>3 DEF Follows
        <2> QED  BY <2>4, <2>5, <1>2, PartsPrimed
    <1>5. CASE live /\ Tells(b)
        <2>1. /\ Free # {} /\ turn' = "hook" /\ reported' = (asked' # None)
              /\ \E t \in Thread : Send(Message("binding", i, t))
            BY <1>5 DEF BindTool
        <2>2. PICK t \in Thread : Send(Message("binding", i, t))  BY <2>1
        <2> DEFINE m == Message("binding", i, t)
        <2>3. m \in Commands /\ m.slot \in Command /\ m.kind = "binding" /\ m.identity = i
            BY <2>1, MessageTypes
        <2> HIDE DEF m
        <2>4. \/ wire' = Append(wire, m) /\ asked' = m.slot
              \/ wire' = wire /\ asked' = asked
            BY <2>2 DEF Send, m
        <2>5. /\ Append(wire, m) \in Seq(Commands) /\ Len(Append(wire, m)) = Len(wire) + 1
              /\ Append(wire, m)[Len(wire) + 1] = m /\ Len(wire) \in Nat
            BY <1>3, <2>3, AppendWire
        <2>6. RestOK'  BY <2>1, <2>3, <2>4, <2>5, <1>1, <1>t DEF RestOK
        <2>7. ASSUME reported' PROVE \E n \in 0 .. Len(wire') : FollowsFrom(n)'
            <3>1. wire' = Append(wire, m)  BY <2>7, <2>1, <2>4, <1>3
            <3>0. PICK n \in Nat : n = Len(wire) + 1  BY <2>5
            <3>2. n \in 0 .. Len(wire') /\ n > 0 /\ Len(wire') = n /\ wire'[n] = m  BY <3>0, <3>1, <2>5
            <3>3. \A j \in n + 1 .. Len(wire') : FALSE  BY <3>2
            <3>4. FollowsFrom(n)'  BY <3>2, <3>3, <2>3, <1>1 DEF FollowsFrom
            <3> QED  BY <3>2, <3>4
        <2>8. Follows'  BY <2>1, <2>7, <1>2, <1>3 DEF Follows
        <2> QED  BY <2>6, <2>8, <1>2, PartsPrimed
    <1> QED  BY <1>4, <1>5

LEMMA LoseStep ==
    ASSUME IInv, Lose
    PROVE  IInv'
    <1>t. MonitorInv /\ RestOK /\ Follows  BY Parts
    <1>1. /\ UNCHANGED vars /\ bound' = None /\ reported' = FALSE
          /\ live' = live /\ turn' = turn /\ asked' = asked /\ wire' = wire
          /\ child' = child /\ killed' = killed /\ line' = line /\ outcome' = outcome
        BY DEF Lose, foreground
    <1>2. MonitorInv' /\ state' = state  BY <1>1, <1>t, UnchangedInv DEF vars
    <1>3. RestOK'  BY <1>1, <1>t DEF RestOK
    <1>4. Follows'  BY <1>1, <1>2, <1>t DEF Follows
    <1> QED  BY <1>2, <1>3, <1>4, PartsPrimed

(* What a hook or a tool sends besides. *)
LEMMA SendStep ==
    ASSUME IInv, NEW m \in Commands, m.slot \in Command, Send(m),
           m.kind \in {"binding", "arm"} => m.identity = bound,
           turn = "ready", turn' \in {"hook", "tool"},
           UNCHANGED <<vars, live, bound, reported, foreground>>
    PROVE  IInv'
    <1>t. MonitorInv /\ RestOK /\ Follows  BY Parts
    <1>1. /\ UNCHANGED vars /\ live' = live /\ bound' = bound /\ reported' = reported
          /\ child' = child /\ killed' = killed /\ line' = line /\ outcome' = outcome
        BY DEF foreground
    <1>2. MonitorInv' /\ state' = state  BY <1>1, <1>t, UnchangedInv DEF vars
    <1>3. CASE wire' = Append(wire, m) /\ asked' = m.slot
        <2>1. wire' \in Seq(Commands)  BY <1>3, <1>t, AppendWire DEF RestOK
        <2>2. RestOK'  BY <2>1, <1>1, <1>3, <1>t DEF RestOK
        <2>3. reported' => \E n \in 0 .. Len(wire') : FollowsFrom(n)'
            BY <1>1, <1>2, <1>3, <1>t, AppendFollows
        <2>4. Follows'  BY <2>3, <1>2, <1>t DEF Follows
        <2> QED  BY <2>2, <2>4, <1>2, PartsPrimed
    <1>4. CASE wire' = wire /\ asked' = asked
        <2>1. RestOK'  BY <1>1, <1>4, <1>t DEF RestOK
        <2>2. Follows'  BY <1>1, <1>2, <1>4, <1>t DEF Follows, FollowsFrom
        <2> QED  BY <2>1, <2>2, <1>2, PartsPrimed
    <1> QED  BY <1>3, <1>4 DEF Send

LEMMA SessionStartStep ==
    ASSUME IInv, SessionStart
    PROVE  IInv'
    <1>1. PICK t \in Thread : Send(Registration(t))  BY DEF SessionStart
    <1> DEFINE m == Registration(t)
    <1>2. m \in Commands /\ m.slot \in Command /\ m.kind = "register"
        BY MessageTypes DEF SessionStart, Registration
    <1>3. Send(m)  BY <1>1
    <1> HIDE DEF m
    <1> QED  BY <1>2, <1>3, SendStep DEF SessionStart

LEMMA MonitorToolStep ==
    ASSUME IInv, NEW kind \in {"arm", "disarm", "status"}, MonitorTool(kind)
    PROVE  IInv'
    <1>1. PICK t \in Thread : Send(Message(kind, bound, t))  BY DEF MonitorTool
    <1> DEFINE m == Message(kind, bound, t)
    <1>2. bound \in Identity  BY DEF IInv, SessionTypeOK, MonitorTool
    <1>3. m \in Commands /\ m.slot \in Command /\ m.identity = bound
        BY <1>2, MessageTypes DEF MonitorTool
    <1>4. Send(m)  BY <1>1
    <1> HIDE DEF m
    <1> QED  BY <1>3, <1>4, SendStep DEF MonitorTool

(* What a foreground call and its child do, nothing of which the control   *)
(* server or the binding sees.                                             *)
LEMMA ForegroundStep ==
    ASSUME IInv, RestOK', UNCHANGED <<vars, live, bound, asked, wire, reported>>,
           turn' \notin {"hook", "tool"} => turn \notin {"hook", "tool"}
    PROVE  IInv'
    <1>t. MonitorInv /\ RestOK /\ Follows  BY Parts
    <1>1. /\ UNCHANGED vars /\ bound' = bound /\ asked' = asked /\ wire' = wire /\ reported' = reported
        OBVIOUS
    <1>2. MonitorInv' /\ state' = state  BY <1>1, <1>t, UnchangedInv DEF vars
    <1>3. Follows'  BY <1>1, <1>2, <1>t DEF Follows, FollowsFrom
    <1> QED  BY <1>2, <1>3, PartsPrimed

LEMMA FinishStep ==
    ASSUME IInv, NEW c \in Call, NEW o \in {"mail", "failed", "stopped"}, Finish(c, o),
           child' = child, line' \in [Call -> BOOLEAN]
    PROVE  IInv'
    <1>t. RestOK  BY Parts
    <1>1. /\ turn = c /\ turn' = "ready" /\ outcome' = [outcome EXCEPT ![c] = o]
          /\ killed' = [killed EXCEPT ![c] = @ \/ Up(c)]
          /\ UNCHANGED <<vars, live, bound, asked, wire, reported>>
        BY DEF Finish, Stop
    <1>2. c \notin {"hook", "tool"}  BY CallAssumption
    <1>3. killed[c] \in BOOLEAN /\ Up(c) \in BOOLEAN  BY <1>t DEF RestOK, Up
    <1>4. killed' \in [Call -> BOOLEAN]  BY <1>1, <1>3, <1>t DEF RestOK
    <1>5. outcome' \in [Call -> {"none", "mail", "failed", "stopped"}]  BY <1>1, <1>t DEF RestOK
    <1>6. RestOK'  BY <1>1, <1>4, <1>5, <1>t DEF RestOK
    <1> QED  BY <1>1, <1>2, <1>6, ForegroundStep

LEMMA ChildStep ==
    ASSUME IInv, NEW c \in Call, NEW s \in Children, Becomes(c, s), line' \in [Call -> BOOLEAN],
           UNCHANGED <<vars, session, killed, outcome>>
    PROVE  IInv'
    <1>t. RestOK  BY Parts
    <1>1. /\ UNCHANGED vars /\ live' = live /\ bound' = bound /\ turn' = turn /\ asked' = asked
          /\ wire' = wire /\ reported' = reported /\ killed' = killed /\ outcome' = outcome
          /\ child' = [child EXCEPT ![c] = s]
        BY DEF session, Becomes
    <1>2. RestOK'  BY <1>1, <1>t DEF RestOK
    <1> QED  BY <1>1, <1>2, ForegroundStep

LEMMA CallStep ==
    ASSUME IInv, NEW c \in Call,
           \/ Foreground(c) \/ Abort(c) \/ Line(c) \/ Exited(c)
           \/ Winds(c) \/ StreamFails(c) \/ Arrival(c)
    PROVE  IInv'
    <1>t. RestOK  BY Parts
    <1>l. line \in [Call -> BOOLEAN]  BY <1>t DEF RestOK
    <1>1. CASE Foreground(c)
        <2>1. /\ turn = "ready" /\ UNCHANGED <<vars, live, bound, asked, wire, reported, killed, line>>
              /\ \/ turn' = c /\ child' = [child EXCEPT ![c] = "starting"] /\ outcome' = outcome
                 \/ outcome' = [outcome EXCEPT ![c] = "failed"] /\ turn' = turn /\ child' = child
            BY <1>1 DEF Foreground, Becomes
        <2>2. RestOK'  BY <2>1, <1>t DEF RestOK, Children
        <2> QED  BY <2>1, <2>2, ForegroundStep
    <1>2. CASE Abort(c)  BY <1>2, <1>l, FinishStep DEF Abort
    <1>3. CASE Line(c)
        <2>1. line' \in [Call -> BOOLEAN]  BY <1>3, <1>l DEF Line
        <2> QED  BY <2>1, <1>3, FinishStep DEF Line
    <1>4. CASE Exited(c)  BY <1>4, <1>l, FinishStep DEF Exited
    <1>5. ASSUME NEW f, NEW s \in Children, ChildMoves(c, f, s) PROVE IInv'
        <2>1. Becomes(c, s) /\ line' = line /\ UNCHANGED <<vars, session, killed, outcome>>
            BY <1>5 DEF ChildMoves
        <2> QED  BY <2>1, <1>l, ChildStep
    <1>6. CASE Winds(c)
        <2>1. \E f : \E s \in Children : ChildMoves(c, f, s)
            <3>1. CASE Dies(c)  BY <3>1 DEF Dies, Children
            <3>2. CASE Attach(c)  BY <3>2 DEF Attach, Children
            <3>3. CASE StreamAborted(c)  BY <3>3 DEF StreamAborted, Children
            <3>4. CASE Closes(c)  BY <3>4 DEF Closes, Children
            <3> QED  BY <1>6, <3>1, <3>2, <3>3, <3>4 DEF Winds
        <2> QED  BY <2>1, <1>5
    <1>7. CASE StreamFails(c)
        <2>1. "closing" \in Children /\ ChildMoves(c, "watching", "closing")
            BY <1>7 DEF StreamFails, Children
        <2> QED  BY <2>1, <1>5
    <1>8. CASE Arrival(c)
        <2>1. /\ Becomes(c, "closing") /\ "closing" \in Children
              /\ UNCHANGED <<vars, session, killed, outcome>>
              /\ line' \in [Call -> BOOLEAN]
            BY <1>8, <1>l DEF Arrival, Children
        <2> QED  BY <2>1, ChildStep
    <1> QED  BY <1>1, <1>2, <1>3, <1>4, <1>6, <1>7, <1>8

------------------------------------------------------------------------------
(* The invariant and what follows from it. *)

LEMMA Initially ==
    ASSUME SessionInit
    PROVE  IInv
    <1>1. Init  BY DEF SessionInit
    <1>2. TypeOK  BY <1>1 DEF Init, TypeOK, Initial, States
    <1>3. Consent  BY <1>1 DEF Init, Consent, Initial
    <1>4. \A k \in Command : ~InFlight(k)  BY <1>1 DEF Init, InFlight
    <1>5. Orderly  BY <1>1, <1>4 DEF Init, Orderly, Initial
    <1>6. SessionTypeOK  BY <1>2 DEF SessionInit, SessionTypeOK, Children
    <1>7. wire = <<>> /\ state.bound = None /\ state.armed = None /\ asked = None
        BY <1>1 DEF SessionInit, Init, Initial
    <1>8. Len(wire) = 0  BY <1>7
    <1>9. FollowsFrom(0)  BY <1>7, <1>8 DEF FollowsFrom
    <1>10. 0 \in 0 .. Len(wire)  BY <1>8
    <1>11. Follows  BY <1>7, <1>9, <1>10 DEF Follows
    <1> QED  BY <1>3, <1>5, <1>6, <1>11 DEF IInv

LEMMA Inductive ==
    ASSUME IInv, [SessionNext]_monitorVars
    PROVE  IInv'
    <1>1. CASE (Server \/ LoseAuthentication) /\ UNCHANGED <<session, foreground>>
        BY <1>1, ServerStep
    <1>2. CASE Receive  BY <1>2, ReceiveStep
    <1>3. CASE Answered  BY <1>3, AnsweredStep
    <1>4. CASE \E b \in BindTools, i \in Identity : BindTool(b, i)  BY <1>4, BindToolStep
    <1>5. CASE Lose  BY <1>5, LoseStep
    <1>6. CASE SessionStart  BY <1>6, SessionStartStep
    <1>7. CASE Registered  BY <1>7, RegisteredStep
    <1>8. CASE \E kind \in {"arm", "disarm", "status"} : MonitorTool(kind)
        BY <1>8, MonitorToolStep
    <1>9. CASE \E c \in Call : \/ Foreground(c) \/ Abort(c) \/ Line(c) \/ Exited(c)
                                \/ Winds(c) \/ StreamFails(c) \/ Arrival(c)
        BY <1>9, CallStep
    <1>10. CASE UNCHANGED monitorVars
        <2>1. /\ UNCHANGED vars /\ UNCHANGED session /\ UNCHANGED foreground
            BY <1>10 DEF monitorVars
        <2>2. MonitorInv' /\ state' = state  BY <2>1, Parts, UnchangedInv DEF vars
        <2>3. RestOK'  BY <2>1, Parts DEF RestOK, session, foreground
        <2>4. Follows'  BY <2>1, <2>2, Parts DEF Follows, FollowsFrom, session
        <2> QED  BY <2>2, <2>3, <2>4, PartsPrimed
    <1> QED  BY <1>1, <1>2, <1>3, <1>4, <1>5, <1>6, <1>7, <1>8, <1>9, <1>10 DEF SessionNext

(* The inductive invariant holds in every behaviour of a session and its   *)
(* control server, for any number of commands in flight and on the wire.   *)
THEOREM Invariance == SessionSpec => []IInv
    <1>1. SessionInit => IInv  BY Initially
    <1>2. IInv /\ [SessionNext]_monitorVars => IInv'  BY Inductive
    <1> QED  BY <1>1, <1>2, PTL DEF SessionSpec

(* Whatever the commands, their order and the writes that fail, the        *)
(* control server's state and the session's keep their types.              *)
THEOREM TypeCorrect == SessionSpec => []SessionTypeOK
    <1>1. IInv => SessionTypeOK  BY DEF IInv
    <1> QED  BY <1>1, Invariance, PTL

(* ControlServer.apply and onEffects: effects of commands that overlap run *)
(* in any order, but none makes the watcher run for an identity that no    *)
(* arm command named.                                                      *)
THEOREM NeverUninvited == SessionSpec => []WatchNeedsConsent
    <1>1. IInv => WatchNeedsConsent  BY DEF IInv, Consent, WatchNeedsConsent
    <1> QED  BY <1>1, Invariance, PTL

(* As long as no two commands overlapped and nothing failed, between       *)
(* commands the watcher runs for exactly the armed identity, and the file  *)
(* holds the state.                                                        *)
THEOREM WatcherAgrees == SessionSpec => []WatcherFollowsState
    <1>1. IInv => WatcherFollowsState
        BY DEF IInv, Orderly, WatcherFollowsState
    <1> QED  BY <1>1, Invariance, PTL

(* The control server's binding is the session's own, or none, whenever    *)
(* the last change was sent and the wire is empty: the sender giving up,   *)
(* failing saves and overlapping commands do not change that.              *)
THEOREM ServerFollows == SessionSpec => []MonitorFollowsSession
    <1>1. ASSUME IInv, reported, wire = <<>>
          PROVE  state.bound \in {bound, None} /\ state.armed \in {state.bound, None}
        <2>1. Len(wire) = 0  BY <1>1
        <2>2. PICK n \in 0 .. Len(wire) : FollowsFrom(n)  BY <1>1 DEF IInv, Follows
        <2>3. n = 0  BY <2>1, <2>2
        <2> QED  BY <1>1, <2>2, <2>3 DEF IInv, Follows, FollowsFrom
    <1>2. IInv => MonitorFollowsSession  BY <1>1 DEF MonitorFollowsSession
    <1> QED  BY <1>2, Invariance, PTL
==============================================================================
