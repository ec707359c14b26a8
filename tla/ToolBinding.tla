------------------------------ MODULE ToolBinding ------------------------------
(***************************************************************************)
(* packages/core/src/mcp/tool.ts: runTool over the clients of one          *)
(* connector process (or of several), the identity each client remembers,  *)
(* and the one silent rebind after the daemon lost its leases.             *)
(*                                                                         *)
(* A tool call is cut at every request: the daemon serves requests in any  *)
(* order, other calls run between a request and its answer, and an answer  *)
(* may be lost after its effect.  The daemon is external: an exclusive     *)
(* binding of identities to clients that a restart empties, as the tools   *)
(* describe it.  Three kinds of tool stand for all of them: "act" needs a  *)
(* binding and works under it, "choose" binds, "close" reads the current   *)
(* binding and then deletes that identity (close_temporary_identity        *)
(* without a name).                                                        *)
(***************************************************************************)
EXTENDS Naturals, Sequences

CONSTANTS
    Client,       \* OursClient objects
    Managed,      \* those that markManagedClient was called with
    Name,         \* identities of the daemon
    Call,         \* tool calls
    None,         \* no identity
    Workload,     \* the calls that may be made: [call, client, op, name, force]
    Supervised,   \* Supervised[c]: the identities a supervisor binds c to
    MaxRestarts,  \* bound: how often the daemon restarts
    MaxFaults     \* bound: how many requests or answers are lost

ASSUME ClientAssumption == Client # {}
ASSUME ManagedAssumption == Managed \subseteq Client
ASSUME NoneAssumption == None \notin Name
ASSUME WorkloadAssumption ==
    Workload \subseteq [call : Call, client : Client, op : {"act", "choose", "close"},
                        name : Name \cup {None}, force : BOOLEAN]
ASSUME SupervisedAssumption == Supervised \in [Managed -> SUBSET Name]
ASSUME BoundsAssumption == {MaxRestarts, MaxFaults} \subseteq Nat

VARIABLES
    open,         \* daemon: the identities that exist
    bound,        \* daemon: bound[c] is the identity c holds
    memory,       \* boundIdentities
    pc, client, op, name, force,  \* a call, its client and its arguments
    want,         \* want[k]: the identity k re-asserts, or has learned
    tries,        \* tries[k]: 2 once k retries
    result,       \* result[k]: the last answer to k
    acts,         \* history: the effects of k, [as, meant]
    chosen,       \* history: chosen[c] are the identities c was bound to by its user
    wanted,       \* history: wanted[c] is the last of them
    since,        \* history: since[k] was wanted when k began
    restarts, faults

daemon == <<open, bound>>
history == <<acts, chosen, wanted, since>>
arguments == <<client, op, name, force>>
progress == <<pc, want, tries, result>>
bounds == <<restarts, faults>>
vars == <<daemon, memory, history, arguments, progress, bounds>>

Ops == {"act", "choose", "close"}

(* Where a call waits for the daemon. *)
Requests == {"target", "request", "reassert", "ask"}

TypeOK ==
    /\ open \in SUBSET Name
    /\ bound \in [Client -> Name \cup {None}]
    /\ memory \in [Client -> Name \cup {None}]
    /\ pc \in [Call -> Requests \cup {"new", "answer", "refused", "learn", "done"}]
    /\ client \in [Call -> Client]
    /\ op \in [Call -> Ops]
    /\ name \in [Call -> Name \cup {None}]
    /\ force \in [Call -> BOOLEAN]
    /\ want \in [Call -> Name \cup {None}]
    /\ tries \in [Call -> {1, 2}]
    /\ result \in [Call -> {"none", "ok", "notBound", "error", "outage"}]
    /\ acts \in [Call -> Seq([as : Name, meant : BOOLEAN])]
    /\ chosen \in [Client -> SUBSET Name]
    /\ wanted \in [Client -> Name \cup {None}]
    /\ since \in [Call -> Name \cup {None}]
    /\ restarts \in Nat
    /\ faults \in Nat

Exclusive(b) == \A c, d \in Client : b[c] = b[d] /\ b[c] # None => c = d

(* The connector may find a binding an earlier process left (the lease     *)
(* token is the session); it knows of none.  A supervisor binds its        *)
(* clients later.                                                          *)
Init ==
    /\ open = Name
    /\ bound \in [Client -> Name \cup {None}]
    /\ Exclusive(bound)
    /\ \A c \in Managed : bound[c] = None
    /\ memory = [c \in Client |-> None]
    /\ pc = [k \in Call |-> "new"]
    /\ client \in [Call -> {CHOOSE c \in Client : TRUE}]
    /\ op = [k \in Call |-> "act"]
    /\ name = [k \in Call |-> None]
    /\ force = [k \in Call |-> FALSE]
    /\ want = [k \in Call |-> None]
    /\ tries = [k \in Call |-> 1]
    /\ result = [k \in Call |-> "none"]
    /\ acts = [k \in Call |-> <<>>]
    /\ chosen = [c \in Client |-> {bound[c]} \ {None}]
    /\ wanted = bound
    /\ since = [k \in Call |-> None]
    /\ restarts = 0
    /\ faults = 0

Goto(k, label) == pc' = [pc EXCEPT ![k] = label]

Mine(k) == bound[client[k]]

------------------------------------------------------------------------------
(* The daemon's answers. *)

Answer(k, r) ==
    /\ result' = [result EXCEPT ![k] = r]
    /\ Goto(k, "answer")
    /\ UNCHANGED <<want, tries>>

(* The answer r arrives, or is lost after whatever the request did. *)
AnswerOrLose(k, r) ==
    \/ Answer(k, r) /\ UNCHANGED bounds
    \/ /\ faults < MaxFaults
       /\ faults' = faults + 1
       /\ Answer(k, "outage")
       /\ UNCHANGED restarts

HeldElsewhere(c, n) == \E d \in Client \ {c} : bound[d] = n

(* chooseIdentity: exclusive, eviction only when forced. *)
MayBind(c, n, f) == n \in open /\ (f \/ ~HeldElsewhere(c, n))

Bound(c, n) == [d \in Client |-> IF d = c THEN n
                                 ELSE IF bound[d] = n THEN None ELSE bound[d]]

Effect(k, n) == acts' = [acts EXCEPT ![k] =
    Append(@, [as |-> n, meant |-> n \in {since[k], wanted[client[k]]}])]

(* An ordinary tool works as the bound identity. *)
Act(k) ==
    /\ op[k] = "act"
    /\ \/ /\ Mine(k) # None
          /\ Effect(k, Mine(k))
          /\ AnswerOrLose(k, "ok")
       \/ /\ Mine(k) = None
          /\ AnswerOrLose(k, "notBound")
          /\ UNCHANGED acts
    /\ UNCHANGED <<daemon, chosen, wanted, since>>

Choose(k) ==
    /\ op[k] = "choose"
    /\ \/ /\ MayBind(client[k], name[k], force[k])
          /\ bound' = Bound(client[k], name[k])
          /\ chosen' = [chosen EXCEPT ![client[k]] = @ \cup {name[k]}]
          /\ wanted' = [wanted EXCEPT ![client[k]] = name[k]]
          /\ AnswerOrLose(k, "ok")
       \/ /\ ~MayBind(client[k], name[k], force[k])
          /\ AnswerOrLose(k, "error")
          /\ UNCHANGED <<bound, chosen, wanted>>
    /\ UNCHANGED <<open, acts, since>>

(* closeTemporaryIdentityOp: a no-op when the identity is gone, refused    *)
(* while another session holds it.                                         *)
Close(k) ==
    /\ op[k] = "close"
    /\ \/ /\ name[k] \in open
          /\ ~HeldElsewhere(client[k], name[k])
          /\ open' = open \ {name[k]}
          /\ bound' = [bound EXCEPT ![client[k]] = IF @ = name[k] THEN None ELSE @]
          /\ Effect(k, name[k])
          /\ AnswerOrLose(k, "ok")
       \/ /\ name[k] \in open
          /\ HeldElsewhere(client[k], name[k])
          /\ AnswerOrLose(k, "error")
          /\ UNCHANGED <<daemon, acts>>
       \/ /\ name[k] \notin open
          /\ AnswerOrLose(k, "ok")
          /\ UNCHANGED <<daemon, acts>>
    /\ UNCHANGED <<chosen, wanted, since>>

Serve(k) ==
    /\ pc[k] = "request"
    /\ Act(k) \/ Choose(k) \/ Close(k)
    /\ UNCHANGED <<memory, arguments>>

(* close_temporary_identity without a name: currentIdentity comes first. *)
ResolveTarget(k) ==
    /\ pc[k] = "target"
    /\ \/ /\ Mine(k) # None
          /\ name' = [name EXCEPT ![k] = Mine(k)]
          /\ Goto(k, "request")
          /\ UNCHANGED <<want, tries, result>>
       \/ /\ Mine(k) = None
          /\ Answer(k, "notBound")
          /\ UNCHANGED name
    /\ UNCHANGED <<daemon, memory, history, client, op, force, bounds>>

(* A request that never reaches the daemon. *)
LoseRequest(k) ==
    /\ pc[k] \in {"target", "request"}
    /\ faults < MaxFaults
    /\ faults' = faults + 1
    /\ Answer(k, "outage")
    /\ UNCHANGED <<daemon, memory, history, arguments, restarts>>

------------------------------------------------------------------------------
(* runTool. *)

(* Variant: the WeakSet does not know the client the tools are given. *)
RebindsAnyone(c) == TRUE

(* Managed clients never bind or retry. *)
Rebinds(c) == c \notin Managed

FirstRequest(o) == IF o = "close" THEN "target" ELSE "request"

(* A managed server registers neither binding nor lifecycle tools. *)
Offered(c) == IF c \in Managed THEN {"act"} ELSE Ops

(* Variant: the name is remembered when it is asked for, bound or not. *)
BeginRemembering(w) ==
    /\ pc[w.call] = "new"
    /\ w.op \in Offered(w.client)
    /\ client' = [client EXCEPT ![w.call] = w.client]
    /\ op' = [op EXCEPT ![w.call] = w.op]
    /\ name' = [name EXCEPT ![w.call] = w.name]
    /\ force' = [force EXCEPT ![w.call] = w.force]
    /\ memory' = IF w.op = "choose" THEN [memory EXCEPT ![w.client] = w.name] ELSE memory
    /\ since' = [since EXCEPT ![w.call] = wanted[w.client]]
    /\ Goto(w.call, FirstRequest(w.op))
    /\ UNCHANGED <<daemon, acts, chosen, wanted, want, tries, result, bounds>>

Begin(w) ==
    /\ pc[w.call] = "new"
    /\ w.op \in Offered(w.client)
    /\ client' = [client EXCEPT ![w.call] = w.client]
    /\ op' = [op EXCEPT ![w.call] = w.op]
    /\ name' = [name EXCEPT ![w.call] = w.name]
    /\ force' = [force EXCEPT ![w.call] = w.force]
    /\ since' = [since EXCEPT ![w.call] = wanted[w.client]]
    /\ Goto(w.call, FirstRequest(w.op))
    /\ UNCHANGED <<daemon, memory, acts, chosen, wanted, want, tries, result, bounds>>

(* Variant: an outage is retried as well. *)
RecoverableAfterOutage(k) ==
    /\ tries[k] = 1
    /\ result[k] \in {"notBound", "outage"}
    /\ Rebinds(client[k])
    /\ memory[client[k]] # None

(* The call may be repeated: it failed with NOT_BOUND, the first time. *)
Recoverable(k) ==
    /\ tries[k] = 1
    /\ result[k] = "notBound"
    /\ Rebinds(client[k])
    /\ memory[client[k]] # None

(* The first success asks the daemon for the name, while none is known. *)
Unknown(k) ==
    /\ tries[k] = 1
    /\ result[k] = "ok"
    /\ Rebinds(client[k])
    /\ memory[client[k]] = None

(* The call's answer arrives. *)
Settle(k) ==
    /\ pc[k] = "answer"
    /\ \/ /\ Recoverable(k)
          /\ Goto(k, "reassert")
          /\ want' = [want EXCEPT ![k] = memory[client[k]]]
       \/ Unknown(k) /\ Goto(k, "ask") /\ UNCHANGED want
       \/ ~Recoverable(k) /\ ~Unknown(k) /\ Goto(k, "done") /\ UNCHANGED want
    /\ UNCHANGED <<daemon, memory, history, arguments, tries, result, bounds>>

Retry(k) ==
    /\ Goto(k, FirstRequest(op[k]))
    /\ tries' = [tries EXCEPT ![k] = 2]
    /\ UNCHANGED <<want, result>>

Refused(k) == Goto(k, "refused") /\ UNCHANGED <<want, tries, result>>

(* Variant: chooseIdentity with force. *)
ReassertByForce(k) ==
    /\ pc[k] = "reassert"
    /\ \/ /\ want[k] \in open
          /\ bound' = Bound(client[k], want[k])
          /\ Retry(k)
          /\ UNCHANGED bounds
       \/ want[k] \notin open /\ Refused(k) /\ UNCHANGED <<bound, bounds>>
    /\ UNCHANGED <<open, memory, history, arguments>>

(* reassertBinding: chooseIdentity without force; its answer may be lost   *)
(* although the binding was made.                                          *)
Reassert(k) ==
    /\ pc[k] = "reassert"
    /\ \/ /\ MayBind(client[k], want[k], FALSE)
          /\ bound' = Bound(client[k], want[k])
          /\ \/ Retry(k) /\ UNCHANGED bounds
             \/ /\ faults < MaxFaults
                /\ faults' = faults + 1
                /\ Refused(k)
                /\ UNCHANGED restarts
       \/ /\ ~MayBind(client[k], want[k], FALSE)
          /\ Refused(k)
          /\ UNCHANGED <<bound, bounds>>
    /\ UNCHANGED <<open, memory, history, arguments>>

(* Variant: a refused rebind is tried again, the memory stays. *)
ForgetNothing(k) ==
    /\ pc[k] = "refused"
    /\ Goto(k, FirstRequest(op[k]))
    /\ UNCHANGED <<memory, daemon, history, arguments, want, tries, result, bounds>>

(* Its catch: gone or held elsewhere, the call fails as it did. *)
Forget(k) ==
    /\ pc[k] = "refused"
    /\ memory' = [memory EXCEPT ![client[k]] = None]
    /\ Goto(k, "done")
    /\ UNCHANGED <<daemon, history, arguments, want, tries, result, bounds>>

(* currentIdentity, behind the caller's back; a failure is dropped. *)
Ask(k) ==
    /\ pc[k] = "ask"
    /\ \/ /\ Mine(k) # None
          /\ want' = [want EXCEPT ![k] = Mine(k)]
          /\ Goto(k, "learn")
       \/ Mine(k) = None /\ Goto(k, "done") /\ UNCHANGED want
    /\ UNCHANGED <<daemon, memory, history, arguments, tries, result, bounds>>

(* Variant: the whole answer is remembered, not its name. *)
LearnRow(k) ==
    /\ pc[k] = "learn"
    /\ memory' = [memory EXCEPT ![client[k]] = [name |-> want[k]]]
    /\ Goto(k, "done")
    /\ UNCHANGED <<daemon, history, arguments, want, tries, result, bounds>>

Learn(k) ==
    /\ pc[k] = "learn"
    /\ memory' = [memory EXCEPT ![client[k]] = want[k]]
    /\ Goto(k, "done")
    /\ UNCHANGED <<daemon, history, arguments, want, tries, result, bounds>>

------------------------------------------------------------------------------
(* The environment. *)

(* A restart loses every lease and keeps the identities. *)
Restart ==
    /\ restarts < MaxRestarts
    /\ restarts' = restarts + 1
    /\ bound' = [c \in Client |-> None]
    /\ UNCHANGED <<open, memory, history, arguments, progress, faults>>

(* The supervisor binds its managed clients, also after a restart. *)
SupervisorBind(c, n) ==
    /\ bound[c] = None
    /\ n \in Supervised[c]
    /\ MayBind(c, n, FALSE)
    /\ bound' = Bound(c, n)
    /\ chosen' = [chosen EXCEPT ![c] = @ \cup {n}]
    /\ wanted' = [wanted EXCEPT ![c] = n]
    /\ UNCHANGED <<open, memory, acts, since, arguments, progress, bounds>>

(* What a call does once it was made. *)
Step(k) ==
    \/ ResolveTarget(k) \/ Serve(k) \/ LoseRequest(k)
    \/ Settle(k) \/ Reassert(k) \/ Forget(k) \/ Ask(k) \/ Learn(k)

Next ==
    \/ \E k \in Call : Step(k)
    \/ \E w \in Workload : Begin(w)
    \/ Restart
    \/ \E c \in Managed, n \in Name : SupervisorBind(c, n)

Spec == Init /\ [][Next]_vars

(* Every request is answered or given up by the transport, and the event   *)
(* loop runs the continuation; users and restarts are under no obligation. *)
Fairness == \A k \in Call : WF_vars(Step(k))

FairSpec == Spec /\ Fairness

------------------------------------------------------------------------------
(* A tool takes effect at most once: what is repeated did nothing before   *)
(* ("there is no mutation to repeat").                                     *)
AtMostOnce == \A k \in Call : Len(acts[k]) <= 1

(* No call works as, closes, or is remembered to be an identity that the   *)
(* session was never bound to by its user or its supervisor, whatever      *)
(* rebinds, late answers and restarts lie between.                         *)
OnlyChosen ==
    /\ \A k \in Call : \A i \in DOMAIN acts[k] :
           acts[k][i].as \in chosen[client[k]]
    /\ \A c \in Client : memory[c] \in chosen[c] \cup {None}

(* The user of c let go of what c holds in this step. *)
Closes(c) == \E k \in Call : client[k] = c /\ pc[k] = "request"
                             /\ op[k] \in {"close", "choose"} /\ pc'[k] # pc[k]

(* A user forces c off its identity in this step. *)
Evicts(c) == \E k \in Call : /\ pc[k] = "request" /\ pc'[k] # pc[k]
                             /\ op[k] = "choose" /\ force[k] /\ name[k] = bound[c]

(* A binding is lost to a restart, to its own session or to a choice that  *)
(* a user forced: the silent rebind takes nothing from another session.    *)
EvictionIsForced == [][\A c \in Client :
    bound[c] # None /\ bound'[c] = None =>
        restarts' # restarts \/ Closes(c) \/ Evicts(c)]_vars

(* No tool call binds a managed client: only its supervisor does, also     *)
(* after a restart.                                                        *)
ManagedIsLeftAlone == [][\A c \in Managed :
    bound'[c] \notin {bound[c], None} => UNCHANGED pc]_vars

(* A call ends: the rebind happens once and a refused one does not loop.   *)
CallsEnd == \A k \in Call : pc[k] # "new" ~> pc[k] = "done"

(* The connector "knows what it bound": every call works as an identity    *)
(* its session was last bound to when the call began or when it took       *)
(* effect.                                                                 *)
ActsAsWanted == \A k \in Call : \A i \in DOMAIN acts[k] :
    acts[k][i].meant

------------------------------------------------------------------------------
(* The inductive invariant behind AtMostOnce and OnlyChosen: a call that   *)
(* may still be repeated did nothing yet, and what it is about to bind,    *)
(* close or remember was chosen by its session.                            *)
Untried(k) == \/ pc[k] \in {"new", "target", "request", "reassert", "refused"}
              \/ pc[k] = "answer" /\ result[k] = "notBound"

CallOK(k) ==
    /\ \A i \in DOMAIN acts[k] : acts[k][i].as \in chosen[client[k]]
    /\ Len(acts[k]) <= 1
    /\ Untried(k) => acts[k] = <<>>
    /\ pc[k] \in {"reassert", "learn"} => want[k] \in chosen[client[k]]
    /\ pc[k] = "request" /\ op[k] = "close" => name[k] \in chosen[client[k]]
    /\ client[k] \in Managed => op[k] = "act" /\ pc[k] # "reassert"

Remembered == \A c \in Client : {bound[c], memory[c]} \subseteq chosen[c] \cup {None}

IInv == TypeOK /\ Remembered /\ \A k \in Call : CallOK(k)
==============================================================================
