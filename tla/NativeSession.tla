---------------------------- MODULE NativeSession ----------------------------
(***************************************************************************)
(* packages/core/src/native-session.ts and session-guard.ts: the calls     *)
(* nativeClientForAtRoot ("client") and endNativeSessionAtRoot ("end") of  *)
(* several processes on shared record files.                               *)
(*                                                                         *)
(* A call is cut at every await.  Calls of one process on one record wait  *)
(* in line (the promise chain in `operations`); the head of the line takes *)
(* the record's cross-process guard with a SYNCHRONOUS SQLite transaction, *)
(* so a process that waits for a guard runs nothing else.  A process may   *)
(* crash at any point: its guards are dropped by the operating system, its *)
(* memory is lost, the record files and the daemon's leases stay.          *)
(*                                                                         *)
(* The daemon is external.  Its part here is the set of leased owners: an  *)
(* attach adds one, releaseLease drops one.  A failed request may or may   *)
(* not have had its effect.  A request does not outlive the process that   *)
(* made it.                                                                *)
(***************************************************************************)
EXTENDS Naturals

CONSTANTS
    Key,          \* record paths: one per daemon instance and native session
    Owner,        \* the UUIDs randomUUID() may return
    Proc,         \* processes that use the records
    Call,         \* slots for calls in progress
    ProcOf,       \* ProcOf[c]: the process that runs the calls of slot c
    NoOwner,      \* no owner: an absent record, an empty cache entry
    NoCall,       \* no call: a free guard, an empty line
    Workload,     \* the calls that may be made: <<slot, record, kind>>
    MaxStarts,    \* bound: how many calls are made
    MaxCrashes,   \* bound: how many crashes happen
    MaxFailures   \* bound: how many requests and file operations fail

ASSUME KeyAssumption == Key # {}
ASSUME ProcOfAssumption == ProcOf \in [Call -> Proc]
ASSUME NoOwnerAssumption == NoOwner \notin Owner
ASSUME NoCallAssumption == NoCall \notin Call
ASSUME WorkloadAssumption == Workload \subseteq Call \X Key \X {"client", "end"}
ASSUME BoundsAssumption == {MaxStarts, MaxCrashes, MaxFailures} \subseteq Nat

VARIABLES
    record,       \* record[k]: content of the record file ("none": absent)
    guard,        \* guard[k]: the call whose connection holds k's guard file
    tail,         \* tail[p][k]: the last call in line in p's `operations`
    clients,      \* clients[p][k]: owner of the client p caches for k
    lease,        \* the owners the daemon holds a lease for
    pc, op, key,  \* where a call is, what it is, and the record it is about
    pred,         \* pred[c]: the call whose gate c awaits
    own,          \* own[c]: the ownerInstanceId c works with
    issued,       \* history: issued[k] are the owners ever written to k
    starts, crashes, failures     \* the bounded counters

store == <<record, guard, lease, issued>>
memory == <<tail, clients>>
frame == <<pc, op, key, pred, own>>
bounds == <<starts, crashes, failures>>
vars == <<store, memory, frame, bounds>>

Records == [owner : Owner \cup {NoOwner},
            state : {"none", "active", "pending", "ended"}]

(* The pcs of a call between taking its guard and dropping it. *)
Guarded == {"read", "intend", "reattach", "release", "close", "recheck",
            "finish", "reread", "allocate", "attach", "return", "throw"}

(* Those at which it waits for the file system or for the daemon. *)
Awaiting == Guarded \ {"return", "throw"}

TypeOK ==
    /\ record \in [Key -> Records]
    /\ guard \in [Key -> Call \cup {NoCall}]
    /\ tail \in [Proc -> [Key -> Call \cup {NoCall}]]
    /\ clients \in [Proc -> [Key -> Owner \cup {NoOwner}]]
    /\ lease \in SUBSET Owner
    /\ pc \in [Call -> {"idle", "queued", "blocked"} \cup Guarded]
    /\ op \in [Call -> {"client", "end"}]
    /\ key \in [Call -> Key]
    /\ pred \in [Call -> Call \cup {NoCall}]
    /\ own \in [Call -> Owner \cup {NoOwner}]
    /\ issued \in [Key -> SUBSET Owner]
    /\ starts \in Nat
    /\ crashes \in Nat
    /\ failures \in Nat

Init ==
    /\ record = [k \in Key |-> [owner |-> NoOwner, state |-> "none"]]
    /\ guard = [k \in Key |-> NoCall]
    /\ tail = [p \in Proc |-> [k \in Key |-> NoCall]]
    /\ clients = [p \in Proc |-> [k \in Key |-> NoOwner]]
    /\ lease = {}
    /\ pc = [c \in Call |-> "idle"]
    /\ op = [c \in Call |-> "client"]
    /\ key = [c \in Call |-> CHOOSE k \in Key : TRUE]
    /\ pred = [c \in Call |-> NoCall]
    /\ own = [c \in Call |-> NoOwner]
    /\ issued = [k \in Key |-> {}]
    /\ starts = 0
    /\ crashes = 0
    /\ failures = 0

(* acquireSessionGuard waits inside SQLite: the event loop of p is held. *)
Stalled(p) == \E c \in Call : ProcOf[c] = p /\ pc[c] = "blocked"

Runs(c, label) == pc[c] = label /\ ~Stalled(ProcOf[c])

Goto(c, label) == pc' = [pc EXCEPT ![c] = label]

(* A step that succeeds, and one that took effect and still rejects: the   *)
(* chmod after a rename fails, the daemon's answer is lost.                *)
Done(c, label) == Goto(c, label) /\ UNCHANGED bounds

Throws(c) ==
    /\ failures < MaxFailures
    /\ failures' = failures + 1
    /\ Goto(c, "throw")
    /\ UNCHANGED <<starts, crashes>>

Cached(c) == clients[ProcOf[c]][key[c]]

SetCached(c, o) == clients' = [clients EXCEPT ![ProcOf[c]][key[c]] = o]

Current(c) == record[key[c]]

(* The record of selector k names this owner, in this state. *)
Names(k, o, s) == record[k].owner = o /\ record[k].state = s

Write(c, o, s) == record' = [record EXCEPT ![key[c]] = [owner |-> o, state |-> s]]

------------------------------------------------------------------------------
(* serialized: the line of one process, then the guard. *)

(* Variant: no line in the process, the guard alone orders the calls. *)
StartOutOfLine(c, k, o) ==
    /\ pc[c] = "idle" /\ ~Stalled(ProcOf[c])
    /\ starts < MaxStarts
    /\ starts' = starts + 1
    /\ Goto(c, "queued")
    /\ op' = [op EXCEPT ![c] = o]
    /\ key' = [key EXCEPT ![c] = k]
    /\ UNCHANGED <<store, memory, pred, own, crashes, failures>>

(* A call joins the line of its process for its record. *)
Start(c, k, o) ==
    /\ pc[c] = "idle" /\ ~Stalled(ProcOf[c])
    /\ starts < MaxStarts
    /\ starts' = starts + 1
    /\ Goto(c, "queued")
    /\ op' = [op EXCEPT ![c] = o]
    /\ key' = [key EXCEPT ![c] = k]
    /\ pred' = [pred EXCEPT ![c] = tail[ProcOf[c]][k]]
    /\ tail' = [tail EXCEPT ![ProcOf[c]][k] = c]
    /\ UNCHANGED <<store, clients, own, crashes, failures>>

(* Variant: the guard is opened but not waited for. *)
AskGuardUnchecked(c) ==
    /\ Runs(c, "queued")
    /\ pred[c] = NoCall
    /\ guard' = [guard EXCEPT ![key[c]] = c]
    /\ Goto(c, "read")
    /\ UNCHANGED <<record, lease, issued, memory, op, key, pred, own, bounds>>

(* Its predecessor has left: it opens the guard file and asks for the      *)
(* exclusive transaction, which it gets at once when the guard is free.    *)
AskGuard(c) ==
    /\ Runs(c, "queued")
    /\ pred[c] = NoCall
    /\ \/ /\ guard[key[c]] = NoCall
          /\ guard' = [guard EXCEPT ![key[c]] = c]
          /\ Goto(c, "read")
       \/ /\ guard[key[c]] # NoCall
          /\ Goto(c, "blocked")
          /\ UNCHANGED guard
    /\ UNCHANGED <<record, lease, issued, memory, op, key, pred, own, bounds>>

(* The guard came free within BUSY_TIMEOUT_MS. *)
TakeGuard(c) ==
    /\ pc[c] = "blocked"
    /\ guard[key[c]] = NoCall
    /\ guard' = [guard EXCEPT ![key[c]] = c]
    /\ Goto(c, "read")
    /\ UNCHANGED <<record, lease, issued, memory, op, key, pred, own, bounds>>

(* Variant: no busy timeout, the process waits for as long as it takes. *)
GuardWaitsForever(c) == pc[c] = "blocked" /\ guard[key[c]] = c /\ UNCHANGED vars

(* It did not: BEGIN EXCLUSIVE throws, and so does the call. *)
GuardTimeout(c) ==
    /\ pc[c] = "blocked"
    /\ guard[key[c]] # NoCall
    /\ Goto(c, "throw")
    /\ UNCHANGED <<store, memory, op, key, pred, own, bounds>>

(* The finally of serialized: drop the guard if it was taken, open the     *)
(* gate, leave the line.                                                   *)
Leave(c) ==
    /\ pc[c] \in {"return", "throw"} /\ ~Stalled(ProcOf[c])
    /\ Goto(c, "idle")
    /\ guard' = IF guard[key[c]] = c THEN [guard EXCEPT ![key[c]] = NoCall]
                                     ELSE guard
    /\ pred' = [d \in Call |-> IF pred[d] = c THEN NoCall ELSE pred[d]]
    /\ tail' = IF tail[ProcOf[c]][key[c]] = c
                 THEN [tail EXCEPT ![ProcOf[c]][key[c]] = NoCall]
                 ELSE tail
    /\ own' = [own EXCEPT ![c] = NoOwner]
    /\ UNCHANGED <<record, lease, issued, clients, op, key, bounds>>

------------------------------------------------------------------------------
(* The operations, under the guard. *)

(* releaseOwner goes through the cached client when it is the owner's own. *)
ReleaseStep(c, o) == IF Cached(c) = o THEN "release" ELSE "reattach"

(* Variant: a pending end is taken for an accomplished one. *)
ReadPendingAsEnded(c) ==
    /\ Runs(c, "read")
    /\ own' = [own EXCEPT ![c] = Current(c).owner]
    /\ \/ /\ Current(c).state = "active"
          /\ Goto(c, IF op[c] = "client" THEN "attach" ELSE "intend")
       \/ /\ Current(c).state # "active"
          /\ Goto(c, IF op[c] = "client" THEN "allocate" ELSE "return")
    /\ UNCHANGED <<store, memory, op, key, pred, bounds>>

(* Variant: an active owner is released without recording the intent. *)
ReadThenRelease(c) ==
    /\ Runs(c, "read")
    /\ own' = [own EXCEPT ![c] = Current(c).owner]
    /\ \/ /\ Current(c).state \in {"active", "pending"} /\ op[c] = "end"
          /\ Goto(c, ReleaseStep(c, Current(c).owner))
       \/ /\ Current(c).state = "pending" /\ op[c] = "client"
          /\ Goto(c, ReleaseStep(c, Current(c).owner))
       \/ /\ Current(c).state = "active" /\ op[c] = "client"
          /\ Goto(c, "attach")
       \/ /\ Current(c).state \in {"none", "ended"}
          /\ Goto(c, IF op[c] = "client" THEN "allocate" ELSE "return")
    /\ UNCHANGED <<store, memory, op, key, pred, bounds>>

Read(c) ==
    /\ Runs(c, "read")
    /\ own' = [own EXCEPT ![c] = Current(c).owner]
    /\ \/ /\ Current(c).state = "pending"
          /\ Goto(c, ReleaseStep(c, Current(c).owner))
       \/ /\ Current(c).state = "active"
          /\ Goto(c, IF op[c] = "client" THEN "attach" ELSE "intend")
       \/ /\ Current(c).state \in {"none", "ended"}
          /\ Goto(c, IF op[c] = "client" THEN "allocate" ELSE "return")
    /\ UNCHANGED <<store, memory, op, key, pred, bounds>>

(* Variant: the record is written without its state. *)
WriteIntentStateless(c) ==
    /\ Runs(c, "intend")
    /\ record' = [record EXCEPT ![key[c]] = [owner |-> own[c]]]
    /\ Done(c, ReleaseStep(c, own[c])) \/ Throws(c)
    /\ UNCHANGED <<guard, lease, issued, memory, op, key, pred, own>>

(* endNativeSessionAtRoot writes the terminal intent. *)
WriteIntent(c) ==
    /\ Runs(c, "intend")
    /\ Write(c, own[c], "pending")
    /\ Done(c, ReleaseStep(c, own[c])) \/ Throws(c)
    /\ UNCHANGED <<guard, lease, issued, memory, op, key, pred, own>>

(* releaseOwner without a cached client of that owner attaches one. *)
Reattach(c) ==
    /\ Runs(c, "reattach")
    /\ lease' = lease \cup {own[c]}
    /\ Done(c, "release") \/ Throws(c)
    /\ UNCHANGED <<record, guard, issued, memory, op, key, pred, own>>

(* releaseLease; the client attached for it is closed afterwards. *)
ReleaseLease(c) ==
    /\ Runs(c, "release")
    /\ lease' = lease \ {own[c]}
    /\ Done(c, IF Cached(c) = own[c] THEN "recheck" ELSE "close") \/ Throws(c)
    /\ UNCHANGED <<record, guard, issued, memory, op, key, pred, own>>

CloseClient(c) ==
    /\ Runs(c, "close")
    /\ Goto(c, "recheck")
    /\ UNCHANGED <<store, memory, op, key, pred, own, bounds>>

(* What finishPending's caller does next. *)
AfterFinish(c) == IF op[c] = "client" THEN "reread" ELSE "return"

(* The owner's cached client is dropped, synchronously. *)
DropCached(c) ==
    SetCached(c, IF Cached(c) = own[c] THEN NoOwner ELSE Cached(c))

(* finishPending reads the record again before it records the end. *)
Recheck(c) ==
    /\ Runs(c, "recheck")
    /\ \/ /\ Names(key[c], own[c], "pending")
          /\ Goto(c, "finish")
          /\ UNCHANGED clients
       \/ /\ ~Names(key[c], own[c], "pending")
          /\ Goto(c, AfterFinish(c))
          /\ DropCached(c)
    /\ UNCHANGED <<store, tail, op, key, pred, own, bounds>>

WriteEnded(c) ==
    /\ Runs(c, "finish")
    /\ Write(c, own[c], "ended")
    /\ \/ Done(c, AfterFinish(c)) /\ DropCached(c)
       \/ Throws(c) /\ UNCHANGED clients
    /\ UNCHANGED <<guard, lease, issued, tail, op, key, pred, own>>

(* nativeClientForAtRoot reads the record again; it only looks for an      *)
(* active one.                                                             *)
Reread(c) ==
    /\ Runs(c, "reread")
    /\ own' = [own EXCEPT ![c] = Current(c).owner]
    /\ Goto(c, IF Current(c).state = "active" THEN "attach" ELSE "allocate")
    /\ UNCHANGED <<store, memory, op, key, pred, bounds>>

(* randomUUID never returns an owner twice. *)
FreshOwners == {o \in Owner : \A k \in Key : o \notin issued[k]}

Allocate(c) ==
    /\ Runs(c, "allocate")
    /\ \E o \in FreshOwners :
          /\ Write(c, o, "active")
          /\ issued' = [issued EXCEPT ![key[c]] = @ \cup {o}]
          /\ own' = [own EXCEPT ![c] = o]
    /\ Done(c, "attach") \/ Throws(c)
    /\ UNCHANGED <<guard, lease, memory, op, key, pred>>

(* Variant: whatever client is cached is good. *)
AttachAnyCached(c) ==
    /\ Runs(c, "attach")
    /\ \/ /\ Cached(c) # NoOwner
          /\ Done(c, "return")
          /\ UNCHANGED <<lease, clients>>
       \/ /\ Cached(c) = NoOwner
          /\ lease' = lease \cup {own[c]}
          /\ \/ Done(c, "return") /\ SetCached(c, own[c])
             \/ Throws(c) /\ UNCHANGED clients
    /\ UNCHANGED <<record, guard, issued, tail, op, key, pred, own>>

(* cachedClient: the cached client of this owner as it is, or a new one in *)
(* the place of another owner's; a client that fails to attach is dropped. *)
AttachClient(c) ==
    /\ Runs(c, "attach")
    /\ \/ /\ Cached(c) = own[c]
          /\ Done(c, "return")
          /\ UNCHANGED <<lease, clients>>
       \/ /\ Cached(c) # own[c]
          /\ lease' = lease \cup {own[c]}
          /\ \/ Done(c, "return") /\ SetCached(c, own[c])
             \/ Throws(c) /\ SetCached(c, NoOwner)
    /\ UNCHANGED <<record, guard, issued, tail, op, key, pred, own>>

------------------------------------------------------------------------------
(* Failures. *)

(* An await rejects with no effect on the store or on the daemon. *)
Fail(c) ==
    /\ pc[c] \in Awaiting /\ ~Stalled(ProcOf[c])
    /\ pc[c] = "attach" => Cached(c) # own[c]
    /\ clients' = IF pc[c] = "attach"
                    THEN [clients EXCEPT ![ProcOf[c]][key[c]] = NoOwner]
                    ELSE clients
    /\ Throws(c)
    /\ UNCHANGED <<store, tail, op, key, pred, own>>

(* A process dies; the operating system closes its guard connections. *)
Crash(p) ==
    /\ crashes < MaxCrashes
    /\ crashes' = crashes + 1
    /\ pc' = [c \in Call |-> IF ProcOf[c] = p THEN "idle" ELSE pc[c]]
    /\ pred' = [c \in Call |-> IF ProcOf[c] = p THEN NoCall ELSE pred[c]]
    /\ own' = [c \in Call |-> IF ProcOf[c] = p THEN NoOwner ELSE own[c]]
    /\ guard' = [k \in Key |-> IF \E c \in Call : guard[k] = c /\ ProcOf[c] = p
                                 THEN NoCall ELSE guard[k]]
    /\ tail' = [tail EXCEPT ![p] = [k \in Key |-> NoCall]]
    /\ clients' = [clients EXCEPT ![p] = [k \in Key |-> NoOwner]]
    /\ UNCHANGED <<record, lease, issued, op, key, starts, failures>>

------------------------------------------------------------------------------
(* What the program itself does about a call, failures aside. *)
Advance(c) ==
    \/ AskGuard(c) \/ TakeGuard(c) \/ GuardTimeout(c) \/ Leave(c)
    \/ Read(c) \/ WriteIntent(c) \/ Reattach(c) \/ ReleaseLease(c)
    \/ CloseClient(c) \/ Recheck(c) \/ WriteEnded(c) \/ Reread(c)
    \/ Allocate(c) \/ AttachClient(c)

Next ==
    \/ \E w \in Workload : Start(w[1], w[2], w[3])
    \/ \E c \in Call :
          Advance(c) \/ Fail(c)
    \/ \E p \in Proc : Crash(p)

(* An await ends, well or badly, and a busy timeout expires. *)
Fairness == \A c \in Call : WF_vars(Advance(c))

Spec == Init /\ [][Next]_vars
FairSpec == Spec /\ Fairness

------------------------------------------------------------------------------
(* Safety. *)

(* No process waits in SQLite for a guard one of its own calls holds: the  *)
(* line of `operations` keeps a call from freezing the event loop its      *)
(* guard's holder needs.                                                   *)
NoSelfBlock ==
    \A c, d \in Call :
        pc[c] = "blocked" /\ guard[key[c]] = d => ProcOf[d] # ProcOf[c]

(* At most one owner of a selector holds a lease, and it is the one the    *)
(* record names: no owner is succeeded, across crashes, lost answers and   *)
(* processes, before the daemon let go of it ("A pending release is        *)
(* retried before any successor owner can be allocated").                  *)
OneLiveOwner ==
    \A k \in Key : \A o \in issued[k] \cap lease :
        record[k].owner = o /\ record[k].state # "ended"

(* A call of this kind is about to return. *)
Returns(c, kind) == pc[c] = "return" /\ op[c] = kind

(* A client call that returns has a client of the owner the record names   *)
(* as active, and the daemon still leases it: no other process ended the   *)
(* session between the read and the return, and no cached client of a      *)
(* retired owner is handed out.                                            *)
ReturnsCurrentOwner ==
    \A c \in Call :
        Returns(c, "client") =>
            /\ Names(key[c], own[c], "active")
            /\ Cached(c) = own[c]
            /\ own[c] \in lease

(* An end call that returns leaves no lease behind on its selector.        *)
EndReleases ==
    \A c \in Call :
        Returns(c, "end") => issued[key[c]] \cap lease = {}

(* The strengthening the proofs use. Owners are never shared, a cached     *)
(* client of an active owner is leased, and what a call read of the record *)
(* under its guard still holds.                                            *)
StoreInv ==
    /\ \A k, l \in Key : k # l => issued[k] \cap issued[l] = {}
    /\ \A k \in Key : record[k].state # "none" => record[k].owner \in issued[k]
    /\ \A k \in Key : record[k].state = "none" => record[k].owner = NoOwner

CacheInv ==
    \A p \in Proc, k \in Key : clients[p][k] # NoOwner =>
        /\ clients[p][k] \in issued[k]
        /\ Names(k, clients[p][k], "active") => clients[p][k] \in lease

(* The pcs at which a call holds its record's guard for sure.              *)
Holding == Guarded \ {"throw"}

(* Those after the daemon let go of the owner, before that is recorded.    *)
Releasing == {"close", "recheck", "finish"}

GuardInv == \A c \in Call : pc[c] \in Holding => guard[key[c]] = c

CallOK(c) ==
    /\ pc[c] \in {"attach", "allocate", "reread"} => op[c] = "client"
    /\ pc[c] \in {"intend", "attach"} => Names(key[c], own[c], "active")
    /\ pc[c] \in {"reattach", "release"} \cup Releasing
          => Names(key[c], own[c], "pending")
    /\ pc[c] \in Releasing => own[c] \notin lease
    /\ pc[c] \in {"reread", "allocate"} => Current(c).state \in {"none", "ended"}
    /\ Returns(c, "end") => Current(c).state \in {"none", "ended"}
    /\ Returns(c, "client") =>
          Names(key[c], own[c], "active") /\ Cached(c) = own[c]

IInv == /\ TypeOK /\ StoreInv /\ OneLiveOwner /\ CacheInv /\ GuardInv
        /\ \A c \in Call : CallOK(c)

(* A lease is dropped only once its owner's terminal intent is on disk:    *)
(* recycling an MCP process, failing or crashing never releases an owner.  *)
ReleaseNeedsIntent ==
    [][\A k \in Key : \A o \in issued[k] \cap lease :
          o \notin lease' => Names(k, o, "pending")]_vars

(* The owners follow their lifecycle. *)
Lifecycle == INSTANCE OwnerLifecycle
    WITH record <- record, lease <- lease, issued <- issued
LifecycleSpec == Lifecycle!Spec

(* Every call ends: no line, guard or pair of processes each frozen on the *)
(* guard the other one holds keeps it waiting for ever.                    *)
CallsEnd == \A c \in Call : pc[c] # "idle" ~> pc[c] = "idle"
==============================================================================
