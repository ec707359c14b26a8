------------------------ MODULE NativeSessionProofs ------------------------
(***************************************************************************)
(* Theorems about NativeSession for every set of records, owners,          *)
(* processes and calls, with any number of crashes and failures.           *)
(*                                                                         *)
(* The invariant IInv ties what a call knows to what is shared: a call     *)
(* under its guard still sees the record it read (CallOK), because guards  *)
(* are exclusive (GuardInv) and records do not share owners (StoreInv).    *)
(* LineInv orders the calls of a process on a record as they came: the     *)
(* head of that line is the only one that may wait for or hold its guard.  *)
(***************************************************************************)
EXTENDS NativeSession, TLAPS

(* The steps of a call under way. *)
Step(c) == Advance(c) \/ Fail(c)

(* The pcs at which a call works on the owner its record names. *)
Owning == {"intend", "attach", "reattach", "release"} \cup Releasing

(* A step leaves alone all that a call in progress relies on. *)
Untouched(d) ==
    /\ pc'[d] = pc[d] /\ op'[d] = op[d] /\ key'[d] = key[d] /\ own'[d] = own[d]
    /\ pc[d] \in Holding =>
          /\ guard'[key[d]] = guard[key[d]]
          /\ record'[key[d]] = record[key[d]]
          /\ clients'[ProcOf[d]][key[d]] = clients[ProcOf[d]][key[d]]
    /\ pc[d] \in Releasing /\ own[d] \notin lease => own[d] \notin lease'

(* While a call works on an owner under its guard, that owner is the one the *)
(* record names, it was issued to the record, and it has not ended.        *)
LEMMA OwnOwner ==
  ASSUME IInv, NEW c \in Call, pc[c] \in Owning
  PROVE  own[c] \in issued[key[c]] /\ own[c] \in Owner /\ own[c] = record[key[c]].owner
         /\ record[key[c]].state \in {"active", "pending"}
BY DEF IInv, TypeOK, StoreInv, CallOK, Names, Owning, Releasing

(* Two calls that hold guards work on different records, hence (owners are *)
(* never shared) on different owners.                                      *)
LEMMA Apart ==
  ASSUME IInv, NEW c \in Call, NEW d \in Call, c # d,
         pc[c] \in Holding, pc[d] \in Holding
  PROVE  /\ key[c] # key[d]
         /\ pc[c] \in Owning /\ pc[d] \in Releasing => own[c] # own[d]
<1>1. key[c] # key[d]
  BY DEF IInv, GuardInv
<1>2. ASSUME pc[c] \in Owning, pc[d] \in Releasing PROVE own[c] # own[d]
  <2>1. pc[d] \in Owning
    BY <1>2 DEF Owning
  <2>2. own[c] \in issued[key[c]] /\ own[d] \in issued[key[d]]
    BY <1>2, <2>1, OwnOwner
  <2> QED BY <1>1, <2>2 DEF IInv, StoreInv, TypeOK
<1> QED BY <1>1, <1>2

(* An owner was issued to one record only.                                 *)
LEMMA OneKey ==
  ASSUME IInv, NEW k \in Key, NEW l \in Key, NEW o \in issued[k], o \in issued[l]
  PROVE  k = l
BY DEF IInv, StoreInv

(* The invariants on files, leases and caches only depend on those variables. *)
LEMMA SameStore ==
  ASSUME IInv, UNCHANGED <<record, lease, issued, clients>>
  PROVE  StoreInv' /\ OneLiveOwner' /\ CacheInv'
BY DEF IInv, StoreInv, OneLiveOwner, CacheInv, Names

(* What a call knows of its record survives the steps that leave it untouched. *)
LEMMA Untouching ==
  ASSUME TypeOK, NEW d \in Call, Untouched(d), CallOK(d)
  PROVE  CallOK(d)'
BY ProcOfAssumption DEF Untouched, CallOK, Names, Cached, Current, Returns, Holding,
        Releasing, Guarded

(* The invariant after a step of c: the shared state, the other calls, and c. *)
LEMMA Assembled ==
  ASSUME IInv, NEW c \in Call, TypeOK', StoreInv', OneLiveOwner', CacheInv',
         GuardInv', \A d \in Call \ {c} : Untouched(d), CallOK(c)'
  PROVE  IInv'
BY Untouching DEF IInv

(* Storing an entry in a process's client cache changes that entry alone.  *)
LEMMA CacheStep ==
  ASSUME TypeOK, NEW c \in Call, NEW o \in Owner \cup {NoOwner}, SetCached(c, o)
  PROVE  /\ clients' \in [Proc -> [Key -> Owner \cup {NoOwner}]]
         /\ \A p \in Proc, k \in Key :
               clients'[p][k] = IF p = ProcOf[c] /\ k = key[c] THEN o ELSE clients[p][k]
<1>1. ProcOf[c] \in Proc /\ key[c] \in Key
  BY ProcOfAssumption DEF TypeOK
<1> QED BY <1>1 DEF SetCached, TypeOK

(* Dropping the cached client of an owner empties at most that entry.      *)
LEMMA CacheDrop ==
  ASSUME TypeOK, NEW c \in Call, DropCached(c) \/ UNCHANGED clients
  PROVE  /\ clients' \in [Proc -> [Key -> Owner \cup {NoOwner}]]
         /\ \A p \in Proc, k \in Key :
               /\ clients'[p][k] \in {clients[p][k], NoOwner}
               /\ k # key[c] => clients'[p][k] = clients[p][k]
<1>1. CASE UNCHANGED clients
  BY <1>1 DEF TypeOK
<1>2. CASE DropCached(c)
  <2>1. Cached(c) \in Owner \cup {NoOwner} /\ ProcOf[c] \in Proc /\ key[c] \in Key
    BY ProcOfAssumption DEF Cached, TypeOK
  <2>2. (IF Cached(c) = own[c] THEN NoOwner ELSE Cached(c)) \in Owner \cup {NoOwner}
    BY <2>1
  <2> QED BY <1>2, <2>1, <2>2, CacheStep DEF DropCached, Cached
<1> QED BY <1>1, <1>2

(* A step of a call that succeeds or throws keeps the types of what it counts. *)
LEMMA Outcome ==
  ASSUME TypeOK, NEW c \in Call, NEW label \in {"idle", "queued", "blocked"} \cup Guarded,
         Done(c, label) \/ Throws(c)
  PROVE  /\ pc' \in [Call -> {"idle", "queued", "blocked"} \cup Guarded]
         /\ starts' \in Nat /\ crashes' \in Nat /\ failures' \in Nat
<1>1. CASE Done(c, label)
  BY <1>1 DEF Done, Goto, TypeOK, bounds
<1>2. CASE Throws(c)
  BY <1>2 DEF Throws, Goto, TypeOK, Guarded
<1> QED BY <1>1, <1>2

(* A step of a call keeps the types: what it leases and caches is an owner *)
(* because of the record it read, not of its own type.                     *)
LEMMA TypeStep ==
  ASSUME IInv, NEW c \in Call, Step(c)
  PROVE  TypeOK'
<1> USE ProcOfAssumption, NoOwnerAssumption, NoCallAssumption DEF TypeOK, Records,
        Guarded, Awaiting, Runs, Goto, Cached, Current, Write, ReleaseStep,
          AfterFinish, FreshOwners, store, memory, frame, bounds
<1>0. TypeOK
  BY DEF IInv
<1>1. CASE AskGuard(c)
  <2>1. CASE guard[key[c]] = NoCall
    <3>1. guard' \in [Key -> Call \cup {NoCall}]
      BY <1>0, <1>1, <2>1 DEF AskGuard
    <3> QED BY <1>0, <1>1, <2>1, <3>1 DEF AskGuard
  <2>2. CASE guard[key[c]] # NoCall
    BY <1>0, <1>1, <2>2 DEF AskGuard
  <2> QED BY <2>1, <2>2
<1>2. CASE TakeGuard(c)
  BY <1>0, <1>2 DEF TakeGuard
<1>3. CASE GuardTimeout(c)
  BY <1>0, <1>3 DEF GuardTimeout
<1>4. CASE Leave(c)
  BY <1>0, <1>4 DEF Leave
<1>5. CASE Read(c)
  BY <1>0, <1>5 DEF Read
<1>6. CASE WriteIntent(c)
  <2>1. Done(c, ReleaseStep(c, own[c])) \/ Throws(c)
    BY <1>6 DEF WriteIntent
  <2>2. /\ pc' \in [Call -> {"idle", "queued", "blocked"} \cup Guarded]
        /\ starts' \in Nat /\ crashes' \in Nat /\ failures' \in Nat
    BY <1>0, <2>1, Outcome
  <2> QED BY <1>0, <1>6, <2>2 DEF WriteIntent
<1>7. CASE Reattach(c)
  <2>owner. own[c] \in Owner
    BY <1>7, OwnOwner DEF Reattach, Owning, Releasing
  <2>1. Done(c, "release") \/ Throws(c)
    BY <1>7 DEF Reattach
  <2>2. /\ pc' \in [Call -> {"idle", "queued", "blocked"} \cup Guarded]
        /\ starts' \in Nat /\ crashes' \in Nat /\ failures' \in Nat
    BY <1>0, <2>1, Outcome
  <2> QED BY <1>0, <1>7, <2>2, <2>owner DEF Reattach
<1>8. CASE ReleaseLease(c)
  <2>1. Done(c, IF Cached(c) = own[c] THEN "recheck" ELSE "close") \/ Throws(c)
    BY <1>8 DEF ReleaseLease
  <2>2. /\ pc' \in [Call -> {"idle", "queued", "blocked"} \cup Guarded]
        /\ starts' \in Nat /\ crashes' \in Nat /\ failures' \in Nat
    BY <1>0, <2>1, Outcome
  <2> QED BY <1>0, <1>8, <2>2 DEF ReleaseLease
<1>9. CASE CloseClient(c)
  BY <1>0, <1>9 DEF CloseClient
<1>10. CASE Recheck(c)
  <2>1. clients' \in [Proc -> [Key -> Owner \cup {NoOwner}]]
    BY <1>0, <1>10, CacheDrop DEF Recheck
  <2>2. pc' \in [Call -> {"idle", "queued", "blocked"} \cup Guarded]
    BY <1>0, <1>10 DEF Recheck
  <2> QED BY <1>0, <1>10, <2>1, <2>2 DEF Recheck
<1>11. CASE WriteEnded(c)
  <2>1. Done(c, AfterFinish(c)) \/ Throws(c)
    BY <1>11 DEF WriteEnded
  <2>2. /\ pc' \in [Call -> {"idle", "queued", "blocked"} \cup Guarded]
        /\ starts' \in Nat /\ crashes' \in Nat /\ failures' \in Nat
    BY <1>0, <2>1, Outcome
  <2>3. clients' \in [Proc -> [Key -> Owner \cup {NoOwner}]]
    BY <1>0, <1>11, CacheDrop DEF WriteEnded
  <2> QED BY <1>0, <1>11, <2>2, <2>3 DEF WriteEnded
<1>12. CASE Reread(c)
  BY <1>0, <1>12 DEF Reread
<1>13. CASE Allocate(c)
  <2>1. Done(c, "attach") \/ Throws(c)
    BY <1>13 DEF Allocate
  <2>2. /\ pc' \in [Call -> {"idle", "queued", "blocked"} \cup Guarded]
        /\ starts' \in Nat /\ crashes' \in Nat /\ failures' \in Nat
    BY <1>0, <2>1, Outcome
  <2>3. PICK o \in Owner : /\ Write(c, o, "active")
                           /\ issued' = [issued EXCEPT ![key[c]] = @ \cup {o}]
                           /\ own' = [own EXCEPT ![c] = o]
    BY <1>13 DEF Allocate
  <2>4. record' \in [Key -> Records]
    BY <1>0, <2>3
  <2>5. issued' \in [Key -> SUBSET Owner] /\ own' \in [Call -> Owner \cup {NoOwner}]
    BY <1>0, <2>3
  <2> QED BY <1>0, <1>13, <2>2, <2>4, <2>5 DEF Allocate
<1>14. CASE AttachClient(c)
  <2>owner. own[c] \in Owner
    BY <1>14, OwnOwner DEF AttachClient, Owning, Releasing
  <2>1. Done(c, "return") \/ Throws(c)
    BY <1>14 DEF AttachClient
  <2>2. /\ pc' \in [Call -> {"idle", "queued", "blocked"} \cup Guarded]
        /\ starts' \in Nat /\ crashes' \in Nat /\ failures' \in Nat
    BY <1>0, <2>1, Outcome
  <2>3. clients' \in [Proc -> [Key -> Owner \cup {NoOwner}]]
    BY <1>0, <1>14, <2>owner, CacheStep DEF AttachClient
  <2> QED BY <1>0, <1>14, <2>2, <2>owner, <2>3 DEF AttachClient
<1>15. CASE Fail(c)
  <2>1. Done(c, "throw") \/ Throws(c)
    BY <1>15 DEF Fail
  <2>2. /\ pc' \in [Call -> {"idle", "queued", "blocked"} \cup Guarded]
        /\ starts' \in Nat /\ crashes' \in Nat /\ failures' \in Nat
    BY <1>0, <2>1, Outcome
  <2> QED BY <1>0, <1>15, <2>2 DEF Fail
<1> QED BY <1>1, <1>2, <1>3, <1>4, <1>5, <1>6, <1>7, <1>8, <1>9, <1>10, <1>11, <1>12,
        <1>13, <1>14, <1>15 DEF Step, Advance

(* A step of a call under way preserves the invariant, one action at a time. *)
LEMMA InvStep ==
  ASSUME IInv, NEW c \in Call, Step(c)
  PROVE  IInv'
<1> USE ProcOfAssumption, NoOwnerAssumption, NoCallAssumption DEF Runs, Goto, Cached,
        Current, Write, ReleaseStep, AfterFinish, FreshOwners, Done, Throws, store,
          memory, frame, bounds
<1>0. TypeOK'
  BY TypeStep
<1>1. CASE AskGuard(c)
  <2>1. StoreInv' /\ OneLiveOwner' /\ CacheInv'
    BY <1>1, SameStore DEF AskGuard
  <2>4. GuardInv'
    <3>1. CASE guard[key[c]] = NoCall
      BY <1>1, <3>1, SMTT(30) DEF AskGuard, IInv, TypeOK, GuardInv, Holding, Guarded
    <3>2. CASE guard[key[c]] # NoCall
      BY <1>1, <3>2 DEF AskGuard, IInv, TypeOK, GuardInv, Holding, Guarded
    <3> QED BY <3>1, <3>2
  <2>5. ASSUME NEW d \in Call, d # c PROVE Untouched(d)
    BY <1>1, <2>5 DEF AskGuard, IInv, TypeOK, Untouched, GuardInv
  <2>6. CallOK(c)'
    BY <1>1 DEF AskGuard, IInv, TypeOK, StoreInv, CallOK, Names, Returns, Releasing
  <2> QED BY <1>0, <2>1, <2>4, <2>5, <2>6, Assembled
<1>2. CASE TakeGuard(c)
  <2>1. StoreInv' /\ OneLiveOwner' /\ CacheInv'
    BY <1>2, SameStore DEF TakeGuard
  <2>4. GuardInv'
    BY <1>2 DEF TakeGuard, IInv, TypeOK, GuardInv, Holding, Guarded
  <2>5. ASSUME NEW d \in Call, d # c PROVE Untouched(d)
    BY <1>2, <2>5 DEF TakeGuard, IInv, TypeOK, Untouched, GuardInv
  <2>6. CallOK(c)'
    BY <1>2 DEF TakeGuard, IInv, TypeOK, StoreInv, CallOK, Names, Returns, Releasing
  <2> QED BY <1>0, <2>1, <2>4, <2>5, <2>6, Assembled
<1>3. CASE GuardTimeout(c)
  <2>1. StoreInv' /\ OneLiveOwner' /\ CacheInv'
    BY <1>3, SameStore DEF GuardTimeout
  <2>4. GuardInv'
    BY <1>3 DEF GuardTimeout, IInv, TypeOK, GuardInv, Holding, Guarded
  <2>5. ASSUME NEW d \in Call, d # c PROVE Untouched(d)
    BY <1>3, <2>5 DEF GuardTimeout, IInv, TypeOK, Untouched, GuardInv
  <2>6. CallOK(c)'
    BY <1>3 DEF GuardTimeout, IInv, TypeOK, StoreInv, CallOK, Names, Returns, Releasing
  <2> QED BY <1>0, <2>1, <2>4, <2>5, <2>6, Assembled
<1>4. CASE Leave(c)
  <2>1. StoreInv' /\ OneLiveOwner' /\ CacheInv'
    BY <1>4, SameStore DEF Leave
  <2>4. GuardInv'
    BY <1>4 DEF Leave, IInv, TypeOK, GuardInv, Holding, Guarded
  <2>5. ASSUME NEW d \in Call, d # c PROVE Untouched(d)
    BY <1>4, <2>5 DEF Leave, IInv, TypeOK, Untouched, GuardInv
  <2>6. CallOK(c)'
    BY <1>4 DEF Leave, IInv, TypeOK, StoreInv, CallOK, Names, Returns, Releasing
  <2> QED BY <1>0, <2>1, <2>4, <2>5, <2>6, Assembled
<1>5. CASE Read(c)
  <2>held. pc[c] \in Holding
    BY <1>5 DEF Read, Holding, Guarded, Awaiting
  <2>apart. \A d \in Call : d # c /\ pc[d] \in Holding => key[d] # key[c]
    BY <2>held, Apart
  <2>1. StoreInv' /\ OneLiveOwner' /\ CacheInv'
    BY <1>5, SameStore DEF Read
  <2>4. GuardInv'
    BY <1>5, SMTT(30) DEF Read, IInv, TypeOK, GuardInv, Holding, Guarded
  <2>5. ASSUME NEW d \in Call, d # c PROVE Untouched(d)
    BY <1>5, <2>apart, <2>5 DEF Read, IInv, TypeOK, Untouched
  <2>6. CallOK(c)'
    <3>1. CASE op[c] = "client"
      BY <1>5, <3>1 DEF Read, IInv, TypeOK, StoreInv, CallOK, Names, Returns, Releasing
    <3>2. CASE op[c] = "end"
      BY <1>5, <3>2 DEF Read, IInv, TypeOK, StoreInv, CallOK, Names, Returns, Releasing
    <3> QED BY <3>1, <3>2 DEF IInv, TypeOK
  <2> QED BY <1>0, <2>1, <2>4, <2>5, <2>6, Assembled
<1>6. CASE WriteIntent(c)
  <2>held. pc[c] \in Holding
    BY <1>6 DEF WriteIntent, Holding, Guarded, Awaiting
  <2>apart. \A d \in Call : d # c /\ pc[d] \in Holding => key[d] # key[c]
    BY <2>held, Apart
  <2>owning. pc[c] \in Owning
    BY <1>6 DEF WriteIntent, Owning, Releasing
  <2>distinct. \A d \in Call : d # c /\ pc[d] \in Releasing => own[d] # own[c]
    BY <2>held, <2>owning, Apart DEF Holding, Releasing, Guarded
  <2>owner. /\ own[c] \in issued[key[c]] /\ own[c] \in Owner
        /\ own[c] = record[key[c]].owner
        /\ record[key[c]].state \in {"active", "pending"}
    BY <2>owning, OwnOwner
  <2>1. StoreInv'
    BY <1>6, <2>owner DEF WriteIntent, IInv, TypeOK, StoreInv
  <2>2. OneLiveOwner'
    BY <1>6, <2>owner DEF WriteIntent, IInv, TypeOK, StoreInv, OneLiveOwner, CallOK
  <2>3. CacheInv'
    BY <1>6, <2>owner, <1>0 DEF WriteIntent, IInv, TypeOK, StoreInv, CacheInv, CallOK, Names
  <2>4. GuardInv'
    BY <1>6 DEF WriteIntent, IInv, TypeOK, GuardInv, Holding, Guarded
  <2>5. ASSUME NEW d \in Call, d # c PROVE Untouched(d)
    BY <1>6, <2>apart, <2>distinct, <2>5 DEF WriteIntent, IInv, TypeOK, Untouched
  <2>6. CallOK(c)'
    BY <1>6, <2>owner DEF WriteIntent, IInv, TypeOK, StoreInv, CallOK, Names, Returns,
            Releasing
  <2> QED BY <1>0, <2>1, <2>2, <2>3, <2>4, <2>5, <2>6, Assembled
<1>7. CASE Reattach(c)
  <2>held. pc[c] \in Holding
    BY <1>7 DEF Reattach, Holding, Guarded, Awaiting
  <2>apart. \A d \in Call : d # c /\ pc[d] \in Holding => key[d] # key[c]
    BY <2>held, Apart
  <2>owning. pc[c] \in Owning
    BY <1>7 DEF Reattach, Owning, Releasing
  <2>distinct. \A d \in Call : d # c /\ pc[d] \in Releasing => own[d] # own[c]
    BY <2>held, <2>owning, Apart DEF Holding, Releasing, Guarded
  <2>owner. /\ own[c] \in issued[key[c]] /\ own[c] \in Owner
        /\ own[c] = record[key[c]].owner
        /\ record[key[c]].state \in {"active", "pending"}
    BY <2>owning, OwnOwner
  <2>1. StoreInv'
    BY <1>7, <2>owner DEF Reattach, IInv, TypeOK, StoreInv
  <2>2. OneLiveOwner'
    <3> SUFFICES ASSUME NEW k \in Key, NEW o \in issued[k] \cap lease'
                 PROVE  record[k].owner = o /\ record[k].state # "ended"
      BY <1>7 DEF Reattach, OneLiveOwner
    <3>1. CASE o \in lease
      BY <3>1 DEF IInv, OneLiveOwner
    <3>2. CASE o = own[c]
      BY <2>owner, <3>2, OneKey DEF IInv, TypeOK
    <3> QED BY <1>7, <3>1, <3>2 DEF Reattach
  <2>3. CacheInv'
    BY <1>7, <2>owner, <1>0 DEF Reattach, IInv, TypeOK, StoreInv, CacheInv, CallOK, Names
  <2>4. GuardInv'
    BY <1>7 DEF Reattach, IInv, TypeOK, GuardInv, Holding, Guarded
  <2>5. ASSUME NEW d \in Call, d # c PROVE Untouched(d)
    BY <1>7, <2>apart, <2>distinct, <2>5 DEF Reattach, IInv, TypeOK, Untouched
  <2>6. CallOK(c)'
    BY <1>7, <2>owner DEF Reattach, IInv, TypeOK, StoreInv, CallOK, Names, Returns,
            Releasing
  <2> QED BY <1>0, <2>1, <2>2, <2>3, <2>4, <2>5, <2>6, Assembled
<1>8. CASE ReleaseLease(c)
  <2>held. pc[c] \in Holding
    BY <1>8 DEF ReleaseLease, Holding, Guarded, Awaiting
  <2>apart. \A d \in Call : d # c /\ pc[d] \in Holding => key[d] # key[c]
    BY <2>held, Apart
  <2>owning. pc[c] \in Owning
    BY <1>8 DEF ReleaseLease, Owning, Releasing
  <2>distinct. \A d \in Call : d # c /\ pc[d] \in Releasing => own[d] # own[c]
    BY <2>held, <2>owning, Apart DEF Holding, Releasing, Guarded
  <2>owner. /\ own[c] \in issued[key[c]] /\ own[c] \in Owner
        /\ own[c] = record[key[c]].owner
        /\ record[key[c]].state \in {"active", "pending"}
    BY <2>owning, OwnOwner
  <2>1. StoreInv'
    BY <1>8, <2>owner DEF ReleaseLease, IInv, TypeOK, StoreInv
  <2>2. OneLiveOwner'
    BY <1>8, <2>owner DEF ReleaseLease, IInv, TypeOK, StoreInv, OneLiveOwner, CallOK
  <2>3. CacheInv'
    <3> SUFFICES ASSUME NEW p \in Proc, NEW k \in Key, clients[p][k] # NoOwner
                 PROVE  /\ clients[p][k] \in issued[k]
                        /\ Names(k, clients[p][k], "active") => clients[p][k] \in lease'
      BY <1>8 DEF ReleaseLease, CacheInv, Names
    <3>1. Names(key[c], own[c], "pending")
      BY <1>8 DEF ReleaseLease, IInv, CallOK
    <3>2. clients[p][k] = own[c] => k = key[c]
      BY <2>owner, OneKey DEF IInv, CacheInv, TypeOK
    <3> QED BY <1>8, <3>1, <3>2 DEF ReleaseLease, IInv, CacheInv, Names
  <2>4. GuardInv'
    BY <1>8 DEF ReleaseLease, IInv, TypeOK, GuardInv, Holding, Guarded
  <2>5. ASSUME NEW d \in Call, d # c PROVE Untouched(d)
    BY <1>8, <2>apart, <2>distinct, <2>5 DEF ReleaseLease, IInv, TypeOK, Untouched
  <2>6. CallOK(c)'
    BY <1>8, <2>owner DEF ReleaseLease, IInv, TypeOK, StoreInv, CallOK, Names, Returns,
            Releasing
  <2> QED BY <1>0, <2>1, <2>2, <2>3, <2>4, <2>5, <2>6, Assembled
<1>9. CASE CloseClient(c)
  <2>held. pc[c] \in Holding
    BY <1>9 DEF CloseClient, Holding, Guarded, Awaiting
  <2>apart. \A d \in Call : d # c /\ pc[d] \in Holding => key[d] # key[c]
    BY <2>held, Apart
  <2>owning. pc[c] \in Owning
    BY <1>9 DEF CloseClient, Owning, Releasing
  <2>distinct. \A d \in Call : d # c /\ pc[d] \in Releasing => own[d] # own[c]
    BY <2>held, <2>owning, Apart DEF Holding, Releasing, Guarded
  <2>owner. /\ own[c] \in issued[key[c]] /\ own[c] \in Owner
        /\ own[c] = record[key[c]].owner
        /\ record[key[c]].state \in {"active", "pending"}
    BY <2>owning, OwnOwner
  <2>1. StoreInv' /\ OneLiveOwner' /\ CacheInv'
    BY <1>9, SameStore DEF CloseClient
  <2>4. GuardInv'
    BY <1>9 DEF CloseClient, IInv, TypeOK, GuardInv, Holding, Guarded
  <2>5. ASSUME NEW d \in Call, d # c PROVE Untouched(d)
    BY <1>9, <2>apart, <2>distinct, <2>5 DEF CloseClient, IInv, TypeOK, Untouched
  <2>6. CallOK(c)'
    BY <1>9, <2>owner DEF CloseClient, IInv, TypeOK, StoreInv, CallOK, Names, Returns,
            Releasing
  <2> QED BY <1>0, <2>1, <2>4, <2>5, <2>6, Assembled
<1>10. CASE Recheck(c)
  <2>held. pc[c] \in Holding
    BY <1>10 DEF Recheck, Holding, Guarded, Awaiting
  <2>apart. \A d \in Call : d # c /\ pc[d] \in Holding => key[d] # key[c]
    BY <2>held, Apart
  <2>owning. pc[c] \in Owning
    BY <1>10 DEF Recheck, Owning, Releasing
  <2>distinct. \A d \in Call : d # c /\ pc[d] \in Releasing => own[d] # own[c]
    BY <2>held, <2>owning, Apart DEF Holding, Releasing, Guarded
  <2>owner. /\ own[c] \in issued[key[c]] /\ own[c] \in Owner
        /\ own[c] = record[key[c]].owner
        /\ record[key[c]].state \in {"active", "pending"}
    BY <2>owning, OwnOwner
  <2>1. StoreInv'
    BY <1>10, <2>owner DEF Recheck, IInv, TypeOK, StoreInv
  <2>2. OneLiveOwner'
    BY <1>10, <2>owner DEF Recheck, IInv, TypeOK, StoreInv, OneLiveOwner, CallOK
  <2>3. CacheInv'
    <3>1. \A p \in Proc, k \in Key : clients'[p][k] \in {clients[p][k], NoOwner}
      BY <1>10, CacheDrop DEF Recheck, IInv
    <3> QED BY <1>10, <3>1 DEF Recheck, IInv, CacheInv, Names
  <2>4. GuardInv'
    BY <1>10 DEF Recheck, IInv, TypeOK, GuardInv, Holding, Guarded
  <2>5. ASSUME NEW d \in Call, d # c PROVE Untouched(d)
    <3>1. d # c /\ pc[d] \in Holding => key[d] # key[c]
      BY <2>apart
    <3>2. pc[d] \in Holding =>
            clients'[ProcOf[d]][key[d]] = clients[ProcOf[d]][key[d]]
      BY <1>10, <2>5, <3>1, CacheDrop DEF Recheck, IInv, TypeOK
    <3>3. pc'[d] = pc[d]
      BY <1>10, <2>5 DEF Recheck, IInv, TypeOK
    <3> QED BY <1>10, <3>2, <3>3 DEF Recheck, Untouched
  <2>6. CallOK(c)'
    BY <1>10, <2>owner DEF Recheck, IInv, TypeOK, StoreInv, CallOK, Names, Returns,
            Releasing
  <2> QED BY <1>0, <2>1, <2>2, <2>3, <2>4, <2>5, <2>6, Assembled
<1>11. CASE WriteEnded(c)
  <2>held. pc[c] \in Holding
    BY <1>11 DEF WriteEnded, Holding, Guarded, Awaiting
  <2>apart. \A d \in Call : d # c /\ pc[d] \in Holding => key[d] # key[c]
    BY <2>held, Apart
  <2>owning. pc[c] \in Owning
    BY <1>11 DEF WriteEnded, Owning, Releasing
  <2>distinct. \A d \in Call : d # c /\ pc[d] \in Releasing => own[d] # own[c]
    BY <2>held, <2>owning, Apart DEF Holding, Releasing, Guarded
  <2>owner. /\ own[c] \in issued[key[c]] /\ own[c] \in Owner
        /\ own[c] = record[key[c]].owner
        /\ record[key[c]].state \in {"active", "pending"}
    BY <2>owning, OwnOwner
  <2>1. StoreInv'
    BY <1>11, <2>owner DEF WriteEnded, IInv, TypeOK, StoreInv
  <2>2. OneLiveOwner'
    <3>1. own[c] \notin lease
      BY <1>11 DEF WriteEnded, IInv, CallOK, Releasing
    <3>2. issued[key[c]] \cap lease = {}
      BY <2>owner, <3>1 DEF IInv, OneLiveOwner, TypeOK
    <3> QED BY <1>11, <3>2 DEF WriteEnded, IInv, TypeOK, OneLiveOwner
  <2>3. CacheInv'
    <3>1. \A p \in Proc, k \in Key : clients'[p][k] \in {clients[p][k], NoOwner}
      BY <1>11, CacheDrop DEF WriteEnded, IInv
    <3> QED BY <1>11, <3>1, <1>0 DEF WriteEnded, IInv, TypeOK, CacheInv, Names
  <2>4. GuardInv'
    BY <1>11 DEF WriteEnded, IInv, TypeOK, GuardInv, Holding, Guarded
  <2>5. ASSUME NEW d \in Call, d # c PROVE Untouched(d)
    <3>1. pc[d] \in Holding => key[d] # key[c]
      BY <2>5, <2>apart
    <3>2. pc[d] \in Holding =>
            clients'[ProcOf[d]][key[d]] = clients[ProcOf[d]][key[d]]
      BY <1>11, <3>1, CacheDrop DEF WriteEnded, IInv, TypeOK
    <3> QED BY <1>11, <2>5, <3>1, <3>2 DEF WriteEnded, IInv, TypeOK, Untouched
  <2>6. CallOK(c)'
    BY <1>11, <2>owner DEF WriteEnded, IInv, TypeOK, StoreInv, CallOK, Names, Returns,
            Releasing
  <2> QED BY <1>0, <2>1, <2>2, <2>3, <2>4, <2>5, <2>6, Assembled
<1>12. CASE Reread(c)
  <2>held. pc[c] \in Holding
    BY <1>12 DEF Reread, Holding, Guarded, Awaiting
  <2>apart. \A d \in Call : d # c /\ pc[d] \in Holding => key[d] # key[c]
    BY <2>held, Apart
  <2>1. StoreInv' /\ OneLiveOwner' /\ CacheInv'
    BY <1>12, SameStore DEF Reread
  <2>4. GuardInv'
    BY <1>12 DEF Reread, IInv, TypeOK, GuardInv, Holding, Guarded
  <2>5. ASSUME NEW d \in Call, d # c PROVE Untouched(d)
    BY <1>12, <2>apart, <2>5 DEF Reread, IInv, TypeOK, Untouched
  <2>6. CallOK(c)'
    BY <1>12 DEF Reread, IInv, TypeOK, StoreInv, CallOK, Names, Returns, Releasing
  <2> QED BY <1>0, <2>1, <2>4, <2>5, <2>6, Assembled
<1>13. CASE Allocate(c)
  <2>held. pc[c] \in Holding
    BY <1>13 DEF Allocate, Holding, Guarded, Awaiting
  <2>apart. \A d \in Call : d # c /\ pc[d] \in Holding => key[d] # key[c]
    BY <2>held, Apart
  <2>1. StoreInv'
    BY <1>13 DEF Allocate, IInv, TypeOK, StoreInv
  <2>2. OneLiveOwner'
    BY <1>13 DEF Allocate, IInv, TypeOK, StoreInv, OneLiveOwner, CallOK
  <2>3. CacheInv'
    BY <1>13, <1>0 DEF Allocate, IInv, TypeOK, StoreInv, CacheInv, CallOK, Names
  <2>4. GuardInv'
    BY <1>13, SMTT(30) DEF Allocate, IInv, TypeOK, GuardInv, Holding, Guarded
  <2>5. ASSUME NEW d \in Call, d # c PROVE Untouched(d)
    BY <1>13, <2>apart, <2>5 DEF Allocate, IInv, TypeOK, Untouched
  <2>6. CallOK(c)'
    BY <1>13 DEF Allocate, IInv, TypeOK, StoreInv, CallOK, Names, Returns, Releasing
  <2> QED BY <1>0, <2>1, <2>2, <2>3, <2>4, <2>5, <2>6, Assembled
<1>14. CASE AttachClient(c)
  <2>held. pc[c] \in Holding
    BY <1>14 DEF AttachClient, Holding, Guarded, Awaiting
  <2>apart. \A d \in Call : d # c /\ pc[d] \in Holding => key[d] # key[c]
    BY <2>held, Apart
  <2>owning. pc[c] \in Owning
    BY <1>14 DEF AttachClient, Owning, Releasing
  <2>distinct. \A d \in Call : d # c /\ pc[d] \in Releasing => own[d] # own[c]
    BY <2>held, <2>owning, Apart DEF Holding, Releasing, Guarded
  <2>owner. /\ own[c] \in issued[key[c]] /\ own[c] \in Owner
        /\ own[c] = record[key[c]].owner
        /\ record[key[c]].state \in {"active", "pending"}
    BY <2>owning, OwnOwner
  <2>1. StoreInv'
    BY <1>14, <2>owner DEF AttachClient, IInv, TypeOK, StoreInv
  <2>2. OneLiveOwner'
    <3> SUFFICES ASSUME NEW k \in Key, NEW o \in issued[k] \cap lease'
                 PROVE  record[k].owner = o /\ record[k].state # "ended"
      BY <1>14 DEF AttachClient, OneLiveOwner
    <3>1. CASE o \in lease
      BY <3>1 DEF IInv, OneLiveOwner
    <3>2. CASE o = own[c]
      BY <2>owner, <3>2, OneKey DEF IInv, TypeOK
    <3> QED BY <1>14, <3>1, <3>2 DEF AttachClient
  <2>3. CacheInv'
    <3>1. CASE Cached(c) = own[c]
      BY <1>14, <3>1, SameStore DEF AttachClient
    <3>2. CASE Cached(c) # own[c]
      <4>1. PICK o \in {own[c], NoOwner} : \A p \in Proc, k \in Key :
               clients'[p][k] = IF p = ProcOf[c] /\ k = key[c] THEN o ELSE clients[p][k]
        BY <1>14, <2>owner, <3>2, CacheStep DEF AttachClient, IInv
      <4> QED BY <1>14, <2>owner, <3>2, <4>1 DEF AttachClient, IInv, CacheInv, Names
    <3> QED BY <3>1, <3>2
  <2>4. GuardInv'
    BY <1>14 DEF AttachClient, IInv, TypeOK, GuardInv, Holding, Guarded
  <2>5. ASSUME NEW d \in Call, d # c PROVE Untouched(d)
    <3>1. pc[d] \in Holding => key[d] # key[c]
      BY <2>5, <2>apart
    <3>2. pc[d] \in Holding =>
            clients'[ProcOf[d]][key[d]] = clients[ProcOf[d]][key[d]]
      BY <1>14, <2>owner, <3>1, CacheStep DEF AttachClient, IInv, TypeOK
    <3>3. pc'[d] = pc[d]
      BY <1>14, <2>5 DEF AttachClient, IInv, TypeOK
    <3>4. pc[d] \in Releasing /\ own[d] \notin lease => own[d] \notin lease'
      BY <1>14, <2>5, <2>distinct DEF AttachClient
    <3> QED BY <1>14, <3>2, <3>3, <3>4 DEF AttachClient, Untouched
  <2>6. CallOK(c)'
    <3>1. op[c] = "client" /\ Names(key[c], own[c], "active")
      BY <1>14 DEF AttachClient, IInv, CallOK
    <3>2. CASE Throws(c)
      BY <1>14, <3>2, <1>0 DEF AttachClient, IInv, TypeOK, CallOK, Returns, Releasing
    <3>3. CASE Done(c, "return")
      <4>1. clients'[ProcOf[c]][key[c]] = own[c]
        <5>1. CASE Cached(c) = own[c]
          BY <1>14, <5>1, <2>owner DEF AttachClient, IInv, TypeOK
        <5>2. CASE Cached(c) # own[c]
          <6>1. SetCached(c, own[c])
            BY <1>14, <5>2, <3>3 DEF AttachClient, IInv, TypeOK
          <6> QED BY <6>1, <2>owner, CacheStep DEF IInv, TypeOK
        <5> QED BY <5>1, <5>2
      <4> QED BY <1>14, <3>1, <3>3, <4>1 DEF AttachClient, IInv, TypeOK, CallOK, Names, Returns, Releasing
    <3> QED BY <1>14, <3>2, <3>3 DEF AttachClient
  <2> QED BY <1>0, <2>1, <2>2, <2>3, <2>4, <2>5, <2>6, Assembled
<1>15. CASE Fail(c)
  <2>held. pc[c] \in Holding
    BY <1>15 DEF Fail, Holding, Guarded, Awaiting
  <2>apart. \A d \in Call : d # c /\ pc[d] \in Holding => key[d] # key[c]
    BY <2>held, Apart
  <2>1. StoreInv'
    BY <1>15 DEF Fail, IInv, TypeOK, StoreInv
  <2>2. OneLiveOwner'
    BY <1>15 DEF Fail, IInv, TypeOK, StoreInv, OneLiveOwner, CallOK
  <2>3. CacheInv'
    BY <1>15, <1>0 DEF Fail, IInv, TypeOK, StoreInv, CacheInv, CallOK, Names
  <2>4. GuardInv'
    BY <1>15 DEF Fail, IInv, TypeOK, GuardInv, Holding, Guarded
  <2>5. ASSUME NEW d \in Call, d # c PROVE Untouched(d)
    BY <1>15, <2>apart, <2>5 DEF Fail, IInv, TypeOK, Untouched
  <2>6. CallOK(c)'
    BY <1>15 DEF Fail, IInv, TypeOK, StoreInv, CallOK, Names, Returns, Releasing
  <2> QED BY <1>0, <2>1, <2>2, <2>3, <2>4, <2>5, <2>6, Assembled
<1> QED BY <1>1, <1>2, <1>3, <1>4, <1>5, <1>6, <1>7, <1>8, <1>9, <1>10, <1>11, <1>12,
        <1>13, <1>14, <1>15 DEF Step, Advance

(* A new call joining the line knows nothing yet and touches nothing shared. *)
LEMMA StartStep ==
  ASSUME IInv, NEW c \in Call, NEW k \in Key, NEW o \in {"client", "end"}, Start(c, k, o)
  PROVE  IInv'
<1> USE DEF Start, Goto, store
<1>1. TypeOK'
  <2>1. ProcOf[c] \in Proc
    BY ProcOfAssumption
  <2>2. tail' \in [Proc -> [Key -> Call \cup {NoCall}]]
    BY <2>1 DEF IInv, TypeOK
  <2>3. pred' \in [Call -> Call \cup {NoCall}]
    BY <2>1 DEF IInv, TypeOK
  <2> QED BY <2>2, <2>3 DEF IInv, TypeOK, bounds
<1>2. StoreInv' /\ OneLiveOwner' /\ CacheInv'
  BY SameStore
<1>3. GuardInv'
  BY DEF IInv, TypeOK, GuardInv, Holding, Guarded
<1>4. ASSUME NEW d \in Call, d # c PROVE Untouched(d)
  BY <1>4 DEF IInv, TypeOK, Untouched
<1>5. CallOK(c)'
  BY DEF IInv, TypeOK, CallOK, Returns, Releasing
<1> QED BY <1>1, <1>2, <1>3, <1>4, <1>5, Assembled

(* A crash loses guards, caches and calls of one process; what the others know *)
(* of their records is intact, since the files and the leases are.         *)
LEMMA CrashStep ==
  ASSUME IInv, NEW p \in Proc, Crash(p)
  PROVE  IInv'
<1> USE DEF Crash
<1>1. TypeOK'
  BY DEF IInv, TypeOK, Guarded
<1>2. StoreInv' /\ OneLiveOwner'
  BY DEF IInv, StoreInv, OneLiveOwner
<1>3. \A q \in Proc, k \in Key : clients'[q][k] \in {clients[q][k], NoOwner}
  BY DEF IInv, TypeOK
<1>4. CacheInv'
  BY <1>3 DEF IInv, CacheInv, Names
<1>5. GuardInv'
  BY ProcOfAssumption, NoCallAssumption DEF IInv, TypeOK, GuardInv, Holding, Guarded
<1>6. ASSUME NEW d \in Call PROVE CallOK(d)'
  <2>1. CASE ProcOf[d] = p
    BY <2>1 DEF IInv, TypeOK, CallOK, Returns, Releasing
  <2>2. CASE ProcOf[d] # p
    <3>1. clients'[ProcOf[d]][key[d]] = clients[ProcOf[d]][key[d]]
      BY <2>2, ProcOfAssumption DEF IInv, TypeOK
    <3>2. pc'[d] = pc[d] /\ own'[d] = own[d]
      BY <2>2 DEF IInv, TypeOK
    <3> QED BY <3>1, <3>2 DEF IInv, CallOK, Names, Current, Cached, Returns, Releasing
  <2> QED BY <2>1, <2>2
<1> QED BY <1>1, <1>2, <1>4, <1>5, <1>6 DEF IInv

(* The invariant holds at the start.                                       *)
LEMMA InitInv == Init => IInv
<1> SUFFICES ASSUME Init PROVE IInv
  OBVIOUS
<1> USE KeyAssumption, ProcOfAssumption, NoOwnerAssumption, NoCallAssumption DEF Init
<1>1. TypeOK
  <2>1. (CHOOSE k \in Key : TRUE) \in Key
    BY KeyAssumption
  <2> QED BY <2>1 DEF TypeOK, Records
<1>2. StoreInv /\ OneLiveOwner /\ CacheInv
  BY DEF StoreInv, OneLiveOwner, CacheInv
<1>3. GuardInv /\ \A c \in Call : CallOK(c)
  BY DEF GuardInv, Holding, Guarded, CallOK, Returns, Releasing
<1> QED BY <1>1, <1>2, <1>3 DEF IInv

(* The invariant is inductive.                                             *)
LEMMA NextInv == IInv /\ [Next]_vars => IInv'
<1> SUFFICES ASSUME IInv, [Next]_vars PROVE IInv'
  OBVIOUS
<1>1. CASE UNCHANGED vars
  <2>1. TypeOK' /\ GuardInv'
    BY <1>1 DEF IInv, TypeOK, GuardInv, vars, store, memory, frame, bounds
  <2>2. StoreInv' /\ OneLiveOwner' /\ CacheInv'
    BY <1>1, SameStore DEF vars, store, memory
  <2>3. \A d \in Call : Untouched(d)
    BY <1>1 DEF Untouched, vars, store, memory, frame
  <2> QED BY <2>1, <2>2, <2>3, Untouching DEF IInv
<1>2. ASSUME NEW w \in Workload, Start(w[1], w[2], w[3]) PROVE IInv'
  <2>1. w[1] \in Call /\ w[2] \in Key /\ w[3] \in {"client", "end"}
    BY WorkloadAssumption
  <2> QED BY <1>2, <2>1, StartStep
<1>3. ASSUME NEW c \in Call, Step(c) PROVE IInv'
  BY <1>3, InvStep
<1>4. ASSUME NEW p \in Proc, Crash(p) PROVE IInv'
  BY <1>4, CrashStep
<1> QED BY <1>1, <1>2, <1>3, <1>4 DEF Next, Step

(* The strengthening holds in every reachable state.                       *)
THEOREM Invariance == Spec => []IInv
BY InitInv, NextInv, PTL DEF Spec

(* Every variable keeps its type (see the state listed in NativeSession).  *)
THEOREM TypeCorrect == Spec => []TypeOK
<1>1. IInv => TypeOK
  BY DEF IInv
<1> QED BY <1>1, Invariance, PTL

(* For any number of processes, calls, crashes and failures: an owner that *)
(* still holds a lease is the one its record names, so no successor is     *)
(* allocated before the daemon let go of its predecessor (finishPending).  *)
THEOREM OneOwnerLives == Spec => []OneLiveOwner
<1>1. IInv => OneLiveOwner
  BY DEF IInv
<1> QED BY <1>1, Invariance, PTL

(* nativeClientForAtRoot returns a client of the record's active owner, and *)
(* that owner's lease is live, whatever other processes did meanwhile.     *)
THEOREM ClientIsCurrent == Spec => []ReturnsCurrentOwner
<1>1. IInv => ReturnsCurrentOwner
  <2> SUFFICES ASSUME IInv, NEW c \in Call, Returns(c, "client")
               PROVE  /\ Names(key[c], own[c], "active")
                      /\ Cached(c) = own[c]
                      /\ own[c] \in lease
    BY DEF ReturnsCurrentOwner
  <2>1. Names(key[c], own[c], "active") /\ Cached(c) = own[c]
    BY DEF IInv, CallOK
  <2>2. own[c] \in Owner /\ ProcOf[c] \in Proc /\ key[c] \in Key
    BY <2>1, ProcOfAssumption, NoOwnerAssumption DEF IInv, TypeOK, StoreInv, Names
  <2> QED BY <2>1, <2>2, NoOwnerAssumption DEF IInv, CacheInv, Cached
<1> QED BY <1>1, Invariance, PTL

(* endNativeSessionAtRoot returns only when no owner ever allocated to the *)
(* selector holds a lease.                                                 *)
THEOREM EndLeavesNoLease == Spec => []EndReleases
<1>1. IInv => EndReleases
  <2> SUFFICES ASSUME IInv, NEW c \in Call, Returns(c, "end"), NEW o \in issued[key[c]], o \in lease
               PROVE  FALSE
    BY DEF EndReleases
  <2>1. record[key[c]].state \in {"none", "ended"} /\ key[c] \in Key
    BY DEF IInv, TypeOK, CallOK, Current
  <2>2. record[key[c]].owner = o /\ record[key[c]].state # "ended"
    BY <2>1 DEF IInv, OneLiveOwner
  <2>3. o = NoOwner
    BY <2>1, <2>2 DEF IInv, StoreInv
  <2>4. o \in Owner
    BY <2>1 DEF IInv, TypeOK
  <2> QED BY <2>3, <2>4, NoOwnerAssumption
<1> QED BY <1>1, Invariance, PTL

(* A step of a call is a step of the owner's lifecycle, or changes nothing of it. *)
LEMMA StepRefines ==
  ASSUME IInv, NEW c \in Call, Step(c)
  PROVE  [Lifecycle!Next]_<<record, lease, issued>>
<1> USE DEF Runs, store
<1>0. key[c] \in Key
  BY DEF IInv, TypeOK
<1>1. CASE WriteIntent(c)
  <2>1. Names(key[c], own[c], "active")
    BY <1>1 DEF WriteIntent, IInv, CallOK
  <2>2. record' = [record EXCEPT ![key[c]].state = "pending"]
    BY <1>1, <1>0, <2>1 DEF WriteIntent, Write, Names, IInv, TypeOK, Records
  <2>3. Lifecycle!Intend(key[c])
    BY <1>1, <2>1, <2>2 DEF WriteIntent, Names, Lifecycle!Intend
  <2> QED BY <1>0, <2>3 DEF Lifecycle!Next
<1>2. CASE Reattach(c)
  <2>1. Names(key[c], own[c], "pending")
    BY <1>2 DEF Reattach, IInv, CallOK
  <2>2. Lifecycle!Attach(key[c])
    BY <1>2, <2>1 DEF Reattach, Names, Lifecycle!Attach
  <2> QED BY <1>0, <2>2 DEF Lifecycle!Next
<1>3. CASE ReleaseLease(c)
  <2>1. Names(key[c], own[c], "pending")
    BY <1>3 DEF ReleaseLease, IInv, CallOK
  <2>2. Lifecycle!Release(key[c])
    BY <1>3, <2>1 DEF ReleaseLease, Names, Lifecycle!Release
  <2> QED BY <1>0, <2>2 DEF Lifecycle!Next
<1>4. CASE WriteEnded(c)
  <2>1. Names(key[c], own[c], "pending") /\ own[c] \notin lease
    BY <1>4 DEF WriteEnded, IInv, CallOK, Releasing
  <2>2. record' = [record EXCEPT ![key[c]].state = "ended"]
    BY <1>4, <1>0, <2>1 DEF WriteEnded, Write, Names, IInv, TypeOK, Records
  <2>3. Lifecycle!End(key[c])
    BY <1>4, <2>1, <2>2 DEF WriteEnded, Names, Lifecycle!End
  <2> QED BY <1>0, <2>3 DEF Lifecycle!Next
<1>5. CASE Allocate(c)
  <2>1. Current(c).state \in {"none", "ended"}
    BY <1>5 DEF Allocate, IInv, CallOK
  <2>2. Lifecycle!Allocate(key[c])
    BY <1>5, <2>1 DEF Allocate, FreshOwners, Write, Current, Lifecycle!Allocate
  <2> QED BY <1>0, <2>2 DEF Lifecycle!Next
<1>6. CASE AttachClient(c)
  <2>1. Names(key[c], own[c], "active")
    BY <1>6 DEF AttachClient, IInv, CallOK
  <2>2. CASE Cached(c) = own[c]
    BY <1>6, <2>2 DEF AttachClient
  <2>3. CASE Cached(c) # own[c]
    <3>1. Lifecycle!Attach(key[c])
      BY <1>6, <2>1, <2>3 DEF AttachClient, Names, Lifecycle!Attach
    <3> QED BY <1>0, <3>1 DEF Lifecycle!Next
  <2> QED BY <2>2, <2>3
<1>7. CASE UNCHANGED <<record, lease, issued>>
  BY <1>7
<1> QED BY <1>1, <1>2, <1>3, <1>4, <1>5, <1>6, <1>7 DEF Step, Advance, AskGuard,
       TakeGuard, GuardTimeout, Leave, Read, CloseClient, Recheck, Reread, Fail

(* So is every step of the system; new calls and crashes change nothing of it. *)
LEMMA NextRefines == IInv /\ [Next]_vars => [Lifecycle!Next]_<<record, lease, issued>>
<1> SUFFICES ASSUME IInv, [Next]_vars PROVE [Lifecycle!Next]_<<record, lease, issued>>
  OBVIOUS
<1>1. CASE UNCHANGED vars
  BY <1>1 DEF vars, store
<1>2. ASSUME NEW w \in Workload, Start(w[1], w[2], w[3])
      PROVE  UNCHANGED <<record, lease, issued>>
  BY <1>2 DEF Start, store
<1>3. ASSUME NEW c \in Call, Step(c) PROVE [Lifecycle!Next]_<<record, lease, issued>>
  BY <1>3, StepRefines
<1>4. ASSUME NEW p \in Proc, Crash(p) PROVE UNCHANGED <<record, lease, issued>>
  BY <1>4 DEF Crash
<1> QED BY <1>1, <1>2, <1>3, <1>4 DEF Next, Step

(* The processes with their guards, caches, retries and crashes implement the *)
(* lifecycle of OwnerLifecycle: none or ended -> active -> pending -> ended. *)
THEOREM Refinement == Spec => LifecycleSpec
<1>1. Init => Lifecycle!Init
  BY DEF Init, Lifecycle!Init
<1>2. IInv /\ [Next]_vars => [Lifecycle!Next]_(Lifecycle!vars)
  BY NextRefines DEF Lifecycle!vars
<1> QED BY <1>1, <1>2, Invariance, PTL DEF Spec, LifecycleSpec, Lifecycle!Spec

(* A lease is only ever dropped for an owner whose terminal intent is on disk *)
(* (endNativeSessionAtRoot writes "pending" before releaseLease).          *)
THEOREM ReleaseAfterIntent == Spec => ReleaseNeedsIntent
<1>1. IInv /\ [Next]_vars =>
        [\A k \in Key : \A o \in issued[k] \cap lease :
            o \notin lease' => Names(k, o, "pending")]_vars
  <2> SUFFICES ASSUME IInv, [Next]_vars,
                      NEW k \in Key, NEW o \in issued[k] \cap lease, o \notin lease'
               PROVE  Names(k, o, "pending")
    OBVIOUS
  <2>1. [Lifecycle!Next]_<<record, lease, issued>>
    BY NextRefines
  <2>2. PICK l \in Key : Lifecycle!Release(l)
    BY <2>1 DEF Lifecycle!Next, Lifecycle!Allocate, Lifecycle!Attach, Lifecycle!Intend,
                Lifecycle!End
  <2>3. record[l].state = "pending" /\ o = record[l].owner
    BY <2>2 DEF Lifecycle!Release
  <2>4. o \in issued[l]
    BY <2>3 DEF IInv, StoreInv
  <2>5. k = l
    BY <2>4, OneKey
  <2> QED BY <2>3, <2>5 DEF Names
<1> QED BY <1>1, Invariance, PTL DEF Spec, ReleaseNeedsIntent

------------------------------------------------------------------------------
(* The line of a process for a record (the promise chain in `operations`). *)

SameLine(c, d) ==
    pc[c] # "idle" /\ pc[d] # "idle" /\ ProcOf[c] = ProcOf[d] /\ key[c] = key[d]

(* The calls of a line came in this order: each one waits for the last     *)
(* that came before it, the first one for nobody, and the tail came last.  *)
InOrder(rank) ==
    /\ \A c, d \in Call : SameLine(c, d) /\ c # d => rank[c] # rank[d]
    /\ \A c \in Call : pc[c] # "idle" /\ pred[c] = NoCall =>
          \A d \in Call : SameLine(c, d) => rank[c] <= rank[d]
    /\ \A c \in Call : pc[c] # "idle" /\ pred[c] # NoCall =>
          /\ SameLine(c, pred[c]) /\ rank[pred[c]] < rank[c]
          /\ \A d \in Call : SameLine(c, d) => rank[d] <= rank[pred[c]] \/ rank[c] <= rank[d]
    /\ \A c \in Call : pc[c] # "idle" => tail[ProcOf[c]][key[c]] # NoCall
    /\ \A p \in Proc, k \in Key : tail[p][k] # NoCall =>
          /\ pc[tail[p][k]] # "idle" /\ ProcOf[tail[p][k]] = p /\ key[tail[p][k]] = k
          /\ \A d \in Call : SameLine(tail[p][k], d) => rank[d] <= rank[tail[p][k]]

(* Only the head of a line has stopped waiting for its predecessor, and    *)
(* only a call that has can hold the guard of its record.                  *)
LineInv ==
    /\ \E rank \in [Call -> Nat] : InOrder(rank)
    /\ \A c \in Call : pc[c] # "queued" => pred[c] = NoCall
    /\ \A k \in Key : guard[k] # NoCall => key[guard[k]] = k /\ pc[guard[k]] \in Guarded

(* A call that moves on without leaving its line: it has no predecessor    *)
(* left, and the guard changes hands only when it takes it.                *)
Moves(c) ==
    /\ UNCHANGED <<pred, tail, key>>
    /\ pc[c] # "idle" /\ (pc[c] = "queued" => pred[c] = NoCall)
    /\ \E x \in Guarded \cup {"blocked"} :
          /\ pc' = [pc EXCEPT ![c] = x]
          /\ \/ guard' = guard /\ (pc[c] \in Guarded => x \in Guarded)
             \/ guard' = [guard EXCEPT ![key[c]] = c] /\ x \in Guarded

LEMMA LeavesOrMoves ==
  ASSUME NEW c \in Call, Step(c)
  PROVE  Leave(c) \/ Moves(c)
<1> USE DEF Runs, Goto, Done, Throws, Moves, Guarded, store, memory
<1>1. CASE Leave(c)  BY <1>1
<1>2. CASE AskGuard(c)  BY <1>2 DEF AskGuard
<1>3. CASE TakeGuard(c) \/ GuardTimeout(c)  BY <1>3 DEF TakeGuard, GuardTimeout
<1>4. CASE Read(c)  BY <1>4 DEF Read, ReleaseStep
<1>5. CASE WriteIntent(c)  BY <1>5 DEF WriteIntent, ReleaseStep
<1>6. CASE Reattach(c) \/ ReleaseLease(c) \/ CloseClient(c)
  BY <1>6 DEF Reattach, ReleaseLease, CloseClient
<1>7. CASE Recheck(c) \/ WriteEnded(c)  BY <1>7 DEF Recheck, WriteEnded, AfterFinish
<1>8. CASE Reread(c) \/ Allocate(c) \/ AttachClient(c)
  BY <1>8 DEF Reread, Allocate, AttachClient
<1>9. CASE Fail(c)  BY <1>9 DEF Fail, Awaiting
<1> QED BY <1>1, <1>2, <1>3, <1>4, <1>5, <1>6, <1>7, <1>8, <1>9 DEF Step, Advance

LEMMA MovesInLine ==
  ASSUME TypeOK, LineInv, NEW c \in Call, Moves(c)
  PROVE  LineInv'
<1>1. PICK x \in Guarded \cup {"blocked"} :
        /\ pc' = [pc EXCEPT ![c] = x]
        /\ \/ guard' = guard /\ (pc[c] \in Guarded => x \in Guarded)
           \/ guard' = [guard EXCEPT ![key[c]] = c] /\ x \in Guarded
  BY DEF Moves
<1>2. /\ pc'[c] = x /\ x # "idle" /\ x # "queued" /\ pc[c] # "idle"
      /\ \A d \in Call \ {c} : pc'[d] = pc[d]
  BY <1>1 DEF TypeOK, Guarded, Moves
<1>3. UNCHANGED <<pred, tail, key>> /\ (pc[c] = "queued" => pred[c] = NoCall)
  BY DEF Moves
<1>4. \E rank \in [Call -> Nat] : InOrder(rank)'
  <2>1. PICK rank \in [Call -> Nat] : InOrder(rank)
    BY DEF LineInv
  <2>2. \A d \in Call : (pc'[d] = "idle") <=> (pc[d] = "idle")
    BY <1>2
  <2>3. \A d, e \in Call : SameLine(d, e)' <=> SameLine(d, e)
    BY <2>2, <1>3 DEF SameLine
  <2>4. \A d \in Call : pred[d] # NoCall => pred[d] \in Call
    BY DEF TypeOK
  <2>5. \A p \in Proc, k \in Key : tail[p][k] # NoCall => tail[p][k] \in Call
    BY DEF TypeOK
  <2>6. InOrder(rank)'
    BY <2>1, <2>2, <2>3, <2>4, <2>5, <1>3 DEF InOrder
  <2> QED BY <2>6
<1>5. \A d \in Call : pc'[d] # "queued" => pred'[d] = NoCall
  BY <1>2, <1>3 DEF LineInv
<1>6. ASSUME NEW k \in Key, guard'[k] # NoCall
      PROVE  key'[guard'[k]] = k /\ pc'[guard'[k]] \in Guarded
  <2>1. CASE guard' = guard /\ (pc[c] \in Guarded => x \in Guarded)
    <3>1. guard[k] \in Call /\ key[guard[k]] = k /\ pc[guard[k]] \in Guarded
      BY <2>1, <1>6 DEF LineInv, TypeOK
    <3> QED BY <2>1, <3>1, <1>2, <1>3
  <2>2. CASE guard' = [guard EXCEPT ![key[c]] = c] /\ x \in Guarded
    <3>1. CASE k = key[c]
      <4>1. guard'[k] = c  BY <2>2, <3>1 DEF TypeOK
      <4> QED BY <4>1, <3>1, <2>2, <1>2, <1>3
    <3>2. CASE k # key[c]
      <4>1. guard'[k] = guard[k]  BY <2>2, <3>2 DEF TypeOK
      <4>2. guard[k] \in Call /\ key[guard[k]] = k /\ pc[guard[k]] \in Guarded
        BY <4>1, <1>6 DEF LineInv, TypeOK
      <4> QED BY <4>1, <4>2, <3>2, <1>2, <1>3
    <3> QED BY <3>1, <3>2
  <2> QED BY <2>1, <2>2, <1>1
<1> QED BY <1>4, <1>5, <1>6 DEF LineInv

(* The head leaves: who waited for it comes next.                          *)
LEMMA LeavesLine ==
  ASSUME TypeOK, LineInv, NEW c \in Call, Leave(c)
  PROVE  LineInv'
<1>1. /\ pc[c] \in {"return", "throw"} /\ key' = key
      /\ pc' = [pc EXCEPT ![c] = "idle"]
      /\ guard' = IF guard[key[c]] = c THEN [guard EXCEPT ![key[c]] = NoCall] ELSE guard
      /\ pred' = [d \in Call |-> IF pred[d] = c THEN NoCall ELSE pred[d]]
      /\ tail' = IF tail[ProcOf[c]][key[c]] = c
                   THEN [tail EXCEPT ![ProcOf[c]][key[c]] = NoCall] ELSE tail
  BY DEF Leave, Goto
<1>2. /\ pc'[c] = "idle" /\ pc[c] # "idle" /\ pred[c] = NoCall
      /\ \A d \in Call \ {c} : pc'[d] = pc[d]
      /\ \A d \in Call : pred'[d] = IF pred[d] = c THEN NoCall ELSE pred[d]
  BY <1>1 DEF TypeOK, LineInv
<1>3. /\ ProcOf \in [Call -> Proc] /\ NoCall \notin Call /\ key \in [Call -> Key]
      /\ \A d \in Call : pred[d] \in Call \cup {NoCall}
      /\ \A p \in Proc, k \in Key : tail[p][k] \in Call \cup {NoCall}
  BY ProcOfAssumption, NoCallAssumption DEF TypeOK
<1>4. \A p \in Proc, k \in Key :
        tail'[p][k] = IF tail[p][k] = c /\ p = ProcOf[c] /\ k = key[c] THEN NoCall ELSE tail[p][k]
  BY <1>1, <1>3 DEF TypeOK
<1>5. \A d, e \in Call : SameLine(d, e)' <=> SameLine(d, e) /\ d # c /\ e # c
  BY <1>1, <1>2 DEF SameLine
<1>6. \E rank \in [Call -> Nat] : InOrder(rank)'
  <2>1. PICK rank \in [Call -> Nat] : InOrder(rank)
    BY DEF LineInv
  <2>2. \A d \in Call : rank[d] \in Nat
    BY <2>1
  <2>3. \A d, e \in Call : SameLine(d, e)' /\ d # e => rank[d] # rank[e]
    BY <2>1, <1>5 DEF InOrder
  <2>4. \A d \in Call : SameLine(c, d) => rank[c] <= rank[d]
    BY <2>1, <1>2 DEF InOrder
  <2>5. ASSUME NEW d \in Call, pc'[d] # "idle", pred'[d] = NoCall,
               NEW e \in Call, SameLine(d, e)'
        PROVE  rank[d] <= rank[e]
    <3>1. d # c /\ e # c /\ SameLine(d, e) /\ pc[d] # "idle"
      BY <2>5, <1>5, <1>2
    <3>2. CASE pred[d] = NoCall
      BY <3>1, <3>2, <2>1 DEF InOrder
    <3>3. CASE pred[d] = c
      <4>1. SameLine(d, c) /\ (rank[e] <= rank[c] \/ rank[d] <= rank[e])
        BY <3>1, <3>3, <2>1, <1>3 DEF InOrder
      <4>2. SameLine(c, e)
        BY <4>1, <3>1 DEF SameLine
      <4>3. rank[c] <= rank[e] /\ rank[c] # rank[e]
        BY <4>2, <3>1, <2>4, <2>1 DEF InOrder
      <4> QED BY <4>1, <4>3, <2>2
    <3> QED BY <3>2, <3>3, <2>5, <1>2
  <2>6. ASSUME NEW d \in Call, pc'[d] # "idle", pred'[d] # NoCall
        PROVE  /\ SameLine(d, pred[d])' /\ pred'[d] = pred[d] /\ rank[pred[d]] < rank[d]
               /\ \A e \in Call : SameLine(d, e)' => rank[e] <= rank[pred[d]] \/ rank[d] <= rank[e]
    <3>1. d # c /\ pc[d] # "idle" /\ pred[d] # c /\ pred[d] \in Call /\ pred'[d] = pred[d]
      BY <2>6, <1>2, <1>3
    <3> QED BY <3>1, <2>1, <1>3, <1>5 DEF InOrder
  <2>7. ASSUME NEW d \in Call, pc'[d] # "idle"
        PROVE  tail'[ProcOf[d]][key'[d]] # NoCall
    <3>1. d # c /\ pc[d] # "idle" /\ ProcOf[d] \in Proc /\ key[d] \in Key /\ key' = key
      BY <2>7, <1>2, <1>3, <1>1
    <3>2. tail[ProcOf[d]][key[d]] # NoCall
      BY <3>1, <2>1 DEF InOrder
    <3>3. CASE tail[ProcOf[d]][key[d]] = c /\ ProcOf[d] = ProcOf[c] /\ key[d] = key[c]
      <4>1. SameLine(c, d)
        BY <3>1, <3>3, <1>2 DEF SameLine
      <4>2. rank[d] <= rank[c]
        BY <4>1, <3>1, <3>3, <1>3, <2>1 DEF InOrder
      <4>3. rank[c] <= rank[d] /\ rank[c] # rank[d]
        BY <4>1, <3>1, <2>4, <2>1 DEF InOrder
      <4> QED BY <4>2, <4>3, <2>2
    <3> QED BY <3>1, <3>2, <3>3, <1>4
  <2>8. ASSUME NEW p \in Proc, NEW k \in Key, tail'[p][k] # NoCall
        PROVE  /\ pc'[tail'[p][k]] # "idle" /\ ProcOf[tail'[p][k]] = p /\ key'[tail'[p][k]] = k
               /\ \A d \in Call : SameLine(tail[p][k], d)' => rank[d] <= rank[tail'[p][k]]
               /\ tail'[p][k] = tail[p][k]
    <3>1. tail'[p][k] = tail[p][k] /\ tail[p][k] \in Call
      BY <2>8, <1>3, <1>4
    <3>2. /\ pc[tail[p][k]] # "idle" /\ ProcOf[tail[p][k]] = p /\ key[tail[p][k]] = k
          /\ \A d \in Call : SameLine(tail[p][k], d) => rank[d] <= rank[tail[p][k]]
      BY <3>1, <2>8, <2>1 DEF InOrder
    <3>3. tail[p][k] # c
      BY <3>1, <3>2, <2>8, <1>4
    <3> QED BY <3>1, <3>2, <3>3, <1>1, <1>2, <1>5
  <2> HIDE DEF SameLine
  <2>9. InOrder(rank)'
    BY <2>3, <2>5, <2>6, <2>7, <2>8 DEF InOrder
  <2> QED BY <2>9
<1>7. \A d \in Call : pc'[d] # "queued" => pred'[d] = NoCall
  BY <1>2 DEF LineInv
<1>8. ASSUME NEW k \in Key, guard'[k] # NoCall
      PROVE  key'[guard'[k]] = k /\ pc'[guard'[k]] \in Guarded
  <2>1. guard'[k] = guard[k]
    BY <1>1, <1>8 DEF TypeOK
  <2>2. guard[k] \in Call /\ key[guard[k]] = k /\ pc[guard[k]] \in Guarded
    BY <2>1, <1>8 DEF LineInv, TypeOK
  <2>3. guard[k] # c
    BY <2>1, <2>2, <1>1, <1>3, <1>8 DEF TypeOK
  <2> QED BY <2>1, <2>2, <2>3, <1>1, <1>2
<1> QED BY <1>6, <1>7, <1>8 DEF LineInv

(* A new call comes after all of its line.                                 *)
LEMMA JoinsLine ==
  ASSUME TypeOK, LineInv, NEW c \in Call, NEW k \in Key, NEW o, Start(c, k, o)
  PROVE  LineInv'
<1>1. /\ pc[c] = "idle" /\ pc' = [pc EXCEPT ![c] = "queued"]
      /\ key' = [key EXCEPT ![c] = k] /\ guard' = guard
      /\ pred' = [pred EXCEPT ![c] = tail[ProcOf[c]][k]]
      /\ tail' = [tail EXCEPT ![ProcOf[c]][k] = c]
  BY DEF Start, Goto, store
<1>2. /\ pc'[c] = "queued" /\ key'[c] = k /\ pred'[c] = tail[ProcOf[c]][k]
      /\ \A d \in Call \ {c} : pc'[d] = pc[d] /\ key'[d] = key[d] /\ pred'[d] = pred[d]
  BY <1>1 DEF TypeOK
<1>3. /\ ProcOf \in [Call -> Proc] /\ NoCall \notin Call /\ key \in [Call -> Key]
      /\ \A d \in Call : pred[d] \in Call \cup {NoCall}
      /\ \A p \in Proc, l \in Key : tail[p][l] \in Call \cup {NoCall}
  BY ProcOfAssumption, NoCallAssumption DEF TypeOK
<1>4. \A p \in Proc, l \in Key :
        tail'[p][l] = IF p = ProcOf[c] /\ l = k THEN c ELSE tail[p][l]
  BY <1>1, <1>3 DEF TypeOK
<1>5. \A d, e \in Call \ {c} : SameLine(d, e)' <=> SameLine(d, e)
  BY <1>2 DEF SameLine
<1>6. \E rank \in [Call -> Nat] : InOrder(rank)'
  <2>1. PICK rank \in [Call -> Nat] : InOrder(rank)
    BY DEF LineInv
  <2>0. PICK t : t = tail[ProcOf[c]][k]
    OBVIOUS
  <2> DEFINE last == IF t = NoCall THEN 0 ELSE rank[t] + 1
             new == [rank EXCEPT ![c] = last]
  <2>2. t \in Call \cup {NoCall}
    BY <2>0, <1>3
  <2>3. last \in Nat /\ new \in [Call -> Nat] /\ new[c] = last /\ \A d \in Call \ {c} : new[d] = rank[d]
    BY <2>1, <2>2
  <2>4. t # NoCall => /\ t # c /\ pc[t] # "idle" /\ ProcOf[t] = ProcOf[c] /\ key[t] = k
                      /\ \A d \in Call : SameLine(t, d) => rank[d] <= rank[t]
    BY <2>0, <2>1, <1>1, <1>3 DEF InOrder
  <2>5. ASSUME NEW d \in Call \ {c}, SameLine(c, d)' \/ SameLine(d, c)'
        PROVE  t # NoCall /\ SameLine(t, d) /\ new[d] <= rank[t] /\ new[d] < new[c] /\ new[t] = rank[t]
    <3>1. pc[d] # "idle" /\ ProcOf[d] = ProcOf[c] /\ key[d] = k
      BY <2>5, <1>2 DEF SameLine
    <3>2. t # NoCall
      BY <3>1, <2>0, <2>1, <2>5 DEF InOrder
    <3>3. SameLine(t, d)
      BY <3>1, <3>2, <2>4 DEF SameLine
    <3>4. rank[d] <= rank[t] /\ rank[d] \in Nat /\ rank[t] \in Nat
      BY <3>2, <3>3, <2>4, <2>5, <2>2, <2>1
    <3> QED BY <3>2, <3>3, <3>4, <2>2, <2>3, <2>4, <2>5
  <2>6. \A d \in Call : pc[d] # "idle" /\ pred[d] # NoCall => pred[d] # c /\ SameLine(d, pred[d])
    BY <2>1, <1>1 DEF InOrder, SameLine
  <2>N. \A d \in Call : new[d] \in Nat
    BY <2>3
  <2> HIDE DEF new, last
  <2>7. \A d, e \in Call : SameLine(d, e)' /\ d # e => new[d] # new[e]
    <3> TAKE d, e \in Call
    <3>1. CASE d # c /\ e # c  BY <3>1, <2>1, <2>3, <1>5 DEF InOrder
    <3>2. CASE d = c /\ e # c  BY <3>2, <2>5, <2>N
    <3>3. CASE d # c /\ e = c  BY <3>3, <2>5, <2>N
    <3> QED BY <3>1, <3>2, <3>3
  <2>8. ASSUME NEW d \in Call, pc'[d] # "idle", pred'[d] = NoCall, NEW e \in Call, SameLine(d, e)'
        PROVE  new[d] <= new[e]
    <3>1. CASE d = c /\ e # c  BY <3>1, <2>0, <2>5, <2>8, <1>2
    <3>2. CASE d # c /\ e = c  BY <3>2, <2>5, <2>8, <2>N
    <3>3. CASE d # c /\ e # c
      BY <3>3, <2>8, <2>1, <2>3, <1>2, <1>5 DEF InOrder
    <3>4. CASE d = c /\ e = c  BY <3>4, <2>N
    <3> QED BY <3>1, <3>2, <3>3, <3>4
  <2>9. ASSUME NEW d \in Call, pc'[d] # "idle", pred'[d] # NoCall
        PROVE  /\ SameLine(d, pred[d])' /\ new[pred'[d]] < new[d]
               /\ \A e \in Call : SameLine(d, e)' => new[e] <= new[pred'[d]] \/ new[d] <= new[e]
    <3>1. CASE d = c
      <4>1. pred'[d] = t /\ t # NoCall /\ t \in Call
        BY <3>1, <2>0, <2>9, <1>2, <2>2
      <4>2. SameLine(c, t)'
        BY <4>1, <2>4, <1>2 DEF SameLine
      <4>3. new[t] < new[c] /\ new[t] = rank[t]
        BY <4>1, <4>2, <2>4, <2>5
      <4>4. ASSUME NEW e \in Call, SameLine(c, e)' PROVE new[e] <= new[t] \/ new[c] <= new[e]
        <5>1. CASE e = c  BY <5>1, <2>N
        <5>2. CASE e # c  BY <5>2, <4>4, <4>3, <2>5
        <5> QED BY <5>1, <5>2
      <4> QED BY <3>1, <4>1, <4>2, <4>3, <4>4
    <3>2. CASE d # c
      <4>1. pred'[d] = pred[d] /\ pc[d] # "idle" /\ pred[d] \in Call \ {c} /\ SameLine(d, pred[d])
        BY <3>2, <2>9, <1>2, <1>3, <2>6
      <4>2. SameLine(d, pred[d])'
        BY <4>1, <3>2, <1>5
      <4>3. new[pred[d]] < new[d] /\ new[d] = rank[d] /\ new[pred[d]] = rank[pred[d]]
        BY <4>1, <3>2, <2>1, <2>3, <1>3 DEF InOrder
      <4>4. ASSUME NEW e \in Call, SameLine(d, e)'
            PROVE  new[e] <= new[pred[d]] \/ new[d] <= new[e]
        <5>1. CASE e = c  BY <5>1, <4>4, <3>2, <2>5, <2>N
        <5>2. CASE e # c
          BY <5>2, <4>4, <4>1, <4>3, <3>2, <2>1, <2>3, <1>3, <1>5 DEF InOrder
        <5> QED BY <5>1, <5>2
      <4> QED BY <4>1, <4>2, <4>3, <4>4
    <3> QED BY <3>1, <3>2
  <2>10. ASSUME NEW d \in Call, pc'[d] # "idle"
         PROVE  tail'[ProcOf[d]][key'[d]] # NoCall
    <3>1. CASE d = c  BY <3>1, <1>2, <1>3, <1>4
    <3>2. CASE d # c
      <4>1. ProcOf[d] \in Proc /\ key[d] \in Key /\ key'[d] = key[d] /\ tail[ProcOf[d]][key[d]] # NoCall
        BY <3>2, <2>10, <2>1, <1>2, <1>3 DEF InOrder
      <4> QED BY <4>1, <1>3, <1>4
    <3> QED BY <3>1, <3>2
  <2>11. ASSUME NEW p \in Proc, NEW l \in Key, tail'[p][l] # NoCall
         PROVE  /\ pc'[tail'[p][l]] # "idle" /\ ProcOf[tail'[p][l]] = p /\ key'[tail'[p][l]] = l
                /\ \A d \in Call : SameLine(tail[p][l], d)' => new[d] <= new[tail'[p][l]]
    <3>1. CASE p = ProcOf[c] /\ l = k
      <4>1. tail'[p][l] = c  BY <3>1, <1>4
      <4>2. ASSUME NEW d \in Call, SameLine(c, d)' PROVE new[d] <= new[c]
        <5>1. CASE d = c  BY <5>1, <2>N
        <5>2. CASE d # c  BY <5>2, <4>2, <2>5, <2>N
        <5> QED BY <5>1, <5>2
      <4> QED BY <3>1, <4>1, <4>2, <1>2
    <3>2. CASE ~(p = ProcOf[c] /\ l = k)
      <4>1. tail'[p][l] = tail[p][l] /\ tail[p][l] \in Call
        BY <3>2, <2>11, <1>3, <1>4
      <4>2. /\ pc[tail[p][l]] # "idle" /\ ProcOf[tail[p][l]] = p /\ key[tail[p][l]] = l
            /\ \A d \in Call : SameLine(tail[p][l], d) => rank[d] <= rank[tail[p][l]]
        BY <4>1, <2>11, <2>1 DEF InOrder
      <4>3. tail[p][l] # c  BY <4>2, <1>1
      <4>4. ASSUME NEW d \in Call, SameLine(tail[p][l], d)' PROVE d # c
        <5>1. ProcOf[d] = p /\ key'[d] = l
          BY <4>4, <4>1, <4>2, <4>3, <1>2 DEF SameLine
        <5> QED BY <5>1, <3>2, <1>2
      <4>5. ASSUME NEW d \in Call, SameLine(tail[p][l], d)' PROVE new[d] <= new[tail[p][l]]
        BY <4>1, <4>2, <4>3, <4>4, <4>5, <2>3, <1>5
      <4> QED BY <4>1, <4>2, <4>3, <4>5, <1>2
    <3> QED BY <3>1, <3>2
  <2>12. InOrder(new)'
    BY <2>7, <2>8, <2>9, <2>10, <2>11 DEF InOrder
  <2> QED BY <2>3, <2>12
<1>7. \A d \in Call : pc'[d] # "queued" => pred'[d] = NoCall
  BY <1>2 DEF LineInv
<1>8. ASSUME NEW l \in Key, guard'[l] # NoCall
      PROVE  key'[guard'[l]] = l /\ pc'[guard'[l]] \in Guarded
  <2>1. guard[l] \in Call /\ key[guard[l]] = l /\ pc[guard[l]] \in Guarded
    BY <1>1, <1>8 DEF LineInv, TypeOK
  <2>2. guard[l] # c
    BY <2>1, <1>1 DEF Guarded
  <2> QED BY <2>1, <2>2, <1>1, <1>2
<1> QED BY <1>6, <1>7, <1>8 DEF LineInv

(* A crash empties the lines of one process.                               *)
LEMMA CrashesLines ==
  ASSUME TypeOK, LineInv, NEW p \in Proc, Crash(p)
  PROVE  LineInv'
<1>1. /\ \A c \in Call : /\ pc'[c] = (IF ProcOf[c] = p THEN "idle" ELSE pc[c])
                         /\ pred'[c] = (IF ProcOf[c] = p THEN NoCall ELSE pred[c])
      /\ \A k \in Key : guard'[k] = (IF \E c \in Call : guard[k] = c /\ ProcOf[c] = p
                                       THEN NoCall ELSE guard[k])
      /\ \A q \in Proc, k \in Key : tail'[q][k] = (IF q = p THEN NoCall ELSE tail[q][k])
      /\ key' = key
  BY DEF Crash, TypeOK
<1>2. /\ ProcOf \in [Call -> Proc] /\ NoCall \notin Call /\ key \in [Call -> Key]
      /\ \A d \in Call : pred[d] \in Call \cup {NoCall}
      /\ \A q \in Proc, k \in Key : tail[q][k] \in Call \cup {NoCall}
  BY ProcOfAssumption, NoCallAssumption DEF TypeOK
<1>3. \A d, e \in Call : SameLine(d, e)' <=> SameLine(d, e) /\ ProcOf[d] # p
  BY <1>1 DEF SameLine
<1>4. \E rank \in [Call -> Nat] : InOrder(rank)'
  <2>1. PICK rank \in [Call -> Nat] : InOrder(rank)
    BY DEF LineInv
  <2>2. \A d \in Call : pc'[d] # "idle" => ProcOf[d] # p /\ pc[d] # "idle" /\ pred'[d] = pred[d]
    BY <1>1
  <2>3. ASSUME NEW d \in Call, pc'[d] # "idle", pred'[d] # NoCall
        PROVE  /\ SameLine(d, pred[d])' /\ rank[pred'[d]] < rank[d]
               /\ \A e \in Call : SameLine(d, e)' => rank[e] <= rank[pred'[d]] \/ rank[d] <= rank[e]
    BY <2>1, <2>2, <2>3, <1>2, <1>3 DEF InOrder
  <2>4. ASSUME NEW d \in Call, pc'[d] # "idle"
        PROVE  tail'[ProcOf[d]][key'[d]] # NoCall
    BY <2>1, <2>2, <2>4, <1>1, <1>2 DEF InOrder
  <2>5. ASSUME NEW q \in Proc, NEW k \in Key, tail'[q][k] # NoCall
        PROVE  /\ pc'[tail'[q][k]] # "idle" /\ ProcOf[tail'[q][k]] = q /\ key'[tail'[q][k]] = k
               /\ \A d \in Call : SameLine(tail[q][k], d)' => rank[d] <= rank[tail'[q][k]]
    <3>1. q # p /\ tail'[q][k] = tail[q][k] /\ tail[q][k] \in Call
      BY <2>5, <1>1, <1>2
    <3> QED BY <3>1, <2>5, <2>1, <1>1, <1>3 DEF InOrder
  <2>6. \A d, e \in Call : SameLine(d, e)' /\ d # e => rank[d] # rank[e]
    BY <2>1, <1>3 DEF InOrder
  <2>7. \A d \in Call : pc'[d] # "idle" /\ pred'[d] = NoCall =>
           \A e \in Call : SameLine(d, e)' => rank[d] <= rank[e]
    BY <2>1, <2>2, <1>3 DEF InOrder
  <2>8. InOrder(rank)'
    BY <2>3, <2>4, <2>5, <2>6, <2>7 DEF InOrder
  <2> QED BY <2>8
<1>5. \A d \in Call : pc'[d] # "queued" => pred'[d] = NoCall
  BY <1>1 DEF LineInv
<1>6. ASSUME NEW k \in Key, guard'[k] # NoCall
      PROVE  key'[guard'[k]] = k /\ pc'[guard'[k]] \in Guarded
  <2>1. guard'[k] = guard[k] /\ guard[k] \in Call /\ ProcOf[guard[k]] # p
    BY <1>1, <1>6 DEF TypeOK
  <2> QED BY <2>1, <1>1, <1>6 DEF LineInv
<1> QED BY <1>4, <1>5, <1>6 DEF LineInv

LEMMA InitLine == Init => LineInv
<1> SUFFICES ASSUME Init PROVE LineInv
  OBVIOUS
<1>1. /\ \A c \in Call : pc[c] = "idle" /\ pred[c] = NoCall
      /\ \A k \in Key : guard[k] = NoCall
      /\ \A p \in Proc, k \in Key : tail[p][k] = NoCall
  BY DEF Init
<1>2. InOrder([c \in Call |-> 0])
  BY <1>1 DEF InOrder, SameLine
<1> QED BY <1>1, <1>2 DEF LineInv

LEMMA NextLine == TypeOK /\ LineInv /\ [Next]_vars => LineInv'
<1> SUFFICES ASSUME TypeOK, LineInv, [Next]_vars PROVE LineInv'
  OBVIOUS
<1>1. CASE UNCHANGED vars
  BY <1>1 DEF LineInv, InOrder, SameLine, vars, store, memory, frame
<1>2. ASSUME NEW w \in Workload, Start(w[1], w[2], w[3]) PROVE LineInv'
  <2>1. w[1] \in Call /\ w[2] \in Key
    BY WorkloadAssumption
  <2> QED BY <1>2, <2>1, JoinsLine
<1>3. ASSUME NEW c \in Call, Step(c) PROVE LineInv'
  BY <1>3, LeavesOrMoves, LeavesLine, MovesInLine
<1>4. ASSUME NEW p \in Proc, Crash(p) PROVE LineInv'
  BY <1>4, CrashesLines
<1> QED BY <1>1, <1>2, <1>3, <1>4 DEF Next, Step

(* No process waits in SQLite for a guard that a call of its own holds:    *)
(* both would be at the head of one line of `operations`.                  *)
THEOREM NoProcessBlocksItself == Spec => []NoSelfBlock
<1>1. TypeOK /\ LineInv => NoSelfBlock
  <2> SUFFICES ASSUME TypeOK, LineInv, NEW c \in Call, NEW d \in Call,
                      pc[c] = "blocked", guard[key[c]] = d, ProcOf[d] = ProcOf[c]
               PROVE  FALSE
    BY DEF NoSelfBlock
  <2>1. key[d] = key[c] /\ pc[d] \in Guarded
    BY NoCallAssumption DEF LineInv, TypeOK
  <2>2. c # d /\ SameLine(c, d) /\ SameLine(d, c) /\ pred[c] = NoCall /\ pred[d] = NoCall
    BY <2>1 DEF SameLine, Guarded, LineInv
  <2>3. PICK rank \in [Call -> Nat] : InOrder(rank)
    BY DEF LineInv
  <2>4. rank[c] <= rank[d] /\ rank[d] <= rank[c] /\ rank[c] # rank[d]
    BY <2>2, <2>3 DEF InOrder, SameLine
  <2> QED BY <2>3, <2>4
<1>2. Init => LineInv
  BY InitLine
<1>3. TypeOK /\ LineInv /\ [Next]_vars => LineInv'
  BY NextLine
<1> QED BY <1>1, <1>2, <1>3, TypeCorrect, PTL DEF Spec
=============================================================================
