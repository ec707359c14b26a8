------------------------ MODULE ConnectorClientsProofs ------------------------
(***************************************************************************)
(* Theorems about ConnectorClients for any number of sessions, clients,    *)
(* calls and watchers.                                                     *)
(*                                                                         *)
(* CallsOK and BootOK say what a call and the start hold where they are,   *)
(* WatchersOK what a watcher's loop holds, OneSession that a client is one *)
(* session's for good, Overlap which sessions count as mixed, and Seeding  *)
(* what a seeding may rely on.                                             *)
(***************************************************************************)
EXTENDS ConnectorClients, TLAPS

CallsOK == \A k \in Call :
    /\ pc[k] = "new" => session[k] = Null /\ client[k] = Null
    /\ pc[k] # "new" => session[k] \in Session /\ pc[Boot] = "serve"
    /\ pc[k] \in Inside => ~Alone
    /\ pc[k] = "select" => client[k] = Null
    /\ pc[k] \in (Inside \ {"select"}) \cup {"run"} => client[k] \in Client
    /\ pc[k] \notin {"serve", "refuse"}

BootOK ==
    /\ pc[Boot] \notin {"select", "run", "done"}
    /\ pc[Boot] \in {"current", "adopt", "choose", "rollback"} => Alone
    /\ pc[Boot] = "new" => ~Alone
    /\ pc[Boot] # "serve" => seeded = {} /\ \A w \in Watcher : at[w] = "new"
    /\ pc[Boot] \in {"adopt", "choose"} => bound[client[Boot]] = Null

WatchersOK ==
    /\ \A w \in Watcher : at[w] # "new" => of[w] \in Client
    /\ closing => pc[Boot] \in {"serve", "refuse"}
    /\ closing /\ ~caught => \A k \in Call : pc[k] \notin Inside

OneSession == ~Alone =>
    /\ \A s \in Session : owner[s] # Null => owner[s] \in issued
    /\ \A s, r \in Session : owner[s] = owner[r] => s = r \/ owner[s] = Null
    /\ \A k \in Call : client[k] # Null =>
          /\ client[k] \in issued
          /\ \A s \in Session : owner[s] = client[k] => session[k] = s
          /\ \A j \in Call : client[j] = client[k] => session[j] = session[k]

Overlap == \A j, k \in Call :
    j # k /\ session[j] = session[k] /\ {pc[j], pc[k]} \cap {"new", "done"} = {} =>
        session[k] \in mixed

Seeding == \A k \in Call : session[k] \notin mixed =>
    /\ pc[k] \in {"current", "adopt", "choose"} => client[k] \notin seeded
    /\ pc[k] \in {"adopt", "choose"} => bound[client[k]] = Null

IInv == /\ TypeOK /\ NoRunaway
        /\ CallsOK /\ BootOK /\ WatchersOK
        /\ OneSession /\ Overlap /\ Seeding

LEMMA StartStep ==
    ASSUME IInv, NEW k \in Call, Start(k)
    PROVE  IInv'
    <1> USE DEF Start, daemon, memories, watchers, bounds, Goto, Alone
    <1>0. TypeOK /\ NoRunaway /\ CallsOK /\ BootOK /\ WatchersOK /\ OneSession /\ Overlap /\ Seeding
        BY DEF IInv
    <1>b. Boot \in Task /\ Boot \notin Call /\ Call \subseteq Task /\ Null \notin Client /\ Null \notin Session
        BY BootAssumption, NullAssumption DEF Task
    <1>1. TypeOK'
        <2>w. PICK x \in Workload : /\ x.call = k /\ session' = [session EXCEPT ![k] = x.session]
                                   /\ tool' = [tool EXCEPT ![k] = x.tool]
                                   /\ mixed' = IF \E j \in Call : session[j] = x.session /\ pc[j] # "done"
                                               THEN mixed \cup {x.session} ELSE mixed
            OBVIOUS
        <2>x. x.session \in Session /\ x.tool \in Identity \cup {Work}  BY WorkloadAssumption
        <2>1. session' \in [Call -> Session \cup {Null}] /\ tool' \in [Call -> Identity \cup {Work}]
            BY <2>w, <2>x, <1>0 DEF TypeOK
        <2>2. mixed' \in SUBSET Session  BY <2>w, <2>x, <1>0 DEF TypeOK
        <2>3. client' \in [Task -> Client \cup {Null}] /\ pc' \in [Task -> Inside \cup {"new", "run", "done", "serve", "refuse"}]
            BY <1>0, <1>b DEF TypeOK, Inside
        <2> QED  BY <2>1, <2>2, <2>3, <1>0 DEF TypeOK
    <1>2. NoRunaway'  BY <1>0, <1>b DEF NoRunaway, Runs, Alone, TypeOK, WatchersOK, BootOK
    <1>3. CallsOK'
        <2>w. PICK x \in Workload : /\ x.call = k /\ session' = [session EXCEPT ![k] = x.session]
                                   /\ tool' = [tool EXCEPT ![k] = x.tool]
                                   /\ mixed' = IF \E j \in Call : session[j] = x.session /\ pc[j] # "done"
                                               THEN mixed \cup {x.session} ELSE mixed
            OBVIOUS
        <2>x. x.session \in Session /\ x.tool \in Identity \cup {Work}  BY WorkloadAssumption
        <2>1. /\ session'[k] = x.session /\ client'[k] = client[Boot] /\ pc'[Boot] = pc[Boot]
              /\ pc'[k] = (IF Alone THEN "run" ELSE "select") /\ client'[Boot] = client[Boot]
              /\ \A j \in Call \ {k} : session'[j] = session[j] /\ client'[j] = client[j] /\ pc'[j] = pc[j]
            BY <2>w, <1>0, <1>b DEF TypeOK
        <2>2. client[Boot] \in Client \cup {Null}  BY <1>0, <1>b DEF TypeOK
        <2> QED  BY <2>1, <2>2, <2>x, <1>0 DEF CallsOK, Inside
    <1>4. BootOK'  BY <1>0, <1>b DEF BootOK, CallsOK, Alone, TypeOK
    <1>5. WatchersOK'  BY <1>0, <1>b DEF WatchersOK, CallsOK, BootOK, TypeOK, Inside
    <1>6. OneSession'  BY <1>0, <1>b DEF OneSession, CallsOK, Alone, TypeOK, Inside
    <1>7. Overlap'
        <2>w. PICK x \in Workload : /\ x.call = k /\ session' = [session EXCEPT ![k] = x.session]
                                   /\ tool' = [tool EXCEPT ![k] = x.tool]
                                   /\ mixed' = IF \E j \in Call : session[j] = x.session /\ pc[j] # "done"
                                               THEN mixed \cup {x.session} ELSE mixed
            OBVIOUS
        <2>x. x.session \in Session /\ x.tool \in Identity \cup {Work}  BY WorkloadAssumption
        <2>1. /\ session'[k] = x.session
              /\ \A j \in Call \ {k} : session'[j] = session[j] /\ pc'[j] = pc[j]
            BY <2>w, <1>0, <1>b DEF TypeOK
        <2>2. mixed \subseteq mixed'  BY <2>w
        <2>3. ASSUME NEW j \in Call \ {k}, session[j] = x.session, pc[j] # "done"
              PROVE  x.session \in mixed'
            BY <2>3, <2>w
        <2>4. ASSUME NEW j \in Call, NEW i \in Call, j # i, session'[j] = session'[i],
                     {pc'[j], pc'[i]} \cap {"new", "done"} = {}
              PROVE  session'[i] \in mixed'
            <3>1. CASE j # k /\ i # k  BY <3>1, <2>1, <2>2, <2>4, <1>0 DEF Overlap
            <3>2. CASE j = k  BY <3>2, <2>1, <2>3, <2>4
            <3>3. CASE i = k
                <4>1. j \in Call \ {k} /\ session[j] = x.session /\ pc[j] # "done"
                    BY <3>3, <2>1, <2>4
                <4> QED  BY <4>1, <3>3, <2>1, <2>3
            <3> QED  BY <3>1, <3>2, <3>3
        <2> QED  BY <2>4 DEF Overlap
    <1>8. Seeding'  BY <1>0, <1>b DEF Seeding, Overlap, OneSession, CallsOK, BootOK, TypeOK, Inside
    <1> QED  BY <1>1, <1>2, <1>3, <1>4, <1>5, <1>6, <1>7, <1>8 DEF IInv

LEMMA SelectStep ==
    ASSUME IInv, NEW k \in Call, Select(k)
    PROVE  IInv'
    <1> USE DEF Select, memories, watchers, history, bounds, Goto, Trouble, OwnerOf
    <1>0. TypeOK /\ NoRunaway /\ CallsOK /\ BootOK /\ WatchersOK /\ OneSession /\ Overlap /\ Seeding
        BY DEF IInv
    <1>b. Boot \in Task /\ Boot \notin Call /\ Call \subseteq Task /\ Null \notin Client /\ Null \notin Session
        BY BootAssumption, NullAssumption DEF Task
    <1>s. CASE Goto(k, "done") /\ UNCHANGED <<owner, issued, client>> /\ (Trouble \/ UNCHANGED bounds)
        <2>1. TypeOK'  BY <1>s, <1>0, <1>b DEF TypeOK, Inside
        <2>2. NoRunaway'  BY <1>s, <1>0, <1>b DEF NoRunaway, Runs, Alone, TypeOK
        <2>3. CallsOK'  BY <1>s, <1>0, <1>b DEF CallsOK, Alone, TypeOK, Inside
        <2>4. BootOK'  BY <1>s, <1>0, <1>b DEF BootOK, CallsOK, Alone, TypeOK
        <2>5. WatchersOK'  BY <1>s, <1>0, <1>b DEF WatchersOK, TypeOK, Inside
        <2>6. OneSession'  BY <1>s, <1>0, <1>b DEF OneSession, Alone
        <2>7. Overlap'  BY <1>s, <1>0, <1>b DEF Overlap, TypeOK
        <2>8. Seeding'  BY <1>s, <1>0, <1>b DEF Seeding, TypeOK
        <2> QED  BY <2>1, <2>2, <2>3, <2>4, <2>5, <2>6, <2>7, <2>8 DEF IInv
    <1> DEFINE c == OwnerOf(session[k])
    <1>t. CASE /\ owner[session[k]] # Null \/ issued # Client
               /\ owner' = [owner EXCEPT ![session[k]] = c]
               /\ issued' = issued \cup {c}
               /\ client' = [client EXCEPT ![k] = c]
               /\ Goto(k, IF c \in seeded THEN "ready" ELSE "current")
               /\ UNCHANGED bounds
        <2>p. session[k] \in Session /\ client[k] = Null /\ ~Alone /\ pc[Boot] = "serve"
            BY <1>0 DEF CallsOK, Inside
        <2>c. c \in Client /\ (c = owner[session[k]] \/ (c \notin issued /\ owner[session[k]] = Null))
            BY <1>t, <2>p, <1>0 DEF TypeOK
        <2>d. c # Null  BY <2>c, <1>b
        <2> HIDE DEF c
        <2>e. /\ client'[k] = c /\ client'[Boot] = client[Boot] /\ pc'[Boot] = pc[Boot]
              /\ pc'[k] = (IF c \in seeded THEN "ready" ELSE "current")
              /\ owner'[session[k]] = c
              /\ \A s \in Session \ {session[k]} : owner'[s] = owner[s]
              /\ \A j \in Call \ {k} : client'[j] = client[j] /\ pc'[j] = pc[j]
              /\ session' = session /\ issued' = issued \cup {c} /\ mixed' = mixed /\ seeded' = seeded
              /\ bound' = bound
            BY <1>t, <2>p, <1>0, <1>b DEF TypeOK
        <2>1. TypeOK'  BY <1>t, <2>c, <2>p, <1>0, <1>b DEF TypeOK, Inside
        <2>2. NoRunaway'  BY <2>e, <1>0 DEF NoRunaway, Runs, Alone
        <2>3. CallsOK'  BY <2>e, <2>p, <2>c, <1>0 DEF CallsOK, Inside, Alone
        <2>4. BootOK'  BY <2>e, <2>p, <1>0 DEF BootOK
        <2>5. WatchersOK'  BY <2>e, <1>0 DEF WatchersOK, Inside
        <2>6. OneSession'
            <3>o. OneSession /\ ~Alone  BY <1>0, <2>p
            <3>1. ASSUME NEW s \in Session, owner'[s] # Null PROVE owner'[s] \in issued'
                BY <3>1, <3>o, <2>e DEF OneSession
            <3>2. ASSUME NEW s \in Session, NEW r \in Session, owner'[s] = owner'[r]
                  PROVE  s = r \/ owner'[s] = Null
                BY <3>2, <3>o, <2>e, <2>c, <2>d, <2>p DEF OneSession
            <3>3. ASSUME NEW j \in Call, client'[j] # Null
                  PROVE  /\ client'[j] \in issued'
                         /\ \A s \in Session : owner'[s] = client'[j] => session'[j] = s
                         /\ \A i \in Call : client'[i] = client'[j] => session'[i] = session'[j]
                <4>1. CASE j = k
                    <5>1. \A s \in Session : owner'[s] = c => session[k] = s
                        BY <3>o, <2>e, <2>c, <2>d, <2>p DEF OneSession
                    <5>2. \A i \in Call : client'[i] = c => session[i] = session[k]
                        BY <3>o, <2>e, <2>c, <2>d, <2>p DEF OneSession
                    <5> QED  BY <4>1, <5>1, <5>2, <2>e
                <4>2. CASE j # k
                    <5>1. client[j] # Null /\ client'[j] = client[j] /\ client[j] \in issued
                        BY <4>2, <3>3, <3>o, <2>e DEF OneSession
                    <5>2. \A s \in Session : owner'[s] = client[j] => session[j] = s
                        BY <5>1, <3>o, <2>e, <2>c, <2>p DEF OneSession
                    <5>3. client[j] = c => session[j] = session[k]
                        BY <5>1, <3>o, <2>c, <2>p DEF OneSession
                    <5>4. \A i \in Call : client'[i] = client[j] => session[i] = session[j]
                        BY <5>1, <5>3, <3>o, <2>e DEF OneSession
                    <5> QED  BY <5>1, <5>2, <5>4, <2>e
                <4> QED  BY <4>1, <4>2
            <3> QED  BY <3>1, <3>2, <3>3 DEF OneSession
        <2>7. Overlap'
            <3>1. pc[k] \notin {"new", "done"} /\ pc'[k] \notin {"new", "done"}  BY <2>e
            <3> QED  BY <3>1, <2>e, <1>0 DEF Overlap
        <2>8. Seeding'  BY <2>e, <1>0 DEF Seeding
        <2> QED  BY <2>1, <2>2, <2>3, <2>4, <2>5, <2>6, <2>7, <2>8 DEF IInv
    <1> QED  BY <1>s, <1>t

LEMMA ReadyStep ==
    ASSUME IInv, NEW k \in Call, Ready(k)
    PROVE  IInv'
    <1> USE DEF Ready, daemon, watchers, history, bounds, Goto, Look, Halt, Watched, NewWatchers,
                NewWatcher, Watch
    <1>0. TypeOK /\ NoRunaway /\ CallsOK /\ BootOK /\ WatchersOK /\ OneSession /\ Overlap /\ Seeding
        BY DEF IInv
    <1>b. Boot \in Task /\ Boot \notin Call /\ Call \subseteq Task /\ Null \notin Client /\ Null \notin Session
        BY BootAssumption, NullAssumption DEF Task
    <1>p. session[k] \in Session /\ client[k] \in Client /\ ~Alone /\ pc[Boot] = "serve"
        BY <1>0 DEF CallsOK, Inside
    <1>1. TypeOK'
        <2>1. CASE UNCHANGED watchers  BY <2>1, <1>0, <1>p, <1>b DEF TypeOK, Inside
        <2>2. CASE ~UNCHANGED watchers
            <3> DEFINE w == NewWatcher
            <3>1. w \in Watcher  BY <2>2
            <3> HIDE DEF w
            <3>2. /\ slot' = [slot EXCEPT ![session[k]] = w]
                  /\ registered' = (registered \ {slot[session[k]]}) \cup {w}
                  /\ of' = [of EXCEPT ![w] = client[k]] /\ event' = event
                  /\ at' = [at EXCEPT ![w] = IF memory[client[k]] = Null THEN "sleep" ELSE "watch"]
                  /\ watching' = [watching EXCEPT ![w] = memory[client[k]]]
                  /\ stopped' = [v \in Watcher |-> stopped[v] \/ v \in {slot[session[k]]}]
                BY <2>2 DEF w
            <3>3. slot' \in [Session -> Watcher \cup {Null}] /\ registered' \in SUBSET Watcher
                BY <3>1, <3>2, <1>0 DEF TypeOK
            <3>4. of' \in [Watcher -> Client \cup {Null}] /\ watching' \in [Watcher -> Identity \cup {Null}]
                BY <3>1, <3>2, <1>0, <1>p DEF TypeOK
            <3>5. at' \in [Watcher -> {"new", "sleep", "watch", "retry", "end"}]
                BY <3>1, <3>2, <1>0 DEF TypeOK
            <3>6. stopped' \in [Watcher -> BOOLEAN]  BY <3>2, <1>0 DEF TypeOK
            <3>7. pc' \in [Task -> Inside \cup {"new", "run", "done", "serve", "refuse"}]
                BY <1>0, <1>b DEF TypeOK, Inside
            <3>8. seeded' \in SUBSET Client  BY <1>0, <1>p DEF TypeOK
            <3> QED  BY <3>2, <3>3, <3>4, <3>5, <3>6, <3>7, <3>8, <1>0 DEF TypeOK
        <2> QED  BY <2>1, <2>2
    <1>2. NoRunaway'
        <2>1. CASE UNCHANGED watchers  BY <2>1, <1>0, <1>p, <1>b DEF NoRunaway, Runs, Alone, TypeOK
        <2>2. CASE ~UNCHANGED watchers
            <3> DEFINE w == NewWatcher
            <3>1. w \in Watcher  BY <2>2
            <3> HIDE DEF w
            <3>2. /\ slot' = [slot EXCEPT ![session[k]] = w]
                  /\ registered' = (registered \ {slot[session[k]]}) \cup {w}
                  /\ of' = [of EXCEPT ![w] = client[k]]
                  /\ at' = [at EXCEPT ![w] = IF memory[client[k]] = Null THEN "sleep" ELSE "watch"]
                  /\ stopped' = [v \in Watcher |-> stopped[v] \/ v \in {slot[session[k]]}]
                BY <2>2 DEF w
            <3>3. /\ slot'[session[k]] = w /\ of'[w] = client[k] /\ w \in registered'
                  /\ \A s \in Session \ {session[k]} : slot'[s] = slot[s]
                  /\ \A v \in Watcher \ {w} : of'[v] = of[v] /\ at'[v] = at[v]
                  /\ \A v \in Watcher : stopped'[v] = (stopped[v] \/ v = slot[session[k]])
                BY <3>1, <3>2, <1>0, <1>p DEF TypeOK
            <3>4. closing' = closing /\ caught' = caught /\ client' = client
                OBVIOUS
            <3>5. closing => caught  BY <1>0 DEF WatchersOK, Inside
            <3>6. ASSUME NEW v \in Watcher, Runs(v)'
                  PROVE  v \in registered' /\ (\E s \in Session : slot'[s] = v) /\ (closing => caught)
                <4>1. CASE v = w  BY <4>1, <3>3, <3>5, <1>p
                <4>2. CASE v # w
                    <5>1. Runs(v) /\ v # slot[session[k]]  BY <4>2, <3>6, <3>3 DEF Runs
                    <5>2. v \in registered /\ \E s \in Session : slot[s] = v
                        BY <5>1, <1>0, <1>p DEF NoRunaway
                    <5> QED  BY <5>1, <5>2, <3>2, <3>3, <3>5
                <4> QED  BY <4>1, <4>2
            <3> QED  BY <3>4, <3>6, <1>p DEF NoRunaway, Alone
        <2> QED  BY <2>1, <2>2
    <1>3. CallsOK'  BY <1>0, <1>b DEF CallsOK, Alone, TypeOK, Inside
    <1>4. BootOK'  BY <1>0, <1>b DEF BootOK, CallsOK, Alone, TypeOK
    <1>5. WatchersOK'
        <2>1. CASE UNCHANGED watchers  BY <2>1, <1>0, <1>p, <1>b DEF WatchersOK, Inside, TypeOK
        <2>2. CASE ~UNCHANGED watchers
            <3> DEFINE w == NewWatcher
            <3>1. w \in Watcher  BY <2>2
            <3> HIDE DEF w
            <3>2. /\ slot' = [slot EXCEPT ![session[k]] = w]
                  /\ registered' = (registered \ {slot[session[k]]}) \cup {w}
                  /\ of' = [of EXCEPT ![w] = client[k]]
                  /\ at' = [at EXCEPT ![w] = IF memory[client[k]] = Null THEN "sleep" ELSE "watch"]
                  /\ stopped' = [v \in Watcher |-> stopped[v] \/ v \in {slot[session[k]]}]
                BY <2>2 DEF w
            <3>3. /\ slot'[session[k]] = w /\ of'[w] = client[k] /\ w \in registered'
                  /\ \A s \in Session \ {session[k]} : slot'[s] = slot[s]
                  /\ \A v \in Watcher \ {w} : of'[v] = of[v] /\ at'[v] = at[v]
                  /\ \A v \in Watcher : stopped'[v] = (stopped[v] \/ v = slot[session[k]])
                BY <3>1, <3>2, <1>0, <1>p DEF TypeOK
            <3>4. closing' = closing /\ caught' = caught /\ client' = client
                OBVIOUS
            <3>5. pc'[Boot] = pc[Boot] /\ pc'[k] = "run" /\ \A j \in Call \ {k} : pc'[j] = pc[j]
                BY <1>0, <1>b DEF TypeOK
            <3> QED  BY <3>3, <3>4, <3>5, <1>0, <1>p DEF WatchersOK, Inside
        <2> QED  BY <2>1, <2>2
    <1>6. OneSession'  BY <1>0, <1>b DEF OneSession, CallsOK, Alone, TypeOK, Inside
    <1>7. Overlap'  BY <1>0, <1>b DEF Overlap, CallsOK, TypeOK
    <1>8. Seeding'  BY <1>0, <1>b DEF Seeding, Overlap, OneSession, CallsOK, BootOK, TypeOK, Inside
    <1> QED  BY <1>1, <1>2, <1>3, <1>4, <1>5, <1>6, <1>7, <1>8 DEF IInv

LEMMA RunStep ==
    ASSUME IInv, NEW k \in Call, Run(k)
    PROVE  IInv'
    <1> USE DEF Run, watchers, history, bounds, Goto, Trouble, Live, Available, RequestFails,
                MayBind, Bind, Remember, Learn, RunWork, RunChoose
    <1>0. TypeOK /\ NoRunaway /\ CallsOK /\ BootOK /\ WatchersOK /\ OneSession /\ Overlap /\ Seeding
        BY DEF IInv
    <1>b. Boot \in Task /\ Boot \notin Call /\ Call \subseteq Task /\ Null \notin Client /\ Null \notin Session
        BY BootAssumption, NullAssumption DEF Task
    <1>1. TypeOK'  BY <1>0, <1>b DEF TypeOK, CallsOK, WatchersOK, Inside, Task
    <1>2. NoRunaway'  BY <1>0, <1>b DEF NoRunaway, Runs, Alone, TypeOK, WatchersOK, BootOK
    <1>3. CallsOK'  BY <1>0, <1>b DEF CallsOK, Alone, TypeOK, Inside
    <1>4. BootOK'  BY <1>0, <1>b DEF BootOK, CallsOK, Alone, TypeOK
    <1>5. WatchersOK'
        <2>1. pc'[Boot] = pc[Boot] /\ pc'[k] = "done" /\ \A j \in Call \ {k} : pc'[j] = pc[j]
            BY <1>0, <1>b DEF TypeOK
        <2>2. at' = at /\ of' = of /\ closing' = closing /\ caught' = caught  OBVIOUS
        <2> QED  BY <2>1, <2>2, <1>0 DEF WatchersOK, Inside
    <1>6. OneSession'  BY <1>0, <1>b DEF OneSession, CallsOK, Alone, TypeOK, Inside
    <1>7. Overlap'  BY <1>0, <1>b DEF Overlap, CallsOK, TypeOK
    <1>8. Seeding'  BY <1>0, <1>b DEF Seeding, Overlap, OneSession, CallsOK, BootOK, TypeOK, Inside
    <1> QED  BY <1>1, <1>2, <1>3, <1>4, <1>5, <1>6, <1>7, <1>8 DEF IInv

LEMMA CurrentStep ==
    ASSUME IInv, NEW k \in Task, Current(k)
    PROVE  IInv'
    <1> USE DEF Current, daemon, watchers, history, bounds, Goto, Trouble, Live, RequestFails
    <1>0. TypeOK /\ NoRunaway /\ CallsOK /\ BootOK /\ WatchersOK /\ OneSession /\ Overlap /\ Seeding
        BY DEF IInv
    <1>b. Boot \in Task /\ Boot \notin Call /\ Call \subseteq Task /\ Null \notin Client /\ Null \notin Session
        BY BootAssumption, NullAssumption DEF Task
    <1>1. TypeOK'  BY <1>0, <1>b DEF TypeOK, CallsOK, WatchersOK, Inside, Task
    <1>2. NoRunaway'  BY <1>0, <1>b DEF NoRunaway, Runs, Alone, TypeOK, WatchersOK, BootOK
    <1>3. CallsOK'  BY <1>0, <1>b DEF CallsOK, Alone, TypeOK, Inside
    <1>4. BootOK'  BY <1>0, <1>b DEF BootOK, CallsOK, Alone, TypeOK
    <1>5. WatchersOK'  BY <1>0, <1>b DEF WatchersOK, CallsOK, BootOK, TypeOK, Inside
    <1>6. OneSession'  BY <1>0, <1>b DEF OneSession, CallsOK, Alone, TypeOK, Inside
    <1>7. Overlap'  BY <1>0, <1>b DEF Overlap, CallsOK, TypeOK
    <1>8. Seeding'  BY <1>0, <1>b DEF Seeding, Overlap, OneSession, CallsOK, BootOK, TypeOK, Inside
    <1> QED  BY <1>1, <1>2, <1>3, <1>4, <1>5, <1>6, <1>7, <1>8 DEF IInv

LEMMA AdoptStep ==
    ASSUME IInv, NEW k \in Task, Adopt(k)
    PROVE  IInv'
    <1> USE DEF Adopt, daemon, memories, watchers, history, bounds, Goto, Trouble, Refused
    <1>0. TypeOK /\ NoRunaway /\ CallsOK /\ BootOK /\ WatchersOK /\ OneSession /\ Overlap /\ Seeding
        BY DEF IInv
    <1>b. Boot \in Task /\ Boot \notin Call /\ Call \subseteq Task /\ Null \notin Client /\ Null \notin Session
        BY BootAssumption, NullAssumption DEF Task
    <1>1. TypeOK'  BY <1>0, <1>b DEF TypeOK, CallsOK, WatchersOK, Inside, Task
    <1>2. NoRunaway'  BY <1>0, <1>b DEF NoRunaway, Runs, Alone, TypeOK, WatchersOK, BootOK
    <1>3. CallsOK'  BY <1>0, <1>b DEF CallsOK, Alone, TypeOK, Inside
    <1>4. BootOK'  BY <1>0, <1>b DEF BootOK, CallsOK, Alone, TypeOK
    <1>5. WatchersOK'  BY <1>0, <1>b DEF WatchersOK, CallsOK, BootOK, TypeOK, Inside
    <1>6. OneSession'  BY <1>0, <1>b DEF OneSession, CallsOK, Alone, TypeOK, Inside
    <1>7. Overlap'  BY <1>0, <1>b DEF Overlap, CallsOK, TypeOK
    <1>8. Seeding'  BY <1>0, <1>b DEF Seeding, Overlap, OneSession, CallsOK, BootOK, TypeOK, Inside
    <1> QED  BY <1>1, <1>2, <1>3, <1>4, <1>5, <1>6, <1>7, <1>8 DEF IInv

LEMMA ChooseStep ==
    ASSUME IInv, NEW k \in Task, Choose(k)
    PROVE  IInv'
    <1> USE DEF Choose, watchers, history, bounds, Goto, Trouble, Live, Available, Refused,
                MayBind, Bind, Remember
    <1>0. TypeOK /\ NoRunaway /\ CallsOK /\ BootOK /\ WatchersOK /\ OneSession /\ Overlap /\ Seeding
        BY DEF IInv
    <1>b. Boot \in Task /\ Boot \notin Call /\ Call \subseteq Task /\ Null \notin Client /\ Null \notin Session
        BY BootAssumption, NullAssumption DEF Task
    <1>p. client[k] \in Client /\ pc[k] = "choose"
        BY <1>0, <1>b DEF CallsOK, BootOK, Alone, Inside, TypeOK, Task
    <1>q. /\ bound' = [bound EXCEPT ![client[k]] = Seed] \/ bound' = bound
          /\ memory' = [memory EXCEPT ![client[k]] = Seed] \/ memory' = memory
          /\ \E next \in {"ready", "rollback"} : pc' = [pc EXCEPT ![k] = next]
          /\ (troubles' = troubles + 1 \/ troubles' = troubles) /\ arrivals' = arrivals
          /\ UNCHANGED <<owner, issued, seeded, session, tool, client, watchers, closing, history>>
        OBVIOUS
    <1>1. TypeOK'
        <2>1. bound' \in [Client -> Identity \cup {Null}] /\ memory' \in [Client -> Identity \cup {Null}]
            BY <1>q, <1>0, SeedAssumption DEF TypeOK
        <2>2. pc' \in [Task -> Inside \cup {"new", "run", "done", "serve", "refuse"}]
            BY <1>q, <1>0 DEF TypeOK, Inside
        <2>3. troubles' \in Nat /\ arrivals' \in Nat  BY <1>q, <1>0 DEF TypeOK
        <2> QED  BY <2>1, <2>2, <2>3, <1>q, <1>0 DEF TypeOK
    <1>r. /\ pc'[k] \in {"ready", "rollback"} /\ \A j \in Task \ {k} : pc'[j] = pc[j]
          /\ \A c \in Client \ {client[k]} : bound'[c] = bound[c]
        BY <1>p, <1>q, <1>0 DEF TypeOK
    <1>2. NoRunaway'  BY <1>0, <1>b DEF NoRunaway, Runs, Alone, TypeOK, WatchersOK, BootOK
    <1>3. CallsOK'  BY <1>0, <1>b DEF CallsOK, Alone, TypeOK, Inside
    <1>4. BootOK'
        <2>1. CASE k = Boot  BY <2>1, <1>p, <1>q, <1>r, <1>0, <1>b DEF BootOK, Alone
        <2>2. CASE k # Boot
            <3>1. k \in Call /\ pc[Boot] = "serve"  BY <2>2, <1>p, <1>0 DEF Task, CallsOK
            <3>2. pc'[Boot] = "serve"  BY <3>1, <2>2, <1>r, <1>b
            <3> QED  BY <3>2 DEF BootOK
        <2> QED  BY <2>1, <2>2
    <1>5. WatchersOK'  BY <1>0, <1>b DEF WatchersOK, CallsOK, BootOK, TypeOK, Inside
    <1>6. OneSession'  BY <1>0, <1>b DEF OneSession, CallsOK, Alone, TypeOK, Inside
    <1>7. Overlap'  BY <1>0, <1>b DEF Overlap, CallsOK, TypeOK
    <1>8. Seeding'
        <2>1. ASSUME NEW j \in Call, session[j] \notin mixed, pc'[j] \in {"current", "adopt", "choose"}
              PROVE  /\ client[j] \notin seeded
                     /\ pc'[j] \in {"adopt", "choose"} => bound'[client[j]] = Null
            <3>1. j # k /\ pc'[j] = pc[j]  BY <2>1, <1>r, <1>b
            <3>2. client[j] \in Client /\ ~Alone /\ pc[Boot] = "serve"
                BY <2>1, <3>1, <1>0 DEF CallsOK, Inside
            <3>3. k \in Call  BY <3>2, <1>p DEF Task
            <3>4. client[j] # client[k]
                <4> SUFFICES ASSUME client[j] = client[k] PROVE FALSE  OBVIOUS
                <4>1. session[j] = session[k]  BY <3>2, <3>3, <1>0, <1>b, <1>p DEF OneSession
                <4> QED  BY <4>1, <3>1, <3>3, <1>p, <2>1, <1>0 DEF Overlap
            <3>5. bound'[client[j]] = bound[client[j]]  BY <3>2, <3>4, <1>r
            <3> QED  BY <2>1, <3>1, <3>5, <1>0 DEF Seeding
        <2> QED  BY <2>1, <1>q DEF Seeding
    <1> QED  BY <1>1, <1>2, <1>3, <1>4, <1>5, <1>6, <1>7, <1>8 DEF IInv

LEMMA RollbackStep ==
    ASSUME IInv, NEW k \in Task, Rollback(k)
    PROVE  IInv'
    <1> USE DEF Rollback, daemon, memories, watchers, history, bounds, Goto
    <1>0. TypeOK /\ NoRunaway /\ CallsOK /\ BootOK /\ WatchersOK /\ OneSession /\ Overlap /\ Seeding
        BY DEF IInv
    <1>b. Boot \in Task /\ Boot \notin Call /\ Call \subseteq Task /\ Null \notin Client /\ Null \notin Session
        BY BootAssumption, NullAssumption DEF Task
    <1>1. TypeOK'  BY <1>0, <1>b DEF TypeOK, CallsOK, WatchersOK, Inside, Task
    <1>2. NoRunaway'  BY <1>0, <1>b DEF NoRunaway, Runs, Alone, TypeOK, WatchersOK, BootOK
    <1>3. CallsOK'  BY <1>0, <1>b DEF CallsOK, Alone, TypeOK, Inside
    <1>4. BootOK'  BY <1>0, <1>b DEF BootOK, CallsOK, Alone, TypeOK
    <1>5. WatchersOK'  BY <1>0, <1>b DEF WatchersOK, CallsOK, BootOK, TypeOK, Inside
    <1>6. OneSession'  BY <1>0, <1>b DEF OneSession, CallsOK, Alone, TypeOK, Inside
    <1>7. Overlap'  BY <1>0, <1>b DEF Overlap, CallsOK, TypeOK
    <1>8. Seeding'  BY <1>0, <1>b DEF Seeding, Overlap, OneSession, CallsOK, BootOK, TypeOK, Inside
    <1> QED  BY <1>1, <1>2, <1>3, <1>4, <1>5, <1>6, <1>7, <1>8 DEF IInv

LEMMA OpenStep ==
    ASSUME IInv, Open
    PROVE  IInv'
    <1> USE DEF Open, daemon, memories, watchers, history, bounds, Goto, Trouble, Profile, Attach
    <1>0. TypeOK /\ NoRunaway /\ CallsOK /\ BootOK /\ WatchersOK /\ OneSession /\ Overlap /\ Seeding
        BY DEF IInv
    <1>b. Boot \in Task /\ Boot \notin Call /\ Call \subseteq Task /\ Null \notin Client /\ Null \notin Session
        BY BootAssumption, NullAssumption DEF Task
    <1>1. TypeOK'
        <2>1. \A s \in Session : owner[s] # Null => owner[s] \in Client  BY <1>0 DEF TypeOK
        <2>2. client' \in [Task -> Client \cup {Null}]
            <3>1. \/ client' = client
                  \/ \E s \in Session : owner[s] # Null /\ client' = [client EXCEPT ![Boot] = owner[s]]
                BY BootAssumption
            <3> QED  BY <3>1, <2>1, <1>0 DEF TypeOK
        <2>3. pc' \in [Task -> Inside \cup {"new", "run", "done", "serve", "refuse"}]
            BY <1>0, <1>b DEF TypeOK, Inside
        <2>4. arrivals' \in Nat /\ troubles' \in Nat  BY <1>0 DEF TypeOK
        <2> QED  BY <2>2, <2>3, <2>4, <1>0 DEF TypeOK
    <1>2. NoRunaway'
        <2>1. \A w \in Watcher : at'[w] = "new"  BY <1>0 DEF BootOK
        <2> QED  BY <2>1 DEF NoRunaway, Runs
    <1>3. CallsOK'  BY <1>0, <1>b DEF CallsOK, Alone, TypeOK, Inside
    <1>4. BootOK'  BY <1>0, <1>b DEF BootOK, CallsOK, Alone, TypeOK
    <1>5. WatchersOK'  BY <1>0, <1>b DEF WatchersOK, CallsOK, BootOK, TypeOK, Inside
    <1>6. OneSession'  BY <1>0, <1>b DEF OneSession, CallsOK, Alone, TypeOK, Inside
    <1>7. Overlap'  BY <1>0, <1>b DEF Overlap, CallsOK, TypeOK
    <1>8. Seeding'  BY <1>0, <1>b DEF Seeding, Overlap, OneSession, CallsOK, BootOK, TypeOK, Inside
    <1> QED  BY <1>1, <1>2, <1>3, <1>4, <1>5, <1>6, <1>7, <1>8 DEF IInv

LEMMA ServeStep ==
    ASSUME IInv, Serve
    PROVE  IInv'
    <1> USE DEF Serve, daemon, memories, watchers, history, bounds, Goto, Alone, Look,
                NewWatchers, NewWatcher, WatchAlone
    <1>0. TypeOK /\ NoRunaway /\ CallsOK /\ BootOK /\ WatchersOK /\ OneSession /\ Overlap /\ Seeding
        BY DEF IInv
    <1>b. Boot \in Task /\ Boot \notin Call /\ Call \subseteq Task /\ Null \notin Client /\ Null \notin Session
        BY BootAssumption, NullAssumption DEF Task
    <1>p. client[Boot] \in Client \cup {Null}  BY <1>0, <1>b DEF TypeOK
    <1>1. TypeOK'
        <2>1. CASE ~Alone  BY <2>1, <1>0, <1>b DEF TypeOK, Inside
        <2>2. CASE Alone
            <3> DEFINE w == NewWatcher
            <3>1. w \in Watcher /\ client[Boot] \in Client  BY <2>2, <1>p
            <3> HIDE DEF w
            <3>2. /\ registered' = registered \cup {w} /\ UNCHANGED <<slot, stopped, event>>
                  /\ of' = [of EXCEPT ![w] = client[Boot]]
                  /\ at' = [at EXCEPT ![w] = IF memory[client[Boot]] = Null THEN "sleep" ELSE "watch"]
                  /\ watching' = [watching EXCEPT ![w] = memory[client[Boot]]]
                BY <2>2 DEF w
            <3>3. of' \in [Watcher -> Client \cup {Null}] /\ watching' \in [Watcher -> Identity \cup {Null}]
                BY <3>1, <3>2, <1>0 DEF TypeOK
            <3>4. at' \in [Watcher -> {"new", "sleep", "watch", "retry", "end"}]
                BY <3>1, <3>2, <1>0 DEF TypeOK
            <3>5. pc' \in [Task -> Inside \cup {"new", "run", "done", "serve", "refuse"}]
                BY <1>0, <1>b DEF TypeOK, Inside
            <3> QED  BY <3>1, <3>2, <3>3, <3>4, <3>5, <1>0 DEF TypeOK
        <2> QED  BY <2>1, <2>2
    <1>2. NoRunaway'
        <2>n. /\ \A v \in Watcher : at[v] = "new"
              /\ client' = client /\ closing' = closing /\ caught' = caught
              /\ ~closing
            BY <1>0 DEF BootOK, WatchersOK
        <2>1. CASE ~Alone
            <3>1. \A v \in Watcher : at'[v] = "new"  BY <2>1, <2>n
            <3> QED  BY <3>1 DEF NoRunaway, Runs
        <2>2. CASE Alone
            <3> DEFINE w == NewWatcher
            <3>1. w \in Watcher  BY <2>2
            <3> HIDE DEF w
            <3>2. /\ registered' = registered \cup {w}
                  /\ of' = [of EXCEPT ![w] = client[Boot]]
                  /\ \A v \in Watcher \ {w} : at'[v] = at[v]
                BY <2>2, <1>0 DEF w, TypeOK
            <3>3. of'[w] = client[Boot]  BY <3>1, <3>2, <1>0 DEF TypeOK
            <3>4. \A v \in Watcher : Runs(v)' => v = w  BY <3>2, <2>n DEF Runs
            <3> QED  BY <3>2, <3>3, <3>4, <2>2, <2>n DEF NoRunaway
        <2> QED  BY <2>1, <2>2
    <1>3. CallsOK'  BY <1>0, <1>b DEF CallsOK, Alone, TypeOK, Inside
    <1>4. BootOK'  BY <1>0, <1>b DEF BootOK, CallsOK, Alone, TypeOK
    <1>5. WatchersOK'  BY <1>0, <1>b, ZenonT(30) DEF WatchersOK, CallsOK, BootOK, TypeOK, Inside
    <1>6. OneSession'  BY <1>0, <1>b DEF OneSession, CallsOK, Alone, TypeOK, Inside
    <1>7. Overlap'  BY <1>0, <1>b DEF Overlap, CallsOK, TypeOK
    <1>8. Seeding'  BY <1>0, <1>b DEF Seeding, Overlap, OneSession, CallsOK, BootOK, TypeOK, Inside
    <1> QED  BY <1>1, <1>2, <1>3, <1>4, <1>5, <1>6, <1>7, <1>8 DEF IInv

LEMMA CloseStep ==
    ASSUME IInv, Close
    PROVE  IInv'
    <1> USE DEF Close, daemon, memories, calls, bounds, Halt
    <1>0. TypeOK /\ NoRunaway /\ CallsOK /\ BootOK /\ WatchersOK /\ OneSession /\ Overlap /\ Seeding
        BY DEF IInv
    <1>b. Boot \in Task /\ Boot \notin Call /\ Call \subseteq Task /\ Null \notin Client /\ Null \notin Session
        BY BootAssumption, NullAssumption DEF Task
    <1>1. TypeOK'  BY <1>0, <1>b DEF TypeOK, CallsOK, WatchersOK, Inside, Task
    <1>2. NoRunaway'  BY <1>0, <1>b DEF NoRunaway, Runs, Alone, TypeOK, WatchersOK, BootOK
    <1>3. CallsOK'  BY <1>0, <1>b DEF CallsOK, Alone, TypeOK, Inside
    <1>4. BootOK'  BY <1>0, <1>b DEF BootOK, CallsOK, Alone, TypeOK
    <1>5. WatchersOK'  BY <1>0, <1>b DEF WatchersOK, CallsOK, BootOK, TypeOK, Inside
    <1>6. OneSession'  BY <1>0, <1>b DEF OneSession, CallsOK, Alone, TypeOK, Inside
    <1>7. Overlap'  BY <1>0, <1>b DEF Overlap, CallsOK, TypeOK
    <1>8. Seeding'  BY <1>0, <1>b DEF Seeding, Overlap, OneSession, CallsOK, BootOK, TypeOK, Inside
    <1> QED  BY <1>1, <1>2, <1>3, <1>4, <1>5, <1>6, <1>7, <1>8 DEF IInv

LEMMA CloseRefusalStep ==
    ASSUME IInv, CloseRefusal
    PROVE  IInv'
    <1> USE DEF CloseRefusal, daemon, memories, calls, watchers, history, bounds
    <1>0. TypeOK /\ NoRunaway /\ CallsOK /\ BootOK /\ WatchersOK /\ OneSession /\ Overlap /\ Seeding
        BY DEF IInv
    <1>b. Boot \in Task /\ Boot \notin Call /\ Call \subseteq Task /\ Null \notin Client /\ Null \notin Session
        BY BootAssumption, NullAssumption DEF Task
    <1>1. TypeOK'  BY <1>0, <1>b DEF TypeOK, CallsOK, WatchersOK, Inside, Task
    <1>2. NoRunaway'
        <2>1. \A w \in Watcher : at'[w] = "new"  BY <1>0 DEF BootOK
        <2> QED  BY <2>1 DEF NoRunaway, Runs
    <1>3. CallsOK'  BY <1>0, <1>b DEF CallsOK, Alone, TypeOK, Inside
    <1>4. BootOK'  BY <1>0, <1>b DEF BootOK, CallsOK, Alone, TypeOK
    <1>5. WatchersOK'  BY <1>0, <1>b DEF WatchersOK, CallsOK, BootOK, TypeOK, Inside
    <1>6. OneSession'  BY <1>0, <1>b DEF OneSession, CallsOK, Alone, TypeOK, Inside
    <1>7. Overlap'  BY <1>0, <1>b DEF Overlap, CallsOK, TypeOK
    <1>8. Seeding'  BY <1>0, <1>b DEF Seeding, Overlap, OneSession, CallsOK, BootOK, TypeOK, Inside
    <1> QED  BY <1>1, <1>2, <1>3, <1>4, <1>5, <1>6, <1>7, <1>8 DEF IInv

LEMMA AnnounceStep ==
    ASSUME IInv, NEW w \in Watcher, Announce(w)
    PROVE  IInv'
    <1> USE DEF Announce, daemon, memories, calls, history, bounds, Look
    <1>0. TypeOK /\ NoRunaway /\ CallsOK /\ BootOK /\ WatchersOK /\ OneSession /\ Overlap /\ Seeding
        BY DEF IInv
    <1>b. Boot \in Task /\ Boot \notin Call /\ Call \subseteq Task /\ Null \notin Client /\ Null \notin Session
        BY BootAssumption, NullAssumption DEF Task
    <1>1. TypeOK'  BY <1>0, <1>b DEF TypeOK, CallsOK, WatchersOK, Inside, Task
    <1>2. NoRunaway'  BY <1>0, <1>b DEF NoRunaway, Runs, Alone, TypeOK, WatchersOK, BootOK
    <1>3. CallsOK'  BY <1>0, <1>b DEF CallsOK, Alone, TypeOK, Inside
    <1>4. BootOK'  BY <1>0, <1>b DEF BootOK, CallsOK, Alone, TypeOK
    <1>5. WatchersOK'  BY <1>0, <1>b DEF WatchersOK, CallsOK, BootOK, TypeOK, Inside
    <1>6. OneSession'  BY <1>0, <1>b DEF OneSession, CallsOK, Alone, TypeOK, Inside
    <1>7. Overlap'  BY <1>0, <1>b DEF Overlap, CallsOK, TypeOK
    <1>8. Seeding'  BY <1>0, <1>b DEF Seeding, Overlap, OneSession, CallsOK, BootOK, TypeOK, Inside
    <1> QED  BY <1>1, <1>2, <1>3, <1>4, <1>5, <1>6, <1>7, <1>8 DEF IInv

LEMMA BreakStep ==
    ASSUME IInv, NEW w \in Watcher, Break(w)
    PROVE  IInv'
    <1> USE DEF Break, daemon, memories, calls, history, bounds, Trouble, Live, RequestFails
    <1>0. TypeOK /\ NoRunaway /\ CallsOK /\ BootOK /\ WatchersOK /\ OneSession /\ Overlap /\ Seeding
        BY DEF IInv
    <1>b. Boot \in Task /\ Boot \notin Call /\ Call \subseteq Task /\ Null \notin Client /\ Null \notin Session
        BY BootAssumption, NullAssumption DEF Task
    <1>1. TypeOK'  BY <1>0, <1>b DEF TypeOK, CallsOK, WatchersOK, Inside, Task
    <1>2. NoRunaway'  BY <1>0, <1>b DEF NoRunaway, Runs, Alone, TypeOK, WatchersOK, BootOK
    <1>3. CallsOK'  BY <1>0, <1>b DEF CallsOK, Alone, TypeOK, Inside
    <1>4. BootOK'  BY <1>0, <1>b DEF BootOK, CallsOK, Alone, TypeOK
    <1>5. WatchersOK'  BY <1>0, <1>b DEF WatchersOK, CallsOK, BootOK, TypeOK, Inside
    <1>6. OneSession'  BY <1>0, <1>b DEF OneSession, CallsOK, Alone, TypeOK, Inside
    <1>7. Overlap'  BY <1>0, <1>b DEF Overlap, CallsOK, TypeOK
    <1>8. Seeding'  BY <1>0, <1>b DEF Seeding, Overlap, OneSession, CallsOK, BootOK, TypeOK, Inside
    <1> QED  BY <1>1, <1>2, <1>3, <1>4, <1>5, <1>6, <1>7, <1>8 DEF IInv

LEMMA SleptStep ==
    ASSUME IInv, NEW w \in Watcher, Slept(w)
    PROVE  IInv'
    <1> USE DEF Slept, daemon, memories, calls, history, bounds, Look
    <1>0. TypeOK /\ NoRunaway /\ CallsOK /\ BootOK /\ WatchersOK /\ OneSession /\ Overlap /\ Seeding
        BY DEF IInv
    <1>b. Boot \in Task /\ Boot \notin Call /\ Call \subseteq Task /\ Null \notin Client /\ Null \notin Session
        BY BootAssumption, NullAssumption DEF Task
    <1>1. TypeOK'  BY <1>0, <1>b DEF TypeOK, CallsOK, WatchersOK, Inside, Task
    <1>2. NoRunaway'  BY <1>0, <1>b DEF NoRunaway, Runs, Alone, TypeOK, WatchersOK, BootOK
    <1>3. CallsOK'  BY <1>0, <1>b DEF CallsOK, Alone, TypeOK, Inside
    <1>4. BootOK'  BY <1>0, <1>b DEF BootOK, CallsOK, Alone, TypeOK
    <1>5. WatchersOK'  BY <1>0, <1>b DEF WatchersOK, CallsOK, BootOK, TypeOK, Inside
    <1>6. OneSession'  BY <1>0, <1>b DEF OneSession, CallsOK, Alone, TypeOK, Inside
    <1>7. Overlap'  BY <1>0, <1>b DEF Overlap, CallsOK, TypeOK
    <1>8. Seeding'  BY <1>0, <1>b DEF Seeding, Overlap, OneSession, CallsOK, BootOK, TypeOK, Inside
    <1> QED  BY <1>1, <1>2, <1>3, <1>4, <1>5, <1>6, <1>7, <1>8 DEF IInv

LEMMA EndSessionStep ==
    ASSUME IInv, NEW s \in Session, EndSession(s)
    PROVE  IInv'
    <1> USE DEF EndSession, memories, calls, watchers, history, Trouble
    <1>0. TypeOK /\ NoRunaway /\ CallsOK /\ BootOK /\ WatchersOK /\ OneSession /\ Overlap /\ Seeding
        BY DEF IInv
    <1>b. Boot \in Task /\ Boot \notin Call /\ Call \subseteq Task /\ Null \notin Client /\ Null \notin Session
        BY BootAssumption, NullAssumption DEF Task
    <1>1. TypeOK'  BY <1>0, <1>b DEF TypeOK, CallsOK, WatchersOK, Inside, Task
    <1>2. NoRunaway'  BY <1>0, <1>b DEF NoRunaway, Runs, Alone, TypeOK, WatchersOK, BootOK
    <1>3. CallsOK'  BY <1>0, <1>b DEF CallsOK, Alone, TypeOK, Inside
    <1>4. BootOK'  BY <1>0, <1>b DEF BootOK, CallsOK, Alone, TypeOK
    <1>5. WatchersOK'  BY <1>0, <1>b DEF WatchersOK, CallsOK, BootOK, TypeOK, Inside
    <1>6. OneSession'  BY <1>0, <1>b DEF OneSession, CallsOK, Alone, TypeOK, Inside
    <1>7. Overlap'  BY <1>0, <1>b DEF Overlap, CallsOK, TypeOK
    <1>8. Seeding'  BY <1>0, <1>b DEF Seeding, Overlap, OneSession, CallsOK, BootOK, TypeOK, Inside
    <1> QED  BY <1>1, <1>2, <1>3, <1>4, <1>5, <1>6, <1>7, <1>8 DEF IInv

LEMMA EvictStep ==
    ASSUME IInv, NEW c \in Client, Evict(c)
    PROVE  IInv'
    <1> USE DEF Evict, memories, calls, watchers, history, Trouble
    <1>0. TypeOK /\ NoRunaway /\ CallsOK /\ BootOK /\ WatchersOK /\ OneSession /\ Overlap /\ Seeding
        BY DEF IInv
    <1>b. Boot \in Task /\ Boot \notin Call /\ Call \subseteq Task /\ Null \notin Client /\ Null \notin Session
        BY BootAssumption, NullAssumption DEF Task
    <1>1. TypeOK'  BY <1>0, <1>b DEF TypeOK, CallsOK, WatchersOK, Inside, Task
    <1>2. NoRunaway'  BY <1>0, <1>b DEF NoRunaway, Runs, Alone, TypeOK, WatchersOK, BootOK
    <1>3. CallsOK'  BY <1>0, <1>b DEF CallsOK, Alone, TypeOK, Inside
    <1>4. BootOK'  BY <1>0, <1>b DEF BootOK, CallsOK, Alone, TypeOK
    <1>5. WatchersOK'  BY <1>0, <1>b DEF WatchersOK, CallsOK, BootOK, TypeOK, Inside
    <1>6. OneSession'  BY <1>0, <1>b DEF OneSession, CallsOK, Alone, TypeOK, Inside
    <1>7. Overlap'  BY <1>0, <1>b DEF Overlap, CallsOK, TypeOK
    <1>8. Seeding'  BY <1>0, <1>b DEF Seeding, Overlap, OneSession, CallsOK, BootOK, TypeOK, Inside
    <1> QED  BY <1>1, <1>2, <1>3, <1>4, <1>5, <1>6, <1>7, <1>8 DEF IInv

LEMMA ArriveStep ==
    ASSUME IInv, NEW i \in Identity, Arrive(i)
    PROVE  IInv'
    <1> USE DEF Arrive, daemon, memories, calls, history
    <1>0. TypeOK /\ NoRunaway /\ CallsOK /\ BootOK /\ WatchersOK /\ OneSession /\ Overlap /\ Seeding
        BY DEF IInv
    <1>b. Boot \in Task /\ Boot \notin Call /\ Call \subseteq Task /\ Null \notin Client /\ Null \notin Session
        BY BootAssumption, NullAssumption DEF Task
    <1>1. TypeOK'  BY <1>0, <1>b DEF TypeOK, CallsOK, WatchersOK, Inside, Task
    <1>2. NoRunaway'  BY <1>0, <1>b DEF NoRunaway, Runs, Alone, TypeOK, WatchersOK, BootOK
    <1>3. CallsOK'  BY <1>0, <1>b DEF CallsOK, Alone, TypeOK, Inside
    <1>4. BootOK'  BY <1>0, <1>b DEF BootOK, CallsOK, Alone, TypeOK
    <1>5. WatchersOK'  BY <1>0, <1>b DEF WatchersOK, CallsOK, BootOK, TypeOK, Inside
    <1>6. OneSession'  BY <1>0, <1>b DEF OneSession, CallsOK, Alone, TypeOK, Inside
    <1>7. Overlap'  BY <1>0, <1>b DEF Overlap, CallsOK, TypeOK
    <1>8. Seeding'  BY <1>0, <1>b DEF Seeding, Overlap, OneSession, CallsOK, BootOK, TypeOK, Inside
    <1> QED  BY <1>1, <1>2, <1>3, <1>4, <1>5, <1>6, <1>7, <1>8 DEF IInv

------------------------------------------------------------------------------
(* The invariant and what follows from it. *)

LEMMA Initially ==
    ASSUME Init
    PROVE  IInv
    <1>b. Boot \in Task /\ Boot \notin Call /\ Null \notin Client
        BY BootAssumption, NullAssumption DEF Task
    <1>1. TypeOK
        <2>1. /\ owner \in [Session -> Client \cup {Null}]
              /\ issued \in SUBSET Client /\ bound \in [Client -> Identity \cup {Null}]
            BY OwnersAssumption DEF Init
        <2>2. /\ pc \in [Task -> Inside \cup {"new", "run", "done", "serve", "refuse"}]
              /\ memory \in [Client -> Identity \cup {Null}] /\ seeded = {}
              /\ session \in [Call -> Session \cup {Null}] /\ tool \in [Call -> Identity \cup {Work}]
              /\ client \in [Task -> Client \cup {Null}]
            BY DEF Init
        <2>3. /\ slot \in [Session -> Watcher \cup {Null}] /\ registered = {}
              /\ at \in [Watcher -> {"new", "sleep", "watch", "retry", "end"}]
              /\ of \in [Watcher -> Client \cup {Null}]
              /\ watching \in [Watcher -> Identity \cup {Null}]
              /\ stopped \in [Watcher -> BOOLEAN] /\ event \in [Watcher -> BOOLEAN]
            BY DEF Init
        <2>4. mixed = {} /\ arrivals = 0 /\ troubles = 0  BY DEF Init
        <2>5. closing \in BOOLEAN /\ caught \in BOOLEAN  BY DEF Init
        <2> QED  BY <2>1, <2>2, <2>3, <2>4, <2>5 DEF TypeOK
    <1>2. \A k \in Call : pc[k] = "new" /\ client[k] = Null /\ session[k] = Null
        BY DEF Init, Task
    <1>3. pc[Boot] = "new" /\ client[Boot] = Null  BY <1>b DEF Init
    <1>4. NoRunaway  BY DEF Init, NoRunaway, Runs
    <1>5. CallsOK  BY <1>2 DEF CallsOK, Inside
    <1>6. BootOK  BY <1>3 DEF Init, BootOK, Alone
    <1>7. WatchersOK  BY DEF Init, WatchersOK
    <1>8. OneSession
        <2>1. \A s \in Session : owner[s] # Null => owner[s] \in issued
            BY <1>1 DEF Init, TypeOK
        <2>2. \A s, r \in Session : owner[s] = owner[r] => s = r \/ owner[s] = Null
            BY OwnersAssumption DEF Init
        <2> QED  BY <2>1, <2>2, <1>2 DEF OneSession
    <1>9. Overlap  BY <1>2 DEF Overlap
    <1>10. Seeding  BY <1>2 DEF Seeding
    <1> QED  BY <1>1, <1>4, <1>5, <1>6, <1>7, <1>8, <1>9, <1>10 DEF IInv

LEMMA Stutter ==
    ASSUME IInv, UNCHANGED vars
    PROVE  IInv'
    <1> USE DEF vars, daemon, memories, calls, watchers, history, bounds
    <1>1. TypeOK'  BY DEF IInv, TypeOK
    <1>2. NoRunaway'  BY DEF IInv, NoRunaway, Runs, Alone
    <1>3. CallsOK'  BY DEF IInv, CallsOK, Alone
    <1>4. BootOK'  BY DEF IInv, BootOK, Alone
    <1>5. WatchersOK'  BY DEF IInv, WatchersOK
    <1>6. OneSession'  BY DEF IInv, OneSession, Alone
    <1>7. Overlap'  BY DEF IInv, Overlap
    <1>8. Seeding'  BY DEF IInv, Seeding
    <1> QED  BY <1>1, <1>2, <1>3, <1>4, <1>5, <1>6, <1>7, <1>8 DEF IInv

LEMMA Inductive ==
    ASSUME IInv, [Next]_vars
    PROVE  IInv'
    <1>b. Boot \in Task /\ Call \subseteq Task  BY DEF Task
    <1>1. ASSUME NEW k \in Call, Start(k) \/ CallStep(k) PROVE IInv'
        <2>0. k \in Task  BY <1>b
        <2>1. CASE Start(k)  BY <2>1, StartStep
        <2>2. CASE Select(k)  BY <2>2, SelectStep
        <2>3. CASE Current(k)  BY <2>0, <2>3, CurrentStep
        <2>4. CASE Adopt(k)  BY <2>0, <2>4, AdoptStep
        <2>5. CASE Choose(k)  BY <2>0, <2>5, ChooseStep
        <2>6. CASE Rollback(k)  BY <2>0, <2>6, RollbackStep
        <2>7. CASE Ready(k)  BY <2>7, ReadyStep
        <2>8. CASE Run(k)  BY <2>8, RunStep
        <2> QED  BY <1>1, <2>1, <2>2, <2>3, <2>4, <2>5, <2>6, <2>7, <2>8 DEF CallStep
    <1>2. ASSUME NEW w \in Watcher, WatcherStep(w) PROVE IInv'
        BY <1>2, AnnounceStep, BreakStep, SleptStep DEF WatcherStep
    <1>3. ASSUME NEW s \in Session, EndSession(s) PROVE IInv'  BY <1>3, EndSessionStep
    <1>4. ASSUME NEW c \in Client, Evict(c) PROVE IInv'  BY <1>4, EvictStep
    <1>5. ASSUME NEW i \in Identity, Arrive(i) PROVE IInv'  BY <1>5, ArriveStep
    <1>6. CASE BootStep
        <2>1. CASE Open  BY <2>1, OpenStep
        <2>2. CASE Current(Boot)  BY <1>b, <2>2, CurrentStep
        <2>3. CASE Adopt(Boot)  BY <1>b, <2>3, AdoptStep
        <2>4. CASE Choose(Boot)  BY <1>b, <2>4, ChooseStep
        <2>5. CASE Rollback(Boot)  BY <1>b, <2>5, RollbackStep
        <2>6. CASE Serve  BY <2>6, ServeStep
        <2> QED  BY <1>6, <2>1, <2>2, <2>3, <2>4, <2>5, <2>6 DEF BootStep
    <1>7. CASE Close  BY <1>7, CloseStep
    <1>8. CASE CloseRefusal  BY <1>8, CloseRefusalStep
    <1>9. CASE UNCHANGED vars  BY <1>9, Stutter
    <1> QED  BY <1>1, <1>2, <1>3, <1>4, <1>5, <1>6, <1>7, <1>8, <1>9 DEF Next

(* The inductive invariant holds in every behaviour of a connector.        *)
THEOREM Invariance == Spec => []IInv
    <1>1. Init => IInv  BY Initially
    <1>2. IInv /\ [Next]_vars => IInv'  BY Inductive
    <1> QED  BY <1>1, <1>2, PTL DEF Spec

(* The connector's maps keep their types, and a watcher's loop that runs on *)
(* is the one its session has now, or the attached client's; the shutdown  *)
(* stops them all, unless a call was inside clientFor when it began.       *)
THEOREM NoWatcherRunsAway == Spec => []ClientsInv
    <1>1. IInv => ClientsInv  BY DEF IInv, ClientsInv
    <1> QED  BY <1>1, Invariance, PTL

(* clientFor: two calls only ever work with one client when they are of    *)
(* one session, and a client's owner is that session's - whatever sessions *)
(* end and begin in between.                                               *)
THEOREM ClientsArePrivate == Spec => []OneSession
    <1>1. IInv => OneSession  BY DEF IInv
    <1> QED  BY <1>1, Invariance, PTL

(* seedBinding: where a session makes one call after the other, and at the *)
(* start, the seeding replaces no binding and seeds no client twice.       *)
THEOREM SeedingYields == Spec => SeedYields
    <1> DEFINE Yields == \A k \in Task :
                  Seeds(k) /\ (k # Boot => session[k] \notin mixed) /\ bound' # bound =>
                      client[k] \notin seeded /\ bound[client[k]] \in {Null, Seed}
    <1>1. ASSUME IInv PROVE Yields
        <2> SUFFICES ASSUME NEW k \in Task, pc[k] = "choose", k # Boot => session[k] \notin mixed
                     PROVE  client[k] \notin seeded /\ bound[client[k]] = Null
            BY DEF Seeds
        <2>1. CASE k = Boot  BY <2>1, <1>1 DEF IInv, BootOK
        <2>2. CASE k # Boot  BY <2>2, <1>1 DEF IInv, Seeding, Task
        <2> QED  BY <2>1, <2>2
    <1>2. IInv /\ [Next]_vars => [Yields]_vars  BY <1>1
    <1> QED  BY <1>2, Invariance, PTL DEF Spec, SeedYields
==============================================================================
