-------------------------- MODULE CodexWatcherProofs --------------------------
(***************************************************************************)
(* Theorems about CodexWatcher for any number of loops, wakes, arrivals,   *)
(* turns and failures.                                                     *)
(*                                                                         *)
(* One loop at a time has not been aborted (Single); as long as none of    *)
(* the others has come back, its cursor is the watcher's (CursorsOK) and   *)
(* covers mail that is read or has a wake (SeenOK).  Where completions are *)
(* polled, a queued wake waits for a pending one, and that has a request   *)
(* or a completion to come (Ahead).                                        *)
(***************************************************************************)
EXTENDS CodexWatcher, TLAPS

Single == \A l, j \in Loop :
    l # j /\ at[l] # "off" /\ at[j] # "off" => aborted[l] \/ aborted[j]

(* A loop awaits one startTurn. *)
Awaits == \A w \in Wake : asked[w] = "asking" /\ caller[w] # Null =>
    /\ at[caller[w]] = "waking"
    /\ \A v \in Wake : asked[v] = "asking" /\ caller[v] = caller[w] => v = w

CursorsOK == ~stale => \A l \in Loop : ~aborted[l] /\ at[l] # "off" =>
    /\ cursor[l] = current
    /\ at[l] = "save" /\ ~hot[l] =>
          page[l] <= readTo \/ (cursor[l] # Null /\ page[l] <= cursor[l])

SeenOK == running /\ ~stale /\ current # Null => current <= noticed \/ current <= readTo

Unnotified == ~subscribed => notes = <<>> /\ ~turnActive

Ahead == ~subscribed /\ ~stale /\ alive =>
    /\ queued => pending
    /\ pending => \E w \in Wake : asked[w] = "asking" \/ track[w] # "off"
    /\ \A w \in Wake :
          asked[w] = "asking" /\ caller[w] # Null /\ queued => aborted[caller[w]]

IInv == TypeOK /\ Single /\ Awaits /\ CursorsOK /\ SeenOK /\ Unnotified /\ Ahead

------------------------------------------------------------------------------
(* Lemmas. *)

Lefts == [arrivals : Nat, starts : Nat, stops : Nat, turns : Nat, failures : Nat]

LEMMA UsesType ==
    ASSUME left \in Lefts, NEW f \in {"arrivals", "starts", "stops", "turns", "failures"}, Uses(f)
    PROVE  left' \in Lefts
    <1>1. CASE f = "arrivals"  BY <1>1 DEF Uses, Lefts
    <1>2. CASE f = "starts"  BY <1>2 DEF Uses, Lefts
    <1>3. CASE f = "stops"  BY <1>3 DEF Uses, Lefts
    <1>4. CASE f = "turns"  BY <1>4 DEF Uses, Lefts
    <1>5. CASE f = "failures"  BY <1>5 DEF Uses, Lefts
    <1> QED  BY <1>1, <1>2, <1>3, <1>4, <1>5

LEMMA FreshIsFree ==
    ASSUME \E w \in Wake : Free(w)
    PROVE  Fresh \in Wake /\ Free(Fresh)
    BY DEF Fresh

Ats == {"off", "page", "unread", "save", "waking", "sleep", "end"}
AskedStates == {"no", "asking", "answered"}

(* A request goes out for a wake of which nothing is left. *)
LEMMA AsksFacts ==
    ASSUME NEW A, NEW from, Asks(A, from)
    PROVE  \E v \in Wake : /\ Free(v) /\ asked' = [A EXCEPT ![v] = "asking"]
                           /\ caller' = [caller EXCEPT ![v] = from] /\ completed' = completed \ {v}
    BY FreshIsFree DEF Asks

(* What the end of a #trackCompletion does, or a look at pending: nothing  *)
(* more is asked for, or what was queued is.                               *)
Idles(A) == asked' = A /\ caller' = caller /\ completed' = completed

Asked(A) == \E v \in Wake : /\ Free(v) /\ asked' = [A EXCEPT ![v] = "asking"]
                            /\ caller' = [caller EXCEPT ![v] = Null] /\ completed' = completed \ {v}

Tracked(w, A) ==
    \/ /\ track' = [track EXCEPT ![w] = "reading"] /\ Idles(A)
       /\ pending /\ pending' = pending /\ queued' = queued
    \/ /\ track' = [track EXCEPT ![w] = "off"] /\ Idles(A)
       /\ ~pending' /\ queued' = queued /\ (~queued \/ turnActive)
    \/ /\ track' = [track EXCEPT ![w] = "off"] /\ Asked(A)
       /\ pending' /\ ~queued' /\ queued /\ ~turnActive

LEMMA TrackEndsFacts ==
    ASSUME NEW w, NEW A, TrackEnds(w, A)
    PROVE  Tracked(w, A) /\ pending' \in BOOLEAN /\ (queued \in BOOLEAN => queued' \in BOOLEAN)
    <1>1. CASE ~queued \/ turnActive  BY <1>1 DEF TrackEnds, Tracked, Idles
    <1>2. CASE queued /\ ~turnActive
        <2>1. track' = [track EXCEPT ![w] = "off"] /\ pending' = TRUE /\ queued' = FALSE /\ Asks(A, Null)
            BY <1>2 DEF TrackEnds
        <2>2. Asked(A)  BY <2>1, AsksFacts DEF Asked
        <2> QED  BY <1>2, <2>1, <2>2 DEF Tracked
    <1> QED  BY <1>1, <1>2

LEMMA TrackChecksFacts ==
    ASSUME NEW w, NEW A, TrackChecks(w, A)
    PROVE  /\ Tracked(w, A) /\ (pending \in BOOLEAN => pending' \in BOOLEAN)
           /\ (queued \in BOOLEAN => queued' \in BOOLEAN)
    BY TrackEndsFacts DEF TrackChecks, Tracked, Idles

(* The types of what it changes. *)
LEMMA TrackedTypes ==
    ASSUME TypeOK, NEW w \in Wake, NEW A \in [Wake -> AskedStates], Tracked(w, A)
    PROVE  /\ track' \in [Wake -> {"off", "reading", "sleep"}]
           /\ asked' \in [Wake -> AskedStates]
           /\ caller' \in [Wake -> Loop \cup {Null}]
           /\ completed' \in SUBSET Wake
    <1>1. track' \in [Wake -> {"off", "reading", "sleep"}]  BY DEF Tracked, TypeOK
    <1>2. CASE Idles(A)  BY <1>1, <1>2 DEF Idles, TypeOK
    <1>3. CASE Asked(A)  BY <1>1, <1>3 DEF Asked, TypeOK, AskedStates
    <1> QED  BY <1>2, <1>3 DEF Tracked

LEMMA StartStep ==
    ASSUME IInv, NEW l \in Loop, Start(l)
    PROVE  IInv'
    <1> USE DEF Start, mail, wakes, appServer, At, Halt
    <1>0. TypeOK /\ Single /\ Awaits /\ CursorsOK /\ SeenOK /\ Unnotified /\ Ahead
        BY DEF IInv
    <1>n. Null \notin Loop /\ Null \notin Wake /\ Null \notin Nat /\ User \notin Wake
        BY NullAssumption, UserAssumption
    <1>1. TypeOK'  BY UsesType, <1>0, <1>n DEF TypeOK, Cursors, Lefts
    <1>2. Single'  BY <1>0, <1>n DEF Single, TypeOK
    <1>3. Awaits'  BY <1>0, <1>n DEF Awaits, TypeOK, Free
    <1>4. CursorsOK'
        <2>1. /\ aborted' = [j \in Loop |-> j \notin {i \in Loop : at[i] = "off"}]
              /\ cursor'[l] = Null /\ at'[l] = "page"
              /\ current' = Null
              /\ \A j \in Loop \ {l} : cursor'[j] = cursor[j] /\ at'[j] = at[j]
            BY <1>0 DEF TypeOK
        <2>2. \A j \in Loop \ {l} : at'[j] # "off" => aborted'[j]  BY <2>1
        <2> QED  BY <2>1, <2>2 DEF CursorsOK
    <1>5. SeenOK'  BY <1>0, <1>n DEF SeenOK, CursorsOK, TypeOK, Cursors
    <1>6. Unnotified'  BY <1>0, <1>n DEF Unnotified
    <1>7. Ahead'  BY <1>0, <1>n DEF Ahead, Single, Awaits, Unnotified, TypeOK, Free
    <1> QED  BY <1>1, <1>2, <1>3, <1>4, <1>5, <1>6, <1>7 DEF IInv

LEMMA PageStep ==
    ASSUME IInv, NEW l \in Loop, Page(l)
    PROVE  IInv'
    <1> USE DEF Page, mail, wakes, appServer, history, Fails, At, Continues, PollFails, RequestFails
    <1>0. TypeOK /\ Single /\ Awaits /\ CursorsOK /\ SeenOK /\ Unnotified /\ Ahead
        BY DEF IInv
    <1>n. Null \notin Loop /\ Null \notin Wake /\ Null \notin Nat /\ User \notin Wake
        BY NullAssumption, UserAssumption
    <1>p. /\ current' = current /\ cursor' = cursor /\ aborted' = aborted
          /\ (authFailed' = authFailed \/ authFailed' = TRUE)
          /\ (running' \in BOOLEAN) /\ (running' => running)
          /\ \/ /\ at' = [at EXCEPT ![l] = IF cursor[l] = Null THEN "unread" ELSE "save"]
                /\ page' = [page EXCEPT ![l] = arrived]
                /\ hot' = [hot EXCEPT ![l] = cursor[l] # Null /\ arrived > cursor[l]]
             \/ /\ at' = [at EXCEPT ![l] = "sleep"] \/ at' = [at EXCEPT ![l] = "end"]
                /\ UNCHANGED <<page, hot>>
        BY <1>0 DEF TypeOK
    <1>q. left' \in Lefts  BY <1>0, UsesType DEF TypeOK, Lefts
    <1>r. /\ at[l] = "page" /\ at'[l] # "off" /\ \A j \in Loop \ {l} : at'[j] = at[j]
          /\ \A j \in Loop \ {l} : page'[j] = page[j] /\ hot'[j] = hot[j]
          /\ at'[l] = "save" => /\ page'[l] = arrived /\ cursor[l] # Null
                                /\ hot'[l] = (cursor[l] # Null /\ arrived > cursor[l])
        BY <1>p, <1>0 DEF TypeOK
    <1>u. UNCHANGED <<mail, turnActive, pending, queued, alive, aborted, wakes, appServer, history>>
        OBVIOUS
    <1> HIDE DEF Page, Fails, At, Continues, PollFails, RequestFails
    <1>1. TypeOK'
        <2>1. at' \in [Loop -> Ats]  
            <3>1. \E x \in Ats : at' = [at EXCEPT ![l] = x]  BY <1>p DEF Ats
            <3> QED  BY <3>1, <1>0 DEF TypeOK, Ats
        <2>2. page' \in [Loop -> 0 .. arrived]
            <3>1. arrived \in 0 .. arrived  BY <1>0 DEF TypeOK
            <3> QED  BY <3>1, <1>p, <1>0 DEF TypeOK
        <2>3. hot' \in [Loop -> BOOLEAN]
            <3>1. (cursor[l] # Null /\ arrived > cursor[l]) \in BOOLEAN  BY <1>0 DEF TypeOK, Cursors
            <3> QED  BY <3>1, <1>p, <1>0 DEF TypeOK
        <2>4. authFailed' \in BOOLEAN  BY <1>p, <1>0 DEF TypeOK
        <2> QED  BY <2>1, <2>2, <2>3, <2>4, <1>p, <1>q, <1>u, <1>0 DEF TypeOK, Ats, Lefts
    <1>2. Single'  BY <1>p, <1>r, <1>0 DEF Single
    <1>3. Awaits'
        <2>1. \A v \in Wake : caller[v] \in Loop \cup {Null}  BY <1>0 DEF TypeOK
        <2>2. \A v \in Wake : asked[v] = "asking" /\ caller[v] # Null => caller[v] # l
            BY <1>r, <1>0 DEF Awaits
        <2>3. UNCHANGED <<asked, caller>>  BY <1>u
        <2> QED  BY <2>1, <2>2, <2>3, <1>r, <1>0 DEF Awaits
    <1>4. CursorsOK'
        <2>1. stale' = stale /\ readTo' = readTo /\ arrived \in Nat /\ cursor[l] \in Nat \cup {Null}
            BY <1>u, <1>0 DEF TypeOK, Cursors
        <2>2. at'[l] = "save" /\ ~hot'[l] => page'[l] <= cursor[l]
            <3>1. at'[l] = "save" /\ ~hot'[l] => ~(cursor[l] # Null /\ arrived > cursor[l])  BY <1>r, Zenon
            <3> QED  BY <3>1, <1>r, <2>1
        <2> QED  BY <2>1, <2>2, <1>p, <1>r, <1>0 DEF CursorsOK
    <1>5. SeenOK'
        <2>1. UNCHANGED <<noticed, stale, readTo, current>> /\ (running' => running)  BY <1>p, <1>u
        <2> QED  BY <2>1, <1>0 DEF SeenOK
    <1>6. Unnotified'
        <2>1. UNCHANGED <<subscribed, notes, turnActive>>  BY <1>u
        <2> QED  BY <2>1, <1>0 DEF Unnotified
    <1>7. Ahead'
        <2>1. UNCHANGED <<subscribed, stale, alive, queued, pending, asked, track, caller, aborted>>
            BY <1>p, <1>u
        <2> QED  BY <2>1, <1>0 DEF Ahead
    <1> QED  BY <1>1, <1>2, <1>3, <1>4, <1>5, <1>6, <1>7 DEF IInv

LEMMA UnreadStep ==
    ASSUME IInv, NEW l \in Loop, Unread(l)
    PROVE  IInv'
    <1> USE DEF Unread, mail, wakes, appServer, history, Fails, At, Continues, PollFails,
                RequestFails
    <1>0. TypeOK /\ Single /\ Awaits /\ CursorsOK /\ SeenOK /\ Unnotified /\ Ahead
        BY DEF IInv
    <1>n. Null \notin Loop /\ Null \notin Wake /\ Null \notin Nat /\ User \notin Wake
        BY NullAssumption, UserAssumption
    <1>p. /\ current' = current /\ cursor' = cursor /\ aborted' = aborted
          /\ (authFailed' = authFailed \/ authFailed' = TRUE)
          /\ (running' \in BOOLEAN) /\ (running' => running)
          /\ \/ /\ at' = [at EXCEPT ![l] = "save"]
                /\ hot' = [hot EXCEPT ![l] = readTo < arrived]
             \/ /\ at' = [at EXCEPT ![l] = "sleep"] \/ at' = [at EXCEPT ![l] = "end"]
                /\ UNCHANGED hot
        BY <1>0 DEF TypeOK
    <1>q. left' \in Lefts  BY <1>0, UsesType DEF TypeOK, Lefts
    <1>r. /\ at[l] = "unread" /\ at'[l] # "off" /\ \A j \in Loop \ {l} : at'[j] = at[j]
          /\ \A j \in Loop \ {l} : hot'[j] = hot[j]
          /\ at'[l] = "save" => hot'[l] = (readTo < arrived)
        BY <1>p, <1>0 DEF TypeOK
    <1>u. UNCHANGED <<mail, turnActive, pending, queued, alive, aborted, page, wakes, appServer, history>>
        OBVIOUS
    <1> HIDE DEF Unread, Fails, At, Continues, PollFails, RequestFails
    <1>1. TypeOK'
        <2>1. at' \in [Loop -> Ats]  
            <3>1. \E x \in Ats : at' = [at EXCEPT ![l] = x]  BY <1>p DEF Ats
            <3> QED  BY <3>1, <1>0 DEF TypeOK, Ats
        <2>3. hot' \in [Loop -> BOOLEAN]
            <3>1. (readTo < arrived) \in BOOLEAN  OBVIOUS
            <3> QED  BY <3>1, <1>p, <1>0 DEF TypeOK
        <2>4. authFailed' \in BOOLEAN  BY <1>p, <1>0 DEF TypeOK
        <2> QED  BY <2>1, <2>3, <2>4, <1>p, <1>q, <1>u, <1>0 DEF TypeOK, Ats, Lefts
    <1>2. Single'  BY <1>p, <1>r, <1>u, <1>0 DEF Single
    <1>3. Awaits'
        <2>1. \A v \in Wake : caller[v] \in Loop \cup {Null}  BY <1>0 DEF TypeOK
        <2>2. \A v \in Wake : asked[v] = "asking" /\ caller[v] # Null => caller[v] # l
            BY <1>r, <1>0 DEF Awaits
        <2>3. UNCHANGED <<asked, caller>>  BY <1>u
        <2> QED  BY <2>1, <2>2, <2>3, <1>r, <1>0 DEF Awaits
    <1>4. CursorsOK'
        <2>1. /\ stale' = stale /\ readTo' = readTo /\ page' = page
              /\ arrived \in Nat /\ page[l] \in 0 .. arrived /\ readTo \in 0 .. arrived
            BY <1>u, <1>0 DEF TypeOK
        <2>2. at'[l] = "save" /\ ~hot'[l] => page'[l] <= readTo'
            <3>1. at'[l] = "save" /\ ~hot'[l] => ~(readTo < arrived)  BY <1>r, Zenon
            <3> QED  BY <3>1, <1>r, <2>1
        <2> QED  BY <2>1, <2>2, <1>p, <1>r, <1>0 DEF CursorsOK
    <1>5. SeenOK'
        <2>1. UNCHANGED <<noticed, stale, readTo, current>> /\ (running' => running)  BY <1>p, <1>u
        <2> QED  BY <2>1, <1>0 DEF SeenOK
    <1>6. Unnotified'
        <2>1. UNCHANGED <<subscribed, notes, turnActive>>  BY <1>u
        <2> QED  BY <2>1, <1>0 DEF Unnotified
    <1>7. Ahead'
        <2>1. UNCHANGED <<subscribed, stale, alive, queued, pending, asked, track, caller, aborted>>
            BY <1>p, <1>u
        <2> QED  BY <2>1, <1>0 DEF Ahead
    <1> QED  BY <1>1, <1>2, <1>3, <1>4, <1>5, <1>6, <1>7 DEF IInv

LEMMA SaveStep ==
    ASSUME IInv, NEW l \in Loop, Save(l)
    PROVE  IInv'
    <1> USE DEF Save, mail, appServer, Fails, ComesBack, At, Asks, Continues, Advance, PollFails
    <1>0. TypeOK /\ Single /\ Awaits /\ CursorsOK /\ SeenOK /\ Unnotified /\ Ahead
        BY DEF IInv
    <1>n. Null \notin Loop /\ Null \notin Wake /\ Null \notin Nat /\ User \notin Wake
        BY NullAssumption, UserAssumption
    <1>u. /\ at[l] = "save" /\ stale' = (stale \/ aborted[l]) /\ aborted' = aborted /\ page' = page
          /\ hot' = hot /\ UNCHANGED <<mail, turnActive, authFailed, alive, track, appServer>>
        OBVIOUS
    <1> DEFINE Moves == /\ current' = page[l] /\ cursor' = [cursor EXCEPT ![l] = page[l]]
                        /\ (at' = [at EXCEPT ![l] = "page"] \/ at' = [at EXCEPT ![l] = "end"])
                        /\ running' = running /\ left' = left /\ pending' = pending
                        /\ UNCHANGED <<asked, caller, completed>>
               Quietly == ~hot[l] /\ Moves /\ queued' = queued /\ noticed' = noticed
               Queues == /\ hot[l] /\ (turnActive \/ pending) /\ Moves /\ queued' = TRUE /\ noticed' = arrived
               Wakes == /\ hot[l] /\ ~turnActive /\ ~pending /\ pending' = TRUE
                        /\ \E v \in Wake : /\ Free(v) /\ asked' = [asked EXCEPT ![v] = "asking"]
                                           /\ caller' = [caller EXCEPT ![v] = l] /\ completed' = completed \ {v}
                        /\ at' = [at EXCEPT ![l] = "waking"]
                        /\ UNCHANGED <<running, current, cursor, queued, noticed, left>>
               FailsIt == /\ Uses("failures")
                          /\ (at' = [at EXCEPT ![l] = "sleep"] \/ at' = [at EXCEPT ![l] = "end"])
                          /\ running' \in BOOLEAN /\ (running' => running)
                          /\ UNCHANGED <<current, cursor, pending, queued, asked, caller, completed, noticed>>
    <1>p. Quietly \/ Queues \/ Wakes \/ FailsIt
        <2>1. CASE /\ ~hot[l] /\ Advance(l)
                   /\ UNCHANGED <<running, pending, queued, asked, caller, completed, noticed, left>>
            BY <2>1
        <2>2. CASE /\ hot[l] /\ (turnActive \/ pending) /\ queued' = TRUE /\ noticed' = arrived /\ Advance(l)
                   /\ UNCHANGED <<running, pending, asked, caller, completed, left>>
            BY <2>2
        <2>3. CASE /\ hot[l] /\ ~turnActive /\ ~pending /\ pending' = TRUE /\ Asks(asked, l) /\ At(l, "waking")
                   /\ UNCHANGED <<running, current, cursor, queued, noticed, left>>
            <3>1. \E v \in Wake : /\ Free(v) /\ asked' = [asked EXCEPT ![v] = "asking"]
                                 /\ caller' = [caller EXCEPT ![v] = l] /\ completed' = completed \ {v}
                BY <2>3, AsksFacts
            <3> QED  BY <2>3, <3>1
        <2>4. CASE Fails /\ PollFails(l) /\ UNCHANGED <<pending, queued, asked, caller, completed, noticed>>
            <3>1. running' = (running /\ (aborted[l] \/ ~authFailed))  BY <2>4
            <3>2. running' \in BOOLEAN /\ (running' => running)  BY <3>1
            <3> QED  BY <2>4, <3>2
        <2> QED  BY <2>1, <2>2, <2>3, <2>4
    <1>r. at'[l] \notin {"off", "save"} /\ \A j \in Loop \ {l} : at'[j] = at[j]
        BY <1>p, <1>0 DEF TypeOK
    <1>s. \A j \in Loop \ {l} : cursor'[j] = cursor[j]
        BY <1>p, <1>0 DEF TypeOK
    <1> HIDE DEF Save, ComesBack, At, Asks, Advance, PollFails
    <1>1. TypeOK'
        <2>1. at' \in [Loop -> Ats]  BY <1>p, <1>0 DEF TypeOK, Ats
        <2>2. /\ caller' \in [Wake -> Loop \cup {Null}] /\ asked' \in [Wake -> AskedStates]
              /\ completed' \in SUBSET Wake
            <3>1. CASE Wakes  BY <3>1, <1>0 DEF TypeOK, AskedStates
            <3>2. CASE ~Wakes  BY <3>2, <1>p, <1>0 DEF TypeOK, AskedStates
            <3> QED  BY <3>1, <3>2
        <2>3. left' \in Lefts  BY <1>p, <1>0, UsesType DEF TypeOK, Lefts
        <2>4. current' \in Cursors /\ cursor' \in [Loop -> Cursors]
            BY <1>p, <1>0 DEF TypeOK, Cursors
        <2>5. running' \in BOOLEAN /\ pending' \in BOOLEAN /\ queued' \in BOOLEAN  BY <1>p, <1>0 DEF TypeOK
        <2>6. noticed' \in 0 .. arrived  BY <1>p, <1>0 DEF TypeOK
        <2>7. stale' \in BOOLEAN  BY <1>u, <1>0 DEF TypeOK
        <2> QED  BY <2>1, <2>2, <2>3, <2>4, <2>5, <2>6, <2>7, <1>u, <1>0 DEF TypeOK, Ats, Lefts, AskedStates
    <1>2. Single'  BY <1>u, <1>r, <1>0 DEF Single
    <1>3. Awaits'
        <2>1. \A v \in Wake : asked[v] = "asking" /\ caller[v] # Null => caller[v] # l
            BY <1>u, <1>0 DEF Awaits
        <2>2. \A v \in Wake : caller[v] \in Loop \cup {Null}  BY <1>0 DEF TypeOK
        <2>3. CASE Wakes
            <3>1. PICK v \in Wake : /\ Free(v) /\ asked' = [asked EXCEPT ![v] = "asking"]
                                   /\ caller' = [caller EXCEPT ![v] = l]
                BY <2>3
            <3>2. /\ caller'[v] = l /\ at'[l] = "waking"
                  /\ \A u \in Wake \ {v} : asked'[u] = asked[u] /\ caller'[u] = caller[u]
                BY <2>3, <3>1, <1>0 DEF TypeOK
            <3> QED  BY <3>2, <2>1, <2>2, <1>r, <1>0 DEF Awaits
        <2>4. CASE ~Wakes
            <3>1. asked' = asked /\ caller' = caller  BY <2>4, <1>p
            <3> QED  BY <3>1, <2>1, <2>2, <1>r, <1>0 DEF Awaits
        <2> QED  BY <2>3, <2>4
    <1>4. CursorsOK'
        <2> SUFFICES ASSUME ~stale' PROVE CursorsOK'  BY DEF CursorsOK
        <2>1. ~stale /\ ~aborted[l]  BY <1>u
        <2>2. \A j \in Loop \ {l} : at[j] # "off" => aborted[j]  BY <2>1, <1>u, <1>0 DEF Single
        <2>3. cursor'[l] = current'
            <3>1. CASE current' = page[l] /\ cursor' = [cursor EXCEPT ![l] = page[l]]
                BY <3>1, <1>0 DEF TypeOK
            <3>2. CASE UNCHANGED <<current, cursor>>  BY <3>2, <2>1, <1>u, <1>0 DEF CursorsOK
            <3> QED  BY <3>1, <3>2, <1>p
        <2> QED  BY <2>2, <2>3, <1>r, <1>u DEF CursorsOK
    <1>5. SeenOK'
        <2> SUFFICES ASSUME running', ~stale', current' # Null
                     PROVE  current' <= noticed' \/ current' <= readTo'
            BY DEF SeenOK
        <2>1. ~stale /\ ~aborted[l] /\ readTo' = readTo  BY <1>u
        <2>2. /\ cursor[l] = current
              /\ ~hot[l] => page[l] <= readTo \/ (cursor[l] # Null /\ page[l] <= cursor[l])
            BY <2>1, <1>u, <1>0 DEF CursorsOK
        <2>3. page[l] \in 0 .. arrived /\ noticed \in 0 .. arrived /\ readTo \in 0 .. arrived /\ arrived \in Nat
              /\ current \in Nat \cup {Null}
            BY <1>0 DEF TypeOK, Cursors
        <2>4. running /\ current # Null => current <= noticed \/ current <= readTo
            BY <2>1, <1>0 DEF SeenOK
        <2>5. CASE Quietly
            <3>1. current' = page[l] /\ running /\ noticed' = noticed  BY <2>5
            <3>2. page[l] <= readTo \/ (current # Null /\ page[l] <= current)  BY <2>5, <2>2
            <3> QED  BY <3>1, <3>2, <2>1, <2>3, <2>4
        <2>6. CASE Queues  BY <2>6, <2>3
        <2>7. CASE Wakes  BY <2>7, <2>1, <2>4
        <2>8. CASE FailsIt  BY <2>8, <2>1, <2>4
        <2> QED  BY <2>5, <2>6, <2>7, <2>8, <1>p
    <1>6. Unnotified'  BY <1>u, <1>0 DEF Unnotified
    <1>7. Ahead'
        <2> SUFFICES ASSUME ~subscribed', ~stale', alive' PROVE Ahead'  BY DEF Ahead
        <2>1. ~subscribed /\ ~stale /\ ~aborted[l] /\ alive /\ track' = track  BY <1>u
        <2>2. /\ queued => pending
              /\ pending => \E w \in Wake : asked[w] = "asking" \/ track[w] # "off"
              /\ \A w \in Wake : asked[w] = "asking" /\ caller[w] # Null /\ queued => aborted[caller[w]]
            BY <2>1, <1>0 DEF Ahead
        <2>3. \A v \in Wake : asked[v] = "asking" /\ caller[v] # Null => aborted[caller[v]]
            BY <2>1, <1>u, <1>0, SMTT(30) DEF Awaits, Single, TypeOK
        <2>4. CASE Quietly  BY <2>4, <2>1, <2>2, <1>u DEF Ahead
        <2>5. CASE Queues
            <3>1. pending  BY <2>5, <2>1, <1>0 DEF Unnotified
            <3> QED  BY <3>1, <2>5, <2>1, <2>2, <2>3, <1>u DEF Ahead
        <2>6. CASE Wakes
            <3>1. PICK v \in Wake : asked' = [asked EXCEPT ![v] = "asking"]  BY <2>6
            <3>2. asked'[v] = "asking"  BY <3>1, <1>0 DEF TypeOK
            <3>3. ~queued' /\ pending'  BY <2>6, <2>2
            <3> QED  BY <3>2, <3>3 DEF Ahead
        <2>7. CASE FailsIt  BY <2>7, <2>1, <2>2, <1>u DEF Ahead
        <2> QED  BY <2>4, <2>5, <2>6, <2>7, <1>p
    <1> QED  BY <1>1, <1>2, <1>3, <1>4, <1>5, <1>6, <1>7 DEF IInv

LEMMA SleptStep ==
    ASSUME IInv, NEW l \in Loop, Slept(l)
    PROVE  IInv'
    <1> USE DEF Slept, mail, watcher, wakes, appServer, history, At, Continues
    <1>0. TypeOK /\ Single /\ Awaits /\ CursorsOK /\ SeenOK /\ Unnotified /\ Ahead
        BY DEF IInv
    <1>n. Null \notin Loop /\ Null \notin Wake /\ Null \notin Nat /\ User \notin Wake
        BY NullAssumption, UserAssumption
    <1>1. TypeOK'  BY <1>0, <1>n DEF TypeOK, Cursors, Lefts
    <1>2. Single'  BY <1>0, <1>n DEF Single, TypeOK
    <1>3. Awaits'  BY <1>0, <1>n DEF Awaits, TypeOK, Free
    <1>4. CursorsOK'  BY <1>0, <1>n DEF CursorsOK, Single, Awaits, TypeOK, Cursors
    <1>5. SeenOK'  BY <1>0, <1>n DEF SeenOK, CursorsOK, TypeOK, Cursors
    <1>6. Unnotified'  BY <1>0, <1>n DEF Unnotified
    <1>7. Ahead'  BY <1>0, <1>n DEF Ahead, Single, Awaits, Unnotified, TypeOK, Free
    <1> QED  BY <1>1, <1>2, <1>3, <1>4, <1>5, <1>6, <1>7 DEF IInv

LEMMA AcceptedStep ==
    ASSUME IInv, NEW w \in Wake, Accepted(w)
    PROVE  IInv'
    <1> USE DEF Accepted, mail, ComesBack, At, Asks, Continues, Advance, TrackEnds, TrackChecks,
                Answered
    <1>0. TypeOK /\ Single /\ Awaits /\ CursorsOK /\ SeenOK /\ Unnotified /\ Ahead
        BY DEF IInv
    <1>n. Null \notin Loop /\ Null \notin Wake /\ Null \notin Nat /\ User \notin Wake
        BY NullAssumption, UserAssumption
    <1>u. /\ asked[w] = "asking" /\ noticed' = arrived
          /\ UNCHANGED <<mail, running, turnActive, authFailed, alive, aborted, page, hot,
                         turn, subscribed, drained, notes, left>>
          /\ waiting' = waiting \cup ({w} \ (completed \cup {turn}))
        OBVIOUS
    <1>A. Answered(w) \in [Wake -> AskedStates] /\ Answered(w)[w] = "answered"
          /\ \A v \in Wake \ {w} : Answered(w)[v] = asked[v]
        BY <1>0 DEF TypeOK, AskedStates
    <1> HIDE DEF TrackChecks, TrackEnds, Asks, Answered
    <1>t. Tracked(w, Answered(w)) /\ pending' \in BOOLEAN /\ queued' \in BOOLEAN
        BY <1>0, TrackChecksFacts DEF TypeOK
    <1>T. /\ track' \in [Wake -> {"off", "reading", "sleep"}]
          /\ asked' \in [Wake -> AskedStates]
          /\ caller' \in [Wake -> Loop \cup {Null}]
          /\ completed' \in SUBSET Wake
        BY <1>A, <1>t, <1>0, TrackedTypes
    <1> DEFINE Returns(l) == /\ current' = page[l] /\ cursor' = [cursor EXCEPT ![l] = page[l]]
                             /\ (at' = [at EXCEPT ![l] = "page"] \/ at' = [at EXCEPT ![l] = "end"])
                             /\ stale' = (stale \/ aborted[l])
    <1>p. \/ caller[w] # Null /\ Returns(caller[w])
          \/ caller[w] = Null /\ UNCHANGED <<at, cursor, current, stale>>
        OBVIOUS
    <1>l. caller[w] \in Loop \cup {Null} /\ (caller[w] # Null => at[caller[w]] = "waking")
        BY <1>u, <1>0 DEF TypeOK, Awaits
    <1>r. /\ \A j \in Loop : j # caller[w] => at'[j] = at[j] /\ cursor'[j] = cursor[j]
          /\ caller[w] # Null => /\ cursor'[caller[w]] = current' /\ at'[caller[w]] \in {"page", "end"}
                                /\ current' = page[caller[w]]
        BY <1>p, <1>l, <1>0 DEF TypeOK
    <1>s. (~stale' => ~stale /\ (caller[w] # Null => ~aborted[caller[w]])) /\ stale' \in BOOLEAN
        <2>1. CASE caller[w] # Null /\ Returns(caller[w])
            <3>1. stale' = (stale \/ aborted[caller[w]])  BY <2>1
            <3> QED  BY <3>1
        <2>2. CASE caller[w] = Null /\ UNCHANGED <<at, cursor, current, stale>>
            <3>1. stale' = stale /\ stale \in BOOLEAN  BY <2>2, <1>0 DEF TypeOK
            <3> QED  BY <2>2, <3>1
        <2> QED  BY <2>1, <2>2, <1>p
    <1> HIDE DEF Accepted, At, Advance, ComesBack, Continues
    <1>1. TypeOK'
        <2>1. at' \in [Loop -> Ats]  BY <1>p, <1>l, <1>0 DEF TypeOK, Ats
        <2>2. current' \in Cursors /\ cursor' \in [Loop -> Cursors]
            <3>1. CASE caller[w] # Null /\ Returns(caller[w])
                <4>1. page[caller[w]] \in Nat  BY <3>1, <1>l, <1>0 DEF TypeOK
                <4> QED  BY <3>1, <4>1, <1>0 DEF TypeOK, Cursors
            <3>2. CASE caller[w] = Null /\ UNCHANGED <<at, cursor, current, stale>>
                BY <3>2, <1>0 DEF TypeOK
            <3> QED  BY <3>1, <3>2, <1>p
        <2>3. stale' \in BOOLEAN  BY <1>s
        <2>4. noticed' \in 0 .. arrived  BY <1>u, <1>0 DEF TypeOK
        <2>5. waiting' \in SUBSET Wake  BY <1>u, <1>0 DEF TypeOK
        <2> QED  BY <2>1, <2>2, <2>3, <2>4, <2>5, <1>t, <1>T, <1>u, <1>0 DEF TypeOK, Ats, AskedStates
    <1>2. Single'
        <2>1. \A j \in Loop : at'[j] # "off" => at[j] # "off"
            <3> TAKE j \in Loop
            <3>1. CASE j = caller[w]
                <4>1. at[j] = "waking"  BY <3>1, <1>l, <1>n
                <4> QED  BY <4>1
            <3>2. CASE j # caller[w]  BY <3>2, <1>r
            <3> QED  BY <3>1, <3>2
        <2> QED  BY <2>1, <1>u, <1>0 DEF Single
    <1>3. Awaits'
        <2>1. \A v \in Wake \ {w} : asked[v] = "asking" /\ caller[v] # Null => caller[v] # caller[w]
            BY <1>u, <1>0 DEF Awaits
        <2>2. ASSUME NEW v \in Wake, asked'[v] = "asking", caller'[v] # Null
              PROVE  v # w /\ asked[v] = "asking" /\ caller[v] = caller'[v]
            <3>1. CASE Idles(Answered(w))  BY <3>1, <2>2, <1>A DEF Idles
            <3>2. CASE Asked(Answered(w))
                <4>1. PICK x \in Wake : /\ asked' = [Answered(w) EXCEPT ![x] = "asking"]
                                       /\ caller' = [caller EXCEPT ![x] = Null]
                    BY <3>2 DEF Asked
                <4>2. v # x  BY <4>1, <2>2, <1>0 DEF TypeOK
                <4> QED  BY <4>1, <4>2, <2>2, <1>A, <1>0 DEF TypeOK
            <3> QED  BY <3>1, <3>2, <1>t DEF Tracked
        <2>3. \A v \in Wake : caller[v] \in Loop \cup {Null}  BY <1>0 DEF TypeOK
        <2> QED  BY <2>1, <2>2, <2>3, <1>r, <1>0 DEF Awaits
    <1>4. CursorsOK'
        <2> SUFFICES ASSUME ~stale' PROVE CursorsOK'  BY DEF CursorsOK
        <2>1. ~stale /\ (caller[w] # Null => ~aborted[caller[w]])  BY <1>s
        <2>2. CASE caller[w] = Null
            <3>1. UNCHANGED <<at, cursor, current>>  BY <2>2, <1>p
            <3> QED  BY <3>1, <2>1, <1>u, <1>0 DEF CursorsOK
        <2>3. CASE caller[w] # Null
            <3>1. \A j \in Loop \ {caller[w]} : at[j] # "off" => aborted[j]
                BY <2>1, <2>3, <1>l, <1>0 DEF Single
            <3> QED  BY <3>1, <2>3, <1>r, <1>l, <1>u DEF CursorsOK
        <2> QED  BY <2>2, <2>3
    <1>5. SeenOK'
        <2> SUFFICES ASSUME running', ~stale', current' # Null
                     PROVE  current' <= noticed' \/ current' <= readTo'
            BY DEF SeenOK
        <2>1. /\ arrived \in Nat /\ noticed \in 0 .. arrived /\ readTo \in 0 .. arrived
              /\ current \in Nat \cup {Null} /\ page \in [Loop -> 0 .. arrived]
            BY <1>0 DEF TypeOK, Cursors
        <2>2. CASE caller[w] = Null
            <3>1. current' = current /\ running /\ ~stale /\ readTo' = readTo  BY <2>2, <1>p, <1>u
            <3>2. current <= noticed \/ current <= readTo  BY <3>1, <1>0 DEF SeenOK
            <3> QED  BY <3>1, <3>2, <2>1, <1>u
        <2>3. CASE caller[w] # Null
            <3>1. current' = page[caller[w]] /\ page[caller[w]] \in 0 .. arrived  BY <2>1, <2>3, <1>r, <1>l
            <3> QED  BY <3>1, <2>1, <1>u
        <2> QED  BY <2>2, <2>3
    <1>6. Unnotified'  BY <1>u, <1>0 DEF Unnotified
    <1>7. Ahead'
        <2> SUFFICES ASSUME ~subscribed', ~stale', alive' PROVE Ahead'  BY DEF Ahead
        <2>1. ~subscribed /\ ~stale /\ alive /\ aborted' = aborted  BY <1>s, <1>u
        <2>2. /\ queued => pending
              /\ pending => \E v \in Wake : asked[v] = "asking" \/ track[v] # "off"
              /\ \A v \in Wake : asked[v] = "asking" /\ caller[v] # Null /\ queued => aborted[caller[v]]
            BY <2>1, <1>0 DEF Ahead
        <2>3. CASE /\ track' = [track EXCEPT ![w] = "reading"] /\ Idles(Answered(w)) /\ pending
                   /\ pending' = pending /\ queued' = queued
            <3>1. track'[w] = "reading"  BY <2>3, <1>0 DEF TypeOK
            <3> QED  BY <3>1, <2>1, <2>2, <2>3, <1>A DEF Ahead, Idles
        <2>4. CASE /\ Idles(Answered(w)) /\ ~pending' /\ queued' = queued /\ (~queued \/ turnActive)
            <3>1. ~queued  BY <2>1, <2>4, <1>0 DEF Unnotified
            <3> QED  BY <3>1, <2>4 DEF Ahead
        <2>5. CASE Asked(Answered(w)) /\ pending' /\ ~queued'
            <3>1. PICK x \in Wake : asked' = [Answered(w) EXCEPT ![x] = "asking"]  BY <2>5 DEF Asked
            <3>2. asked'[x] = "asking"  BY <3>1, <1>A
            <3> QED  BY <3>2, <2>5 DEF Ahead
        <2> QED  BY <2>3, <2>4, <2>5, <1>t DEF Tracked
    <1> QED  BY <1>1, <1>2, <1>3, <1>4, <1>5, <1>6, <1>7 DEF IInv

LEMMA RejectedStep ==
    ASSUME IInv, NEW w \in Wake, Rejected(w)
    PROVE  IInv'
    <1> USE DEF Rejected, mail, Fails, ComesBack, At, Continues, PollFails, Answered
    <1>0. TypeOK /\ Single /\ Awaits /\ CursorsOK /\ SeenOK /\ Unnotified /\ Ahead
        BY DEF IInv
    <1>n. Null \notin Loop /\ Null \notin Wake /\ Null \notin Nat /\ User \notin Wake
        BY NullAssumption, UserAssumption
    <1>u. /\ asked[w] = "asking" /\ Uses("failures") /\ pending' = FALSE
          /\ asked' = [asked EXCEPT ![w] = "answered"]
          /\ waiting' \in {waiting, waiting \cup ({w} \ (completed \cup {turn}))}
          /\ UNCHANGED <<mail, turnActive, queued, authFailed, aborted, page, hot, caller, track,
                         turn, subscribed, completed, drained, notes, noticed>>
        OBVIOUS
    <1> DEFINE Returns(l) == /\ (at' = [at EXCEPT ![l] = "sleep"] \/ at' = [at EXCEPT ![l] = "end"])
                             /\ running' = (running /\ (aborted[l] \/ ~authFailed))
                             /\ UNCHANGED <<current, cursor, alive>>
                             /\ stale' = (stale \/ aborted[l])
               Dies == alive' = FALSE /\ UNCHANGED <<at, running, cursor, current, stale>>
    <1>p. (caller[w] # Null /\ Returns(caller[w])) \/ (caller[w] = Null /\ Dies)
        OBVIOUS
    <1>l. caller[w] \in Loop \cup {Null} /\ (caller[w] # Null => at[caller[w]] = "waking")
        BY <1>u, <1>0 DEF TypeOK, Awaits
    <1>s. /\ ~stale' => ~stale /\ (caller[w] # Null => ~aborted[caller[w]])
          /\ stale' \in BOOLEAN /\ running' \in BOOLEAN /\ (running' => running) /\ alive' \in BOOLEAN
          /\ UNCHANGED <<current, cursor>> /\ (alive' => alive /\ caller[w] # Null)
        <2>1. CASE caller[w] # Null /\ Returns(caller[w])
            <3>1. /\ stale' = (stale \/ aborted[caller[w]])
                  /\ running' = (running /\ (aborted[caller[w]] \/ ~authFailed))
                  /\ alive' = alive /\ alive \in BOOLEAN
                BY <2>1, <1>0 DEF TypeOK
            <3> QED  BY <2>1, <3>1
        <2>2. CASE caller[w] = Null /\ Dies
            <3>1. stale' = stale /\ stale \in BOOLEAN /\ running' = running /\ running \in BOOLEAN
                BY <2>2, <1>0 DEF TypeOK
            <3>2. ~alive' /\ alive' \in BOOLEAN /\ UNCHANGED <<current, cursor>>
                <4>1. alive' = FALSE /\ UNCHANGED <<current, cursor>>  BY <2>2
                <4> QED  BY <4>1
            <3> HIDE DEF Dies, Returns
            <3> QED  BY <2>2, <3>1, <3>2
        <2> QED  BY <2>1, <2>2, <1>p
    <1>r. /\ \A j \in Loop : j # caller[w] => at'[j] = at[j]
          /\ caller[w] # Null => at'[caller[w]] \in {"sleep", "end"}
        BY <1>p, <1>l, <1>0 DEF TypeOK
    <1> HIDE DEF Rejected, At, PollFails, ComesBack, Continues
    <1>1. TypeOK'
        <2>1. at' \in [Loop -> Ats]
            <3>1. CASE caller[w] # Null  BY <3>1, <1>p, <1>l, <1>0 DEF TypeOK, Ats
            <3>2. CASE caller[w] = Null  BY <3>2, <1>p, <1>0 DEF TypeOK, Ats
            <3> QED  BY <3>1, <3>2
        <2>2. left' \in Lefts  BY <1>u, <1>0, UsesType DEF TypeOK, Lefts
        <2>3. waiting' \in SUBSET Wake  BY <1>u, <1>0 DEF TypeOK
        <2>4. asked' \in [Wake -> AskedStates]  BY <1>u, <1>0 DEF TypeOK, AskedStates
        <2>5. pending' \in BOOLEAN
            <3>1. pending' = FALSE  BY <1>u
            <3> QED  BY <3>1
        <2> QED  BY <2>1, <2>2, <2>3, <2>4, <2>5, <1>s, <1>u, <1>0 DEF TypeOK, Ats, Lefts, AskedStates
    <1>2. Single'
        <2>1. \A j \in Loop : at'[j] # "off" => at[j] # "off"
            <3> TAKE j \in Loop
            <3>1. CASE j = caller[w]
                <4>1. at[j] = "waking"  BY <3>1, <1>l, <1>n
                <4> QED  BY <4>1
            <3>2. CASE j # caller[w]  BY <3>2, <1>r
            <3> QED  BY <3>1, <3>2
        <2> QED  BY <2>1, <1>u, <1>0 DEF Single
    <1>3. Awaits'
        <2>1. \A v \in Wake \ {w} : asked[v] = "asking" /\ caller[v] # Null => caller[v] # caller[w]
            BY <1>u, <1>0 DEF Awaits
        <2>2. \A v \in Wake : caller[v] \in Loop \cup {Null}  BY <1>0 DEF TypeOK
        <2>3. asked'[w] = "answered" /\ (\A v \in Wake \ {w} : asked'[v] = asked[v]) /\ caller' = caller
            BY <1>u, <1>0 DEF TypeOK
        <2> QED  BY <2>1, <2>2, <2>3, <1>r, <1>0 DEF Awaits
    <1>4. CursorsOK'
        <2> SUFFICES ASSUME ~stale' PROVE CursorsOK'  BY DEF CursorsOK
        <2>1. /\ ~stale /\ (caller[w] # Null => ~aborted[caller[w]])
              /\ UNCHANGED <<current, cursor, aborted, readTo, page, hot>>
            BY <1>s, <1>u
        <2>2. \A j \in Loop : at'[j] = at[j] \/ at'[j] \in {"sleep", "end"}
            <3> TAKE j \in Loop
            <3>1. CASE j = caller[w]  BY <3>1, <1>r, <1>n
            <3>2. CASE j # caller[w]  BY <3>2, <1>r
            <3> QED  BY <3>1, <3>2
        <2>3. \A j \in Loop : at'[j] # "off" => at[j] # "off"
            <3> TAKE j \in Loop
            <3>1. CASE j = caller[w]
                <4>1. at[j] = "waking"  BY <3>1, <1>l, <1>n
                <4> QED  BY <4>1
            <3>2. CASE j # caller[w]  BY <3>2, <1>r
            <3> QED  BY <3>1, <3>2
        <2> QED  BY <2>1, <2>2, <2>3, <1>0 DEF CursorsOK
    <1>5. SeenOK'
        <2>1. (~stale' => ~stale) /\ (running' => running) /\ UNCHANGED <<current, noticed, readTo>>
            BY <1>s, <1>u
        <2> QED  BY <2>1, <1>0 DEF SeenOK
    <1>6. Unnotified'  BY <1>u, <1>0 DEF Unnotified
    <1>7. Ahead'
        <2> SUFFICES ASSUME ~subscribed', ~stale', alive' PROVE Ahead'  BY DEF Ahead
        <2>1. /\ ~subscribed /\ ~stale /\ alive /\ caller[w] # Null /\ ~aborted[caller[w]]
              /\ ~pending' /\ queued' = queued
            BY <1>s, <1>u
        <2>2. ~queued  BY <2>1, <1>u, <1>0 DEF Ahead
        <2> QED  BY <2>1, <2>2 DEF Ahead
    <1> QED  BY <1>1, <1>2, <1>3, <1>4, <1>5, <1>6, <1>7 DEF IInv

LEMMA TrackReadsStep ==
    ASSUME IInv, NEW w \in Wake, TrackReads(w)
    PROVE  IInv'
    <1> USE DEF TrackReads, mail, loops, appServer, history, Fails, Asks, TrackEnds
    <1>0. TypeOK /\ Single /\ Awaits /\ CursorsOK /\ SeenOK /\ Unnotified /\ Ahead
        BY DEF IInv
    <1>n. Null \notin Loop /\ Null \notin Wake /\ Null \notin Nat /\ User \notin Wake
        BY NullAssumption, UserAssumption
    <1>u. UNCHANGED <<mail, running, current, turnActive, authFailed, alive, at, aborted, cursor, page, hot,
                      turn, subscribed, waiting, drained, notes, noticed, stale>>
        OBVIOUS
    <1> HIDE DEF TrackEnds, Asks
    <1> DEFINE GoesOn == /\ track' = [track EXCEPT ![w] = "sleep"] /\ Idles(asked)
                         /\ UNCHANGED <<pending, queued>>
    <1>t. GoesOn \/ Tracked(w, asked)  BY TrackEndsFacts DEF Idles
    <1>q. pending' \in BOOLEAN /\ queued' \in BOOLEAN /\ left' \in Lefts
        <2>1. left' = left \/ Uses("failures")  OBVIOUS
        <2>2. left' \in Lefts  BY <2>1, <1>0, UsesType DEF TypeOK, Lefts
        <2>3. (pending' = pending /\ queued' = queued) \/ TrackEnds(w, asked)  OBVIOUS
        <2> QED  BY <2>2, <2>3, <1>0, TrackEndsFacts DEF TypeOK
    <1>A. asked \in [Wake -> AskedStates]  BY <1>0 DEF TypeOK, AskedStates
    <1>T. /\ track' \in [Wake -> {"off", "reading", "sleep"}]
          /\ asked' \in [Wake -> AskedStates]
          /\ caller' \in [Wake -> Loop \cup {Null}]
          /\ completed' \in SUBSET Wake
        <2>1. CASE GoesOn  BY <2>1, <1>A, <1>0 DEF Idles, TypeOK
        <2>2. CASE Tracked(w, asked)  BY <2>2, <1>A, <1>0, TrackedTypes
        <2> QED  BY <2>1, <2>2, <1>t
    <1> HIDE DEF TrackReads
    <1>1. TypeOK'  BY <1>q, <1>T, <1>u, <1>0 DEF TypeOK, AskedStates, Lefts
    <1>2. Single'  BY <1>u, <1>0 DEF Single
    <1>3. Awaits'
        <2>1. ASSUME NEW v \in Wake, asked'[v] = "asking", caller'[v] # Null
              PROVE  asked[v] = "asking" /\ caller[v] = caller'[v]
            <3>1. CASE Idles(asked)  BY <3>1, <2>1 DEF Idles
            <3>2. CASE Asked(asked)
                <4>1. PICK x \in Wake : /\ asked' = [asked EXCEPT ![x] = "asking"]
                                       /\ caller' = [caller EXCEPT ![x] = Null]
                    BY <3>2 DEF Asked
                <4>2. v # x  BY <4>1, <2>1, <1>0 DEF TypeOK
                <4> QED  BY <4>1, <4>2, <2>1, <1>0 DEF TypeOK
            <3> QED  BY <3>1, <3>2, <1>t DEF Tracked, Idles
        <2> QED  BY <2>1, <1>u, <1>0 DEF Awaits
    <1>4. CursorsOK'  BY <1>u, <1>0 DEF CursorsOK
    <1>5. SeenOK'  BY <1>u, <1>0 DEF SeenOK
    <1>6. Unnotified'  BY <1>u, <1>0 DEF Unnotified
    <1>7. Ahead'
        <2> SUFFICES ASSUME ~subscribed', ~stale', alive' PROVE Ahead'  BY DEF Ahead
        <2>1. ~subscribed /\ ~stale /\ alive /\ aborted' = aborted  BY <1>u
        <2>2. /\ queued => pending
              /\ pending => \E v \in Wake : asked[v] = "asking" \/ track[v] # "off"
              /\ \A v \in Wake : asked[v] = "asking" /\ caller[v] # Null /\ queued => aborted[caller[v]]
            BY <2>1, <1>0 DEF Ahead
        <2>3. CASE /\ track' = [track EXCEPT ![w] = "reading"] /\ Idles(asked) /\ pending
                   /\ pending' = pending /\ queued' = queued
            <3>1. track'[w] = "reading"  BY <2>3, <1>0 DEF TypeOK
            <3> QED  BY <3>1, <2>1, <2>2, <2>3, <1>A DEF Ahead, Idles
        <2>4. CASE /\ Idles(asked) /\ ~pending' /\ queued' = queued /\ (~queued \/ turnActive)
            <3>1. ~queued  BY <2>1, <2>4, <1>0 DEF Unnotified
            <3> QED  BY <3>1, <2>4 DEF Ahead
        <2>5. CASE Asked(asked) /\ pending' /\ ~queued'
            <3>1. PICK x \in Wake : asked' = [asked EXCEPT ![x] = "asking"]  BY <2>5 DEF Asked
            <3>2. asked'[x] = "asking"  BY <3>1, <1>A
            <3> QED  BY <3>2, <2>5 DEF Ahead
        <2>6. CASE GoesOn
            <3>1. track'[w] = "sleep"  BY <2>6, <1>0 DEF TypeOK
            <3> QED  BY <3>1, <2>1, <2>2, <2>6 DEF Ahead, Idles
        <2> QED  BY <2>3, <2>4, <2>5, <2>6, <1>t DEF Tracked
    <1> QED  BY <1>1, <1>2, <1>3, <1>4, <1>5, <1>6, <1>7 DEF IInv

LEMMA TrackSleptStep ==
    ASSUME IInv, NEW w \in Wake, TrackSlept(w)
    PROVE  IInv'
    <1> USE DEF TrackSlept, mail, loops, appServer, history, Asks, TrackEnds, TrackChecks
    <1>0. TypeOK /\ Single /\ Awaits /\ CursorsOK /\ SeenOK /\ Unnotified /\ Ahead
        BY DEF IInv
    <1>n. Null \notin Loop /\ Null \notin Wake /\ Null \notin Nat /\ User \notin Wake
        BY NullAssumption, UserAssumption
    <1>u. UNCHANGED <<mail, running, current, turnActive, authFailed, alive, at, aborted, cursor, page, hot,
                      turn, subscribed, waiting, drained, notes, noticed, stale>>
        OBVIOUS
    <1> HIDE DEF TrackChecks, TrackEnds, Asks
    <1>t. Tracked(w, asked)  BY TrackChecksFacts
    <1>q. pending' \in BOOLEAN /\ queued' \in BOOLEAN /\ left' \in Lefts
        BY <1>0, TrackChecksFacts DEF TypeOK, Lefts
    <1>A. asked \in [Wake -> AskedStates]  BY <1>0 DEF TypeOK, AskedStates
    <1>T. /\ track' \in [Wake -> {"off", "reading", "sleep"}]
          /\ asked' \in [Wake -> AskedStates]
          /\ caller' \in [Wake -> Loop \cup {Null}]
          /\ completed' \in SUBSET Wake
        BY <1>A, <1>t, <1>0, TrackedTypes
    <1> HIDE DEF TrackSlept
    <1>1. TypeOK'  BY <1>q, <1>T, <1>u, <1>0 DEF TypeOK, AskedStates, Lefts
    <1>2. Single'  BY <1>u, <1>0 DEF Single
    <1>3. Awaits'
        <2>1. ASSUME NEW v \in Wake, asked'[v] = "asking", caller'[v] # Null
              PROVE  asked[v] = "asking" /\ caller[v] = caller'[v]
            <3>1. CASE Idles(asked)  BY <3>1, <2>1 DEF Idles
            <3>2. CASE Asked(asked)
                <4>1. PICK x \in Wake : /\ asked' = [asked EXCEPT ![x] = "asking"]
                                       /\ caller' = [caller EXCEPT ![x] = Null]
                    BY <3>2 DEF Asked
                <4>2. v # x  BY <4>1, <2>1, <1>0 DEF TypeOK
                <4> QED  BY <4>1, <4>2, <2>1, <1>0 DEF TypeOK
            <3> QED  BY <3>1, <3>2, <1>t DEF Tracked
        <2> QED  BY <2>1, <1>u, <1>0 DEF Awaits
    <1>4. CursorsOK'  BY <1>u, <1>0 DEF CursorsOK
    <1>5. SeenOK'  BY <1>u, <1>0 DEF SeenOK
    <1>6. Unnotified'  BY <1>u, <1>0 DEF Unnotified
    <1>7. Ahead'
        <2> SUFFICES ASSUME ~subscribed', ~stale', alive' PROVE Ahead'  BY DEF Ahead
        <2>1. ~subscribed /\ ~stale /\ alive /\ aborted' = aborted  BY <1>u
        <2>2. /\ queued => pending
              /\ pending => \E v \in Wake : asked[v] = "asking" \/ track[v] # "off"
              /\ \A v \in Wake : asked[v] = "asking" /\ caller[v] # Null /\ queued => aborted[caller[v]]
            BY <2>1, <1>0 DEF Ahead
        <2>3. CASE /\ track' = [track EXCEPT ![w] = "reading"] /\ Idles(asked) /\ pending
                   /\ pending' = pending /\ queued' = queued
            <3>1. track'[w] = "reading"  BY <2>3, <1>0 DEF TypeOK
            <3> QED  BY <3>1, <2>1, <2>2, <2>3, <1>A DEF Ahead, Idles
        <2>4. CASE /\ Idles(asked) /\ ~pending' /\ queued' = queued /\ (~queued \/ turnActive)
            <3>1. ~queued  BY <2>1, <2>4, <1>0 DEF Unnotified
            <3> QED  BY <3>1, <2>4 DEF Ahead
        <2>5. CASE Asked(asked) /\ pending' /\ ~queued'
            <3>1. PICK x \in Wake : asked' = [asked EXCEPT ![x] = "asking"]  BY <2>5 DEF Asked
            <3>2. asked'[x] = "asking"  BY <3>1, <1>A
            <3> QED  BY <3>2, <2>5 DEF Ahead
        <2> QED  BY <2>3, <2>4, <2>5, <1>t DEF Tracked
    <1> QED  BY <1>1, <1>2, <1>3, <1>4, <1>5, <1>6, <1>7 DEF IInv

LEMMA StopStep ==
    ASSUME IInv, Stop
    PROVE  IInv'
    <1> USE DEF Stop, mail, wakes, appServer, Halt
    <1>0. TypeOK /\ Single /\ Awaits /\ CursorsOK /\ SeenOK /\ Unnotified /\ Ahead
        BY DEF IInv
    <1>n. Null \notin Loop /\ Null \notin Wake /\ Null \notin Nat /\ User \notin Wake
        BY NullAssumption, UserAssumption
    <1>1. TypeOK'  BY UsesType, <1>0, <1>n DEF TypeOK, Cursors, Lefts
    <1>2. Single'  BY <1>0, <1>n DEF Single, TypeOK
    <1>3. Awaits'  BY <1>0, <1>n DEF Awaits, TypeOK, Free
    <1>4. CursorsOK'  BY <1>0, <1>n DEF CursorsOK, Single, Awaits, TypeOK, Cursors
    <1>5. SeenOK'  BY <1>0, <1>n DEF SeenOK, CursorsOK, TypeOK, Cursors
    <1>6. Unnotified'  BY <1>0, <1>n DEF Unnotified
    <1>7. Ahead'  BY <1>0, <1>n DEF Ahead, Single, Awaits, Unnotified, TypeOK, Free
    <1> QED  BY <1>1, <1>2, <1>3, <1>4, <1>5, <1>6, <1>7 DEF IInv

LEMMA DeliverStep ==
    ASSUME IInv, Deliver
    PROVE  IInv'
    <1> USE DEF Deliver, mail, loops, wakes
    <1>0. TypeOK /\ Single /\ Awaits /\ CursorsOK /\ SeenOK /\ Unnotified /\ Ahead
        BY DEF IInv
    <1>n. Null \notin Loop /\ Null \notin Wake /\ Null \notin Nat /\ User \notin Wake
        BY NullAssumption, UserAssumption
    <1>1. TypeOK'
        <2>1. notes' \in Seq({"started", "completed"})
            <3>1. notes \in Seq({"started", "completed"}) /\ notes # <<>> /\ notes' = Tail(notes)
                BY <1>0 DEF TypeOK
            <3> QED  BY <3>1
        <2>2. turnActive' \in BOOLEAN /\ pending' \in BOOLEAN /\ queued' \in BOOLEAN
            <3>1. CASE turnActive' = TRUE /\ pending' = FALSE /\ queued' = queued  BY <3>1, <1>0 DEF TypeOK
            <3>2. CASE turnActive' = FALSE /\ queued' = (queued \/ pending) /\ pending' = pending
                BY <3>2, <1>0 DEF TypeOK
            <3> QED  BY <3>1, <3>2
        <2>3. noticed' \in 0 .. arrived  BY <1>0 DEF TypeOK
        <2> HIDE DEF Deliver
        <2>4. UNCHANGED <<mail, running, current, authFailed, alive, loops, wakes,
                          turn, subscribed, waiting, drained, stale, left>>
            BY DEF Deliver
        <2> QED  BY <2>1, <2>2, <2>3, <2>4, <1>0 DEF TypeOK
    <1>2. Single'  BY <1>0, <1>n DEF Single, TypeOK
    <1>3. Awaits'  BY <1>0, <1>n DEF Awaits, TypeOK, Free
    <1>4. CursorsOK'  BY <1>0, <1>n DEF CursorsOK, Single, Awaits, TypeOK, Cursors
    <1>5. SeenOK'  BY <1>0, <1>n DEF SeenOK, CursorsOK, TypeOK, Cursors
    <1>6. Unnotified'  BY <1>0, <1>n DEF Unnotified
    <1>7. Ahead'  BY <1>0, <1>n DEF Ahead, Single, Awaits, Unnotified, TypeOK, Free
    <1> QED  BY <1>1, <1>2, <1>3, <1>4, <1>5, <1>6, <1>7 DEF IInv

LEMMA ArriveStep ==
    ASSUME IInv, Arrive
    PROVE  IInv'
    <1> USE DEF Arrive, watcher, loops, wakes, appServer, history
    <1>0. TypeOK /\ Single /\ Awaits /\ CursorsOK /\ SeenOK /\ Unnotified /\ Ahead
        BY DEF IInv
    <1>n. Null \notin Loop /\ Null \notin Wake /\ Null \notin Nat /\ User \notin Wake
        BY NullAssumption, UserAssumption
    <1>1. TypeOK'  BY UsesType, <1>0, <1>n DEF TypeOK, Cursors, Lefts
    <1>2. Single'  BY <1>0, <1>n DEF Single, TypeOK
    <1>3. Awaits'  BY <1>0, <1>n DEF Awaits, TypeOK, Free
    <1>4. CursorsOK'  BY <1>0, <1>n DEF CursorsOK, Single, Awaits, TypeOK, Cursors
    <1>5. SeenOK'  BY <1>0, <1>n DEF SeenOK, CursorsOK, TypeOK, Cursors
    <1>6. Unnotified'  BY <1>0, <1>n DEF Unnotified
    <1>7. Ahead'  BY <1>0, <1>n DEF Ahead, Single, Awaits, Unnotified, TypeOK, Free
    <1> QED  BY <1>1, <1>2, <1>3, <1>4, <1>5, <1>6, <1>7 DEF IInv

LEMMA DrainStep ==
    ASSUME IInv, Drain
    PROVE  IInv'
    <1> USE DEF Drain, watcher, loops, wakes, history
    <1>0. TypeOK /\ Single /\ Awaits /\ CursorsOK /\ SeenOK /\ Unnotified /\ Ahead
        BY DEF IInv
    <1>n. Null \notin Loop /\ Null \notin Wake /\ Null \notin Nat /\ User \notin Wake
        BY NullAssumption, UserAssumption
    <1>1. TypeOK'  BY <1>0, <1>n DEF TypeOK, Cursors, Lefts
    <1>2. Single'  BY <1>0, <1>n DEF Single, TypeOK
    <1>3. Awaits'  BY <1>0, <1>n DEF Awaits, TypeOK, Free
    <1>4. CursorsOK'  BY <1>0, <1>n DEF CursorsOK, Single, Awaits, TypeOK, Cursors
    <1>5. SeenOK'  BY <1>0, <1>n DEF SeenOK, CursorsOK, TypeOK, Cursors
    <1>6. Unnotified'  BY <1>0, <1>n DEF Unnotified
    <1>7. Ahead'  BY <1>0, <1>n DEF Ahead, Single, Awaits, Unnotified, TypeOK, Free
    <1> QED  BY <1>1, <1>2, <1>3, <1>4, <1>5, <1>6, <1>7 DEF IInv

LEMMA TurnEndsStep ==
    ASSUME IInv, TurnEnds
    PROVE  IInv'
    <1> USE DEF TurnEnds, mail, watcher, loops, history, Notify
    <1>0. TypeOK /\ Single /\ Awaits /\ CursorsOK /\ SeenOK /\ Unnotified /\ Ahead
        BY DEF IInv
    <1>n. Null \notin Loop /\ Null \notin Wake /\ Null \notin Nat /\ User \notin Wake
        BY NullAssumption, UserAssumption
    <1>1. TypeOK'
        <2>1. notes' \in Seq({"started", "completed"})
            <3>1. notes \in Seq({"started", "completed"})  BY <1>0 DEF TypeOK
            <3>2. Append(notes, "completed") \in Seq({"started", "completed"})  BY <3>1
            <3> QED  BY <3>1, <3>2
        <2>2. completed' \in SUBSET Wake  BY <1>0 DEF TypeOK
        <2>3. turn' = Null /\ drained' = FALSE  OBVIOUS
        <2>4. UNCHANGED <<mail, watcher, loops, caller, asked, track, subscribed, waiting, history, left>>
            OBVIOUS
        <2> HIDE DEF TurnEnds, Notify
        <2> QED  BY <2>1, <2>2, <2>3, <2>4, <1>0 DEF TypeOK
    <1>2. Single'  BY <1>0, <1>n DEF Single, TypeOK
    <1>3. Awaits'  BY <1>0, <1>n DEF Awaits, TypeOK, Free
    <1>4. CursorsOK'  BY <1>0, <1>n DEF CursorsOK, Single, Awaits, TypeOK, Cursors
    <1>5. SeenOK'  BY <1>0, <1>n DEF SeenOK, CursorsOK, TypeOK, Cursors
    <1>6. Unnotified'  BY <1>0, <1>n DEF Unnotified
    <1>7. Ahead'  BY <1>0, <1>n DEF Ahead, Single, Awaits, Unnotified, TypeOK, Free
    <1> QED  BY <1>1, <1>2, <1>3, <1>4, <1>5, <1>6, <1>7 DEF IInv

LEMMA TurnStartsStep ==
    ASSUME IInv, NEW x \in Wake \cup {User}, TurnStarts(x)
    PROVE  IInv'
    <1> USE DEF TurnStarts, mail, watcher, loops, wakes, history, Notify
    <1>0. TypeOK /\ Single /\ Awaits /\ CursorsOK /\ SeenOK /\ Unnotified /\ Ahead
        BY DEF IInv
    <1>n. Null \notin Loop /\ Null \notin Wake /\ Null \notin Nat /\ User \notin Wake
        BY NullAssumption, UserAssumption
    <1>1. TypeOK'
        <2>1. notes' \in Seq({"started", "completed"})
            <3>1. notes \in Seq({"started", "completed"})  BY <1>0 DEF TypeOK
            <3>2. Append(notes, "started") \in Seq({"started", "completed"})  BY <3>1
            <3> QED  BY <3>1, <3>2
        <2>2. left' \in Lefts
            <3>1. left' = left \/ Uses("turns")  OBVIOUS
            <3> QED  BY <3>1, <1>0, UsesType DEF TypeOK, Lefts
        <2>3. waiting' \in SUBSET Wake /\ turn' \in Wake \cup {User, Null}  BY <1>0 DEF TypeOK
        <2>4. UNCHANGED <<mail, watcher, loops, wakes, subscribed, drained, history>>
            OBVIOUS
        <2> HIDE DEF TurnStarts, Notify
        <2> QED  BY <2>1, <2>2, <2>3, <2>4, <1>0 DEF TypeOK, Lefts
    <1>2. Single'  BY <1>0, <1>n DEF Single, TypeOK
    <1>3. Awaits'  BY <1>0, <1>n DEF Awaits, TypeOK, Free
    <1>4. CursorsOK'  BY <1>0, <1>n DEF CursorsOK, Single, Awaits, TypeOK, Cursors
    <1>5. SeenOK'  BY <1>0, <1>n DEF SeenOK, CursorsOK, TypeOK, Cursors
    <1>6. Unnotified'  BY <1>0, <1>n DEF Unnotified
    <1>7. Ahead'  BY <1>0, <1>n DEF Ahead, Single, Awaits, Unnotified, TypeOK, Free
    <1> QED  BY <1>1, <1>2, <1>3, <1>4, <1>5, <1>6, <1>7 DEF IInv

LEMMA Initially ==
    ASSUME Init
    PROVE  IInv
    <1> USE DEF Init
    <1>n. Null \notin Loop /\ Null \notin Wake /\ Null \notin Nat /\ User \notin Wake
        BY NullAssumption, UserAssumption
    <1>1. TypeOK
        <2>1. left \in Lefts  BY BoundsAssumption DEF Lefts
        <2>2. {running, alive, authFailed, stale, subscribed} \subseteq BOOLEAN  OBVIOUS
        <2>3. notes \in Seq({"started", "completed"})  OBVIOUS
        <2>4. arrived \in Nat /\ readTo \in 0 .. arrived /\ noticed \in 0 .. arrived  OBVIOUS
        <2>5. page \in [Loop -> 0 .. arrived]
            <3>1. 0 \in 0 .. arrived /\ page = [l \in Loop |-> 0]  BY <2>4
            <3> QED  BY <3>1
        <2>6. turnActive \in BOOLEAN /\ pending \in BOOLEAN /\ queued \in BOOLEAN /\ drained \in BOOLEAN
            OBVIOUS
        <2>7. /\ current \in Cursors /\ cursor \in [Loop -> Cursors]
              /\ caller \in [Wake -> Loop \cup {Null}] /\ turn \in Wake \cup {User, Null}
              /\ waiting \in SUBSET Wake /\ completed \in SUBSET Wake
            BY DEF Cursors
        <2>8. /\ at \in [Loop -> {"off", "page", "unread", "save", "waking", "sleep", "end"}]
              /\ aborted \in [Loop -> BOOLEAN] /\ hot \in [Loop -> BOOLEAN]
              /\ asked \in [Wake -> {"no", "asking", "answered"}]
              /\ track \in [Wake -> {"off", "reading", "sleep"}]
            OBVIOUS
        <2> HIDE DEF Init
        <2> QED  BY <2>1, <2>2, <2>3, <2>4, <2>5, <2>6, <2>7, <2>8 DEF TypeOK, Lefts
    <1>2. Single  BY DEF Single
    <1>3. Awaits  BY DEF Awaits
    <1>4. CursorsOK  BY DEF CursorsOK
    <1>5. SeenOK  BY DEF SeenOK
    <1>6. Unnotified  BY DEF Unnotified
    <1>7. Ahead  BY DEF Ahead
    <1> QED  BY <1>1, <1>2, <1>3, <1>4, <1>5, <1>6, <1>7 DEF IInv

LEMMA Stutter ==
    ASSUME IInv, UNCHANGED vars
    PROVE  IInv'
    <1> USE DEF vars, mail, watcher, loops, wakes, appServer, history
    <1>1. TypeOK'  BY DEF IInv, TypeOK, Cursors
    <1>2. Single' /\ Awaits' /\ Unnotified'  BY DEF IInv, Single, Awaits, Unnotified
    <1>3. CursorsOK' /\ SeenOK'  BY DEF IInv, CursorsOK, SeenOK
    <1>4. Ahead'  BY DEF IInv, Ahead
    <1> QED  BY <1>1, <1>2, <1>3, <1>4 DEF IInv

LEMMA Inductive ==
    ASSUME IInv, [Next]_vars
    PROVE  IInv'
    <1>1. ASSUME NEW l \in Loop, Start(l) PROVE IInv'  BY <1>1, StartStep
    <1>2. ASSUME NEW l \in Loop, LoopStep(l) PROVE IInv'
        BY <1>2, PageStep, UnreadStep, SaveStep, SleptStep DEF LoopStep
    <1>3. CASE Stop  BY <1>3, StopStep
    <1>4. ASSUME NEW w \in Wake, WakeStep(w) PROVE IInv'
        BY <1>4, AcceptedStep, RejectedStep, TrackReadsStep, TrackSleptStep DEF WakeStep
    <1>5. CASE Deliver  BY <1>5, DeliverStep
    <1>6. CASE Arrive  BY <1>6, ArriveStep
    <1>7. ASSUME NEW x \in Wake \cup {User}, TurnStarts(x) PROVE IInv'  BY <1>7, TurnStartsStep
    <1>8. CASE Drain  BY <1>8, DrainStep
    <1>9. CASE TurnEnds  BY <1>9, TurnEndsStep
    <1>10. CASE UNCHANGED vars  BY <1>10, Stutter
    <1> QED  BY <1>1, <1>2, <1>3, <1>4, <1>5, <1>6, <1>7, <1>8, <1>9, <1>10 DEF Next

------------------------------------------------------------------------------
(* Theorems. *)

(* The invariant holds in every behaviour, whatever requests fail, time    *)
(* out or are answered late, and whenever the watcher is stopped.          *)
THEOREM Invariance == Spec => []IInv
    <1>1. Init => IInv  BY Initially
    <1>2. IInv /\ [Next]_vars => IInv'  BY Inductive
    <1> QED  BY <1>1, <1>2, PTL DEF Spec

(* No wake is stranded: where completions are polled and no stopped loop   *)
(* has come back, a queued wake has a request or a completion ahead that   *)
(* asks for it.  (And the state has its type.)                             *)
THEOREM NoWakeIsStranded == Spec => []WatcherInv
    <1>1. IInv => WatcherInv
        <2> SUFFICES ASSUME IInv, ~subscribed, ~stale, running, alive, queued PROVE ~Quiet
            BY DEF IInv, WatcherInv, NoStrandedWake, QueuedAhead
        <2>1. \E w \in Wake : asked[w] = "asking" \/ track[w] # "off"  BY DEF IInv, Ahead
        <2> QED  BY <2>1 DEF Quiet
    <1> QED  BY <1>1, Invariance, PTL

(* The watcher passes over no arrival: up to the cursor it keeps, the mail *)
(* has been read or has a wake, asked for or queued.                       *)
THEOREM NoArrivalIsMissed == Spec => []NoArrivalSlips
    <1>1. IInv => NoArrivalSlips  BY DEF IInv, SeenOK, NoArrivalSlips
    <1> QED  BY <1>1, Invariance, PTL
==============================================================================
