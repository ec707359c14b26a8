-------------------------- MODULE CodexLauncherProofs --------------------------
(***************************************************************************)
(* Theorems about CodexLauncher and the App Server client it closes, for   *)
(* any number of requests, commands, faults and signals.                   *)
(*                                                                         *)
(* TableOK is about the client, StartOK about what cannot be there before  *)
(* the client is, EndOK about what the cleanup has put away by each of its *)
(* steps, and PartingOK about the thread whose session it ends.            *)
(***************************************************************************)
EXTENDS CodexLauncher, TLAPS

Pending == {i \in Id : outcome[i] = "pending"}

(* The requests in the table are those that are not answered, and each has *)
(* its timer.                                                              *)
TableOK ==
    /\ table = Pending /\ timers = table
    /\ closed => table = {}

Early == {"profile", "directory", "port", "spawn"}

(* Without a client there is no request but the first, and nobody to make  *)
(* the watcher run.                                                        *)
StartOK ==
    /\ main \in Early => app = "off"
    /\ main \in Starting \ {"control"} => ~client
    /\ main \in {"control", "run"} => client
    /\ main \in Starting \ {"initialize", "control"} => socket = "off" /\ ~closed /\ table = {}
    /\ ~client =>
          /\ \A c \in Command : at[c] = "off"
          /\ tui = "off" /\ control \in {"off", "closed"} /\ ~watching
          /\ table \subseteq {Initialize}
          /\ main \notin {"initialize", "killed"} => table = {}

(* The client is closed and the cleanup behind it, or at its last steps.   *)
Parted == main \in {"ending", "remove"} \/ (main = "settled" /\ app # "off")

EndOK ==
    /\ deadline => main \in {"ending", "killed"}
    /\ end = "up" => main \in {"ending", "killed"}
    /\ main \in {"remove", "settled"} => app # "up" /\ tui # "up"
    /\ socket = "open" => app \in {"up", "told"}
    /\ Parted => control = "closed" /\ (client => socket = "closed" /\ closed) /\ table = {}
    /\ main = "settled" /\ app # "off" => directory # "there"
    /\ watching /\ main \in (Cleaning \ {"stop"}) \cup {"settled"} => late

(* A thread gives way to another, never to none: what the TUI left is      *)
(* retained unless it was replaced, and what session-end was started with  *)
(* is ended or reported.                                                   *)
PartingOK ==
    /\ main \in Starting \cup {"run"} => known = NoThread
    /\ known # NoThread =>
          /\ thread # NoThread
          /\ main \in {"stop", "close"} /\ ~replaced => thread = known
          /\ main = "part" => retained # NoThread /\ (~replaced => retained = known)
          /\ main \in {"ending", "remove", "settled"} =>
                given # NoThread /\ (~replaced => given = known)
    /\ given # NoThread =>
          /\ main \in {"ending", "remove", "settled", "killed"}
          /\ main \in {"remove", "settled"} => reported \/ (ended /\ end = "down")

IInv == LauncherTypeOK /\ TableOK /\ StartOK /\ EndOK /\ PartingOK

------------------------------------------------------------------------------
(* LauncherTypeOK without its lists. *)
Typed ==
    /\ RpcTypeOK
    /\ main \in Starting \cup {"run"} \cup Cleaning \cup {"settled", "killed"}
    /\ directory \in {"none", "there", "gone", "kept"}
    /\ app \in {"off", "up", "told", "down"} /\ tui \in {"off", "up", "told", "down"}
    /\ end \in {"off", "up", "told", "down"}
    /\ control \in {"off", "listening", "closing", "closed"}
    /\ client \in BOOLEAN /\ watching \in BOOLEAN /\ ended \in BOOLEAN /\ reported \in BOOLEAN
    /\ replaced \in BOOLEAN /\ deadline \in BOOLEAN /\ late \in BOOLEAN
    /\ thread \in Thread \cup {NoThread} /\ retained \in Thread \cup {NoThread}
    /\ given \in Thread \cup {NoThread} /\ known \in Thread \cup {NoThread}
    /\ command \in [Command -> {"none", "register", "arm"}]
    /\ at \in [Command -> {"off", "connected", "save", "effects", "done"}]
    /\ connected \subseteq Command
    /\ faults \in 0 .. MaxFaults /\ signals \in 0 .. MaxSignals

LEMMA TypedIsType == Typed <=> LauncherTypeOK
    BY DEF Typed, LauncherTypeOK

LEMMA TypedIsTypePrimed == Typed' => LauncherTypeOK'
    BY DEF Typed, LauncherTypeOK

LEMMA Bounds == MaxFaults \in Nat /\ MaxSignals \in Nat
    BY BoundsAssumption

LEMMA ResolveStep ==
    ASSUME Typed, TableOK, StartOK, EndOK, PartingOK, Resolve
    PROVE  Typed' /\ TableOK' /\ StartOK' /\ EndOK' /\ PartingOK'
    <1> USE DEF Resolve, rpc, children, session, farewell, commands, bounds, Faults
    <1>1. Typed'  BY Bounds DEF Typed, RpcTypeOK, Starting, Cleaning
    <1>2. TableOK'  BY DEF TableOK, Pending
    <1>3. StartOK'  BY DEF StartOK, Starting, Early
    <1>4. EndOK'  BY DEF EndOK, Parted, StartOK, Starting, Early, Cleaning, Typed
    <1>5. PartingOK'  BY DEF PartingOK, Starting, Cleaning, Typed
    <1> QED  BY <1>1, <1>2, <1>3, <1>4, <1>5

LEMMA PrepareStep ==
    ASSUME Typed, TableOK, StartOK, EndOK, PartingOK, Prepare
    PROVE  Typed' /\ TableOK' /\ StartOK' /\ EndOK' /\ PartingOK'
    <1> USE DEF Prepare, rpc, children, session, farewell, commands, bounds, Faults
    <1>1. Typed'  BY Bounds DEF Typed, RpcTypeOK, Starting, Cleaning
    <1>2. TableOK'  BY DEF TableOK, Pending
    <1>3. StartOK'  BY DEF StartOK, Starting, Early
    <1>4. EndOK'  BY DEF EndOK, Parted, StartOK, Starting, Early, Cleaning, Typed
    <1>5. PartingOK'  BY DEF PartingOK, Starting, Cleaning, Typed
    <1> QED  BY <1>1, <1>2, <1>3, <1>4, <1>5

LEMMA SpawnAppStep ==
    ASSUME Typed, TableOK, StartOK, EndOK, PartingOK, SpawnApp
    PROVE  Typed' /\ TableOK' /\ StartOK' /\ EndOK' /\ PartingOK'
    <1> USE DEF SpawnApp, rpc, session, farewell, commands, bounds, Faults
    <1>1. Typed'  BY Bounds DEF Typed, RpcTypeOK, Starting, Cleaning
    <1>2. TableOK'  BY DEF TableOK, Pending
    <1>3. StartOK'  BY DEF StartOK, Starting, Early
    <1>4. EndOK'  BY DEF EndOK, Parted, StartOK, Starting, Early, Cleaning, Typed
    <1>5. PartingOK'  BY DEF PartingOK, Starting, Cleaning, Typed
    <1> QED  BY <1>1, <1>2, <1>3, <1>4, <1>5

LEMMA WaitReadyStep ==
    ASSUME Typed, TableOK, StartOK, EndOK, PartingOK, WaitReady
    PROVE  Typed' /\ TableOK' /\ StartOK' /\ EndOK' /\ PartingOK'
    <1> USE DEF WaitReady, rpc, children, session, farewell, commands, bounds, Faults
    <1>1. Typed'  BY Bounds DEF Typed, RpcTypeOK, Starting, Cleaning
    <1>2. TableOK'  BY DEF TableOK, Pending
    <1>3. StartOK'  BY DEF StartOK, Starting, Early
    <1>4. EndOK'  BY DEF EndOK, Parted, StartOK, Starting, Early, Cleaning, Typed
    <1>5. PartingOK'  BY DEF PartingOK, Starting, Cleaning, Typed
    <1> QED  BY <1>1, <1>2, <1>3, <1>4, <1>5

LEMMA ConnectStep ==
    ASSUME Typed, TableOK, StartOK, EndOK, PartingOK, Connect
    PROVE  Typed' /\ TableOK' /\ StartOK' /\ EndOK' /\ PartingOK'
    <1> USE DEF Connect, rpc, children, session, farewell, commands, bounds, Faults
    <1>1. Typed'
        <2>1. Initialize \in Id  BY InitializeAssumption
        <2>2. RpcTypeOK'  BY <2>1 DEF Typed, RpcTypeOK
        <2> QED  BY <2>2, Bounds DEF Typed, Starting, Cleaning
    <1>2. TableOK'
        <2>1. Initialize \in Id  BY InitializeAssumption
        <2>2. CASE main' = "initialize"
            <3>1. \A i \in Id : outcome[i] # "pending"  BY <2>2 DEF StartOK, TableOK, Pending, Starting
            <3>2. outcome' = [outcome EXCEPT ![Initialize] = "pending"]  BY <2>2
            <3>3. Pending' = {Initialize}  BY <2>1, <3>1, <3>2 DEF Pending, Typed, RpcTypeOK
            <3>4. ~closed'  BY <2>2 DEF StartOK, Starting
            <3> QED  BY <2>2, <3>3, <3>4 DEF TableOK
        <2>3. CASE main' = "stop"  BY <2>3 DEF TableOK, Pending
        <2> QED  BY <2>2, <2>3
    <1>3. StartOK'  BY DEF StartOK, Starting, Early
    <1>4. EndOK'  BY DEF EndOK, Parted, StartOK, Starting, Early, Cleaning, Typed
    <1>5. PartingOK'  BY DEF PartingOK, Starting, Cleaning, Typed
    <1> QED  BY <1>1, <1>2, <1>3, <1>4, <1>5

LEMMA InitializedStep ==
    ASSUME Typed, TableOK, StartOK, EndOK, PartingOK, Initialized
    PROVE  Typed' /\ TableOK' /\ StartOK' /\ EndOK' /\ PartingOK'
    <1> USE DEF Initialized, rpc, children, session, farewell, commands, bounds
    <1>1. Typed'
        <2>1. client' \in BOOLEAN  BY DEF Typed
        <2> QED  BY <2>1, Bounds DEF Typed, RpcTypeOK, Starting, Cleaning
    <1>2. TableOK'  BY DEF TableOK, Pending
    <1>3. StartOK'
        <2>1. outcome[Initialize] \in {"ok", "error"}  OBVIOUS
        <2>2. ~client => table = {}  BY <2>1 DEF StartOK, TableOK, Pending
        <2> QED  BY <2>2 DEF StartOK, Starting, Early
    <1>4. EndOK'  BY DEF EndOK, Parted, StartOK, Starting, Early, Cleaning, Typed
    <1>5. PartingOK'  BY DEF PartingOK, Starting, Cleaning, Typed
    <1> QED  BY <1>1, <1>2, <1>3, <1>4, <1>5

LEMMA RunStep ==
    ASSUME Typed, TableOK, StartOK, EndOK, PartingOK, Run
    PROVE  Typed' /\ TableOK' /\ StartOK' /\ EndOK' /\ PartingOK'
    <1> USE DEF Run, rpc, session, farewell, commands, bounds, Faults
    <1>1. Typed'  BY Bounds DEF Typed, RpcTypeOK, Starting, Cleaning
    <1>2. TableOK'  BY DEF TableOK, Pending
    <1>3. StartOK'  BY DEF StartOK, Starting, Early
    <1>4. EndOK'  BY DEF EndOK, Parted, StartOK, Starting, Early, Cleaning, Typed
    <1>5. PartingOK'  BY DEF PartingOK, Starting, Cleaning, Typed
    <1> QED  BY <1>1, <1>2, <1>3, <1>4, <1>5

LEMMA TuiExitedStep ==
    ASSUME Typed, TableOK, StartOK, EndOK, PartingOK, TuiExited
    PROVE  Typed' /\ TableOK' /\ StartOK' /\ EndOK' /\ PartingOK'
    <1> USE DEF TuiExited, rpc, children, farewell, commands, bounds
    <1>1. Typed'  BY Bounds DEF Typed, RpcTypeOK, Starting, Cleaning
    <1>2. TableOK'  BY DEF TableOK, Pending
    <1>3. StartOK'  BY DEF StartOK, Starting, Early
    <1>4. EndOK'  BY DEF EndOK, Parted, StartOK, Starting, Early, Cleaning, Typed
    <1>5. PartingOK'  BY DEF PartingOK, Starting, Cleaning, Typed
    <1> QED  BY <1>1, <1>2, <1>3, <1>4, <1>5

LEMMA StopWatcherStep ==
    ASSUME Typed, TableOK, StartOK, EndOK, PartingOK, StopWatcher
    PROVE  Typed' /\ TableOK' /\ StartOK' /\ EndOK' /\ PartingOK'
    <1> USE DEF StopWatcher, rpc, children, farewell, commands, bounds
    <1>1. Typed'
        <2>1. watching' \in BOOLEAN  BY DEF Typed
        <2> QED  BY <2>1, Bounds DEF Typed, RpcTypeOK, Starting, Cleaning
    <1>2. TableOK'  BY DEF TableOK, Pending
    <1>3. StartOK'  BY DEF StartOK, Starting, Early
    <1>4. EndOK'  BY DEF EndOK, Parted, StartOK, Starting, Early, Cleaning, Typed
    <1>5. PartingOK'  BY DEF PartingOK, Starting, Cleaning, Typed
    <1> QED  BY <1>1, <1>2, <1>3, <1>4, <1>5

LEMMA CloseControlStep ==
    ASSUME Typed, TableOK, StartOK, EndOK, PartingOK, CloseControl
    PROVE  Typed' /\ TableOK' /\ StartOK' /\ EndOK' /\ PartingOK'
    <1> USE DEF CloseControl, rpc, children, farewell, commands, bounds
    <1>1. Typed'  BY Bounds DEF Typed, RpcTypeOK, Starting, Cleaning
    <1>2. TableOK'  BY DEF TableOK, Pending
    <1>3. StartOK'  BY DEF StartOK, Starting, Early
    <1>4. EndOK'  BY DEF EndOK, Parted, StartOK, Starting, Early, Cleaning, Typed
    <1>5. PartingOK'  BY DEF PartingOK, Starting, Cleaning, Typed
    <1> QED  BY <1>1, <1>2, <1>3, <1>4, <1>5

LEMMA ControlClosedStep ==
    ASSUME Typed, TableOK, StartOK, EndOK, PartingOK, ControlClosed
    PROVE  Typed' /\ TableOK' /\ StartOK' /\ EndOK' /\ PartingOK'
    <1> USE DEF ControlClosed, rpc, children, session, farewell, commands, bounds
    <1>1. Typed'  BY Bounds DEF Typed, RpcTypeOK, Starting, Cleaning
    <1>2. TableOK'  BY DEF TableOK, Pending
    <1>3. StartOK'  BY DEF StartOK, Starting, Early
    <1>4. EndOK'  BY DEF EndOK, Parted, StartOK, Starting, Early, Cleaning, Typed
    <1>5. PartingOK'  BY DEF PartingOK, Starting, Cleaning, Typed
    <1> QED  BY <1>1, <1>2, <1>3, <1>4, <1>5

LEMMA PartStep ==
    ASSUME Typed, TableOK, StartOK, EndOK, PartingOK, Part
    PROVE  Typed' /\ TableOK' /\ StartOK' /\ EndOK' /\ PartingOK'
    <1> USE DEF Part, rpc, commands, bounds, Faults, Stopped, Settle, SocketCloses, Shutdown,
                ClosesClient, SessionEndPayload
    <1>1. Typed'
        <2>1. closed' \in BOOLEAN /\ deadline' \in BOOLEAN  BY DEF Typed, RpcTypeOK
        <2>2. RpcTypeOK'  BY <2>1 DEF Typed, RpcTypeOK
        <2> QED  BY <2>1, <2>2, Bounds DEF Typed, Starting, Cleaning
    <1>2. TableOK'  BY DEF TableOK, Pending
    <1>3. StartOK'  BY DEF StartOK, Starting, Early
    <1>4. EndOK'  BY DEF EndOK, Parted, StartOK, Starting, Early, Cleaning, Typed
    <1>5. PartingOK'  BY DEF PartingOK, Starting, Cleaning, Typed
    <1> QED  BY <1>1, <1>2, <1>3, <1>4, <1>5

LEMMA EndingStep ==
    ASSUME Typed, TableOK, StartOK, EndOK, PartingOK, Ending
    PROVE  Typed' /\ TableOK' /\ StartOK' /\ EndOK' /\ PartingOK'
    <1> USE DEF Ending, rpc, commands, bounds, Stopped, EndSettled
    <1>1. Typed'
        <2>1. deadline' \in BOOLEAN /\ reported' \in BOOLEAN  BY ZenonT(30) DEF Typed
        <2> QED  BY <2>1, Bounds DEF Typed, RpcTypeOK, Starting, Cleaning
    <1>2. TableOK'  BY DEF TableOK, Pending
    <1>3. StartOK'  BY DEF StartOK, Starting, Early
    <1>4. EndOK'  BY DEF EndOK, Parted, StartOK, Starting, Early, Cleaning, Typed
    <1>5. PartingOK'  BY DEF PartingOK, Starting, Cleaning, Typed
    <1> QED  BY <1>1, <1>2, <1>3, <1>4, <1>5

LEMMA RemoveStep ==
    ASSUME Typed, TableOK, StartOK, EndOK, PartingOK, Remove
    PROVE  Typed' /\ TableOK' /\ StartOK' /\ EndOK' /\ PartingOK'
    <1> USE DEF Remove, rpc, children, session, farewell, commands, bounds, Faults
    <1>1. Typed'  BY Bounds DEF Typed, RpcTypeOK, Starting, Cleaning
    <1>2. TableOK'  BY DEF TableOK, Pending
    <1>3. StartOK'  BY DEF StartOK, Starting, Early
    <1>4. EndOK'  BY DEF EndOK, Parted, StartOK, Starting, Early, Cleaning, Typed
    <1>5. PartingOK'  BY DEF PartingOK, Starting, Cleaning, Typed
    <1> QED  BY <1>1, <1>2, <1>3, <1>4, <1>5

LEMMA AppExitsStep ==
    ASSUME Typed, TableOK, StartOK, EndOK, PartingOK, AppExits
    PROVE  Typed' /\ TableOK' /\ StartOK' /\ EndOK' /\ PartingOK'
    <1> USE DEF AppExits, rpc, session, farewell, commands, bounds, Faults, Settle, SocketCloses, Shutdown
    <1>1. Typed'
        <2>1. closed' \in BOOLEAN  BY DEF Typed, RpcTypeOK
        <2>2. RpcTypeOK'  BY <2>1 DEF Typed, RpcTypeOK
        <2> QED  BY <2>2, Bounds DEF Typed, Starting, Cleaning
    <1>2. TableOK'  BY DEF TableOK, Pending
    <1>3. StartOK'  BY DEF StartOK, Starting, Early
    <1>4. EndOK'  BY DEF EndOK, Parted, StartOK, Starting, Early, Cleaning, Typed
    <1>5. PartingOK'  BY DEF PartingOK, Starting, Cleaning, Typed
    <1> QED  BY <1>1, <1>2, <1>3, <1>4, <1>5

LEMMA TransportFailsStep ==
    ASSUME Typed, TableOK, StartOK, EndOK, PartingOK, TransportFails
    PROVE  Typed' /\ TableOK' /\ StartOK' /\ EndOK' /\ PartingOK'
    <1> USE DEF TransportFails, rpc, children, session, farewell, commands, bounds, Faults, Settle,
                Shutdown, Alive
    <1>1. Typed'
        <2>1. closed' \in BOOLEAN  BY DEF Typed, RpcTypeOK
        <2>2. RpcTypeOK'  BY <2>1 DEF Typed, RpcTypeOK
        <2> QED  BY <2>2, Bounds DEF Typed, Starting, Cleaning
    <1>2. TableOK'  BY DEF TableOK, Pending
    <1>3. StartOK'  BY DEF StartOK, Starting, Early
    <1>4. EndOK'  BY DEF EndOK, Parted, StartOK, Starting, Early, Cleaning, Typed
    <1>5. PartingOK'  BY DEF PartingOK, Starting, Cleaning, Typed
    <1> QED  BY <1>1, <1>2, <1>3, <1>4, <1>5

LEMMA TuiExitsStep ==
    ASSUME Typed, TableOK, StartOK, EndOK, PartingOK, TuiExits
    PROVE  Typed' /\ TableOK' /\ StartOK' /\ EndOK' /\ PartingOK'
    <1> USE DEF TuiExits, rpc, session, farewell, commands, bounds
    <1>1. Typed'  BY Bounds DEF Typed, RpcTypeOK, Starting, Cleaning
    <1>2. TableOK'  BY DEF TableOK, Pending
    <1>3. StartOK'  BY DEF StartOK, Starting, Early
    <1>4. EndOK'  BY DEF EndOK, Parted, StartOK, Starting, Early, Cleaning, Typed
    <1>5. PartingOK'  BY DEF PartingOK, Starting, Cleaning, Typed
    <1> QED  BY <1>1, <1>2, <1>3, <1>4, <1>5

LEMMA SessionEndExitsStep ==
    ASSUME Typed, TableOK, StartOK, EndOK, PartingOK, SessionEndExits
    PROVE  Typed' /\ TableOK' /\ StartOK' /\ EndOK' /\ PartingOK'
    <1> USE DEF SessionEndExits, rpc, commands, bounds
    <1>1. Typed'  BY Bounds DEF Typed, RpcTypeOK, Starting, Cleaning
    <1>2. TableOK'  BY DEF TableOK, Pending
    <1>3. StartOK'  BY DEF StartOK, Starting, Early
    <1>4. EndOK'  BY DEF EndOK, Parted, StartOK, Starting, Early, Cleaning, Typed
    <1>5. PartingOK'  BY DEF PartingOK, Starting, Cleaning, Typed
    <1> QED  BY <1>1, <1>2, <1>3, <1>4, <1>5

LEMMA SignalStep ==
    ASSUME Typed, TableOK, StartOK, EndOK, PartingOK, Signal
    PROVE  Typed' /\ TableOK' /\ StartOK' /\ EndOK' /\ PartingOK'
    <1> USE DEF Signal, rpc, session, farewell, commands, Stopped
    <1>1. Typed'  BY Bounds DEF Typed, RpcTypeOK, Starting, Cleaning
    <1>2. TableOK'  BY DEF TableOK, Pending
    <1>3. StartOK'  BY DEF StartOK, Starting, Early
    <1>4. EndOK'  BY DEF EndOK, Parted, StartOK, Starting, Early, Cleaning, Typed
    <1>5. PartingOK'  BY DEF PartingOK, Starting, Cleaning, Typed
    <1> QED  BY <1>1, <1>2, <1>3, <1>4, <1>5

LEMMA ConnectsStep ==
    ASSUME Typed, TableOK, StartOK, EndOK, PartingOK, NEW c \in Command, Connects(c)
    PROVE  Typed' /\ TableOK' /\ StartOK' /\ EndOK' /\ PartingOK'
    <1> USE DEF Connects, rpc, children, session, farewell, bounds, Alive
    <1>1. Typed'  BY Bounds DEF Typed, RpcTypeOK, Starting, Cleaning
    <1>2. TableOK'  BY DEF TableOK, Pending
    <1>3. StartOK'  BY DEF StartOK, Starting, Early
    <1>4. EndOK'  BY DEF EndOK, Parted, StartOK, Starting, Early, Cleaning, Typed
    <1>5. PartingOK'  BY DEF PartingOK, Starting, Cleaning, Typed
    <1> QED  BY <1>1, <1>2, <1>3, <1>4, <1>5

LEMMA CommandsStep ==
    ASSUME Typed, TableOK, StartOK, EndOK, PartingOK, NEW c \in Command, Commands(c)
    PROVE  Typed' /\ TableOK' /\ StartOK' /\ EndOK' /\ PartingOK'
    <1> USE DEF Commands, rpc, children, farewell, bounds, Alive, Applies, Registers
    <1>1. Typed'
        <2>0. PICK t \in Thread \cup {NoThread} :
                  replaced' = (replaced \/ (main \in {"stop", "close"} /\ t # thread))
            BY DEF Typed
        <2>1. replaced' \in BOOLEAN  BY <2>0, Zenon DEF Typed
        <2>2. thread' \in Thread \cup {NoThread}  BY DEF Typed
        <2>3. /\ command' \in [Command -> {"none", "register", "arm"}]
              /\ at' \in [Command -> {"off", "connected", "save", "effects", "done"}]
            BY DEF Typed
        <2> QED  BY <2>1, <2>2, <2>3, Bounds DEF Typed, RpcTypeOK, Starting, Cleaning
    <1>2. TableOK'  BY DEF TableOK, Pending
    <1>3. StartOK'  BY DEF StartOK, Starting, Early
    <1>4. EndOK'  BY DEF EndOK, Parted, StartOK, Starting, Early, Cleaning, Typed
    <1>5. PartingOK'
        <2>1. known # NoThread => thread' # NoThread
            BY ThreadAssumption DEF PartingOK
        <2>2. main \in {"stop", "close"} /\ ~replaced' => thread' = thread /\ ~replaced
            BY Zenon
        <2>3. main \notin {"stop", "close"} => replaced' = replaced
            BY Zenon DEF Typed
        <2> QED  BY <2>1, <2>2, <2>3 DEF PartingOK, Starting, Cleaning, Typed
    <1> QED  BY <1>1, <1>2, <1>3, <1>4, <1>5

LEMMA NotifiedStep ==
    ASSUME Typed, TableOK, StartOK, EndOK, PartingOK, NEW c \in Command, Notified(c)
    PROVE  Typed' /\ TableOK' /\ StartOK' /\ EndOK' /\ PartingOK'
    <1> USE DEF Notified, rpc, children, farewell, bounds, Alive, Applies, Registers
    <1>1. Typed'
        <2>1. replaced' \in BOOLEAN  BY Zenon DEF Typed
        <2>2. thread' \in Thread \cup {NoThread}  BY DEF Typed
        <2>3. /\ command' \in [Command -> {"none", "register", "arm"}]
              /\ at' \in [Command -> {"off", "connected", "save", "effects", "done"}]
            BY DEF Typed
        <2> QED  BY <2>1, <2>2, <2>3, Bounds DEF Typed, RpcTypeOK, Starting, Cleaning
    <1>2. TableOK'  BY DEF TableOK, Pending
    <1>3. StartOK'  BY DEF StartOK, Starting, Early
    <1>4. EndOK'  BY DEF EndOK, Parted, StartOK, Starting, Early, Cleaning, Typed
    <1>5. PartingOK'
        <2>1. known # NoThread => thread' # NoThread
            BY ThreadAssumption DEF PartingOK
        <2>2. main \in {"stop", "close"} /\ ~replaced' => thread' = thread /\ ~replaced
            BY Zenon
        <2>3. main \notin {"stop", "close"} => replaced' = replaced
            BY Zenon DEF Typed
        <2> QED  BY <2>1, <2>2, <2>3 DEF PartingOK, Starting, Cleaning, Typed
    <1> QED  BY <1>1, <1>2, <1>3, <1>4, <1>5

LEMMA SavedStep ==
    ASSUME Typed, TableOK, StartOK, EndOK, PartingOK, NEW c \in Command, Saved(c)
    PROVE  Typed' /\ TableOK' /\ StartOK' /\ EndOK' /\ PartingOK'
    <1> USE DEF Saved, rpc, children, session, farewell, bounds, Faults, Alive
    <1>1. Typed'  BY Bounds DEF Typed, RpcTypeOK, Starting, Cleaning
    <1>2. TableOK'  BY DEF TableOK, Pending
    <1>3. StartOK'  BY DEF StartOK, Starting, Early
    <1>4. EndOK'  BY DEF EndOK, Parted, StartOK, Starting, Early, Cleaning, Typed
    <1>5. PartingOK'  BY DEF PartingOK, Starting, Cleaning, Typed
    <1> QED  BY <1>1, <1>2, <1>3, <1>4, <1>5

LEMMA EffectsStep ==
    ASSUME Typed, TableOK, StartOK, EndOK, PartingOK, NEW c \in Command, Effects(c)
    PROVE  Typed' /\ TableOK' /\ StartOK' /\ EndOK' /\ PartingOK'
    <1> USE DEF Effects, rpc, children, farewell, bounds, Alive
    <1>1. Typed'  BY Bounds DEF Typed, RpcTypeOK, Starting, Cleaning
    <1>2. TableOK'  BY DEF TableOK, Pending
    <1>3. StartOK'  BY DEF StartOK, Starting, Early
    <1>4. EndOK'  BY DEF EndOK, Parted, StartOK, Starting, Early, Cleaning, Typed
    <1>5. PartingOK'  BY DEF PartingOK, Starting, Cleaning, Typed
    <1> QED  BY <1>1, <1>2, <1>3, <1>4, <1>5

LEMMA GivesUpStep ==
    ASSUME Typed, TableOK, StartOK, EndOK, PartingOK, NEW c \in Command, GivesUp(c)
    PROVE  Typed' /\ TableOK' /\ StartOK' /\ EndOK' /\ PartingOK'
    <1> USE DEF GivesUp, rpc, children, session, farewell, bounds, Alive
    <1>1. Typed'  BY Bounds DEF Typed, RpcTypeOK, Starting, Cleaning
    <1>2. TableOK'  BY DEF TableOK, Pending
    <1>3. StartOK'  BY DEF StartOK, Starting, Early
    <1>4. EndOK'  BY DEF EndOK, Parted, StartOK, Starting, Early, Cleaning, Typed
    <1>5. PartingOK'  BY DEF PartingOK, Starting, Cleaning, Typed
    <1> QED  BY <1>1, <1>2, <1>3, <1>4, <1>5

LEMMA WatcherAsksStep ==
    ASSUME Typed, TableOK, StartOK, EndOK, PartingOK, NEW i \in Id, WatcherAsks(i)
    PROVE  Typed' /\ TableOK' /\ StartOK' /\ EndOK' /\ PartingOK'
    <1> USE DEF WatcherAsks, children, session, farewell, commands, bounds, Alive, Request
    <1>1. Typed'  BY Bounds DEF Typed, RpcTypeOK, Starting, Cleaning
    <1>2. TableOK'
        <2>1. CASE closed
            <3>1. outcome' = [outcome EXCEPT ![i] = "error"] /\ outcome[i] = "none"  BY <2>1
            <3>2. Pending' = Pending  BY <3>1 DEF Pending, Typed, RpcTypeOK
            <3> QED  BY <2>1, <3>2 DEF TableOK
        <2>2. CASE ~closed
            <3>1. outcome' = [outcome EXCEPT ![i] = "pending"]  BY <2>2
            <3>2. Pending' = Pending \cup {i}  BY <3>1 DEF Pending, Typed, RpcTypeOK
            <3> QED  BY <2>2, <3>2 DEF TableOK
        <2> QED  BY <2>1, <2>2
    <1>3. StartOK'  BY DEF StartOK, Starting, Early
    <1>4. EndOK'  BY DEF EndOK, Parted, StartOK, Starting, Early, Cleaning, Typed
    <1>5. PartingOK'  BY DEF PartingOK, Starting, Cleaning, Typed
    <1> QED  BY <1>1, <1>2, <1>3, <1>4, <1>5

LEMMA AnswerStep ==
    ASSUME Typed, TableOK, StartOK, EndOK, PartingOK, Rpc
    PROVE  Typed' /\ TableOK' /\ StartOK' /\ EndOK' /\ PartingOK'
    <1> USE DEF Rpc, children, session, farewell, commands, bounds, Settle, Alive, RpcStep, Receive, TimeOut
    <1>1. Typed'  BY Bounds DEF Typed, RpcTypeOK, Starting, Cleaning
    <1>2. TableOK'  BY DEF TableOK, Pending
    <1>3. StartOK'  BY DEF StartOK, Starting, Early
    <1>4. EndOK'  BY DEF EndOK, Parted, StartOK, Starting, Early, Cleaning, Typed
    <1>5. PartingOK'  BY DEF PartingOK, Starting, Cleaning, Typed
    <1> QED  BY <1>1, <1>2, <1>3, <1>4, <1>5

------------------------------------------------------------------------------
(* The invariant and what follows from it. *)

LEMMA Initially ==
    ASSUME Init
    PROVE  IInv
    <1>1. Typed
        <2>1. /\ client = FALSE /\ watching = FALSE /\ deadline = FALSE /\ ended = FALSE
              /\ reported = FALSE /\ replaced = FALSE /\ late = FALSE /\ closed = FALSE
            BY DEF Init, RpcInit
        <2>2. RpcTypeOK  BY <2>1 DEF Init, RpcInit, RpcTypeOK
        <2>3. /\ command \in [Command -> {"none", "register", "arm"}]
              /\ at \in [Command -> {"off", "connected", "save", "effects", "done"}]
            BY DEF Init
        <2>4. faults \in 0 .. MaxFaults /\ signals \in 0 .. MaxSignals  BY Bounds DEF Init
        <2>5. /\ main = "profile" /\ directory = "none" /\ app = "off" /\ tui = "off" /\ end = "off"
              /\ control = "off" /\ connected = {} /\ thread = NoThread /\ retained = NoThread
              /\ given = NoThread /\ known = NoThread
            BY DEF Init
        <2> QED  BY <2>1, <2>2, <2>3, <2>4, <2>5 DEF Typed, Starting
    <1>2. TableOK  BY DEF Init, RpcInit, TableOK, Pending
    <1>3. StartOK  BY DEF Init, RpcInit, StartOK, Starting, Early
    <1>4. EndOK  BY DEF Init, RpcInit, EndOK, Parted, Cleaning
    <1>5. PartingOK  BY DEF Init, PartingOK
    <1> QED  BY <1>1, <1>2, <1>3, <1>4, <1>5, TypedIsType DEF IInv

LEMMA Stutter ==
    ASSUME Typed, TableOK, StartOK, EndOK, PartingOK, UNCHANGED vars
    PROVE  Typed' /\ TableOK' /\ StartOK' /\ EndOK' /\ PartingOK'
    <1> USE DEF vars, rpc, children, session, farewell, commands, bounds
    <1>1. Typed'  BY DEF Typed, RpcTypeOK
    <1>2. TableOK'  BY DEF TableOK, Pending
    <1>3. StartOK'  BY DEF StartOK
    <1>4. EndOK'  BY DEF EndOK, Parted
    <1>5. PartingOK'  BY DEF PartingOK
    <1> QED  BY <1>1, <1>2, <1>3, <1>4, <1>5

LEMMA Inductive ==
    ASSUME IInv, [Next]_vars
    PROVE  IInv'
    <1> DEFINE Parts == Typed /\ TableOK /\ StartOK /\ EndOK /\ PartingOK
    <1>0. Parts  BY TypedIsType DEF IInv
    <1> SUFFICES Parts'  BY TypedIsTypePrimed DEF IInv
    <1>1. CASE Step
        <2>1. CASE Resolve  BY <1>0, <2>1, ResolveStep
        <2>2. CASE Prepare  BY <1>0, <2>2, PrepareStep
        <2>3. CASE SpawnApp  BY <1>0, <2>3, SpawnAppStep
        <2>4. CASE WaitReady  BY <1>0, <2>4, WaitReadyStep
        <2>5. CASE Connect  BY <1>0, <2>5, ConnectStep
        <2>6. CASE Initialized  BY <1>0, <2>6, InitializedStep
        <2>7. CASE Run  BY <1>0, <2>7, RunStep
        <2>8. CASE TuiExited  BY <1>0, <2>8, TuiExitedStep
        <2>9. CASE StopWatcher  BY <1>0, <2>9, StopWatcherStep
        <2>10. CASE CloseControl  BY <1>0, <2>10, CloseControlStep
        <2>11. CASE ControlClosed  BY <1>0, <2>11, ControlClosedStep
        <2>12. CASE Part  BY <1>0, <2>12, PartStep
        <2>13. CASE Ending  BY <1>0, <2>13, EndingStep
        <2>14. CASE Remove  BY <1>0, <2>14, RemoveStep
        <2> HIDE DEF Parts
        <2> QED  BY <1>1, <2>1, <2>2, <2>3, <2>4, <2>5, <2>6, <2>7, <2>8, <2>9, <2>10, <2>11,
                    <2>12, <2>13, <2>14 DEF Step
    <1>2. CASE AppExits  BY <1>0, <1>2, AppExitsStep
    <1>3. CASE TuiExits  BY <1>0, <1>3, TuiExitsStep
    <1>4. CASE SessionEndExits  BY <1>0, <1>4, SessionEndExitsStep
    <1>5. CASE Signal  BY <1>0, <1>5, SignalStep
    <1>6. ASSUME NEW c \in Command, Connects(c) \/ Commands(c) \/ Notified(c) \/ CommandStep(c)
          PROVE  Parts'
        <2>1. CASE Connects(c)  BY <1>0, <2>1, ConnectsStep
        <2>2. CASE Commands(c)  BY <1>0, <2>2, CommandsStep
        <2>3. CASE Notified(c)  BY <1>0, <2>3, NotifiedStep
        <2>4. CASE Saved(c)  BY <1>0, <2>4, SavedStep
        <2>5. CASE Effects(c)  BY <1>0, <2>5, EffectsStep
        <2>6. CASE GivesUp(c)  BY <1>0, <2>6, GivesUpStep
        <2> HIDE DEF Parts
        <2> QED  BY <1>6, <2>1, <2>2, <2>3, <2>4, <2>5, <2>6 DEF CommandStep
    <1>7. CASE \E i \in Id : WatcherAsks(i)  BY <1>0, <1>7, WatcherAsksStep
    <1>8. CASE Rpc  BY <1>0, <1>8, AnswerStep
    <1>9. CASE UNCHANGED vars  BY <1>0, <1>9, Stutter
    <1>10. CASE TransportFails  BY <1>0, <1>10, TransportFailsStep
    <1> HIDE DEF Parts
    <1> QED  BY <1>1, <1>2, <1>3, <1>4, <1>5, <1>6, <1>7, <1>8, <1>9, <1>10 DEF Next

(* The inductive invariant holds whatever fails, exits or is signalled, at *)
(* every step of the launcher.                                             *)
THEOREM Invariance == Spec => []IInv
    <1>1. Init => IInv  BY Initially
    <1>2. IInv /\ [Next]_vars => IInv'  BY Inductive
    <1> QED  BY <1>1, <1>2, PTL DEF Spec

(* The launcher's state and its client's keep their types.                 *)
THEOREM TypeCorrect == Spec => []LauncherTypeOK
    <1>1. IInv => LauncherTypeOK  BY DEF IInv
    <1> QED  BY <1>1, Invariance, PTL

(* runLauncher and its cleanup: when it is over, after its start-up, there *)
(* is no child it has not told to stop, no timer, no directory but one     *)
(* whose removal failed, no watcher but one armed too late, and no socket  *)
(* of a client, wherever the start-up failed; a socket whose initialize    *)
(* failed is there only with an App Server that has been told to stop.     *)
THEOREM NothingIsHeld == Spec => []NothingHeld
    <1>1. ASSUME IInv, main = "settled", app # "off"
          PROVE  ~Held
        <2>1. Typed  BY <1>1, TypedIsType DEF IInv
        <2>2. /\ app # "up" /\ tui # "up" /\ end # "up" /\ ~deadline
              /\ control = "closed" /\ table = {} /\ directory # "there"
              /\ (watching => late)
            BY <1>1, <2>1 DEF IInv, EndOK, Parted, Typed
        <2>3. timers = {}  BY <1>1, <2>2 DEF IInv, TableOK
        <2>4. socket = "open" => app = "told" /\ ~client
            BY <1>1, <2>2 DEF IInv, EndOK, Parted
        <2> QED  BY <2>2, <2>3, <2>4 DEF Held
    <1>2. IInv => NothingHeld  BY <1>1 DEF NothingHeld
    <1> QED  BY <1>2, Invariance, PTL

(* retainedState and session-end: session-end is started with the thread   *)
(* that was registered when the TUI exited, unless another was registered  *)
(* in its place while the watcher stopped, and the session it was started  *)
(* for is ended, or the launcher has reported that session-end failed.     *)
THEOREM ThreadSessionEnds == Spec => []ThreadIsEnded
    <1>1. IInv => ThreadIsEnded  BY DEF IInv, PartingOK, ThreadIsEnded
    <1> QED  BY <1>1, Invariance, PTL

(* app-server-client.mjs: at any time the table holds exactly the requests *)
(* that are not answered, each with its timer, and a client that is shut   *)
(* down has none.                                                          *)
THEOREM RequestsAreTracked == Spec => []TableOK
    <1>1. IInv => TableOK  BY DEF IInv
    <1> QED  BY <1>1, Invariance, PTL
==============================================================================
