--------------------------- MODULE TransferContract ---------------------------
(***************************************************************************)
(* What the file tools promise about a file call (send_file, save_file,    *)
(* get_files), with no proxy, no queue and no order of work in sight.      *)
(*                                                                         *)
(* A call gets at most one answer, and while it has none the server may    *)
(* stop, which loses it.  A call of save_file succeeds only after the file *)
(* is where the caller wants it.  What was staged for a call is there as   *)
(* long as the call's handler works on it, and nothing staged is left when *)
(* the connector has gone, unless its removal failed.                      *)
(***************************************************************************)
CONSTANT
    Request     \* the calls

VARIABLES
    saves,      \* those of save_file
    call,       \* call[r]: "new", "open", "ok", "error" or "lost"
    staged,     \* calls with a staged copy
    leaked,     \* calls whose staged copy could not be removed
    used,       \* calls whose handler works on the staged copy
    saved,      \* calls whose file has reached its destination
    up          \* the connector is there

vars == <<saves, call, staged, leaked, used, saved, up>>

Init ==
    /\ saves \subseteq Request
    /\ call = [r \in Request |-> "new"]
    /\ staged = {} /\ leaked = {} /\ used = {} /\ saved = {}
    /\ up = TRUE

Submit(r) ==
    /\ call[r] = "new" /\ up
    /\ call' = [call EXCEPT ![r] = "open"]
    /\ UNCHANGED <<staged, leaked, used, saved, up>>

Stage(r) ==
    /\ call[r] = "open" /\ up
    /\ staged' = staged \cup {r}
    /\ UNCHANGED <<call, leaked, used, saved, up>>

(* The handler takes the staged copy. *)
Use(r) ==
    /\ call[r] = "open" /\ up
    /\ staged' = staged \cup {r}
    /\ used' = used \cup {r}
    /\ UNCHANGED <<call, leaked, saved, up>>

(* It returns, or the server it runs in stops and takes all with it. *)
Leave(R) ==
    /\ used' = used \ R
    /\ UNCHANGED <<call, staged, leaked, saved, up>>

Save(r) ==
    /\ call[r] = "open" /\ r \in saves
    /\ saved' = saved \cup {r}
    /\ UNCHANGED <<call, staged, leaked, used, up>>

(* With an answer the file may arrive in the same step. *)
Answer(r, how) ==
    /\ call[r] = "open" /\ r \notin used /\ up
    /\ saved' \in {saved, saved \cup ({r} \cap saves)}
    /\ how = "ok" /\ r \in saves => r \in saved'
    /\ call' = [call EXCEPT ![r] = how]
    /\ UNCHANGED <<staged, leaked, used, up>>

(* The staged copies of R are removed, but for those of L. *)
Remove(R, L) ==
    /\ L \subseteq R /\ R \cap used = {}
    /\ staged' = staged \ R
    /\ leaked' = leaked \cup L

Clean(R, L) == Remove(R, L) /\ UNCHANGED <<call, used, saved, up>>

(* The connector goes, in order and with nothing staged left behind. *)
Gone ==
    /\ up' = FALSE
    /\ \E L \in SUBSET staged : Remove(staged, L)
    /\ call' = [r \in Request |-> IF call[r] = "open" THEN "lost" ELSE call[r]]
    /\ used' = {}
    /\ UNCHANGED saved

Next ==
    \/ \E r \in Request : Submit(r) \/ Stage(r) \/ Use(r) \/ Save(r)
    \/ \E r \in Request : Answer(r, "ok") \/ Answer(r, "error")
    \/ \E R \in SUBSET Request : Leave(R)
    \/ \E R \in SUBSET staged : \E L \in SUBSET R : Clean(R, L)
    \/ up /\ Gone

Spec == Init /\ [][Next /\ UNCHANGED saves]_vars
==============================================================================
