----------------------------- MODULE AppIdentities -----------------------------
(***************************************************************************)
(* packages/core/src/application-identities.ts and the identity tools that *)
(* use it (mcp/tools/identity.ts, seedBinding in connector.ts): the list   *)
(* of identities this application adopted, in a file shared by all its     *)
(* processes, kept beside the daemon's identities.                         *)
(*                                                                         *)
(* A call is cut at every await: each operation on the list reads the      *)
(* whole file, and writes the whole file later by an atomic rename.  The   *)
(* daemon is external: a set of identities, changed or not by one request  *)
(* whose answer may be lost.                                               *)
(***************************************************************************)
EXTENDS Naturals

CONSTANTS
    Name,         \* identities; a name also stands for its daemon's row
    Call,         \* tool calls and seedings of all processes
    Adopted,      \* the list and the daemon's identities at the start
    Hosted,
    Workload,     \* the calls that may be made: [call, op, name]
    MaxFailures   \* bound: how many file operations and answers fail

Adopting == {"create", "choose", "seed"}
Dropping == {"close", "remove"}
Ops == Adopting \cup Dropping \cup {"generate"}

ASSUME SetsAssumption == Name # {} /\ Adopted \subseteq Name /\ Hosted \subseteq Name
ASSUME WorkloadAssumption == Workload \subseteq
    [call : Call, op : {"create", "choose", "seed", "close", "remove", "generate"}, name : Name]
ASSUME MaxFailuresAssumption == MaxFailures \in Nat

VARIABLES
    list,         \* the names in the file
    hosted,       \* daemon: the identities that exist
    pc, op, name, \* a call and its arguments
    visible,      \* visible[k]: wasVisible
    stage,        \* stage[k]: which edit of the list k is at
    copy,         \* copy[k]: the list as k read it for its edit
    answer,       \* answer[k]: what the daemon said
    result,       \* result[k]: what the call returns
    looked,       \* history: looked[k], the first look at the list succeeded
    before,       \* history: before[k], was the name listed when k began
    mutated,      \* history: mutated[k], did the daemon perform k's request
    disturbed,    \* history: disturbed[k], another call changed the list
                  \* or the daemon since k began
    failures

call == <<pc, op, name, visible, stage, copy, answer, result>>
history == <<looked, before, mutated, disturbed>>
vars == <<list, hosted, call, history, failures>>

TypeOK ==
    /\ list \in SUBSET Name
    /\ hosted \in SUBSET Name
    /\ pc \in [Call -> {"new", "has", "read", "write", "mutate", "cleanup", "done"}]
    /\ op \in [Call -> Ops]
    /\ name \in [Call -> Name]
    /\ visible \in [Call -> BOOLEAN]
    /\ stage \in [Call -> {"first", "undo", "final"}]
    /\ copy \in [Call -> SUBSET Name]
    /\ answer \in [Call -> {"none", "ok", "refused", "absent", "outage"}]
    /\ result \in [Call -> {"none", "ok", "refused", "absent", "outage",
                            "config", "aggregate"}]
    /\ looked \in [Call -> BOOLEAN]
    /\ before \in [Call -> BOOLEAN]
    /\ mutated \in [Call -> BOOLEAN]
    /\ disturbed \in [Call -> BOOLEAN]
    /\ failures \in Nat

Init ==
    /\ list = Adopted
    /\ hosted = Hosted
    /\ pc = [k \in Call |-> "new"]
    /\ op \in [Call -> {"create"}]
    /\ name = [k \in Call |-> CHOOSE n \in Name : TRUE]
    /\ visible = [k \in Call |-> FALSE]
    /\ stage = [k \in Call |-> "first"]
    /\ copy = [k \in Call |-> {}]
    /\ answer = [k \in Call |-> "none"]
    /\ result = [k \in Call |-> "none"]
    /\ looked = [k \in Call |-> FALSE]
    /\ before = [k \in Call |-> FALSE]
    /\ mutated = [k \in Call |-> FALSE]
    /\ disturbed = [k \in Call |-> FALSE]
    /\ failures = 0

Goto(k, label) == pc' = [pc EXCEPT ![k] = label]

Finish(k, r) == Goto(k, "done") /\ result' = [result EXCEPT ![k] = r]

Fails == failures < MaxFailures /\ failures' = failures + 1

(* Every other call that began, ended ones included, sees a change. *)
Disturb(k) == disturbed' = [j \in Call |-> disturbed[j] \/ (j # k /\ pc[j] # "new")]

------------------------------------------------------------------------------
(* The edits of the list. *)

(* The first edit of an adopting tool adds; the rollback is its mirror     *)
(* image; remove_identity at last drops what the daemon does not have.     *)
Adds(k) == IF op[k] \in Dropping THEN stage[k] = "undo" ELSE stage[k] = "first"

(* add and remove leave the file alone when there is nothing to change. *)
Settled(k, names) == (name[k] \in names) = Adds(k)

Edited(k) == IF Adds(k) THEN copy[k] \cup {name[k]} ELSE copy[k] \ {name[k]}

(* Variant: the rollback ends the call, whatever the daemon answered. *)
AfterUndoAlways(k, r) == Finish(k, r) /\ UNCHANGED stage

(* After a rollback the call fails as the daemon's request did, but for    *)
(* remove_identity of an identity the daemon does not know.                *)
AfterUndo(k, r) ==
    IF op[k] = "remove" /\ r = "absent"
    THEN /\ Goto(k, "read")
         /\ stage' = [stage EXCEPT ![k] = "final"]
         /\ UNCHANGED result
    ELSE Finish(k, r) /\ UNCHANGED stage

(* What follows an edit. *)
EditDone(k) ==
    \/ /\ stage[k] = "first"
       /\ \/ op[k] = "generate" /\ Finish(k, "ok")
          \/ op[k] # "generate" /\ Goto(k, "mutate") /\ UNCHANGED result
       /\ UNCHANGED stage
    \/ stage[k] = "undo" /\ AfterUndo(k, answer[k])
    \/ stage[k] = "final" /\ Finish(k, "absent") /\ UNCHANGED stage

(* Variant: a failed adoption leaves the generated identity behind. *)
EditFailedNoCleanup(k) ==
    \/ /\ stage[k] = "first" /\ op[k] = "seed"
       /\ Goto(k, "read")
       /\ stage' = [stage EXCEPT ![k] = "undo"]
       /\ UNCHANGED result
    \/ /\ stage[k] # "first" \/ op[k] # "seed"
       /\ Finish(k, "config")
       /\ UNCHANGED stage
(* Variant: the adoption is best effort, the call goes on without it. *)
EditFailedGoesOn(k) ==
    \/ stage[k] = "first" /\ op[k] = "generate" /\ Goto(k, "cleanup") /\ UNCHANGED <<stage, result>>
    \/ stage[k] = "first" /\ op[k] # "generate" /\ Goto(k, "mutate") /\ UNCHANGED <<stage, result>>
    \/ stage[k] # "first" /\ Finish(k, "config") /\ UNCHANGED stage

(* An edit that throws: a generated identity is closed again, seedBinding  *)
(* rolls back what it may have written, any other call ends.               *)
EditFailed(k) ==
    \/ /\ stage[k] = "first" /\ op[k] = "generate"
       /\ Goto(k, "cleanup")
       /\ UNCHANGED <<stage, result>>
    \/ /\ stage[k] = "first" /\ op[k] = "seed"
       /\ Goto(k, "read")
       /\ stage' = [stage EXCEPT ![k] = "undo"]
       /\ UNCHANGED result
    \/ /\ stage[k] # "first" \/ op[k] \notin {"generate", "seed"}
       /\ Finish(k, "config")
       /\ UNCHANGED stage

(* Variant: the whole row is taken for one name. *)
ReadRowAsName(k) ==
    /\ pc[k] = "read"
    /\ Goto(k, "write")
    /\ copy' = [copy EXCEPT ![k] = {list}]
    /\ UNCHANGED <<list, hosted, op, name, visible, stage, answer, result, history, failures>>

(* add, remove: the file is read ... *)
Read(k) ==
    /\ pc[k] = "read"
    /\ \/ /\ ~Settled(k, list)
          /\ copy' = [copy EXCEPT ![k] = list]
          /\ Goto(k, "write")
          /\ UNCHANGED <<stage, result, failures>>
       \/ Settled(k, list) /\ EditDone(k) /\ UNCHANGED <<copy, failures>>
       \/ Fails /\ EditFailed(k) /\ UNCHANGED copy
    /\ UNCHANGED <<list, hosted, op, name, visible, answer, history>>

(* ... and replaced as a whole.  writeConfigAtomic can fail before its     *)
(* rename, and after it (the chmod): then the new list stays.              *)
Write(k) ==
    /\ pc[k] = "write"
    /\ \/ /\ list' = Edited(k)
          /\ Disturb(k)
          /\ \/ EditDone(k) /\ UNCHANGED failures
             \/ Fails /\ EditFailed(k)
       \/ Fails /\ EditFailed(k) /\ UNCHANGED <<list, disturbed>>
    /\ UNCHANGED <<hosted, op, name, visible, copy, answer, looked, before, mutated>>

------------------------------------------------------------------------------
(* The calls. *)

Begin(w) ==
    LET k == w.call IN
    /\ pc[k] = "new"
    /\ op' = [op EXCEPT ![k] = w.op]
    /\ name' = [name EXCEPT ![k] = w.name]
    /\ before' = [before EXCEPT ![k] = w.name \in list]
    /\ Goto(k, IF w.op = "generate" THEN "mutate" ELSE "has")
    /\ UNCHANGED <<list, hosted, visible, stage, copy, answer, result,
                   looked, mutated, disturbed, failures>>

(* The list is edited first where the name is not yet as the tool will     *)
(* leave it.                                                               *)
Look(k) ==
    /\ visible' = [visible EXCEPT ![k] = name[k] \in list]
    /\ looked' = [looked EXCEPT ![k] = TRUE]
    /\ Goto(k, IF (name[k] \in list) = (op[k] \in Adopting) THEN "mutate" ELSE "read")
    /\ UNCHANGED <<stage, result, failures>>

(* wasVisible = await identities.has(name).  When that throws, seedBinding *)
(* runs its rollback with the initial wasVisible = false.                  *)
Has(k) ==
    /\ pc[k] = "has"
    /\ Look(k) \/ (Fails /\ EditFailed(k) /\ UNCHANGED <<visible, looked>>)
    /\ UNCHANGED <<list, hosted, op, name, copy, answer, before, mutated, disturbed>>

(* Variant: the rollback ignores wasVisible. *)
UndoesAlways(k) == op[k] # "generate"

(* The rollback only takes back what this call wrote. *)
Undoes(k) == op[k] # "generate" /\ visible[k] = (op[k] \in Dropping)

(* The daemon's answer arrives. *)
Answered(k, r) ==
    /\ answer' = [answer EXCEPT ![k] = r]
    /\ \/ /\ r = "ok" /\ op[k] = "generate"
          /\ Goto(k, "read")
          /\ UNCHANGED <<stage, result>>
       \/ /\ r = "ok" /\ op[k] # "generate"
          /\ Finish(k, "ok")
          /\ UNCHANGED stage
       \/ /\ r # "ok" /\ Undoes(k)
          /\ stage' = [stage EXCEPT ![k] = "undo"]
          /\ Goto(k, "read")
          /\ UNCHANGED result
       \/ /\ r # "ok" /\ ~Undoes(k)
          /\ AfterUndo(k, r)

(* createIdentity, chooseIdentity, closeTemporaryIdentityOp,               *)
(* removeIdentity.                                                         *)
Possible(k) == CASE op[k] \in {"create", "generate"} -> name[k] \notin hosted
                 [] op[k] \in {"choose", "seed", "remove"} -> name[k] \in hosted
                 [] op[k] = "close" -> TRUE

Performed(k) == IF op[k] \in Dropping THEN hosted \ {name[k]} ELSE hosted \cup {name[k]}

(* What the daemon answers when it does nothing. *)
Refusal(k) == IF op[k] = "remove" /\ name[k] \notin hosted THEN "absent" ELSE "refused"

(* The request: performed, refused (for a reason of the daemon's, besides  *)
(* the identity being there or not), lost before or after its effect.      *)
Mutate(k) ==
    /\ pc[k] = "mutate"
    /\ \/ /\ Possible(k)
          /\ hosted' = Performed(k)
          /\ mutated' = [mutated EXCEPT ![k] = TRUE]
          /\ Disturb(k)
          /\ \/ Answered(k, "ok") /\ UNCHANGED failures
             \/ Fails /\ Answered(k, "outage")
       \/ /\ \/ Answered(k, Refusal(k)) /\ UNCHANGED failures
             \/ Fails /\ Answered(k, "outage")
          /\ UNCHANGED <<hosted, mutated, disturbed>>
    /\ UNCHANGED <<list, op, name, visible, copy, looked, before>>

(* A generated identity that could not be adopted is closed; when that     *)
(* fails too both errors are reported.                                     *)
Cleanup(k) ==
    /\ pc[k] = "cleanup"
    /\ \/ /\ hosted' = hosted \ {name[k]}
          /\ Disturb(k)
          /\ \/ Finish(k, "config") /\ UNCHANGED failures
             \/ Fails /\ Finish(k, "aggregate")
       \/ Fails /\ Finish(k, "aggregate") /\ UNCHANGED <<hosted, disturbed>>
    /\ UNCHANGED <<list, op, name, visible, stage, copy, answer, looked, before, mutated>>

Step(k) == Has(k) \/ Read(k) \/ Write(k) \/ Mutate(k) \/ Cleanup(k)

Next == (\E w \in Workload : Begin(w)) \/ (\E k \in Call : Step(k))

Spec == Init /\ [][Next]_vars

------------------------------------------------------------------------------
Ended(k) == pc[k] = "done" /\ ~disturbed[k]

(* Lockstep on success: a tool that reports success leaves the list as it  *)
(* promises, adopted or dropped; so does remove_identity of an identity    *)
(* the daemon does not have, although its rollback had listed it again.    *)
ListFollowsResult == \A k \in Call :
    Ended(k) /\ result[k] \in {"ok", "absent"} =>
        (name[k] \in list) = (op[k] \notin Dropping)

(* Lockstep on failure: when the daemon refuses, and no file operation     *)
(* fails, the list is as the call found it.                                *)
RefusalRestores == \A k \in Call :
    Ended(k) /\ looked[k] /\ result[k] = "refused" =>
        (name[k] \in list) = before[k]

(* Adoption is written first: no daemon is changed by a tool whose         *)
(* adoption failed, and none by a drop whose edit failed.                  *)
EditComesFirst == [][\A k \in Call :
    ~mutated[k] /\ mutated'[k] /\ ~disturbed[k] /\ op[k] # "generate" =>
        (name[k] \in list) = (op[k] \in Adopting)]_vars

(* An identity created under a generated name is listed, or closed again,  *)
(* or both failures are reported; only a lost answer can leave it behind.  *)
NoOrphan == \A k \in Call :
    Ended(k) /\ op[k] = "generate" /\ mutated[k] =>
        \/ name[k] \in list
        \/ name[k] \notin hosted
        \/ result[k] \in {"aggregate", "outage"}

(* "Creating an identity or successfully calling choose_identity adopts    *)
(* it": an identity some call adopted is listed once all calls have ended, *)
(* if none dropped it.                                                     *)
AdoptedIsListed ==
    (\A k \in Call : pc[k] = "done" /\ op[k] \notin Dropping) =>
        \A k \in Call : result[k] = "ok" => name[k] \in list
==============================================================================
