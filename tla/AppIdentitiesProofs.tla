-------------------------- MODULE AppIdentitiesProofs --------------------------
(***************************************************************************)
(* Theorems about AppIdentities for every set of identities and calls,     *)
(* with any number of failing file operations and lost answers.            *)
(*                                                                         *)
(* What a tool promises of the list depends on what it saw before its      *)
(* awaits.  IInv says of every call where its edits are (Placed), and, as  *)
(* long as no other call has changed anything, what list and daemon look   *)
(* like there (Sees).                                                      *)
(***************************************************************************)
EXTENDS AppIdentities, TLAPS

(* What the place of a call says of its edits and of the daemon's answer.  *)
Placed(k) ==
    /\ pc[k] = "new" => ~disturbed[k]
    /\ pc[k] # "done" => result[k] = "none"
    /\ pc[k] \in {"new", "has", "mutate"} => stage[k] = "first" /\ ~mutated[k]
    /\ pc[k] \in {"new", "has"} => ~looked[k]
    /\ pc[k] \in {"new", "has", "mutate"} => answer[k] = "none"
    /\ pc[k] = "mutate" /\ op[k] # "generate" => looked[k]
    /\ pc[k] \in {"read", "write"} /\ stage[k] = "first" /\ op[k] # "generate"
          => answer[k] = "none" /\ looked[k] /\ ~mutated[k]
    /\ pc[k] = "cleanup" => op[k] = "generate"
    /\ op[k] = "generate" => stage[k] = "first" /\ pc[k] # "has" /\ ~looked[k]
    /\ stage[k] = "undo" => answer[k] # "ok"
    /\ stage[k] = "undo" /\ answer[k] = "refused"
          => looked[k] /\ visible[k] = (op[k] \in Dropping)
    /\ stage[k] = "final" => op[k] = "remove" /\ answer[k] = "absent"
    /\ answer[k] = "absent" \/ result[k] = "absent" => op[k] = "remove"

(* What an undisturbed call can rely on. *)
Sees(k) ==
    /\ pc[k] = "has" => before[k] = (name[k] \in list)
    /\ looked[k] => visible[k] = before[k]
    /\ pc[k] = "mutate" /\ op[k] # "generate" => (name[k] \in list) = (op[k] \in Adopting)
    /\ pc[k] = "write" => copy[k] = list
    /\ pc[k] = "done" =>
          /\ result[k] \in {"ok", "absent"} => (name[k] \in list) = (op[k] \notin Dropping)
          /\ looked[k] /\ result[k] = "refused" => (name[k] \in list) = before[k]
          /\ op[k] = "generate" /\ mutated[k] =>
                \/ name[k] \in list
                \/ name[k] \notin hosted
                \/ result[k] \in {"aggregate", "outage"}

CallOK(k) == Placed(k) /\ (~disturbed[k] => Sees(k))

IInv == TypeOK /\ \A k \in Call : CallOK(k)

(* A step of k leaves the arguments and places of other calls alone, and   *)
(* tells them when it changes the list or the daemon.                      *)
Aside(k) == \A j \in Call \ {k} :
    /\ pc'[j] = pc[j] /\ op'[j] = op[j] /\ name'[j] = name[j]
    /\ visible'[j] = visible[j] /\ stage'[j] = stage[j] /\ copy'[j] = copy[j]
    /\ answer'[j] = answer[j] /\ result'[j] = result[j]
    /\ looked'[j] = looked[j] /\ before'[j] = before[j] /\ mutated'[j] = mutated[j]
    /\ \/ UNCHANGED <<list, hosted>> /\ disturbed'[j] = disturbed[j]
       \/ disturbed'[j] = (disturbed[j] \/ pc[j] # "new")

(* CallOK survives the steps of other calls. *)
LEMMA Elsewhere ==
  ASSUME TypeOK, NEW k \in Call, Aside(k), NEW j \in Call \ {k}, CallOK(j)
  PROVE  CallOK(j)'
<1>1. Placed(j)'
  BY DEF TypeOK, Aside, CallOK, Placed
<1>2. ASSUME ~disturbed'[j] PROVE Sees(j)'
  <2>1. CASE UNCHANGED <<list, hosted>>
    BY <1>2, <2>1 DEF TypeOK, Aside, CallOK, Sees
  <2>2. CASE pc[j] = "new"
    BY <2>2 DEF TypeOK, Aside, CallOK, Placed, Sees
  <2> QED BY <1>2, <2>1, <2>2 DEF Aside, TypeOK
<1> QED BY <1>1, <1>2 DEF CallOK

(* The invariant after a step of k. *)
LEMMA Assembled ==
  ASSUME IInv, NEW k \in Call, TypeOK', Aside(k), CallOK(k)'
  PROVE  IInv'
<1>1. ASSUME NEW j \in Call PROVE CallOK(j)'
  <2>1. CASE j = k
    BY <2>1
  <2>2. CASE j # k
    BY <2>2, Elsewhere DEF IInv
  <2> QED BY <2>1, <2>2
<1> QED BY <1>1 DEF IInv

LEMMA BeginPreserves ==
  ASSUME IInv, NEW w \in Workload, Begin(w)
  PROVE  IInv'
<1> DEFINE k == w.call
<1>1. k \in Call /\ w.op \in Ops /\ w.name \in Name
  BY WorkloadAssumption DEF Ops, Adopting, Dropping
<1>2. TypeOK'
  BY <1>1 DEF IInv, TypeOK, Begin, Goto
<1>3. Aside(k)
  BY <1>1 DEF IInv, TypeOK, Begin, Goto, Aside
<1>4. /\ pc[k] = "new" /\ pc'[k] = IF w.op = "generate" THEN "mutate" ELSE "has"
      /\ op'[k] = w.op /\ name'[k] = w.name /\ before'[k] = (w.name \in list)
      /\ UNCHANGED <<list, hosted, visible, stage, copy, answer, result, looked, mutated,
                     disturbed>>
  BY <1>1 DEF IInv, TypeOK, Begin, Goto
<1>5. Placed(k)'
  BY <1>1, <1>4 DEF IInv, CallOK, Placed
<1>6. Sees(k)'
  BY <1>1, <1>4 DEF IInv, CallOK, Placed, Sees
<1> QED BY <1>1, <1>2, <1>3, <1>5, <1>6, Assembled DEF CallOK

(* A step that moves k in its edits of the list, or ends it. *)
Moves(k) ==
    /\ \E p \in {"new", "has", "read", "write", "mutate", "cleanup", "done"} :
          pc' = [pc EXCEPT ![k] = p]
    /\ \E s \in {"first", "undo", "final"} : stage' = [stage EXCEPT ![k] = s]
    /\ \E r \in {"none", "ok", "refused", "absent", "outage", "config", "aggregate"} :
          result' = [result EXCEPT ![k] = r]

(* Every outcome of an edit is such a move. *)
LEMMA EditsMove ==
  ASSUME TypeOK, NEW k \in Call,
         \/ EditDone(k)
         \/ EditFailed(k)
         \/ \E r \in {"none", "ok", "refused", "absent", "outage"} : AfterUndo(k, r)
  PROVE  Moves(k)
<1>1. /\ stage[k] \in {"first", "undo", "final"}
      /\ result[k] \in {"none", "ok", "refused", "absent", "outage", "config", "aggregate"}
      /\ answer[k] \in {"none", "ok", "refused", "absent", "outage"}
      /\ stage = [stage EXCEPT ![k] = stage[k]]
      /\ result = [result EXCEPT ![k] = result[k]]
  <2>1. /\ stage = [stage EXCEPT ![k] = stage[k]]
        /\ result = [result EXCEPT ![k] = result[k]]
    BY DEF TypeOK
  <2> QED BY <2>1 DEF TypeOK
<1>2. ASSUME NEW r \in {"none", "ok", "refused", "absent", "outage"}, AfterUndo(k, r)
      PROVE  Moves(k)
  BY <1>1, <1>2 DEF AfterUndo, Finish, Goto, Moves
<1>3. CASE EditFailed(k)
  BY <1>1, <1>3 DEF EditFailed, Finish, Goto, Moves
<1>4. CASE EditDone(k)
  <2>1. CASE stage[k] = "undo" /\ AfterUndo(k, answer[k])
    BY <1>1, <1>2, <2>1
  <2> QED BY <1>1, <1>4, <2>1 DEF EditDone, Finish, Goto, Moves
<1> QED BY <1>2, <1>3, <1>4

(* A move keeps the types of what it moves, and leaves other calls there.  *)
LEMMA MovesTyped ==
  ASSUME TypeOK, NEW k \in Call, Moves(k)
  PROVE  /\ pc' \in [Call -> {"new", "has", "read", "write", "mutate", "cleanup", "done"}]
         /\ stage' \in [Call -> {"first", "undo", "final"}]
         /\ result' \in [Call -> {"none", "ok", "refused", "absent", "outage",
                                  "config", "aggregate"}]
         /\ \A j \in Call \ {k} :
               pc'[j] = pc[j] /\ stage'[j] = stage[j] /\ result'[j] = result[j]
BY DEF TypeOK, Moves

LEMMA FailsTyped == ASSUME TypeOK, Fails \/ UNCHANGED failures PROVE failures' \in Nat
BY DEF TypeOK, Fails

LEMMA HasPreserves ==
  ASSUME IInv, NEW k \in Call, Has(k)
  PROVE  IInv'
<1>1. CASE Look(k)
  <2>1. /\ pc[k] = "has" /\ pc'[k] \in {"mutate", "read"}
        /\ pc'[k] = "mutate" <=> ((name[k] \in list) = (op[k] \in Adopting))
        /\ visible'[k] = (name[k] \in list) /\ looked'[k] = TRUE
        /\ UNCHANGED <<list, hosted, op, name, stage, copy, answer, result, before, mutated,
                       disturbed>>
    BY <1>1 DEF IInv, TypeOK, Has, Look, Goto
  <2>2. TypeOK'
    BY <1>1 DEF IInv, TypeOK, Has, Look, Goto
  <2>3. Aside(k)
    BY <1>1, <2>1 DEF IInv, TypeOK, Has, Look, Goto, Aside
  <2>4. Placed(k)'
    BY <2>1 DEF IInv, CallOK, Placed
  <2>5. ~disturbed[k] => Sees(k)'
    BY <2>1 DEF IInv, CallOK, Placed, Sees
  <2> QED BY <2>1, <2>2, <2>3, <2>4, <2>5, Assembled DEF CallOK
<1>2. CASE EditFailed(k) /\ Fails /\ UNCHANGED <<visible, looked>>
  <2>1. Moves(k) /\ failures' \in Nat
    BY <1>2, EditsMove, FailsTyped DEF IInv
  <2>2. UNCHANGED <<list, hosted, op, name, visible, copy, answer, looked, before, mutated,
                    disturbed>>
    BY <1>2 DEF Has
  <2>3. TypeOK'
    BY <2>1, <2>2, MovesTyped DEF IInv, TypeOK
  <2>4. Aside(k)
    BY <2>1, <2>2, MovesTyped DEF IInv, Aside
  <2>5. /\ pc[k] = "has" /\ op[k] # "generate"
        /\ \/ pc'[k] = "read" /\ stage'[k] = "undo" /\ result'[k] = result[k]
           \/ pc'[k] = "done" /\ stage'[k] = stage[k] /\ result'[k] = "config"
    BY <1>2 DEF IInv, TypeOK, CallOK, Placed, Has, EditFailed, Finish, Goto
  <2>6. Placed(k)'
    BY <2>2, <2>5 DEF IInv, CallOK, Placed
  <2>7. ~disturbed[k] => Sees(k)'
    BY <2>2, <2>5 DEF IInv, CallOK, Placed, Sees
  <2> QED BY <2>2, <2>3, <2>4, <2>6, <2>7, Assembled DEF CallOK
<1> QED BY <1>1, <1>2 DEF Has

(* What an edit does not touch of k. *)
Kept(k) ==
    /\ op'[k] = op[k] /\ name'[k] = name[k] /\ visible'[k] = visible[k]
    /\ answer'[k] = answer[k] /\ looked'[k] = looked[k] /\ before'[k] = before[k]
    /\ mutated'[k] = mutated[k] /\ disturbed'[k] = disturbed[k]

(* An edit that has succeeded, with the list as it should leave it. *)
LEMMA EditDoneOK ==
  ASSUME IInv, NEW k \in Call, pc[k] \in {"read", "write"}, EditDone(k), Kept(k),
         (name[k] \in list') = Adds(k)
  PROVE  CallOK(k)'
<1>1. Placed(k) /\ (~disturbed[k] => Sees(k)) /\ op[k] \in Ops
  BY DEF IInv, TypeOK, CallOK
<1>2. CASE stage[k] = "first" /\ op[k] = "generate"
  <2>1. pc'[k] = "done" /\ result'[k] = "ok" /\ stage'[k] = "first"
    BY <1>2 DEF EditDone, Finish, Goto, IInv, TypeOK
  <2> QED BY <1>1, <1>2, <2>1 DEF Kept, CallOK, Placed, Sees, Adds, Dropping, Adopting
<1>3. CASE stage[k] = "first" /\ op[k] # "generate"
  <2>1. pc'[k] = "mutate" /\ result'[k] = result[k] /\ stage'[k] = "first"
    BY <1>3 DEF EditDone, Goto, IInv, TypeOK
  <2>2. Adds(k) = (op[k] \in Adopting)
    BY <1>1, <1>3 DEF Adds, Ops, Adopting, Dropping
  <2>3. looked[k] /\ ~mutated[k] /\ answer[k] = "none"
    BY <1>1, <1>3 DEF Placed
  <2> QED BY <1>1, <1>3, <2>1, <2>2, <2>3 DEF Kept, CallOK, Placed, Sees
<1>4. CASE stage[k] = "undo" /\ AfterUndo(k, answer[k])
  <2>1. Adds(k) = (op[k] \in Dropping) /\ op[k] # "generate" /\ answer[k] # "ok"
    BY <1>1, <1>4 DEF Adds, Placed, Dropping
  <2>2. CASE op[k] = "remove" /\ answer[k] = "absent"
    <3>1. pc'[k] = "read" /\ result'[k] = result[k] /\ stage'[k] = "final"
      BY <1>4, <2>2 DEF AfterUndo, Goto, IInv, TypeOK
    <3> QED BY <1>1, <1>4, <2>2, <3>1 DEF Kept, CallOK, Placed, Sees
  <2>3. CASE ~(op[k] = "remove" /\ answer[k] = "absent")
    <3>1. pc'[k] = "done" /\ result'[k] = answer[k] /\ stage'[k] = "undo"
      BY <1>4, <2>3 DEF AfterUndo, Finish, Goto, IInv, TypeOK
    <3>2. answer[k] # "absent"
      BY <1>1, <2>3 DEF Placed
    <3> QED BY <1>1, <1>4, <2>1, <3>1, <3>2 DEF Kept, CallOK, Placed, Sees
  <2> QED BY <2>2, <2>3
<1>5. CASE stage[k] = "final"
  <2>1. pc'[k] = "done" /\ result'[k] = "absent" /\ stage'[k] = "final"
    BY <1>5 DEF EditDone, Finish, Goto, IInv, TypeOK
  <2>2. op[k] = "remove" /\ ~Adds(k) /\ op[k] \in Dropping
    BY <1>1, <1>5 DEF Adds, Placed, Dropping
  <2> name[k] \notin list'
    BY <2>2
  <2>3. Placed(k)'
    BY <1>1, <1>5, <2>1, <2>2 DEF Kept, Placed
  <2>4. ~disturbed[k] => Sees(k)'
    BY <1>1, <2>1, <2>2 DEF Kept, Sees
  <2> QED BY <2>3, <2>4 DEF CallOK, Kept
<1> QED BY <1>2, <1>3, <1>4, <1>5 DEF EditDone

(* An edit that has failed, with the list written or not. *)
LEMMA EditFailedOK ==
  ASSUME IInv, NEW k \in Call, pc[k] \in {"read", "write"}, EditFailed(k), Kept(k)
  PROVE  CallOK(k)'
<1>1. Placed(k) /\ (~disturbed[k] => Sees(k))
  BY DEF IInv, CallOK
<1>2. CASE stage[k] = "first" /\ op[k] = "generate"
  <2>1. pc'[k] = "cleanup" /\ stage'[k] = "first" /\ result'[k] = result[k]
    BY <1>2 DEF EditFailed, Goto, IInv, TypeOK
  <2> QED BY <1>1, <1>2, <2>1 DEF Kept, CallOK, Placed, Sees
<1>3. CASE stage[k] = "first" /\ op[k] = "seed"
  <2>1. pc'[k] = "read" /\ stage'[k] = "undo" /\ result'[k] = result[k]
    BY <1>3 DEF EditFailed, Goto, IInv, TypeOK
  <2> QED BY <1>1, <1>3, <2>1 DEF Kept, CallOK, Placed, Sees
<1>4. CASE stage[k] # "first" \/ op[k] \notin {"generate", "seed"}
  <2>1. pc'[k] = "done" /\ result'[k] = "config" /\ stage'[k] = stage[k]
    <3>1. Goto(k, "done") /\ result' = [result EXCEPT ![k] = "config"] /\ UNCHANGED stage
      BY <1>4 DEF EditFailed, Finish
    <3> QED BY <3>1 DEF Goto, IInv, TypeOK
  <2>2. op[k] # "generate"
    BY <1>1, <1>4 DEF Placed
  <2> QED BY <1>1, <2>1, <2>2 DEF Kept, CallOK, Placed, Sees
<1> QED BY <1>2, <1>3, <1>4

LEMMA ReadPreserves ==
  ASSUME IInv, NEW k \in Call, Read(k)
  PROVE  IInv'
<1>1. UNCHANGED <<list, hosted, op, name, visible, answer, looked, before, mutated, disturbed>>
      /\ pc[k] = "read"
  BY DEF Read, history
<1>2. Kept(k)
  BY <1>1 DEF Kept
<1>3. CASE /\ copy' = [copy EXCEPT ![k] = list]
           /\ Goto(k, "write")
           /\ UNCHANGED <<stage, result, failures>>
  <2>1. TypeOK'
    BY <1>1, <1>3 DEF IInv, TypeOK, Goto
  <2>2. Aside(k)
    BY <1>1, <1>3 DEF IInv, TypeOK, Goto, Aside
  <2>3. pc'[k] = "write" /\ copy'[k] = list
    BY <1>3 DEF IInv, TypeOK, Goto
  <2>4. CallOK(k)'
    BY <1>1, <1>3, <2>3 DEF IInv, CallOK, Placed, Sees
  <2> QED BY <2>1, <2>2, <2>4, Assembled
<1>4. CASE /\ UNCHANGED copy
           /\ \/ Settled(k, list) /\ EditDone(k) /\ UNCHANGED failures
              \/ Fails /\ EditFailed(k)
  <2>1. Moves(k) /\ failures' \in Nat
    BY <1>4, EditsMove, FailsTyped DEF IInv
  <2>2. TypeOK'
    BY <1>1, <1>4, <2>1, MovesTyped DEF IInv, TypeOK
  <2>3. Aside(k)
    BY <1>1, <1>4, <2>1, MovesTyped DEF IInv, Aside
  <2>4. CallOK(k)'
    BY <1>1, <1>2, <1>4, EditDoneOK, EditFailedOK DEF Settled
  <2> QED BY <2>2, <2>3, <2>4, Assembled
<1> QED BY <1>3, <1>4 DEF Read

LEMMA WritePreserves ==
  ASSUME IInv, NEW k \in Call, Write(k)
  PROVE  IInv'
<1>1. UNCHANGED <<hosted, op, name, visible, copy, answer, looked, before, mutated>>
      /\ pc[k] = "write"
  BY DEF Write
<1>2. Moves(k) /\ failures' \in Nat
  BY EditsMove, FailsTyped DEF IInv, Write
<1>3. CASE list' = Edited(k) /\ Disturb(k)
  <2>1. list' \in SUBSET Name /\ (name[k] \in list') = Adds(k)
    <3>1. name[k] \in Name /\ copy[k] \in SUBSET Name
      BY DEF IInv, TypeOK
    <3>2. CASE Adds(k)
      BY <1>3, <3>1, <3>2 DEF Edited
    <3>3. CASE ~Adds(k)
      <4>1. list' = copy[k] \ {name[k]}
        BY <1>3, <3>3 DEF Edited
      <4>2. list' \in SUBSET Name /\ name[k] \notin list'
        BY <3>1, <4>1
      <4> QED BY <3>3, <4>2 DEF Adds
    <3> QED BY <3>2, <3>3
  <2>2. disturbed' \in [Call -> BOOLEAN] /\ disturbed'[k] = disturbed[k]
    BY <1>3 DEF IInv, TypeOK, Disturb
  <2>3. TypeOK'
    BY <1>1, <1>2, <2>1, <2>2, MovesTyped DEF IInv, TypeOK
  <2>4. Aside(k)
    BY <1>1, <1>2, <1>3, MovesTyped DEF IInv, Aside, Disturb
  <2>5. Kept(k)
    BY <1>1, <2>2 DEF Kept
  <2>6. EditDone(k) \/ EditFailed(k)
    BY DEF Write
  <2>7. CallOK(k)'
    BY <1>1, <2>1, <2>5, <2>6, EditDoneOK, EditFailedOK
  <2> QED BY <2>3, <2>4, <2>7, Assembled
<1>4. CASE EditFailed(k) /\ UNCHANGED <<list, disturbed>>
  <2>1. TypeOK'
    BY <1>1, <1>2, <1>4, MovesTyped DEF IInv, TypeOK
  <2>2. Aside(k)
    BY <1>1, <1>2, <1>4, MovesTyped DEF IInv, Aside
  <2>3. Kept(k)
    BY <1>1, <1>4 DEF Kept
  <2>4. CallOK(k)'
    BY <1>1, <1>4, <2>3, EditFailedOK
  <2> QED BY <2>1, <2>2, <2>4, Assembled
<1> QED BY <1>3, <1>4 DEF Write

(* The daemon's answer to k, with what it did. *)
LEMMA AnsweredOK ==
  ASSUME IInv, NEW k \in Call, pc[k] = "mutate",
         NEW r \in {"ok", "refused", "absent", "outage"}, Answered(k, r),
         r = "absent" => op[k] = "remove", r \in {"refused", "absent"} => ~mutated'[k],
         UNCHANGED <<list, op, name, visible, looked, before>>,
         disturbed'[k] = disturbed[k]
  PROVE  /\ Moves(k) /\ answer' = [answer EXCEPT ![k] = r]
         /\ CallOK(k)'
<1>1. Placed(k) /\ (~disturbed[k] => Sees(k)) /\ op[k] \in Ops
  BY DEF IInv, TypeOK, CallOK
<1>2. stage[k] = "first" /\ answer'[k] = r /\ result[k] = "none"
      /\ answer' = [answer EXCEPT ![k] = r]
  BY <1>1 DEF Placed, Answered, IInv, TypeOK
<1>3. /\ stage = [stage EXCEPT ![k] = stage[k]]
      /\ result = [result EXCEPT ![k] = result[k]]
  BY DEF IInv, TypeOK
<1>4. CASE r = "ok" /\ op[k] = "generate"
  <2>1. pc' = [pc EXCEPT ![k] = "read"] /\ UNCHANGED <<stage, result>>
    BY <1>4 DEF Answered, Goto
  <2>2. Moves(k)
    BY <1>2, <1>3, <2>1 DEF Moves
  <2>3. pc'[k] = "read" /\ stage'[k] = "first" /\ result'[k] = "none"
    BY <1>2, <2>1 DEF IInv, TypeOK
  <2> QED BY <1>1, <1>2, <1>4, <2>2, <2>3 DEF CallOK, Placed, Sees
<1>5. CASE r = "ok" /\ op[k] # "generate"
  <2>1. pc' = [pc EXCEPT ![k] = "done"] /\ result' = [result EXCEPT ![k] = "ok"]
        /\ UNCHANGED stage
    BY <1>5 DEF Answered, Finish, Goto
  <2>2. Moves(k)
    BY <1>2, <1>3, <2>1 DEF Moves
  <2>3. pc'[k] = "done" /\ stage'[k] = "first" /\ result'[k] = "ok"
    BY <1>2, <2>1 DEF IInv, TypeOK
  <2>4. (op[k] \in Adopting) = (op[k] \notin Dropping)
    BY <1>1, <1>5 DEF Ops, Adopting, Dropping
  <2> QED BY <1>1, <1>2, <1>5, <2>2, <2>3, <2>4 DEF CallOK, Placed, Sees
<1>6. CASE r # "ok" /\ Undoes(k)
  <2>1. pc' = [pc EXCEPT ![k] = "read"] /\ stage' = [stage EXCEPT ![k] = "undo"]
        /\ UNCHANGED result
    BY <1>6 DEF Answered, Goto
  <2>2. Moves(k)
    BY <1>2, <1>3, <2>1 DEF Moves
  <2>3. pc'[k] = "read" /\ stage'[k] = "undo" /\ result'[k] = "none"
    BY <1>2, <2>1 DEF IInv, TypeOK
  <2>4. op[k] # "generate" /\ visible[k] = (op[k] \in Dropping) /\ looked[k]
    BY <1>1, <1>6 DEF Undoes, Placed
  <2> QED BY <1>1, <1>2, <1>6, <2>2, <2>3, <2>4 DEF CallOK, Placed, Sees
<1>7. CASE r # "ok" /\ ~Undoes(k) /\ AfterUndo(k, r)
  <2>1. Moves(k)
    BY <1>7, EditsMove DEF IInv
  <2>2. CASE op[k] = "remove" /\ r = "absent"
    <3>1. pc'[k] = "read" /\ stage'[k] = "final" /\ result'[k] = "none"
      BY <1>2, <1>7, <2>2 DEF AfterUndo, Goto, IInv, TypeOK
    <3> QED BY <1>1, <1>2, <2>1, <2>2, <3>1 DEF CallOK, Placed, Sees
  <2>3. CASE r # "absent"
    <3>1. pc'[k] = "done" /\ stage'[k] = "first" /\ result'[k] = r
      BY <1>2, <1>7, <2>3 DEF AfterUndo, Finish, Goto, IInv, TypeOK
    <3>2. op[k] # "generate" => visible[k] # (op[k] \in Dropping)
      BY <1>7 DEF Undoes
    <3>3. op[k] # "generate" => (op[k] \in Adopting) = (op[k] \notin Dropping)
      BY <1>1 DEF Ops, Adopting, Dropping
    <3>4. Placed(k)'
      BY <1>1, <1>2, <2>3, <3>1 DEF Placed
    <3>5. ASSUME looked[k], ~disturbed[k] PROVE (name[k] \in list) = before[k]
      <4>1. op[k] # "generate" /\ visible[k] = before[k]
            /\ (name[k] \in list) = (op[k] \in Adopting)
        BY <1>1, <3>5 DEF Placed, Sees
      <4>2. visible[k] \in BOOLEAN
        BY DEF IInv, TypeOK
      <4> QED BY <3>2, <3>3, <4>1, <4>2
    <3>6. op[k] = "generate" /\ mutated'[k] => r = "outage"
      BY <1>7, <2>3
    <3>7. ~disturbed[k] => Sees(k)'
      BY <1>1, <1>7, <2>3, <3>1, <3>5, <3>6 DEF Sees
    <3> QED BY <2>1, <1>2, <3>4, <3>7 DEF CallOK
  <2> QED BY <2>2, <2>3
<1> QED BY <1>2, <1>4, <1>5, <1>6, <1>7 DEF Answered

LEMMA MutatePreserves ==
  ASSUME IInv, NEW k \in Call, Mutate(k)
  PROVE  IInv'
<1>1. UNCHANGED <<list, op, name, visible, copy, looked, before>> /\ pc[k] = "mutate"
  BY DEF Mutate
<1>2. /\ hosted' \in SUBSET Name
      /\ mutated' \in [Call -> BOOLEAN] /\ \A j \in Call \ {k} : mutated'[j] = mutated[j]
      /\ disturbed' \in [Call -> BOOLEAN] /\ disturbed'[k] = disturbed[k]
      /\ \/ hosted' = hosted /\ disturbed' = disturbed
         \/ \A j \in Call \ {k} : disturbed'[j] = (disturbed[j] \/ pc[j] # "new")
  <2>1. CASE /\ hosted' = Performed(k)
             /\ mutated' = [mutated EXCEPT ![k] = TRUE]
             /\ Disturb(k)
    <3>1. name[k] \in Name /\ hosted \subseteq Name
      BY DEF IInv, TypeOK
    <3>2. hosted' \in SUBSET Name
      BY <2>1, <3>1 DEF Performed
    <3>3. mutated' \in [Call -> BOOLEAN] /\ \A j \in Call \ {k} : mutated'[j] = mutated[j]
      BY <2>1 DEF IInv, TypeOK
    <3>4. /\ disturbed' \in [Call -> BOOLEAN] /\ disturbed'[k] = disturbed[k]
          /\ \A j \in Call \ {k} : disturbed'[j] = (disturbed[j] \/ pc[j] # "new")
      BY <2>1 DEF IInv, TypeOK, Disturb
    <3> QED BY <3>2, <3>3, <3>4
  <2>2. CASE UNCHANGED <<hosted, mutated, disturbed>>
    BY <2>2 DEF IInv, TypeOK
  <2> QED BY <2>1, <2>2 DEF Mutate
<1>3. PICK r \in {"ok", "refused", "absent", "outage"} :
         /\ Answered(k, r)
         /\ r = "absent" => op[k] = "remove"
         /\ r \in {"refused", "absent"} => ~mutated'[k]
  <2>1. ~mutated[k]
    BY <1>1 DEF IInv, CallOK, Placed
  <2>2. CASE Answered(k, "ok")
    BY <2>2
  <2>3. CASE Answered(k, "outage")
    BY <2>3
  <2>4. CASE Answered(k, Refusal(k)) /\ UNCHANGED mutated
    <3>1. Refusal(k) \in {"refused", "absent"} /\ (Refusal(k) = "absent" => op[k] = "remove")
      BY DEF Refusal
    <3> QED BY <2>1, <2>4, <3>1
  <2> QED BY <2>2, <2>3, <2>4 DEF Mutate
<1>4. failures' \in Nat
  BY FailsTyped DEF IInv, Mutate
<1>5. Moves(k) /\ answer' = [answer EXCEPT ![k] = r] /\ CallOK(k)'
  BY <1>1, <1>2, <1>3, AnsweredOK
<1>6. answer' \in [Call -> {"none", "ok", "refused", "absent", "outage"}]
      /\ \A j \in Call \ {k} : answer'[j] = answer[j]
  BY <1>5 DEF IInv, TypeOK
<1>7. TypeOK'
  BY <1>1, <1>2, <1>4, <1>5, <1>6, MovesTyped DEF IInv, TypeOK
<1>8. Aside(k)
  BY <1>1, <1>2, <1>5, <1>6, MovesTyped DEF IInv, Aside
<1> QED BY <1>5, <1>7, <1>8, Assembled

LEMMA CleanupPreserves ==
  ASSUME IInv, NEW k \in Call, Cleanup(k)
  PROVE  IInv'
<1>1. UNCHANGED <<list, op, name, visible, stage, copy, answer, looked, before, mutated>>
      /\ pc[k] = "cleanup" /\ op[k] = "generate"
  BY DEF Cleanup, IInv, CallOK, Placed
<1>2. PICK r \in {"config", "aggregate"} : Finish(k, r)
  BY DEF Cleanup
<1>3. /\ pc' = [pc EXCEPT ![k] = "done"] /\ result' = [result EXCEPT ![k] = r]
      /\ pc'[k] = "done" /\ result'[k] = r
  BY <1>2 DEF Finish, Goto, IInv, TypeOK
<1>4. CASE hosted' = hosted \ {name[k]} /\ Disturb(k)
  <2>1. /\ disturbed' \in [Call -> BOOLEAN] /\ disturbed'[k] = disturbed[k]
        /\ \A j \in Call \ {k} : disturbed'[j] = (disturbed[j] \/ pc[j] # "new")
    BY <1>4 DEF IInv, TypeOK, Disturb
  <2>2. failures' \in Nat
    BY FailsTyped DEF IInv, Cleanup
  <2>3. TypeOK'
    BY <1>1, <1>3, <1>4, <2>1, <2>2 DEF IInv, TypeOK
  <2>4. Aside(k)
    BY <1>1, <1>3, <2>1 DEF IInv, TypeOK, Aside
  <2>5. Placed(k)'
    BY <1>1, <1>3 DEF IInv, CallOK, Placed
  <2>6. ~disturbed[k] => Sees(k)'
    BY <1>1, <1>3, <1>4 DEF IInv, CallOK, Placed, Sees
  <2> QED BY <2>1, <2>3, <2>4, <2>5, <2>6, Assembled DEF CallOK
<1>5. CASE Finish(k, "aggregate") /\ Fails /\ UNCHANGED <<hosted, disturbed>>
  <2>1. result'[k] = "aggregate"
    BY <1>5 DEF Finish, IInv, TypeOK
  <2>2. TypeOK'
    BY <1>1, <1>3, <1>5, FailsTyped DEF IInv, TypeOK
  <2>3. Aside(k)
    BY <1>1, <1>3, <1>5 DEF IInv, TypeOK, Aside
  <2>4. Placed(k)'
    BY <1>1, <1>3, <1>5 DEF IInv, CallOK, Placed
  <2>5. ~disturbed[k] => Sees(k)'
    BY <1>1, <1>3, <1>5, <2>1 DEF IInv, CallOK, Placed, Sees
  <2> QED BY <1>5, <2>2, <2>3, <2>4, <2>5, Assembled DEF CallOK
<1> QED BY <1>4, <1>5 DEF Cleanup

LEMMA Inductive == IInv /\ [Next]_vars => IInv'
<1> SUFFICES ASSUME IInv, [Next]_vars PROVE IInv'
  OBVIOUS
<1>1. ASSUME NEW w \in Workload, Begin(w) PROVE IInv'
  BY <1>1, BeginPreserves
<1>2. ASSUME NEW k \in Call, Step(k) PROVE IInv'
  BY <1>2, HasPreserves, ReadPreserves, WritePreserves, MutatePreserves, CleanupPreserves
     DEF Step
<1>3. CASE UNCHANGED vars
  BY <1>3 DEF vars, call, history, IInv, TypeOK, CallOK, Placed, Sees
<1> QED BY <1>1, <1>2, <1>3 DEF Next

LEMMA InitOK == Init => IInv
<1> SUFFICES ASSUME Init PROVE IInv
  OBVIOUS
<1>1. (CHOOSE n \in Name : TRUE) \in Name
  BY SetsAssumption
<1>2. TypeOK
  BY <1>1, SetsAssumption DEF Init, TypeOK, Ops, Adopting
<1>3. ASSUME NEW k \in Call PROVE CallOK(k)
  <2>1. /\ pc[k] = "new" /\ op[k] = "create" /\ stage[k] = "first" /\ answer[k] = "none"
        /\ result[k] = "none" /\ ~looked[k] /\ ~mutated[k] /\ ~disturbed[k]
    BY <1>2 DEF Init, TypeOK
  <2> QED BY <2>1 DEF CallOK, Placed, Sees
<1> QED BY <1>2, <1>3 DEF IInv

------------------------------------------------------------------------------
(* The types, and of every call Placed and Sees, hold throughout, however  *)
(* the calls of all processes interleave at their awaits.                  *)
THEOREM Invariance == Spec => []IInv
BY InitOK, Inductive, PTL DEF Spec

(* Every call keeps an operation, a place and an answer of its kind, and   *)
(* the file holds names only.                                              *)
THEOREM TypeCorrect == Spec => []TypeOK
<1>1. IInv => TypeOK
  BY DEF IInv
<1> QED BY <1>1, Invariance, PTL

(* A tool that reports success, or that its identity is unknown, leaves    *)
(* the name listed exactly if the tool adopts, when no other call came in  *)
(* between.                                                                *)
THEOREM SuccessIsListed == Spec => []ListFollowsResult
<1>1. IInv => ListFollowsResult
  BY DEF IInv, CallOK, Sees, ListFollowsResult, Ended
<1> QED BY <1>1, Invariance, PTL

(* A tool the daemon refuses leaves the list as it found it, when no file  *)
(* operation failed and no other call came in between.                     *)
THEOREM RefusalIsUndone == Spec => []RefusalRestores
<1>1. IInv => RefusalRestores
  BY DEF IInv, CallOK, Sees, RefusalRestores, Ended
<1> QED BY <1>1, Invariance, PTL

(* An identity made under a generated name is listed, or gone again, or    *)
(* its tool reports an outage or both failures.                            *)
THEOREM GeneratedIsAdoptedOrClosed == Spec => []NoOrphan
<1>1. IInv => NoOrphan
  BY DEF IInv, CallOK, Sees, NoOrphan, Ended
<1> QED BY <1>1, Invariance, PTL

(* The daemon performs a tool's request only when the list already is as   *)
(* the tool will leave it.                                                 *)
THEOREM ListIsEditedFirst == Spec => EditComesFirst
<1> DEFINE First(k) ==
      ~mutated[k] /\ mutated'[k] /\ ~disturbed[k] /\ op[k] # "generate" =>
          (name[k] \in list) = (op[k] \in Adopting)
<1>1. IInv /\ [Next]_vars => [\A k \in Call : First(k)]_vars
  <2> SUFFICES ASSUME IInv, Next, NEW k \in Call PROVE First(k)
    OBVIOUS
  <2>1. ASSUME NEW w \in Workload, Begin(w) PROVE First(k)
    BY <2>1 DEF Begin
  <2>2. ASSUME NEW j \in Call, Step(j) PROVE First(k)
    <3>1. CASE ~Mutate(j)
      BY <2>2, <3>1 DEF Step, Has, Read, Write, Cleanup, history
    <3>2. CASE Mutate(j) /\ j = k
      BY <3>2 DEF IInv, CallOK, Sees, Mutate
    <3>3. CASE Mutate(j) /\ j # k
      BY <3>3 DEF Mutate, IInv, TypeOK
    <3> QED BY <3>1, <3>2, <3>3
  <2> QED BY <2>1, <2>2 DEF Next
<1> QED BY <1>1, Invariance, PTL DEF Spec, EditComesFirst
==============================================================================
