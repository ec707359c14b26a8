--------------------------- MODULE ToolBindingProofs ---------------------------
(***************************************************************************)
(* Theorems about ToolBinding for every set of clients, identities and     *)
(* calls, with any number of restarts and lost answers.                    *)
(*                                                                         *)
(* The invariant IInv says of every call what its repetition relies on: as *)
(* long as it may be repeated it has done nothing, and the identity it is  *)
(* about to bind, close or remember was chosen by its session.             *)
(***************************************************************************)
EXTENDS ToolBinding, TLAPS

(* A step of k leaves every other call alone. *)
Alone(k) == \A j \in Call \ {k} :
    /\ pc'[j] = pc[j] /\ want'[j] = want[j] /\ result'[j] = result[j]
    /\ client'[j] = client[j] /\ op'[j] = op[j] /\ name'[j] = name[j]
    /\ acts'[j] = acts[j]

(* What a session has chosen stays chosen. *)
Grows == \A c \in Client : chosen[c] \subseteq chosen'[c]

(* CallOK survives the steps of other calls. *)
LEMMA Undisturbed ==
  ASSUME TypeOK, NEW j \in Call, CallOK(j), Grows,
         pc'[j] = pc[j], want'[j] = want[j], result'[j] = result[j],
         client'[j] = client[j], op'[j] = op[j], name'[j] = name[j], acts'[j] = acts[j]
  PROVE  CallOK(j)'
BY DEF TypeOK, CallOK, Grows, Untried

(* The invariant after a step of k: the types, the memory, and k itself. *)
LEMMA Assembled ==
  ASSUME IInv, NEW k \in Call, TypeOK', Remembered', Alone(k), Grows, CallOK(k)'
  PROVE  IInv'
<1>1. ASSUME NEW j \in Call PROVE CallOK(j)'
  <2>1. CASE j = k
    BY <2>1
  <2>2. CASE j # k
    <3>1. CallOK(j)
      BY DEF IInv
    <3> QED BY <2>2, <3>1, Undisturbed DEF Alone, IInv
  <2> QED BY <2>1, <2>2
<1> QED BY <1>1 DEF IInv

(* An answer, or its loss, moves its call to "answer" and nothing else. *)
LEMMA Answering ==
  ASSUME TypeOK, NEW k \in Call, NEW r \in {"ok", "notBound", "error", "outage"},
         AnswerOrLose(k, r)
  PROVE  /\ pc' = [pc EXCEPT ![k] = "answer"]
         /\ \E s \in {r, "outage"} : result' = [result EXCEPT ![k] = s]
         /\ want' = want /\ tries' = tries
         /\ restarts' = restarts /\ faults' \in Nat
BY DEF AnswerOrLose, Answer, Goto, TypeOK, bounds

(* The same, of a call that is not repeated before it is answered. *)
LEMMA AnswerTyped ==
  ASSUME TypeOK, NEW k \in Call, NEW r \in {"ok", "notBound", "error", "outage"},
         AnswerOrLose(k, r)
  PROVE  /\ pc' \in [Call -> Requests \cup {"new", "answer", "refused", "learn", "done"}]
         /\ want' \in [Call -> Name \cup {None}]
         /\ tries' \in [Call -> {1, 2}]
         /\ result' \in [Call -> {"none", "ok", "notBound", "error", "outage"}]
         /\ restarts' \in Nat /\ faults' \in Nat
<1>1. PICK s \in {r, "outage"} : result' = [result EXCEPT ![k] = s]
  BY Answering
<1>2. s \in {"none", "ok", "notBound", "error", "outage"}
  OBVIOUS
<1>3. result' \in [Call -> {"none", "ok", "notBound", "error", "outage"}]
  BY <1>1, <1>2 DEF TypeOK
<1>4. /\ pc' = [pc EXCEPT ![k] = "answer"] /\ want' = want /\ tries' = tries
      /\ restarts' = restarts /\ faults' \in Nat
  BY Answering
<1>5. pc' \in [Call -> Requests \cup {"new", "answer", "refused", "learn", "done"}]
  BY <1>4 DEF TypeOK
<1> QED BY <1>3, <1>4, <1>5 DEF TypeOK

(* The first effect of a call, under an identity its session chose. *)
LEMMA FirstEffect ==
  ASSUME TypeOK, NEW k \in Call, NEW n \in Name, acts[k] = <<>>, Effect(k, n)
  PROVE  /\ acts' \in [Call -> Seq([as : Name, meant : BOOLEAN])]
         /\ \A j \in Call \ {k} : acts'[j] = acts[j]
         /\ Len(acts'[k]) = 1
         /\ \A i \in DOMAIN acts'[k] : acts'[k][i].as = n
<1> DEFINE e == [as |-> n, meant |-> n \in {since[k], wanted[client[k]]}]
<1>1. e \in [as : Name, meant : BOOLEAN] /\ e.as = n
  OBVIOUS
<1>2. acts' = [acts EXCEPT ![k] = Append(@, e)] /\ k \in DOMAIN acts
  BY DEF Effect, TypeOK
<1> HIDE DEF e
<1>3. acts'[k] = <<e>>
  BY <1>2
<1>4. acts' = [acts EXCEPT ![k] = <<e>>]
  BY <1>2
<1>5. <<e>> \in Seq([as : Name, meant : BOOLEAN])
  BY <1>1
<1>6. Len(<<e>>) = 1 /\ DOMAIN <<e>> = {1} /\ <<e>>[1] = e
  OBVIOUS
<1> QED BY <1>1, <1>3, <1>4, <1>5, <1>6 DEF TypeOK

(* Binding c to n evicts every other holder of n. *)
LEMMA Binding ==
  ASSUME TypeOK, NEW c \in Client, NEW n \in Name
  PROVE  /\ Bound(c, n) \in [Client -> Name \cup {None}]
         /\ Bound(c, n)[c] = n
         /\ \A d \in Client \ {c} : Bound(c, n)[d] \in {bound[d], None}
         /\ ~HeldElsewhere(c, n) => \A d \in Client \ {c} : Bound(c, n)[d] = bound[d]
BY DEF Bound, TypeOK, HeldElsewhere

(* What k's answer leaves of its own condition, once its effects are known. *)
LEMMA Answered ==
  ASSUME TypeOK, NEW k \in Call, NEW r \in {"ok", "notBound", "error", "outage"},
         AnswerOrLose(k, r), UNCHANGED arguments,
         client[k] \in Managed => op[k] = "act",
         \A i \in DOMAIN acts'[k] : acts'[k][i].as \in chosen'[client[k]],
         Len(acts'[k]) <= 1,
         r = "notBound" => acts'[k] = <<>>
  PROVE  CallOK(k)' /\ (Alone(k) <=> \A j \in Call \ {k} : acts'[j] = acts[j])
<1>1. PICK s \in {r, "outage"} : result' = [result EXCEPT ![k] = s]
  BY Answering
<1>2. pc' = [pc EXCEPT ![k] = "answer"] /\ want' = want
  BY Answering
<1>3. pc'[k] = "answer" /\ result'[k] = s
  BY <1>1, <1>2 DEF TypeOK
<1>4. Untried(k)' => acts'[k] = <<>>
  BY <1>3 DEF Untried
<1>5. CallOK(k)'
  BY <1>3, <1>4 DEF CallOK, arguments
<1>6. \A j \in Call \ {k} : /\ pc'[j] = pc[j] /\ want'[j] = want[j]
                            /\ result'[j] = result[j]
  BY <1>1, <1>2 DEF TypeOK
<1> QED BY <1>5, <1>6 DEF Alone, arguments

LEMMA ActPreserves ==
  ASSUME IInv, NEW k \in Call, pc[k] = "request", UNCHANGED <<memory, arguments>>, Act(k)
  PROVE  IInv'
<1> USE DEF arguments, daemon
<1>1. CallOK(k) /\ acts[k] = <<>> /\ (client[k] \in Managed => op[k] = "act")
  BY DEF IInv, CallOK, Untried
<1>2. client[k] \in Client /\ UNCHANGED <<open, bound, chosen, wanted, since>> /\ Grows
  BY DEF IInv, TypeOK, Act, Grows
<1>3. Remembered'
  BY <1>2 DEF IInv, Remembered
<1>4. CASE Mine(k) # None /\ Effect(k, Mine(k)) /\ AnswerOrLose(k, "ok")
  <2>1. Mine(k) \in Name /\ Mine(k) \in chosen[client[k]]
    BY <1>2, <1>4 DEF IInv, TypeOK, Mine, Remembered
  <2>2. /\ acts' \in [Call -> Seq([as : Name, meant : BOOLEAN])]
        /\ \A j \in Call \ {k} : acts'[j] = acts[j]
        /\ Len(acts'[k]) = 1
        /\ \A i \in DOMAIN acts'[k] : acts'[k][i].as = Mine(k)
    BY <1>1, <1>4, <2>1, FirstEffect DEF IInv
  <2>3. TypeOK'
    BY <1>2, <1>4, <2>2, AnswerTyped DEF IInv, TypeOK
  <2>4. Len(acts'[k]) <= 1 /\ \A i \in DOMAIN acts'[k] : acts'[k][i].as \in chosen'[client[k]]
    BY <1>2, <2>1, <2>2
  <2>5. CallOK(k)' /\ Alone(k)
    BY <1>1, <1>4, <2>2, <2>4, Answered DEF IInv
  <2> QED BY <1>2, <1>3, <2>3, <2>5, Assembled
<1>5. CASE AnswerOrLose(k, "notBound") /\ UNCHANGED acts
  <2>1. TypeOK'
    BY <1>2, <1>5, AnswerTyped DEF IInv, TypeOK
  <2>2. Len(acts'[k]) <= 1 /\ \A i \in DOMAIN acts'[k] : acts'[k][i].as \in chosen'[client[k]]
    BY <1>1, <1>2, <1>5 DEF CallOK
  <2>3. CallOK(k)' /\ Alone(k)
    BY <1>1, <1>5, <2>2, Answered DEF IInv
  <2> QED BY <1>2, <1>3, <2>1, <2>3, Assembled
<1> QED BY <1>4, <1>5 DEF Act

LEMMA ChoosePreserves ==
  ASSUME IInv, NEW k \in Call, pc[k] = "request", UNCHANGED <<memory, arguments>>, Choose(k)
  PROVE  IInv'
<1> USE DEF arguments, daemon
<1> DEFINE c == client[k]
<1>1. CallOK(k) /\ acts[k] = <<>> /\ c \in Client
  BY DEF IInv, TypeOK, CallOK, Untried
<1>2. UNCHANGED <<open, acts, since>>
  BY DEF Choose
<1>3. PICK r \in {"ok", "error"} : AnswerOrLose(k, r)
  BY DEF Choose
<1>4. CASE /\ MayBind(c, name[k], force[k])
           /\ bound' = Bound(c, name[k])
           /\ chosen' = [chosen EXCEPT ![c] = @ \cup {name[k]}]
           /\ wanted' = [wanted EXCEPT ![c] = name[k]]
  <2>1. name[k] \in Name
    BY <1>4 DEF MayBind, IInv, TypeOK
  <2>2. /\ bound' \in [Client -> Name \cup {None}]
        /\ bound'[c] = name[k]
        /\ \A d \in Client \ {c} : bound'[d] \in {bound[d], None}
    BY <1>1, <1>4, <2>1, Binding DEF IInv
  <2>3. /\ chosen' \in [Client -> SUBSET Name] /\ wanted' \in [Client -> Name \cup {None}]
        /\ chosen'[c] = chosen[c] \cup {name[k]}
        /\ \A d \in Client \ {c} : chosen'[d] = chosen[d]
    BY <1>1, <1>4, <2>1 DEF IInv, TypeOK
  <2>4. Grows
    BY <2>3 DEF Grows
  <2>5. Remembered'
    BY <2>2, <2>3, <2>4 DEF Remembered, IInv, Grows
  <2>6. TypeOK'
    BY <1>2, <1>3, <2>2, <2>3, AnswerTyped DEF IInv, TypeOK
  <2>7. Len(acts'[k]) <= 1 /\ \A i \in DOMAIN acts'[k] : acts'[k][i].as \in chosen'[c]
    BY <1>1, <1>2
  <2>8. CallOK(k)' /\ Alone(k)
    BY <1>1, <1>2, <1>3, <2>7, Answered DEF IInv, CallOK
  <2> QED BY <2>4, <2>5, <2>6, <2>8, Assembled
<1>5. CASE UNCHANGED <<bound, chosen, wanted>>
  <2>1. Grows /\ Remembered'
    BY <1>5 DEF Grows, IInv, Remembered
  <2>2. TypeOK'
    BY <1>2, <1>3, <1>5, AnswerTyped DEF IInv, TypeOK
  <2>3. Len(acts'[k]) <= 1 /\ \A i \in DOMAIN acts'[k] : acts'[k][i].as \in chosen'[c]
    BY <1>1, <1>2
  <2>4. CallOK(k)' /\ Alone(k)
    BY <1>1, <1>2, <1>3, <2>3, Answered DEF IInv, CallOK
  <2> QED BY <2>1, <2>2, <2>4, Assembled
<1> QED BY <1>4, <1>5 DEF Choose

LEMMA ClosePreserves ==
  ASSUME IInv, NEW k \in Call, pc[k] = "request", UNCHANGED <<memory, arguments>>, Close(k)
  PROVE  IInv'
<1> USE DEF arguments, daemon
<1>1. CallOK(k) /\ acts[k] = <<>> /\ client[k] \in Client
  BY DEF IInv, TypeOK, CallOK, Untried
<1>2. UNCHANGED <<chosen, wanted, since>> /\ Grows
  BY DEF Close, Grows
<1>3. PICK r \in {"ok", "error"} : AnswerOrLose(k, r)
  BY DEF Close
<1>4. name[k] \in chosen[client[k]]
  BY DEF Close, IInv, CallOK
<1>5. CASE /\ name[k] \in open /\ open' = open \ {name[k]}
           /\ bound' = [bound EXCEPT ![client[k]] = IF @ = name[k] THEN None ELSE @]
           /\ Effect(k, name[k])
  <2>1. name[k] \in Name
    BY <1>5 DEF IInv, TypeOK
  <2>2. /\ acts' \in [Call -> Seq([as : Name, meant : BOOLEAN])]
        /\ \A j \in Call \ {k} : acts'[j] = acts[j]
        /\ Len(acts'[k]) = 1
        /\ \A i \in DOMAIN acts'[k] : acts'[k][i].as = name[k]
    BY <1>1, <1>5, <2>1, FirstEffect DEF IInv
  <2>3. /\ bound' \in [Client -> Name \cup {None}]
        /\ \A d \in Client : bound'[d] \in {bound[d], None}
        /\ open' \in SUBSET Name
    BY <1>1, <1>5 DEF IInv, TypeOK
  <2>4. Remembered'
    BY <1>2, <2>3 DEF IInv, Remembered
  <2>5. TypeOK'
    BY <1>2, <1>3, <2>2, <2>3, AnswerTyped DEF IInv, TypeOK
  <2>6. Len(acts'[k]) <= 1 /\ \A i \in DOMAIN acts'[k] : acts'[k][i].as \in chosen'[client[k]]
    BY <1>2, <1>4, <2>2
  <2>7. CallOK(k)' /\ Alone(k)
    BY <1>1, <1>3, <2>2, <2>6, Answered DEF IInv, CallOK
  <2> QED BY <1>2, <2>4, <2>5, <2>7, Assembled
<1>6. CASE UNCHANGED <<open, bound, acts>>
  <2>1. Remembered'
    BY <1>2, <1>6 DEF IInv, Remembered
  <2>2. TypeOK'
    BY <1>2, <1>3, <1>6, AnswerTyped DEF IInv, TypeOK
  <2>3. Len(acts'[k]) <= 1 /\ \A i \in DOMAIN acts'[k] : acts'[k][i].as \in chosen'[client[k]]
    BY <1>1, <1>6
  <2>4. CallOK(k)' /\ Alone(k)
    BY <1>1, <1>3, <1>6, <2>3, Answered DEF IInv, CallOK
  <2> QED BY <1>2, <2>1, <2>2, <2>4, Assembled
<1> QED BY <1>5, <1>6 DEF Close

(* The steps of a call between the daemon's answers. *)
LEMMA TargetPreserves ==
  ASSUME IInv, NEW k \in Call, ResolveTarget(k)
  PROVE  IInv'
<1> USE DEF daemon, history, bounds
<1>1. CallOK(k) /\ acts[k] = <<>> /\ client[k] \in Client
  BY DEF IInv, TypeOK, CallOK, Untried, ResolveTarget
<1>2. UNCHANGED <<open, bound, memory, acts, chosen, wanted, since, client, op, force>> /\ Grows
  BY DEF ResolveTarget, Grows
<1>3. Remembered'
  BY <1>2 DEF IInv, Remembered
<1>4. TypeOK'
  BY <1>1, <1>2, ZenonT(30) DEF IInv, TypeOK, ResolveTarget, Answer, Goto, Mine, Requests
<1>5. Alone(k)
  BY <1>1, <1>2 DEF IInv, TypeOK, Alone, ResolveTarget, Answer, Goto
<1>6. Mine(k) # None => Mine(k) \in chosen[client[k]]
  BY <1>1 DEF IInv, Remembered, Mine
<1>7. CASE Mine(k) # None /\ name' = [name EXCEPT ![k] = Mine(k)] /\ Goto(k, "request")
  <2>1. name'[k] = Mine(k) /\ pc'[k] = "request"
    BY <1>7 DEF Goto, IInv, TypeOK
  <2>2. CallOK(k)'
    BY <1>1, <1>2, <1>6, <1>7, <2>1 DEF CallOK, Untried
  <2> QED BY <1>2, <1>3, <1>4, <1>5, <2>2, Assembled
<1>8. CASE Answer(k, "notBound") /\ UNCHANGED name
  <2>1. pc'[k] = "answer"
    BY <1>8 DEF Answer, Goto, IInv, TypeOK
  <2>2. CallOK(k)'
    BY <1>1, <1>2, <2>1 DEF CallOK, Untried
  <2> QED BY <1>2, <1>3, <1>4, <1>5, <2>2, Assembled
<1> QED BY <1>7, <1>8 DEF ResolveTarget

LEMMA LosePreserves ==
  ASSUME IInv, NEW k \in Call, LoseRequest(k)
  PROVE  IInv'
<1> USE DEF daemon, history, arguments
<1>1. CallOK(k) /\ acts[k] = <<>>
  BY DEF IInv, CallOK, Untried, LoseRequest
<1>2. /\ UNCHANGED <<open, bound, memory, acts, chosen, wanted, since, client, op, name,
                      force, want, tries, restarts>>
      /\ faults' = faults + 1
      /\ pc' = [pc EXCEPT ![k] = "answer"] /\ result' = [result EXCEPT ![k] = "outage"]
      /\ Grows
  BY DEF LoseRequest, Answer, Goto, Grows
<1>3. Remembered'
  BY <1>2 DEF IInv, Remembered
<1>4. TypeOK'
  <2>1. /\ pc' \in [Call -> Requests \cup {"new", "answer", "refused", "learn", "done"}]
        /\ result' \in [Call -> {"none", "ok", "notBound", "error", "outage"}]
    BY <1>2 DEF IInv, TypeOK
  <2>2. faults' \in Nat
    BY <1>2 DEF IInv, TypeOK
  <2> QED BY <1>2, <2>1, <2>2 DEF IInv, TypeOK
<1>5. Alone(k) /\ pc'[k] = "answer"
  BY <1>2 DEF IInv, TypeOK, Alone
<1>6. CallOK(k)'
  BY <1>1, <1>2, <1>5 DEF CallOK, Untried
<1> QED BY <1>2, <1>3, <1>4, <1>5, <1>6, Assembled

LEMMA SettlePreserves ==
  ASSUME IInv, NEW k \in Call, Settle(k)
  PROVE  IInv'
<1> USE DEF daemon, history, arguments, bounds
<1>1. CallOK(k) /\ client[k] \in Client /\ pc[k] = "answer"
  BY DEF IInv, TypeOK, Settle
<1>2. /\ UNCHANGED <<open, bound, memory, acts, chosen, wanted, since, client, op, name,
                      force, tries, result, restarts, faults>>
      /\ Grows
  BY DEF Settle, Grows
<1>3. Remembered'
  BY <1>2 DEF IInv, Remembered
<1>4. CASE /\ Recoverable(k) /\ Goto(k, "reassert")
           /\ want' = [want EXCEPT ![k] = memory[client[k]]]
  <2>1. /\ acts[k] = <<>> /\ client[k] \notin Managed
        /\ memory[client[k]] \in chosen[client[k]] /\ memory[client[k]] \in Name
    BY <1>1, <1>4 DEF IInv, TypeOK, Remembered, CallOK, Untried, Recoverable, Rebinds
  <2>2. pc'[k] = "reassert" /\ want'[k] = memory[client[k]]
    BY <1>4 DEF Goto, IInv, TypeOK
  <2>3. TypeOK'
    BY <1>2, <1>4, <2>1 DEF IInv, TypeOK, Goto, Requests
  <2>4. CallOK(k)'
    BY <1>1, <1>2, <2>1, <2>2 DEF CallOK
  <2>5. Alone(k)
    BY <1>2, <1>4 DEF Alone, Goto, IInv, TypeOK
  <2> QED BY <1>2, <1>3, <2>3, <2>4, <2>5, Assembled
<1>5. CASE UNCHANGED want /\ (Goto(k, "ask") \/ Goto(k, "done"))
  <2>1. pc'[k] \in {"ask", "done"}
    BY <1>5 DEF Goto, IInv, TypeOK
  <2>2. TypeOK'
    BY <1>2, <1>5 DEF IInv, TypeOK, Goto, Requests
  <2>3. CallOK(k)'
    BY <1>1, <1>2, <1>5, <2>1 DEF CallOK, Untried
  <2>4. Alone(k)
    BY <1>2, <1>5 DEF Alone, Goto, IInv, TypeOK
  <2> QED BY <1>2, <1>3, <2>2, <2>3, <2>4, Assembled
<1> QED BY <1>4, <1>5 DEF Settle

LEMMA ReassertPreserves ==
  ASSUME IInv, NEW k \in Call, Reassert(k)
  PROVE  IInv'
<1> USE DEF history, arguments, bounds
<1>1. /\ CallOK(k) /\ client[k] \in Client /\ pc[k] = "reassert"
      /\ acts[k] = <<>> /\ client[k] \notin Managed /\ want[k] \in chosen[client[k]]
  BY DEF IInv, TypeOK, Reassert, CallOK, Untried
<1>2. /\ UNCHANGED <<open, memory, acts, chosen, wanted, since, client, op, name, force,
                      want, result, restarts>>
      /\ Grows /\ faults' \in Nat
  <2>1. UNCHANGED <<open, memory, acts, chosen, wanted, since, client, op, name, force,
                    want, result, restarts>>
    BY DEF Reassert, Retry, Refused
  <2>2. faults' \in {faults, faults + 1} /\ faults \in Nat
    BY DEF Reassert, IInv, TypeOK
  <2> QED BY <2>1, <2>2 DEF Grows
<1>3. want[k] \in Name
  BY <1>1 DEF IInv, TypeOK
<1>4. Remembered' /\ bound' \in [Client -> Name \cup {None}]
  <2>1. CASE bound' = Bound(client[k], want[k])
    <3>1. /\ bound' \in [Client -> Name \cup {None}]
          /\ \A c \in Client : bound'[c] \in {bound[c], None}
                               \/ (c = client[k] /\ bound'[c] = want[k])
      BY <1>1, <1>3, <2>1, Binding DEF IInv
    <3> QED BY <1>1, <1>2, <3>1 DEF IInv, Remembered
  <2>2. CASE UNCHANGED bound
    BY <1>2, <2>2 DEF IInv, Remembered, TypeOK
  <2> QED BY <2>1, <2>2 DEF Reassert
<1>5. CASE Retry(k)
  <2>1. pc'[k] = FirstRequest(op[k]) /\ pc'[k] \in {"target", "request"}
    BY <1>5 DEF Retry, Goto, FirstRequest, IInv, TypeOK
  <2>2. TypeOK'
    BY <1>2, <1>4, <1>5 DEF IInv, TypeOK, Retry, Goto, FirstRequest, Requests
  <2>3. CallOK(k)'
    BY <1>1, <1>2, <2>1 DEF CallOK, FirstRequest
  <2>4. Alone(k)
    BY <1>2, <1>5 DEF Alone, Retry, Goto, IInv, TypeOK
  <2> QED BY <1>2, <1>4, <2>2, <2>3, <2>4, Assembled
<1>6. CASE Refused(k)
  <2>1. pc'[k] = "refused"
    BY <1>6 DEF Refused, Goto, IInv, TypeOK
  <2>2. TypeOK'
    BY <1>2, <1>4, <1>6 DEF IInv, TypeOK, Refused, Goto
  <2>3. CallOK(k)'
    BY <1>1, <1>2, <2>1 DEF CallOK
  <2>4. Alone(k)
    BY <1>2, <1>6 DEF Alone, Refused, Goto, IInv, TypeOK
  <2> QED BY <1>2, <1>4, <2>2, <2>3, <2>4, Assembled
<1> QED BY <1>5, <1>6 DEF Reassert

LEMMA ForgetPreserves ==
  ASSUME IInv, NEW k \in Call, Forget(k)
  PROVE  IInv'
<1> USE DEF daemon, history, arguments, bounds
<1>1. /\ UNCHANGED <<open, bound, acts, chosen, wanted, since, client, op, name, force,
                      want, tries, result, restarts, faults>>
      /\ pc' = [pc EXCEPT ![k] = "done"]
      /\ memory' = [memory EXCEPT ![client[k]] = None]
      /\ Grows
  BY DEF Forget, Goto, Grows
<1>2. TypeOK'
  BY <1>1 DEF IInv, TypeOK
<1>3. Remembered'
  BY <1>1 DEF IInv, TypeOK, Remembered
<1>4. Alone(k) /\ pc'[k] = "done"
  BY <1>1 DEF Alone, IInv, TypeOK
<1>5. CallOK(k)'
  BY <1>1, <1>4 DEF IInv, CallOK, Untried
<1> QED BY <1>1, <1>2, <1>3, <1>4, <1>5, Assembled

LEMMA AskPreserves ==
  ASSUME IInv, NEW k \in Call, Ask(k)
  PROVE  IInv'
<1> USE DEF daemon, history, arguments, bounds
<1>1. CallOK(k) /\ client[k] \in Client
  BY DEF IInv, TypeOK
<1>2. /\ UNCHANGED <<open, bound, memory, acts, chosen, wanted, since, client, op, name,
                      force, tries, result, restarts, faults>>
      /\ Grows
  BY DEF Ask, Grows
<1>3. Remembered'
  BY <1>2 DEF IInv, Remembered
<1>4. TypeOK' /\ Alone(k)
  BY <1>1, <1>2 DEF IInv, TypeOK, Ask, Goto, Mine, Alone
<1>5. CASE Mine(k) # None /\ want' = [want EXCEPT ![k] = Mine(k)] /\ Goto(k, "learn")
  <2>1. Mine(k) \in chosen[client[k]] /\ want'[k] = Mine(k) /\ pc'[k] = "learn"
    BY <1>1, <1>5 DEF IInv, TypeOK, Remembered, Mine, Goto
  <2> QED BY <1>1, <1>2, <1>3, <1>4, <2>1, Assembled DEF CallOK, Untried
<1>6. CASE Goto(k, "done") /\ UNCHANGED want
  <2>1. pc'[k] = "done"
    BY <1>6 DEF IInv, TypeOK, Goto
  <2> QED BY <1>1, <1>2, <1>3, <1>4, <2>1, Assembled DEF CallOK, Untried
<1> QED BY <1>5, <1>6 DEF Ask

LEMMA LearnPreserves ==
  ASSUME IInv, NEW k \in Call, Learn(k)
  PROVE  IInv'
<1> USE DEF daemon, history, arguments, bounds
<1>1. /\ UNCHANGED <<open, bound, acts, chosen, wanted, since, client, op, name, force,
                      want, tries, result, restarts, faults>>
      /\ pc' = [pc EXCEPT ![k] = "done"]
      /\ memory' = [memory EXCEPT ![client[k]] = want[k]]
      /\ Grows
  BY DEF Learn, Goto, Grows
<1>2. want[k] \in chosen[client[k]] /\ client[k] \in Client
  BY DEF IInv, TypeOK, CallOK, Learn
<1>3. TypeOK'
  BY <1>1 DEF IInv, TypeOK
<1>4. Remembered'
  BY <1>1, <1>2 DEF IInv, TypeOK, Remembered
<1>5. Alone(k) /\ pc'[k] = "done"
  BY <1>1 DEF Alone, IInv, TypeOK
<1>6. CallOK(k)'
  BY <1>1, <1>5 DEF IInv, CallOK, Untried
<1> QED BY <1>1, <1>3, <1>4, <1>5, <1>6, Assembled

(* A call begins; before that it has done nothing. *)
LEMMA BeginPreserves ==
  ASSUME IInv, NEW w \in Workload, Begin(w)
  PROVE  IInv'
<1> USE DEF daemon, bounds
<1> DEFINE k == w.call
<1>1. /\ w.call \in Call /\ w.client \in Client /\ w.op \in Ops
      /\ w.name \in Name \cup {None} /\ w.force \in BOOLEAN
  BY WorkloadAssumption DEF Ops
<1>2. acts[k] = <<>>
  BY <1>1 DEF IInv, CallOK, Untried, Begin
<1>3. /\ UNCHANGED <<open, bound, memory, acts, chosen, wanted, want, tries, result,
                      restarts, faults>>
      /\ Grows
  BY DEF Begin, Grows
<1>4. Remembered'
  BY <1>3 DEF IInv, Remembered
<1>5. TypeOK'
  BY <1>1, <1>3 DEF IInv, TypeOK, Begin, Goto, FirstRequest, Requests
<1>6. Alone(k)
  BY <1>1, <1>3 DEF IInv, TypeOK, Alone, Begin, Goto
<1>7. /\ client'[k] = w.client /\ op'[k] = w.op /\ pc'[k] = FirstRequest(w.op)
  BY <1>1 DEF IInv, TypeOK, Begin, Goto
<1>8. w.client \in Managed => w.op = "act"
  BY DEF Begin, Offered
<1>9. CallOK(k)'
  BY <1>2, <1>3, <1>7, <1>8 DEF CallOK, FirstRequest
<1> QED BY <1>1, <1>3, <1>4, <1>5, <1>6, <1>9, Assembled

(* What the environment does to bindings. *)
LEMMA RestartPreserves ==
  ASSUME IInv, Restart
  PROVE  IInv'
<1> USE DEF history, arguments, progress
<1>1. /\ UNCHANGED <<open, memory, acts, chosen, wanted, since, client, op, name, force,
                      pc, want, tries, result, faults>>
      /\ bound' = [c \in Client |-> None]
      /\ restarts' = restarts + 1
      /\ Grows
  BY DEF Restart, Grows
<1>2. TypeOK'
  <2>1. bound' \in [Client -> Name \cup {None}]
    BY <1>1
  <2>2. restarts' \in Nat
    BY <1>1 DEF IInv, TypeOK
  <2> QED BY <1>1, <2>1, <2>2 DEF IInv, TypeOK
<1>3. Remembered'
  BY <1>1 DEF IInv, Remembered
<1>4. ASSUME NEW k \in Call PROVE CallOK(k)'
  BY <1>1, Undisturbed DEF IInv
<1> QED BY <1>2, <1>3, <1>4 DEF IInv

LEMMA SupervisorPreserves ==
  ASSUME IInv, NEW c \in Managed, NEW n \in Name, SupervisorBind(c, n)
  PROVE  IInv'
<1> USE DEF arguments, progress, bounds
<1>1. c \in Client
  BY ManagedAssumption
<1>2. UNCHANGED <<open, memory, acts, since, client, op, name, force, pc, want, tries,
                  result, restarts, faults>>
  BY DEF SupervisorBind
<1>3. /\ bound' \in [Client -> Name \cup {None}]
      /\ bound'[c] = n
      /\ \A d \in Client \ {c} : bound'[d] \in {bound[d], None}
  BY <1>1, Binding DEF SupervisorBind, IInv
<1>4. /\ chosen' \in [Client -> SUBSET Name] /\ wanted' \in [Client -> Name \cup {None}]
      /\ chosen'[c] = chosen[c] \cup {n}
      /\ \A d \in Client \ {c} : chosen'[d] = chosen[d]
  BY <1>1 DEF SupervisorBind, IInv, TypeOK
<1>5. Grows
  BY <1>4 DEF Grows
<1>6. TypeOK'
  BY <1>2, <1>3, <1>4 DEF IInv, TypeOK
<1>7. Remembered'
  BY <1>2, <1>3, <1>4 DEF IInv, Remembered
<1>8. ASSUME NEW k \in Call PROVE CallOK(k)'
  BY <1>2, <1>5, Undisturbed DEF IInv
<1> QED BY <1>6, <1>7, <1>8 DEF IInv

(* Nothing has happened yet, and the bindings found are taken as chosen. *)
LEMMA Initially == Init => IInv
<1> SUFFICES ASSUME Init PROVE IInv
  OBVIOUS
<1>1. (CHOOSE c \in Client : TRUE) \in Client \/ Client = {}
  OBVIOUS
<1>2. TypeOK
  <2>1. client \in [Call -> Client]
    BY ClientAssumption, <1>1 DEF Init
  <2>2. acts \in [Call -> Seq([as : Name, meant : BOOLEAN])]
    BY DEF Init
  <2>3. chosen \in [Client -> SUBSET Name]
    BY DEF Init
  <2> QED BY <2>1, <2>2, <2>3 DEF Init, TypeOK, Ops
<1>3. Remembered
  BY DEF Init, Remembered
<1>4. ASSUME NEW k \in Call PROVE CallOK(k)
  <2>1. acts[k] = <<>> /\ pc[k] = "new" /\ op[k] = "act"
    BY DEF Init
  <2> QED BY <2>1 DEF CallOK
<1> QED BY <1>2, <1>3, <1>4 DEF IInv

(* Every step keeps the invariant. *)
LEMMA Inductive == IInv /\ [Next]_vars => IInv'
<1> SUFFICES ASSUME IInv, [Next]_vars PROVE IInv'
  OBVIOUS
<1>1. ASSUME NEW k \in Call, Step(k) PROVE IInv'
  <2>1. CASE Serve(k)
    BY <2>1, ActPreserves, ChoosePreserves, ClosePreserves DEF Serve
  <2> QED BY <1>1, <2>1, TargetPreserves, LosePreserves, SettlePreserves, ReassertPreserves,
             ForgetPreserves, AskPreserves, LearnPreserves DEF Step
<1>2. ASSUME NEW w \in Workload, Begin(w) PROVE IInv'
  BY <1>2, BeginPreserves
<1>3. CASE Restart
  BY <1>3, RestartPreserves
<1>4. ASSUME NEW c \in Managed, NEW n \in Name, SupervisorBind(c, n) PROVE IInv'
  BY <1>4, SupervisorPreserves
<1>5. CASE UNCHANGED vars
  BY <1>5 DEF vars, daemon, history, arguments, progress, bounds, IInv, TypeOK, Remembered,
              CallOK, Untried
<1> QED BY <1>1, <1>2, <1>3, <1>4, <1>5 DEF Next

(* The invariant holds in every behaviour of the connector. *)
THEOREM Invariance == Spec => []IInv
BY Initially, Inductive, PTL DEF Spec

(* All variables keep their types. *)
THEOREM TypeCorrect == Spec => []TypeOK
<1>1. IInv => TypeOK
  BY DEF IInv
<1> QED BY <1>1, Invariance, PTL

(* runTool's retry repeats no effect: a call that is retried did nothing. *)
THEOREM OneEffect == Spec => []AtMostOnce
<1>1. IInv => AtMostOnce
  BY DEF IInv, CallOK, AtMostOnce
<1> QED BY <1>1, Invariance, PTL

(* runTool acts as, closes and remembers only what the session was bound   *)
(* to by its user or its supervisor.                                       *)
THEOREM ActsAsChosen == Spec => []OnlyChosen
<1>1. IInv => OnlyChosen
  BY DEF IInv, CallOK, OnlyChosen, Remembered
<1> QED BY <1>1, Invariance, PTL

(* Whoever loses its binding in a step lost it to a restart, to its own    *)
(* session or to a forced choice.                                          *)
LEMMA Evictions ==
  ASSUME IInv, Next, NEW c \in Client, bound[c] # None, bound'[c] = None
  PROVE  restarts' # restarts \/ Closes(c) \/ Evicts(c)
<1>1. ASSUME NEW k \in Call, pc[k] = "request", Act(k) \/ Choose(k) \/ Close(k)
      PROVE  Closes(c) \/ Evicts(c)
  <2>1. pc'[k] # pc[k]
    <3>1. PICK r \in {"ok", "notBound", "error", "outage"} : AnswerOrLose(k, r)
      BY <1>1 DEF Act, Choose, Close
    <3>2. pc' = [pc EXCEPT ![k] = "answer"]
      BY <3>1, Answering DEF IInv
    <3> QED BY <1>1, <3>2 DEF IInv, TypeOK
  <2>2. CASE Act(k)
    BY <2>2 DEF Act, daemon
  <2>3. CASE Choose(k)
    <3>1. MayBind(client[k], name[k], force[k]) /\ bound' = Bound(client[k], name[k])
      BY <2>3 DEF Choose
    <3>2. name[k] \in Name /\ name[k] # None
      BY <3>1, NoneAssumption DEF MayBind, IInv, TypeOK
    <3>3. c # client[k] /\ bound[c] = name[k]
      BY <3>1, <3>2 DEF Bound
    <3>4. force[k]
      BY <3>1, <3>3 DEF MayBind, HeldElsewhere
    <3> QED BY <1>1, <2>1, <2>3, <3>3, <3>4 DEF Evicts, Choose
  <2>4. CASE Close(k)
    <3>1. c = client[k]
      BY <2>4 DEF Close, daemon, IInv, TypeOK
    <3> QED BY <1>1, <2>1, <2>4, <3>1 DEF Closes, Close
  <2> QED BY <1>1, <2>2, <2>3, <2>4
<1>2. ASSUME NEW k \in Call, Reassert(k) PROVE FALSE
  <2>1. CASE UNCHANGED bound
    BY <2>1
  <2>2. CASE MayBind(client[k], want[k], FALSE) /\ bound' = Bound(client[k], want[k])
    BY <2>2, NoneAssumption DEF MayBind, HeldElsewhere, Bound, IInv, TypeOK
  <2> QED BY <1>2, <2>1, <2>2 DEF Reassert
<1>3. CASE Restart
  BY <1>3 DEF Restart, IInv, TypeOK
<1>4. ASSUME NEW d \in Managed, NEW n \in Name, SupervisorBind(d, n) PROVE FALSE
  BY <1>4, NoneAssumption DEF SupervisorBind, MayBind, HeldElsewhere, Bound
<1>5. CASE UNCHANGED bound
  BY <1>5
<1> QED BY <1>1, <1>2, <1>3, <1>4, <1>5 DEF Next, Step, Serve, Begin, ResolveTarget,
           LoseRequest, Settle, Forget, Ask, Learn, daemon

(* The silent rebind takes no identity from another session: bindings are  *)
(* lost to restarts, to their own session and to forced choices only.      *)
THEOREM NothingTaken == Spec => EvictionIsForced
<1>1. IInv /\ [Next]_vars => [\A c \in Client :
         bound[c] # None /\ bound'[c] = None =>
             restarts' # restarts \/ Closes(c) \/ Evicts(c)]_vars
  BY Evictions
<1> QED BY <1>1, Invariance, PTL DEF Spec, EvictionIsForced

(* A tool call never binds a managed client. *)
LEMMA ManagedBindings ==
  ASSUME IInv, Next, NEW c \in Managed, bound'[c] \notin {bound[c], None}
  PROVE  UNCHANGED pc
<1>1. c \in Client
  BY ManagedAssumption
<1>2. ASSUME NEW k \in Call, pc[k] = "request", Act(k) \/ Choose(k) \/ Close(k)
      PROVE  FALSE
  <2>1. CASE Act(k)
    BY <2>1 DEF Act, daemon
  <2>2. CASE Choose(k)
    <3>1. client[k] # c
      BY <2>2 DEF Choose, IInv, CallOK
    <3> QED BY <1>1, <2>2, <3>1 DEF Choose, Bound
  <2>3. CASE Close(k)
    BY <1>1, <2>3 DEF Close, daemon, IInv, TypeOK
  <2> QED BY <1>2, <2>1, <2>2, <2>3
<1>3. ASSUME NEW k \in Call, Reassert(k) PROVE FALSE
  <2>1. client[k] # c
    BY <1>3 DEF Reassert, IInv, CallOK
  <2> QED BY <1>1, <1>3, <2>1 DEF Reassert, Bound
<1>4. CASE Restart
  BY <1>1, <1>4 DEF Restart
<1>5. ASSUME NEW d \in Managed, NEW n \in Name, SupervisorBind(d, n) PROVE UNCHANGED pc
  BY <1>5 DEF SupervisorBind, progress
<1>6. CASE UNCHANGED bound
  BY <1>6
<1> QED BY <1>2, <1>3, <1>4, <1>5, <1>6 DEF Next, Step, Serve, Begin, ResolveTarget,
           LoseRequest, Settle, Forget, Ask, Learn, daemon

(* runTool leaves the binding of a managed client to its supervisor.       *)
THEOREM ManagedAlone == Spec => ManagedIsLeftAlone
<1>1. IInv /\ [Next]_vars => [\A c \in Managed :
         bound'[c] \notin {bound[c], None} => UNCHANGED pc]_vars
  BY ManagedBindings
<1> QED BY <1>1, Invariance, PTL DEF Spec, ManagedIsLeftAlone
==============================================================================
