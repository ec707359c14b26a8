--------------------------- MODULE OwnerLifecycle ---------------------------
(***************************************************************************)
(* What the native-session component promises about owners, with no        *)
(* process, no lock and no failure in sight.  A selector (the record path  *)
(* of one native Codex or Claude session) has at most one owner UUID at a  *)
(* time; the owner goes active -> pending -> ended; the daemon drops its   *)
(* lease only after the terminal intent is recorded; the end is recorded   *)
(* only once the lease is gone; and a successor is a new UUID, issued only *)
(* to a selector with no owner or with an ended one.                       *)
(***************************************************************************)
CONSTANTS
    Key,        \* selectors, i.e. record paths
    Owner,      \* owner UUIDs
    NoOwner     \* the owner of a selector that never had one

VARIABLES
    record,     \* record[k]: the owner of selector k and its state
    lease,      \* the owners the daemon holds a lease for
    issued      \* issued[k]: the owners ever allocated to selector k

vars == <<record, lease, issued>>

Init ==
    /\ record = [k \in Key |-> [owner |-> NoOwner, state |-> "none"]]
    /\ lease = {}
    /\ issued = [k \in Key |-> {}]

(* The selector gets an owner no selector ever had. *)
Allocate(k) ==
    /\ record[k].state \in {"none", "ended"}
    /\ \E o \in Owner :
          /\ \A l \in Key : o \notin issued[l]
          /\ record' = [record EXCEPT ![k] = [owner |-> o, state |-> "active"]]
          /\ issued' = [issued EXCEPT ![k] = @ \cup {o}]
    /\ UNCHANGED lease

(* A client attaches under the current owner's lease. *)
Attach(k) ==
    /\ record[k].state \in {"active", "pending"}
    /\ lease' = lease \cup {record[k].owner}
    /\ UNCHANGED <<record, issued>>

(* The terminal intent is recorded. *)
Intend(k) ==
    /\ record[k].state = "active"
    /\ record' = [record EXCEPT ![k].state = "pending"]
    /\ UNCHANGED <<lease, issued>>

(* The daemon drops the lease of an owner whose end is intended. *)
Release(k) ==
    /\ record[k].state = "pending"
    /\ lease' = lease \ {record[k].owner}
    /\ UNCHANGED <<record, issued>>

(* The end is recorded. *)
End(k) ==
    /\ record[k].state = "pending"
    /\ record[k].owner \notin lease
    /\ record' = [record EXCEPT ![k].state = "ended"]
    /\ UNCHANGED <<lease, issued>>

Next ==
    \E k \in Key : Allocate(k) \/ Attach(k) \/ Intend(k) \/ Release(k) \/ End(k)

Spec == Init /\ [][Next]_vars
=============================================================================
