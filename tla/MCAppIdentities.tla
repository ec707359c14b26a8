---------------------------- MODULE MCAppIdentities ----------------------------
(* Instances of AppIdentities for TLC.                                     *)
EXTENDS AppIdentities

CONSTANTS n1, n2, n3, k1, k2

Calls(K, O, N) == [call : K, op : O, name : N]

(* Any two tools at once, on one name, on two, or on a generated one       *)
(* (which no other call knows).                                            *)
AnyTwo == Calls({k1}, Ops \ {"generate"}, {n1, n2})
          \cup Calls({k2}, Ops \ {"generate"}, {n1}) \cup Calls({k2}, {"generate"}, {n3})

(* Two adoptions of different identities. *)
TwoAdoptions == Calls({k1}, {"create"}, {n1}) \cup Calls({k2}, {"create"}, {n2})
==============================================================================
