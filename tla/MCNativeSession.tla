-------------------------- MODULE MCNativeSession --------------------------
(* Instances of NativeSession for TLC.                                     *)
EXTENDS NativeSession, TLC

CONSTANTS c1, c2, c3, c4, p1, p2, k1, k2

(* Two calls may run in p1, one in p2. *)
TwoAndOne == (c1 :> p1) @@ (c2 :> p1) @@ (c3 :> p2)

(* Two calls may run in each process. *)
TwoAndTwo == (c1 :> p1) @@ (c2 :> p1) @@ (c3 :> p2) @@ (c4 :> p2)

(* Every slot may make every call. *)
AnyCall == Call \X Key \X {"client", "end"}

(* Each process works on both records, in one slot each. *)
Crossed == ({c1, c3} \X {k1} \X {"client", "end"}) \cup ({c2, c4} \X {k2} \X {"client"})

(* UUIDs are interchangeable. *)
OwnerSymmetry == Permutations(Owner)
==============================================================================
