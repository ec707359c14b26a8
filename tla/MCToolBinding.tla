----------------------------- MODULE MCToolBinding -----------------------------
(* Instances of ToolBinding for TLC.                                       *)
EXTENDS ToolBinding, TLC

CONSTANTS u, v, m, a, b, k1, k2, k3

Acts(K, c) == [call : K, client : {c}, op : {"act"}, name : {None}, force : {FALSE}]
Closings(K, c) == [call : K, client : {c}, op : {"close"}, name : {None}, force : {FALSE}]
Choices(K, c, N, F) == [call : K, client : {c}, op : {"choose"}, name : N, force : F]

(* Two calls of u in any order, one may switch identities, against one     *)
(* call of v, who wants u's identity, or calls of the managed client m.    *)
Rivals == Acts({k2}, u) \cup Closings({k1}, u) \cup Choices({k2}, u, {b}, {FALSE})
          \cup Choices({k3}, v, {a}, {TRUE}) \cup Acts({k1, k3}, m)

(* One session that acts and switches. *)
Switching == Acts({k1, k2}, u) \cup Choices({k3}, u, {b}, {FALSE})

SupervisesB == m :> {b}
NobodySupervised == <<>>
==============================================================================
