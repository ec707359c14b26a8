-------------------------- MODULE MCConnectorClients --------------------------
(* Instances of ConnectorClients for TLC.                                  *)
EXTENDS ConnectorClients, TLC
CONSTANTS s1, s2, c1, c2, c3, k1, k2, v1, v2, i1, i2

(* A new session or one that goes on, beside one that goes on.            *)
MCOwners == {s1 :> Null @@ s2 :> c2, s1 :> c1 @@ s2 :> c2}

(* Two calls, of one session or of two; they may overlap.                  *)
MCWorkload == [call : {k1}, session : {s1}, tool : {Work, i2}]
                  \cup [call : {k2}, session : {s1, s2}, tool : {Work}]
==============================================================================
