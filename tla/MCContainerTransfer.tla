-------------------------- MODULE MCContainerTransfer --------------------------
(* Instances of ContainerTransfer for TLC.                                 *)
EXTENDS ContainerTransfer
CONSTANTS r1, r2

(* Two calls of any two tools.                                             *)
AnyTwo == [Request -> {"send", "save", "get"}]
==============================================================================
