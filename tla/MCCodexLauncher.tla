---------------------------- MODULE MCCodexLauncher ----------------------------
(* Instances of CodexLauncher for TLC.                                     *)
EXTENDS CodexLauncher
CONSTANTS c1, c2, i1, t1, t2
==============================================================================
