---------------------------- MODULE MCMonitorSession ----------------------------
(* Instances of MonitorSession for TLC.                                    *)
EXTENDS MonitorSession

CONSTANTS a, b, t
==============================================================================
