----------------------------- MODULE MCCodexWatcher -----------------------------
(* Instances of CodexWatcher for TLC.                                      *)
EXTENDS CodexWatcher
CONSTANTS l1, l2, w1, w2

(* One start, two arrivals, a turn of the user, a failure.                 *)
Polls == [arrivals |-> 2, starts |-> 1, stops |-> 0, turns |-> 1, failures |-> 1]

(* The watcher is started again, or stopped and started, while a poll or a *)
(* wake is under way.                                                      *)
Restarts == [arrivals |-> 1, starts |-> 2, stops |-> 1, turns |-> 0, failures |-> 0]

MCBounds == {Polls, Restarts}
==============================================================================
