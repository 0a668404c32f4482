----------------------------- MODULE MCProgress -----------------------------
(* Instances of Progress for TLC.                                          *)
EXTENDS Progress

CONSTANTS u1, u2

\* The interval of one updater is edited, the other's is not.
MCIntervals == [u \in Updaters |-> IF u = u1 THEN {1, 3} ELSE {1}]
=============================================================================
