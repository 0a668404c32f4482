---------------------------- MODULE MCWriteback -----------------------------
(* Instances of Writeback for TLC.                                         *)
EXTENDS Writeback, TLC

CONSTANTS w1, w2, v1, v2

TwoWriters == {w1, w2}
OneWriter == {w1}
TwoValues == {v1, v2}

AnyConflictError == {NonFastForward, Unrecognised}
VendoredConflictError == {Unrecognised}

AnyFailure == {"clone", "edit", "push", "reply"}
NoFailure == {}

=============================================================================
