------------------------------ MODULE Rollout ------------------------------
(***************************************************************************)
(* What the health gate promises about the releases on the manifest branch *)
(* while rollback is on: they are tried one at a time.                     *)
(*                                                                         *)
(* A new tag is put on the branch only when none is on trial, and never    *)
(* one that was rejected since a trial last succeeded.  A trial ends in    *)
(* one of four ways.  Accepted, it clears the record of rejections;        *)
(* abandoned, because ArgoCD never looked at it, it changes nothing;       *)
(* rejected, it gives way to the tag that was on the branch before it, or  *)
(* stays there when there was none.                                        *)
(***************************************************************************)

CONSTANTS
  Tags,       \* what may be published
  NoTag       \* no tag

VARIABLES
  on,         \* the tag on the branch
  before,     \* the one it took the place of
  trial,      \* the tag on trial
  rejected    \* the tags not to be tried again

vars == <<trial, before, rejected, on>>

Init == on = NoTag /\ before = NoTag /\ trial = NoTag /\ rejected = {}

Try ==
  /\ trial = NoTag /\ trial' \in Tags
  /\ trial' # on /\ trial' \notin rejected
  /\ on' = trial' /\ before' = on
  /\ UNCHANGED rejected

Accept == rejected' = {} /\ UNCHANGED on

Abandon == UNCHANGED <<on, rejected>>

\* Rejected: what it replaced is back, in the same step of the branch.
RollBack ==
  /\ before # NoTag /\ on' = before
  /\ rejected' = rejected \cup {trial}

\* Rejected, with nothing to go back to.
Keep ==
  /\ before = NoTag /\ UNCHANGED on
  /\ rejected' = rejected \cup {trial}

End ==
  /\ trial # NoTag /\ trial' = NoTag
  /\ Accept \/ Abandon \/ RollBack \/ Keep
  /\ UNCHANGED before

Next == Try \/ End

Spec == Init /\ [][Next]_vars
=============================================================================
