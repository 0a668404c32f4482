------------------------------ MODULE OwnedDir ------------------------------
(***************************************************************************)
(* What the clone directories promise to the processes of a host: a root   *)
(* with one owner.                                                         *)
(*                                                                         *)
(* A process becomes the owner of a root in which nothing is left, and has *)
(* it to itself until it leaves.  It works in one clone at a time, a clone *)
(* in use goes away only by its owner's hand, and an owner leaves behind   *)
(* at most the clone it was in and those it failed to remove itself.  What *)
(* is left is removed while there is no owner.                             *)
(***************************************************************************)
CONSTANTS Procs, Names, None

VARIABLES
  owner,      \* the process that has the root
  clone,      \* the clone it is working in
  left        \* the clones nobody is working in

vars == <<owner, clone, left>>

Init == owner = None /\ clone = None /\ left \in SUBSET Names

Remove(n) ==
  /\ owner = None /\ n \in left
  /\ left' = left \ {n}
  /\ UNCHANGED <<owner, clone>>

Take(p) ==
  /\ owner = None /\ left = {}
  /\ owner' = p
  /\ UNCHANGED <<clone, left>>

Use(n) ==
  /\ owner # None /\ clone = None /\ n \notin left
  /\ clone' = n
  /\ UNCHANGED <<owner, left>>

Return ==
  /\ clone # None /\ clone' = None
  /\ left' \in {left, left \cup {clone}}
  /\ UNCHANGED owner

Leave ==
  /\ owner # None /\ owner' = None /\ clone' = None
  /\ left' = left \cup ({clone} \ {None})

Next ==
  \/ Return \/ Leave
  \/ \E p \in Procs : Take(p)
  \/ \E n \in Names : Remove(n) \/ Use(n)

Spec == Init /\ [][Next]_vars
=============================================================================
