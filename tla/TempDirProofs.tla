---------------------------- MODULE TempDirProofs ----------------------------
(***************************************************************************)
(* Proofs about TempDir: any number of processes and of names.             *)
(*                                                                         *)
(* The argument is mutual exclusion.  A process holds the lock at exactly  *)
(* the steps of Holding, so at most one process is at such a step, and     *)
(* only there are entries made or removed.  During its clean-up no other   *)
(* process has a clone, and every entry not yet looked at is in todo; when *)
(* todo is empty nothing of an earlier life is left.                       *)
(***************************************************************************)
EXTENDS TempDir, TLAPS

\* The lock and the steps that hold it are the same thing.
Exclusion == \A p \in Procs : lock = p <=> pc[p] \in Holding

\* Clones belong to the running process, todo covers the entries of a clean-up.
Clones ==
  \A p \in Procs :
    /\ using[p] # None => pc[p] = "run" /\ using[p] \in dir
    /\ made[p] # {} => pc[p] \in {"run", "stopped"}
    /\ pc[p] = "clean" => dir \ Strangers \subseteq todo[p]
    /\ pc[p] \in {"run", "stopped"} => dir \ Strangers \subseteq made[p]

IInv == TypeOK /\ Exclusion /\ Clones

LEMMA InitIInv == Init => IInv
<1> SUFFICES ASSUME Init PROVE IInv
  OBVIOUS
<1>1. TypeOK
  BY NamesAssumption, ProcsAssumption, FaultsAssumption DEF Init, TypeOK, Holding
<1>2. Exclusion
  BY ProcsAssumption DEF Init, Exclusion, Holding
<1>3. Clones
  BY DEF Init, Clones
<1> QED
  BY <1>1, <1>2, <1>3 DEF IInv

\* At most one process is at a step that holds the lock.
LEMMA OneHolder ==
  ASSUME IInv, NEW p \in Procs, NEW q \in Procs, pc[p] \in Holding, pc[q] \in Holding
  PROVE  p = q
  BY DEF IInv, Exclusion

\* Exiting is safe wherever the process is: it gives up lock and clones.
LEMMA ExitKeeps ==
  ASSUME IInv, NEW p \in Procs, Exit(p), dir' = dir, faults' \in 0..MaxFaults
  PROVE  IInv'
<1>1. TypeOK'
  BY ProcsAssumption DEF IInv, TypeOK, Exit, Goto, Holding, Exclusion
<1>2. Exclusion'
  BY ProcsAssumption DEF IInv, TypeOK, Exit, Goto, Holding, Exclusion
<1>3. Clones'
  BY DEF IInv, TypeOK, Exit, Goto, Clones
<1> QED
  BY <1>1, <1>2, <1>3 DEF IInv

LEMMA NextIInv == IInv /\ [Next]_vars => IInv'
<1> SUFFICES ASSUME IInv, [Next]_vars PROVE IInv'
  OBVIOUS
<1>0. TypeOK /\ Exclusion /\ Clones
  BY DEF IInv
<1>u. CASE UNCHANGED vars
  BY <1>u DEF vars, IInv, TypeOK, Exclusion, Clones
<1>s. ASSUME NEW p \in Procs, Step(p) PROVE IInv'
  <2>f. Fault => faults' \in 0..MaxFaults
    BY <1>0, FaultsAssumption DEF Fault, TypeOK
  <2>1. CASE Launch(p)
    <3>1. TypeOK'
      BY <1>0, <2>1 DEF Launch, Goto, TypeOK, Holding, Exclusion
    <3>2. Exclusion'
      BY <1>0, <2>1 DEF Launch, Goto, TypeOK, Holding, Exclusion
    <3>3. Clones'
      BY <1>0, <2>1 DEF Launch, Goto, TypeOK, Clones
    <3> QED
      BY <3>1, <3>2, <3>3 DEF IInv
  <2>2. CASE Lock(p)
    <3>1. TypeOK'
      BY <1>0, <2>2 DEF Lock, Goto, TypeOK, Holding
    <3>2. Exclusion'
      BY <1>0, <2>2, ProcsAssumption DEF Lock, Goto, TypeOK, Holding, Exclusion
    <3>3. Clones'
      BY <1>0, <2>2 DEF Lock, Goto, TypeOK, Clones
    <3> QED
      BY <3>1, <3>2, <3>3 DEF IInv
  <2>3. CASE LockBusy(p)
    BY <1>0, <2>3, ExitKeeps DEF LockBusy, TypeOK
  <2>4. CASE List(p)
    <3>1. TypeOK'
      BY <1>0, <2>4 DEF List, Goto, TypeOK, Holding
    <3>2. Exclusion'
      BY <1>0, <2>4 DEF List, Goto, TypeOK, Holding, Exclusion
    <3>3. Clones'
      BY <1>0, <2>4 DEF List, Goto, TypeOK, Clones
    <3> QED
      BY <3>1, <3>2, <3>3 DEF IInv
  <2>5. CASE Clean(p)
    <3>0. \A q \in Procs : q # p => using[q] = None /\ pc[q] \notin Holding
      BY <1>0, <2>5, OneHolder DEF Clean, Clones, Holding
    <3>1. TypeOK'
      BY <1>0, <2>5 DEF Clean, TypeOK, Holding
    <3>2. Exclusion'
      BY <1>0, <2>5 DEF Clean, Exclusion
    <3>3. Clones'
      BY <1>0, <2>5, <3>0 DEF Clean, TypeOK, Clones, Holding
    <3> QED
      BY <3>1, <3>2, <3>3 DEF IInv
  <2>6. CASE Cleaned(p)
    <3>1. TypeOK'
      BY <1>0, <2>6 DEF Cleaned, Goto, TypeOK, Holding
    <3>2. Exclusion'
      BY <1>0, <2>6 DEF Cleaned, Goto, TypeOK, Holding, Exclusion
    <3>3. Clones'
      BY <1>0, <2>6 DEF Cleaned, Goto, TypeOK, Clones
    <3> QED
      BY <3>1, <3>2, <3>3 DEF IInv
  <2>7. CASE CleanFails(p)
    BY <2>f, <2>7, ExitKeeps DEF CleanFails
  <2>8. CASE NewClone(p)
    <3>0. \A q \in Procs : q # p => using[q] = None /\ pc[q] \notin Holding
      BY <1>0, <2>8, OneHolder DEF NewClone, Clones, Holding
    <3>1. TypeOK'
      BY <1>0, <2>8 DEF NewClone, TypeOK, Holding
    <3>2. Exclusion'
      BY <1>0, <2>8 DEF NewClone, Exclusion
    <3>3. Clones'
      BY <1>0, <2>8, <3>0 DEF NewClone, TypeOK, Clones, Holding
    <3> QED
      BY <3>1, <3>2, <3>3 DEF IInv
  <2>9. CASE EndClone(p)
    <3>0. \A q \in Procs : q # p => using[q] = None /\ pc[q] \notin Holding
      BY <1>0, <2>9, OneHolder DEF EndClone, Clones, Holding
    <3>1. dir' \subseteq dir /\ faults' \in 0..MaxFaults
      BY <1>0, <2>9, <2>f DEF EndClone, TypeOK
    <3>2. TypeOK'
      BY <1>0, <2>9, <3>1 DEF EndClone, TypeOK, Holding
    <3>3. Exclusion'
      BY <1>0, <2>9 DEF EndClone, Exclusion
    <3>4. Clones'
      BY <1>0, <2>9, <3>0, <3>1 DEF EndClone, TypeOK, Clones, Holding
    <3> QED
      BY <3>2, <3>3, <3>4 DEF IInv
  <2>10. CASE Stop(p)
    <3>1. TypeOK'
      BY <1>0, <2>10 DEF Stop, Goto, TypeOK, Holding
    <3>2. Exclusion'
      BY <1>0, <2>10 DEF Stop, Goto, TypeOK, Holding, Exclusion
    <3>3. Clones'
      BY <1>0, <2>10 DEF Stop, Goto, TypeOK, Clones
    <3> QED
      BY <3>1, <3>2, <3>3 DEF IInv
  <2>11. CASE Release(p)
    BY <1>0, <2>11, ExitKeeps DEF Release, TypeOK
  <2>12. CASE Die(p)
    BY <2>f, <2>12, ExitKeeps DEF Die
  <2> QED
    BY <1>s, <2>1, <2>2, <2>3, <2>4, <2>5, <2>6, <2>7, <2>8, <2>9, <2>10, <2>11, <2>12
       DEF Step, Prepare
<1> QED
  BY <1>u, <1>s DEF Next

LEMMA Invariant == Spec => []IInv
<1>1. Init => IInv
  BY InitIInv
<1>2. IInv /\ [Next]_vars => IInv'
  BY NextIInv
<1> QED
  BY <1>1, <1>2, PTL DEF Spec

\* The types, and the lock held only by a process at a step that holds it.
THEOREM TypeCorrect == Spec => []TypeOK
<1>1. IInv => TypeOK
  BY DEF IInv
<1> QED
  BY <1>1, Invariant, PTL

\* However many processes share the root, die and start again, no clean-up
\* takes the directory a push is working in.
THEOREM LiveClonesAreSafe == Spec => []LiveClonesStay
<1>1. IInv => LiveClonesStay
  BY DEF IInv, Clones, LiveClonesStay
<1> QED
  BY <1>1, Invariant, PTL

\* A process that is up has cleared away every clone of an earlier life.
THEOREM StartIsClean == Spec => []UpMeansClean
<1>1. IInv => UpMeansClean
  BY DEF IInv, Clones, UpMeansClean, Interrupted
<1> QED
  BY <1>1, Invariant, PTL

-----------------------------------------------------------------------------
(* TempDir implements OwnedDir.                                            *)

\* What is not a clone of this user's stays out of it.
Apart == Strangers \subseteq dir /\ \A p \in Procs : using[p] \notin Strangers

LEMMA InitApart == Init => Apart
  BY NamesAssumption DEF Init, Apart

LEMMA NextApart == IInv /\ Apart /\ [Next]_vars => Apart'
<1> SUFFICES ASSUME IInv, Apart, [Next]_vars PROVE Apart'
  OBVIOUS
<1>0. TypeOK
  BY DEF IInv
<1>u. CASE UNCHANGED vars
  BY <1>u DEF vars, Apart
<1>s. ASSUME NEW p \in Procs, Step(p) PROVE Apart'
  <2>1. CASE Exit(p) /\ dir' = dir
    BY <1>0, <2>1, NamesAssumption DEF Exit, Apart, TypeOK
  <2>2. CASE Clean(p)
    BY <2>2 DEF Clean, Apart
  <2>3. CASE NewClone(p)
    BY <1>0, <2>3 DEF NewClone, Apart, TypeOK
  <2>4. CASE EndClone(p)
    BY <1>0, <2>4, NamesAssumption DEF EndClone, Apart, TypeOK
  <2>5. CASE Launch(p) \/ Lock(p) \/ List(p) \/ Cleaned(p) \/ Stop(p)
    BY <2>5 DEF Launch, Lock, List, Cleaned, Stop, Apart
  <2> QED
    BY <1>s, <2>1, <2>2, <2>3, <2>4, <2>5
       DEF Step, Prepare, LockBusy, CleanFails, Release, Die
<1> QED
  BY <1>u, <1>s DEF Next

LEMMA ApartInvariant == Spec => []Apart
  BY InitApart, NextApart, Invariant, PTL DEF Spec

\* A process that is up has the root.
LEMMA OwnerIsUp ==
  ASSUME IInv, NEW p \in Procs
  PROVE  /\ pc[p] \in {"run", "stopped"} => Owner = p /\ lock = p
         /\ lock = p /\ pc[p] \notin {"run", "stopped"} => Owner = None
  BY ProcsAssumption DEF IInv, Exclusion, Holding, Owner

\* A process that ends leaves the root if it had it, with the clone it was in.
LEMMA ExitLeaves ==
  ASSUME IInv, Apart, NEW p \in Procs, Exit(p), dir' = dir
  PROVE  [Ownership!Next]_Ownership!vars
<1>0. TypeOK /\ Exclusion /\ Clones
  BY DEF IInv
<1>1. CASE pc[p] \in {"run", "stopped"}
  <2>1. Owner = p /\ lock = p /\ InUse = using[p]
    BY <1>1, OwnerIsUp, ProcsAssumption DEF InUse
  <2>2. Owner' = None /\ InUse' = None
    BY <2>1 DEF Exit, Owner, InUse
  <2>3. using[p] # None => using[p] \in dir \ Strangers
    BY <1>0 DEF Clones, Apart
  <2>4. None \notin dir
    BY <1>0, NamesAssumption DEF TypeOK
  <2>5. Ownership!Leave
    BY <2>1, <2>2, <2>3, <2>4, ProcsAssumption DEF Ownership!Leave
  <2> QED
    BY <2>5 DEF Ownership!Next
<1>2. CASE pc[p] \notin {"run", "stopped"} /\ lock = p
  BY <1>2, OwnerIsUp DEF Exit, Owner, InUse, Ownership!vars
<1>3. CASE lock # p
  <2>1. lock' = lock /\ (lock # None => pc'[lock] = pc[lock] /\ using'[lock] = using[lock])
    BY <1>0, <1>3 DEF Exit, Goto, TypeOK
  <2>2. Owner' = Owner
    BY <2>1 DEF Owner
  <2>3. Owner # None => Owner = lock
    BY DEF Owner
  <2>4. InUse' = InUse
    BY <2>1, <2>2, <2>3 DEF InUse
  <2> QED
    BY <2>2, <2>4 DEF Ownership!vars
<1> QED
  BY <1>1, <1>2, <1>3

LEMMA InitOwned == Init => Ownership!Init
<1> SUFFICES ASSUME Init PROVE Ownership!Init
  OBVIOUS
<1>1. Owner = None /\ InUse = None
  BY DEF Init, Owner, InUse
<1>2. dir \subseteq Names
  BY NamesAssumption DEF Init
<1> QED
  BY <1>1, <1>2 DEF Ownership!Init

LEMMA NextOwned ==
  IInv /\ Apart /\ [Next]_vars => [Ownership!Next]_Ownership!vars
<1> SUFFICES ASSUME IInv, Apart, [Next]_vars PROVE [Ownership!Next]_Ownership!vars
  OBVIOUS
<1>0. TypeOK /\ Exclusion /\ Clones
  BY DEF IInv
<1>n. None \notin dir
  BY <1>0, NamesAssumption DEF TypeOK
<1>u. CASE UNCHANGED vars
  BY <1>u DEF vars, Owner, InUse, Ownership!vars
<1>s. ASSUME NEW p \in Procs, Step(p) PROVE [Ownership!Next]_Ownership!vars
  <2>1. CASE Exit(p) /\ dir' = dir
    BY <2>1, ExitLeaves
  <2>2. CASE Launch(p)
    <3>1. lock # p
      BY <1>0, <2>2 DEF Launch, Exclusion, Holding
    <3>2. lock' = lock /\ (lock # None => pc'[lock] = pc[lock])
      BY <1>0, <2>2, <3>1 DEF Launch, Goto, TypeOK
    <3>3. Owner' = Owner
      BY <3>2 DEF Owner
    <3> QED
      BY <2>2, <3>3 DEF Launch, InUse, Ownership!vars
  <2>3. CASE Lock(p)
    <3>1. Owner = None
      BY <2>3 DEF Lock, Owner
    <3>2. Owner' = None
      BY <1>0, <2>3 DEF Lock, Goto, Owner, TypeOK
    <3> QED
      BY <2>3, <3>1, <3>2 DEF Lock, InUse, Ownership!vars
  <2>4. CASE List(p)
    <3>1. lock = p /\ Owner = None
      BY <1>0, <2>4, OwnerIsUp DEF List, Exclusion, Holding
    <3>2. Owner' = None
      BY <1>0, <2>4, <3>1 DEF List, Goto, Owner, TypeOK
    <3> QED
      BY <2>4, <3>1, <3>2 DEF List, InUse, Ownership!vars
  <2>5. CASE Clean(p)
    <3>1. lock = p /\ Owner = None
      BY <1>0, <2>5, OwnerIsUp DEF Clean, Exclusion, Holding
    <3>2. Owner' = None /\ InUse = None /\ InUse' = None
      BY <2>5, <3>1 DEF Clean, Owner, InUse
    <3>3. PICK n \in todo[p] : dir' = IF n \in Strangers THEN dir ELSE dir \ {n}
      BY <2>5 DEF Clean
    <3>4. CASE n \in dir \ Strangers
      <4>1. n \in Names /\ n # None
        BY <1>0, <1>n, <3>4 DEF TypeOK
      <4>2. Ownership!Remove(n)
        BY <3>1, <3>2, <3>3, <3>4, <4>1 DEF Ownership!Remove
      <4> QED
        BY <4>1, <4>2 DEF Ownership!Next
    <3>5. CASE n \notin dir \ Strangers
      BY <3>1, <3>2, <3>3, <3>5 DEF Ownership!vars
    <3> QED
      BY <3>4, <3>5
  <2>6. CASE Cleaned(p)
    <3>1. lock = p /\ Owner = None /\ InUse = None
      BY <1>0, <2>6, OwnerIsUp DEF Cleaned, Exclusion, Holding, InUse
    <3>2. Owner' = p
      BY <1>0, <2>6, <3>1, ProcsAssumption DEF Cleaned, Goto, Owner, TypeOK
    <3>3. using[p] = None
      BY <1>0, <2>6 DEF Cleaned, Clones
    <3>4. InUse' = None
      BY <2>6, <3>2, <3>3 DEF Cleaned, InUse
    <3>5. dir \ Strangers = {}
      BY <1>0, <2>6 DEF Cleaned, Clones
    <3>6. Ownership!Take(p)
      BY <2>6, <3>1, <3>2, <3>4, <3>5 DEF Cleaned, Ownership!Take
    <3> QED
      BY <3>6 DEF Ownership!Next
  <2>7. CASE NewClone(p)
    <3>1. Owner = p /\ Owner' = p
      BY <2>7, OwnerIsUp DEF NewClone, Owner
    <3>2. PICK n \in Names \ dir :
            dir' = dir \cup {n} /\ using' = [using EXCEPT ![p] = n]
      BY <2>7 DEF NewClone
    <3>3. InUse = None /\ InUse' = n
      BY <1>0, <2>7, <3>1, <3>2, ProcsAssumption DEF NewClone, InUse, TypeOK
    <3>4. Ownership!Use(n)
      BY <1>n, <3>1, <3>2, <3>3, ProcsAssumption DEF Ownership!Use
    <3> QED
      BY <3>4 DEF Ownership!Next
  <2>8. CASE EndClone(p)
    <3>1. Owner = p /\ Owner' = p
      BY <2>8, OwnerIsUp DEF EndClone, Owner
    <3>2. InUse = using[p] /\ InUse' = None
      BY <1>0, <2>8, <3>1, ProcsAssumption DEF EndClone, InUse, TypeOK
    <3>3. using[p] \in dir \ Strangers
      BY <1>0, <2>8 DEF EndClone, Clones, Apart
    <3>4. dir' = dir \ {using[p]} \/ dir' = dir
      BY <2>8 DEF EndClone
    <3>5. Ownership!Return
      BY <1>n, <2>8, <3>1, <3>2, <3>3, <3>4 DEF EndClone, Ownership!Return
    <3> QED
      BY <3>5 DEF Ownership!Next
  <2>9. CASE Stop(p)
    <3>1. Owner = p /\ lock = p
      BY <2>9, OwnerIsUp DEF Stop
    <3>2. Owner' = p
      BY <1>0, <2>9, <3>1, ProcsAssumption DEF Stop, Goto, Owner, TypeOK
    <3> QED
      BY <2>9, <3>1, <3>2 DEF Stop, InUse, Ownership!vars
  <2> QED
    BY <1>s, <2>1, <2>2, <2>3, <2>4, <2>5, <2>6, <2>7, <2>8, <2>9
       DEF Step, Prepare, LockBusy, CleanFails, Release, Die
<1> QED
  BY <1>u, <1>s DEF Next

\* However many processes start, die and fail, the root behaves as one with a
\* single owner, who finds nothing left in it and has it until it ends
\* (PrepareWritebackTempDir, newCloneDirectory, and the release in main).
THEOREM DirectoryIsOwned == Spec => RootHasOneOwner
<1>1. Init => Ownership!Init
  BY InitOwned
<1>2. IInv /\ Apart /\ [Next]_vars => [Ownership!Next]_Ownership!vars
  BY NextOwned
<1> QED
  BY <1>1, <1>2, Invariant, ApartInvariant, PTL DEF Spec, RootHasOneOwner, Ownership!Spec
=============================================================================
