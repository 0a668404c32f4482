-------------------------- MODULE TagUpdaterProofs --------------------------
(***************************************************************************)
(* Proofs about TagUpdater, for any set of tags, any timeout, any number   *)
(* of faults, foreign pushes and spec edits.                               *)
(*                                                                         *)
(* The argument for WriteRecorded: RecordInv says of all three copies of   *)
(* the object what WriteRecorded says of the stored one.  The branch only  *)
(* grows, so a copy stays right about its commits; a copy is only stored   *)
(* while its spec is the stored one; and an edit of the spec moves the     *)
(* generation past every generation a status has recorded.                 *)
(***************************************************************************)
EXTENDS TagUpdater, TLAPS

USE TagsAssumption, TimeoutAssumption, SourceAssumption,
    DisturbancesAssumption, BoundsAssumption
    DEF NoTag, NoCommit, Unset

-----------------------------------------------------------------------------
(* What the operators on statuses return.                                  *)

LEMMA ReleasedType ==
  ASSUME NEW status \in Status
  PROVE  /\ Released(status) \in Status
         /\ Released(status).lastTag = status.lastTag
         /\ Released(status).lastWriteCommit = status.lastWriteCommit
         /\ Released(status).observedGeneration = status.observedGeneration
         /\ Released(status).skippedTags = status.skippedTags
  BY DEF Released, Status, Age

LEMMA FailedType ==
  ASSUME NEW status \in Status, status.watchingTag \in Tags
  PROVE  /\ Failed(status) \in Status
         /\ Failed(status).lastTag = status.lastTag
         /\ Failed(status).lastWriteCommit = status.lastWriteCommit
         /\ Failed(status).observedGeneration = status.observedGeneration
<1> DEFINE released == Released(status)
           failed == [released EXCEPT !.skippedTags = @ \cup {status.watchingTag}]
<1>1. /\ released \in Status
      /\ released.lastTag = status.lastTag
      /\ released.lastWriteCommit = status.lastWriteCommit
      /\ released.observedGeneration = status.observedGeneration
  BY ReleasedType
<1>2. Failed(status) = failed
  BY DEF Failed
<1> HIDE DEF released
<1>3. failed \in Status
  BY <1>1 DEF Status
<1>4. /\ failed.lastTag = released.lastTag
      /\ failed.lastWriteCommit = released.lastWriteCommit
      /\ failed.observedGeneration = released.observedGeneration
  BY <1>1 DEF Status
<1> QED
  BY <1>1, <1>2, <1>3, <1>4

LEMMA RotatedType ==
  ASSUME NEW status \in Status, NEW t \in Tags \cup {NoTag}
  PROVE  Rotated(status, t) \in Status /\ Rotated(status, t).lastTag = t
  BY DEF Rotated, Status

LEMMA ArmedType ==
  ASSUME NEW status \in Status, NEW t \in Tags \cup {NoTag}, NEW c \in Nat
  PROVE  Armed(status, t, c) \in Status /\ Armed(status, t, c).lastTag = status.lastTag
<1>1. 0 \in Age /\ Unset \in Age
  BY DEF Age
<1> QED
  BY <1>1 DEF Armed, Status

LEMMA WroteType ==
  ASSUME NEW status \in Status, NEW o \in Object, NEW c \in Nat
  PROVE  /\ Wrote(status, o, c) \in Status
         /\ Wrote(status, o, c).lastTag = status.lastTag
         /\ Wrote(status, o, c).lastWriteCommit = c
         /\ Wrote(status, o, c).observedGeneration = o.spec.generation
  BY DEF Wrote, Status, Object, Settings

LEMMA RolledBackType ==
  ASSUME NEW o \in Object, NEW c \in Nat, o.status.watchingTag # NoTag
  PROVE  /\ RolledBack(o, c) \in Status
         /\ RolledBack(o, c).lastTag = o.status.previousTag
         /\ RolledBack(o, c).lastWriteCommit = c
         /\ RolledBack(o, c).observedGeneration = o.spec.generation
<1> DEFINE failed == Failed(o.status)
<1>1. o.status \in Status /\ o.status.watchingTag \in Tags
  BY DEF Object, Status
<1>2. failed \in Status
  BY <1>1, FailedType
<1> HIDE DEF failed
<1>3. /\ Wrote(failed, o, c) \in Status
      /\ Wrote(failed, o, c).lastWriteCommit = c
      /\ Wrote(failed, o, c).observedGeneration = o.spec.generation
  BY <1>2, WroteType
<1>4. RolledBack(o, c) = [Wrote(failed, o, c) EXCEPT !.lastTag = o.status.previousTag]
  BY DEF RolledBack, failed
<1> QED
  BY <1>1, <1>3, <1>4 DEF Status

LEMMA DeployedType ==
  ASSUME NEW o \in Object, NEW t \in Tags \cup {NoTag}, NEW c \in Nat
  PROVE  /\ Deployed(o, t, c) \in Status
         /\ Deployed(o, t, c).lastTag = t
         /\ Deployed(o, t, c).lastWriteCommit = c
         /\ Deployed(o, t, c).observedGeneration = o.spec.generation
<1> DEFINE rotated == IF t = o.status.lastTag THEN o.status ELSE Rotated(o.status, t)
           armed == IF t # o.status.lastTag /\ o.spec.rollback
                    THEN Armed(rotated, t, c) ELSE rotated
<1>1. o.status \in Status
  BY DEF Object
<1>2. rotated \in Status /\ rotated.lastTag = t
  BY <1>1, RotatedType
<1> HIDE DEF rotated
<1>3. armed \in Status /\ armed.lastTag = t
  BY <1>2, ArmedType
<1> HIDE DEF armed
<1>4. Deployed(o, t, c) = Wrote(armed, o, c)
  BY DEF Deployed, armed, rotated
<1> QED
  BY <1>3, <1>4, WroteType

LEMMA OlderType ==
  ASSUME NEW age \in Age
  PROVE  Older(age) \in Age
  BY DEF Older, Age

LEMMA AgedType ==
  ASSUME NEW o \in Object
  PROVE  /\ Aged(o) \in Object
         /\ Aged(o).spec = o.spec
         /\ Aged(o).status.lastTag = o.status.lastTag
         /\ Aged(o).status.lastWriteCommit = o.status.lastWriteCommit
         /\ Aged(o).status.observedGeneration = o.status.observedGeneration
         /\ Aged(o).status.watchingTag = o.status.watchingTag
<1> DEFINE armedAt == Older(o.status.watchingArmedAt)
           since == Older(o.status.watchingSince)
           status == [o.status EXCEPT !.watchingArmedAt = armedAt,
                                      !.watchingSince = since]
<1>1. armedAt \in Age /\ since \in Age
  BY OlderType DEF Object, Status
<1>2. Aged(o) = [o EXCEPT !.status = status]
  BY DEF Aged, Object, Status
<1> HIDE DEF armedAt, since
<1>3. /\ status \in Status
      /\ status.lastTag = o.status.lastTag
      /\ status.lastWriteCommit = o.status.lastWriteCommit
      /\ status.observedGeneration = o.status.observedGeneration
      /\ status.watchingTag = o.status.watchingTag
  BY <1>1 DEF Object, Status
<1> HIDE DEF status
<1> QED
  BY <1>2, <1>3 DEF Object

LEMMA NewObjectType == NewObject \in Object
  BY DEF NewObject, Object, Settings, Status, Age

LEMMA RenderType ==
  ASSUME NEW o \in Object, NEW t \in Tags \cup {NoTag}
  PROVE  Render(o, t) \in Commit
  BY DEF Render, Commit, Object, Settings

\* The two edits of a spec touch neither its shape nor its generation.
LEMMA TogglesSettings ==
  ASSUME NEW s \in Settings
  PROVE  /\ [s EXCEPT !.rollback = ~@] \in Settings
         /\ [s EXCEPT !.rollback = ~@].generation = s.generation
  BY DEF Settings

LEMMA EditsSettings ==
  ASSUME NEW s \in Settings
  PROVE  /\ [s EXCEPT !.layout = @ + 1] \in Settings
         /\ [s EXCEPT !.layout = @ + 1].generation = s.generation
<1>1. s.layout \in Nat /\ s.layout + 1 \in Nat
  BY DEF Settings
<1> DEFINE l == s.layout + 1
<1>2. l \in Nat
  BY <1>1
<1> HIDE DEF l
<1>3. [s EXCEPT !.layout = l] \in Settings /\ [s EXCEPT !.layout = l].generation = s.generation
  BY <1>2 DEF Settings
<1> QED
  BY <1>3 DEF l

\* b2 continues b: what the branch does at every step.
Continues(b2, b) == /\ Len(b) <= Len(b2)
                    /\ \A i \in 1..Len(b) : b2[i] = b[i]

\* The branch only grows, and its tip is what was written.
LEMMA WrittenGrows ==
  ASSUME NEW b \in Seq(Commit), b # <<>>, NEW c \in Commit
  PROVE  /\ Written(b, c) \in Seq(Commit)
         /\ Len(b) \in Nat /\ Continues(Written(b, c), b)
         /\ Written(b, c) # <<>>
         /\ Len(Written(b, c)) \in Nat \ {0}
         /\ Written(b, c)[Len(Written(b, c))] = c
  BY DEF Written, Tip, Continues

-----------------------------------------------------------------------------
(* Type correctness.                                                       *)

\* What the gate's steps add to TypeOK: they have a watched tag to skip.
TypeInv ==
  /\ TypeOK
  /\ pc \in {"observe", "saveSince", "health", "rollback"} =>
       tu.status.watchingTag # NoTag

LEMMA InitType == Init => TypeInv
<1> SUFFICES ASSUME Init PROVE TypeInv
  OBVIOUS
<1>1. Manual \in Commit
  BY DEF Manual, Commit
<1>2. branch \in Seq(Commit) /\ branch # <<>>
  BY <1>1 DEF Init
<1>3. stored \in Object /\ cached \in Object /\ tu \in Object
  BY NewObjectType DEF Init
<1>4. faults \in 0..MaxFaults /\ foreign \in 0..MaxForeign /\ result \in Nat
  BY DEF Init
<1>5. synced \in BOOLEAN /\ fresh \in BOOLEAN /\ appUp \in BOOLEAN
  BY Zenon DEF Init
<1>6. /\ pc = "idle" /\ latest \in Tags \cup {NoTag}
      /\ source \subseteq Tags /\ condemned \subseteq Tags
  BY DEF Init
<1> QED
  BY <1>2, <1>3, <1>4, <1>5, <1>6 DEF TypeInv, TypeOK

LEMMA StatusChange ==
  ASSUME NEW o \in Object, NEW status \in Status
  PROVE  /\ o.status \in Status
         /\ [o EXCEPT !.status = status] \in Object
         /\ [o EXCEPT !.status = status].status = status
         /\ [o EXCEPT !.status = status].spec = o.spec
  BY DEF Object

LEMMA EndReconcileType ==
  ASSUME EndReconcile
  PROVE  /\ tu' \in Object /\ fresh' \in BOOLEAN /\ latest' \in Tags \cup {NoTag}
         /\ result' \in Nat /\ pc' = "idle"
  BY NewObjectType DEF EndReconcile

LEMMA FaultType ==
  ASSUME TypeInv, NEW kind, Fault(kind)
  PROVE  faults' \in 0..MaxFaults
  BY DEF Fault, TypeInv, TypeOK

LEMMA StoreStatusType ==
  ASSUME TypeInv, NEW status \in Status, StoreStatus(status)
  PROVE  stored' \in Object /\ cached' \in Object /\ synced' \in BOOLEAN
<1>1. stored' \in Object
  BY StatusChange DEF StoreStatus, TypeInv, TypeOK
<1> QED
  BY <1>1 DEF StoreStatus, TypeInv, TypeOK

LEMMA StoreRefusedType ==
  ASSUME TypeInv, StoreRefused
  PROVE  /\ stored' \in Object /\ cached' \in Object /\ synced' \in BOOLEAN
         /\ faults' \in 0..MaxFaults
<1>1. faults' \in 0..MaxFaults
  BY FaultType DEF StoreRefused, TypeInv, TypeOK
<1> QED
  BY <1>1 DEF StoreRefused, TypeInv, TypeOK, api

LEMMA EditSpecType ==
  ASSUME TypeInv, NEW spec \in Settings, EditSpec(spec)
  PROVE  TypeInv'
<1>1. [spec EXCEPT !.generation = @ + 1] \in Settings
  BY DEF Settings
<1>2. stored \in Object
  BY DEF TypeInv, TypeOK
<1>3. stored' \in Object
  BY <1>1, <1>2 DEF EditSpec, Object
<1> QED
  BY <1>3 DEF EditSpec, TypeInv, TypeOK, local, world

LEMMA NextType == TypeInv /\ [Next]_vars => TypeInv'
<1> SUFFICES ASSUME TypeInv, [Next]_vars PROVE TypeInv'
  OBVIOUS
<1> USE DEF TypeInv, TypeOK, api, local, world
<1>0. tu.status \in Status /\ stored.spec \in Settings
  BY DEF Object
<1>1. CASE Get
  BY <1>1 DEF Get, WatchOpen
<1>2. CASE AppUnreadable
  BY <1>2, EndReconcileType DEF AppUnreadable
<1>3. CASE AlreadyObserved
  BY <1>3 DEF AlreadyObserved
<1>4. CASE Observed
  <2>1. 0 \in Age
    BY DEF Age
  <2>2. tu' \in Object /\ tu'.status.watchingTag = tu.status.watchingTag
    BY <1>4, <2>1 DEF Observed, Object, Status
  <2> QED
    BY <1>4, <2>2 DEF Observed
<1>5. CASE NotObserved
  <2>1. CASE EndReconcile
    BY <1>5, <2>1, EndReconcileType DEF NotObserved
  <2>2. CASE ~EndReconcile
    <3>1. tu' \in Object
      BY <1>0, <1>5, <2>2, ReleasedType, StatusChange DEF NotObserved
    <3> QED
      BY <1>5, <2>2, <3>1 DEF NotObserved
  <2> QED
    BY <2>1, <2>2
<1>6. CASE SaveSince
  <2>1. CASE StoreStatus(tu.status) /\ pc' = "health" /\ UNCHANGED <<local, faults>>
    BY <1>0, <1>6, <2>1, StoreStatusType DEF SaveSince
  <2>2. CASE StoreRefused /\ EndReconcile
    BY <1>6, <2>2, StoreRefusedType, EndReconcileType DEF SaveSince
  <2> QED
    BY <1>6, <2>1, <2>2 DEF SaveSince
<1>7. CASE Healthy
  <2>1. [Released(tu.status) EXCEPT !.skippedTags = {}] \in Status
    BY <1>0, ReleasedType DEF Status
  <2>2. tu' \in Object
    BY <1>7, <2>1, StatusChange DEF Healthy
  <2> QED
    BY <1>7, <2>2 DEF Healthy
<1>8. CASE StillProgressing
  BY <1>8, EndReconcileType DEF StillProgressing
<1>9. CASE Unhealthy
  <2>1. tu.status.watchingTag \in Tags
    BY <1>0, <1>9 DEF Unhealthy, Status
  <2>2. Failed(tu.status) \in Status
    BY <1>0, <2>1, FailedType
  <2>3. tu' \in Object
    BY <1>9, <2>2, StatusChange DEF Unhealthy
  <2> QED
    BY <1>9, <2>3 DEF Unhealthy
<1>10. CASE WriteRollback
  <2> DEFINE content == Render(tu, tu.status.previousTag)
  <2>1. tu.status.watchingTag \in Tags /\ tu.status.previousTag \in Tags \cup {NoTag}
    BY <1>0, <1>10 DEF WriteRollback, Status
  <2>2. content \in Commit
    BY <2>1, RenderType
  <2>3. branch' \in Seq(Commit) /\ branch' # <<>> /\ Len(branch') \in Nat
    BY <1>10, <2>2, WrittenGrows DEF WriteRollback
  <2>4. condemned' \subseteq Tags
    BY <1>10, <2>1 DEF WriteRollback
  <2>5. CASE Fault("replyLost") /\ EndReconcile
    BY <1>10, <2>3, <2>4, <2>5, FaultType, EndReconcileType DEF WriteRollback
  <2>6. CASE /\ tu' = [tu EXCEPT !.status = RolledBack(tu, Len(branch'))]
             /\ pc' = "saveRollback"
             /\ UNCHANGED <<fresh, latest, result, faults>>
    <3>1. tu' \in Object
      BY <2>1, <2>3, <2>6, RolledBackType, StatusChange
    <3> QED
      BY <1>10, <2>3, <2>4, <2>6, <3>1 DEF WriteRollback
  <2> QED
    BY <1>10, <2>5, <2>6 DEF WriteRollback
<1>11. CASE RollbackFails
  <2>1. faults' \in 0..MaxFaults
    BY <1>11, FaultType DEF RollbackFails
  <2> QED
    BY <1>11, <2>1, EndReconcileType DEF RollbackFails
<1>12. CASE SaveRollback
  <2>1. CASE StoreStatus(tu.status) /\ pc' = "list" /\ UNCHANGED faults
    BY <1>0, <1>12, <2>1, StoreStatusType DEF SaveRollback
  <2>2. CASE StoreRefused /\ pc' = "saveRollbackAgain"
    BY <1>12, <2>2, StoreRefusedType DEF SaveRollback
  <2> QED
    BY <1>12, <2>1, <2>2 DEF SaveRollback
<1>13. CASE SaveRollbackAgain
  <2>1. /\ stored' \in Object /\ cached' \in Object /\ synced' \in BOOLEAN
        /\ faults' \in 0..MaxFaults
    BY <1>0, <1>13, StoreStatusType, StoreRefusedType DEF SaveRollbackAgain
  <2> QED
    BY <1>13, <2>1, EndReconcileType DEF SaveRollbackAgain
<1>14. CASE SaveReleased
  <2>1. condemned' \subseteq Tags
    BY <1>14 DEF SaveReleased
  <2>2. CASE /\ StoreStatus(tu.status) /\ pc' = "list" /\ UNCHANGED <<local, faults>>
    BY <1>0, <1>14, <2>1, <2>2, StoreStatusType DEF SaveReleased
  <2>3. CASE StoreRefused /\ EndReconcile
    BY <1>14, <2>1, <2>3, StoreRefusedType, EndReconcileType DEF SaveReleased
  <2> QED
    BY <1>14, <2>2, <2>3 DEF SaveReleased
<1>15. CASE List
  <2>1. latest' \in Tags
    BY <1>15 DEF List, Candidates
  <2> QED
    BY <1>15, <2>1 DEF List
<1>16. CASE NothingListed
  <2>1. faults' \in 0..MaxFaults
    BY <1>16, FaultType DEF NothingListed
  <2> QED
    BY <1>16, <2>1, EndReconcileType DEF NothingListed
<1>17. CASE Resolve
  BY <1>17 DEF Resolve
<1>18. CASE ResolveFails
  <2>1. faults' \in 0..MaxFaults
    BY <1>18, FaultType DEF ResolveFails
  <2> QED
    BY <1>18, <2>1, EndReconcileType DEF ResolveFails
<1>19. CASE RemoteUnchanged
  BY <1>19, EndReconcileType DEF RemoteUnchanged
<1>20. CASE Write
  <2>1. Render(tu, latest) \in Commit
    BY RenderType
  <2>2. branch' \in Seq(Commit) /\ branch' # <<>> /\ Len(branch') \in Nat
    BY <1>20, <2>1, WrittenGrows DEF Write
  <2>3. CASE Fault("replyLost") /\ EndReconcile
    BY <1>20, <2>2, <2>3, FaultType, EndReconcileType DEF Write
  <2>4. CASE /\ result' = Len(branch') /\ pc' = "save"
             /\ UNCHANGED <<tu, fresh, latest, faults>>
    BY <1>20, <2>2, <2>4 DEF Write
  <2> QED
    BY <1>20, <2>3, <2>4 DEF Write
<1>21. CASE WriteFails
  BY <1>21, FaultType, EndReconcileType DEF WriteFails
<1>22. CASE Save
  <2>1. CASE StoreStatus(Deployed(tu, latest, result)) /\ UNCHANGED faults
    <3>1. Deployed(tu, latest, result) \in Status
      BY DeployedType
    <3> QED
      BY <1>22, <2>1, <3>1, StoreStatusType, EndReconcileType DEF Save
  <2>2. CASE StoreRefused
    BY <1>22, <2>2, StoreRefusedType, EndReconcileType DEF Save
  <2> QED
    BY <1>22, <2>1, <2>2 DEF Save
<1>23. CASE Crash
  BY <1>23, FaultType, EndReconcileType DEF Crash
<1>24. CASE InformerSync
  BY <1>24 DEF InformerSync
<1>25. CASE ToggleRollback
  <2>1. [stored.spec EXCEPT !.rollback = ~@] \in Settings
    BY <1>0, TogglesSettings
  <2> QED
    BY <1>25, <2>1, EditSpecType DEF ToggleRollback
<1>26. CASE EditTargets
  <2>1. [stored.spec EXCEPT !.layout = @ + 1] \in Settings
    BY <1>0, EditsSettings
  <2> QED
    BY <1>26, <2>1, EditSpecType DEF EditTargets
<1>27. CASE PublishTag
  BY <1>27 DEF PublishTag
<1>28. CASE DeleteTag
  BY <1>28, FaultType DEF DeleteTag
<1>29. CASE ForeignPush
  <2>1. Tip(branch) \in Commit
    BY DEF Tip
  <2>2. Manual \in Commit
    BY DEF Manual, Commit
  <2>3. branch' \in Seq(Commit) /\ branch' # <<>>
    BY <1>29, <2>1, <2>2 DEF ForeignPush
  <2> QED
    BY <1>29, <2>3 DEF ForeignPush
<1>30. CASE AppChanges
  BY <1>30 DEF AppChanges
<1>31. CASE Tick
  <2>1. /\ stored' \in Object /\ cached' \in Object /\ tu' \in Object
        /\ tu'.status.watchingTag = tu.status.watchingTag
    BY <1>31, AgedType DEF Tick
  <2> QED
    BY <1>31, <2>1 DEF Tick
<1>32. CASE UNCHANGED vars
  BY <1>32 DEF vars
<1> QED
  BY <1>1, <1>2, <1>3, <1>4, <1>5, <1>6, <1>7, <1>8, <1>9, <1>10, <1>11, <1>12,
     <1>13, <1>14, <1>15, <1>16, <1>17, <1>18, <1>19, <1>20, <1>21, <1>22,
     <1>23, <1>24, <1>25, <1>26, <1>27, <1>28, <1>29, <1>30, <1>31, <1>32
     DEF Next, Reconcile, GateSteps, PipelineSteps, Environment

\* The type invariant, for every value of the constants.
THEOREM TypeCorrect == Spec => []TypeOK
<1>1. Init => TypeInv
  BY InitType
<1>2. TypeInv /\ [Next]_vars => TypeInv'
  BY NextType
<1>3. TypeInv => TypeOK
  BY DEF TypeInv
<1> QED
  BY <1>1, <1>2, <1>3, PTL DEF Spec

-----------------------------------------------------------------------------
(* The recorded write.                                                     *)

\* A copy stays right about its commits when the branch grows.
LEMMA GrowthKeeps ==
  ASSUME NEW b \in Seq(Commit), NEW b2 \in Seq(Commit), Continues(b2, b),
         NEW o \in Object, Knows(b, o)
  PROVE  Knows(b2, o)
<1>1. Len(b) \in Nat /\ Len(b2) \in Nat /\ o.status.lastWriteCommit \in Nat
  BY DEF Object, Status
<1>2. CASE o.status.lastWriteCommit = NoCommit
  BY <1>2 DEF Knows, Recorded
<1>3. CASE o.status.lastWriteCommit # NoCommit
  <2>1. o.status.lastWriteCommit \in 1..Len(b)
    BY <1>3 DEF Knows, Recorded
  <2>2. /\ o.status.lastWriteCommit \in 1..Len(b2)
        /\ b2[o.status.lastWriteCommit] = b[o.status.lastWriteCommit]
    BY <1>1, <2>1 DEF Continues
  <2> QED
    BY <1>3, <2>2 DEF Knows, Recorded
<1> QED
  BY <1>2, <1>3

\* Being right depends on nothing else in the object.
LEMMA SameRecord ==
  ASSUME NEW b, NEW o, NEW p, Knows(b, o),
         p.spec = o.spec,
         p.status.lastTag = o.status.lastTag,
         p.status.lastWriteCommit = o.status.lastWriteCommit,
         p.status.observedGeneration = o.status.observedGeneration
  PROVE  Knows(b, p)
  BY DEF Knows, Recorded, Render

\* A copy that records commit c of its rendered last tag is right.
LEMMA NewRecord ==
  ASSUME NEW b \in Seq(Commit), NEW o \in Object, NEW p \in Object,
         NEW t, NEW c \in 1..Len(b), b[c] = Render(o, t),
         p.spec = o.spec,
         p.status.lastTag = t,
         p.status.lastWriteCommit = c,
         p.status.observedGeneration = o.spec.generation
  PROVE  Knows(b, p)
  BY DEF Knows, Recorded, Render, Object, Settings

LEMMA NewObjectKnows ==
  ASSUME NEW b
  PROVE  Knows(b, NewObject)
  BY DEF NewObject, Knows, Recorded

LEMMA InitRecord == Init => RecordInv
<1> SUFFICES ASSUME Init PROVE RecordInv
  OBVIOUS
<1>1. /\ Knows(branch, stored) /\ Knows(branch, cached) /\ Knows(branch, tu)
      /\ cached.spec = stored.spec /\ tu.spec = stored.spec /\ pc = "idle"
  BY NewObjectKnows DEF Init
<1> QED
  BY <1>1 DEF RecordInv

\* A reconcile that ends leaves nothing behind but what it pushed.
LEMMA EndKeeps ==
  ASSUME TypeInv, RecordInv, EndReconcile, UNCHANGED api,
         branch' \in Seq(Commit), Continues(branch', branch)
  PROVE  RecordInv'
<1>1. Knows(branch', stored) /\ Knows(branch', cached)
  BY GrowthKeeps DEF TypeInv, TypeOK, RecordInv
<1>2. Knows(branch', tu')
  BY NewObjectKnows DEF EndReconcile
<1> QED
  BY <1>1, <1>2 DEF RecordInv, EndReconcile, api

\* A status that would make the reconciled copy right makes the stored object
\* right: a copy that can be stored has the stored spec.
LEMMA StoreKeeps ==
  ASSUME TypeInv, RecordInv, NEW status \in Status, StoreStatus(status),
         Knows(branch, [tu EXCEPT !.status = status])
  PROVE  /\ Knows(branch, stored') /\ Knows(branch, cached')
         /\ synced' => cached'.spec = stored'.spec
         /\ stored'.spec = stored.spec
<1>1. stored' = [stored EXCEPT !.status = status] /\ tu.spec = stored.spec
  BY DEF StoreStatus, RecordInv
<1>2. /\ stored'.spec = stored.spec /\ stored'.status = status
      /\ [tu EXCEPT !.status = status].spec = tu.spec
      /\ [tu EXCEPT !.status = status].status = status
  BY <1>1, StatusChange DEF TypeInv, TypeOK
<1>3. Knows(branch, stored')
  BY <1>1, <1>2, SameRecord
<1> QED
  BY <1>2, <1>3 DEF StoreStatus, RecordInv

\* The steps that change neither the branch nor the stored and cached objects,
\* and leave the record in the reconciled copy as it is.
LEMMA LocalKeeps ==
  ASSUME RecordInv, UNCHANGED <<branch, stored, cached, synced>>,
         pc' # "save", fresh' => fresh,
         tu'.spec = tu.spec,
         tu'.status.lastTag = tu.status.lastTag,
         tu'.status.lastWriteCommit = tu.status.lastWriteCommit,
         tu'.status.observedGeneration = tu.status.observedGeneration
  PROVE  RecordInv'
<1>1. Knows(branch, tu')
  BY SameRecord DEF RecordInv
<1> QED
  BY <1>1 DEF RecordInv

\* A status update that succeeds with the reconciled copy's own status.
LEMMA StoreOwnKeeps ==
  ASSUME TypeInv, RecordInv, StoreStatus(tu.status), UNCHANGED <<branch, tu, fresh>>,
         pc' # "save"
  PROVE  RecordInv'
<1>1. tu.status \in Status /\ [tu EXCEPT !.status = tu.status] = tu
  BY DEF TypeInv, TypeOK, Object
<1>2. Knows(branch, [tu EXCEPT !.status = tu.status])
  BY <1>1 DEF RecordInv
<1>3. /\ Knows(branch, stored') /\ Knows(branch, cached')
      /\ synced' => cached'.spec = stored'.spec
      /\ stored'.spec = stored.spec
  BY <1>1, <1>2, StoreKeeps
<1> QED
  BY <1>3 DEF RecordInv

\* An edit of the spec: no recorded generation is the new one.
LEMMA EditSpecKeeps ==
  ASSUME TypeInv, RecordInv, NEW spec \in Settings,
         spec.generation = stored.spec.generation, EditSpec(spec)
  PROVE  RecordInv'
<1>1. /\ stored'.spec = [spec EXCEPT !.generation = @ + 1]
      /\ stored'.status = stored.status
  BY DEF EditSpec, TypeInv, TypeOK, Object
<1>2. /\ stored'.spec.generation = stored.spec.generation + 1
      /\ stored.spec.generation \in Nat
      /\ stored.status.observedGeneration \in Nat
  BY <1>1 DEF TypeInv, TypeOK, Object, Settings, Status
<1>3. Knows(branch, stored')
  BY <1>1, <1>2 DEF RecordInv, Knows, Recorded
<1>4. /\ Knows(branch, cached')
      /\ synced' => cached'.spec = stored'.spec
  BY <1>3 DEF EditSpec, RecordInv
<1>5. branch' = branch /\ tu' = tu /\ ~fresh' /\ pc' = pc /\ latest' = latest
      /\ result' = result
  BY DEF EditSpec, world
<1> QED
  BY <1>3, <1>4, <1>5 DEF RecordInv

LEMMA NextRecord == TypeInv /\ TypeInv' /\ RecordInv /\ [Next]_vars => RecordInv'
<1> SUFFICES ASSUME TypeInv, TypeInv', RecordInv, [Next]_vars PROVE RecordInv'
  OBVIOUS
<1>0. /\ branch \in Seq(Commit) /\ branch' \in Seq(Commit) /\ branch # <<>>
      /\ tu \in Object /\ tu' \in Object /\ tu.status \in Status
      /\ latest \in Tags \cup {NoTag}
      /\ stored \in Object /\ cached \in Object
      /\ stored' \in Object /\ cached' \in Object
      /\ stored.spec \in Settings
  BY DEF TypeInv, TypeOK, Object
<1>a. Continues(branch, branch)
  BY <1>0 DEF Continues
<1>b. ASSUME EndReconcile, UNCHANGED api, UNCHANGED branch PROVE RecordInv'
  BY <1>0, <1>a, <1>b, EndKeeps
<1> USE DEF api, local, world
<1>1. CASE Get
  BY <1>1 DEF Get, RecordInv
<1>2. CASE AppUnreadable
  BY <1>2, <1>b DEF AppUnreadable
<1>3. CASE AlreadyObserved
  BY <1>3, LocalKeeps DEF AlreadyObserved
<1>4. CASE Observed
  <2>1. /\ tu'.spec = tu.spec
        /\ tu'.status.lastTag = tu.status.lastTag
        /\ tu'.status.lastWriteCommit = tu.status.lastWriteCommit
        /\ tu'.status.observedGeneration = tu.status.observedGeneration
    BY <1>0, <1>4 DEF Observed, Object, Status
  <2> QED
    BY <1>4, <2>1, LocalKeeps DEF Observed
<1>5. CASE NotObserved
  <2>1. CASE EndReconcile
    BY <1>5, <2>1, <1>b DEF NotObserved
  <2>2. CASE ~EndReconcile
    <3>1. tu' = [tu EXCEPT !.status = Released(tu.status)]
      BY <1>5, <2>2 DEF NotObserved
    <3>2. /\ tu'.spec = tu.spec
          /\ tu'.status.lastTag = tu.status.lastTag
          /\ tu'.status.lastWriteCommit = tu.status.lastWriteCommit
          /\ tu'.status.observedGeneration = tu.status.observedGeneration
      BY <1>0, <3>1, ReleasedType, StatusChange
    <3> QED
      BY <1>5, <2>2, <3>2, LocalKeeps DEF NotObserved
  <2> QED
    BY <2>1, <2>2
<1>6. CASE SaveSince
  BY <1>6, <1>b, StoreOwnKeeps DEF SaveSince, StoreRefused
<1>7. CASE Healthy
  <2> DEFINE released == Released(tu.status)
             forgiven == [released EXCEPT !.skippedTags = {}]
  <2>1. /\ released \in Status
        /\ released.lastTag = tu.status.lastTag
        /\ released.lastWriteCommit = tu.status.lastWriteCommit
        /\ released.observedGeneration = tu.status.observedGeneration
    BY <1>0, ReleasedType
  <2>2. tu' = [tu EXCEPT !.status = forgiven]
    BY <1>7 DEF Healthy
  <2> HIDE DEF released
  <2>4. /\ forgiven \in Status
        /\ forgiven.lastTag = tu.status.lastTag
        /\ forgiven.lastWriteCommit = tu.status.lastWriteCommit
        /\ forgiven.observedGeneration = tu.status.observedGeneration
    BY <2>1 DEF Status
  <2> HIDE DEF forgiven
  <2>3. tu'.spec = tu.spec /\ tu'.status = forgiven
    BY <1>0, <2>2, <2>4, StatusChange
  <2> QED
    BY <1>7, <2>4, <2>3, LocalKeeps DEF Healthy
<1>8. CASE StillProgressing
  BY <1>8, <1>b DEF StillProgressing
<1>9. CASE Unhealthy
  <2>1. CASE tu' = tu
    BY <1>9, <2>1, LocalKeeps DEF Unhealthy
  <2>2. CASE tu' # tu
    <3>1. tu' = [tu EXCEPT !.status = Failed(tu.status)]
      BY <1>9, <2>2 DEF Unhealthy
    <3>2. tu.status.watchingTag \in Tags
      BY <1>0, <1>9 DEF Unhealthy, TypeInv, Status
    <3>3. /\ Failed(tu.status) \in Status
          /\ Failed(tu.status).lastTag = tu.status.lastTag
          /\ Failed(tu.status).lastWriteCommit = tu.status.lastWriteCommit
          /\ Failed(tu.status).observedGeneration = tu.status.observedGeneration
      BY <1>0, <3>2, FailedType
    <3>4. tu'.spec = tu.spec /\ tu'.status = Failed(tu.status)
      BY <1>0, <3>1, <3>3, StatusChange
    <3> QED
      BY <1>9, <3>3, <3>4, LocalKeeps DEF Unhealthy
  <2> QED
    BY <2>1, <2>2
<1>10. CASE WriteRollback
  <2> DEFINE content == Render(tu, tu.status.previousTag)
  <2>1. tu.status.previousTag \in Tags \cup {NoTag} /\ tu.status.watchingTag # NoTag
    BY <1>0, <1>10 DEF WriteRollback, Status, TypeInv
  <2>2. content \in Commit
    BY <1>0, <2>1, RenderType
  <2>3. branch' = Written(branch, content)
    BY <1>10 DEF WriteRollback
  <2> HIDE DEF content
  <2>4. /\ Len(branch') \in Nat \ {0} /\ Continues(branch', branch)
        /\ branch'[Len(branch')] = content
    BY <1>0, <2>2, <2>3, WrittenGrows
  <2>5. CASE EndReconcile
    BY <1>0, <1>10, <2>4, <2>5, EndKeeps DEF WriteRollback
  <2>6. CASE ~EndReconcile
    <3> DEFINE c == Len(branch')
    <3>1. /\ tu' = [tu EXCEPT !.status = RolledBack(tu, c)]
          /\ pc' = "saveRollback" /\ fresh' = fresh
      BY <1>10, <2>6 DEF WriteRollback
    <3>2. c \in 1..Len(branch') /\ c \in Nat /\ branch'[c] = Render(tu, tu.status.previousTag)
      BY <2>4 DEF content
    <3> HIDE DEF c
    <3>3. /\ RolledBack(tu, c) \in Status
          /\ RolledBack(tu, c).lastTag = tu.status.previousTag
          /\ RolledBack(tu, c).lastWriteCommit = c
          /\ RolledBack(tu, c).observedGeneration = tu.spec.generation
      BY <1>0, <2>1, <3>2, RolledBackType
    <3>4. tu'.spec = tu.spec /\ tu'.status = RolledBack(tu, c)
      BY <1>0, <3>1, <3>3, StatusChange
    <3>5. Knows(branch', tu')
      BY <1>0, <3>2, <3>3, <3>4, NewRecord
    <3>6. Knows(branch', stored) /\ Knows(branch', cached)
      BY <1>0, <2>4, GrowthKeeps DEF RecordInv
    <3> QED
      BY <1>10, <3>1, <3>4, <3>5, <3>6 DEF WriteRollback, RecordInv
  <2> QED
    BY <2>5, <2>6
<1>11. CASE RollbackFails
  BY <1>11, <1>b DEF RollbackFails
<1>12. CASE SaveRollback
  <2>1. CASE StoreStatus(tu.status)
    BY <1>12, <2>1, StoreOwnKeeps DEF SaveRollback
  <2>2. CASE StoreRefused
    BY <1>12, <2>2, LocalKeeps DEF SaveRollback, StoreRefused
  <2> QED
    BY <1>12, <2>1, <2>2 DEF SaveRollback
<1>13. CASE SaveRollbackAgain
  <2>1. CASE StoreStatus(tu.status)
    <3>1. [tu EXCEPT !.status = tu.status] = tu
      BY <1>0 DEF Object
    <3>2. /\ Knows(branch, stored') /\ Knows(branch, cached')
          /\ synced' => cached'.spec = stored'.spec
      BY <1>0, <2>1, <3>1, StoreKeeps DEF RecordInv
    <3>3. /\ Knows(branch, tu') /\ ~fresh' /\ pc' = "idle" /\ branch' = branch
      BY <1>13, NewObjectKnows DEF SaveRollbackAgain, EndReconcile
    <3> QED
      BY <3>2, <3>3 DEF RecordInv
  <2>2. CASE StoreRefused
    BY <1>13, <2>2, <1>b DEF SaveRollbackAgain, StoreRefused
  <2> QED
    BY <1>13, <2>1, <2>2 DEF SaveRollbackAgain
<1>14. CASE SaveReleased
  <2>1. CASE StoreStatus(tu.status) /\ pc' = "list" /\ UNCHANGED local
    BY <1>14, <2>1, StoreOwnKeeps DEF SaveReleased
  <2>2. CASE StoreRefused /\ EndReconcile
    BY <1>14, <2>2, <1>b DEF SaveReleased, StoreRefused
  <2> QED
    BY <1>14, <2>1, <2>2 DEF SaveReleased
<1>15. CASE List
  BY <1>15, LocalKeeps DEF List
<1>16. CASE NothingListed
  BY <1>16, <1>b DEF NothingListed
<1>17. CASE Resolve
  BY <1>17, LocalKeeps DEF Resolve
<1>18. CASE ResolveFails
  BY <1>18, <1>b DEF ResolveFails
<1>19. CASE RemoteUnchanged
  BY <1>19, <1>b DEF RemoteUnchanged
<1>20. CASE Write
  <2>1. Render(tu, latest) \in Commit
    BY <1>0, RenderType
  <2>2. branch' = Written(branch, Render(tu, latest))
    BY <1>20 DEF Write
  <2>3. /\ Len(branch') \in Nat \ {0} /\ Continues(branch', branch)
        /\ branch'[Len(branch')] = Render(tu, latest)
    BY <1>0, <2>1, <2>2, WrittenGrows
  <2>4. CASE EndReconcile
    BY <1>0, <1>20, <2>3, <2>4, EndKeeps DEF Write
  <2>5. CASE ~EndReconcile
    <3>1. result' = Len(branch') /\ pc' = "save" /\ UNCHANGED <<tu, fresh, latest>>
      BY <1>20, <2>5 DEF Write
    <3>2. Knows(branch', stored) /\ Knows(branch', cached) /\ Knows(branch', tu)
      BY <1>0, <2>3, GrowthKeeps DEF RecordInv
    <3>3. result' \in 1..Len(branch') /\ branch'[result'] = Render(tu', latest')
      BY <2>3, <3>1
    <3> QED
      BY <1>20, <3>1, <3>2, <3>3 DEF Write, RecordInv
  <2> QED
    BY <2>4, <2>5
<1>21. CASE WriteFails
  BY <1>21, <1>b DEF WriteFails
<1>22. CASE Save
  <2>1. CASE StoreStatus(Deployed(tu, latest, result))
    <3> DEFINE status == Deployed(tu, latest, result)
               next == [tu EXCEPT !.status = status]
    <3>1. result \in 1..Len(branch) /\ result \in Nat /\ branch[result] = Render(tu, latest)
      BY <1>0, <1>22 DEF Save, RecordInv
    <3>2. /\ status \in Status
          /\ status.lastTag = latest
          /\ status.lastWriteCommit = result
          /\ status.observedGeneration = tu.spec.generation
      BY <1>0, <3>1, DeployedType
    <3>3. StoreStatus(status)
      BY <2>1
    <3> HIDE DEF status
    <3>4. next \in Object /\ next.spec = tu.spec /\ next.status = status
      BY <1>0, <3>2, StatusChange
    <3>5. Knows(branch, next)
      BY <1>0, <3>1, <3>2, <3>4, NewRecord
    <3>6. /\ Knows(branch, stored') /\ Knows(branch, cached')
          /\ synced' => cached'.spec = stored'.spec
      BY <3>2, <3>3, <3>5, StoreKeeps
    <3>7. Knows(branch, tu') /\ ~fresh' /\ pc' = "idle" /\ branch' = branch
      BY <1>22, NewObjectKnows DEF Save, EndReconcile
    <3> QED
      BY <3>6, <3>7 DEF RecordInv
  <2>2. CASE StoreRefused
    BY <1>22, <2>2, <1>b DEF Save, StoreRefused
  <2> QED
    BY <1>22, <2>1, <2>2 DEF Save
<1>23. CASE Crash
  <2>1. Knows(branch, tu') /\ ~fresh' /\ pc' = "idle"
    BY <1>23, NewObjectKnows DEF Crash, EndReconcile
  <2> QED
    BY <1>23, <2>1 DEF Crash, RecordInv
<1>24. CASE InformerSync
  BY <1>24 DEF InformerSync, RecordInv
<1>25. CASE ToggleRollback
  <2> DEFINE spec == [stored.spec EXCEPT !.rollback = ~@]
  <2>1. spec \in Settings /\ spec.generation = stored.spec.generation
    BY <1>0, TogglesSettings
  <2>2. EditSpec(spec)
    BY <1>25 DEF ToggleRollback
  <2> QED
    BY <2>1, <2>2, EditSpecKeeps
<1>26. CASE EditTargets
  <2> DEFINE spec == [stored.spec EXCEPT !.layout = @ + 1]
  <2>1. spec \in Settings /\ spec.generation = stored.spec.generation
    BY <1>0, EditsSettings
  <2>2. EditSpec(spec)
    BY <1>26 DEF EditTargets
  <2> QED
    BY <2>1, <2>2, EditSpecKeeps
<1>27. CASE PublishTag
  BY <1>27 DEF PublishTag, RecordInv
<1>28. CASE DeleteTag
  BY <1>28 DEF DeleteTag, RecordInv
<1>29. CASE ForeignPush
  <2>1. PICK c \in {Tip(branch), Manual} : branch' = Append(branch, c)
    BY <1>29 DEF ForeignPush
  <2>2. Continues(branch', branch)
    BY <1>0, <2>1 DEF Continues
  <2>3. Knows(branch', stored) /\ Knows(branch', cached) /\ Knows(branch', tu)
    BY <1>0, <2>2, GrowthKeeps DEF RecordInv
  <2>4. Len(branch) \in Nat /\ Len(branch') \in Nat
    BY <1>0
  <2> QED
    BY <1>29, <2>2, <2>3, <2>4 DEF ForeignPush, RecordInv, Continues
<1>30. CASE AppChanges
  BY <1>30 DEF AppChanges, RecordInv
<1>31. CASE Tick
  <2>1. /\ Knows(branch, stored') /\ stored'.spec = stored.spec
        /\ Knows(branch, cached') /\ cached'.spec = cached.spec
        /\ Knows(branch, tu') /\ tu'.spec = tu.spec
    BY <1>0, <1>31, AgedType, SameRecord DEF Tick, RecordInv
  <2>2. Render(tu', latest) = Render(tu, latest)
    BY <2>1 DEF Render
  <2> QED
    BY <1>31, <2>1, <2>2 DEF Tick, RecordInv
<1>32. CASE UNCHANGED vars
  BY <1>32 DEF vars, RecordInv
<1> QED
  BY <1>1, <1>2, <1>3, <1>4, <1>5, <1>6, <1>7, <1>8, <1>9, <1>10, <1>11, <1>12,
     <1>13, <1>14, <1>15, <1>16, <1>17, <1>18, <1>19, <1>20, <1>21, <1>22,
     <1>23, <1>24, <1>25, <1>26, <1>27, <1>28, <1>29, <1>30, <1>31, <1>32
     DEF Next, Reconcile, GateSteps, PipelineSteps, Environment

\* RecordInv, with the types it rests on, holds in every reachable state.
LEMMA RecordInvariant == Spec => [](TypeInv /\ RecordInv)
<1>1. Init => TypeInv /\ RecordInv
  BY InitType, InitRecord
<1>2. TypeInv /\ RecordInv /\ [Next]_vars => TypeInv' /\ RecordInv'
  BY NextType, NextRecord
<1> QED
  BY <1>1, <1>2, PTL DEF Spec

\* Every copy of the status - stored, cached, or being reconciled - is right
\* about the commits it names, however outdated it is.
THEOREM CopiesAreRight == Spec => []RecordInv
  BY RecordInvariant, PTL

\* What the stored status says was written to git is in git.
THEOREM WritesAreRecorded == Spec => []WriteRecorded
<1>1. RecordInv => WriteRecorded
  BY DEF RecordInv, Knows, WriteRecorded
<1> QED
  BY <1>1, RecordInvariant, PTL

\* Skipping the clone when the branch head is the recorded commit never leaves
\* a manifest without the values Reconcile would have written.
THEOREM ShortcutIsSound == Spec => []ShortcutSound
<1>1. TypeInv /\ RecordInv => ShortcutSound
  BY DEF RecordInv, Knows, Recorded, ShortcutSound, ShortcutApplies, Tip
<1> QED
  BY <1>1, RecordInvariant, PTL

====
