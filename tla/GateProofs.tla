----------------------------- MODULE GateProofs -----------------------------
(***************************************************************************)
(* Proofs about the health gate and the rollback of TagUpdater.            *)
(*                                                                         *)
(* Each property needs the world to leave something alone, and nothing     *)
(* more: the theorems name it as a hypothesis on Disturbances.  The        *)
(* invariants build on one another.  WatchInv is about the object alone;   *)
(* GateInv adds that the worker has the stored object in hand; TrailInv    *)
(* relates that object to the commits on the branch.  With RolloutInv, for *)
(* a tag being selected and one being rolled back, they give the           *)
(* refinement of Rollout.                                                  *)
(***************************************************************************)
EXTENDS TagUpdaterProofs

USE TagsAssumption, TimeoutAssumption, SourceAssumption,
    DisturbancesAssumption, BoundsAssumption
    DEF NoTag, NoCommit, Unset

\* The user does not turn the rollback on or off.
RollbackStaysOn == "rollbackToggled" \notin Disturbances

\* Nor edit the spec, and a reconcile reads the current object.
CurrentCopy ==
  /\ RollbackStaysOn
  /\ "cacheLags" \notin Disturbances
  /\ "targetsEdited" \notin Disturbances

\* Nor are a push and the update that records it ever separated.
PushesAreRecorded ==
  /\ CurrentCopy
  /\ Disturbances \cap {"crash", "saveFails", "replyLost"} = {}

-----------------------------------------------------------------------------
(* What the operators on statuses do to a watch.                           *)

LEMMA ReleasedWatch ==
  ASSUME NEW status \in Status
  PROVE  /\ Released(status).watchingTag = NoTag
         /\ Released(status).lastTag = status.lastTag
         /\ Released(status).previousTag = status.previousTag
         /\ Released(status).skippedTags = status.skippedTags
  BY DEF Released, Status

LEMMA FailedWatch ==
  ASSUME NEW status \in Status, status.watchingTag \in Tags
  PROVE  /\ Failed(status).watchingTag = NoTag
         /\ Failed(status).lastTag = status.lastTag
         /\ Failed(status).previousTag = status.previousTag
         /\ Failed(status).skippedTags = status.skippedTags \cup {status.watchingTag}
<1> DEFINE released == Released(status)
<1>1. released \in Status
  BY ReleasedType
<1>2. Failed(status) = [released EXCEPT !.skippedTags = @ \cup {status.watchingTag}]
  BY DEF Failed
<1> HIDE DEF released
<1>3. /\ Failed(status).watchingTag = released.watchingTag
      /\ Failed(status).lastTag = released.lastTag
      /\ Failed(status).previousTag = released.previousTag
      /\ Failed(status).skippedTags = released.skippedTags \cup {status.watchingTag}
  BY <1>1, <1>2 DEF Status
<1> QED
  BY <1>3, ReleasedWatch DEF released

LEMMA RolledBackWatch ==
  ASSUME NEW o \in Object, NEW c \in Nat, o.status.watchingTag # NoTag
  PROVE  /\ RolledBack(o, c).watchingTag = NoTag
         /\ RolledBack(o, c).lastTag = o.status.previousTag
         /\ RolledBack(o, c).previousTag = o.status.previousTag
         /\ RolledBack(o, c).skippedTags = o.status.skippedTags \cup {o.status.watchingTag}
<1> DEFINE failed == Failed(o.status)
           wrote == Wrote(failed, o, c)
<1>1. o.status \in Status /\ o.status.watchingTag \in Tags
  BY DEF Object, Status
<1>2. failed \in Status
  BY <1>1, FailedType
<1>3. RolledBack(o, c) = [wrote EXCEPT !.lastTag = o.status.previousTag]
  BY DEF RolledBack
<1> HIDE DEF failed
<1>4. /\ wrote \in Status
      /\ wrote.watchingTag = failed.watchingTag
      /\ wrote.previousTag = failed.previousTag
      /\ wrote.skippedTags = failed.skippedTags
  BY <1>2 DEF Wrote, Status, Object, Settings
<1> HIDE DEF wrote
<1>5. /\ RolledBack(o, c).watchingTag = wrote.watchingTag
      /\ RolledBack(o, c).lastTag = o.status.previousTag
      /\ RolledBack(o, c).previousTag = wrote.previousTag
      /\ RolledBack(o, c).skippedTags = wrote.skippedTags
  BY <1>3, <1>4 DEF Status
<1> QED
  BY <1>1, <1>4, <1>5, FailedWatch DEF failed

\* With rollback on, a new tag is put under watch; a tag that stays is not.
LEMMA DeployedWatch ==
  ASSUME NEW o \in Object, o.spec.rollback, NEW t \in Tags \cup {NoTag}, NEW c \in Nat
  PROVE  LET status == Deployed(o, t, c)
         IN /\ status.lastTag = t
            /\ status.lastWriteCommit = c
            /\ status.skippedTags = o.status.skippedTags
            /\ t = o.status.lastTag =>
                 /\ status.watchingTag = o.status.watchingTag
                 /\ status.previousTag = o.status.previousTag
            /\ t # o.status.lastTag =>
                 /\ status.watchingTag = t
                 /\ status.watchingCommit = c
                 /\ status.watchingArmedAt = 0
                 /\ status.previousTag = o.status.lastTag
<1> DEFINE rotated == Rotated(o.status, t)
           armed == Armed(rotated, t, c)
<1>1. o.status \in Status /\ 0 \in Age /\ Unset \in Age
  BY DEF Object, Age
<1>2. CASE t = o.status.lastTag
  <2>1. Deployed(o, t, c) = Wrote(o.status, o, c)
    BY <1>2 DEF Deployed
  <2> QED
    BY <1>1, <1>2, <2>1 DEF Wrote, Status, Object, Settings
<1>3. CASE t # o.status.lastTag
  <2>1. Deployed(o, t, c) = Wrote(armed, o, c)
    BY <1>3 DEF Deployed
  <2>2. /\ rotated \in Status
        /\ rotated.lastTag = t /\ rotated.previousTag = o.status.lastTag
        /\ rotated.skippedTags = o.status.skippedTags
    BY <1>1 DEF Rotated, Status
  <2> HIDE DEF rotated
  <2>3. /\ armed \in Status
        /\ armed.lastTag = rotated.lastTag
        /\ armed.previousTag = rotated.previousTag
        /\ armed.skippedTags = rotated.skippedTags
        /\ armed.watchingTag = t /\ armed.watchingCommit = c /\ armed.watchingArmedAt = 0
    BY <1>1, <2>2 DEF Armed, Status
  <2> HIDE DEF armed
  <2>4. /\ Wrote(armed, o, c).lastTag = armed.lastTag
        /\ Wrote(armed, o, c).lastWriteCommit = c
        /\ Wrote(armed, o, c).previousTag = armed.previousTag
        /\ Wrote(armed, o, c).skippedTags = armed.skippedTags
        /\ Wrote(armed, o, c).watchingTag = armed.watchingTag
        /\ Wrote(armed, o, c).watchingCommit = armed.watchingCommit
        /\ Wrote(armed, o, c).watchingArmedAt = armed.watchingArmedAt
    BY <2>3 DEF Wrote, Status, Object, Settings
  <2> QED
    BY <1>3, <2>1, <2>2, <2>3, <2>4
<1> QED
  BY <1>2, <1>3

LEMMA AgedWatch ==
  ASSUME NEW o \in Object
  PROVE  /\ Aged(o).status.watchingTag = o.status.watchingTag
         /\ Aged(o).status.lastTag = o.status.lastTag
         /\ Aged(o).status.previousTag = o.status.previousTag
         /\ Aged(o).status.skippedTags = o.status.skippedTags
         /\ Aged(o).status.lastWriteCommit = o.status.lastWriteCommit
         /\ Aged(o).status.watchingCommit = o.status.watchingCommit
         /\ o.status.watchingArmedAt # Unset => Aged(o).status.watchingArmedAt # Unset
<1> DEFINE armedAt == Older(o.status.watchingArmedAt)
           since == Older(o.status.watchingSince)
           status == [o.status EXCEPT !.watchingArmedAt = armedAt,
                                      !.watchingSince = since]
<1>1. o.status.watchingArmedAt # Unset => armedAt # Unset
  BY DEF Older, Object, Status, Age
<1>2. Aged(o) = [o EXCEPT !.status = status]
  BY DEF Aged, Object, Status
<1> HIDE DEF armedAt, since
<1>3. /\ status.watchingTag = o.status.watchingTag
      /\ status.lastTag = o.status.lastTag
      /\ status.previousTag = o.status.previousTag
      /\ status.skippedTags = o.status.skippedTags
      /\ status.lastWriteCommit = o.status.lastWriteCommit
      /\ status.watchingCommit = o.status.watchingCommit
      /\ status.watchingArmedAt = armedAt
  BY DEF Object, Status
<1> HIDE DEF status
<1>4. Aged(o).status = status
  BY <1>2 DEF Object
<1> QED
  BY <1>1, <1>3, <1>4

-----------------------------------------------------------------------------
(* The watch.                                                              *)

\* o's watch, if there is one, is of what o says was deployed last.
GoodWatch(o) ==
  o.status.watchingTag # NoTag =>
    /\ o.status.watchingTag = o.status.lastTag
    /\ o.status.lastWriteCommit # NoCommit
    /\ o.status.watchingCommit = o.status.lastWriteCommit
    /\ o.status.watchingArmedAt # Unset

\* From its verdict to the end of the pipeline a reconcile has no watch.
Unwatched ==
  pc \in {"saveHealthy", "saveAbandoned", "saveRollback", "saveRollbackAgain",
          "list", "resolve", "write", "save"} => tu.status.watchingTag = NoTag

WatchInv ==
  /\ stored.spec.rollback /\ cached.spec.rollback /\ tu.spec.rollback
  /\ GoodWatch(stored) /\ GoodWatch(cached) /\ GoodWatch(tu)
  /\ Unwatched

LEMMA InitWatch == Init => WatchInv
  BY DEF Init, WatchInv, GoodWatch, Unwatched, NewObject

\* Whether a watch is good depends on nothing else in the object.
LEMMA SameWatch ==
  ASSUME NEW o, NEW p, GoodWatch(o),
         p.status.watchingTag = o.status.watchingTag,
         p.status.lastTag = o.status.lastTag,
         p.status.lastWriteCommit = o.status.lastWriteCommit,
         p.status.watchingCommit = o.status.watchingCommit,
         o.status.watchingArmedAt # Unset => p.status.watchingArmedAt # Unset
  PROVE  GoodWatch(p)
  BY DEF GoodWatch

LEMMA AgedIsGood ==
  ASSUME NEW o \in Object, GoodWatch(o)
  PROVE  GoodWatch(Aged(o))
  BY AgedWatch, SameWatch

\* A reconcile that ends leaves the stored object and its cached copy alone.
LEMMA EndWatch ==
  ASSUME WatchInv, EndReconcile, stored' = stored, cached' \in {cached, stored}
  PROVE  WatchInv'
<1>1. tu'.spec.rollback /\ GoodWatch(tu')
  BY DEF EndReconcile, NewObject, GoodWatch
<1> QED
  BY <1>1 DEF WatchInv, Unwatched, EndReconcile

\* A status update that succeeds, with a status whose watch is good.
LEMMA StoreWatch ==
  ASSUME TypeInv, WatchInv, NEW status \in Status, StoreStatus(status),
         GoodWatch([tu EXCEPT !.status = status])
  PROVE  /\ stored'.spec.rollback /\ cached'.spec.rollback
         /\ GoodWatch(stored') /\ GoodWatch(cached')
<1>1. [tu EXCEPT !.status = status].status = status
  BY StatusChange DEF TypeInv, TypeOK
<1>2. stored'.spec = stored.spec /\ stored'.status = status
  BY StatusChange DEF StoreStatus, TypeInv, TypeOK
<1>3. GoodWatch(stored')
  BY <1>1, <1>2, SameWatch
<1> QED
  BY <1>2, <1>3 DEF StoreStatus, WatchInv

\* The status of the copy in hand is saved as it is, or not at all.
LEMMA StoreOwnWatch ==
  ASSUME TypeInv, WatchInv, StoreStatus(tu.status) \/ StoreRefused,
         tu' = tu \/ EndReconcile,
         pc' \in {"list", "saveRollbackAgain"} => tu.status.watchingTag = NoTag,
         pc' \in {"idle", "health", "list", "saveRollbackAgain"}
  PROVE  WatchInv'
<1>1. [tu EXCEPT !.status = tu.status] = tu /\ tu.status \in Status
  BY DEF TypeInv, TypeOK, Object
<1>2. /\ stored'.spec.rollback /\ cached'.spec.rollback
      /\ GoodWatch(stored') /\ GoodWatch(cached')
  BY <1>1, StoreWatch DEF WatchInv, StoreRefused, api
<1>3. tu'.spec.rollback /\ GoodWatch(tu')
  BY DEF WatchInv, EndReconcile, NewObject, GoodWatch
<1>4. Unwatched'
  BY DEF Unwatched, EndReconcile, NewObject
<1> QED
  BY <1>2, <1>3, <1>4 DEF WatchInv

LEMMA NextWatch ==
  ASSUME RollbackStaysOn, TypeInv, RecordInv, WatchInv, [Next]_vars
  PROVE  WatchInv'
<1>0. /\ tu \in Object /\ tu.status \in Status /\ stored \in Object /\ cached \in Object
      /\ latest \in Tags \cup {NoTag}
  BY DEF TypeInv, TypeOK, Object
<1>a. ASSUME EndReconcile, UNCHANGED api PROVE WatchInv'
  BY <1>a, EndWatch DEF api
<1>b. ASSUME UNCHANGED <<stored, cached, tu>>,
             Unwatched' \/ (pc' = pc) \/ (pc \in {"list", "resolve", "write"})
      PROVE  WatchInv'
  BY <1>b DEF WatchInv, Unwatched
<1>c. ASSUME UNCHANGED <<stored, cached>>, tu'.spec = tu.spec, tu'.status.watchingTag = NoTag
      PROVE  WatchInv'
  BY <1>c DEF WatchInv, Unwatched, GoodWatch
<1> USE DEF api, local
<1>1. CASE Get
  BY <1>1 DEF Get, WatchInv, Unwatched, WatchOpen
<1>2. CASE Observed
  <2>1. /\ tu'.spec = tu.spec
        /\ tu'.status.watchingTag = tu.status.watchingTag
        /\ tu'.status.lastTag = tu.status.lastTag
        /\ tu'.status.lastWriteCommit = tu.status.lastWriteCommit
        /\ tu'.status.watchingCommit = tu.status.watchingCommit
        /\ tu'.status.watchingArmedAt = tu.status.watchingArmedAt
    BY <1>0, <1>2 DEF Observed, Object, Status
  <2>2. GoodWatch(tu')
    BY <2>1, SameWatch DEF WatchInv
  <2> QED
    BY <1>2, <2>1, <2>2 DEF Observed, WatchInv, Unwatched
<1>3. CASE NotObserved
  <2>1. CASE EndReconcile
    BY <1>3, <2>1, <1>a DEF NotObserved
  <2>2. CASE ~EndReconcile
    <3>1. tu' = [tu EXCEPT !.status = Released(tu.status)]
      BY <1>3, <2>2 DEF NotObserved
    <3>2. tu'.spec = tu.spec /\ tu'.status.watchingTag = NoTag
      BY <1>0, <3>1, ReleasedType, ReleasedWatch, StatusChange
    <3> QED
      BY <1>3, <1>c, <3>2 DEF NotObserved
  <2> QED
    BY <2>1, <2>2
<1>4. CASE Healthy
  <2> DEFINE released == Released(tu.status)
             forgiven == [released EXCEPT !.skippedTags = {}]
  <2>1. released \in Status /\ released.watchingTag = NoTag
    BY <1>0, ReleasedType, ReleasedWatch
  <2>2. tu' = [tu EXCEPT !.status = forgiven]
    BY <1>4 DEF Healthy
  <2> HIDE DEF released
  <2>3. forgiven \in Status /\ forgiven.watchingTag = NoTag
    BY <2>1 DEF Status
  <2> HIDE DEF forgiven
  <2>4. tu'.spec = tu.spec /\ tu'.status.watchingTag = NoTag
    BY <1>0, <2>2, <2>3, StatusChange
  <2> QED
    BY <1>4, <1>c, <2>4 DEF Healthy
<1>5. CASE Unhealthy
  <2>1. CASE tu' = tu /\ pc' = "rollback"
    BY <1>5, <1>b, <2>1 DEF Unhealthy, Unwatched
  <2>2. CASE tu' = [tu EXCEPT !.status = Failed(tu.status)]
    <3>1. tu.status.watchingTag \in Tags
      BY <1>0, <1>5 DEF Unhealthy, TypeInv, Status
    <3>2. tu'.spec = tu.spec /\ tu'.status.watchingTag = NoTag
      BY <1>0, <2>2, <3>1, FailedType, FailedWatch, StatusChange
    <3> QED
      BY <1>5, <1>c, <3>2 DEF Unhealthy
  <2> QED
    BY <1>5, <2>1, <2>2 DEF Unhealthy
<1>6. CASE WriteRollback
  <2>1. CASE EndReconcile
    BY <1>6, <2>1, <1>a DEF WriteRollback
  <2>2. CASE ~EndReconcile
    <3> DEFINE c == Len(branch')
    <3>1. tu' = [tu EXCEPT !.status = RolledBack(tu, c)]
      BY <1>6, <2>2 DEF WriteRollback
    <3>2. tu.status.watchingTag # NoTag /\ c \in Nat
      <4>1. Render(tu, tu.status.previousTag) \in Commit
        BY <1>0, RenderType DEF Status
      <4> QED
        BY <1>6, <4>1, WrittenGrows DEF WriteRollback, TypeInv, TypeOK
    <3> HIDE DEF c
    <3>3. tu'.spec = tu.spec /\ tu'.status.watchingTag = NoTag
      BY <1>0, <3>1, <3>2, RolledBackType, RolledBackWatch, StatusChange
    <3> QED
      BY <1>6, <1>c, <3>3 DEF WriteRollback
  <2> QED
    BY <2>1, <2>2
<1>7. CASE SaveSince
  BY <1>7, StoreOwnWatch DEF SaveSince, EndReconcile
<1>8. CASE SaveRollback
  BY <1>8, StoreOwnWatch DEF SaveRollback, WatchInv, Unwatched
<1>9. CASE SaveRollbackAgain
  BY <1>9, StoreOwnWatch DEF SaveRollbackAgain, EndReconcile
<1>10. CASE SaveReleased
  BY <1>10, StoreOwnWatch DEF SaveReleased, EndReconcile, WatchInv, Unwatched
<1>11. CASE Save
  <2>1. CASE StoreRefused
    BY <1>11, <1>a, <2>1 DEF Save, StoreRefused
  <2>2. CASE StoreStatus(Deployed(tu, latest, result))
    <3> DEFINE status == Deployed(tu, latest, result)
               next == [tu EXCEPT !.status = status]
    <3>1. result # NoCommit /\ result \in Nat /\ tu.status.watchingTag = NoTag /\ tu.spec.rollback
      BY <1>11 DEF Save, RecordInv, TypeInv, TypeOK, WatchInv, Unwatched
    <3>2. /\ status \in Status
          /\ status.lastTag = latest /\ status.lastWriteCommit = result
      BY <1>0, <3>1, DeployedType
    <3>3. \/ status.watchingTag = NoTag
          \/ /\ status.watchingTag = latest
             /\ status.watchingCommit = result /\ status.watchingArmedAt = 0
      BY <1>0, <3>1, DeployedWatch
    <3>4. StoreStatus(status)
      BY <2>2
    <3> HIDE DEF status
    <3>5. next.status = status
      BY <1>0, <3>2, StatusChange
    <3>6. GoodWatch(next)
      BY <3>1, <3>2, <3>3, <3>5 DEF GoodWatch
    <3>7. /\ stored'.spec.rollback /\ cached'.spec.rollback
          /\ GoodWatch(stored') /\ GoodWatch(cached')
      BY <3>2, <3>4, <3>6, StoreWatch
    <3>8. tu'.spec.rollback /\ GoodWatch(tu') /\ pc' = "idle"
      BY <1>11 DEF Save, EndReconcile, NewObject, GoodWatch
    <3> QED
      BY <3>7, <3>8 DEF WatchInv, Unwatched
  <2> QED
    BY <1>11, <2>1, <2>2 DEF Save
<1>12. CASE AlreadyObserved \/ List \/ Resolve
  BY <1>12, <1>b DEF AlreadyObserved, List, Resolve, Unwatched
<1>13. CASE AppUnreadable \/ StillProgressing \/ RollbackFails \/ NothingListed
            \/ ResolveFails \/ RemoteUnchanged \/ WriteFails
  BY <1>13, <1>a
     DEF AppUnreadable, StillProgressing, RollbackFails, NothingListed, ResolveFails,
         RemoteUnchanged, WriteFails
<1>14. CASE Write
  BY <1>14, <1>a, <1>b DEF Write
<1>15. CASE Crash
  BY <1>15, EndWatch DEF Crash
<1>16. CASE InformerSync
  BY <1>16 DEF InformerSync, WatchInv, Unwatched
<1>17. CASE ToggleRollback
  BY <1>17 DEF ToggleRollback, RollbackStaysOn
<1>18. CASE EditTargets
  <2> DEFINE spec == [stored.spec EXCEPT !.layout = @ + 1]
  <2>1. stored.spec \in Settings
    BY <1>0 DEF Object
  <2>2. /\ spec.rollback = stored.spec.rollback
        /\ [spec EXCEPT !.generation = @ + 1].rollback = stored.spec.rollback
    BY <2>1 DEF Settings
  <2>3. EditSpec(spec)
    BY <1>18 DEF EditTargets
  <2> HIDE DEF spec
  <2>4. /\ stored'.spec.rollback = stored.spec.rollback
        /\ stored'.status = stored.status
    BY <1>0, <2>2, <2>3 DEF EditSpec, Object
  <2>5. GoodWatch(stored')
    BY <2>4, SameWatch DEF WatchInv
  <2>6. cached'.spec.rollback /\ GoodWatch(cached')
    BY <2>3, <2>4, <2>5 DEF EditSpec, WatchInv
  <2> QED
    BY <2>3, <2>4, <2>5, <2>6 DEF EditSpec, WatchInv, Unwatched
<1>19. CASE PublishTag \/ DeleteTag \/ ForeignPush \/ AppChanges
  BY <1>19, <1>b DEF PublishTag, DeleteTag, ForeignPush, AppChanges
<1>20. CASE Tick
  <2>1. GoodWatch(stored') /\ GoodWatch(cached') /\ GoodWatch(tu')
    BY <1>0, <1>20, AgedIsGood DEF Tick, WatchInv
  <2>2. /\ stored'.spec = stored.spec /\ cached'.spec = cached.spec /\ tu'.spec = tu.spec
        /\ tu'.status.watchingTag = tu.status.watchingTag
    BY <1>0, <1>20, AgedType DEF Tick
  <2> QED
    BY <1>20, <2>1, <2>2 DEF Tick, WatchInv, Unwatched
<1>21. CASE UNCHANGED vars
  BY <1>21, <1>b DEF vars
<1> QED
  BY <1>1, <1>2, <1>3, <1>4, <1>5, <1>6, <1>7, <1>8, <1>9, <1>10, <1>11, <1>12,
     <1>13, <1>14, <1>15, <1>16, <1>17, <1>18, <1>19, <1>20, <1>21
     DEF Next, Reconcile, GateSteps, PipelineSteps, Environment

\* WatchInv holds in every reachable state unless the rollback is toggled.
LEMMA WatchInvariant ==
  ASSUME RollbackStaysOn
  PROVE  Spec => [](TypeInv /\ RecordInv /\ WatchInv)
<1>1. Init => WatchInv
  BY InitWatch
<1>2. TypeInv /\ RecordInv /\ WatchInv /\ [Next]_vars => WatchInv'
  BY NextWatch
<1> QED
  BY <1>1, <1>2, RecordInvariant, PTL DEF Spec

\* As long as nobody toggles spec.rollback, the tag under health observation is
\* the one the status calls deployed, and the commit ArgoCD must observe is the
\* one that deployed it: through crashes, lost answers, conflicting updates,
\* outdated copies and edits of the targets (Reconcile arms the watch with the
\* commit Apply returned; doRollback and healthGate close it).
THEOREM WatchIsOfTheLastDeploy ==
  ASSUME RollbackStaysOn
  PROVE  Spec => []WatchIsDeployed
<1>1. RecordInv /\ WatchInv => WatchIsDeployed
  BY DEF RecordInv, Knows, Recorded, WatchInv, GoodWatch, WatchIsDeployed, WatchOpen
<1> QED
  BY <1>1, WatchInvariant, PTL

-----------------------------------------------------------------------------
(* The gate.                                                               *)

\* The worker has the stored object in hand, but for what it is about to save.
GateInv ==
  /\ synced /\ cached = stored
  /\ pc # "idle" => fresh
  /\ pc \in {"observe", "health", "rollback", "list", "resolve", "write", "save"} =>
       tu = stored

LEMMA InitGate == Init => GateInv
  BY DEF Init, GateInv

\* The reconcile ends and the object stays as it is.
LEMMA EndGate ==
  ASSUME GateInv, EndReconcile, stored' = stored,
         UNCHANGED <<cached, synced>> \/ (cached' = stored /\ synced' = TRUE)
  PROVE  GateInv'
  BY DEF GateInv, EndReconcile

\* A status update that succeeds is in the cache at once.
LEMMA StoreGate ==
  ASSUME CurrentCopy, NEW status, StoreStatus(status)
  PROVE  cached' = stored' /\ synced'
  BY DEF CurrentCopy, StoreStatus

\* The copy in hand is what its own status makes of the stored object.
LEMMA StoreOwnGate ==
  ASSUME TypeInv, RecordInv, StoreStatus(tu.status)
  PROVE  stored' = tu
<1>1. stored' = [stored EXCEPT !.status = tu.status] /\ tu.spec = stored.spec
  BY DEF StoreStatus, RecordInv
<1>2. stored \in Object /\ tu \in Object
  BY DEF TypeInv, TypeOK
<1> QED
  BY <1>1, <1>2 DEF Object

LEMMA NextGate ==
  ASSUME CurrentCopy, TypeInv, RecordInv, GateInv, [Next]_vars
  PROVE  GateInv'
<1>a. ASSUME EndReconcile, UNCHANGED api PROVE GateInv'
  BY <1>a, EndGate DEF api
<1>b. ASSUME UNCHANGED <<api, tu, fresh>>,
             \/ pc' = pc
             \/ pc \in {"observe", "health", "list", "resolve", "write"} /\ pc' # "idle"
      PROVE  GateInv'
  BY <1>b DEF GateInv, api
<1>c. ASSUME UNCHANGED <<api, fresh>>, pc # "idle",
             pc' \in {"saveSince", "saveHealthy", "saveAbandoned", "saveRollback"}
      PROVE  GateInv'
  BY <1>c DEF GateInv, api
<1>d. ASSUME StoreStatus(tu.status), UNCHANGED <<tu, fresh>>, pc # "idle" PROVE GateInv'
  BY <1>d, StoreGate, StoreOwnGate DEF GateInv
<1>e. ASSUME NEW status, StoreStatus(status), EndReconcile PROVE GateInv'
  BY <1>e, StoreGate DEF GateInv, EndReconcile
<1> USE DEF local
<1>1. CASE Get
  BY <1>1 DEF Get, GateInv, api
<1>2. CASE Observed \/ Healthy
  BY <1>2, <1>c DEF Observed, Healthy
<1>3. CASE NotObserved
  BY <1>3, <1>a, <1>c DEF NotObserved
<1>4. CASE Unhealthy
  BY <1>4, <1>b, <1>c DEF Unhealthy
<1>5. CASE WriteRollback
  BY <1>5, <1>a, <1>c DEF WriteRollback
<1>6. CASE SaveSince
  BY <1>6, <1>a, <1>d DEF SaveSince, StoreRefused
<1>7. CASE SaveRollback
  <2>1. CASE StoreStatus(tu.status)
    BY <1>7, <1>d, <2>1 DEF SaveRollback
  <2>2. CASE StoreRefused /\ pc' = "saveRollbackAgain"
    BY <1>7, <2>2 DEF SaveRollback, StoreRefused, GateInv, api
  <2> QED
    BY <1>7, <2>1, <2>2 DEF SaveRollback
<1>8. CASE SaveRollbackAgain
  BY <1>8, <1>a, <1>e DEF SaveRollbackAgain, StoreRefused
<1>9. CASE SaveReleased
  BY <1>9, <1>a, <1>d DEF SaveReleased, StoreRefused
<1>10. CASE Save
  BY <1>10, <1>a, <1>e DEF Save, StoreRefused
<1>11. CASE AlreadyObserved \/ List \/ Resolve
  BY <1>11, <1>b DEF AlreadyObserved, List, Resolve
<1>12. CASE AppUnreadable \/ StillProgressing \/ RollbackFails \/ NothingListed
            \/ ResolveFails \/ RemoteUnchanged \/ WriteFails
  BY <1>12, <1>a
     DEF AppUnreadable, StillProgressing, RollbackFails, NothingListed, ResolveFails,
         RemoteUnchanged, WriteFails
<1>13. CASE Write
  BY <1>13, <1>a, <1>b DEF Write
<1>14. CASE Crash
  BY <1>14, EndGate DEF Crash
<1>15. CASE InformerSync
  BY <1>15 DEF InformerSync, GateInv
<1>16. CASE ToggleRollback \/ EditTargets
  BY <1>16 DEF ToggleRollback, EditTargets, CurrentCopy, RollbackStaysOn
<1>17. CASE PublishTag \/ DeleteTag \/ ForeignPush \/ AppChanges
  BY <1>17, <1>b DEF PublishTag, DeleteTag, ForeignPush, AppChanges
<1>18. CASE Tick
  BY <1>18 DEF Tick, GateInv
<1>19. CASE UNCHANGED vars
  BY <1>19, <1>b DEF vars
<1> QED
  BY <1>1, <1>2, <1>3, <1>4, <1>5, <1>6, <1>7, <1>8, <1>9, <1>10, <1>11, <1>12,
     <1>13, <1>14, <1>15, <1>16, <1>17, <1>18, <1>19
     DEF Next, Reconcile, GateSteps, PipelineSteps, Environment

\* The controller pushes in two places, Reconcile's Apply and doRollback's.
LEMMA PushSteps ==
  ASSUME TypeInv, Next, Pushes
  PROVE  WriteRollback \/ Write
<1>1. ASSUME UNCHANGED branch PROVE FALSE
  BY <1>1 DEF Pushes
<1>2. ASSUME ForeignPush PROVE FALSE
  BY <1>2 DEF ForeignPush, Pushes, TypeInv, TypeOK
<1>3. Reconcile => WriteRollback \/ Write
  BY <1>1 DEF Reconcile, GateSteps, PipelineSteps, Get, AppUnreadable, AlreadyObserved,
     Observed, NotObserved, SaveSince, Healthy, StillProgressing, Unhealthy, RollbackFails,
     SaveRollback, SaveRollbackAgain, SaveReleased, List, NothingListed, Resolve,
     ResolveFails, RemoteUnchanged, WriteFails, Save, world
<1>4. Environment => FALSE
  BY <1>1, <1>2 DEF Environment, Crash, InformerSync, ToggleRollback, EditTargets, EditSpec,
     PublishTag, DeleteTag, AppChanges, Tick, world
<1> QED
  BY <1>3, <1>4 DEF Next

\* GateInv holds in every reachable state when the copies are current.
LEMMA GateInvariant ==
  ASSUME CurrentCopy
  PROVE  Spec => [](TypeInv /\ RecordInv /\ WatchInv /\ GateInv)
<1>1. Init => GateInv
  BY InitGate
<1>2. TypeInv /\ RecordInv /\ GateInv /\ [Next]_vars => GateInv'
  BY NextGate
<1>3. Spec => [](TypeInv /\ RecordInv /\ WatchInv)
  BY WatchInvariant DEF CurrentCopy
<1> QED
  BY <1>1, <1>2, <1>3, PTL DEF Spec

\* While a watch is open the controller pushes nothing but the rollback of the
\* watched tag, for any fault of the process, of git or of the tag source, as
\* long as the spec is left alone and the cache is not behind (Reconcile
\* returns from healthGate while WatchingTag is set).
THEOREM GateIsHeld ==
  ASSUME CurrentCopy
  PROVE  Spec => GateHeld
<1>1. ASSUME TypeInv, WatchInv, GateInv, Next, WatchOpen(stored), Pushes
      PROVE  Tip(branch') = Render(stored, stored.status.previousTag)
  <2>1. ~Write
    BY <1>1 DEF Write, GateInv, WatchInv, Unwatched, WatchOpen
  <2>2. WriteRollback
    BY <1>1, <2>1, PushSteps
  <2>3. tu = stored /\ branch' = Written(branch, Render(tu, tu.status.previousTag))
    BY <1>1, <2>2 DEF WriteRollback, GateInv
  <2>4. Render(tu, tu.status.previousTag) \in Commit
    BY <1>1, RenderType DEF TypeInv, TypeOK, Object, Status
  <2> QED
    BY <1>1, <2>3, <2>4, WrittenGrows DEF TypeInv, TypeOK, Tip
<1>2. TypeInv /\ RecordInv /\ WatchInv /\ GateInv /\ [Next]_vars =>
        [WatchOpen(stored) /\ Pushes =>
           Tip(branch') = Render(stored, stored.status.previousTag)]_vars
  BY <1>1
<1> QED
  BY <1>2, GateInvariant, PTL DEF Spec, GateHeld

-----------------------------------------------------------------------------
(* The trail of the deployments on the branch.                             *)

\* Tag t is on the branch b, and after it nothing but tags of S.
LeftSince(b, t, S) ==
  \E i \in 1..Len(b) : b[i].tag = t /\ \A j \in (i + 1)..Len(b) : b[j].tag \in S

\* The last tag is the last on the branch; before a watched one was the
\* previous tag.
Trail(b, status) ==
  /\ status.lastTag # NoTag => LeftSince(b, status.lastTag, {NoTag})
  /\ status.watchingTag # NoTag /\ status.previousTag # NoTag =>
       LeftSince(b, status.previousTag, {NoTag, status.watchingTag})

\* The tag under watch is not skipped, and the tags of out are; none of them is
\* the last one, or the one a rollback would restore.
Shunned(out, status) ==
  /\ status.watchingTag \notin status.skippedTags
  /\ out \subseteq status.skippedTags
  /\ status.lastTag \notin out
  /\ status.watchingTag # NoTag => status.previousTag \notin out

\* Between a push and its record it is the copy in hand that is right.
TrailInv ==
  /\ pc # "saveRollbackAgain"
  /\ IF pc = "saveRollback"
     THEN Trail(branch, tu.status) /\ Shunned(condemned, tu.status)
     ELSE /\ Shunned(condemned, stored.status)
          /\ pc # "save" => Trail(branch, stored.status)
  /\ pc = "save" =>
       /\ LeftSince(branch, latest, {NoTag})
       /\ tu.status.lastTag # NoTag => LeftSince(branch, tu.status.lastTag, {NoTag, latest})
  /\ pc = "rollback" => tu.status.previousTag \notin {NoTag, tu.status.watchingTag}
  /\ pc \in {"resolve", "write", "save"} => latest \notin tu.status.skippedTags
  /\ pc \in {"saveSince", "saveHealthy", "saveAbandoned"} =>
       /\ tu.status.lastTag = stored.status.lastTag
       /\ tu.status.previousTag = stored.status.previousTag
       /\ tu.status.watchingTag \in {NoTag, stored.status.watchingTag}
       /\ tu.status.skippedTags =
            IF pc = "saveHealthy" THEN {} ELSE stored.status.skippedTags

LEMMA InitTrail == Init => TrailInv
  BY DEF Init, TrailInv, Trail, Shunned, NewObject

\* What a foreign push appends leaves the trail as it is.
LEMMA LeftForeign ==
  ASSUME NEW b \in Seq(Commit), b # <<>>, NEW t, NEW S, NoTag \in S,
         NEW c \in {Tip(b), Manual}, LeftSince(b, t, S)
  PROVE  LeftSince(Append(b, c), t, S)
<1>1. PICK i \in 1..Len(b) : b[i].tag = t /\ \A j \in (i + 1)..Len(b) : b[j].tag \in S
  BY DEF LeftSince
<1>2. /\ Len(b) \in Nat \ {0}
      /\ Len(Append(b, c)) = Len(b) + 1
      /\ \A j \in 1..Len(b) : Append(b, c)[j] = b[j]
      /\ Append(b, c)[Len(b) + 1] = c
  OBVIOUS
<1>3. CASE c.tag \in S
  <2>1. /\ i \in 1..Len(Append(b, c)) /\ Append(b, c)[i].tag = t
        /\ \A j \in (i + 1)..Len(Append(b, c)) : Append(b, c)[j].tag \in S
    BY <1>1, <1>2, <1>3
  <2> QED
    BY <2>1 DEF LeftSince
<1>4. CASE c.tag \notin S
  <2>1. c = b[Len(b)]
    BY <1>4 DEF Manual, Tip
  <2>2. i = Len(b)
    BY <1>1, <1>2, <1>4, <2>1
  <2>3. /\ Len(b) + 1 \in 1..Len(Append(b, c)) /\ Append(b, c)[Len(b) + 1].tag = t
        /\ \A j \in (Len(b) + 1 + 1)..Len(Append(b, c)) : Append(b, c)[j].tag \in S
    BY <1>1, <1>2, <2>1, <2>2
  <2> QED
    BY <2>3 DEF LeftSince
<1> QED
  BY <1>3, <1>4

\* What the writer puts on the branch is the last thing on it.
LEMMA LeftByWriter ==
  ASSUME NEW b \in Seq(Commit), b # <<>>, NEW c \in Commit
  PROVE  LeftSince(Written(b, c), c.tag, {NoTag})
<1> DEFINE n == Len(Written(b, c))
<1>1. n \in Nat \ {0} /\ Written(b, c)[n] = c
  BY WrittenGrows
<1>2. n \in 1..n /\ \A j \in (n + 1)..n : Written(b, c)[j].tag \in {NoTag}
  BY <1>1
<1> QED
  BY <1>1, <1>2 DEF LeftSince

\* And nothing but that comes after what was the last tag before.
LEMMA LeftBeforeWriter ==
  ASSUME NEW b \in Seq(Commit), b # <<>>, NEW c \in Commit, NEW t,
         LeftSince(b, t, {NoTag})
  PROVE  LeftSince(Written(b, c), t, {NoTag, c.tag})
<1>1. PICK i \in 1..Len(b) : b[i].tag = t /\ \A j \in (i + 1)..Len(b) : b[j].tag \in {NoTag}
  BY DEF LeftSince
<1>2. CASE Tip(b) = c
  BY <1>1, <1>2 DEF Written, LeftSince
<1>3. CASE Tip(b) # c
  <2>1. /\ Written(b, c) = Append(b, c)
        /\ Len(Append(b, c)) = Len(b) + 1 /\ Len(b) \in Nat
        /\ \A j \in 1..Len(b) : Append(b, c)[j] = b[j]
        /\ Append(b, c)[Len(b) + 1] = c
    BY <1>3 DEF Written
  <2>2. /\ i \in 1..Len(Append(b, c)) /\ Append(b, c)[i].tag = t
        /\ \A j \in (i + 1)..Len(Append(b, c)) : Append(b, c)[j].tag \in {NoTag, c.tag}
    BY <1>1, <2>1
  <2> QED
    BY <2>1, <2>2 DEF LeftSince
<1> QED
  BY <1>2, <1>3

\* The trail of a status depends on three of its tags, and it needs no more
\* once the watch is closed.
LEMMA SameTrail ==
  ASSUME NEW b, NEW s, NEW r, Trail(b, s),
         r.lastTag = s.lastTag,
         r.watchingTag \in {NoTag, s.watchingTag},
         r.watchingTag # NoTag => r.previousTag = s.previousTag
  PROVE  Trail(b, r)
  BY DEF Trail

LEMMA ForeignTrail ==
  ASSUME NEW b \in Seq(Commit), b # <<>>, NEW c \in {Tip(b), Manual}, NEW s, Trail(b, s)
  PROVE  Trail(Append(b, c), s)
  BY LeftForeign DEF Trail

\* The reconcile ends before it has pushed anything.
LEMMA EndTrail ==
  ASSUME TrailInv, EndReconcile, UNCHANGED <<stored, branch, condemned>>,
         pc \notin {"save", "saveRollback"}
  PROVE  TrailInv'
  BY DEF TrailInv, EndReconcile

LEMMA WriteRollbackTrail ==
  ASSUME PushesAreRecorded, TypeInv, GateInv, TrailInv, WriteRollback
  PROVE  TrailInv'
<1> DEFINE content == Render(tu, tu.status.previousTag)
           c == Len(branch')
<1>1. /\ tu \in Object /\ tu.status \in Status /\ tu.status.watchingTag \in Tags
      /\ branch \in Seq(Commit) /\ branch # <<>>
  BY DEF WriteRollback, TypeInv, TypeOK, Object, Status
<1>2. content \in Commit /\ content.tag = tu.status.previousTag
  BY <1>1, RenderType DEF Render, Status
<1>3. branch' = Written(branch, content)
  BY DEF WriteRollback
<1> HIDE DEF content
<1>4. LeftSince(branch', tu.status.previousTag, {NoTag}) /\ c \in Nat
  BY <1>1, <1>2, <1>3, LeftByWriter, WrittenGrows
<1>5. /\ tu' = [tu EXCEPT !.status = RolledBack(tu, c)] /\ pc' = "saveRollback"
      /\ condemned' = condemned \cup {tu.status.watchingTag} /\ tu = stored
  BY DEF WriteRollback, PushesAreRecorded, Fault, GateInv
<1> HIDE DEF c
<1> DEFINE s == RolledBack(tu, c)
<1>6. tu'.status = s
  BY <1>1, <1>4, <1>5, RolledBackType, StatusChange
<1>7. /\ s.watchingTag = NoTag
      /\ s.lastTag = tu.status.previousTag
      /\ s.skippedTags = tu.status.skippedTags \cup {tu.status.watchingTag}
  BY <1>1, <1>4, RolledBackWatch
<1> HIDE DEF s
<1>8. Shunned(condemned, tu.status)
  BY <1>5 DEF WriteRollback, TrailInv
<1>9. Trail(branch', s)
  BY <1>1, <1>4, <1>7 DEF Trail
<1>10. Shunned(condemned', s)
  <2>1. NoTag \notin s.skippedTags
    BY <1>1, <1>7 DEF Status
  <2>2. tu.status.previousTag \notin condemned'
    BY <1>1, <1>5, <1>8 DEF WriteRollback, TrailInv, Shunned
  <2> QED
    BY <1>5, <1>7, <1>8, <2>1, <2>2 DEF Shunned
<1> QED
  BY <1>5, <1>6, <1>9, <1>10 DEF TrailInv

LEMMA WriteTrail ==
  ASSUME PushesAreRecorded, TypeInv, WatchInv, GateInv, TrailInv, Write
  PROVE  TrailInv'
<1> DEFINE content == Render(tu, latest)
<1>1. /\ branch \in Seq(Commit) /\ branch # <<>> /\ tu = stored
      /\ branch' = Written(branch, content)
  BY DEF Write, TypeInv, TypeOK, GateInv
<1>2. content \in Commit /\ content.tag = latest
  BY RenderType DEF TypeInv, TypeOK, Render
<1> HIDE DEF content
<1>3. pc' = "save" /\ UNCHANGED <<stored, tu, latest, condemned>>
  BY DEF Write, PushesAreRecorded, Fault, api
<1>4. LeftSince(branch', latest, {NoTag})
  BY <1>1, <1>2, LeftByWriter
<1>5. tu.status.lastTag # NoTag => LeftSince(branch', tu.status.lastTag, {NoTag, latest})
  BY <1>1, <1>2, LeftBeforeWriter DEF Write, TrailInv, Trail
<1> QED
  BY <1>3, <1>4, <1>5 DEF TrailInv, Write

LEMMA SaveTrail ==
  ASSUME PushesAreRecorded, TypeInv, RecordInv, WatchInv, GateInv, TrailInv, Save
  PROVE  TrailInv'
<1> DEFINE s == Deployed(tu, latest, result)
<1>1. /\ tu \in Object /\ stored \in Object /\ tu.spec.rollback /\ tu = stored
      /\ latest \in Tags \cup {NoTag} /\ result \in Nat
      /\ tu.status \in Status /\ tu.status.watchingTag = NoTag
  BY DEF Save, TypeInv, TypeOK, Object, WatchInv, Unwatched, GateInv
<1>2. StoreStatus(s) /\ pc' = "idle" /\ UNCHANGED <<branch, condemned>>
  BY DEF Save, StoreRefused, PushesAreRecorded, Fault, GateInv, EndReconcile, world
<1>3. s \in Status
  BY <1>1, DeployedType
<1>4. /\ s.lastTag = latest
      /\ s.skippedTags = tu.status.skippedTags
      /\ s.watchingTag # NoTag => s.watchingTag = latest /\ s.previousTag = tu.status.lastTag
  <2>1. /\ s.lastTag = latest /\ s.skippedTags = tu.status.skippedTags
        /\ latest = tu.status.lastTag => s.watchingTag = tu.status.watchingTag
        /\ latest # tu.status.lastTag =>
             s.watchingTag = latest /\ s.previousTag = tu.status.lastTag
    BY <1>1, DeployedWatch
  <2> HIDE DEF s
  <2> QED
    BY <1>1, <2>1
<1> HIDE DEF s
<1>5. stored'.status = s
  BY <1>1, <1>2, <1>3, StatusChange DEF StoreStatus
<1>6. Trail(branch, s)
  BY <1>4 DEF Save, TrailInv, Trail
<1>7. Shunned(condemned, s)
  <2>1. condemned \subseteq tu.status.skippedTags /\ latest \notin tu.status.skippedTags
    BY <1>1 DEF Save, TrailInv, Shunned
  <2>2. NoTag \notin s.skippedTags
    BY <1>3 DEF Status
  <2>3. latest \notin condemned /\ tu.status.lastTag \notin condemned
    BY <1>1, <2>1 DEF Save, TrailInv, Shunned
  <2> QED
    BY <1>4, <2>1, <2>2, <2>3 DEF Shunned
<1> QED
  BY <1>2, <1>5, <1>6, <1>7 DEF TrailInv

LEMMA NextTrail ==
  ASSUME PushesAreRecorded, TypeInv, RecordInv, WatchInv, GateInv, TrailInv, [Next]_vars
  PROVE  TrailInv'
<1>0. /\ tu \in Object /\ tu.status \in Status /\ stored \in Object /\ stored.status \in Status
      /\ NoTag \notin tu.status.skippedTags /\ NoTag \notin stored.status.skippedTags
      /\ branch \in Seq(Commit) /\ branch # <<>> /\ condemned \subseteq Tags
  BY DEF TypeInv, TypeOK, Object, Status
<1>a. ASSUME EndReconcile, UNCHANGED <<api, branch, condemned>>,
             pc \notin {"save", "saveRollback"}
      PROVE  TrailInv'
  BY <1>a, EndTrail DEF api
<1>b. ASSUME UNCHANGED <<stored, tu, latest, branch, condemned>>,
             \/ pc' = pc
             \/ pc \in {"idle", "observe", "health", "resolve"} /\
                pc' \in {"observe", "health", "rollback", "write"} /\
                (pc' = "write" => pc = "resolve") /\
                (pc' = "rollback" => tu.status.previousTag \notin {NoTag, tu.status.watchingTag})
      PROVE  TrailInv'
  BY <1>b DEF TrailInv
<1>c. ASSUME StoreRefused PROVE pc = "idle"
  BY <1>c DEF StoreRefused, GateInv, PushesAreRecorded, Fault
<1> USE DEF api, local, world
<1>1. CASE Get
  BY <1>1 DEF Get, TrailInv
<1>2. CASE Observed
  <2>1. /\ tu'.status.watchingTag = tu.status.watchingTag
        /\ tu'.status.lastTag = tu.status.lastTag
        /\ tu'.status.previousTag = tu.status.previousTag
        /\ tu'.status.skippedTags = tu.status.skippedTags
    BY <1>0, <1>2 DEF Observed, Object, Status
  <2>2. tu = stored
    BY <1>2 DEF Observed, GateInv
  <2> QED
    BY <1>2, <2>1, <2>2 DEF Observed, TrailInv
<1>3. CASE NotObserved
  <2>1. CASE EndReconcile
    BY <1>3, <2>1, <1>a DEF NotObserved
  <2>2. CASE ~EndReconcile
    <3>1. tu' = [tu EXCEPT !.status = Released(tu.status)] /\ pc' = "saveAbandoned"
      BY <1>3, <2>2 DEF NotObserved
    <3>2. tu'.status = Released(tu.status)
      BY <1>0, <3>1, ReleasedType, StatusChange
    <3>3. tu = stored
      BY <1>3 DEF NotObserved, GateInv
    <3> QED
      BY <1>0, <1>3, <3>1, <3>2, <3>3, ReleasedWatch DEF NotObserved, TrailInv
  <2> QED
    BY <2>1, <2>2
<1>4. CASE Healthy
  <2> DEFINE released == Released(tu.status)
             forgiven == [released EXCEPT !.skippedTags = {}]
  <2>1. /\ released \in Status /\ released.watchingTag = NoTag
        /\ released.lastTag = tu.status.lastTag
        /\ released.previousTag = tu.status.previousTag
    BY <1>0, ReleasedType, ReleasedWatch
  <2>2. tu' = [tu EXCEPT !.status = forgiven] /\ pc' = "saveHealthy" /\ tu = stored
    BY <1>4 DEF Healthy, GateInv
  <2> HIDE DEF released
  <2>3. /\ forgiven \in Status /\ forgiven.watchingTag = NoTag
        /\ forgiven.lastTag = tu.status.lastTag
        /\ forgiven.previousTag = tu.status.previousTag
        /\ forgiven.skippedTags = {}
    BY <2>1 DEF Status
  <2> HIDE DEF forgiven
  <2>4. tu'.status = forgiven
    BY <1>0, <2>2, <2>3, StatusChange
  <2> QED
    BY <1>4, <2>2, <2>3, <2>4 DEF Healthy, TrailInv
<1>5. CASE Unhealthy
  <2>1. CASE tu' = tu /\ pc' = "rollback"
    BY <1>5, <1>b, <2>1 DEF Unhealthy
  <2>2. CASE tu' = [tu EXCEPT !.status = Failed(tu.status)] /\ pc' = "saveRollback"
    <3>1. tu.status.watchingTag \in Tags /\ tu = stored
      BY <1>0, <1>5 DEF Unhealthy, TypeInv, Status, GateInv
    <3>2. tu'.status = Failed(tu.status)
      BY <1>0, <2>2, <3>1, FailedType, StatusChange
    <3>3. /\ tu'.status.watchingTag = NoTag
          /\ tu'.status.lastTag = tu.status.lastTag
          /\ tu'.status.skippedTags = tu.status.skippedTags \cup {tu.status.watchingTag}
      BY <1>0, <3>1, <3>2, FailedWatch
    <3>4. Trail(branch, stored.status) /\ Shunned(condemned, stored.status)
      BY <1>5 DEF Unhealthy, TrailInv
    <3>5. Trail(branch, tu'.status) /\ Shunned(condemned, tu'.status)
      BY <1>0, <3>1, <3>3, <3>4, SameTrail DEF Shunned
    <3> QED
      BY <1>5, <2>2, <3>5 DEF Unhealthy, TrailInv
  <2> QED
    BY <1>5, <2>1, <2>2 DEF Unhealthy
<1>6. CASE WriteRollback
  BY <1>6, WriteRollbackTrail
<1>7. CASE SaveSince
  <2>1. stored' = tu /\ pc' = "health" /\ UNCHANGED <<tu, branch, condemned>>
    BY <1>7, <1>c, StoreOwnGate DEF SaveSince
  <2>2. Trail(branch, tu.status) /\ Shunned(condemned, tu.status)
    BY <1>0, <1>7, SameTrail DEF SaveSince, TrailInv, Shunned
  <2> QED
    BY <2>1, <2>2 DEF TrailInv
<1>8. CASE SaveRollback
  <2>1. stored' = tu /\ pc' = "list" /\ UNCHANGED <<tu, branch, condemned>>
    BY <1>8, <1>c, StoreOwnGate DEF SaveRollback
  <2> QED
    BY <1>8, <2>1 DEF SaveRollback, TrailInv
<1>9. CASE SaveRollbackAgain
  BY <1>9 DEF SaveRollbackAgain, TrailInv
<1>10. CASE SaveReleased
  <2>1. stored' = tu /\ pc' = "list" /\ UNCHANGED <<tu, branch>>
    BY <1>10, <1>c, StoreOwnGate DEF SaveReleased
  <2>2. tu.status.watchingTag = NoTag
    BY <1>10 DEF SaveReleased, WatchInv, Unwatched
  <2>3. Trail(branch, tu.status)
    BY <1>10, <2>2, SameTrail DEF SaveReleased, TrailInv
  <2>4. Shunned(condemned', tu.status)
    BY <1>0, <1>c, <1>10, <2>2 DEF SaveReleased, TrailInv, Shunned
  <2> QED
    BY <2>1, <2>3, <2>4 DEF TrailInv
<1>11. CASE Save
  BY <1>11, SaveTrail
<1>12. CASE List
  <2>1. latest' \notin tu.status.skippedTags
    BY <1>12 DEF List, Candidates
  <2> QED
    BY <1>12, <2>1 DEF List, TrailInv
<1>13. CASE AlreadyObserved \/ Resolve
  BY <1>13, <1>b DEF AlreadyObserved, Resolve
<1>14. CASE AppUnreadable \/ StillProgressing \/ RollbackFails \/ NothingListed
            \/ ResolveFails \/ RemoteUnchanged \/ WriteFails
  BY <1>14, <1>a
     DEF AppUnreadable, StillProgressing, RollbackFails, NothingListed, ResolveFails,
         RemoteUnchanged, WriteFails
<1>15. CASE Write
  BY <1>15, WriteTrail
<1>16. CASE Crash
  BY <1>16 DEF Crash, PushesAreRecorded, Fault
<1>17. CASE ToggleRollback \/ EditTargets
  BY <1>17 DEF ToggleRollback, EditTargets, PushesAreRecorded, CurrentCopy, RollbackStaysOn
<1>18. CASE InformerSync \/ PublishTag \/ DeleteTag \/ AppChanges
  BY <1>18, <1>b DEF InformerSync, PublishTag, DeleteTag, AppChanges
<1>19. CASE ForeignPush
  <2>1. PICK c \in {Tip(branch), Manual} : branch' = Append(branch, c)
    BY <1>19 DEF ForeignPush
  <2>2. \A s : Trail(branch, s) => Trail(branch', s)
    BY <1>0, <2>1, ForeignTrail
  <2>3. \A t, S : NoTag \in S /\ LeftSince(branch, t, S) => LeftSince(branch', t, S)
    BY <1>0, <2>1, LeftForeign
  <2> QED
    BY <1>19, <2>2, <2>3 DEF ForeignPush, TrailInv
<1>20. CASE Tick
  <2>1. /\ tu'.status.watchingTag = tu.status.watchingTag
        /\ tu'.status.lastTag = tu.status.lastTag
        /\ tu'.status.previousTag = tu.status.previousTag
        /\ tu'.status.skippedTags = tu.status.skippedTags
    BY <1>0, <1>20, AgedWatch DEF Tick
  <2>2. /\ stored'.status.watchingTag = stored.status.watchingTag
        /\ stored'.status.lastTag = stored.status.lastTag
        /\ stored'.status.previousTag = stored.status.previousTag
        /\ stored'.status.skippedTags = stored.status.skippedTags
    BY <1>0, <1>20, AgedWatch DEF Tick
  <2>3. /\ Trail(branch, stored.status) => Trail(branch, stored'.status)
        /\ Trail(branch, tu.status) => Trail(branch, tu'.status)
    BY <2>1, <2>2, SameTrail
  <2>4. /\ Shunned(condemned, stored.status) => Shunned(condemned, stored'.status)
        /\ Shunned(condemned, tu.status) => Shunned(condemned, tu'.status)
    BY <2>1, <2>2 DEF Shunned
  <2> QED
    BY <1>20, <2>1, <2>2, <2>3, <2>4 DEF Tick, TrailInv
<1>21. CASE UNCHANGED vars
  BY <1>21, <1>b DEF vars
<1> QED
  BY <1>1, <1>2, <1>3, <1>4, <1>5, <1>6, <1>7, <1>8, <1>9, <1>10, <1>11, <1>12,
     <1>13, <1>14, <1>15, <1>16, <1>17, <1>18, <1>19, <1>20, <1>21
     DEF Next, Reconcile, GateSteps, PipelineSteps, Environment

\* TrailInv, and what it rests on, in every reachable state.
LEMMA TrailInvariant ==
  ASSUME PushesAreRecorded
  PROVE  Spec => [](TypeInv /\ RecordInv /\ WatchInv /\ GateInv /\ TrailInv)
<1>1. Init => TrailInv
  BY InitTrail
<1>2. TypeInv /\ RecordInv /\ WatchInv /\ GateInv /\ TrailInv /\ [Next]_vars => TrailInv'
  BY NextTrail
<1>3. Spec => [](TypeInv /\ RecordInv /\ WatchInv /\ GateInv)
  BY GateInvariant DEF PushesAreRecorded
<1> QED
  BY <1>1, <1>2, <1>3, PTL DEF Spec

\* A rollback takes the branch back to the tag that was on it before the failed
\* one, whatever others pushed in between and however often the tag source, git
\* and the Applications fail (Reconcile rotates previousTag with lastTag;
\* doRollback writes previousTag).
THEOREM RollbackIsOneStepBack ==
  ASSUME PushesAreRecorded
  PROVE  Spec => RollbackUndoesLastDeploy
<1>1. ASSUME TypeInv, GateInv, TrailInv, Next, pc = "rollback", Pushes
      PROVE  \E i \in 1..Len(branch) :
               /\ branch[i].tag = Tip(branch').tag
               /\ \A j \in (i + 1)..Len(branch) :
                    branch[j].tag \in {NoTag, tu.status.watchingTag}
  <2>1. WriteRollback
    BY <1>1, PushSteps DEF Write
  <2> DEFINE content == Render(tu, tu.status.previousTag)
  <2>2. /\ tu = stored /\ branch' = Written(branch, content)
        /\ tu.status.watchingTag # NoTag
    BY <1>1, <2>1 DEF WriteRollback, GateInv, TypeInv
  <2>3. content \in Commit /\ content.tag = tu.status.previousTag
    BY <1>1, RenderType DEF TypeInv, TypeOK, Object, Status, Render
  <2>4. Tip(branch').tag = tu.status.previousTag
    BY <1>1, <2>2, <2>3, WrittenGrows DEF TypeInv, TypeOK, Tip
  <2>5. LeftSince(branch, tu.status.previousTag, {NoTag, tu.status.watchingTag})
    BY <1>1, <2>2 DEF TrailInv, Trail
  <2> QED
    BY <2>4, <2>5 DEF LeftSince
<1>2. TypeInv /\ RecordInv /\ WatchInv /\ GateInv /\ TrailInv /\ [Next]_vars =>
        [pc = "rollback" /\ Pushes =>
           \E i \in 1..Len(branch) :
             /\ branch[i].tag = Tip(branch').tag
             /\ \A j \in (i + 1)..Len(branch) :
                  branch[j].tag \in {NoTag, tu.status.watchingTag}]_vars
  BY <1>1
<1> QED
  BY <1>2, TrailInvariant, PTL DEF Spec, RollbackUndoesLastDeploy

\* A tag whose rollback has reached git is not on the branch again before
\* another deployment is found Healthy.  It is not deployed: doRollback adds it
\* to SkippedTags, which filterSkipped takes from the candidates and only Healthy
\* empties.  Nor is it restored: PreviousTag is what LastTag was, and a rollback
\* makes LastTag the tag it has restored.
THEOREM RolledBackIsNotRetried ==
  ASSUME PushesAreRecorded
  PROVE  Spec => RolledBackStaysOut
<1>1. ASSUME TypeInv, GateInv, TrailInv, Next, Pushes
      PROVE  Tip(branch').tag \notin condemned
  <2>1. /\ branch \in Seq(Commit) /\ branch # <<>>
        /\ latest \in Tags \cup {NoTag} /\ tu.status.previousTag \in Tags \cup {NoTag}
    BY <1>1 DEF TypeInv, TypeOK, Object, Status
  <2>2. ASSUME NEW t \in Tags \cup {NoTag}, t \notin condemned,
               branch' = Written(branch, Render(tu, t))
        PROVE  Tip(branch').tag \notin condemned
    <3>1. Render(tu, t) \in Commit /\ Render(tu, t).tag = t
      BY <1>1, <2>2, RenderType DEF TypeInv, TypeOK, Render
    <3>2. Tip(Written(branch, Render(tu, t))) = Render(tu, t)
      BY <2>1, <3>1, WrittenGrows DEF Tip
    <3> QED
      BY <2>2, <3>1, <3>2
  <2>3. CASE Write
    <3>1. latest \notin condemned
      BY <1>1, <2>3 DEF Write, GateInv, TrailInv, Shunned
    <3> QED
      BY <2>1, <2>2, <2>3, <3>1 DEF Write
  <2>4. CASE WriteRollback
    <3>1. tu.status.previousTag \notin condemned
      BY <1>1, <2>4 DEF WriteRollback, TypeInv, GateInv, TrailInv, Shunned
    <3> QED
      BY <2>1, <2>2, <2>4, <3>1 DEF WriteRollback
  <2> QED
    BY <1>1, <2>3, <2>4, PushSteps
<1>2. TypeInv /\ RecordInv /\ WatchInv /\ GateInv /\ TrailInv /\ [Next]_vars =>
        [Pushes => Tip(branch').tag \notin condemned]_vars
  BY <1>1
<1> QED
  BY <1>2, TrailInvariant, PTL DEF Spec, RolledBackStaysOut

-----------------------------------------------------------------------------
(* TagUpdater implements Rollout.                                          *)

\* What TrailInv leaves out: a branch this updater has not written, and the
\* watch that a verdict is about to close.
RolloutInv ==
  /\ Due.lastTag = NoTag => Blank(branch)
  /\ pc \in {"saveHealthy", "saveAbandoned"} => stored.status.watchingTag # NoTag
  /\ pc \in {"resolve", "write", "save"} => latest \in Tags

LEMMA HeldIsLast ==
  ASSUME NEW b \in Seq(Commit), NEW t, t # NoTag, LeftSince(b, t, {NoTag})
  PROVE  Held(b) = t
<1> DEFINE P(i) == b[i].tag # NoTag /\ \A j \in (i + 1)..Len(b) : b[j].tag = NoTag
<1>1. PICK i \in 1..Len(b) : b[i].tag = t /\ P(i)
  BY DEF LeftSince
<1>2. \A k \in 1..Len(b) : P(k) => k = i
  BY <1>1
<1>3. ~Blank(b)
  BY <1>1 DEF Blank
<1>4. LastOf(b) = CHOOSE k \in 1..Len(b) : P(k)
  BY DEF LastOf
<1> HIDE DEF P
<1>5. LastOf(b) = i
  BY <1>1, <1>2, <1>4
<1>6. Len(b) \in 1..Len(b) /\ (i # Len(b) => Tip(b).tag = NoTag)
  BY <1>1 DEF P, Tip
<1> QED
  BY <1>1, <1>3, <1>5, <1>6 DEF Held, Tip

LEMMA BlankForeign ==
  ASSUME NEW b \in Seq(Commit), b # <<>>, NEW c \in {Tip(b), Manual}, Blank(b)
  PROVE  Blank(Append(b, c))
  BY DEF Blank, Manual, Tip

\* What is due after a push is under way already in the copy in hand.
LEMMA DueIs ==
  ASSUME TypeInv, WatchInv, GateInv
  PROVE  /\ pc \notin {"save", "saveRollback"} => Due = stored.status
         /\ pc = "saveRollback" => Due = tu.status
         /\ pc = "save" =>
              /\ Due.lastTag = latest /\ Due.skippedTags = tu.status.skippedTags
              /\ latest = tu.status.lastTag =>
                   /\ Due.watchingTag = tu.status.watchingTag
                   /\ Due.previousTag = tu.status.previousTag
              /\ latest # tu.status.lastTag =>
                   Due.watchingTag = latest /\ Due.previousTag = tu.status.lastTag
<1>1. /\ tu \in Object /\ tu.spec.rollback
      /\ latest \in Tags \cup {NoTag} /\ result \in Nat
  BY DEF TypeInv, TypeOK, WatchInv
<1> DEFINE s == Deployed(tu, latest, result)
<1>2. /\ s.lastTag = latest /\ s.skippedTags = tu.status.skippedTags
      /\ latest = tu.status.lastTag =>
           s.watchingTag = tu.status.watchingTag /\ s.previousTag = tu.status.previousTag
      /\ latest # tu.status.lastTag =>
           s.watchingTag = latest /\ s.previousTag = tu.status.lastTag
  BY <1>1, DeployedWatch
<1>3. pc = "save" => Due = s
  BY DEF Due
<1> HIDE DEF s
<1> QED
  BY <1>2, <1>3 DEF Due

\* The branch holds the last tag.
LEMMA HeldIsDue ==
  ASSUME TypeInv, WatchInv, GateInv, TrailInv, RolloutInv
  PROVE  Held(branch) = Due.lastTag
<1>1. CASE Due.lastTag = NoTag
  <2>1. Blank(branch) /\ Len(branch) \in 1..Len(branch)
    BY <1>1 DEF RolloutInv, TypeInv, TypeOK
  <2>2. Tip(branch).tag = NoTag
    BY <2>1 DEF Blank, Tip
  <2> QED
    BY <1>1, <2>1, <2>2 DEF Held
<1>2. CASE Due.lastTag # NoTag
  <2>1. LeftSince(branch, Due.lastTag, {NoTag})
    BY <1>2, DueIs DEF TrailInv, Trail
  <2> QED
    BY <1>2, <2>1, HeldIsLast DEF TypeInv, TypeOK
<1> QED
  BY <1>1, <1>2

\* How the status due may change in a step: not at all, ...
SameRelease(s, r) ==
  /\ r.lastTag = s.lastTag /\ r.previousTag = s.previousTag
  /\ r.watchingTag = s.watchingTag /\ r.skippedTags = s.skippedTags

\* ... by the deployment of t, ...
Tries(t, s, r) ==
  /\ s.watchingTag = NoTag /\ t # s.lastTag /\ t \notin s.skippedTags
  /\ r.lastTag = t /\ r.previousTag = s.lastTag
  /\ r.watchingTag = t /\ r.skippedTags = s.skippedTags

\* ... or by the end of a watch.
Ends(s, r) ==
  /\ s.watchingTag # NoTag /\ r.watchingTag = NoTag /\ r.previousTag = s.previousTag
  /\ \/ r.lastTag = s.lastTag /\ r.skippedTags \in {{}, s.skippedTags}
     \/ /\ r.lastTag = IF s.previousTag = NoTag THEN s.lastTag ELSE s.previousTag
        /\ r.skippedTags = s.skippedTags \cup {s.watchingTag}

DueStep ==
  \/ SameRelease(Due, Due')
  \/ \E t \in Tags : Tries(t, Due, Due')
  \/ Ends(Due, Due')

\* The tag of a commit by this updater is on the branch; other steps leave it.
BranchStep ==
  \/ Due'.lastTag # NoTag
  \/ Due'.lastTag = Due.lastTag /\ (UNCHANGED branch \/ ForeignPush)

LEMMA WriteTries ==
  ASSUME PushesAreRecorded, TypeInv, TypeInv', WatchInv, GateInv, TrailInv, RolloutInv, Write
  PROVE  DueStep /\ BranchStep /\ pc' = "save" /\ latest' \in Tags
<1> DEFINE r == Deployed(tu, latest, result')
<1>1. /\ pc = "write" /\ pc' = "save" /\ UNCHANGED <<tu, latest, stored>>
  BY DEF Write, PushesAreRecorded, Fault, api
<1>2. /\ latest \in Tags /\ latest # NoTag /\ latest \notin tu.status.skippedTags
      /\ tu = stored /\ tu.status.watchingTag = NoTag
      /\ tu \in Object /\ tu.spec.rollback /\ result' \in Nat
  BY <1>1 DEF RolloutInv, TrailInv, GateInv, WatchInv, Unwatched, TypeInv, TypeOK
<1>3. Due = tu.status /\ Due' = r
  BY <1>1, <1>2 DEF Due
<1>4. /\ r.lastTag = latest /\ r.skippedTags = tu.status.skippedTags
      /\ latest = tu.status.lastTag =>
           r.watchingTag = tu.status.watchingTag /\ r.previousTag = tu.status.previousTag
      /\ latest # tu.status.lastTag =>
           r.watchingTag = latest /\ r.previousTag = tu.status.lastTag
  BY <1>2, DeployedWatch
<1> HIDE DEF r
<1>5. CASE latest = tu.status.lastTag
  <2>1. SameRelease(tu.status, r)
    BY <1>4, <1>5 DEF SameRelease
  <2> QED
    BY <1>1, <1>2, <1>3, <1>4, <2>1 DEF DueStep, BranchStep
<1>6. CASE latest # tu.status.lastTag
  <2>1. Tries(latest, tu.status, r)
    BY <1>2, <1>4, <1>6 DEF Tries
  <2> QED
    BY <1>1, <1>2, <1>3, <1>4, <2>1 DEF DueStep, BranchStep
<1> QED
  BY <1>5, <1>6

LEMMA WriteRollbackEnds ==
  ASSUME PushesAreRecorded, TypeInv, TypeInv', GateInv, TrailInv, WriteRollback
  PROVE  DueStep /\ BranchStep /\ pc' = "saveRollback"
<1> DEFINE c == Len(branch')
           s == RolledBack(tu, c)
<1>1. /\ tu \in Object /\ tu.status.watchingTag # NoTag /\ tu.status.previousTag # NoTag
      /\ tu = stored /\ pc = "rollback"
  BY DEF WriteRollback, TypeInv, TypeOK, GateInv, TrailInv
<1>2. c \in Nat
  BY DEF TypeInv, TypeOK
<1>3. tu' = [tu EXCEPT !.status = s] /\ pc' = "saveRollback"
  BY DEF WriteRollback, PushesAreRecorded, Fault
<1> HIDE DEF c
<1>4. /\ s.watchingTag = NoTag
      /\ s.lastTag = tu.status.previousTag /\ s.previousTag = tu.status.previousTag
      /\ s.skippedTags = tu.status.skippedTags \cup {tu.status.watchingTag}
  BY <1>1, <1>2, RolledBackWatch
<1>5. tu'.status = s
  BY <1>1, <1>2, <1>3, RolledBackType, StatusChange
<1> HIDE DEF s
<1>6. Due = tu.status /\ Due' = s
  BY <1>1, <1>3, <1>5 DEF Due
<1> QED
  BY <1>1, <1>3, <1>4, <1>6 DEF DueStep, Ends, BranchStep

\* The two parts of RolloutInv about the copy in hand.
Closing == pc \in {"saveHealthy", "saveAbandoned"} => stored.status.watchingTag # NoTag
Chosen == pc \in {"resolve", "write", "save"} => latest \in Tags

LEMMA NextDue ==
  ASSUME PushesAreRecorded, TypeInv, TypeInv', RecordInv, WatchInv, GateInv, TrailInv,
         RolloutInv, [Next]_vars
  PROVE  DueStep /\ BranchStep /\ Closing' /\ Chosen'
<1>0. /\ tu \in Object /\ tu.status \in Status /\ stored \in Object /\ stored.status \in Status
      /\ source \subseteq Tags /\ latest \in Tags \cup {NoTag} /\ result \in Nat
  BY DEF TypeInv, TypeOK, Object
<1>a. \A s : SameRelease(s, s)
  BY DEF SameRelease
<1>b. ASSUME SameRelease(Due, Due'), UNCHANGED branch, Closing', Chosen'
      PROVE  DueStep /\ BranchStep /\ Closing' /\ Chosen'
  BY <1>b DEF SameRelease, DueStep, BranchStep
<1>c. ASSUME UNCHANGED <<stored, branch, latest>>,
             pc \notin {"save", "saveRollback"}, pc' \notin {"save", "saveRollback"},
             pc' \in {"saveHealthy", "saveAbandoned"} => pc \in {"observe", "health"},
             pc' \in {"resolve", "write"} => pc = "resolve"
      PROVE  DueStep /\ BranchStep /\ Closing' /\ Chosen'
  <2>1. Due = stored.status /\ Due' = stored.status
    BY <1>c DEF Due
  <2>2. Closing'
    BY <1>c DEF Closing, GateInv, TypeInv
  <2>3. Chosen'
    BY <1>c DEF Chosen, RolloutInv
  <2> QED
    BY <1>a, <1>b, <1>c, <2>1, <2>2, <2>3
<1>d. ASSUME EndReconcile, UNCHANGED <<stored, branch>>, pc \notin {"save", "saveRollback"}
      PROVE  DueStep /\ BranchStep /\ Closing' /\ Chosen'
  <2>1. pc' = "idle" /\ Due = stored.status /\ Due' = stored.status
    BY <1>d DEF Due, EndReconcile
  <2> QED
    BY <1>a, <1>b, <1>d, <2>1 DEF Closing, Chosen
<1>e. ASSUME StoreRefused PROVE pc = "idle"
  BY <1>e DEF StoreRefused, GateInv, PushesAreRecorded, Fault
<1>f. ASSUME UNCHANGED <<stored, pc, tu, latest, result>>, UNCHANGED branch \/ ForeignPush
      PROVE  DueStep /\ BranchStep /\ Closing' /\ Chosen'
  <2>1. Due' = Due
    BY <1>f DEF Due
  <2>2. Closing' /\ Chosen'
    BY <1>f DEF RolloutInv, Closing, Chosen
  <2> QED
    BY <1>a, <1>f, <2>1, <2>2 DEF DueStep, BranchStep
<1> USE DEF api, local, world
<1>1. CASE Get \/ AlreadyObserved \/ Resolve
  BY <1>1, <1>c DEF Get, AlreadyObserved, Resolve
<1>2. CASE Observed
  BY <1>2, <1>c DEF Observed
<1>3. CASE NotObserved
  <2>1. CASE EndReconcile
    BY <1>3, <1>d, <2>1 DEF NotObserved
  <2>2. CASE ~EndReconcile
    BY <1>3, <1>c, <2>2 DEF NotObserved
  <2> QED
    BY <2>1, <2>2
<1>4. CASE Healthy
  BY <1>4, <1>c DEF Healthy
<1>5. CASE Unhealthy
  <2>1. CASE pc' = "rollback"
    BY <1>5, <1>c, <2>1 DEF Unhealthy
  <2>2. CASE pc' # "rollback"
    <3>1. /\ tu.status.previousTag \in {NoTag, tu.status.watchingTag}
          /\ tu' = [tu EXCEPT !.status = Failed(tu.status)] /\ pc' = "saveRollback"
          /\ pc = "health" /\ UNCHANGED branch
      BY <1>5, <2>2 DEF Unhealthy
    <3>2. tu = stored /\ tu.status.watchingTag \in Tags /\ tu.status.watchingTag # NoTag
      BY <1>0, <3>1 DEF GateInv, TypeInv, Status
    <3>3. tu'.status = Failed(tu.status)
      BY <1>0, <3>1, <3>2, FailedType, StatusChange
    <3>4. Due = tu.status /\ Due' = Failed(tu.status)
      BY <3>1, <3>2, <3>3 DEF Due
    <3>5. tu.status.previousTag # NoTag => tu.status.lastTag = tu.status.previousTag
      BY <3>1, <3>2 DEF WatchInv, GoodWatch
    <3>6. Ends(tu.status, Failed(tu.status)) /\ Failed(tu.status).lastTag = tu.status.lastTag
      BY <1>0, <3>2, <3>5, FailedWatch DEF Ends
    <3> QED
      BY <3>1, <3>4, <3>6 DEF DueStep, BranchStep, Closing, Chosen
  <2> QED
    BY <2>1, <2>2
<1>6. CASE WriteRollback
  BY <1>6, WriteRollbackEnds DEF Closing, Chosen
<1>7. CASE SaveSince
  <2>1. stored' = tu /\ pc = "saveSince" /\ pc' = "health" /\ UNCHANGED branch
    BY <1>7, <1>e, StoreOwnGate DEF SaveSince
  <2>2. SameRelease(stored.status, tu.status)
    BY <2>1 DEF SameRelease, TrailInv, TypeInv
  <2>3. Due = stored.status /\ Due' = tu.status
    BY <2>1 DEF Due
  <2> QED
    BY <1>b, <2>1, <2>2, <2>3 DEF Closing, Chosen
<1>8. CASE SaveRollback
  <2>1. stored' = tu /\ pc = "saveRollback" /\ pc' = "list" /\ UNCHANGED branch
    BY <1>8, <1>e, StoreOwnGate DEF SaveRollback
  <2>2. Due = tu.status /\ Due' = tu.status
    BY <2>1 DEF Due
  <2> QED
    BY <1>a, <1>b, <2>1, <2>2 DEF Closing, Chosen
<1>9. CASE SaveRollbackAgain
  BY <1>9 DEF SaveRollbackAgain, TrailInv
<1>10. CASE SaveReleased
  <2>1. /\ stored' = tu /\ pc \in {"saveHealthy", "saveAbandoned"} /\ pc' = "list"
        /\ UNCHANGED branch
    BY <1>10, <1>e, StoreOwnGate DEF SaveReleased
  <2>2. Due = stored.status /\ Due' = tu.status
    BY <2>1 DEF Due
  <2>3. stored.status.watchingTag # NoTag /\ tu.status.watchingTag = NoTag
    BY <2>1 DEF RolloutInv, WatchInv, Unwatched
  <2>4. Ends(stored.status, tu.status) /\ tu.status.lastTag = stored.status.lastTag
    BY <2>1, <2>3 DEF Ends, TrailInv
  <2> QED
    BY <2>1, <2>2, <2>4 DEF DueStep, BranchStep, Closing, Chosen
<1>11. CASE Save
  <2> DEFINE s == Deployed(tu, latest, result)
  <2>1. StoreStatus(s) /\ pc = "save" /\ pc' = "idle" /\ UNCHANGED branch
    BY <1>11, <1>e DEF Save, EndReconcile
  <2>2. stored'.status = s
    BY <1>0, <2>1, DeployedType, StatusChange DEF StoreStatus
  <2>3. Due = s /\ Due' = s
    BY <2>1, <2>2 DEF Due
  <2> HIDE DEF s
  <2> QED
    BY <1>a, <1>b, <2>1, <2>3 DEF Closing, Chosen
<1>12. CASE List
  <2>1. latest' \in Tags /\ pc = "list" /\ pc' = "resolve" /\ UNCHANGED <<stored, branch>>
    BY <1>0, <1>12 DEF List, Candidates
  <2>2. Due = stored.status /\ Due' = stored.status
    BY <2>1 DEF Due
  <2> QED
    BY <1>a, <1>b, <2>1, <2>2 DEF Closing, Chosen
<1>13. CASE AppUnreadable \/ StillProgressing \/ RollbackFails \/ NothingListed
            \/ ResolveFails \/ RemoteUnchanged \/ WriteFails
  BY <1>13, <1>d
     DEF AppUnreadable, StillProgressing, RollbackFails, NothingListed, ResolveFails,
         RemoteUnchanged, WriteFails
<1>14. CASE Write
  BY <1>14, WriteTries DEF Closing, Chosen
<1>15. CASE Crash
  BY <1>15 DEF Crash, PushesAreRecorded, Fault
<1>16. CASE ToggleRollback \/ EditTargets
  BY <1>16 DEF ToggleRollback, EditTargets, PushesAreRecorded, CurrentCopy, RollbackStaysOn
<1>17. CASE InformerSync \/ PublishTag \/ DeleteTag \/ AppChanges \/ ForeignPush
  BY <1>17, <1>f DEF InformerSync, PublishTag, DeleteTag, AppChanges, ForeignPush
<1>18. CASE Tick
  <2>1. /\ tu' = Aged(tu) /\ stored' = Aged(stored)
        /\ UNCHANGED <<pc, latest, result, branch>>
    BY <1>18 DEF Tick
  <2>2. SameRelease(tu.status, tu'.status) /\ SameRelease(stored.status, stored'.status)
    BY <1>0, <2>1, AgedWatch DEF SameRelease
  <2>3. ASSUME pc = "save" PROVE SameRelease(Deployed(tu, latest, result), Deployed(tu', latest, result))
    <3>1. tu' \in Object /\ tu.spec.rollback /\ tu'.spec.rollback
      BY <1>0, <2>1 DEF TypeInv, TypeOK, WatchInv, Aged, Object
    <3>2. SameRelease(tu.status, tu'.status)
      BY <2>2
    <3> QED
      BY <1>0, <3>1, <3>2, DeployedWatch DEF SameRelease
  <2>4. SameRelease(Due, Due')
    BY <2>1, <2>2, <2>3 DEF Due
  <2>5. Closing' /\ Chosen'
    BY <2>1, <2>2 DEF Closing, Chosen, RolloutInv, SameRelease
  <2> QED
    BY <1>b, <2>1, <2>4, <2>5
<1>19. CASE UNCHANGED vars
  BY <1>19, <1>f DEF vars
<1> QED
  BY <1>1, <1>2, <1>3, <1>4, <1>5, <1>6, <1>7, <1>8, <1>9, <1>10, <1>11, <1>12,
     <1>13, <1>14, <1>15, <1>16, <1>17, <1>18, <1>19
     DEF Next, Reconcile, GateSteps, PipelineSteps, Environment

LEMMA InitRollout == Init => RolloutInv
<1> SUFFICES ASSUME Init PROVE RolloutInv
  OBVIOUS
<1>1. Blank(branch)
  BY DEF Init, Blank, Manual
<1> QED
  BY <1>1 DEF Init, RolloutInv

LEMMA NextRollout ==
  ASSUME TypeInv, RolloutInv, BranchStep, Closing', Chosen'
  PROVE  RolloutInv'
<1>1. ASSUME Due'.lastTag = NoTag PROVE Blank(branch')
  <2>1. Blank(branch) /\ (UNCHANGED branch \/ ForeignPush)
    BY <1>1 DEF BranchStep, RolloutInv
  <2>2. CASE ForeignPush
    BY <2>1, <2>2, BlankForeign DEF ForeignPush, TypeInv, TypeOK
  <2> QED
    BY <2>1, <2>2
<1> QED
  BY <1>1 DEF RolloutInv, Closing, Chosen

LEMMA RolloutInvariant ==
  ASSUME PushesAreRecorded
  PROVE  Spec => [](TypeInv /\ RecordInv /\ WatchInv /\ GateInv /\ TrailInv /\ RolloutInv)
<1>1. TypeInv /\ TypeInv' /\ RecordInv /\ WatchInv /\ GateInv /\ TrailInv /\ RolloutInv
        /\ [Next]_vars => RolloutInv'
  BY NextDue, NextRollout
<1> QED
  BY <1>1, InitRollout, TrailInvariant, PTL DEF Spec

\* Where the branch holds the last tag, a step of the status due is Rollout's.
LEMMA DueStepIsRollout ==
  ASSUME DueStep, Held(branch) = Due.lastTag, Held(branch') = Due'.lastTag
  PROVE  [Promise!Next]_Promise!vars
<1>1. CASE SameRelease(Due, Due')
  BY <1>1 DEF SameRelease, Promise!vars
<1>2. ASSUME NEW t \in Tags, Tries(t, Due, Due') PROVE Promise!Try
  BY <1>2 DEF Tries, Promise!Try
<1>3. CASE Ends(Due, Due')
  <2>1. CASE Due'.lastTag = Due.lastTag /\ Due'.skippedTags \in {{}, Due.skippedTags}
    BY <1>3, <2>1 DEF Ends, Promise!Next, Promise!End, Promise!Accept, Promise!Abandon
  <2>2. CASE Due.previousTag = NoTag /\ Due'.lastTag = Due.lastTag
             /\ Due'.skippedTags = Due.skippedTags \cup {Due.watchingTag}
    BY <1>3, <2>2 DEF Ends, Promise!Next, Promise!End, Promise!Keep
  <2>3. CASE Due.previousTag # NoTag /\ Due'.lastTag = Due.previousTag
             /\ Due'.skippedTags = Due.skippedTags \cup {Due.watchingTag}
    BY <1>3, <2>3 DEF Ends, Promise!Next, Promise!End, Promise!RollBack
  <2> QED
    BY <1>3, <2>1, <2>2, <2>3 DEF Ends
<1> QED
  BY <1>1, <1>2, <1>3 DEF DueStep, Promise!Next

\* With rollback on and no push parted from its record, what Reconcile, its
\* health gate and doRollback do to the branch is Rollout: tags are tried one
\* at a time, one that was rejected is not tried before another is accepted,
\* and a rejected one gives way to its predecessor on the branch in the step
\* that rejects it.  Whatever others push, git or the tag source refuses and
\* ArgoCD reports.
THEOREM ReleasesAreTried ==
  ASSUME PushesAreRecorded
  PROVE  Spec => OneTrialAtATime
<1> DEFINE Inv == TypeInv /\ RecordInv /\ WatchInv /\ GateInv /\ TrailInv /\ RolloutInv
           HeldOn == Held(branch) = Due.lastTag
<1>1. Inv => HeldOn
  BY HeldIsDue
<1>2. Init => Promise!Init
  <2> SUFFICES ASSUME Init PROVE Promise!Init
    OBVIOUS
  <2>1. Held(branch) = NoTag
    BY DEF Init, Held, Blank, Manual, Tip
  <2>2. Due = NewObject.status
    BY DEF Init, Due
  <2> QED
    BY <2>1, <2>2 DEF Promise!Init, NewObject
<1>3. Inv /\ Inv' /\ HeldOn /\ HeldOn' /\ [Next]_vars => [Promise!Next]_Promise!vars
  <2> SUFFICES ASSUME Inv, Inv', HeldOn, HeldOn', [Next]_vars
               PROVE  [Promise!Next]_Promise!vars
    OBVIOUS
  <2>1. DueStep
    BY NextDue
  <2> QED
    BY <2>1, DueStepIsRollout
<1> QED
  BY <1>1, <1>2, <1>3, RolloutInvariant, PTL DEF Spec, OneTrialAtATime, Promise!Spec
=============================================================================
