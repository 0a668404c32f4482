------------------------- MODULE ObservationProofs --------------------------
(***************************************************************************)
(* Proofs about Observation, for any timeout, any history limit, any       *)
(* staleness of comparisons and any bounds.                                *)
(*                                                                         *)
(* The argument: ArgoCD shows its newest rollout at all times, in the last *)
(* entry of the history or in the operation, and no rollout it keeps or    *)
(* has dropped began later; so nothing begun since the arming is missed    *)
(* (Shown).  And a comparison made after the arming is of the commit or of *)
(* a later one, so that only a rollout of an older comparison can fall     *)
(* short of it, and only for as long as a comparison may be used (Late).   *)
(***************************************************************************)
EXTENDS Observation, TLAPS

USE TimeoutAssumption, HistoryAssumption, StalenessAssumption,
    StartsAssumption, BoundsAssumption
    DEF Unset

Last == history[Len(history)]

\* The newest rollout is the operation's, and it is shown.
Shown ==
  /\ \A d \in rollouts : d.started <= operation.rollout.started
  /\ operation.rollout.started <= clock
  /\ operation.phase = "Running" => ~operation.recorded
  /\ operation.phase # "Succeeded" \/ operation.recorded =>
       \A d \in rollouts : d.started <= Started(Last)

\* What ArgoCD compared and rolled out since the arming carries the commit.
Late ==
  /\ commit <= head
  /\ stage = "waiting" =>
       /\ comparedAt > armedAt => compared >= commit
       /\ \A d \in rollouts \cup {operation.rollout} :
            d.started > armedAt + Staleness => d.revision >= commit

\* Every rollout ArgoCD shows has succeeded, and is dated by its beginning.
Exact ==
  /\ \A i \in 1..Len(history) : history[i].deployStartedAt # Unset
  /\ Deployments \subseteq rollouts

LEMMA InitType == Init => TypeOK
  BY DEF Init, TypeOK, Rollout, Operation, Entry

LEMMA RecordType ==
  ASSUME TypeOK, RecordHistory
  PROVE  /\ history' \in Seq(Entry) /\ Len(history') \in 1..HistoryLimit
         /\ operation' \in Operation
         /\ Last' \in Entry
         /\ Last'.revision = operation.rollout.revision
         /\ Last'.deployedAt = clock
         /\ Last'.deployStartedAt \in {operation.rollout.started, Unset}
         /\ Starts = {TRUE} => Last'.deployStartedAt = operation.rollout.started
         /\ \A i \in 1..Len(history') :
              history'[i] = Last' \/ \E j \in 1..Len(history) : history'[i] = history[j]
<1> DEFINE entry(s) == [revision |-> operation.rollout.revision,
                        deployStartedAt |-> IF s THEN operation.rollout.started
                                            ELSE Unset,
                        deployedAt |-> clock]
<1>1. PICK s \in Starts :
        LET all == Append(history, entry(s))
        IN history' = IF Len(all) > HistoryLimit THEN Tail(all) ELSE all
  BY DEF RecordHistory
<1> DEFINE e == entry(s)
           all == Append(history, e)
<1>2. /\ history \in Seq(Entry) /\ Len(history) \in 1..HistoryLimit
      /\ operation \in Operation /\ clock \in 0..MaxTime
  BY DEF TypeOK
<1>3. /\ e \in Entry /\ e.revision = operation.rollout.revision /\ e.deployedAt = clock
      /\ e.deployStartedAt \in {operation.rollout.started, Unset}
      /\ Starts = {TRUE} => e.deployStartedAt = operation.rollout.started
  <2>1. operation.rollout.revision \in 1..MaxCommits /\ operation.rollout.started \in 0..MaxTime
    BY <1>2 DEF Operation, Rollout
  <2>2. CASE s = TRUE
    BY <1>2, <2>1, <2>2 DEF Entry
  <2>3. CASE s = FALSE
    BY <1>2, <2>1, <2>3 DEF Entry
  <2> QED
    BY <2>2, <2>3
<1> HIDE DEF e
<1>4. all \in Seq(Entry) /\ Len(all) = Len(history) + 1 /\ all[Len(all)] = e
  BY <1>2, <1>3
<1>5. \A i \in 1..Len(history) : all[i] = history[i]
  BY <1>2, <1>3
<1>6. history' = IF Len(all) > HistoryLimit THEN Tail(all) ELSE all
  BY <1>1 DEF e
<1>7. /\ history' \in Seq(Entry) /\ Len(history') \in 1..HistoryLimit /\ Last' = e
      /\ \A i \in 1..Len(history') :
           history'[i] = e \/ \E j \in 1..Len(history) : history'[i] = history[j]
  <2> HIDE DEF all
  <2>1. CASE Len(all) > HistoryLimit
    <3>1. /\ history' = Tail(all) /\ Tail(all) \in Seq(Entry)
          /\ Len(Tail(all)) = Len(history)
          /\ \A i \in 1..Len(Tail(all)) : Tail(all)[i] = all[i + 1]
      BY <1>2, <1>4, <1>6, <2>1
    <3> QED
      BY <1>2, <1>4, <1>5, <3>1 DEF Last
  <2>2. CASE ~ (Len(all) > HistoryLimit)
    BY <1>2, <1>4, <1>5, <1>6, <2>2 DEF Last
  <2> QED
    BY <2>1, <2>2
<1>8. operation' \in Operation
  BY <1>2 DEF RecordHistory, Operation
<1> QED
  BY <1>3, <1>7, <1>8

LEMMA NextType == TypeOK /\ [Next]_vars => TypeOK'
<1> SUFFICES ASSUME TypeOK, [Next]_vars PROVE TypeOK'
  OBVIOUS
<1> USE DEF TypeOK, app, watch
<1>1. CASE UNCHANGED vars
  BY <1>1 DEF vars
<1>2. CASE Push
  BY <1>2 DEF Push
<1>3. CASE Arm
  BY <1>3 DEF Arm
<1>4. CASE Observe
  BY <1>4 DEF Observe
<1>5. CASE Abandon
  BY <1>5 DEF Abandon, Release
<1>6. CASE Healthy
  BY <1>6 DEF Healthy, Release
<1>7. CASE RollBack
  BY <1>7 DEF RollBack, Release
<1>8. CASE Compare
  BY <1>8 DEF Compare
<1>9. CASE StartSync
  BY <1>9 DEF StartSync, Operation, Rollout
<1>10. CASE SyncSucceeds
  BY <1>10 DEF SyncSucceeds, Operation, Rollout
<1>11. CASE SyncFails
  BY <1>11 DEF SyncFails, Operation, Rollout
<1>12. CASE RecordHistory
  <2>1. /\ history' \in Seq(Entry) /\ Len(history') \in 1..HistoryLimit
        /\ operation' \in Operation
    BY <1>12, RecordType
  <2> QED
    BY <1>12, <2>1 DEF RecordHistory
<1>13. CASE ForeignPush
  BY <1>13 DEF ForeignPush
<1>14. CASE Tick
  BY <1>14 DEF Tick
<1> QED
  BY <1>1, <1>2, <1>3, <1>4, <1>5, <1>6, <1>7, <1>8, <1>9, <1>10, <1>11, <1>12,
     <1>13, <1>14 DEF Next, Controller, ArgoCD

\* TypeOK: every variable holds a value of its type.
THEOREM TypeCorrect == Spec => []TypeOK
  BY InitType, NextType, PTL DEF Spec

-----------------------------------------------------------------------------
(* AbandonedIsUnseen.                                                      *)

LEMMA StartedType ==
  ASSUME NEW e \in Entry
  PROVE  Started(e) \in 0..MaxTime
  BY DEF Started, Entry

LEMMA InitShown == Init => Shown
  BY DEF Init, Shown, Last, Started

LEMMA NextShown == TypeOK /\ Shown /\ [Next]_vars => Shown'
<1> SUFFICES ASSUME TypeOK, Shown, [Next]_vars PROVE Shown'
  OBVIOUS
<1>0. /\ clock \in 0..MaxTime /\ operation.rollout.started \in 0..MaxTime
      /\ operation.phase \in {"Running", "Succeeded", "Failed"}
      /\ \A d \in rollouts : d.started \in 0..MaxTime
      /\ operation \in Operation
  BY DEF TypeOK, Operation, Rollout
<1>1. CASE UNCHANGED <<clock, operation, history, rollouts>>
  BY <1>1 DEF Shown, Last, Started
<1>2. CASE StartSync
  BY <1>0, <1>2 DEF StartSync, Shown, Last, Started, watch
<1>3. CASE SyncSucceeds
  <2>1. /\ operation'.rollout = operation.rollout
        /\ operation'.phase = "Succeeded" /\ operation'.recorded = operation.recorded
        /\ operation.phase = "Running"
    BY <1>0, <1>3 DEF SyncSucceeds, Operation
  <2>2. rollouts' = rollouts \cup {operation.rollout} /\ UNCHANGED <<clock, history>>
    BY <1>3 DEF SyncSucceeds
  <2>3. ~ operation.recorded
    BY <2>1 DEF Shown
  <2> QED
    BY <1>0, <2>1, <2>2, <2>3 DEF Shown, Last, Started
<1>4. CASE SyncFails
  BY <1>0, <1>4 DEF SyncFails, Shown, Last, Started, Operation, watch
<1>5. CASE RecordHistory
  <2>1. /\ operation'.rollout = operation.rollout /\ UNCHANGED <<clock, rollouts>>
        /\ operation'.phase = "Succeeded"
    BY <1>0, <1>5 DEF RecordHistory, Operation
  <2>2. Started(Last)' \in {operation.rollout.started, clock}
    BY <1>5, RecordType DEF Started
  <2> QED
    BY <1>0, <2>1, <2>2 DEF Shown
<1>6. CASE Tick
  BY <1>0, <1>6 DEF Tick, Shown, Last, Started, app
<1>7. CASE Controller \/ Compare \/ ForeignPush
  BY <1>1, <1>7 DEF Controller, Push, Arm, Observe, Abandon, Healthy, RollBack,
                    Release, Compare, ForeignPush, app
<1> QED
  BY <1>1, <1>2, <1>3, <1>4, <1>5, <1>6, <1>7 DEF Next, ArgoCD, vars, app

\* The newest rollout is among the Deployments.
LEMMA NewestIsShown ==
  ASSUME TypeOK, Shown
  PROVE  \E e \in Deployments : \A d \in rollouts : d.started <= e.started
<1>1. CASE operation.phase = "Succeeded"
  BY <1>1 DEF Shown, Deployments
<1>2. CASE operation.phase # "Succeeded"
  <2>1. Len(history) \in 1..Len(history)
    BY DEF TypeOK
  <2>2. [revision |-> Last.revision, started |-> Started(Last)] \in Deployments
    BY <2>1 DEF Deployments, Last
  <2> QED
    BY <1>2, <2>2 DEF Shown
<1> QED
  BY <1>1, <1>2

LEMMA AbandonStep ==
  ASSUME TypeOK, Shown, [Next]_vars, stage = "waiting", stage' = "idle"
  PROVE  \A d \in rollouts : d.started <= armedAt
<1>1. Abandon
  BY DEF Next, Controller, ArgoCD, Push, Arm, Observe, Healthy, RollBack, Compare,
         StartSync, SyncSucceeds, SyncFails, RecordHistory, ForeignPush, Tick,
         vars, watch
<1>2. PICK e \in Deployments : \A d \in rollouts : d.started <= e.started
  BY NewestIsShown
<1>3. ~ (e.started > armedAt)
  BY <1>1 DEF Abandon, Observes
<1>4. armedAt \in Int /\ e.started \in Int /\ \A d \in rollouts : d.started \in Int
  <2>1. \A i \in 1..Len(history) : Started(history[i]) \in 0..MaxTime
    BY StartedType DEF TypeOK
  <2>2. e.started \in Int
    BY <2>1 DEF Deployments, TypeOK, Operation, Rollout
  <2> QED
    BY <2>2 DEF TypeOK, Rollout
<1> QED
  BY <1>2, <1>3, <1>4

\* AbandonedIsUnseen: a watch is abandoned as never observed only if ArgoCD has
\* completed no rollout begun since the arming, whatever it keeps of them.
THEOREM NeverAbandonedWhenSeen == Spec => AbandonedIsUnseen
<1>1. TypeOK /\ Shown /\ [Next]_vars =>
        [stage = "waiting" /\ stage' = "idle" =>
           \A d \in rollouts : d.started <= armedAt]_vars
  BY AbandonStep
<1>2. Spec => [](TypeOK /\ Shown)
  BY InitType, InitShown, NextType, NextShown, PTL DEF Spec
<1> QED
  BY <1>1, <1>2, PTL DEF Spec, AbandonedIsUnseen

-----------------------------------------------------------------------------
(* ObservedIsReached.                                                      *)

LEMMA InitLate == Init => Late
  BY DEF Init, Late

LEMMA NextLate == TypeOK /\ Shown /\ Late /\ [Next]_vars => Late'
<1> SUFFICES ASSUME TypeOK, Shown, Late, [Next]_vars PROVE Late'
  OBVIOUS
<1>0. /\ head \in 1..MaxCommits /\ clock \in 0..MaxTime /\ commit \in 0..head
      /\ compared \in 1..head /\ comparedAt \in 0..clock
      /\ armedAt \in 0..clock \cup {Unset}
      /\ stage = "waiting" => armedAt \in 0..clock
      /\ operation.rollout.started \in 0..clock
      /\ \A d \in rollouts \cup {operation.rollout} : d.started \in 0..clock
      /\ operation \in Operation
  BY DEF TypeOK, Shown, Operation, Rollout
<1>1. CASE UNCHANGED <<commit, stage, armedAt, compared, comparedAt>>
           /\ head' \in Nat /\ head' >= head
           /\ rollouts' \cup {operation'.rollout} \subseteq rollouts \cup {operation.rollout}
  <2>1. /\ commit' = commit /\ stage' = stage /\ armedAt' = armedAt
        /\ compared' = compared /\ comparedAt' = comparedAt
    BY <1>1
  <2>2. \A d \in rollouts' \cup {operation'.rollout} :
          d \in rollouts \cup {operation.rollout}
    BY <1>1
  <2>3. commit' <= head'
    BY <1>0, <1>1, <2>1
  <2> QED
    BY <2>1, <2>2, <2>3 DEF Late
<1>2. CASE Push
  BY <1>0, <1>2 DEF Push, Late
<1>3. CASE Arm
  BY <1>0, <1>3 DEF Arm, Late, app
<1>4. CASE Observe
  BY <1>0, <1>4 DEF Observe, Late
<1>5. CASE Abandon \/ Healthy \/ RollBack
  BY <1>0, <1>5 DEF Abandon, Healthy, RollBack, Release, Late
<1>6. CASE Compare
  BY <1>0, <1>6 DEF Compare, Late, watch
<1>7. CASE StartSync
  <2>1. /\ operation'.rollout = [revision |-> compared, started |-> clock]
        /\ clock - comparedAt <= Staleness
        /\ UNCHANGED <<head, commit, stage, armedAt, compared, comparedAt, rollouts>>
    BY <1>7 DEF StartSync, watch
  <2>2. stage = "waiting" /\ clock > armedAt + Staleness => compared >= commit
    BY <1>0, <2>1 DEF Late
  <2> QED
    BY <1>0, <2>1, <2>2 DEF Late
<1>8. CASE SyncSucceeds
  BY <1>0, <1>1, <1>8 DEF SyncSucceeds, watch, Operation
<1>9. CASE SyncFails
  BY <1>0, <1>1, <1>9 DEF SyncFails, watch, Operation
<1>10. CASE RecordHistory
  BY <1>0, <1>1, <1>10 DEF RecordHistory, watch, Operation
<1>11. CASE ForeignPush
  BY <1>0, <1>1, <1>11 DEF ForeignPush, watch, app
<1>12. CASE Tick \/ UNCHANGED vars
  BY <1>0, <1>1, <1>12 DEF Tick, vars, watch, app
<1> QED
  BY <1>2, <1>3, <1>4, <1>5, <1>6, <1>7, <1>8, <1>9, <1>10, <1>11, <1>12
     DEF Next, Controller, ArgoCD

\* With a beginning in every history entry, what ArgoCD shows is exact.
LEMMA InitExact == Init => Exact
  BY DEF Init, Exact, Deployments, Started

LEMMA NextExact ==
  Starts = {TRUE} /\ TypeOK /\ Exact /\ [Next]_vars => Exact'
<1> SUFFICES ASSUME Starts = {TRUE}, TypeOK, Exact, [Next]_vars PROVE Exact'
  OBVIOUS
<1>0. operation \in Operation
  BY DEF TypeOK
<1>1. CASE UNCHANGED <<operation, history, rollouts>>
  BY <1>1 DEF Exact, Deployments, Started
<1>2. CASE StartSync
  BY <1>0, <1>2 DEF StartSync, Exact, Deployments, Started
<1>3. CASE SyncSucceeds
  <2>1. operation'.rollout = operation.rollout
    BY <1>0, <1>3 DEF SyncSucceeds, Operation
  <2> QED
    BY <1>3, <2>1 DEF SyncSucceeds, Exact, Deployments, Started
<1>4. CASE SyncFails
  BY <1>0, <1>4 DEF SyncFails, Exact, Deployments, Started, Operation
<1>5. CASE RecordHistory
  <2>1. /\ operation'.rollout = operation.rollout /\ operation'.phase = "Succeeded"
        /\ operation.phase = "Succeeded" /\ rollouts' = rollouts
    BY <1>0, <1>5 DEF RecordHistory, Operation
  <2>2. operation.rollout \in rollouts
    BY <2>1 DEF Exact, Deployments
  <2>3. operation.rollout =
          [revision |-> operation.rollout.revision, started |-> operation.rollout.started]
    BY <1>0 DEF Operation, Rollout
  <2>4. operation.rollout.started # Unset
    BY <1>0 DEF Operation, Rollout
  <2>5. ASSUME NEW i \in 1..Len(history')
        PROVE  /\ history'[i].deployStartedAt # Unset
               /\ [revision |-> history'[i].revision, started |-> Started(history'[i])]
                    \in rollouts
    <3>1. CASE history'[i] = Last'
      BY <1>5, <2>2, <2>3, <2>4, <3>1, RecordType DEF Started
    <3>2. CASE \E j \in 1..Len(history) : history'[i] = history[j]
      BY <3>2 DEF Exact, Deployments
    <3> QED
      BY <1>5, <3>1, <3>2, RecordType
  <2> QED
    BY <2>1, <2>2, <2>5 DEF Exact, Deployments, Started
<1>6. CASE Controller \/ Compare \/ ForeignPush \/ Tick \/ UNCHANGED vars
  BY <1>1, <1>6 DEF Controller, Push, Arm, Observe, Abandon, Healthy, RollBack,
                    Compare, ForeignPush, Tick, app, vars
<1> QED
  BY <1>1, <1>2, <1>3, <1>4, <1>5, <1>6 DEF Next, ArgoCD

LEMMA ObserveStep ==
  ASSUME TypeOK, Shown, Late, Exact, [Next]_vars, stage = "waiting", stage' = "watching"
  PROVE  \/ compared >= commit
         \/ \E d \in rollouts :
              \/ d.revision >= commit
              \/ d.started \in (armedAt + 1)..(armedAt + Staleness)
<1>1. Observe
  BY DEF Next, Controller, ArgoCD, Push, Arm, Abandon, Healthy, RollBack, Release,
         Compare, StartSync, SyncSucceeds, SyncFails, RecordHistory, ForeignPush,
         Tick, vars, watch
<1>2. compared \in Int /\ commit \in Int /\ armedAt \in Int
      /\ \A d \in rollouts : d.revision \in Int /\ d.started \in Int
  BY DEF TypeOK, Rollout
<1>3. CASE compared = commit
  BY <1>2, <1>3
<1>4. CASE \E d \in Deployments : d.revision = commit \/ d.started > armedAt
  <2>1. PICK d \in rollouts : d.revision = commit \/ d.started > armedAt
    BY <1>4 DEF Exact
  <2>2. d.started > armedAt + Staleness => d.revision >= commit
    BY DEF Late
  <2> QED
    BY <1>2, <2>1, <2>2
<1> QED
  BY <1>1, <1>3, <1>4 DEF Observe, Observes

\* ObservedIsReached, when every history entry has a deployStartedAt: the health
\* clock starts only for a commit that ArgoCD has reached, or one stale
\* comparison early.
THEOREM NeverObservedBeforeReached ==
  ASSUME Starts = {TRUE}
  PROVE  Spec => ObservedIsReached
<1>1. TypeOK /\ Shown /\ Late /\ Exact /\ [Next]_vars =>
        [stage = "waiting" /\ stage' = "watching" =>
           \/ compared >= commit
           \/ \E d \in rollouts :
                \/ d.revision >= commit
                \/ d.started \in (armedAt + 1)..(armedAt + Staleness)]_vars
  BY ObserveStep
<1>2. TypeOK /\ Exact /\ [Next]_vars => Exact'
  BY NextExact
<1>3. Spec => [](TypeOK /\ Shown /\ Late /\ Exact)
  BY <1>2, InitType, InitShown, InitLate, InitExact, NextType, NextShown, NextLate, PTL
     DEF Spec
<1> QED
  BY <1>1, <1>3, PTL DEF Spec, ObservedIsReached

=============================================================================
