---------------------------- MODULE Observation -----------------------------
(***************************************************************************)
(* How a health watch reads an ArgoCD Application (argoCDState.observes,   *)
(* deploymentsFrom and checkHealthAndMaybeRollback in                      *)
(* internal/controller/tagupdater_controller.go).                          *)
(*                                                                         *)
(* The controller pushes a commit, arms a watch on it and polls the        *)
(* Application: first for the commit, then for the health of what it       *)
(* deployed.  ArgoCD compares the branch when it likes, rolls out what it  *)
(* compared, and keeps the last few rollouts.  Others push meanwhile, so   *)
(* that the commit may never be named by ArgoCD at all.                    *)
(*                                                                         *)
(*   - A revision is the length of the branch up to it; r carries c when   *)
(*     r >= c, because the branch only fast-forwards.                      *)
(*   - The clock counts whole seconds: both metav1.Time and ArgoCD's       *)
(*     timestamps drop the fraction, so the order of events within a       *)
(*     second is lost.                                                     *)
(*   - One Application is both observer and health reference.              *)
(***************************************************************************)
EXTENDS Integers, Sequences, FiniteSets

CONSTANTS
  Timeout,        \* spec.rollback.timeout, in seconds
  HistoryLimit,   \* the Application's spec.revisionHistoryLimit
  Staleness,      \* how old a comparison may be when its rollout begins
  Starts,         \* may a history entry have a deployStartedAt?
  MaxCommits,     \* bound: the length of the branch
  MaxTime         \* bound: the clock

ASSUME TimeoutAssumption == Timeout \in Nat \ {0}
ASSUME HistoryAssumption == HistoryLimit \in Nat \ {0}
ASSUME StalenessAssumption == Staleness \in Nat
ASSUME StartsAssumption == Starts \subseteq BOOLEAN
ASSUME BoundsAssumption == MaxCommits \in Nat \ {0} /\ MaxTime \in Nat

Unset == -1       \* an absent timestamp

VARIABLES
  head,        \* the branch
  clock,
  stage,       \* where the controller is: idle, pushed, waiting for the commit
               \* to be observed, or watching the health of its deployment
  commit,      \* WatchingCommit
  armedAt,     \* WatchingArmedAt
  since,       \* WatchingSince
  compared,    \* the Application's status.sync.revision
  comparedAt,
  operation,   \* its status.operationState
  history,     \* its status.history
  rollouts     \* history: all rollouts that have succeeded

watch == <<stage, commit, armedAt, since>>
app == <<compared, comparedAt, operation, history>>
vars == <<head, clock, watch, app, rollouts>>

Rollout == [revision : 1..MaxCommits, started : 0..MaxTime]
Operation == [phase : {"Running", "Succeeded", "Failed"}, recorded : BOOLEAN,
              rollout : Rollout]
Entry == [revision : 1..MaxCommits, deployStartedAt : 0..MaxTime \cup {Unset},
          deployedAt : 0..MaxTime]

Init ==
  /\ head = 1 /\ clock = 0
  /\ stage = "idle" /\ commit = 0 /\ armedAt = Unset /\ since = Unset
  /\ compared = 1 /\ comparedAt = 0
  /\ operation = [phase |-> "Succeeded", recorded |-> TRUE,
                  rollout |-> [revision |-> 1, started |-> 0]]
  /\ history = <<[revision |-> 1, deployStartedAt |-> 0, deployedAt |-> 0]>>
  /\ rollouts = {operation.rollout}

-----------------------------------------------------------------------------
(* Reading the Application.                                                *)

\* Mutant: a rollout is dated by its end.
StartedByItsEnd(e) == e.deployedAt

\* When a history entry's rollout began; without that, when it ended.
Started(e) == IF e.deployStartedAt = Unset THEN e.deployedAt ELSE e.deployStartedAt

\* deploymentsFrom: the history, and the current operation once it succeeded.
Deployments ==
  {[revision |-> history[i].revision, started |-> Started(history[i])] :
     i \in 1..Len(history)}
  \cup {o \in {operation.rollout} : operation.phase = "Succeeded"}

\* Mutant: ArgoCD must name the commit.
NamesCommit ==
  \/ compared = commit
  \/ \E d \in Deployments : d.revision = commit

\* observes: ArgoCD names the commit, or has rolled out since the arming.
Observes ==
  \/ compared = commit
  \/ \E d \in Deployments : d.revision = commit \/ d.started > armedAt

SyncInFlight == operation.phase = "Running"

-----------------------------------------------------------------------------
(* The controller.                                                         *)

\* Apply returns the commit it pushed, or the tip that has the values already.
Push ==
  /\ stage = "idle"
  /\ \/ head < MaxCommits /\ head' = head + 1
     \/ head' = head
  /\ commit' = head'
  /\ stage' = "pushed"
  /\ UNCHANGED <<clock, armedAt, since, app, rollouts>>

\* The watch is armed on it, some time later.
Arm ==
  /\ stage = "pushed"
  /\ armedAt' = clock /\ since' = Unset
  /\ stage' = "waiting"
  /\ UNCHANGED <<head, clock, commit, app, rollouts>>

Release ==
  /\ stage' = "idle" /\ commit' = 0 /\ armedAt' = Unset /\ since' = Unset

\* Mutant: the health clock is not started.
ObserveForgetsSince ==
  /\ stage = "waiting" /\ Observes
  /\ stage' = "watching"
  /\ UNCHANGED <<head, clock, commit, armedAt, since, app, rollouts>>

\* The Application has caught up with the commit: the health clock starts.
Observe ==
  /\ stage = "waiting" /\ Observes
  /\ since' = clock
  /\ stage' = "watching"
  /\ UNCHANGED <<head, clock, commit, armedAt, app, rollouts>>

\* abandonWatch.
Abandon ==
  /\ stage = "waiting" /\ ~Observes   \* else the poll waits 15 seconds more
  /\ clock - armedAt >= Timeout
  /\ Release
  /\ UNCHANGED <<head, clock, app, rollouts>>

\* A second read of the Application, in the same poll or a later one, says
\* Healthy.
Healthy ==
  /\ stage = "watching"
  /\ Release
  /\ UNCHANGED <<head, clock, app, rollouts>>

\* It says Degraded while no sync is in flight, or time is up: the previous
\* tag is pushed.
RollBack ==
  /\ stage = "watching"
  /\ ~SyncInFlight \/ clock - since >= Timeout
  /\ head < MaxCommits /\ head' = head + 1
  /\ Release
  /\ UNCHANGED <<clock, app, rollouts>>

-----------------------------------------------------------------------------
(* ArgoCD, the other writers, time.                                        *)

Compare ==
  /\ compared' = head /\ comparedAt' = clock
  /\ UNCHANGED <<head, clock, watch, operation, history, rollouts>>

\* A rollout of the compared revision begins, the last one being recorded.
StartSync ==
  /\ operation.phase # "Running" /\ operation.recorded
  /\ clock - comparedAt <= Staleness
  /\ operation' = [phase |-> "Running", recorded |-> FALSE,
                   rollout |-> [revision |-> compared, started |-> clock]]
  /\ UNCHANGED <<head, clock, watch, compared, comparedAt, history, rollouts>>

SyncSucceeds ==
  /\ operation.phase = "Running"
  /\ operation' = [operation EXCEPT !.phase = "Succeeded"]
  /\ rollouts' = rollouts \cup {operation.rollout}
  /\ UNCHANGED <<head, clock, watch, compared, comparedAt, history>>

SyncFails ==
  /\ operation.phase = "Running"
  /\ operation' = [operation EXCEPT !.phase = "Failed", !.recorded = TRUE]
  /\ UNCHANGED <<head, clock, watch, compared, comparedAt, history, rollouts>>

\* The history catches up with the operation and drops its oldest entry.
RecordHistory ==
  /\ operation.phase = "Succeeded" /\ ~operation.recorded
  /\ operation' = [operation EXCEPT !.recorded = TRUE]
  /\ \E hasStart \in Starts :
       LET entry == [revision |-> operation.rollout.revision,
                     deployStartedAt |-> IF hasStart THEN operation.rollout.started
                                         ELSE Unset,
                     deployedAt |-> clock]
           all == Append(history, entry)
       IN history' = IF Len(all) > HistoryLimit THEN Tail(all) ELSE all
  /\ UNCHANGED <<head, clock, watch, compared, comparedAt, rollouts>>

ForeignPush ==
  /\ head < MaxCommits /\ head' = head + 1
  /\ UNCHANGED <<clock, watch, app, rollouts>>

Tick ==
  /\ clock < MaxTime /\ clock' = clock + 1
  /\ UNCHANGED <<head, watch, app, rollouts>>

Controller == \/ Push \/ Arm \/ Observe \/ Abandon \/ Healthy \/ RollBack
ArgoCD == \/ Compare \/ StartSync \/ SyncSucceeds \/ SyncFails \/ RecordHistory

Next == Controller \/ ArgoCD \/ ForeignPush \/ Tick

Spec == Init /\ [][Next]_vars

-----------------------------------------------------------------------------
(* Properties.                                                             *)

\* Every variable holds a value of its type; a watch that is open has the
\* timestamp its deadline is counted from.
TypeOK ==
  /\ head \in 1..MaxCommits /\ clock \in 0..MaxTime
  /\ stage \in {"idle", "pushed", "waiting", "watching"}
  /\ commit \in 0..head
  /\ armedAt \in 0..clock \cup {Unset} /\ since \in 0..clock \cup {Unset}
  /\ stage \in {"waiting", "watching"} => armedAt # Unset
  /\ stage = "watching" => since # Unset
  /\ compared \in 1..head /\ comparedAt \in 0..clock
  /\ operation \in Operation
  /\ history \in Seq(Entry) /\ Len(history) \in 1..HistoryLimit
  /\ rollouts \subseteq Rollout

\* The health clock starts only when ArgoCD has reached the commit: it has
\* compared it or rolled out a revision that carries it, or else the rollout
\* accepted in its stead began no later than one stale comparison after the
\* arming.
ObservedIsReached ==
  [][stage = "waiting" /\ stage' = "watching" =>
       \/ compared >= commit
       \/ \E d \in rollouts : \/ d.revision >= commit
                              \/ d.started \in (armedAt + 1)..(armedAt + Staleness)]_vars

\* A watch is abandoned only if ArgoCD has completed no rollout begun since the
\* arming: whatever the others have pushed over the commit, and however few
\* rollouts ArgoCD keeps.
AbandonedIsUnseen ==
  [][stage = "waiting" /\ stage' = "idle" =>
       \A d \in rollouts : d.started <= armedAt]_vars

=============================================================================
