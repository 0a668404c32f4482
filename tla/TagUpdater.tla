----------------------------- MODULE TagUpdater -----------------------------
(***************************************************************************)
(* The reconcile loop of one TagUpdater, with its health gate and its      *)
(* git-only rollback (internal/controller/tagupdater_controller.go).       *)
(*                                                                         *)
(* One worker reconciles the object.  A reconcile reads a copy of it from  *)
(* the informer cache, then runs to its end in steps between which the     *)
(* rest of the world moves: tags are published and deleted, other writers  *)
(* push to the manifest branch, users edit the spec, ArgoCD deploys, time  *)
(* passes, the process dies.  Everything that survives the process is in   *)
(* the object's status and in the manifest branch, and the two are written *)
(* by separate steps that can fail separately.                             *)
(*                                                                         *)
(*   - A tag is its build number, what the matcher's n group captures;     *)
(*     Newest is Matcher.Latest on numeric captures.                       *)
(*   - The manifest branch is the sequence of its commits, a commit being  *)
(*     the value of the fields this updater owns.  A commit is named by    *)
(*     its position: the branch only fast-forwards.                        *)
(*   - Writer.Apply and Writer.RemoteHead are single steps here.           *)
(*   - A timestamp is its age, saturating at the rollback timeout, the     *)
(*     only age the code compares with.                                    *)
(*   - What ArgoCD reports is any value at every read, so that whatever    *)
(*     holds here holds for every ArgoCD.                                  *)
(*   - Conditions, events and digests are not part of this module, and     *)
(*     the object's configuration is valid.                                *)
(***************************************************************************)
EXTENDS Integers, Sequences, FiniteSets

CONSTANTS
  Tags,           \* the build numbers that may be published
  Timeout,        \* spec.rollback.timeout, in ticks
  GitSource,      \* the tag source is git: a tag is pinned to its commit sha
  Disturbances,   \* what may go wrong or change under the controller
  MaxFaults,      \* bound: how many faults the run may inject
  MaxForeign,     \* bound: pushes by other writers of the branch
  MaxGeneration   \* bound: metadata.generation, one more per spec edit

\* The faults, then the changes other actors make.
FaultKinds == {"crash", "saveFails", "sourceFails", "pushFails", "replyLost",
               "tagDeleted"}
ChangeKinds == {"cacheLags", "rollbackToggled", "targetsEdited", "appUnreadable"}

ASSUME TagsAssumption == Tags \subseteq Nat \ {0}
ASSUME TimeoutAssumption == Timeout \in Nat \ {0}
ASSUME SourceAssumption == GitSource \in BOOLEAN
ASSUME DisturbancesAssumption == Disturbances \subseteq FaultKinds \cup ChangeKinds
ASSUME BoundsAssumption == /\ MaxFaults \in Nat
                           /\ MaxForeign \in Nat
                           /\ MaxGeneration \in Nat

NoTag == 0        \* the empty string, where a tag is expected
NoCommit == 0     \* the empty string, where a commit SHA is expected
Unset == -1       \* a nil *metav1.Time

VARIABLES
  stored,      \* the TagUpdater object held by the API server
  cached,      \* the informer cache's copy of it
  synced,      \* the cache holds the current resourceVersion
  pc,          \* where the worker is in Reconcile
  tu,          \* the copy being reconciled
  fresh,       \* tu carries the current resourceVersion
  latest,      \* the tag Reconcile selected
  result,      \* the commit SHA Writer.Apply returned
  branch,      \* the manifest branch
  source,      \* the tags published in the tag source
  appUp,       \* the ArgoCD Applications can be read
  faults,      \* faults left to inject
  foreign,     \* pushes left to the other writers
  condemned    \* history: tags rolled back in git since the last Healthy
               \* verdict on another tag

api == <<stored, cached, synced>>
local == <<tu, fresh, latest, result>>
world == <<branch, source, appUp, foreign>>
vars == <<api, pc, local, world, faults, condemned>>

-----------------------------------------------------------------------------
(* The object.                                                             *)

Age == 0..Timeout \cup {Unset}

Settings == [rollback : BOOLEAN, layout : Nat, generation : Nat]

Status == [lastTag : Tags \cup {NoTag},
           previousTag : Tags \cup {NoTag},
           lastWriteCommit : Nat,
           observedGeneration : Nat,
           skippedTags : SUBSET Tags,
           watchingTag : Tags \cup {NoTag},
           watchingCommit : Nat,
           watchingArmedAt : Age,
           watchingSince : Age]

Object == [spec : Settings, status : Status]

\* A new object, which nothing has reconciled; layout names the target list.
NewObject ==
  [spec |-> [rollback |-> TRUE, layout |-> 0, generation |-> 1],
   status |-> [lastTag |-> NoTag, previousTag |-> NoTag,
               lastWriteCommit |-> NoCommit, observedGeneration |-> 0,
               skippedTags |-> {}, watchingTag |-> NoTag,
               watchingCommit |-> NoCommit, watchingArmedAt |-> Unset,
               watchingSince |-> Unset]]

\* The manifest fields as somebody else left them.
Manual == [tag |-> NoTag, layout |-> 0]
Commit == [tag : Tags \cup {NoTag}, layout : Nat]

\* What the targets' templates render for tag t.
Render(o, t) == [tag |-> t, layout |-> o.spec.layout]

Tip(b) == b[Len(b)]

\* The branch after the writer has put the content c on it: no commit when
\* the manifest already has it.
Written(b, c) == IF Tip(b) = c THEN b ELSE Append(b, c)

\* Latest after filterSkipped: the highest build number that is not skipped.
Candidates(tags, status) == tags \ status.skippedTags
Newest(t, S) == t \in S /\ \A u \in S : u <= t

WatchOpen(o) == o.spec.rollback /\ o.status.watchingTag # NoTag

Expired(age) == age = Timeout

\* The status with its watch closed.
Released(status) ==
  [status EXCEPT !.watchingTag = NoTag, !.watchingCommit = NoCommit,
                 !.watchingArmedAt = Unset, !.watchingSince = Unset]

\* The status with its watched tag found to have failed.
Failed(status) ==
  [Released(status) EXCEPT !.skippedTags = @ \cup {status.watchingTag}]

\* The status records that the current spec was written as commit c.
Wrote(status, o, c) ==
  [status EXCEPT !.observedGeneration = o.spec.generation,
                 !.lastWriteCommit = c]

\* Mutants: the shortcut without its generation gate, and without RemoteHead.
ShortcutForgetsGeneration(o, t, b) ==
  /\ t = o.status.lastTag
  /\ Len(b) = o.status.lastWriteCommit
ShortcutForgetsHead(o, t, b) ==
  /\ t = o.status.lastTag
  /\ o.status.observedGeneration = o.spec.generation

\* The tag and the generation are those of the recorded write, RemoteHead is
\* asked, and it answers that the recorded commit is still the branch head.
ShortcutApplies(o, t, b) ==
  /\ t = o.status.lastTag
  /\ o.status.lastWriteCommit # NoCommit
  /\ o.status.observedGeneration = o.spec.generation
  /\ Len(b) = o.status.lastWriteCommit

-----------------------------------------------------------------------------
Init ==
  /\ stored = NewObject /\ cached = NewObject /\ synced = TRUE
  /\ pc = "idle" /\ tu = NewObject /\ fresh = FALSE
  /\ latest = NoTag /\ result = NoCommit
  /\ branch = <<Manual>>
  /\ source = {}
  /\ appUp = TRUE
  /\ faults = MaxFaults /\ foreign = MaxForeign
  /\ condemned = {}

-----------------------------------------------------------------------------
(* Steps shared by the handlers.                                           *)

\* One fault of this kind, while the run has any left.
Fault(kind) == kind \in Disturbances /\ faults > 0 /\ faults' = faults - 1

\* The reconcile ends: by returning, with or without an error.  Its copy of
\* the object dies with it.
EndReconcile ==
  /\ pc' = "idle"
  /\ tu' = NewObject /\ fresh' = FALSE
  /\ latest' = NoTag /\ result' = NoCommit

\* Status().Update that succeeds: it needs the current resourceVersion.
StoreStatus(status) ==
  /\ fresh
  /\ stored' = [stored EXCEPT !.status = status]
  /\ IF "cacheLags" \in Disturbances
     THEN cached' = cached /\ synced' = FALSE
     ELSE cached' = stored' /\ synced' = TRUE

\* Status().Update that fails: a conflict, or a request that got nowhere.
StoreRefused ==
  /\ IF fresh THEN Fault("saveFails") ELSE faults' = faults
  /\ UNCHANGED api

-----------------------------------------------------------------------------
(* Reconcile, in the order of its steps.                                   *)

\* Mutant: Reconcile does not stop for an open watch.
GetPassesGate ==
  /\ pc = "idle"
  /\ tu' = cached /\ fresh' = synced /\ pc' = "list"
  /\ UNCHANGED <<api, latest, result, world, faults, condemned>>

\* r.Get, then the choice between the health gate and the tag pipeline.
Get ==
  /\ pc = "idle"
  /\ tu' = cached /\ fresh' = synced
  /\ pc' = IF WatchOpen(cached) THEN "observe" ELSE "list"
  /\ UNCHANGED <<api, latest, result, world, faults, condemned>>

\* Either argoCDAppState read fails: the rest of the gate does not run, its
\* deadlines included.
AppUnreadable ==
  /\ pc \in {"observe", "health"} /\ ~appUp
  /\ EndReconcile
  /\ UNCHANGED <<api, world, faults, condemned>>

\* WatchingSince is already set: straight to the health read.
AlreadyObserved ==
  /\ pc = "observe" /\ appUp
  /\ tu.status.watchingSince # Unset
  /\ pc' = "health"
  /\ UNCHANGED <<api, local, world, faults, condemned>>

\* observes(WatchingCommit, WatchingArmedAt) is true: the health clock starts.
Observed ==
  /\ pc = "observe" /\ appUp
  /\ tu.status.watchingSince = Unset
  /\ tu' = [tu EXCEPT !.status.watchingSince = 0]
  /\ pc' = "saveSince"
  /\ UNCHANGED <<api, fresh, latest, result, world, faults, condemned>>

\* Mutant: the wait for ArgoCD to observe the commit has no deadline.
NotObservedForgetsDeadline ==
  /\ pc = "observe" /\ appUp
  /\ tu.status.watchingSince = Unset
  /\ EndReconcile
  /\ UNCHANGED <<api, world, faults, condemned>>

\* Not observed: wait another 15 seconds, or abandon the watch.
NotObserved ==
  /\ pc = "observe" /\ appUp
  /\ tu.status.watchingSince = Unset
  /\ IF Expired(tu.status.watchingArmedAt)
     THEN /\ tu' = [tu EXCEPT !.status = Released(@)]
          /\ pc' = "saveAbandoned"
          /\ UNCHANGED <<fresh, latest, result>>
     ELSE EndReconcile
  /\ UNCHANGED <<api, world, faults, condemned>>

SaveSince ==
  /\ pc = "saveSince"
  /\ \/ /\ StoreStatus(tu.status)
        /\ pc' = "health"
        /\ UNCHANGED <<local, faults>>
     \/ StoreRefused /\ EndReconcile
  /\ UNCHANGED <<world, condemned>>

\* Healthy: the watch closes and every skipped tag is forgiven.
Healthy ==
  /\ pc = "health" /\ appUp
  /\ tu' = [tu EXCEPT !.status = [Released(@) EXCEPT !.skippedTags = {}]]
  /\ pc' = "saveHealthy"
  /\ UNCHANGED <<api, fresh, latest, result, world, faults, condemned>>

\* Neither Healthy, nor Degraded with no sync in flight, nor out of time.
StillProgressing ==
  /\ pc = "health" /\ appUp
  /\ ~Expired(tu.status.watchingSince)
  /\ EndReconcile
  /\ UNCHANGED <<api, world, faults, condemned>>

\* Degraded with no sync in flight, or out of time: roll back.  With no
\* previous tag to write there is only the status to change.
Unhealthy ==
  /\ pc = "health" /\ appUp
  /\ IF tu.status.previousTag \in {NoTag, tu.status.watchingTag}
     THEN tu' = [tu EXCEPT !.status = Failed(@)] /\ pc' = "saveRollback"
     ELSE tu' = tu /\ pc' = "rollback"
  /\ UNCHANGED <<api, fresh, latest, result, world, faults, condemned>>

\* Mutants: the rollback leaves the failed tag eligible, or records no commit.
RolledBackForgetsSkip(o, c) ==
  [Wrote(Released(o.status), o, c) EXCEPT !.lastTag = o.status.previousTag]
RolledBackForgetsCommit(o, c) ==
  [Failed(o.status) EXCEPT !.lastTag = o.status.previousTag]

\* The status after doRollback has written the previous tag as commit c.
RolledBack(o, c) ==
  [Wrote(Failed(o.status), o, c) EXCEPT !.lastTag = o.status.previousTag]

\* doRollback writes the previous tag, pinning it again when the source is
\* git.  The write may happen and its answer be lost.
WriteRollback ==
  LET content == Render(tu, tu.status.previousTag)
  IN /\ pc = "rollback"
     /\ GitSource => tu.status.previousTag \in source
     /\ branch' = Written(branch, content)
     /\ condemned' = condemned \cup {tu.status.watchingTag}
     /\ \/ /\ tu' = [tu EXCEPT !.status = RolledBack(tu, Len(branch'))]
           /\ pc' = "saveRollback"
           /\ UNCHANGED <<fresh, latest, result, faults>>
        \/ Fault("replyLost") /\ EndReconcile
     /\ UNCHANGED <<api, source, appUp, foreign>>

\* doRollback fails before it has pushed: the previous tag no longer resolves
\* to a commit, the source or the git server fails.
RollbackFails ==
  /\ pc = "rollback"
  /\ \/ GitSource /\ tu.status.previousTag \notin source /\ faults' = faults
     \/ GitSource /\ Fault("sourceFails")
     \/ Fault("pushFails")
  /\ EndReconcile
  /\ UNCHANGED <<api, world, condemned>>

\* doRollback's own update; when it fails rollbackWithStatus tries once more,
\* and then the reconcile ends with the first error.
SaveRollback ==
  /\ pc = "saveRollback"
  /\ \/ StoreStatus(tu.status) /\ pc' = "list" /\ UNCHANGED faults
     \/ StoreRefused /\ pc' = "saveRollbackAgain"
  /\ UNCHANGED <<local, world, condemned>>

SaveRollbackAgain ==
  /\ pc = "saveRollbackAgain"
  /\ \/ StoreStatus(tu.status) /\ UNCHANGED faults
     \/ StoreRefused
  /\ EndReconcile
  /\ UNCHANGED <<world, condemned>>

\* The watch is closed, by a Healthy verdict or by giving up on it, and the
\* same reconcile goes on to the tag pipeline.
SaveReleased ==
  /\ pc \in {"saveHealthy", "saveAbandoned"}
  /\ \/ /\ StoreStatus(tu.status)
        /\ pc' = "list"
        /\ condemned' = IF pc = "saveHealthy"
                        THEN condemned \cap {stored.status.watchingTag}
                        ELSE condemned
        /\ UNCHANGED <<local, faults>>
     \/ StoreRefused /\ EndReconcile /\ UNCHANGED condemned
  /\ UNCHANGED world

\* src.Tags and Latest.
List ==
  /\ pc = "list"
  /\ \E t \in Candidates(source, tu.status) :
       /\ Newest(t, Candidates(source, tu.status))
       /\ latest' = t
  /\ pc' = "resolve"
  /\ UNCHANGED <<api, tu, fresh, result, world, faults, condemned>>

\* Nothing to select, or the source cannot be listed.
NothingListed ==
  /\ pc = "list"
  /\ \/ Candidates(source, tu.status) = {} /\ faults' = faults
     \/ Fault("sourceFails")
  /\ EndReconcile
  /\ UNCHANGED <<api, world, condemned>>

\* addRev: a separate read of the source, which may no longer have the tag.
Resolve ==
  /\ pc = "resolve"
  /\ GitSource => latest \in source
  /\ pc' = "write"
  /\ UNCHANGED <<api, local, world, faults, condemned>>

ResolveFails ==
  /\ pc = "resolve" /\ GitSource
  /\ \/ latest \notin source /\ faults' = faults
     \/ Fault("sourceFails")
  /\ EndReconcile
  /\ UNCHANGED <<api, world, condemned>>

\* The branch head is the commit recorded for this tag: the clone is skipped.
RemoteUnchanged ==
  /\ pc = "write"
  /\ ShortcutApplies(tu, latest, branch)
  /\ EndReconcile
  /\ UNCHANGED <<api, world, faults, condemned>>

\* Mutant: when the manifest already has the values there is nothing to do.
WriteSkipsUpToDate ==
  /\ pc = "write"
  /\ ~ShortcutApplies(tu, latest, branch)
  /\ branch' = Written(branch, Render(tu, latest))
  /\ \/ /\ branch' # branch
        /\ result' = Len(branch')
        /\ pc' = "save"
        /\ UNCHANGED <<tu, fresh, latest, faults>>
     \/ branch' = branch /\ EndReconcile /\ UNCHANGED faults
     \/ Fault("replyLost") /\ EndReconcile
  /\ UNCHANGED <<api, source, appUp, foreign, condemned>>

\* Writer.Apply.  The write may happen and its answer be lost.
Write ==
  /\ pc = "write"
  /\ ~ShortcutApplies(tu, latest, branch)
  /\ branch' = Written(branch, Render(tu, latest))
  /\ \/ /\ result' = Len(branch')
        /\ pc' = "save"
        /\ UNCHANGED <<tu, fresh, latest, faults>>
     \/ Fault("replyLost") /\ EndReconcile
  /\ UNCHANGED <<api, source, appUp, foreign, condemned>>

WriteFails ==
  /\ pc = "write" /\ Fault("pushFails")
  /\ EndReconcile
  /\ UNCHANGED <<api, world, condemned>>

\* Mutant: a previous tag, once there is one, is kept.
RotatedOnce(status, t) ==
  [status EXCEPT !.previousTag = IF @ = NoTag THEN status.lastTag ELSE @,
                 !.lastTag = t]

\* A new tag takes the place of the last one, which becomes the previous one.
Rotated(status, t) ==
  [status EXCEPT !.previousTag = status.lastTag, !.lastTag = t]

\* Mutant: the watch is armed on the commit recorded before this write.
ArmedOnLastCommit(status, t, c) ==
  [status EXCEPT !.watchingTag = t, !.watchingCommit = status.lastWriteCommit,
                 !.watchingArmedAt = 0, !.watchingSince = Unset]

\* The new tag goes under watch: ArgoCD must observe commit c.
Armed(status, t, c) ==
  [status EXCEPT !.watchingTag = t, !.watchingCommit = c,
                 !.watchingArmedAt = 0, !.watchingSince = Unset]

\* The status after tag t was written as commit c.
Deployed(o, t, c) ==
  LET rotated == IF t = o.status.lastTag THEN o.status ELSE Rotated(o.status, t)
      armed == IF t # o.status.lastTag /\ o.spec.rollback
               THEN Armed(rotated, t, c) ELSE rotated
  IN Wrote(armed, o, c)

Save ==
  /\ pc = "save"
  /\ \/ StoreStatus(Deployed(tu, latest, result)) /\ UNCHANGED faults
     \/ StoreRefused
  /\ EndReconcile
  /\ UNCHANGED <<world, condemned>>

GateSteps == \/ AppUnreadable \/ AlreadyObserved \/ Observed \/ NotObserved
             \/ SaveSince \/ Healthy \/ StillProgressing \/ Unhealthy
             \/ WriteRollback \/ RollbackFails
             \/ SaveRollback \/ SaveRollbackAgain \/ SaveReleased

PipelineSteps == \/ List \/ NothingListed \/ Resolve \/ ResolveFails
                 \/ RemoteUnchanged \/ Write \/ WriteFails \/ Save

Reconcile == Get \/ GateSteps \/ PipelineSteps

-----------------------------------------------------------------------------
(* Everything else.                                                        *)

\* The process dies and starts again: the new one lists the object anew.
Crash ==
  /\ pc # "idle" /\ Fault("crash")
  /\ EndReconcile
  /\ cached' = stored /\ synced' = TRUE
  /\ UNCHANGED <<stored, world, condemned>>

\* The informer's watch delivers the current object.
InformerSync ==
  /\ ~synced
  /\ cached' = stored /\ synced' = TRUE
  /\ UNCHANGED <<stored, pc, local, world, faults, condemned>>

\* A user edits the spec: the generation moves and held copies go stale.
EditSpec(spec) ==
  /\ stored.spec.generation < MaxGeneration
  /\ stored' = [stored EXCEPT !.spec = [spec EXCEPT !.generation = @ + 1]]
  /\ fresh' = FALSE
  /\ IF "cacheLags" \in Disturbances
     THEN cached' = cached /\ synced' = FALSE
     ELSE cached' = stored' /\ synced' = TRUE
  /\ UNCHANGED <<pc, tu, latest, result, world, faults, condemned>>

ToggleRollback ==
  /\ "rollbackToggled" \in Disturbances
  /\ EditSpec([stored.spec EXCEPT !.rollback = ~@])

EditTargets ==
  /\ "targetsEdited" \in Disturbances
  /\ EditSpec([stored.spec EXCEPT !.layout = @ + 1])

PublishTag ==
  /\ \E t \in Tags \ source : source' = source \cup {t}
  /\ UNCHANGED <<api, pc, local, branch, appUp, foreign, faults, condemned>>

DeleteTag ==
  /\ Fault("tagDeleted")
  /\ \E t \in source : source' = source \ {t}
  /\ UNCHANGED <<api, pc, local, branch, appUp, foreign, condemned>>

\* Another writer of the branch pushes: a commit that leaves this updater's
\* fields alone, or one that overwrites them by hand.
ForeignPush ==
  /\ foreign > 0 /\ foreign' = foreign - 1
  /\ \E c \in {Tip(branch), Manual} : branch' = Append(branch, c)
  /\ UNCHANGED <<api, pc, local, source, appUp, faults, condemned>>

\* The Application is deleted, renamed or unreachable, or it is back.
AppChanges ==
  /\ "appUnreadable" \in Disturbances
  /\ appUp' = ~appUp
  /\ UNCHANGED <<api, pc, local, branch, source, foreign, faults, condemned>>

\* Mutant: the age of a timestamp does not saturate.
OlderUnbounded(age) == IF age = Unset THEN age ELSE age + 1
Older(age) == IF age \in {Unset, Timeout} THEN age ELSE age + 1
Aged(o) == [o EXCEPT !.status.watchingArmedAt = Older(@),
                     !.status.watchingSince = Older(@)]

Tick ==
  /\ stored' = Aged(stored) /\ cached' = Aged(cached) /\ tu' = Aged(tu)
  /\ UNCHANGED <<synced, pc, fresh, latest, result, world, faults, condemned>>

Environment == \/ Crash \/ InformerSync \/ ToggleRollback \/ EditTargets
               \/ PublishTag \/ DeleteTag \/ ForeignPush \/ AppChanges \/ Tick

Next == Reconcile \/ Environment

Spec == Init /\ [][Next]_vars

\* Every reconcile is requeued, by its interval, by the 15 second recheck or by
\* the error backoff, and no step blocks for ever; the informer catches up;
\* time passes.  Nothing is assumed of what ArgoCD reports or of the users.
FairSpec == /\ Spec
            /\ WF_vars(Reconcile)
            /\ WF_vars(InformerSync)
            /\ WF_vars(Tick)

-----------------------------------------------------------------------------
(* Properties.                                                             *)

\* Every variable holds a value of its type, in particular the ids of commits
\* and tags that the status carries from one reconcile to the next.
TypeOK ==
  /\ stored \in Object /\ cached \in Object /\ tu \in Object
  /\ synced \in BOOLEAN /\ fresh \in BOOLEAN
  /\ pc \in {"idle", "observe", "saveSince", "health", "saveHealthy",
             "saveAbandoned", "rollback", "saveRollback", "saveRollbackAgain",
             "list", "resolve", "write", "save"}
  /\ latest \in Tags \cup {NoTag} /\ result \in Nat
  /\ branch \in Seq(Commit) /\ branch # <<>>
  /\ source \subseteq Tags /\ condemned \subseteq Tags
  /\ appUp \in BOOLEAN
  /\ faults \in 0..MaxFaults /\ foreign \in 0..MaxForeign

\* The write recorded in o's status is a commit of the branch b that holds the
\* recorded tag, rendered by o's targets if its generation is the one written.
Recorded(b, o) ==
  o.status.lastWriteCommit # NoCommit =>
    /\ o.status.lastWriteCommit \in 1..Len(b)
    /\ b[o.status.lastWriteCommit].tag = o.status.lastTag
    /\ o.status.observedGeneration = o.spec.generation =>
         b[o.status.lastWriteCommit] = Render(o, o.status.lastTag)

\* What the status says was written to git is in git, through crashes, lost
\* answers, conflicting updates, rollbacks, spec edits and other writers.
WriteRecorded == Recorded(branch, stored)

\* What makes WriteRecorded inductive: every copy of the object is right about
\* its own generation, held copies that can still be written back have the
\* stored spec, and Apply's commit holds what Reconcile is about to record.
Knows(b, o) == /\ Recorded(b, o)
               /\ o.status.observedGeneration <= o.spec.generation
RecordInv ==
  /\ Knows(branch, stored) /\ Knows(branch, cached) /\ Knows(branch, tu)
  /\ synced => cached.spec = stored.spec
  /\ fresh => tu.spec = stored.spec
  /\ pc = "save" => /\ result \in 1..Len(branch)
                    /\ branch[result] = Render(tu, latest)

\* When Reconcile skips the clone because the branch head is the recorded
\* commit, the manifest does hold the values it would have written.
ShortcutSound ==
  pc = "write" /\ ShortcutApplies(tu, latest, branch) =>
    Tip(branch) = Render(tu, latest)

\* The tag under health observation is the one the status calls deployed, and
\* the commit ArgoCD must observe is the one that deployed it.
WatchIsDeployed ==
  WatchOpen(stored) =>
    /\ stored.status.watchingTag = stored.status.lastTag
    /\ stored.status.watchingCommit = stored.status.lastWriteCommit
    /\ branch[stored.status.watchingCommit].tag = stored.status.watchingTag
    /\ stored.status.watchingArmedAt # Unset

\* The controller itself adds a commit to the branch.
Pushes == branch' # branch /\ foreign' = foreign

\* While a watch is open the controller pushes nothing but the rollback of the
\* watched tag: Reconcile short-circuits all tag work while WatchingTag is set.
GateHeld ==
  [][WatchOpen(stored) /\ Pushes =>
       Tip(branch') = Render(stored, stored.status.previousTag)]_vars

\* A rollback takes the branch back to the tag that was on it before the failed
\* one, not to some earlier release.
RollbackUndoesLastDeploy ==
  [][pc = "rollback" /\ Pushes =>
       \E i \in 1..Len(branch) :
         /\ branch[i].tag = Tip(branch').tag
         /\ \A j \in (i + 1)..Len(branch) :
              branch[j].tag \in {NoTag, tu.status.watchingTag}]_vars

\* A tag whose rollback has reached git comes back neither by a deployment nor
\* by the rollback of a later one, before the deployment of another tag has been
\* found Healthy.
RolledBackStaysOut ==
  [][Pushes => Tip(branch').tag \notin condemned]_vars

\* The promise of Rollout, about the last tag this updater put on the branch
\* (others repeat the tip, or overwrite the fields by hand) and the status it
\* holds for it, which after a push is about to be saved.
Blank(b) == \A i \in 1..Len(b) : b[i].tag = NoTag
LastOf(b) == CHOOSE i \in 1..Len(b) :
               b[i].tag # NoTag /\ \A j \in (i + 1)..Len(b) : b[j].tag = NoTag
Held(b) == IF Tip(b).tag # NoTag THEN Tip(b).tag
           ELSE IF Blank(b) THEN NoTag ELSE b[LastOf(b)].tag
Due == IF pc = "save" THEN Deployed(tu, latest, result)
       ELSE IF pc = "saveRollback" THEN tu.status ELSE stored.status
Promise == INSTANCE Rollout WITH on <- Held(branch), before <- Due.previousTag,
                                 trial <- Due.watchingTag, rejected <- Due.skippedTags
OneTrialAtATime == Promise!Spec

\* If the Applications stay readable, every watch ends: by a verdict, by the
\* health timeout or by the deadline for ArgoCD to observe the commit.
WatchEnds ==
  <>[]appUp => (WatchOpen(stored) ~> ~WatchOpen(stored))

\* As above, without the premise: whatever becomes of the Applications.
WatchAlwaysEnds == WatchOpen(stored) ~> ~WatchOpen(stored)

\* Git and status are written separately; when a crash or a lost answer has
\* left a tag on the branch that the status does not record, a later reconcile
\* records it or replaces it.
StatusCatchesUp ==
  <>[]appUp =>
    \A t \in Tags :
      (Tip(branch).tag = t /\ stored.status.lastTag # t)
        ~> (Tip(branch).tag # t \/ stored.status.lastTag = t)

\* No watch is open, and the branch holds the newest tag that is not skipped.
Settled ==
  /\ ~WatchOpen(stored)
  /\ \A t \in Tags : Newest(t, Candidates(source, stored.status)) =>
       Tip(branch) = Render(stored, t)

\* Once users, publishers and faults have stopped, the controller settles for
\* good, whatever ArgoCD goes on reporting: no loop of deploys and rollbacks,
\* and a hand-edited field is put back.
Settles == <>[]appUp => <>[]Settled

=============================================================================
