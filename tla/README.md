# argocd-tag-updater: specifications

TLA+ models of the controller in this repository, the TLC configurations that
check them on small instances, and TLAPS proofs of what holds for every value
of their constants.  Paths are relative to the repository (`internal/...`);
`controller.go` stands for `internal/controller/tagupdater_controller.go`.

## 1. The system

A `TagUpdater` object names a source of tags, a pattern, a git repository with
a manifest, the fields of the manifest it owns, and optionally an ArgoCD
Application.  One worker reconciles all of them.  A reconcile lists the tags,
selects the newest one, pins it to a commit, writes the rendered values to the
manifest branch and records what it did in the object's status.  With
`spec.rollback` a deployed tag is *watched*: the controller waits for ArgoCD to
observe the commit, then for the workload's health, and writes the previous
tag back if the new one fails.

| Component | State | Operations | Talks to |
|---|---|---|---|
| reconcile loop (`controller.go` 53-262) | status: `lastTag`, `previousTag`, `lastWriteCommit`, `observedGeneration`, `skippedTags` | Get, select, pin, shortcut, write, save | API server through a cache; tag source; writer |
| health gate and rollback (`controller.go` 268-388, 538-629) | status: `watchingTag/Commit/ArmedAt/Since` | arm, observe, release, abandon, roll back | Application reads; writer |
| rollout observation (`controller.go` 390-536) | none, it reads the Application | `observes`, `deploymentsFrom`, `syncInFlight` | ArgoCD |
| git write-back (`internal/writeback/git.go`) | a clone per call; the branch is the server's | clone, edit, commit, push, retry; `RemoteHead` | git server |
| manifest editing (`internal/writeback/yaml.go`) | none | `UpdateManifest` | |
| clone directories (`internal/writeback/temp.go`) | a locked directory per process | prepare, remove what earlier processes left | file system |
| progress and staleness (`internal/controller/progress.go`, `controller.go` 737-792) | in memory: per updater first attempt, last success, interval; time of the last tag resolution | attempt, success, forget; two liveness checks | kubelet, metrics |
| work queue (vendored controller-runtime priority queue) | keys, ready or delayed, with priorities | add, add after a delay, get | informer, worker |
| tag matcher (`internal/matcher`) | none | `Latest` | |
| tag sources (`internal/source`) | none | `Tags`, `TagRevs`, `Resolve` | git, OCI and Nix servers |
| image digests (`image_digest.go`, `internal/source/oci_digest.go`) | status: the two image digests | pin, refuse a changed digest, roll back to the recorded one | registry |
| field ownership (`controller.go` `validateFieldOwnership`) | none | compare all updaters' targets | API server |
| API types, manager, charts | | wiring | |

### What is hard

* **Two stores, no transaction.**  Git and the status are written one after the
  other; the process can die, the answer can be lost, or the status update can
  be refused in between.
* **Reads that are old when used.**  The object comes from a cache; the tags
  are listed and then resolved by a second call; a clone is not the tip when it
  is pushed; ArgoCD's history lags its operation, and timestamps are whole
  seconds.
* **Others.**  Other writers of the branch, users who edit the spec or the
  manifest, publishers who withdraw tags, ArgoCD at its own pace, another
  replica during a change of leader.
* **One file, several owners.**  Updaters share manifests; what keeps them apart
  is a check on lists from a cache, and what keeps the text intact is arithmetic
  on line positions.
* **A gate that must not stay shut.**  While a watch is open no tag is deployed,
  so every watch has to end.
* **Silence.**  A reconcile that hangs, or an outage of the source, produces no
  error; the liveness checks have to notice it and must not fire when all is
  well.

What makes the components correct: the status never claims a write that git
does not have (loop); the shortcut never skips a needed write (loop); nothing is
deployed over an unjudged release, a rollback restores the release before the
failed one, and a failed tag stays out (gate); an observation means ArgoCD has
got there (observation); no update is lost and an answer names a commit with the
value (write-back); an edit is exactly what was asked for, and no field is
fought over (editing, ownership); the newest build is chosen in any order of the
listing (matcher); no clone in use is removed and no dead one stays (clone
directories); the image in git is the one recorded for its tag (digests); what
exists is tracked, waiting is not failing, and a freeze
ends (progress).  `PROJECT.json` lists the hazards line by line with the
properties that would catch them, or the reason why none does.

## 2. The modules

| Module | Models | Actions and code |
|---|---|---|
| `TagUpdater` | reconcile loop, health gate, rollback, of one object | each `pc` value is a point of `Reconcile` at which the rest of the world can move: `Get`, `List`, `Resolve`, `Write`, `Save`; `Observed`, `NotObserved`, `Healthy`, `Unhealthy`, `WriteRollback`, `SaveRollback`...; `Crash`, `InformerSync`, `EditSpec`, `PublishTag`, `DeleteTag`, `ForeignPush`, `AppChanges`, `Tick` around it |
| `Observation` | `observes` and the two reads of the gate against an ArgoCD that compares, rolls out, and keeps a bounded history | `Push`, `Arm`, `Observe`, `Abandon`, `Healthy`, `RollBack`; `Compare`, `StartSync`, `SyncSucceeds`, `SyncFails`, `RecordHistory` |
| `Writeback` | concurrent calls of `Writer.Apply` | `Start`, `Clone`, `Unchanged`, `Edit`, `Push`, `Conflict`, `PushFails` per writer; `ForeignPush` |
| `ManifestBranch` | abstract: what `Apply` promises | `Request`, `Put`, `Confirm`, `Refuse`, `ForeignPush` |
| `Rollout` | abstract: what the gate and the rollback promise about the releases on the branch | `Try`; `End` of a trial: `Accept`, `Abandon`, `RollBack`, `Keep` |
| `OwnedDir` | abstract: what the clone directories promise | `Take`, `Use`, `Return`, `Leave`; `Remove` |
| `Progress` | the work queue, the worker, the in-memory times, the liveness checks, several updaters | `Write`, `Ripen`, `Begin`, the ways a reconcile goes on and ends, `Hang`, `Tick`, `Crash`, `Kill` |
| `ImageDigest` | the same loop with rollback on, no clock, and a registry: what is resolved, refused, recorded, rotated and restored | `Get`, `CloseWatch`, `Unhealthy`, `WriteRollback`, `List`, `Resolve`, `RemoteUnchanged`, `Write`, `Save`; `Rebind`, `ToggleDigest`, `Withdraw`, `Publish`, `ForeignPush`, `Crash`, `Sync` |
| `Matcher` | `Latest`, as a function of the listing | operators `Before`, `Sorted`, `Latest` |
| `ManifestText` | `UpdateManifest`, as a function from a manifest to the manifests it may become | `Tree`, `Matches`, `SetScalar`, `InsertionPoint`, `RenderEntries`, `ApplyEdits`; and `Exact`, which says without trees and positions what an edit is for |
| `Manifest` | several updaters of one file, one worker: composes `ManifestText`, `Matcher` and `validateFieldOwnership` | `Get`, `CheckOwners`, `Resolve`, `Write`; `EditTargets`, `Sync`, `Publish` |
| `TempDir` | processes on one clone directory: lock, clean-up, pushes | `Launch`, `Lock`, `LockBusy`, `List`, `Clean`, `CleanFails`, `Cleaned`, `NewClone`, `EndClone`, `Stop`, `Release`, `Die` |
| `MCTagUpdater`, `MCWriteback`, `MCProgress`, `MCManifest` | instances for TLC | |
| `TagUpdaterProofs`, `WritebackProofs`, `ObservationProofs`, `ProgressProofs`, `TempDirProofs`, `ImageDigestProofs`, `ManifestProofs` | proofs about the module of that name | |
| `GateProofs` | proofs about the health gate and the rollback in `TagUpdater`, on top of `TagUpdaterProofs` | |

How they fit together.  `TagUpdater` takes `Apply` as one step; `Writeback`
shows that `Apply`, with all its steps and competitors, implements
`ManifestBranch`, whose `Put`, `Confirm` and `Refuse` are what that one step may
do.  `TagUpdater` in turn implements `Rollout` while rollback is on (`Promise`):
`on` is the last tag the updater has put on the branch, and `before`, `trial` and
`rejected` are the previous tag, the watched one and the skipped ones of the
status it is about to save, or else of the stored one.  `TagUpdater` lets the
Application answer anything at every read;
`Observation` looks at what the answers mean when ArgoCD gives them.  `Progress`
takes a reconcile as an attempt that succeeds, fails or hangs.  `Writeback`
takes the edit of the manifest as the setting of its caller's fields, and one
caller per field; `Manifest` looks at both, the text and who may write which
field, and takes the push as one step.  `ImageDigest` is the loop again with
what the digests add and without what they do not touch; `TempDir` is below all
of them, and implements `OwnedDir` (`Ownership`): the owner is the process that
has come up.

Abstractions worth knowing when reading the code beside the models:

* In `TagUpdater` a tag is its build number and `Newest` is `Matcher.Latest` for
  patterns with a numeric `n`; `Matcher` itself has the comparator with its
  fallback, and sorts as `sort.Slice` does up to twelve elements.
* In `ManifestText` a manifest is the sequence of its lines, a line a separator,
  a comment or an entry with its column, and a node of the tree is named by its
  path.  Quoting and the end of a token inside a line are not told apart.
* In `ImageDigest` a digest names the image it was built as, so equal digests
  mean equal images; the targets write the digest exactly when it is resolved.
* The branch is the sequence of its commits and a commit is a position: the
  branch only fast-forwards.  In `TagUpdater` a commit holds the fields the
  updater owns (the tag and a `layout` that stands for the target list); in
  `Writeback` one field per writer and a number for all the rest.
* In `TagUpdater` a timestamp is its age and saturates at the timeout, which is
  all the code compares it with.  In `Observation` the clock counts whole
  seconds, as `metav1.Time` and ArgoCD do, because the order of events within a
  second is the point.
* A status update that only changes conditions moves the resourceVersion and
  nothing else the controller decides with.  A lost race against it looks like
  a refused update (`StoreRefused`), a lagging one like a lagging cache.
* In `Progress` every write of an object, the controller's own included, is an
  event, since the controller is set up without a predicate (`controller.go`
  914).  The queue is that of the vendored controller-runtime: a key at most
  once; an event makes a delayed key ready but keeps its place; keys known from
  the first listing have a lower priority until an event raises it, and the
  worker's own requeue keeps the priority.

## 3. The runs

### Passing

| Run | Instance | Distinct states | Shows |
|---|---|---|---|
| `updater_records` | 2 tags, 1 fault of any kind, 1 foreign push, 2 generations, lagging cache, toggled rollback, edited targets, timeout 1 | 4.2 million | `WriteRecorded`: a write the status records is in git.  `RecordInv`, its inductive form.  `ShortcutSound`: skipping the clone leaves nothing unwritten |
| `updater_gate` | 3 tags, 2 faults of the remote systems, 1 foreign push, timeout 2 | 5.0 million | `WatchIsDeployed`, `GateHeld`, `RollbackUndoesLastDeploy`, `RolledBackStaysOut`, and the refinement `OneTrialAtATime` |
| `updater_live` | 3 tags, 1 fault, 1 foreign push, Applications that come and go, fair | 0.2 million | `WatchEnds`, `StatusCatchesUp`, `Settles` |
| `writeback` | 2 writers, 2 values, 3 calls, 1 foreign push, every failure, conflicts recognised and not | 0.2 million | `NoLostUpdate`, `AnswerHolds`, `AtMostOneCommit`, and the refinement `KeepsPromise` |
| `observation` | 4 commits, 4 seconds, 1 history entry, comparisons up to 1 second old | 4.2 million | `ObservedIsReached`, `AbandonedIsUnseen` |
| `progress` | 2 updaters, one git with intervals 1 and 3, windows of 3 (floor) and 6 ticks | 0.4 million | `TracksExisting`, `StaleMeansFailing`, `HungIsRestarted`, `OutageIsRestarted` |
| `manifest` | 2 updaters, 4 lists of targets, a file of two documents with a list and comments, 3 tags, 2 edits of targets, lagging copies | 71 thousand | `UpdateIsExact`, `HandoversAreEdits`, `NewestIsWritten`, and under fairness `Settles` |
| `tempdir` | 3 processes, 3 clone names and one entry that is not ours, any left-overs at first, 3 deaths or failed removals | 4 thousand | `LiveClonesStay`, `UpMeansClean`, the refinement `RootHasOneOwner`, and under fairness `InterruptedAreRemoved` |
| `image_digest` | 2 tags with 2 builds each, 1 fault, 3 changes of registry, tags, spec or branch, with and without a status from before the feature | 3.0 million | `RecordedWasWritten`, `PinHolds`, `RollbackRestoresImage`, `NoMixedRelease` |

Each of these runs also checks its module's `TypeOK` (`updater_gate` and
`updater_live` leave it to `updater_records`).

The modules hold, next to some definitions, a variant marked *Mutant*: a
plausible mistake in the same code.  `PROJECT.json` pairs each checked property
with a variant that TLC finds to violate it under the same configuration, which
shows that the property depends on the code being right.  No specification
uses the variants.

Why the bounds are enough to make the cases happen:

* Two tags are needed to deploy, fail and roll back; the third lets a tag be
  deployed between two failures, which is what `PreviousTag`, the skipped set
  and their forgiveness are about.  One fault at every step covers each window
  between git and status; the second in `updater_gate` lets the rollback itself
  fail and be retried.  A timeout of one tick already separates *expired* from
  *not expired*; two separate the deadline for observation from the timeout of
  health.
* `WatchIsDeployed`, `GateHeld`, the rollback properties and `OneTrialAtATime` are
  checked without crashes, lagging caches and edits of `spec.rollback`: with them
  the code does something else, which section *Disagreements* and the hazards
  record.  Section 5 says which of these exclusions each of the properties needs.
* Three calls of two writers and one foreign push let a call lose two races, so
  its third attempt is reached.
* A history of one entry is the hardest for `observes`; four seconds hold an
  arming, a rollout in the same second, one after it, and the deadline.
* With `MaxReconcile` 1 an updater waits its interval and, in the queue, at most
  two reconciles of the other: the shorter window, of 3 ticks, is just enough.
  With the floor dropped it is 2, and TLC finds a healthy updater stale.  The two intervals have different
  windows, so that an edit can make a timely success stale.  `Cap` lies beyond
  both windows, `RevStaleAfter + 1` beyond the other.
* The lists of targets in `manifest` hold every case of an edit: a scalar set,
  keys added to mappings nested in a list and outside one, a mapping added with
  its keys, two documents matched by one label, a list of two targets of which
  one matches, fields that two lists claim in different ways, and a path that is
  refused.  A conflict takes one edit; the second lets a conflict be resolved
  again, or a field pass on and back.  `HandoversAreEdits` allows one handover of
  a field per edit, the most that can be right.
* Three processes are one that dies, one that is cleaning up and one that comes
  late; three faults let a clean-up fail twice after a death.
* Two tags with two builds each are a release, the one before, and another image
  for either.  Three changes let a tag be rebound, digests be turned off and on,
  or a tag be withdrawn and come back.  The run was also made once with four
  changes (22 million states) and once with two faults and two changes (0.6
  million), with the same result.

Deadlock is checked except in `writeback*` and `observation`, where the bounded
number of calls, commits and seconds runs out.

### Disagreements

These runs check one property each, a statement of the repository's own
documents, and TLC finds it violated by what the code does.

| Run | Statement | What happens |
|---|---|---|
| `app_unreadable` | the observation phase "MUST be bounded" (`controller.go` 282) | an Application that cannot be read returns before the deadline is looked at |
| `writeback_conflict` | "a rejected non-fast-forward push is rebased in effect by replaying the surgical edit on the new tip" (`git.go` 48) | the vendored go-git returns another error than the one `Apply` retries on; the call fails at the first lost race (the next reconcile writes again) |
| `insertion_order` | "applies only configured target fields" (`yaml.go` 18) | a key is added to a mapping and to the last mapping in it, so both go to the same line; they are put there in the order of a Go map, and the outer key may split the inner mapping: `image: tag: v0`, then `tag: v10` at the column of `image`, then `rev: sha` two columns deeper.  The manifest is pushed and can no longer be decoded |

Other differences between the code and what is said of it, met while modelling,
have no run of their own:

* *Skipped tags* stay excluded "until a newer tag deploys successfully"
  (`tagupdater_types.go` 148), but a Healthy verdict on *any* tag clears the list
  (`controller.go` 312): when newer tags failed and a lower one, published late,
  is Healthy, all of them are eligible again.
* *Failed tags* "are not immediately selected again" (`README.md` 121), but the
  rollback is pushed before the status is saved (`controller.go` 604, 628).  If
  the process dies in between, the watch is still on the failed tag, the rolled
  back workload is Healthy, that counts for the failed tag, and it is written
  again, without a watch.  `RolledBackStaysOut` is therefore checked without
  crashes.
* "ArgoCD reports the written commit Healthy" (`controller.go` 313) is said when
  `status.sync.revision` names the commit, which it does as soon as ArgoCD has
  compared it; the health read next may be that of the previous release.
* `tag-resolution` restarts the pod "when git tag→rev resolution has been failing
  past its staleness window" (`README.md` 171), but it measures the time since a
  tag was last resolved, which also passes while the gate waits for health (up to
  20 minutes against a window of 5), while no tag matches, or with an interval of
  5 minutes.
* `validateFieldOwnership` "ensures one updater is the sole writer for a scalar in
  a manifest" (`controller.go` 674), but compares what targets say, not what they
  match: two updaters that name one document by its name and by its label, or
  spell the repository in two ways, both own its field and write it in turn for
  ever.
* `README.md` 118-120 and `tagupdater_types.go` 166 say the health timeout starts
  when ArgoCD's revision *equals* the commit; `observes` also accepts a rollout
  begun after the arming, and its own comment explains why.
* Switching `spec.rollback` off and on again finds an old watch still open, on a
  tag that may no longer be deployed.
* `tagupdater_types.go` 49 says an absent key renders empty and the field is
  skipped; templates are executed with `missingkey=error` (`yaml.go` 89), so the
  update fails.
* A key added at the root of a document that is not the last goes to the end of
  the file, into another document (`yaml.go` 246-262: a separator is not indented
  less than the root).  The instances add keys below the root.

## 4. Fairness

* `TagUpdater`: weak fairness of `Reconcile` (every return requeues, by the
  interval, the 15 second recheck or the error backoff, and no step waits for
  ever), of `InformerSync` (the watch delivers) and of `Tick`.  Nothing is
  assumed of ArgoCD, of users or of publishers.  `WatchEnds`, `StatusCatchesUp`
  and `Settles` carry the premise that the Applications are readable from some
  time on; `app_unreadable` shows that it is needed.  Faults are bounded in
  number, which stands for *eventually they stop*.
* `Writeback`: weak fairness of each writer's `Apply`; its steps wait for no
  one.  Safety runs use none.
* `Manifest`: strong fairness of `Get` per updater, since each is requeued after
  its interval and a queue with one worker serves all; every reconcile ends
  (`[]<>(pc = "idle")`, which is weak fairness of its steps, each enabled until
  taken); and weak fairness of `Sync`.  Edits are bounded, tags are published or
  not.
* `TempDir`: weak fairness of the start-up steps and of `Release` per process:
  something starts the process again, and start-up waits for nothing but the
  lock, which it does not wait for.  No push has to end and no process to stop.
* `ImageDigest` is checked for safety only.
* `Progress`: weak fairness of the end of each delay, of `Begin` per updater,
  of the steps of a reconcile that does not hang, and of `Kill` (the kubelet
  probes periodically).  Time passes while that makes a difference
  (`[]<>Settled \/ []<><<Tick>>_vars`): no infinity of events happens at one
  instant.  `Hang` is never forced and never excluded.

## 5. What is proved

All theorems hold for every value of the constants that satisfies the named
assumptions, which only say that constants have their types and that names
that must differ do.  Nine theorems have a hypothesis besides, explained
below the table: it is named in the statement, and TLC shows for the
run's instance that it can be met.  Induction is over the steps of the
behaviour; each proof has one step per action.  What the matcher computes for a
listing of any length needs induction over the listing as well: the library's
induction theorems take a predicate, which the provers cannot instantiate, so
`ManifestProofs` first proves induction and recursion as facts about *sets* of
numbers, from the well-foundedness of proper inclusion between finite sets.

| Theorem | Statement | Argument |
|---|---|---|
| `TagUpdaterProofs` `TypeCorrect` | `[]TypeOK` | inductive as it stands |
| `WritesAreRecorded` | `[]WriteRecorded` | `WriteRecorded` speaks of the stored object only and is not inductive: a stale copy may be written back.  `RecordInv` adds that the cached and the held copy are right about *their* generation, that a copy which can still be stored has the stored spec, and that the commit `Apply` returned holds what `Reconcile` is about to record |
| `ShortcutIsSound` | `[]ShortcutSound` | from `RecordInv` for the held copy: recorded commit = head, generation = generation written |
| `CopiesAreRight` | `[]RecordInv` | `RecordInv` with `TypeOK` is inductive; it is the invariant the two theorems above rest on |
| `GateProofs` `WatchIsOfTheLastDeploy` | `[]WatchIsDeployed`, if `RollbackStaysOn` | `WatchInv`: the property for all three copies of the object; a copy is armed only with the commit `Apply` has just returned for its last tag; and a held copy at a step that does not look at watches has none |
| `GateIsHeld` | `GateHeld`, if `CurrentCopy` | `GateInv`: while the worker selects and writes, it has the stored object in hand, and that has no watch |
| `RollbackIsOneStepBack` | `RollbackUndoesLastDeploy`, if `PushesAreRecorded` | `TrailInv`: the last commit of another tag than the one deployed is of the previous tag, and others' commits lie in between only; that relates the status to the whole branch |
| `RolledBackIsNotRetried` | `RolledBackStaysOut`, if `PushesAreRecorded` | `TrailInv`: a tag whose rollback was pushed is in `skippedTags` of every copy that can select a tag, or is being recorded there; and it is neither the last tag nor, under an open watch, the previous one, so a rollback does not restore it either |
| `ReleasesAreTried` | `Spec => OneTrialAtATime`, if `PushesAreRecorded` | refinement: `Write` is `Try`, the closing steps are `Accept`, `Abandon` and `Keep`, `WriteRollback` is `RollBack`, the rest stutters.  `TrailInv` gives that the status to be saved is about the last tag on the branch; `RolloutInv` adds that a status without a tag means a branch without one, and that a watch being closed is open in the stored object |
| `WritebackProofs` `TypeCorrect` | `[]TypeOK` | inductive, with every clone and answer a commit of the branch |
| `NothingIsLost` | `[]NoLostUpdate` | a push lands only on the commit its clone was taken from; what is on the branch never changes |
| `AnswersHold` | `[]AnswerHolds` | from `CallInv`: during a call the clone is no older than the call, and a commit waiting to be pushed changes something |
| `CallCommitsOnce` | `[]AtMostOneCommit` | before a push no commit of the branch is this call's; a push ends the call or loses, so the set of its commits grows once, from empty |
| `ApplyKeepsPromise` | `Spec => KeepsPromise` | refinement with `call` hidden while no call runs: `Push` is `Put`, `Unchanged` is `Confirm`, a failure is `Refuse`, the rest stutters |
| `ObservationProofs` `TypeCorrect` | `[]TypeOK` | inductive |
| `NeverAbandonedWhenSeen` | `AbandonedIsUnseen` | `Shown`: at all times the last history entry or the current operation shows a rollout that no completed one is later than, so a rollout begun since the arming is seen however short the history |
| `NeverObservedBeforeReached` | `ObservedIsReached`, when history entries carry `deployStartedAt` | what the Application shows has been rolled out at the time shown, and what begins later than one stale comparison after the arming carries the commit |
| `ProgressProofs` `TypeCorrect` | `[]TypeOK` | the queue holds a key once: lemmas on removing and appending keys; what runs is tracked |
| `CountedIsExisting` | `[]TracksExisting` | with `TypeOK` inductive: an event makes its key ready, no step but `Begin` takes a ready key away, and `Begin` brings its entry up to date |
| `WaitingIsNotFailing` | `[]StaleMeansFailing`, if `WindowsLeaveRoom` | `WaitInv`: the time since the last success and what is left of the wait add up to at most the window.  The wait is the delay, the reconcile that is running, and one more for each key ahead in the queue; a tick moves time from the one to the other, `Without` and `Append` keep the order of the rest, and an event sends a key back at most once; what is running is in the queue for an event only (`Raised`), so a key of low priority does not wait for it twice |
| `TempDirProofs` `TypeCorrect` | `[]TypeOK` | inductive, with: who holds the lock is at a step that holds it |
| `LiveClonesAreSafe` | `[]LiveClonesStay` | only the holder of the lock lists, cleans, or uses a clone, so whoever uses one is alone; a new one takes a free name |
| `StartIsClean` | `[]UpMeansClean` | the holder's list of entries still to look at contains every interrupted clone until it is empty; nobody else adds one meanwhile |
| `DirectoryIsOwned` | `Spec => RootHasOneOwner` | refinement: `Cleaned` is `Take`, `Clean` is `Remove`, and every way a process that is up may end is `Leave`.  Beside the invariant of the others it needs that entries which are not this user's are never one of its clones (`Apart`) |
| `ImageDigestProofs` `TypeCorrect` | `[]TypeOK` | inductive, with: in every copy of the status, a watch is of the last release |
| `RecordIsPushed` | `[]RecordedWasWritten` | not inductive for the stored status alone: the cached and the held copy have to record written releases as well, and the branch only grows |
| `RollbackIsExact` | `[]RollbackRestoresImage` | what is restored is the held copy's previous release, with its digest, which that invariant says was written |
| `PinIsKept` | `[]PinHolds` | `Pin`: a copy that can be saved is the stored one but for what it just pushed, and what it just pushed is the tip; what is about to be pushed is no other image of the last release |
| `CommitsAreOneRelease` | `[]NoMixedRelease` | a digest resolved is of the selected tag, and a recorded one of the tag it is recorded with |
| `ManifestProofs` `FieldsAreNotFoughtOver` | `[]HandoversAreEdits`, if `UpdateIsExact` and `OneKey` | `HandoverInv`: a field was handed over as often as edits have reached the informer, at most, and less often unless the informer's copies give it to its last writer alone; what the worker is about to write is covered in the same way |
| `NewestIsTaken` | `NewestIsWritten`, if `Numbered` | `All` keeps the tags that match and no others; a tag put behind the last one it does not go before keeps the numbers falling, so the head of `Sorted` has the highest, and a listing has every published tag |
| `VariablesAreTyped` | `[]Typed` | inductive, with: what `Latest` takes is one of the tags listed |

The hypotheses:

* `GateProofs` names what the world has to leave alone.  `RollbackStaysOn`:
  `spec.rollback` is not switched.  `CurrentCopy`: besides, the spec is not
  edited and the cache does not lag.  `PushesAreRecorded`: besides, no crash, no
  refused save and no lost answer.  Everything else may happen (other writers,
  withdrawn and new tags, failing sources, failing pushes, Applications that
  answer anything).  Each exclusion is needed: with any single one of the
  excluded disturbances let in, TLC finds the property violated.  The proofs
  therefore say more than `updater_gate` checks, which excludes crashes and a
  lagging cache for all four: a watch is right through both, and the gate is
  held through crashes.
* `WindowsLeaveRoom`: for N updaters, each of whose intervals, and a poll, is
  shorter than its window by at least 2(N - 1) times the longest reconcile.  It is
  what an operator has to see to when setting `--reconcile-stale-floor`; the
  instance of `progress` satisfies it, with nothing to spare.  It is what is needed:
  with room for one reconcile less, TLC finds an updater stale that only waited,
  with two updaters and with three.  The second round is real: an updater known
  from the first listing that gets an event while it waits goes to the end of the
  queue, behind others that have been served since.
* `Starts = {TRUE}` in `NeverObservedBeforeReached`: every history entry carries
  `deployStartedAt`.  It "is absent on older ArgoCD releases"
  (`rollback_writeback_test.go` 104); for an entry without it `deploymentsFrom`
  takes `deployedAt`, when the rollout ended (`controller.go` 512), and TLC finds a
  rollout older than the push taken for one of the commit.
* `UpdateIsExact` is the property the run `manifest` checks; the proof is about
  who writes when, for any texts and lists of targets, and takes from it that an
  update changes its targets' fields only.  `OneKey(key)` says that two targets
  that reach one field name its document in the same way, so that
  `validateFieldOwnership` gives it the same key.  It is what the code relies on,
  and without it the property fails (section *Disagreements*).  In the instance
  the fields of the first document are reached by name or by label, each in one
  way; TLC finds `OneKey` true there.  `UpdateIsExact` is not true of every text,
  as `insertion_order` shows, so it cannot become an assumption on the constants.
* `Numbered`: the tags that match have a build number.  Where some have none
  the comparator compares names with one pair and numbers with the next, which
  is no order, and what sorting by it finds depends on the listing.  The sort
  modelled is the insertion sort that `sort.Slice` uses for up to twelve
  elements; with an order, every sort puts a highest number first.

TLC has checked the inductive invariants before they were proved: `WatchInv`,
`GateInv` and `TrailInv` on instances of 6.8, 0.2 and 5.0 million states,
`Pin`, `WaitInv` and `HandoverInv` on the instances of the runs, and `WaitInv`
also with three updaters (6.0 million states).

Only model-checked: everything under fairness (`WatchEnds`, `StatusCatchesUp`,
`HungIsRestarted`, `OutageIsRestarted`, `InterruptedAreRemoved` and the two
`Settles`), which the proof system does not reach; `UpdateIsExact`; and, of
`Manifest.TypeOK`, that the text stays decodable (`VariablesAreTyped` is the rest
of it).  What the text operations compute is recursion over lines and trees, and
that an edit is exact, or leaves a text that can be decoded, holds for texts and
lists of targets like the instance's, not for all.

## 6. What is not modelled

* Conditions (among them `Stalled`, which some paths do not refresh), events and
  metrics: nothing is decided with them.
* Release records of Nix sources, and what a tag source or a registry is asked
  and how: authentication, HTTP, token exchange, redirects.  An answer or an
  error is all the models know of them.
* Of the YAML text: flow style, anchors, block scalars, quoting, empty scalars.
  The last one is written as `key:value`, without a space (`yaml.go` 201), and a
  mapping written `{}` gets its keys at a column that is no indentation (277).
* In `Manifest`: several files, namespaces and repositories in the ownership key,
  other writers of the branch (`Writeback` has them), and listings that mix
  numeric and other captures, for which the comparator is not an order.
* In `ImageDigest`: the clock, spec edits other than `resolveDigest`, and
  `spec.rollback` switched off.  When the newest tag is withdrawn, the tag before
  it is resolved anew: no digest is recorded for it as `lastTag`.
* Applications with a separate `managingApp` or several sources, and watches from
  before `watchingArmedAt` existed.
* Which configuration is invalid; in `Progress` that is a failure and nothing
  more.
* Charts, CRDs, flags and wiring, generated deep copies.

## 7. Plan

Done, in the order of what an error would cost: `TagUpdater`, `ManifestBranch`
and `Writeback`, `Observation`, `Progress`, `ImageDigest`, `TempDir`, `Matcher`,
`ManifestText` and `Manifest`; of the abstract specifications `Rollout` and
`OwnedDir`.  Next:

1. `Observation` composed with the gate of `TagUpdater`, in place of the
   Application that answers anything.
2. Conditions, with the claim that `Stalled` follows the entry.
3. Which texts and lists of targets `UpdateIsExact` is true of, as a condition on
   the constants, and its proof.
