---------------------------- MODULE ImageDigest ----------------------------
(***************************************************************************)
(* Immutable image digests (internal/controller/image_digest.go and its    *)
(* uses in tagupdater_controller.go): with spec.source.resolveDigest the   *)
(* manifest gets, beside the tag, the digest the registry gives for it.    *)
(* The digest is recorded with the tag, follows it into previousTag, and   *)
(* is what a rollback writes.                                              *)
(*                                                                         *)
(* The same reconcile loop as in TagUpdater, with rollback always on, with *)
(* no clock, with every way to fail before a push in one action, and with  *)
(* a registry in which a tag may be bound to another image at any time.    *)
(*                                                                         *)
(*   - A digest names its image: the tag it was built for and which build  *)
(*     of it, so no two tags share one.                                    *)
(*   - The targets write the digest if and only if it is resolved.         *)
(*   - A commit is what the manifest holds of tag and digest; the branch   *)
(*     is the sequence of its commits, and a commit its position.          *)
(*   - Conditions are not modelled: a path that changes nothing else of    *)
(*     the status only ends the reconcile.                                 *)
(***************************************************************************)
EXTENDS Integers, Sequences

CONSTANTS
  Tags,        \* the build numbers that may be published
  Builds,      \* the builds of an image
  FirstBuild,  \* the one each tag is first bound to
  Upgrading,   \* the object may have a status from before there were digests
  MaxFaults,   \* bound: lost saves and crashes
  MaxChanges   \* bound: what others do to tags, registry, spec and branch

ASSUME TagsAssumption == Tags \subseteq Nat \ {0}
ASSUME BuildsAssumption == FirstBuild \in Builds
ASSUME UpgradingAssumption == Upgrading \in BOOLEAN
ASSUME BoundsAssumption == MaxFaults \in Nat /\ MaxChanges \in Nat

NoTag == 0                            \* the empty string, as a tag
NoCommit == 0                         \* the empty string, as a commit SHA

VARIABLES
  stored,     \* the TagUpdater object held by the API server
  cached,     \* the informer cache's copy of it
  synced,     \* the cache holds the current resourceVersion
  pc,         \* where the worker is in Reconcile
  tu,         \* the copy being reconciled
  fresh,      \* tu carries the current resourceVersion
  latest,     \* the tag Reconcile selected
  digest,     \* data["image_digest"]
  branch,     \* the manifest branch
  source,     \* the tags published in the tag source
  registry,   \* the build each tag is bound to
  faults,     \* faults left to inject
  changes,    \* changes left to the others
  unpinned    \* history: a tag was written without digests, or by a reconcile
              \* whose copy of the status was not the stored one

api == <<stored, cached, synced>>
local == <<tu, fresh, latest, digest>>
world == <<branch, source, registry>>
vars == <<api, pc, local, world, faults, changes, unpinned>>

Digests == [tag : Tags, build : Builds]
NoDigest == [tag |-> NoTag, build |-> FirstBuild]    \* the empty string

Release == [tag : Tags \cup {NoTag}, digest : Digests \cup {NoDigest}]

Nothing == [tag |-> NoTag, digest |-> NoDigest]

Status == [last : Release, previous : Release, lastWriteCommit : Nat, observedGeneration : Nat,
           skippedTags : SUBSET Tags, watchingTag : Tags \cup {NoTag}]

Object == [resolveDigest : BOOLEAN, generation : Nat, status : Status]

NewObject ==
  [resolveDigest |-> TRUE, generation |-> 1,
   status |-> [last |-> Nothing, previous |-> Nothing, lastWriteCommit |-> NoCommit,
               observedGeneration |-> 0, skippedTags |-> {}, watchingTag |-> NoTag]]

\* An object that deployed a tag before the feature was turned on.
Upgraded(t) ==
  [NewObject EXCEPT !.generation = 2,
                    !.status.last = [tag |-> t, digest |-> NoDigest],
                    !.status.lastWriteCommit = 2, !.status.observedGeneration = 1]

Tip == branch[Len(branch)]

\* Writer.Apply: what the targets render, on top of what is there.
Written(o, release) ==
  LET content == IF o.resolveDigest THEN release ELSE [release EXCEPT !.digest = Tip.digest]
  IN  IF content = Tip THEN branch ELSE Append(branch, content)

Init ==
  /\ \/ stored = NewObject /\ branch = <<Nothing>>
     \/ /\ Upgrading
        /\ \E t \in Tags : /\ stored = Upgraded(t)
                           /\ branch = <<Nothing, [tag |-> t, digest |-> NoDigest]>>
  /\ cached = stored /\ synced = TRUE
  /\ pc = "idle" /\ tu = NewObject /\ fresh = FALSE /\ latest = NoTag /\ digest = NoDigest
  /\ source = Tags
  /\ registry = [t \in Tags |-> FirstBuild]
  /\ faults = MaxFaults /\ changes = MaxChanges
  /\ unpinned = FALSE

-----------------------------------------------------------------------------
(* Steps shared by the handlers.                                           *)

Fault == faults > 0 /\ faults' = faults - 1

\* The reconcile ends, and its copy of the object with it.
EndReconcile ==
  /\ pc' = "idle"
  /\ tu' = NewObject /\ fresh' = FALSE /\ latest' = NoTag /\ digest' = NoDigest

\* Status().Update, which needs the current resourceVersion; the cache follows
\* later.  When it fails the reconcile ends.
Store(status, next) ==
  \/ /\ fresh
     /\ tu' = [tu EXCEPT !.status = status]
     /\ stored' = tu' /\ synced' = FALSE
     /\ pc' = next
     /\ UNCHANGED <<cached, fresh, latest, digest, faults>>
  \/ /\ IF fresh THEN Fault ELSE faults' = faults
     /\ EndReconcile
     /\ UNCHANGED api

\* OCI.Digest of the exact tag; an answer that is no digest is an error.
RegistryDigest(t) == [tag |-> t, build |-> registry[t]]

Released(status) == [status EXCEPT !.watchingTag = NoTag]

\* Mutant: a rollback leaves the watch open.
FailedStillWatched(status) == [status EXCEPT !.skippedTags = @ \cup {status.watchingTag}]

Failed(status) == [Released(status) EXCEPT !.skippedTags = @ \cup {status.watchingTag}]

\* The status records that o's spec was written as commit c.
Wrote(status, o, c) == [status EXCEPT !.observedGeneration = o.generation, !.lastWriteCommit = c]

\* What the history variable notes of a write.
Trusting == unpinned' = (unpinned \/ ~tu.resolveDigest \/ tu.status # stored.status)

-----------------------------------------------------------------------------
(* Reconcile.                                                              *)

\* The gate comes before the tag pipeline while a watch is open.
Get ==
  /\ pc = "idle"
  /\ tu' = cached /\ fresh' = synced
  /\ pc' = IF cached.status.watchingTag = NoTag THEN "list" ELSE "gate"
  /\ UNCHANGED <<api, latest, digest, world, faults, changes, unpinned>>

\* What is still awaited, or fails before a push, ends the reconcile: the
\* Application's verdict, the listing, the pin of a tag to its commit, the
\* registry, the credentials, the clone.
GiveUp ==
  /\ pc \in {"gate", "rollback", "list", "resolve", "write"}
  /\ EndReconcile
  /\ UNCHANGED <<api, world, faults, changes, unpinned>>

\* A Healthy verdict forgives the skipped tags, an abandoned watch does not.
CloseWatch ==
  /\ pc = "gate"
  /\ \/ Store([Released(tu.status) EXCEPT !.skippedTags = {}], "list")
     \/ Store(Released(tu.status), "list")
  /\ UNCHANGED <<world, changes, unpinned>>

\* The rollout failed; without a previous tag there is only the status to change.
Unhealthy ==
  /\ pc = "gate"
  /\ IF tu.status.previous.tag \in {NoTag, tu.status.watchingTag}
     THEN Store(Failed(tu.status), "list")
     ELSE pc' = "rollback" /\ UNCHANGED <<api, local, faults>>
  /\ UNCHANGED <<world, changes, unpinned>>

\* Mutant: doRollback asks the registry what the previous tag is.
RestoredByTag ==
  IF tu.resolveDigest
  THEN {[tag |-> tu.status.previous.tag, digest |-> RegistryDigest(tu.status.previous.tag)]}
  ELSE {[tu.status.previous EXCEPT !.digest = NoDigest]}

\* What doRollback writes and then records: nothing when the digest is wanted
\* and was never recorded.
Restored ==
  IF tu.resolveDigest THEN {tu.status.previous} \ {[tu.status.previous EXCEPT !.digest = NoDigest]}
  ELSE {[tu.status.previous EXCEPT !.digest = NoDigest]}

WriteRollback ==
  /\ pc = "rollback"
  /\ tu.status.previous.tag \in source
  /\ \E release \in Restored :
       /\ branch' = Written(tu, release)
       /\ tu' = [tu EXCEPT !.status =
                   [Wrote(Failed(@), tu, Len(branch')) EXCEPT !.last = release]]
  /\ Trusting
  /\ pc' = "saveRollback"
  /\ UNCHANGED <<api, fresh, latest, digest, source, registry, faults, changes>>

\* rollbackWithStatus tries a failed update again, which is then the end of the
\* reconcile: as if it had succeeded and the listing failed.
SaveRollback ==
  /\ pc = "saveRollback"
  /\ Store(tu.status, "list")
  /\ UNCHANGED <<world, changes, unpinned>>

\* The newest tag that is not skipped.
List ==
  /\ pc = "list"
  /\ \E t \in source \ tu.status.skippedTags :
       /\ \A u \in source \ tu.status.skippedTags : u <= t
       /\ latest' = t
  /\ pc' = "resolve"
  /\ UNCHANGED <<api, tu, fresh, digest, world, faults, changes, unpinned>>

\* addImageDigest: data["image_digest"] is set if the spec asks for it.
AddedDigest == IF tu.resolveDigest THEN RegistryDigest(latest) ELSE NoDigest

\* Mutant: the digest is taken as the registry gives it.
ResolveUnchecked ==
  /\ pc = "resolve"
  /\ latest \in source
  /\ digest' = AddedDigest
  /\ pc' = "write"
  /\ UNCHANGED <<api, tu, fresh, latest, world, faults, changes, unpinned>>

\* addRev and addImageDigest, and the refusal of another digest for the
\* recorded tag (RegistryDigestChanged).
Resolve ==
  LET last == tu.status.last
  IN  /\ pc = "resolve"
      /\ latest \in source
      /\ IF tu.resolveDigest /\ latest = last.tag /\ last.digest \notin {NoDigest, AddedDigest}
         THEN EndReconcile
         ELSE digest' = AddedDigest /\ pc' = "write" /\ UNCHANGED <<tu, fresh, latest>>
      /\ UNCHANGED <<api, world, faults, changes, unpinned>>

\* Nothing to do: this release, this generation, and the head it was written as.
RemoteUnchanged ==
  LET status == tu.status IN
  /\ pc = "write"
  /\ latest = status.last.tag /\ (tu.resolveDigest => digest = status.last.digest)
  /\ status.lastWriteCommit # NoCommit /\ status.lastWriteCommit = Len(branch)
  /\ status.observedGeneration = tu.generation
  /\ EndReconcile
  /\ UNCHANGED <<api, world, faults, changes, unpinned>>

\* Mutant: the digests are rotated after the new one was recorded.
DeployedRotatesLate(status) ==
  IF latest = status.last.tag THEN [status EXCEPT !.last.digest = digest]
  ELSE [status EXCEPT !.previous = [tag |-> status.last.tag, digest |-> digest],
                      !.last = [tag |-> latest, digest |-> digest],
                      !.watchingTag = latest]

\* A new tag moves the last release, its digest with it, to previous, and is
\* watched; the digest is recorded for a tag that stays, too.
Deployed(status) ==
  IF latest = status.last.tag THEN [status EXCEPT !.last.digest = digest]
  ELSE [status EXCEPT !.previous = status.last,
                      !.last = [tag |-> latest, digest |-> digest],
                      !.watchingTag = latest]

\* Apply, whether RemoteHead failed or found something else.
Write ==
  /\ pc = "write"
  /\ branch' = Written(tu, [tag |-> latest, digest |-> digest])
  /\ tu' = [tu EXCEPT !.status = Wrote(Deployed(@), tu, Len(branch'))]
  /\ Trusting
  /\ pc' = "save"
  /\ UNCHANGED <<api, fresh, latest, digest, source, registry, faults, changes>>

Save ==
  /\ pc = "save"
  /\ Store(tu.status, "saved")
  /\ UNCHANGED <<world, changes, unpinned>>

Return ==
  /\ pc = "saved"
  /\ EndReconcile
  /\ UNCHANGED <<api, world, faults, changes, unpinned>>

-----------------------------------------------------------------------------
(* The world around it.                                                    *)

\* The process dies, and the next one lists the objects.
Crash ==
  /\ pc # "idle" /\ Fault
  /\ EndReconcile
  /\ cached' = stored /\ synced' = TRUE
  /\ UNCHANGED <<stored, world, changes, unpinned>>

Sync ==
  /\ ~synced
  /\ cached' = stored /\ synced' = TRUE
  /\ UNCHANGED <<stored, pc, local, world, faults, changes, unpinned>>

Change == changes > 0 /\ changes' = changes - 1

\* A user turns spec.source.resolveDigest, and the patch that uses it, on or off.
ToggleDigest ==
  /\ Change
  /\ stored' = [stored EXCEPT !.resolveDigest = ~@, !.generation = @ + 1]
  /\ synced' = FALSE /\ fresh' = FALSE
  /\ UNCHANGED <<cached, pc, tu, latest, digest, world, faults, unpinned>>

\* A tag is bound to another image, or withdrawn, or published again.
Rebind ==
  /\ Change
  /\ \E t \in Tags, b \in Builds : registry[t] # b /\ registry' = [registry EXCEPT ![t] = b]
  /\ UNCHANGED <<api, pc, local, branch, source, faults, unpinned>>

Withdraw ==
  /\ Change
  /\ \E t \in source : source' = source \ {t}
  /\ UNCHANGED <<api, pc, local, branch, registry, faults, unpinned>>

Publish ==
  /\ Change
  /\ \E t \in Tags \ source : source' = source \cup {t}
  /\ UNCHANGED <<api, pc, local, branch, registry, faults, unpinned>>

\* Somebody changes the rest of the manifest.
ForeignPush ==
  /\ Change
  /\ branch' = Append(branch, Tip)
  /\ UNCHANGED <<api, pc, local, source, registry, faults, unpinned>>

Next ==
  \/ Get \/ GiveUp
  \/ CloseWatch \/ Unhealthy \/ WriteRollback \/ SaveRollback
  \/ List \/ Resolve \/ RemoteUnchanged \/ Write \/ Save \/ Return
  \/ Crash \/ Sync
  \/ ToggleDigest \/ Rebind \/ Withdraw \/ Publish \/ ForeignPush

Spec == Init /\ [][Next]_vars

-----------------------------------------------------------------------------
(* Properties.                                                             *)

\* A watch is of the last release.
TypeOK ==
  /\ stored \in Object /\ cached \in Object /\ tu \in Object
  /\ synced \in BOOLEAN /\ fresh \in BOOLEAN
  /\ pc \in {"idle", "gate", "rollback", "saveRollback", "list", "resolve", "write", "save", "saved"}
  /\ latest \in Tags \cup {NoTag}
  /\ digest \in Digests \cup {NoDigest}
  /\ branch \in Seq(Release) /\ branch # <<>>
  /\ source \in SUBSET Tags
  /\ registry \in [Tags -> Builds]
  /\ faults \in 0..MaxFaults /\ changes \in 0..MaxChanges
  /\ unpinned \in BOOLEAN
  /\ stored.status.watchingTag \in {NoTag, stored.status.last.tag}

\* The releases a status records with their digests.
Recorded(status) == {r \in {status.last, status.previous} : r.digest # NoDigest}

\* A digest in the status is one that was written, with that tag: through lost
\* saves, stale copies, and digests turned off and on.
RecordedWasWritten ==
  \A r \in Recorded(stored.status) : \E i \in 1..Len(branch) : branch[i] = r

\* With digests on, what a rollback writes is a release git held before, and
\* not what the registry binds the tag to by now.
RollbackRestoresImage ==
  [][pc = "rollback" /\ pc' = "saveRollback" /\ tu.resolveDigest =>
       \E i \in 1..Len(branch) : branch[i] = Tip']_vars

\* With digests on, no commit of the controller has the tag of one release and
\* the image of another.
NoMixedRelease ==
  [][tu.resolveDigest /\ pc' \in {"save", "saveRollback"} \ {pc} => Tip'.digest.tag = Tip'.tag]_vars

\* While the manifest has the tag that is recorded as the last, it has the
\* digest recorded for it, whatever the registry says now: through lost saves,
\* crashes and rollbacks.  Not once a tag was written with digests off, or
\* from an outdated copy of the status, which no digest protects.
PinHolds ==
  ~unpinned =>
    LET last == stored.status.last IN
    pc = "idle" /\ last.digest # NoDigest /\ Tip.tag = last.tag => Tip.digest = last.digest
=============================================================================
