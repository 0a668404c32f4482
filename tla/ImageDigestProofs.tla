------------------------- MODULE ImageDigestProofs -------------------------
(***************************************************************************)
(* Proofs about ImageDigest: any tags, builds and bounds.                  *)
(*                                                                         *)
(* The argument goes by copies of the object.  Every copy there is - the   *)
(* stored one, the cached one, the one being reconciled - records only     *)
(* releases the branch has, digest and tag of one image, and watches at    *)
(* most its last release.  The branch only grows, so a copy that was sound *)
(* stays sound however outdated it gets; what a reconcile adds to its copy *)
(* it has pushed before.                                                   *)
(*                                                                         *)
(* The pin needs more: a copy that can be saved is the stored one but for  *)
(* what was just pushed, and what was just pushed is the tip.              *)
(***************************************************************************)
EXTENDS ImageDigest, TLAPS

\* A digest with its tag: it is of that tag, and commit i of the branch b.
Pushed(r, b) == r.digest # NoDigest => r.digest.tag = r.tag /\ \E i \in 1..Len(b) : b[i] = r

SoundStatus(s, b) ==
  /\ s \in Status
  /\ s.watchingTag \in {NoTag, s.last.tag}
  /\ Pushed(s.last, b) /\ Pushed(s.previous, b)

Sound(o, b) == o \in Object /\ SoundStatus(o.status, b)

Copies == Sound(stored, branch) /\ Sound(cached, branch) /\ Sound(tu, branch)

Branch == branch \in Seq(Release) /\ branch # <<>>

\* The gate has a watch, and what is about to be written is one image.
Step ==
  /\ pc \in {"gate", "rollback"} => tu.status.watchingTag \in Tags
  /\ pc = "write" => (digest # NoDigest => tu.resolveDigest /\ digest.tag = latest)
  /\ pc = "write" => (tu.resolveDigest => digest # NoDigest)

\* Everything else has its type.
Others ==
  /\ synced \in BOOLEAN /\ fresh \in BOOLEAN
  /\ pc \in {"idle", "gate", "rollback", "saveRollback", "list", "resolve", "write", "save", "saved"}
  /\ latest \in Tags \cup {NoTag}
  /\ digest \in Digests \cup {NoDigest}
  /\ source \in SUBSET Tags
  /\ registry \in [Tags -> Builds]
  /\ faults \in 0..MaxFaults /\ changes \in 0..MaxChanges
  /\ unpinned \in BOOLEAN

IInv == Copies /\ Branch /\ Step /\ Others

-----------------------------------------------------------------------------
(* Copies of the object.                                                   *)

LEMMA NoDigestIsNone == \A d \in Digests : d # NoDigest /\ d.tag # NoTag
  BY TagsAssumption DEF Digests, NoDigest, NoTag

LEMMA NewIsSound == \A b : Sound(NewObject, b)
<1>1. NewObject \in Object
  BY BuildsAssumption DEF NewObject, Object, Status, Nothing, Release, NoDigest, NoTag, NoCommit
<1> QED
  BY <1>1 DEF Object, Sound, SoundStatus, NewObject, Nothing, Pushed, NoTag

\* The branch b is a prefix of c.
Extends(c, b) == Len(b) \in Nat /\ Len(c) \in Nat /\ Len(b) <= Len(c)
                 /\ \A i \in 1..Len(b) : c[i] = b[i]

LEMMA SoundStays ==
  ASSUME NEW o, NEW b, NEW c, Sound(o, b), Extends(c, b)
  PROVE  Sound(o, c)
<1>1. \A r : Pushed(r, b) => Pushed(r, c)
  BY DEF Pushed, Extends
<1> QED
  BY <1>1 DEF Sound, SoundStatus

LEMMA ReleasedIsSound ==
  ASSUME NEW s, NEW b, SoundStatus(s, b)
  PROVE  SoundStatus(Released(s), b) /\ SoundStatus([Released(s) EXCEPT !.skippedTags = {}], b)
  BY DEF SoundStatus, Released, Status, NoTag

LEMMA FailedIsSound ==
  ASSUME NEW s, NEW b, SoundStatus(s, b), s.watchingTag \in Tags
  PROVE  SoundStatus(Failed(s), b) /\ Failed(s).watchingTag = NoTag
  BY DEF SoundStatus, Failed, Released, Status, NoTag

\* What Apply leaves: the old branch is kept, and the release is its tip if
\* digests are on.
LEMMA WrittenExtends ==
  ASSUME Branch, NEW o \in Object, NEW r \in Release
  PROVE  LET w == Written(o, r) IN
         /\ w \in Seq(Release) /\ w # <<>> /\ Extends(w, branch)
         /\ o.resolveDigest => w[Len(w)] = r
         /\ Len(w) \in Nat
<1> DEFINE content == IF o.resolveDigest THEN r ELSE [r EXCEPT !.digest = Tip.digest]
<1>1. Tip \in Release
  BY DEF Branch, Tip
<1>2. content \in Release
  BY <1>1 DEF Release
<1>3. Written(o, r) = IF content = Tip THEN branch ELSE Append(branch, content)
  BY DEF Written
<1> HIDE DEF content
<1>4. CASE content = Tip
  <2>1. Written(o, r) = branch
    BY <1>3, <1>4
  <2>2. o.resolveDigest => content = r
    BY DEF content
  <2> QED
    BY <1>4, <2>1, <2>2 DEF Branch, Extends, Tip
<1>5. CASE content # Tip
  <2>1. Written(o, r) = Append(branch, content)
    BY <1>3, <1>5
  <2>2. o.resolveDigest => content = r
    BY DEF content
  <2> QED
    BY <1>2, <2>1, <2>2 DEF Branch, Extends
<1> QED
  BY <1>4, <1>5

-----------------------------------------------------------------------------
(* Steps.                                                                  *)

\* The branch extends itself.
LEMMA BranchExtends == Branch => Extends(branch, branch)
  BY DEF Branch, Extends

LEMMA InitIInv == Init => IInv
<1> SUFFICES ASSUME Init PROVE IInv
  OBVIOUS
<1>1. Sound(stored, branch)
  <2>1. CASE stored = NewObject
    BY <2>1, NewIsSound
  <2>2. ASSUME NEW t \in Tags, stored = Upgraded(t) PROVE Sound(stored, branch)
    <3>1. Upgraded(t) \in Object
      BY <2>2, TagsAssumption, BuildsAssumption
      DEF Upgraded, NewObject, Object, Status, Nothing, Release, NoDigest, NoTag, NoCommit
    <3> QED
      BY <2>2, <3>1 DEF Object, Upgraded, NewObject, Nothing, Sound, SoundStatus, Pushed
  <2> QED
    BY <2>1, <2>2 DEF Init
<1>2. Copies
  BY <1>1, NewIsSound DEF Init, Copies
<1>3. Branch
  <2>1. Nothing \in Release /\ \A t \in Tags : [tag |-> t, digest |-> NoDigest] \in Release
    BY DEF Nothing, Release, NoDigest, NoTag
  <2>2. \A r \in Release, q \in Release : <<r>> \in Seq(Release) /\ <<r, q>> \in Seq(Release)
                                        /\ <<r>> # <<>> /\ <<r, q>> # <<>>
    OBVIOUS
  <2>3. branch = <<Nothing>> \/ \E t \in Tags : branch = <<Nothing, [tag |-> t, digest |-> NoDigest]>>
    BY DEF Init
  <2> QED
    BY <2>1, <2>2, <2>3 DEF Branch
<1>4. Step /\ Others
  <2>1. /\ synced = TRUE /\ fresh = FALSE /\ pc = "idle" /\ latest = NoTag /\ digest = NoDigest
        /\ source = Tags /\ unpinned = FALSE /\ faults = MaxFaults /\ changes = MaxChanges
    BY DEF Init
  <2>2. registry \in [Tags -> Builds]
    BY BuildsAssumption DEF Init
  <2>3. Step
    BY <2>1 DEF Step
  <2>4. faults \in 0..MaxFaults /\ changes \in 0..MaxChanges
    BY <2>1, BoundsAssumption
  <2> QED
    BY <2>1, <2>2, <2>3, <2>4, Zenon DEF Others
<1> QED
  BY <1>2, <1>3, <1>4 DEF IInv

\* Ending the reconcile is sound whatever the copy was.
LEMMA EndKeeps ==
  ASSUME IInv, EndReconcile
  PROVE  Sound(tu', branch) /\ Step' /\ fresh' \in BOOLEAN /\ pc' = "idle"
         /\ latest' \in Tags \cup {NoTag} /\ digest' \in Digests \cup {NoDigest}
  BY NewIsSound DEF EndReconcile, Step

\* A lost update is one fault less.
LEMMA FaultBound == IInv /\ Fault => faults' \in 0..MaxFaults
  BY BoundsAssumption DEF IInv, Others, Fault

LEMMA ChangeBound == IInv /\ Change => changes' \in 0..MaxChanges
  BY BoundsAssumption DEF IInv, Others, Change

\* Status().Update of a sound status, on the way to a step that needs nothing.
LEMMA StoreKeeps ==
  ASSUME IInv, NEW status, NEW next \in {"list", "saved"}, SoundStatus(status, branch),
         Store(status, next), UNCHANGED <<world, changes>>, unpinned' = unpinned
  PROVE  IInv'
<1>1. CASE fresh /\ tu' = [tu EXCEPT !.status = status] /\ stored' = tu' /\ synced' = FALSE
           /\ pc' = next /\ UNCHANGED <<cached, fresh, latest, digest, faults>>
  <2>1. Sound(tu', branch)
    BY <1>1 DEF IInv, Copies, Sound, SoundStatus, Object
  <2>2. Copies'
    BY <1>1, <2>1 DEF IInv, Copies, world
  <2>3. Branch' /\ Step' /\ Others'
    BY <1>1 DEF IInv, Branch, Step, Others, world
  <2> QED
    BY <2>2, <2>3 DEF IInv
<1>2. CASE (IF fresh THEN Fault ELSE faults' = faults) /\ EndReconcile /\ UNCHANGED api
  <2>1. faults' \in 0..MaxFaults
    BY <1>2, FaultBound DEF IInv, Others
  <2>2. Copies'
    BY <1>2, EndKeeps DEF IInv, Copies, api, world
  <2>3. Branch' /\ Step' /\ Others'
    BY <1>2, <2>1, EndKeeps DEF IInv, Branch, Others, api, world
  <2> QED
    BY <2>2, <2>3 DEF IInv
<1> QED
  BY <1>1, <1>2 DEF Store

\* The reconcile ends and nothing else changes but, perhaps, the cache.
LEMMA EndingKeeps ==
  ASSUME IInv, EndReconcile, stored' = stored, cached' \in {cached, stored},
         synced' \in BOOLEAN, faults' \in 0..MaxFaults,
         UNCHANGED <<world, changes, unpinned>>
  PROVE  IInv'
<1>1. Copies'
  BY EndKeeps DEF IInv, Copies, world
<1>2. Branch' /\ Step' /\ Others'
  BY EndKeeps DEF IInv, Branch, Others, world
<1> QED
  BY <1>1, <1>2 DEF IInv

\* Copies stay sound when the branch grows.
LEMMA CopiesStay ==
  ASSUME Copies, Extends(branch', branch)
  PROVE  Sound(stored, branch') /\ Sound(cached, branch') /\ Sound(tu, branch')
  BY SoundStays DEF Copies

\* What doRollback writes was written before.
LEMMA RestoredIsPrevious ==
  ASSUME IInv, NEW r \in Restored
  PROVE  /\ r \in Release /\ r.tag = tu.status.previous.tag
         /\ Pushed(r, branch)
         /\ tu.resolveDigest => r = tu.status.previous /\ r.digest # NoDigest
<1> DEFINE p == tu.status.previous
<1>1. p \in Release /\ Pushed(p, branch)
  BY DEF IInv, Copies, Sound, SoundStatus, Status
<1>2. CASE tu.resolveDigest
  <2>1. r = p /\ r # [p EXCEPT !.digest = NoDigest]
    BY <1>2 DEF Restored
  <2>2. p.digest = NoDigest => p = [p EXCEPT !.digest = NoDigest]
    BY <1>1 DEF Release
  <2> QED
    BY <1>1, <2>1, <2>2
<1>3. CASE ~tu.resolveDigest
  <2>1. r = [p EXCEPT !.digest = NoDigest]
    BY <1>3 DEF Restored
  <2>2. r \in Release /\ r.tag = p.tag /\ r.digest = NoDigest
    BY <1>1, <2>1 DEF Release
  <2> QED
    BY <1>3, <2>2 DEF Pushed
<1> QED
  BY <1>2, <1>3

\* A push of r, which ends with a sound copy of the object at a step that
\* needs nothing.
LEMMA PushKeeps ==
  ASSUME IInv, NEW r \in Release, branch' = Written(tu, r), SoundStatus(tu'.status, branch'),
         tu' = [tu EXCEPT !.status = tu'.status], pc' \in {"save", "saveRollback"}, Trusting,
         UNCHANGED <<api, fresh, latest, digest, source, registry, faults, changes>>
  PROVE  IInv'
<1>1. Branch' /\ Extends(branch', branch)
  BY WrittenExtends DEF IInv, Copies, Sound, Branch
<1>2. Sound(stored, branch') /\ Sound(cached, branch')
  BY <1>1, CopiesStay DEF IInv
<1>3. tu' \in Object
  <2> DEFINE s == tu'.status
  <2>1. s \in Status /\ tu \in Object
    BY DEF SoundStatus, IInv, Copies, Sound
  <2>2. [tu EXCEPT !.status = s] \in Object
    BY <2>1 DEF Object
  <2> QED
    BY <2>2
<1>4. Copies'
  BY <1>2, <1>3 DEF Copies, Sound, api
<1>5. unpinned' \in BOOLEAN
  BY DEF Trusting, IInv, Others
<1>6. Step' /\ Others'
  BY <1>5 DEF IInv, Step, Others, api
<1> QED
  BY <1>1, <1>4, <1>6 DEF IInv

LEMMA WriteRollbackKeeps ==
  ASSUME IInv, WriteRollback
  PROVE  IInv'
<1>1. PICK r \in Restored :
        /\ branch' = Written(tu, r)
        /\ tu' = [tu EXCEPT !.status =
                    [Wrote(Failed(tu.status), tu, Len(branch')) EXCEPT !.last = r]]
  BY DEF WriteRollback
<1> DEFINE s == [Wrote(Failed(tu.status), tu, Len(branch')) EXCEPT !.last = r]
<1>2. r \in Release /\ Pushed(r, branch)
  BY RestoredIsPrevious
<1>3. Extends(branch', branch) /\ Len(branch') \in Nat
  BY <1>1, <1>2, WrittenExtends DEF IInv, Copies, Sound
<1>4. Sound(tu, branch') /\ Pushed(r, branch')
  BY <1>2, <1>3, CopiesStay DEF IInv, Pushed, Extends
<1>5. SoundStatus(Failed(tu.status), branch') /\ Failed(tu.status).watchingTag = NoTag
  BY <1>4, FailedIsSound DEF WriteRollback, IInv, Step, Sound
<1>6. SoundStatus(s, branch')
  BY <1>2, <1>3, <1>4, <1>5 DEF SoundStatus, Wrote, Status, Object, Sound
<1>7. tu'.status = s
  BY <1>1, <1>4 DEF Sound, Object
<1>8. tu' = [tu EXCEPT !.status = tu'.status]
  BY <1>1, <1>7
<1> QED
  BY <1>1, <1>2, <1>6, <1>7, <1>8, PushKeeps DEF WriteRollback

LEMMA WriteKeeps ==
  ASSUME IInv, Write
  PROVE  IInv'
<1> DEFINE r == [tag |-> latest, digest |-> digest]
           d == Deployed(tu.status)
           s == Wrote(d, tu, Len(branch'))
<1>1. r \in Release
  BY DEF IInv, Others, Release
<1>2. branch' = Written(tu, r) /\ tu' = [tu EXCEPT !.status = s]
  BY DEF Write
<1>3. /\ Extends(branch', branch) /\ Len(branch') \in Nat /\ branch' \in Seq(Release) /\ branch' # <<>>
      /\ tu.resolveDigest => branch'[Len(branch')] = r
  BY <1>1, <1>2, WrittenExtends DEF IInv, Copies, Sound
<1>4. Sound(tu, branch')
  BY <1>3, CopiesStay DEF IInv
<1>5. Pushed(r, branch')
  <2>1. digest # NoDigest => tu.resolveDigest /\ digest.tag = latest
    BY DEF Write, IInv, Step
  <2>2. Len(branch') \in 1..Len(branch')
    BY <1>3
  <2> QED
    BY <1>3, <2>1, <2>2 DEF Pushed
<1>6. SoundStatus(d, branch')
  <2>1. CASE latest = tu.status.last.tag
    <3>1. d = [tu.status EXCEPT !.last = [tu.status.last EXCEPT !.digest = digest]]
      BY <2>1 DEF Deployed
    <3>2. [tu.status.last EXCEPT !.digest = digest] = r
      BY <1>4, <2>1 DEF Sound, SoundStatus, Status, Release
    <3>3. d = [tu.status EXCEPT !.last = r]
      BY <3>1, <3>2
    <3> QED
      BY <1>1, <1>4, <1>5, <2>1, <3>3 DEF Sound, SoundStatus, Status
  <2>2. CASE latest # tu.status.last.tag
    <3>1. d = [tu.status EXCEPT !.previous = tu.status.last, !.last = r, !.watchingTag = latest]
      BY <2>2 DEF Deployed
    <3>2. latest \in Tags \cup {NoTag}
      BY DEF IInv, Others
    <3>3. tu.status \in Status /\ Pushed(tu.status.last, branch')
      BY <1>4 DEF Sound, SoundStatus
    <3>4. d \in Status
      BY <1>1, <3>1, <3>2, <3>3 DEF Status
    <3>5. d.previous = tu.status.last /\ d.last = r /\ d.watchingTag = latest
      BY <3>1, <3>3 DEF Status
    <3> QED
      BY <1>5, <3>3, <3>4, <3>5 DEF SoundStatus
  <2> QED
    BY <2>1, <2>2
<1>7. SoundStatus(s, branch')
  BY <1>3, <1>4, <1>6 DEF SoundStatus, Wrote, Status, Object, Sound
<1>8. tu'.status = s
  BY <1>2, <1>4 DEF Sound, Object
<1>9. tu' = [tu EXCEPT !.status = tu'.status]
  BY <1>2, <1>8
<1> QED
  BY <1>1, <1>2, <1>7, <1>8, <1>9, PushKeeps DEF Write

LEMMA NextIInv == IInv /\ [Next]_vars => IInv'
<1> SUFFICES ASSUME IInv, [Next]_vars PROVE IInv'
  OBVIOUS
<1>0. Copies /\ Branch /\ Step /\ Others
  BY DEF IInv
<1>u. CASE UNCHANGED vars
  BY <1>u DEF vars, api, local, world, IInv, Copies, Branch, Step, Others
<1>1. CASE Get
  <2>1. tu' = cached /\ UNCHANGED <<stored, cached, branch>>
    BY <1>1 DEF Get, api, world
  <2>2. Copies' /\ Branch'
    BY <1>0, <2>1 DEF Copies, Branch
  <2>3. cached.status.watchingTag \in Tags \cup {NoTag}
    BY <1>0 DEF Copies, Sound, SoundStatus, Status
  <2>4. Step' /\ Others'
    BY <1>0, <1>1, <2>3 DEF Get, Step, Others, api, world
  <2> QED
    BY <2>2, <2>4 DEF IInv
<1>2. CASE GiveUp
  BY <1>0, <1>2, EndingKeeps DEF GiveUp, api, Others
<1>3. CASE CloseWatch
  <2>1. SoundStatus(tu.status, branch)
    BY <1>0 DEF Copies, Sound
  <2> QED
    BY <1>3, <2>1, ReleasedIsSound, StoreKeeps DEF CloseWatch
<1>4. CASE Unhealthy
  <2>1. SoundStatus(tu.status, branch) /\ tu.status.watchingTag \in Tags
    BY <1>0, <1>4 DEF Unhealthy, Copies, Sound, Step
  <2>2. CASE Store(Failed(tu.status), "list")
    BY <1>4, <2>1, <2>2, FailedIsSound, StoreKeeps DEF Unhealthy
  <2>3. CASE pc' = "rollback" /\ UNCHANGED <<api, local, faults>>
    <3>1. Copies' /\ Branch'
      BY <1>0, <1>4, <2>3 DEF Unhealthy, Copies, Branch, api, local, world
    <3>2. Step' /\ Others'
      BY <1>0, <1>4, <2>1, <2>3 DEF Unhealthy, Step, Others, api, local, world
    <3> QED
      BY <3>1, <3>2 DEF IInv
  <2> QED
    BY <1>4, <2>2, <2>3 DEF Unhealthy
<1>5. CASE WriteRollback
  BY <1>5, WriteRollbackKeeps
<1>6. CASE SaveRollback
  BY <1>0, <1>6, StoreKeeps DEF SaveRollback, Copies, Sound
<1>7. CASE List
  <2>1. latest' \in Tags
    BY <1>0, <1>7 DEF List, Others
  <2>2. Copies' /\ Branch'
    BY <1>0, <1>7 DEF List, Copies, Branch, api, world
  <2>3. Step' /\ Others'
    BY <1>0, <1>7, <2>1 DEF List, Step, Others, api, world
  <2> QED
    BY <2>2, <2>3 DEF IInv
<1>8. CASE Resolve
  <2>1. CASE EndReconcile
    <3>1. stored' = stored /\ cached' = cached /\ synced' = synced /\ faults' = faults
          /\ UNCHANGED <<world, changes, unpinned>>
      BY <1>8 DEF Resolve, api
    <3> QED
      BY <1>0, <2>1, <3>1, EndingKeeps DEF Others
  <2>2. CASE digest' = AddedDigest /\ pc' = "write" /\ UNCHANGED <<tu, fresh, latest>>
    <3>1. /\ UNCHANGED <<api, world, faults, changes, unpinned>>
          /\ latest \in source
      BY <1>8 DEF Resolve
    <3>2. AddedDigest \in Digests \cup {NoDigest}
          /\ (tu.resolveDigest => AddedDigest # NoDigest /\ AddedDigest.tag = latest)
          /\ (~tu.resolveDigest => AddedDigest = NoDigest)
      BY <1>0, <3>1, TagsAssumption DEF Others, Digests, NoDigest, NoTag, AddedDigest, RegistryDigest
    <3>3. Copies' /\ Branch'
      BY <1>0, <2>2, <3>1 DEF Copies, Branch, api, world
    <3>4. Step'
      BY <1>0, <2>2, <3>1, <3>2 DEF Step
    <3>5. Others'
      BY <1>0, <2>2, <3>1, <3>2 DEF Others, api, world
    <3> QED
      BY <3>3, <3>4, <3>5 DEF IInv
  <2> QED
    BY <1>8, <2>1, <2>2 DEF Resolve
<1>9. CASE RemoteUnchanged
  BY <1>0, <1>9, EndingKeeps DEF RemoteUnchanged, api, Others
<1>10. CASE Write
  BY <1>10, WriteKeeps
<1>11. CASE Save
  BY <1>0, <1>11, StoreKeeps DEF Save, Copies, Sound
<1>12. CASE Return
  BY <1>0, <1>12, EndingKeeps DEF Return, api, Others
<1>13. CASE Crash
  BY <1>0, <1>13, FaultBound, EndingKeeps DEF Crash
<1>14. CASE Sync
  <2>1. Copies' /\ Branch'
    BY <1>0, <1>14 DEF Sync, Copies, Branch, local, world
  <2>2. Step' /\ Others'
    BY <1>0, <1>14 DEF Sync, Step, Others, local, world
  <2> QED
    BY <2>1, <2>2 DEF IInv
<1>15. CASE ToggleDigest
  <2>1. Sound(stored', branch)
    <3>1. stored \in Object /\ stored' = [stored EXCEPT !.resolveDigest = ~@, !.generation = @ + 1]
      BY <1>0, <1>15 DEF ToggleDigest, Copies, Sound
    <3>2. (~stored.resolveDigest) \in BOOLEAN /\ stored.generation + 1 \in Nat
      BY <3>1 DEF Object
    <3>3. ASSUME NEW x \in BOOLEAN, NEW y \in Nat,
                 stored' = [stored EXCEPT !.resolveDigest = x, !.generation = y]
          PROVE  stored' \in Object /\ stored'.status = stored.status
      BY <3>1, <3>3 DEF Object
    <3>4. stored' \in Object /\ stored'.status = stored.status
      BY <3>1, <3>2, <3>3, Zenon
    <3> QED
      BY <1>0, <3>4 DEF Copies, Sound
  <2>2. Copies' /\ Branch'
    BY <1>0, <1>15, <2>1 DEF ToggleDigest, Copies, Branch, world
  <2>3. Step' /\ Others'
    BY <1>0, <1>15, ChangeBound DEF ToggleDigest, Step, Others, world
  <2> QED
    BY <2>2, <2>3 DEF IInv
<1>16. CASE Rebind \/ Withdraw \/ Publish
  <2>1. Copies' /\ Branch' /\ Step'
    BY <1>0, <1>16 DEF Rebind, Withdraw, Publish, Copies, Branch, Step, api, local
  <2>2. source' \in SUBSET Tags /\ registry' \in [Tags -> Builds] /\ Change
    BY <1>0, <1>16 DEF Rebind, Withdraw, Publish, Others
  <2>3. Others'
    BY <1>0, <1>16, <2>2, ChangeBound DEF Rebind, Withdraw, Publish, Others, api, local
  <2> QED
    BY <2>1, <2>3 DEF IInv
<1>17. CASE ForeignPush
  <2>1. Branch' /\ Extends(branch', branch)
    <3>1. Tip \in Release /\ branch' = Append(branch, Tip)
      BY <1>0, <1>17 DEF ForeignPush, Branch, Tip
    <3> QED
      BY <1>0, <3>1 DEF Branch, Extends
  <2>2. Copies'
    BY <1>0, <1>17, <2>1, CopiesStay DEF ForeignPush, Copies, api, local
  <2>3. Step' /\ Others'
    BY <1>0, <1>17, ChangeBound DEF ForeignPush, Step, Others, api, local
  <2> QED
    BY <2>1, <2>2, <2>3 DEF IInv
<1> QED
  BY <1>u, <1>1, <1>2, <1>3, <1>4, <1>5, <1>6, <1>7, <1>8, <1>9, <1>10, <1>11, <1>12, <1>13,
     <1>14, <1>15, <1>16, <1>17 DEF Next

-----------------------------------------------------------------------------
(* The pin.                                                                *)

\* The tip of the branch b is not another image of release r.
Pinned(r, b) ==
  r.digest # NoDigest /\ b[Len(b)].tag = r.tag => b[Len(b)].digest = r.digest

\* A copy that can be saved is the stored one, but for what it just pushed, and
\* that is the tip.  What is about to be pushed is no other image of the last
\* release.
Pin ==
  /\ synced => cached = stored
  /\ fresh /\ pc \notin {"save", "saveRollback"} => tu.status = stored.status
  /\ pc = "write" /\ tu.resolveDigest /\ latest = tu.status.last.tag =>
       tu.status.last.digest \in {NoDigest, digest}
  /\ pc = "rollback" => tu.status.previous.tag # tu.status.last.tag
  /\ ~unpinned =>
       /\ Pinned(stored.status.last, branch)
       /\ pc \in {"save", "saveRollback"} => tu.status.last = Tip

LEMMA InitPin == Init => Pin
<1> SUFFICES ASSUME Init PROVE Pin
  OBVIOUS
<1>1. NewObject.status.last.digest = NoDigest
  BY DEF NewObject, Nothing
<1>2. ASSUME NEW t \in Tags PROVE Upgraded(t).status.last.digest = NoDigest
  BY DEF NewObject, Upgraded
<1>3. stored.status.last.digest = NoDigest
  BY <1>1, <1>2 DEF Init
<1> QED
  BY <1>3 DEF Init, Pin, Pinned

\* The reconcile ends, and the object and the branch stay as they are.
LEMMA EndPin ==
  ASSUME Pin, EndReconcile, stored' = stored, UNCHANGED <<branch, unpinned>>,
         UNCHANGED <<cached, synced>> \/ cached' = stored
  PROVE  Pin'
  BY DEF Pin, EndReconcile, Tip

\* A status that is stored is the one in hand.
LEMMA StorePin ==
  ASSUME IInv, Pin, NEW status, NEW next \in {"list", "saved"}, Store(status, next),
         UNCHANGED <<branch, unpinned>>, SoundStatus(status, branch),
         ~unpinned => Pinned(status.last, branch)
  PROVE  Pin'
<1>1. CASE /\ fresh /\ tu' = [tu EXCEPT !.status = status]
           /\ stored' = tu' /\ synced' = FALSE /\ pc' = next
  <2>1. stored'.status = status
    BY <1>1 DEF IInv, Copies, Sound, Object
  <2> QED
    BY <1>1, <2>1 DEF Pin
<1>2. CASE EndReconcile /\ UNCHANGED api
  BY <1>2, EndPin DEF api
<1> QED
  BY <1>1, <1>2 DEF Store

\* What a write that trusts its copy pushes is recorded in that copy, and is no
\* other image of the last release.
LEMMA PushPin ==
  ASSUME IInv, Pin, NEW r \in Release, branch' = Written(tu, r), Trusting,
         pc' \in {"save", "saveRollback"}, UNCHANGED api,
         tu.resolveDigest => tu'.status.last = r,
         tu.resolveDigest /\ r.tag = tu.status.last.tag =>
           tu.status.last.digest \in {NoDigest, r.digest}
  PROVE  Pin'
<1>1. ASSUME ~unpinned'
      PROVE  Pinned(stored'.status.last, branch') /\ tu'.status.last = Tip'
  <2>1. ~unpinned /\ tu.resolveDigest /\ tu.status = stored.status /\ stored' = stored
    BY <1>1 DEF Trusting, api
  <2>2. branch'[Len(branch')] = r
    BY <2>1, WrittenExtends DEF IInv, Copies, Sound
  <2> QED
    BY <2>1, <2>2 DEF Pinned, Tip
<1> QED
  BY <1>1 DEF Pin, api

LEMMA NextPin ==
  ASSUME IInv, Pin, [Next]_vars
  PROVE  Pin'
<1>0. Copies /\ Branch /\ Step /\ Others
  BY DEF IInv
<1>a. ASSUME UNCHANGED <<api, tu, branch, unpinned, fresh>>,
             \/ UNCHANGED <<pc, digest, latest>>
             \/ pc \notin {"save", "saveRollback"} /\
                pc' \notin {"write", "rollback", "save", "saveRollback"}
      PROVE  Pin'
  BY <1>a DEF Pin, Tip, api
<1>1. CASE Get
  BY <1>1 DEF Get, Pin, Tip, api, world
<1>2. CASE GiveUp \/ RemoteUnchanged \/ Return
  BY <1>2, EndPin DEF GiveUp, RemoteUnchanged, Return, api, world
<1>3. CASE CloseWatch
  <2> DEFINE s == tu.status
  <2>1. SoundStatus(s, branch)
    BY <1>0 DEF Copies, Sound
  <2>2. Released(s).last = s.last /\ [Released(s) EXCEPT !.skippedTags = {}].last = s.last
    BY <2>1 DEF Released, SoundStatus, Status
  <2>3. CASE fresh
    <3>1. ~unpinned => Pinned(s.last, branch)
      BY <1>3, <2>3 DEF CloseWatch, Pin
    <3> QED
      BY <1>3, <2>1, <2>2, <3>1, ReleasedIsSound, StorePin DEF CloseWatch, world
  <2>4. CASE ~fresh
    BY <1>3, <2>4, EndPin DEF CloseWatch, Store, world, api
  <2> QED
    BY <2>3, <2>4
<1>4. CASE Unhealthy
  <2> DEFINE s == tu.status
  <2>1. /\ SoundStatus(s, branch) /\ s.watchingTag \in Tags /\ s.watchingTag = s.last.tag
    BY <1>0, <1>4, TagsAssumption DEF Unhealthy, Copies, Sound, SoundStatus, Step, NoTag
  <2>2. Failed(s).last = s.last
    BY <2>1 DEF Failed, Released, SoundStatus, Status
  <2>3. CASE Store(Failed(s), "list")
    <3>1. CASE fresh
      <4>1. ~unpinned => Pinned(s.last, branch)
        BY <1>4, <3>1 DEF Unhealthy, Pin
      <4> QED
        BY <1>4, <2>1, <2>2, <2>3, <4>1, FailedIsSound, StorePin DEF Unhealthy, world
    <3>2. CASE ~fresh
      BY <1>4, <2>3, <3>2, EndPin DEF Unhealthy, Store, world, api
    <3> QED
      BY <3>1, <3>2
  <2>4. CASE /\ s.previous.tag \notin {NoTag, s.watchingTag}
             /\ pc' = "rollback" /\ UNCHANGED <<api, local, faults>>
    BY <1>4, <2>1, <2>4 DEF Unhealthy, Pin, Tip, api, local, world
  <2> QED
    BY <1>4, <2>3, <2>4 DEF Unhealthy
<1>5. CASE WriteRollback
  <2>1. PICK r \in Restored :
          /\ branch' = Written(tu, r)
          /\ tu' = [tu EXCEPT !.status =
                      [Wrote(Failed(tu.status), tu, Len(branch')) EXCEPT !.last = r]]
    BY <1>5 DEF WriteRollback
  <2>2. r \in Release /\ r.tag = tu.status.previous.tag
    BY <2>1, RestoredIsPrevious
  <2>3. tu.status.previous.tag # tu.status.last.tag
    BY <1>5 DEF WriteRollback, Pin
  <2>4. tu'.status.last = r
    <3> DEFINE w == Wrote(Failed(tu.status), tu, Len(branch'))
    <3>1. tu \in Object /\ tu.status \in Status
      BY <1>0 DEF Copies, Sound, SoundStatus
    <3>2. [w EXCEPT !.last = r].last = r
      BY <3>1 DEF Wrote, Failed, Released, Status
    <3> HIDE DEF w
    <3> QED
      BY <2>1, <3>1, <3>2 DEF Object, w
  <2> QED
    BY <1>5, <2>1, <2>2, <2>3, <2>4, PushPin DEF WriteRollback
<1>6. CASE SaveRollback
  BY <1>0, <1>6, StorePin DEF SaveRollback, Copies, Sound, Pin, Pinned, Tip, world
<1>7. CASE List
  BY <1>7, <1>a DEF List, world
<1>8. CASE Resolve
  <2>1. CASE EndReconcile
    BY <1>8, <2>1, EndPin DEF Resolve, api, world
  <2>2. CASE /\ ~(/\ tu.resolveDigest /\ latest = tu.status.last.tag
                  /\ tu.status.last.digest \notin {NoDigest, AddedDigest})
             /\ digest' = AddedDigest /\ pc' = "write" /\ UNCHANGED <<tu, fresh, latest>>
    BY <1>8, <2>2 DEF Resolve, Pin, Tip, api, world
  <2> QED
    BY <1>8, <2>1, <2>2 DEF Resolve
<1>9. CASE Write
  <2> DEFINE r == [tag |-> latest, digest |-> digest]
             d == Deployed(tu.status)
             s == Wrote(d, tu, Len(branch'))
  <2>1. r \in Release
    BY <1>0 DEF Others, Release
  <2>2. branch' = Written(tu, r) /\ tu' = [tu EXCEPT !.status = s]
    BY <1>9 DEF Write
  <2>3. tu \in Object /\ tu.status \in Status
    BY <1>0 DEF Copies, Sound, SoundStatus
  <2>4. d.last = r /\ DOMAIN d = DOMAIN tu.status
    <3>1. CASE latest = tu.status.last.tag
      <4>1. d = [tu.status EXCEPT !.last = [tu.status.last EXCEPT !.digest = digest]]
        BY <3>1 DEF Deployed
      <4>2. [tu.status.last EXCEPT !.digest = digest] = r
        BY <2>3, <3>1 DEF Status, Release
      <4> QED
        BY <2>3, <4>1, <4>2 DEF Status
    <3>2. CASE latest # tu.status.last.tag
      BY <2>3, <3>2 DEF Deployed, Status
    <3> QED
      BY <3>1, <3>2
  <2> HIDE DEF d
  <2>5. s.last = r
    BY <2>3, <2>4 DEF Wrote, Status
  <2> HIDE DEF s
  <2>6. tu'.status.last = r
    BY <2>2, <2>3, <2>5 DEF Object
  <2>7. tu.resolveDigest /\ latest = tu.status.last.tag =>
          tu.status.last.digest \in {NoDigest, digest}
    BY <1>9 DEF Write, Pin
  <2> QED
    BY <1>9, <2>1, <2>2, <2>6, <2>7, PushPin DEF Write
<1>10. CASE Save
  BY <1>0, <1>10, StorePin DEF Save, Copies, Sound, Pin, Pinned, Tip, world
<1>11. CASE Crash
  BY <1>11, EndPin DEF Crash, world
<1>12. CASE Sync
  BY <1>12 DEF Sync, Pin, Tip, local, world
<1>13. CASE ToggleDigest
  <2>1. stored'.status = stored.status
    BY <1>0, <1>13 DEF ToggleDigest, Copies, Sound, Object
  <2> QED
    BY <1>13, <2>1 DEF ToggleDigest, Pin, Tip, world
<1>14. CASE Rebind \/ Withdraw \/ Publish
  BY <1>14, <1>a DEF Rebind, Withdraw, Publish, local
<1>15. CASE ForeignPush
  <2>1. Tip' = Tip /\ branch'[Len(branch')] = branch[Len(branch)]
    BY <1>0, <1>15 DEF ForeignPush, Branch, Tip
  <2> QED
    BY <1>15, <2>1 DEF ForeignPush, Pin, Pinned, api, local
<1>16. CASE UNCHANGED vars
  BY <1>16, <1>a DEF vars, local, world
<1> QED
  BY <1>1, <1>2, <1>3, <1>4, <1>5, <1>6, <1>7, <1>8, <1>9, <1>10, <1>11, <1>12, <1>13,
     <1>14, <1>15, <1>16 DEF Next

-----------------------------------------------------------------------------
(* Theorems.                                                               *)

LEMMA InvariantHolds == Spec => []IInv
  BY InitIInv, NextIInv, PTL DEF Spec

\* In every reachable state every variable is in its range and what is watched
\* is the release recorded as the last (TagUpdaterStatus, types.go).
THEOREM TypeCorrect == Spec => []TypeOK
<1>1. IInv => TypeOK
  BY DEF IInv, Copies, Sound, SoundStatus, Branch, Others, TypeOK
<1> QED
  BY <1>1, InvariantHolds, PTL

\* The status never records a digest that git did not hold with that tag
\* (lastImageDigest and previousImageDigest, set after Apply), for any number
\* of lost saves, crashes, outdated copies and changes by others.
THEOREM RecordIsPushed == Spec => []RecordedWasWritten
<1>1. IInv => RecordedWasWritten
  BY DEF IInv, Copies, Sound, SoundStatus, Pushed, RecordedWasWritten, Recorded
<1> QED
  BY <1>1, InvariantHolds, PTL

\* A rollback with digests on brings back a release git held before
\* (doRollback writes previousImageDigest, and nothing without one).
THEOREM RollbackIsExact == Spec => RollbackRestoresImage
<1>1. ASSUME IInv, Next, pc = "rollback", pc' = "saveRollback", tu.resolveDigest
      PROVE  \E i \in 1..Len(branch) : branch[i] = Tip'
  <2>1. WriteRollback
    BY <1>1 DEF Next, Get, GiveUp, CloseWatch, Unhealthy, SaveRollback, List, Resolve,
                RemoteUnchanged, Write, Save, Return, Crash, Sync, ToggleDigest, Rebind, Withdraw,
                Publish, ForeignPush, EndReconcile, local
  <2>2. PICK r \in Restored : branch' = Written(tu, r)
    BY <2>1 DEF WriteRollback
  <2>3. r \in Release /\ Pushed(r, branch) /\ r.digest # NoDigest
    BY <1>1, <2>2, RestoredIsPrevious
  <2>4. Tip' = r
    BY <1>1, <2>2, <2>3, WrittenExtends DEF IInv, Copies, Sound, Tip
  <2> QED
    BY <2>3, <2>4 DEF Pushed
<1>2. IInv /\ [Next]_vars => [pc = "rollback" /\ pc' = "saveRollback" /\ tu.resolveDigest =>
                               \E i \in 1..Len(branch) : branch[i] = Tip']_vars
  BY <1>1
<1> QED
  BY <1>2, InvariantHolds, PTL DEF Spec, RollbackRestoresImage

\* With digests on, a commit of the controller never has one release's tag and
\* another one's image (the rotation in Reconcile, doRollback).
THEOREM CommitsAreOneRelease == Spec => NoMixedRelease
<1>1. ASSUME IInv, Next, tu.resolveDigest, pc' \in {"save", "saveRollback"} \ {pc}
      PROVE  Tip'.digest.tag = Tip'.tag
  <2>1. WriteRollback \/ Write
    BY <1>1 DEF Next, Get, GiveUp, CloseWatch, Unhealthy, SaveRollback, List, Resolve,
                RemoteUnchanged, Save, Return, Crash, Sync, ToggleDigest, Rebind, Withdraw,
                Publish, ForeignPush, EndReconcile, Store, local
  <2>2. CASE WriteRollback
    <3>1. PICK r \in Restored : branch' = Written(tu, r)
      BY <2>2 DEF WriteRollback
    <3>2. r \in Release /\ Pushed(r, branch) /\ r.digest # NoDigest
      BY <1>1, <3>1, RestoredIsPrevious
    <3>3. Tip' = r
      BY <1>1, <3>1, <3>2, WrittenExtends DEF IInv, Copies, Sound, Tip
    <3> QED
      BY <3>2, <3>3 DEF Pushed
  <2>3. CASE Write
    <3> DEFINE r == [tag |-> latest, digest |-> digest]
    <3>1. r \in Release /\ digest.tag = latest
      BY <1>1, <2>3 DEF Write, IInv, Others, Step, Release
    <3>2. Tip' = r
      BY <1>1, <2>3, <3>1, WrittenExtends DEF Write, IInv, Copies, Sound, Tip
    <3> QED
      BY <3>1, <3>2
  <2> QED
    BY <2>1, <2>2, <2>3
<1>2. IInv /\ [Next]_vars => [tu.resolveDigest /\ pc' \in {"save", "saveRollback"} \ {pc} =>
                               Tip'.digest.tag = Tip'.tag]_vars
  BY <1>1
<1> QED
  BY <1>2, InvariantHolds, PTL DEF Spec, NoMixedRelease

\* While the manifest has the recorded last tag, it has the digest recorded for
\* it: whatever tags are bound to other images, through lost saves, crashes,
\* rollbacks and other pushes (RegistryDigestChanged in Reconcile, and doRollback
\* writing previousImageDigest).  The step of the reconcile does not matter.
THEOREM PinIsKept == Spec => []PinHolds
<1>1. IInv /\ Pin /\ [Next]_vars => IInv' /\ Pin'
  BY NextIInv, NextPin
<1>2. Init => IInv /\ Pin
  BY InitIInv, InitPin
<1>3. Pin => PinHolds
  BY DEF Pin, Pinned, PinHolds, Tip
<1> QED
  BY <1>1, <1>2, <1>3, PTL DEF Spec

=============================================================================
