------------------------------ MODULE Manifest ------------------------------
(***************************************************************************)
(* Several TagUpdaters write to one manifest file.  Each owns the fields   *)
(* its targets name; validateFieldOwnership is what keeps two from owning  *)
(* the same one (internal/controller/tagupdater_controller.go), the        *)
(* matcher chooses the tag to write, and UpdateManifest writes it.         *)
(*                                                                         *)
(* One worker reconciles the updaters, each from the informer's copies.    *)
(* Users change the targets, and tags are published.  The push is one step *)
(* here, and nobody else writes to the file: Writeback has the rest.  All  *)
(* updaters follow one tag source.                                         *)
(***************************************************************************)
EXTENDS ManifestText, Matcher, Bags

CONSTANTS
  Updaters,    \* the TagUpdater objects that name this file
  Layouts,     \* the lists of targets a user may give one, by a name for each
  NoOne,       \* no updater
  Texts,       \* the manifest as people write it
  Tags,        \* the tags that may be published, records as in Matcher
  MaxEdits     \* bound: changes of spec.targets

ASSUME UpdatersAssumption == NoOne \notin Updaters
ASSUME TextsAssumption == \A text \in Texts : WellFormed(text)
ASSUME TagsAssumption == IsFiniteSet(Tags) /\ \A t \in Tags : t.n \in Nat \cup {NotANumber}
ASSUME BoundsAssumption == MaxEdits \in Nat

VARIABLES
  targets,    \* each updater's spec.targets at the API server
  listed,     \* the informer's copies of them
  published,  \* the tags of the source
  text,       \* the manifest at the tip of its branch
  pc,         \* where the worker is in Reconcile
  me,         \* the updater it reconciles
  mine,       \* its copy of that updater's targets
  release,    \* the tag it selected
  edits,      \* changes of targets so far
  writer,     \* history: who last changed each field that was changed
  handovers   \* history: the bag of fields that changed hands

world == <<targets, listed, published>>
local == <<me, mine, release>>
history == <<writer, handovers>>
vars == <<world, text, pc, local, edits, history>>

NoLayout == "none"
NoTag == [name |-> "", rev |-> "", matches |-> FALSE, n |-> NotANumber, rank |-> 0]

\* What templates may refer to: a tag source without revisions has an empty rev.
Data(tag) == [tag |-> tag.name, rev |-> tag.rev]

\* The fields a list of targets lays claim to, as validateFieldOwnership keys
\* them: by what the target says, not by the document it finds.
Claims(layout) ==
  UNION {{[kind |-> t.kind, name |-> t.name, selector |-> t.selector, field |-> p.field] :
            p \in ToSet(t.patches)} : t \in ToSet(Layouts[layout])}

Conflict(all) == \E u, v \in Updaters : u # v /\ Claims(all[u]) \cap Claims(all[v]) # {}

Init ==
  /\ targets \in [Updaters -> DOMAIN Layouts]
  /\ listed = targets
  /\ published = {t \in Tags : ~t.matches}
  /\ text \in Texts
  /\ pc = "idle" /\ me = NoOne /\ mine = NoLayout /\ release = NoTag
  /\ edits = 0
  /\ writer = <<>> /\ handovers = EmptyBag

-----------------------------------------------------------------------------
(* Reconcile.                                                              *)

EndReconcile == pc' = "idle" /\ me' = NoOne /\ mine' = NoLayout /\ release' = NoTag

Get(u) ==
  /\ pc = "idle"
  /\ me' = u /\ mine' = listed[u]
  /\ pc' = "owners"
  /\ UNCHANGED <<world, text, release, edits, history>>

\* Mutant: a conflict is reported, and the reconcile goes on.
CheckOwnersOnly ==
  /\ pc = "owners"
  /\ pc' = "resolve"
  /\ UNCHANGED <<world, text, local, edits, history>>

\* Any two updaters in conflict end the reconcile of every updater.
CheckOwners ==
  /\ pc = "owners"
  /\ IF Conflict(listed) THEN EndReconcile ELSE pc' = "resolve" /\ UNCHANGED local
  /\ UNCHANGED <<world, text, edits, history>>

\* The source is listed, in whatever order, and its newest match taken;
\* without one there is nothing to write.
Resolve ==
  /\ pc = "resolve"
  /\ \E listing \in SetToSeqs(published) :
       IF All(listing) = <<>> THEN EndReconcile
       ELSE pc' = "write" /\ release' = Latest(listing) /\ UNCHANGED <<me, mine>>
  /\ UNCHANGED <<world, text, edits, history>>

\* The manifest is replaced by one the update may produce, or an error leaves
\* it alone.
Write ==
  /\ pc = "write"
  /\ LET results == UpdateManifest(text, Layouts[mine], Data(release)) IN
     \/ results = {} /\ UNCHANGED <<text, history>>
     \/ \E after \in results :
          LET changed == {f.path : f \in Fields(Tree(after)) \ Fields(Tree(text))}
              taken == {p \in changed \cap DOMAIN writer : writer[p] # me}
          IN  /\ text' = after
              /\ writer' = [p \in changed \cup DOMAIN writer |->
                              IF p \in changed THEN me ELSE writer[p]]
              /\ handovers' = handovers (+) SetToBag(taken)
  /\ EndReconcile
  /\ UNCHANGED <<world, edits>>

-----------------------------------------------------------------------------
(* The world around it.                                                    *)

EditTargets(u) ==
  /\ edits < MaxEdits
  /\ edits' = edits + 1
  /\ \E layout \in (DOMAIN Layouts) \ {targets[u]} : targets' = [targets EXCEPT ![u] = layout]
  /\ UNCHANGED <<listed, published, text, pc, local, history>>

\* An update event reaches the informer.
Sync(u) ==
  /\ listed[u] # targets[u]
  /\ listed' = [listed EXCEPT ![u] = targets[u]]
  /\ UNCHANGED <<targets, published, text, pc, local, edits, history>>

Publish ==
  /\ \E tag \in Tags \ published : published' = published \cup {tag}
  /\ UNCHANGED <<targets, listed, text, pc, local, edits, history>>

Reconcile == CheckOwners \/ Resolve \/ Write

Next ==
  \/ \E u \in Updaters : Get(u) \/ EditTargets(u) \/ Sync(u)
  \/ Reconcile
  \/ Publish

\* The worker takes every updater in turn, for each is requeued after its
\* interval, and events arrive.  A reconcile ends: this is weak fairness of
\* Reconcile, which is enabled wherever the worker is not idle.
Fairness ==
  /\ []<>(pc = "idle")
  /\ \A u \in Updaters : SF_vars(Get(u)) /\ WF_vars(Sync(u))

Spec == Init /\ [][Next]_vars /\ Fairness

-----------------------------------------------------------------------------
(* Properties.                                                             *)

\* The variables but the text have their types: what is held is a tag of the
\* source, and what was handed over is a field that somebody wrote.
Typed ==
  /\ targets \in [Updaters -> DOMAIN Layouts] /\ listed \in [Updaters -> DOMAIN Layouts]
  /\ published \subseteq Tags
  /\ pc \in {"idle", "owners", "resolve", "write"}
  /\ me \in Updaters \cup {NoOne}
  /\ mine \in DOMAIN Layouts \cup {NoLayout}
  /\ release \in Tags \cup {NoTag}
  /\ edits \in 0..MaxEdits
  /\ writer \in [DOMAIN writer -> Updaters]
  /\ IsABag(handovers) /\ DOMAIN handovers \subseteq DOMAIN writer

\* So has the text: after every write the manifest is one the decoder accepts.
TypeOK == Typed /\ WellFormed(text)

\* A write puts the rendered values in the fields of the documents its
\* targets match and nothing else anywhere: comments, order and all other
\* fields stay, keys that are missing are added under the right parent.
UpdateIsExact ==
  [][pc = "write" /\ pc' = "idle" /\ text' # text =>
       Exact(text, text', Layouts[mine], Data(release))]_vars

\* Two updaters never undo each other's writes: each time a field passes from
\* one to another, a user has changed a spec, however stale the informer's
\* copies are and although a reconcile may write with the targets it read
\* before the list in which it looked for a conflict.
HandoversAreEdits == \A p \in DOMAIN handovers : handovers[p] <= edits

\* The tag that is written has the highest build number of those published,
\* in whatever order the source lists them.
NewestIsWritten ==
  [][pc' = "write" /\ pc # "write" =>
       \A t \in published : t.matches => t.n <= release'.n]_vars

\* The manifest holds what u's targets ask for, or they cannot be set in it.
Applied(u) ==
  LET matching == {t \in published : t.matches}
      layout == Layouts[targets[u]]
      tree == Tree(text)
  IN  \A t \in matching :
        (\A s \in matching : s.n <= t.n) =>
          \/ Asked(tree, layout, Data(t)) \subseteq Fields(tree)
          \/ UpdateManifest(text, layout, Data(t)) = {}

\* Once nothing else changes, the manifest comes to rest, with every updater's
\* fields in it, unless the specs are left in conflict.
Settles ==
  /\ <>[][text' = text]_vars
  /\ <>[](pc = "idle" => Conflict(targets) \/ \A u \in Updaters : Applied(u))
=============================================================================
