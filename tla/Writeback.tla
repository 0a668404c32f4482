----------------------------- MODULE Writeback ------------------------------
(***************************************************************************)
(* Writer.Apply (internal/writeback/git.go): clone the branch, edit the    *)
(* manifest in the clone, commit, push, and start over when the push lost  *)
(* a race.                                                                 *)
(*                                                                         *)
(* Several calls run at the same time: those of another replica during a   *)
(* change of leader, or of a manager with more than one worker, and other  *)
(* people push to the branch.  A clone is the position of the tip it was   *)
(* taken from.  A push is the server's compare-and-swap of the branch      *)
(* reference: it lands if the tip is still the cloned one.                 *)
(*                                                                         *)
(* The edit sets the caller's fields and nothing else (UpdateManifest);    *)
(* what it does to the YAML text is not part of this module.               *)
(***************************************************************************)
EXTENDS Integers, Sequences, FiniteSets

CONSTANTS
  Writers, Values, Blank, Foreign,   \* as in ManifestBranch
  ConflictErrors,   \* the errors a push that lost a race may come back with
  Failures,         \* the steps that may fail
  MaxCalls,         \* bound: calls made to Apply
  MaxForeign        \* bound: pushes by others

\* Apply's retry limit.
MaxAttempts == 3

\* The error Apply retries on, and any other.  The vendored go-git reports a
\* push that is not a fast-forward with an error of its own making.
NonFastForward == "ErrNonFastForwardUpdate"
Unrecognised == "non-fast-forward update"

ASSUME BlankAssumption == Blank \notin Values
ASSUME ForeignAssumption == Foreign \notin Writers
ASSUME ErrorsAssumption == ConflictErrors \subseteq {NonFastForward, Unrecognised}
ASSUME FailuresAssumption == Failures \subseteq {"clone", "edit", "push", "reply"}
ASSUME BoundsAssumption == MaxCalls \in Nat /\ MaxForeign \in Nat

VARIABLES
  branch,     \* the commits of the branch, oldest first
  pc,         \* where each writer is in Apply
  value,      \* what its call is to write
  since,      \* the length of the branch when the call began
  attempt,    \* how many attempts have lost a race
  base,       \* the tip its clone was taken from
  answer,     \* what its last call returned
  calls,      \* calls left to make
  foreign     \* pushes left to others

call_vars == <<value, since>>
vars == <<branch, pc, call_vars, attempt, base, answer, calls, foreign>>

Manifest == [owned : [Writers -> Values \cup {Blank}], other : Nat]
Commit == [by : Writers \cup {Foreign}, manifest : Manifest]

NoAnswer == [state |-> "none", commit |-> 0]
Failure == [state |-> "failed", commit |-> 0]
Success(i) == [state |-> "ok", commit |-> i]

First == [by |-> Foreign,
          manifest |-> [owned |-> [w \in Writers |-> Blank], other |-> 0]]

\* UpdateManifest on the manifest m: w's fields become v.
Edited(m, w, v) == [m EXCEPT !.owned[w] = v]

Init ==
  /\ branch = <<First>>
  /\ pc = [w \in Writers |-> "idle"]
  /\ value = [w \in Writers |-> Blank]
  /\ since = [w \in Writers |-> 0]
  /\ attempt = [w \in Writers |-> 0]
  /\ base = [w \in Writers |-> 0]
  /\ answer = [w \in Writers |-> NoAnswer]
  /\ calls = MaxCalls /\ foreign = MaxForeign

-----------------------------------------------------------------------------
(* Apply.                                                                  *)

\* Apply is called to write v.
Start(w) ==
  /\ pc[w] = "idle" /\ calls > 0
  /\ calls' = calls - 1
  /\ \E v \in Values : value' = [value EXCEPT ![w] = v]
  /\ since' = [since EXCEPT ![w] = Len(branch)]
  /\ pc' = [pc EXCEPT ![w] = "clone"]
  /\ attempt' = [attempt EXCEPT ![w] = 0]
  /\ answer' = [answer EXCEPT ![w] = NoAnswer]
  /\ UNCHANGED <<branch, base, foreign>>

Return(w, a) ==
  /\ pc' = [pc EXCEPT ![w] = "idle"]
  /\ answer' = [answer EXCEPT ![w] = a]
  /\ UNCHANGED <<call_vars, attempt, base, calls, foreign>>

Fails(w, step) == step \in Failures /\ Return(w, Failure) /\ UNCHANGED branch

\* A shallow clone of the branch; authentication has been set up before.
Clone(w) ==
  /\ pc[w] = "clone"
  /\ \/ /\ base' = [base EXCEPT ![w] = Len(branch)]
        /\ pc' = [pc EXCEPT ![w] = "edit"]
        /\ UNCHANGED <<branch, call_vars, attempt, answer, calls, foreign>>
     \/ Fails(w, "clone")

\* Mutant: the answer names the tip of the branch instead of the clone's head.
UnchangedNamesTip(w) ==
  /\ pc[w] = "edit"
  /\ branch[base[w]].manifest.owned[w] = value[w]
  /\ Return(w, Success(Len(branch)))
  /\ UNCHANGED branch

\* The manifest already holds the value: the clone's head is the answer, and
\* there is nothing to push.
Unchanged(w) ==
  /\ pc[w] = "edit"
  /\ branch[base[w]].manifest.owned[w] = value[w]
  /\ Return(w, Success(base[w]))
  /\ UNCHANGED branch

\* Mutant: a commit is made even when it changes nothing.
EditCommitsAnyway(w) ==
  /\ pc[w] = "edit"
  /\ pc' = [pc EXCEPT ![w] = "push"]
  /\ UNCHANGED <<branch, call_vars, attempt, base, answer, calls, foreign>>

\* The manifest is edited and committed in the clone, or cannot be.
Edit(w) ==
  /\ pc[w] = "edit"
  /\ \/ /\ branch[base[w]].manifest.owned[w] # value[w]
        /\ pc' = [pc EXCEPT ![w] = "push"]
        /\ UNCHANGED <<branch, call_vars, attempt, base, answer, calls, foreign>>
     \/ Fails(w, "edit")

\* The commit waiting in w's clone.
Pending(w) ==
  [by |-> w, manifest |-> Edited(branch[base[w]].manifest, w, value[w])]

\* Mutant: the push replaces whatever the tip is.
PushForces(w) ==
  /\ pc[w] = "push"
  /\ branch' = Append(branch, Pending(w))
  /\ Return(w, Success(Len(branch')))

\* Mutant: an attempt whose answer was lost is made again.
PushAgain(w) ==
  /\ pc[w] = "push"
  /\ base[w] = Len(branch)
  /\ branch' = Append(branch, Pending(w))
  /\ \/ Return(w, Success(Len(branch')))
     \/ /\ pc' = [pc EXCEPT ![w] = "clone"]
        /\ UNCHANGED <<call_vars, attempt, base, answer, calls, foreign>>

\* The push lands; its answer may be lost.
Push(w) ==
  /\ pc[w] = "push"
  /\ base[w] = Len(branch)
  /\ branch' = Append(branch, Pending(w))
  /\ \/ Return(w, Success(Len(branch')))
     \/ "reply" \in Failures /\ Return(w, Failure)

\* Mutant: the attempts are not limited.
ConflictForever(w) ==
  /\ pc[w] = "push"
  /\ base[w] # Len(branch)
  /\ attempt' = [attempt EXCEPT ![w] = @ + 1]
  /\ pc' = [pc EXCEPT ![w] = "clone"]
  /\ UNCHANGED <<branch, call_vars, base, answer, calls, foreign>>

\* The push lost a race: Apply reclones if it recognises the error and has an
\* attempt left.
Conflict(w) ==
  /\ pc[w] = "push"
  /\ base[w] # Len(branch)
  /\ \E error \in ConflictErrors :
       IF error = NonFastForward /\ attempt[w] + 1 < MaxAttempts
       THEN /\ attempt' = [attempt EXCEPT ![w] = @ + 1]
            /\ pc' = [pc EXCEPT ![w] = "clone"]
            /\ UNCHANGED <<call_vars, base, answer, calls, foreign>>
       ELSE Return(w, Failure)
  /\ UNCHANGED branch

\* The push fails for some other reason and changes nothing.
PushFails(w) == pc[w] = "push" /\ Fails(w, "push")

Apply(w) == \/ Clone(w) \/ Unchanged(w) \/ Edit(w)
            \/ Push(w) \/ Conflict(w) \/ PushFails(w)

\* Somebody else pushes: to the rest of the manifest m, or over a writer's
\* fields.
ForeignEdits(m) == {[m EXCEPT !.other = @ + 1]}
                     \cup {Edited(m, w, v) : w \in Writers, v \in Values}

ForeignPush ==
  /\ foreign > 0 /\ foreign' = foreign - 1
  /\ \E n \in ForeignEdits(branch[Len(branch)].manifest) :
       branch' = Append(branch, [by |-> Foreign, manifest |-> n])
  /\ UNCHANGED <<pc, call_vars, attempt, base, answer, calls>>

Next == \/ \E w \in Writers : Start(w) \/ Apply(w)
        \/ ForeignPush

Spec == Init /\ [][Next]_vars

\* A call that has begun goes on: its steps do not wait for anybody.
FairSpec == Spec /\ \A w \in Writers : WF_vars(Apply(w))

-----------------------------------------------------------------------------
(* Properties.                                                             *)

\* Every variable holds a value of its type; a clone is of a commit that the
\* branch has.
TypeOK ==
  /\ branch \in Seq(Commit) /\ branch # <<>>
  /\ pc \in [Writers -> {"idle", "clone", "edit", "push"}]
  /\ value \in [Writers -> Values \cup {Blank}]
  /\ since \in [Writers -> 0..Len(branch)]
  /\ attempt \in [Writers -> 0..(MaxAttempts - 1)]
  /\ base \in [Writers -> 0..Len(branch)]
  /\ answer \in [Writers -> {NoAnswer, Failure} \cup {Success(i) : i \in 1..Len(branch)}]
  /\ calls \in 0..MaxCalls /\ foreign \in 0..MaxForeign

\* A writer's commit changes its own fields in the manifest it is put on, and
\* nothing else: no update of another writer or of a human is lost, however
\* the clones, pushes and retries interleave.
NoLostUpdate ==
  \A i \in 2..Len(branch) :
    LET w == branch[i].by
        m == branch[i - 1].manifest
    IN w \in Writers =>
         /\ branch[i].manifest = Edited(m, w, branch[i].manifest.owned[w])
         /\ branch[i].manifest # m

\* Apply's answer is the verified commit: it holds the value asked for, and
\* was not yet history when the call began.
AnswerHolds ==
  \A w \in Writers : answer[w].state = "ok" =>
    /\ branch[answer[w].commit].manifest.owned[w] = value[w]
    /\ answer[w].commit >= since[w]

\* One call puts at most one commit on the branch, through retries and lost
\* answers.
AtMostOneCommit ==
  \A w \in Writers :
    Cardinality({i \in (since[w] + 1)..Len(branch) : branch[i].by = w}) <= 1

\* The promise of ManifestBranch, with the steps of Apply that do not reach
\* the server hidden.
CallInProgress ==
  [w \in Writers |-> IF pc[w] = "idle" THEN [value |-> Blank, since |-> 0]
                     ELSE [value |-> value[w], since |-> since[w]]]
Promise == INSTANCE ManifestBranch WITH call <- CallInProgress
KeepsPromise == Promise!Spec

\* A rejected push is replayed on the new tip: when nothing fails and others
\* win fewer races than Apply has attempts, a call ends with its value written.
RejectedPushIsReplayed ==
  \A w \in Writers : pc[w] = "clone" ~> (pc[w] = "idle" /\ answer[w].state = "ok")

=============================================================================
