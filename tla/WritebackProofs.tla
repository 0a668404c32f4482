-------------------------- MODULE WritebackProofs ---------------------------
(***************************************************************************)
(* Proofs about Writeback, for any set of writers and values, any number   *)
(* of calls and foreign pushes, any failures and any conflict errors.      *)
(*                                                                         *)
(* The argument: a clone is of a commit that was the tip during the call   *)
(* and never changes, and a push only lands on the commit it was cloned    *)
(* from; so the pending commit is an edit of the tip when it lands.        *)
(***************************************************************************)
EXTENDS Writeback, FiniteSetTheorems, TLAPS

USE BlankAssumption, ForeignAssumption, ErrorsAssumption,
    FailuresAssumption, BoundsAssumption

\* What holds of one writer's call.
CallInv(w) ==
  /\ pc[w] # "idle" => value[w] \in Values /\ since[w] >= 1
  /\ pc[w] \in {"edit", "push"} => base[w] >= 1 /\ since[w] <= base[w]
  /\ pc[w] = "push" => branch[base[w]].manifest.owned[w] # value[w]

\* AnswerHolds for one writer.
AnswerInv(w) ==
  answer[w].state = "ok" =>
    /\ answer[w].commit \in 1..Len(branch)
    /\ branch[answer[w].commit].manifest.owned[w] = value[w]
    /\ answer[w].commit >= since[w]

Inv == /\ TypeOK
       /\ \A w \in Writers : CallInv(w) /\ AnswerInv(w)
       /\ NoLostUpdate

\* b2 continues b: what the branch does at every step.
Continues(b2, b) == /\ Len(b) <= Len(b2)
                    /\ \A i \in 1..Len(b) : b2[i] = b[i]

LEMMA AppendContinues ==
  ASSUME NEW b \in Seq(Commit), NEW c \in Commit
  PROVE  /\ Append(b, c) \in Seq(Commit) /\ Append(b, c) # <<>>
         /\ Len(Append(b, c)) = Len(b) + 1
         /\ Continues(Append(b, c), b)
         /\ Append(b, c)[Len(b) + 1] = c
  BY DEF Continues

LEMMA EditedType ==
  ASSUME NEW m \in Manifest, NEW w \in Writers, NEW v \in Values \cup {Blank}
  PROVE  /\ Edited(m, w, v) \in Manifest
         /\ Edited(m, w, v).owned[w] = v
         /\ Edited(m, w, v) = m <=> m.owned[w] = v
  BY DEF Edited, Manifest

LEMMA ForeignEditsType ==
  ASSUME NEW m \in Manifest
  PROVE  ForeignEdits(m) \subseteq Manifest
<1>1. [m EXCEPT !.other = @ + 1] \in Manifest
  BY DEF Manifest
<1>2. \A w \in Writers, v \in Values : Edited(m, w, v) \in Manifest
  BY EditedType
<1> QED
  BY <1>1, <1>2 DEF ForeignEdits

LEMMA InitInv == Init => Inv
<1> SUFFICES ASSUME Init PROVE Inv
  OBVIOUS
<1>1. First \in Commit
  BY DEF First, Commit, Manifest
<1>2. branch \in Seq(Commit) /\ branch # <<>> /\ Len(branch) = 1
  BY <1>1 DEF Init
<1>3. TypeOK
  BY <1>2 DEF Init, TypeOK, MaxAttempts
<1>4. \A w \in Writers : CallInv(w) /\ AnswerInv(w)
  BY DEF Init, CallInv, AnswerInv, NoAnswer
<1>5. NoLostUpdate
  BY <1>2 DEF NoLostUpdate
<1> QED
  BY <1>3, <1>4, <1>5 DEF Inv

-----------------------------------------------------------------------------
(* What the steps have in common.                                          *)

\* The branch gains a commit: everything that was said of it stays true.
LEMMA BranchGrows ==
  ASSUME Inv, NEW c \in Commit, branch' = Append(branch, c),
         c.by \in Writers =>
           LET m == branch[Len(branch)].manifest
           IN /\ c.manifest = Edited(m, c.by, c.manifest.owned[c.by])
              /\ c.manifest # m
  PROVE  /\ branch' \in Seq(Commit) /\ branch' # <<>>
         /\ Len(branch') = Len(branch) + 1
         /\ Continues(branch', branch)
         /\ branch'[Len(branch) + 1] = c
         /\ NoLostUpdate'
<1>1. branch \in Seq(Commit) /\ branch # <<>> /\ NoLostUpdate
  BY DEF Inv, TypeOK
<1>2. /\ branch' \in Seq(Commit) /\ branch' # <<>>
      /\ Len(branch') = Len(branch) + 1
      /\ Continues(branch', branch)
      /\ branch'[Len(branch) + 1] = c
  BY <1>1, AppendContinues
<1>3. NoLostUpdate'
  <2> SUFFICES ASSUME NEW i \in 2..Len(branch'), branch'[i].by \in Writers
               PROVE  LET w == branch'[i].by
                          m == branch'[i - 1].manifest
                      IN /\ branch'[i].manifest = Edited(m, w, branch'[i].manifest.owned[w])
                         /\ branch'[i].manifest # m
    BY DEF NoLostUpdate
  <2>1. CASE i <= Len(branch)
    <3>1. branch'[i] = branch[i] /\ branch'[i - 1] = branch[i - 1]
      BY <1>1, <1>2, <2>1 DEF Continues
    <3> QED
      BY <1>1, <2>1, <3>1 DEF NoLostUpdate
  <2>2. CASE i = Len(branch) + 1
    <3>1. branch'[i] = c /\ branch'[i - 1] = branch[Len(branch)]
      BY <1>1, <1>2, <2>2 DEF Continues
    <3> QED
      BY <3>1
  <2> QED
    BY <1>1, <1>2, <2>1, <2>2
<1> QED
  BY <1>2, <1>3

\* A writer whose own variables do not change is not disturbed by the rest.
LEMMA NotDisturbed ==
  ASSUME Inv, branch' \in Seq(Commit), Continues(branch', branch), NEW w \in Writers,
         pc'[w] = pc[w], value'[w] = value[w], since'[w] = since[w],
         base'[w] = base[w], answer'[w] = answer[w]
  PROVE  CallInv(w)' /\ AnswerInv(w)'
<1>1. CallInv(w) /\ AnswerInv(w) /\ branch \in Seq(Commit) /\ base[w] \in 0..Len(branch)
  BY DEF Inv, TypeOK
<1>2. CallInv(w)'
  BY <1>1 DEF CallInv, Continues
<1>3. AnswerInv(w)'
  BY <1>1 DEF AnswerInv, Continues
<1> QED
  BY <1>2, <1>3

\* Apply returns a without changing the branch.
LEMMA ReturnInv ==
  ASSUME Inv, NEW w \in Writers, UNCHANGED branch,
         NEW a \in {Failure} \cup {Success(i) : i \in 1..Len(branch)}, Return(w, a),
         a.state = "ok" => /\ branch[a.commit].manifest.owned[w] = value[w]
                           /\ a.commit >= since[w]
  PROVE  Inv'
<1>1. TypeOK /\ NoLostUpdate
  BY DEF Inv
<1>2. TypeOK'
  BY <1>1 DEF TypeOK, Return, call_vars
<1>3. NoLostUpdate'
  BY <1>1 DEF NoLostUpdate
<1>4. Continues(branch', branch) /\ branch' \in Seq(Commit)
  BY <1>1 DEF Continues, TypeOK
<1>5. ASSUME NEW u \in Writers, u # w PROVE CallInv(u)' /\ AnswerInv(u)'
  <2>1. /\ pc'[u] = pc[u] /\ value'[u] = value[u] /\ since'[u] = since[u]
        /\ base'[u] = base[u] /\ answer'[u] = answer[u]
    BY <1>1, <1>5 DEF TypeOK, Return, call_vars
  <2> QED
    BY <1>4, <2>1, NotDisturbed
<1>6. CallInv(w)'
  BY <1>1 DEF CallInv, TypeOK, Return
<1>7. AnswerInv(w)'
  <2>1. /\ answer'[w] = a /\ value'[w] = value[w] /\ since'[w] = since[w]
    BY <1>1 DEF TypeOK, Return, call_vars
  <2>2. a.state = "ok" => a.commit \in 1..Len(branch)
    BY DEF Failure, Success
  <2> QED
    BY <2>1, <2>2 DEF AnswerInv
<1> QED
  BY <1>2, <1>3, <1>5, <1>6, <1>7 DEF Inv

LEMMA FailsInv ==
  ASSUME Inv, NEW w \in Writers, NEW step, Fails(w, step)
  PROVE  Inv'
<1>1. Failure.state # "ok"
  BY DEF Failure
<1> QED
  BY <1>1, ReturnInv DEF Fails

-----------------------------------------------------------------------------
(* The steps of Apply.                                                     *)

LEMMA StartInv ==
  ASSUME Inv, NEW w \in Writers, Start(w)
  PROVE  Inv'
<1>1. TypeOK /\ NoLostUpdate /\ branch \in Seq(Commit) /\ Len(branch) >= 1
  BY DEF Inv, TypeOK
<1>2. TypeOK'
  BY <1>1 DEF TypeOK, Start, MaxAttempts
<1>3. NoLostUpdate'
  BY <1>1 DEF NoLostUpdate, Start
<1>4. Continues(branch', branch) /\ branch' \in Seq(Commit)
  BY <1>1 DEF Continues, Start
<1>5. ASSUME NEW u \in Writers, u # w PROVE CallInv(u)' /\ AnswerInv(u)'
  <2>1. /\ pc'[u] = pc[u] /\ value'[u] = value[u] /\ since'[u] = since[u]
        /\ base'[u] = base[u] /\ answer'[u] = answer[u]
    BY <1>1, <1>5 DEF TypeOK, Start
  <2> QED
    BY <1>4, <2>1, NotDisturbed
<1>6. CallInv(w)' /\ AnswerInv(w)'
  BY <1>1 DEF CallInv, AnswerInv, TypeOK, Start, NoAnswer
<1> QED
  BY <1>2, <1>3, <1>5, <1>6 DEF Inv

LEMMA CloneInv ==
  ASSUME Inv, NEW w \in Writers, Clone(w)
  PROVE  Inv'
<1>1. CASE Fails(w, "clone")
  BY <1>1, FailsInv
<1>2. CASE ~ Fails(w, "clone")
  <2> USE <1>2
  <2>1. TypeOK /\ NoLostUpdate /\ branch \in Seq(Commit) /\ Len(branch) >= 1
    BY DEF Inv, TypeOK
  <2>2. TypeOK'
    <3>1. base' = [base EXCEPT ![w] = Len(branch)] /\ pc' = [pc EXCEPT ![w] = "edit"]
      BY DEF Clone
    <3>2. UNCHANGED <<branch, value, since, attempt, answer, calls, foreign>>
      BY DEF Clone, call_vars
    <3> QED
      BY <2>1, <3>1, <3>2 DEF TypeOK
  <2>3. NoLostUpdate'
    BY <2>1 DEF NoLostUpdate, Clone
  <2>4. Continues(branch', branch) /\ branch' \in Seq(Commit)
    BY <2>1 DEF Continues, Clone
  <2>5. ASSUME NEW u \in Writers, u # w PROVE CallInv(u)' /\ AnswerInv(u)'
    <3>1. /\ pc'[u] = pc[u] /\ value'[u] = value[u] /\ since'[u] = since[u]
          /\ base'[u] = base[u] /\ answer'[u] = answer[u]
      BY <2>1, <2>5 DEF TypeOK, Clone, call_vars
    <3> QED
      BY <2>4, <3>1, NotDisturbed
  <2>6. CallInv(w)' /\ AnswerInv(w)'
    <3>1. CallInv(w) /\ AnswerInv(w)
      BY DEF Inv
    <3> QED
      BY <2>1, <3>1 DEF CallInv, AnswerInv, TypeOK, Clone, call_vars
  <2> QED
    BY <2>2, <2>3, <2>5, <2>6 DEF Inv
<1> QED
  BY <1>1, <1>2

LEMMA UnchangedInv ==
  ASSUME Inv, NEW w \in Writers, Unchanged(w)
  PROVE  Inv'
<1>1. base[w] \in 1..Len(branch) /\ base[w] >= since[w]
  BY DEF Inv, TypeOK, CallInv, Unchanged
<1> QED
  BY <1>1, ReturnInv DEF Unchanged, Success

LEMMA EditInv ==
  ASSUME Inv, NEW w \in Writers, Edit(w)
  PROVE  Inv'
<1>1. CASE Fails(w, "edit")
  BY <1>1, FailsInv
<1>2. CASE ~ Fails(w, "edit")
  <2> USE <1>2
  <2>1. TypeOK /\ NoLostUpdate /\ branch \in Seq(Commit)
    BY DEF Inv, TypeOK
  <2>2. TypeOK'
    BY <2>1 DEF TypeOK, Edit, call_vars
  <2>3. NoLostUpdate'
    BY <2>1 DEF NoLostUpdate, Edit
  <2>4. Continues(branch', branch) /\ branch' \in Seq(Commit)
    BY <2>1 DEF Continues, Edit
  <2>5. ASSUME NEW u \in Writers, u # w PROVE CallInv(u)' /\ AnswerInv(u)'
    <3>1. /\ pc'[u] = pc[u] /\ value'[u] = value[u] /\ since'[u] = since[u]
          /\ base'[u] = base[u] /\ answer'[u] = answer[u]
      BY <2>1, <2>5 DEF TypeOK, Edit, call_vars
    <3> QED
      BY <2>4, <3>1, NotDisturbed
  <2>6. CallInv(w)' /\ AnswerInv(w)'
    <3>1. CallInv(w) /\ AnswerInv(w)
      BY DEF Inv
    <3> QED
      BY <2>1, <3>1 DEF CallInv, AnswerInv, TypeOK, Edit, call_vars
  <2> QED
    BY <2>2, <2>3, <2>5, <2>6 DEF Inv
<1> QED
  BY <1>1, <1>2

LEMMA ConflictInv ==
  ASSUME Inv, NEW w \in Writers, Conflict(w)
  PROVE  Inv'
<1>1. CASE Return(w, Failure)
  BY <1>1, ReturnInv DEF Conflict, Failure
<1>2. CASE ~ Return(w, Failure)
  <2>0. /\ pc[w] = "push" /\ attempt[w] + 1 < MaxAttempts
        /\ attempt' = [attempt EXCEPT ![w] = @ + 1]
        /\ pc' = [pc EXCEPT ![w] = "clone"]
        /\ UNCHANGED <<branch, value, since, base, answer, calls, foreign>>
    BY <1>2 DEF Conflict, call_vars
  <2>1. TypeOK /\ NoLostUpdate /\ branch \in Seq(Commit)
    BY DEF Inv, TypeOK
  <2>2. TypeOK'
    <3>1. attempt' \in [Writers -> 0..(MaxAttempts - 1)]
      <4>1. attempt \in [Writers -> 0..(MaxAttempts - 1)]
        BY <2>1 DEF TypeOK
      <4>2. attempt[w] + 1 \in 0..(MaxAttempts - 1)
        BY <2>0, <4>1 DEF MaxAttempts
      <4> QED
        BY <2>0, <4>1, <4>2
    <3> QED
      BY <2>0, <2>1, <3>1 DEF TypeOK
  <2>3. NoLostUpdate'
    BY <2>0, <2>1 DEF NoLostUpdate
  <2>4. Continues(branch', branch) /\ branch' \in Seq(Commit)
    BY <2>0, <2>1 DEF Continues
  <2>5. ASSUME NEW u \in Writers, u # w PROVE CallInv(u)' /\ AnswerInv(u)'
    <3>1. /\ pc'[u] = pc[u] /\ value'[u] = value[u] /\ since'[u] = since[u]
          /\ base'[u] = base[u] /\ answer'[u] = answer[u]
      BY <2>0, <2>1, <2>5 DEF TypeOK
    <3> QED
      BY <2>4, <3>1, NotDisturbed
  <2>6. CallInv(w)' /\ AnswerInv(w)'
    <3>1. CallInv(w) /\ AnswerInv(w)
      BY DEF Inv
    <3> QED
      BY <2>0, <2>1, <3>1 DEF CallInv, AnswerInv, TypeOK
  <2> QED
    BY <2>2, <2>3, <2>5, <2>6 DEF Inv
<1> QED
  BY <1>1, <1>2

\* The pending commit lands on the commit it edits.
LEMMA PushInv ==
  ASSUME Inv, NEW w \in Writers, Push(w)
  PROVE  Inv'
<1> DEFINE tip == branch[Len(branch)].manifest
           c == Pending(w)
<1>1. TypeOK /\ branch \in Seq(Commit) /\ Len(branch) >= 1 /\ CallInv(w)
  BY DEF Inv, TypeOK
<1>2. value[w] \in Values /\ tip \in Manifest /\ tip.owned[w] # value[w]
  <2>1. branch[Len(branch)] \in Commit
    BY <1>1
  <2>2. tip \in Manifest
    BY <2>1 DEF Commit
  <2>3. value[w] \in Values /\ tip.owned[w] # value[w]
    BY <1>1 DEF CallInv, Push
  <2> QED
    BY <2>2, <2>3
<1>3. c = [by |-> w, manifest |-> Edited(tip, w, value[w])]
  BY DEF Pending, Push
<1>4. /\ Edited(tip, w, value[w]) \in Manifest
      /\ Edited(tip, w, value[w]).owned[w] = value[w]
      /\ Edited(tip, w, value[w]) # tip
  BY <1>2, EditedType
<1>5. /\ c \in Commit /\ c.by = w /\ c.manifest = Edited(tip, w, c.manifest.owned[w])
      /\ c.manifest # tip /\ c.manifest.owned[w] = value[w]
  BY <1>3, <1>4 DEF Commit
<1>6. branch' = Append(branch, c)
  BY DEF Push
<1> HIDE DEF c, tip
<1>7. /\ branch' \in Seq(Commit) /\ branch' # <<>>
      /\ Len(branch') = Len(branch) + 1
      /\ Continues(branch', branch)
      /\ branch'[Len(branch) + 1] = c
      /\ NoLostUpdate'
  BY <1>5, <1>6, BranchGrows DEF tip
<1>8. PICK a \in {Failure, Success(Len(branch'))} : Return(w, a)
  BY DEF Push
<1>9. TypeOK'
  <2>1. a \in {NoAnswer, Failure} \cup {Success(i) : i \in 1..Len(branch')}
    BY <1>1, <1>7, <1>8
  <2>2. answer \in [Writers -> {NoAnswer, Failure} \cup {Success(i) : i \in 1..Len(branch')}]
    BY <1>1, <1>7 DEF TypeOK
  <2>3. answer' \in [Writers -> {NoAnswer, Failure} \cup {Success(i) : i \in 1..Len(branch')}]
    BY <1>8, <2>1, <2>2 DEF Return
  <2> QED
    BY <1>1, <1>7, <1>8, <2>3 DEF TypeOK, Return, call_vars
<1>10. ASSUME NEW u \in Writers, u # w PROVE CallInv(u)' /\ AnswerInv(u)'
  <2>1. /\ pc'[u] = pc[u] /\ value'[u] = value[u] /\ since'[u] = since[u]
        /\ base'[u] = base[u] /\ answer'[u] = answer[u]
    BY <1>1, <1>8, <1>10 DEF TypeOK, Return, call_vars
  <2> QED
    BY <1>7, <2>1, NotDisturbed
<1>11. CallInv(w)'
  BY <1>1, <1>8 DEF CallInv, TypeOK, Return
<1>12. AnswerInv(w)'
  <2>1. answer'[w] = a /\ value'[w] = value[w] /\ since'[w] = since[w]
    BY <1>1, <1>8 DEF TypeOK, Return, call_vars
  <2>2. a.state = "ok" => a.commit = Len(branch')
    BY DEF Failure, Success
  <2>3. since[w] \in 0..Len(branch)
    BY <1>1 DEF TypeOK
  <2> QED
    BY <1>1, <1>5, <1>7, <2>1, <2>2, <2>3 DEF AnswerInv
<1> QED
  BY <1>7, <1>9, <1>10, <1>11, <1>12 DEF Inv

LEMMA ForeignPushInv ==
  ASSUME Inv, ForeignPush
  PROVE  Inv'
<1> DEFINE tip == branch[Len(branch)].manifest
<1>1. TypeOK /\ branch \in Seq(Commit) /\ Len(branch) >= 1 /\ tip \in Manifest
  <2>1. TypeOK /\ branch \in Seq(Commit) /\ Len(branch) >= 1
    BY DEF Inv, TypeOK
  <2>2. branch[Len(branch)] \in Commit
    BY <2>1
  <2> QED
    BY <2>1, <2>2 DEF Commit
<1>2. PICK n \in ForeignEdits(tip) :
        branch' = Append(branch, [by |-> Foreign, manifest |-> n])
  BY DEF ForeignPush
<1>3. n \in Manifest
  BY <1>1, <1>2, ForeignEditsType
<1> HIDE DEF tip
<1>4. [by |-> Foreign, manifest |-> n] \in Commit
  BY <1>3 DEF Commit
<1>5. /\ branch' \in Seq(Commit) /\ branch' # <<>>
      /\ Len(branch') = Len(branch) + 1
      /\ Continues(branch', branch)
      /\ NoLostUpdate'
  BY <1>2, <1>4, BranchGrows
<1>6. TypeOK'
  <2>1. answer' \in [Writers -> {NoAnswer, Failure} \cup {Success(i) : i \in 1..Len(branch')}]
    BY <1>1, <1>5 DEF TypeOK, ForeignPush
  <2> QED
    BY <1>1, <1>5, <2>1 DEF TypeOK, ForeignPush, call_vars
<1>7. \A w \in Writers : CallInv(w)' /\ AnswerInv(w)'
  BY <1>5, NotDisturbed DEF ForeignPush, call_vars
<1> QED
  BY <1>5, <1>6, <1>7 DEF Inv

LEMMA NextInv == Inv /\ [Next]_vars => Inv'
<1> SUFFICES ASSUME Inv, [Next]_vars PROVE Inv'
  OBVIOUS
<1>1. CASE UNCHANGED vars
  <2>1. TypeOK' /\ NoLostUpdate'
    BY <1>1 DEF Inv, TypeOK, NoLostUpdate, vars, call_vars
  <2>2. \A w \in Writers : CallInv(w)' /\ AnswerInv(w)'
    BY <1>1 DEF Inv, CallInv, AnswerInv, vars, call_vars
  <2> QED
    BY <2>1, <2>2 DEF Inv
<1>2. ASSUME NEW w \in Writers, Start(w) PROVE Inv'
  BY <1>2, StartInv
<1>3. ASSUME NEW w \in Writers, Apply(w) PROVE Inv'
  BY <1>3, CloneInv, UnchangedInv, EditInv, PushInv, ConflictInv, FailsInv
     DEF Apply, PushFails
<1>4. CASE ForeignPush
  BY <1>4, ForeignPushInv
<1> QED
  BY <1>1, <1>2, <1>3, <1>4 DEF Next

LEMMA Invariant == Spec => []Inv
  BY InitInv, NextInv, PTL DEF Spec

-----------------------------------------------------------------------------
(* The theorems.                                                           *)

\* TypeOK: every variable holds a value of its type, and every clone and
\* answer is of a commit the branch has.
THEOREM TypeCorrect == Spec => []TypeOK
<1>1. Inv => TypeOK
  BY DEF Inv
<1> QED
  BY <1>1, Invariant, PTL

\* NoLostUpdate: a commit of Apply changes its caller's fields in the manifest
\* it is put on, and nothing else.
THEOREM NothingIsLost == Spec => []NoLostUpdate
<1>1. Inv => NoLostUpdate
  BY DEF Inv
<1> QED
  BY <1>1, Invariant, PTL

\* AnswerHolds: the commit Apply returns holds the value asked for, and was
\* not yet history when the call began.
THEOREM AnswersHold == Spec => []AnswerHolds
<1>1. Inv => AnswerHolds
  BY DEF Inv, AnswerInv, AnswerHolds
<1> QED
  BY <1>1, Invariant, PTL

-----------------------------------------------------------------------------
(* Writeback implements ManifestBranch.                                    *)

LEMMA InitKeepsPromise == Init => Promise!Init
  BY DEF Init, First, NoAnswer, CallInProgress,
         Promise!Init, Promise!First, Promise!NoAnswer, Promise!Idle

\* Where a call stands in Apply is nobody else's business.
LEMMA CallGoesOn ==
  ASSUME Inv, NEW w \in Writers, pc[w] # "idle", NEW p, p # "idle",
         pc' = [pc EXCEPT ![w] = p], UNCHANGED <<branch, value, since, answer>>
  PROVE  UNCHANGED Promise!vars
<1>1. pc \in [Writers -> {"idle", "clone", "edit", "push"}]
  BY DEF Inv, TypeOK
<1>2. CallInProgress' = CallInProgress
  BY <1>1 DEF CallInProgress
<1> QED
  BY <1>2 DEF Promise!vars

LEMMA CallEnds ==
  ASSUME Inv, NEW w \in Writers, pc[w] # "idle", NEW a, Return(w, a)
  PROVE  /\ CallInProgress[w] = [value |-> value[w], since |-> since[w]]
         /\ CallInProgress[w] # Promise!Idle
         /\ Promise!Return(w, a)
<1>1. pc \in [Writers -> {"idle", "clone", "edit", "push"}] /\ since[w] >= 1
  BY DEF Inv, TypeOK, CallInv
<1>2. CallInProgress[w] = [value |-> value[w], since |-> since[w]]
  BY DEF CallInProgress
<1>3. CallInProgress' = [CallInProgress EXCEPT ![w] = Promise!Idle]
  BY <1>1 DEF CallInProgress, Return, call_vars, Promise!Idle
<1> QED
  BY <1>1, <1>2, <1>3 DEF Return, Promise!Return, Promise!Idle

LEMMA FailureRefuses ==
  ASSUME Inv, NEW w \in Writers, pc[w] # "idle", Return(w, Failure), UNCHANGED branch
  PROVE  Promise!Refuse(w)
  BY CallEnds DEF Promise!Refuse, Failure, Promise!Failure

LEMMA StartRequests ==
  ASSUME Inv, NEW w \in Writers, Start(w)
  PROVE  Promise!Request(w)
<1>1. /\ pc \in [Writers -> {"idle", "clone", "edit", "push"}]
      /\ value \in [Writers -> Values \cup {Blank}]
      /\ since \in [Writers -> 0..Len(branch)]
  BY DEF Inv, TypeOK
<1>2. PICK v \in Values : value' = [value EXCEPT ![w] = v]
  BY DEF Start
<1>3. CallInProgress' =
        [CallInProgress EXCEPT ![w] = [value |-> v, since |-> Len(branch)]]
  BY <1>1, <1>2 DEF CallInProgress, Start
<1>4. CallInProgress[w] = Promise!Idle
  BY DEF CallInProgress, Start, Promise!Idle
<1> QED
  BY <1>3, <1>4 DEF Promise!Request, Start, NoAnswer, Promise!NoAnswer

LEMMA UnchangedConfirms ==
  ASSUME Inv, NEW w \in Writers, Unchanged(w)
  PROVE  Promise!Confirm(w)
<1>1. base[w] \in since[w]..Len(branch)
  BY DEF Inv, TypeOK, CallInv, Unchanged
<1>2. /\ CallInProgress[w] = [value |-> value[w], since |-> since[w]]
      /\ CallInProgress[w] # Promise!Idle
      /\ Promise!Return(w, Success(base[w]))
  BY CallEnds DEF Unchanged
<1>3. Success(base[w]) = Promise!Success(base[w])
  BY DEF Success, Promise!Success
<1> QED
  BY <1>1, <1>2, <1>3 DEF Promise!Confirm, Unchanged

LEMMA PushPuts ==
  ASSUME Inv, NEW w \in Writers, Push(w)
  PROVE  Promise!Put(w)
<1>1. base[w] = Len(branch) /\ branch[Len(branch)].manifest.owned[w] # value[w]
  BY DEF Inv, CallInv, Push
<1>2. PICK a \in {Success(Len(branch')), Failure} : Return(w, a)
  BY DEF Push
<1>3. /\ CallInProgress[w] = [value |-> value[w], since |-> since[w]]
      /\ CallInProgress[w] # Promise!Idle
      /\ Promise!Return(w, a)
  BY <1>2, CallEnds DEF Push
<1>4. a \in {Promise!Success(Len(branch')), Promise!Failure}
  BY <1>2 DEF Success, Failure, Promise!Success, Promise!Failure
<1>5. branch' = Append(branch,
        [by |-> w, manifest |-> Promise!Edited(Promise!Tip(branch).manifest, w,
                                               CallInProgress[w].value)])
  BY <1>1, <1>3 DEF Push, Pending, Edited, Promise!Edited, Promise!Tip
<1> QED
  BY <1>1, <1>3, <1>4, <1>5 DEF Promise!Put, Promise!Tip

LEMMA ForeignPushIsForeign ==
  ASSUME Inv, ForeignPush
  PROVE  Promise!ForeignPush
<1> DEFINE tip == branch[Len(branch)].manifest
<1>1. branch \in Seq(Commit) /\ Len(branch) >= 1
  BY DEF Inv, TypeOK
<1>2. tip \in Manifest
  <2>1. branch[Len(branch)] \in Commit
    BY <1>1
  <2> QED
    BY <2>1 DEF Commit
<1>3. PICK n \in ForeignEdits(tip) :
        branch' = Append(branch, [by |-> Foreign, manifest |-> n])
  BY DEF ForeignPush
<1>4. n \in Manifest
  BY <1>2, <1>3, ForeignEditsType
<1> DEFINE c == [by |-> Foreign, manifest |-> n]
<1>5. c \in Promise!Commit /\ c \in Commit /\ c.by = Foreign
  BY <1>4 DEF Commit, Manifest, Promise!Commit, Promise!Manifest
<1> HIDE DEF c, tip
<1>6. Len(branch') = Len(branch) + 1 /\ branch'[Len(branch')] = c
  BY <1>1, <1>3, <1>5, AppendContinues DEF c
<1>7. CallInProgress' = CallInProgress
  BY DEF CallInProgress, ForeignPush, call_vars
<1> QED
  BY <1>3, <1>5, <1>6, <1>7 DEF Promise!ForeignPush, Promise!Tip, ForeignPush, c

LEMMA StepKeepsPromise == Inv /\ [Next]_vars => [Promise!Next]_Promise!vars
<1> SUFFICES ASSUME Inv, [Next]_vars PROVE [Promise!Next]_Promise!vars
  OBVIOUS
<1>1. CASE UNCHANGED vars
  BY <1>1 DEF vars, call_vars, CallInProgress, Promise!vars
<1>2. ASSUME NEW w \in Writers, Start(w) PROVE Promise!Next
  BY <1>2, StartRequests DEF Promise!Next
<1>3. ASSUME NEW w \in Writers, Apply(w) PROVE [Promise!Next]_Promise!vars
  <2>1. CASE Clone(w)
    <3>1. CASE Fails(w, "clone")
      BY <2>1, <3>1, FailureRefuses DEF Clone, Fails, Promise!Next
    <3>2. CASE ~ Fails(w, "clone")
      BY <2>1, <3>2, CallGoesOn DEF Clone, call_vars
    <3> QED
      BY <3>1, <3>2
  <2>2. CASE Unchanged(w)
    BY <2>2, UnchangedConfirms DEF Promise!Next
  <2>3. CASE Edit(w)
    <3>1. CASE Fails(w, "edit")
      BY <2>3, <3>1, FailureRefuses DEF Edit, Fails, Promise!Next
    <3>2. CASE ~ Fails(w, "edit")
      BY <2>3, <3>2, CallGoesOn DEF Edit, call_vars
    <3> QED
      BY <3>1, <3>2
  <2>4. CASE Push(w)
    BY <2>4, PushPuts DEF Promise!Next
  <2>5. CASE Conflict(w)
    <3>1. CASE Return(w, Failure)
      BY <2>5, <3>1, FailureRefuses DEF Conflict, Promise!Next
    <3>2. CASE ~ Return(w, Failure)
      BY <2>5, <3>2, CallGoesOn DEF Conflict, call_vars
    <3> QED
      BY <3>1, <3>2
  <2>6. CASE PushFails(w)
    BY <2>6, FailureRefuses DEF PushFails, Fails, Promise!Next
  <2> QED
    BY <1>3, <2>1, <2>2, <2>3, <2>4, <2>5, <2>6 DEF Apply
<1>4. CASE ForeignPush
  BY <1>4, ForeignPushIsForeign DEF Promise!Next
<1> QED
  BY <1>1, <1>2, <1>3, <1>4 DEF Next

\* KeepsPromise: what clients see of Apply, with its clones, retries and lost
\* answers, is what ManifestBranch promises.
THEOREM ApplyKeepsPromise == Spec => KeepsPromise
  BY Invariant, InitKeepsPromise, StepKeepsPromise, PTL
     DEF Spec, KeepsPromise, Promise!Spec

-----------------------------------------------------------------------------
(* One commit for a call.                                                  *)

\* The commits w has put on the branch since its call began.
Own(w) == {i \in (since[w] + 1)..Len(branch) : branch[i].by = w}

\* None while the call goes on, and at most one after.
OneInv(w) == /\ pc[w] # "idle" => Own(w) = {}
             /\ \A i, j \in Own(w) : i = j

\* Nobody's commits but those of by become more.
LEMMA OwnGrows ==
  ASSUME Inv, NEW c \in Commit, branch' = Append(branch, c), since' = since, NEW w \in Writers
  PROVE  Own(w)' = IF c.by = w THEN Own(w) \cup {Len(branch) + 1} ELSE Own(w)
<1>1. branch \in Seq(Commit) /\ since[w] \in 0..Len(branch)
  BY DEF Inv, TypeOK
<1>2. /\ Len(branch') = Len(branch) + 1 /\ branch'[Len(branch) + 1] = c
      /\ \A i \in 1..Len(branch) : branch'[i] = branch[i]
  BY <1>1, AppendContinues DEF Continues
<1>3. \A i : i \in (since[w] + 1)..(Len(branch) + 1)
              <=> i \in (since[w] + 1)..Len(branch) \/ i = Len(branch) + 1
  BY <1>1
<1>4. \A i \in (since[w] + 1)..Len(branch) : i \in 1..Len(branch)
  BY <1>1
<1> QED
  BY <1>2, <1>3, <1>4 DEF Own

\* Steps that leave the branch and the calls' beginnings alone.
LEMMA OneStays ==
  ASSUME \A w \in Writers : OneInv(w), UNCHANGED <<branch, since>>,
         \A w \in Writers : pc'[w] # "idle" => pc[w] # "idle"
  PROVE  \A w \in Writers : OneInv(w)'
  BY DEF OneInv, Own

LEMMA StartOne ==
  ASSUME Inv, \A u \in Writers : OneInv(u), NEW w \in Writers, Start(w)
  PROVE  \A u \in Writers : OneInv(u)'
<1>1. /\ pc \in [Writers -> {"idle", "clone", "edit", "push"}] /\ Len(branch) \in Nat
      /\ since \in [Writers -> 0..Len(branch)]
  BY DEF Inv, TypeOK
<1>2. /\ branch' = branch /\ since' = [since EXCEPT ![w] = Len(branch)]
      /\ pc' = [pc EXCEPT ![w] = "clone"]
  BY DEF Start
<1>3. OneInv(w)'
  <2>1. since'[w] = Len(branch)
    BY <1>1, <1>2
  <2>2. Own(w)' = {}
    BY <1>1, <1>2, <2>1 DEF Own
  <2> QED
    BY <2>2 DEF OneInv
<1>4. ASSUME NEW u \in Writers, u # w PROVE OneInv(u)'
  <2>1. since'[u] = since[u] /\ pc'[u] = pc[u]
    BY <1>1, <1>2, <1>4
  <2> QED
    BY <1>2, <2>1 DEF OneInv, Own
<1> QED
  BY <1>3, <1>4

LEMMA PushOne ==
  ASSUME Inv, \A u \in Writers : OneInv(u), NEW w \in Writers, Push(w)
  PROVE  \A u \in Writers : OneInv(u)'
<1>1. /\ pc \in [Writers -> {"idle", "clone", "edit", "push"}] /\ branch \in Seq(Commit)
      /\ value \in [Writers -> Values \cup {Blank}] /\ base[w] \in 1..Len(branch)
  BY DEF Inv, TypeOK, CallInv, Push
<1>2. Pending(w) \in Commit /\ Pending(w).by = w
  <2>0. branch[base[w]] \in Commit
    BY <1>1
  <2>1. branch[base[w]].manifest \in Manifest
    BY <2>0 DEF Commit
  <2>2. Edited(branch[base[w]].manifest, w, value[w]) \in Manifest
    BY <1>1, <2>1, EditedType
  <2> QED
    BY <2>2 DEF Pending, Commit
<1>3. branch' = Append(branch, Pending(w)) /\ since' = since /\ pc' = [pc EXCEPT ![w] = "idle"]
  BY DEF Push, Return, call_vars
<1>4. OneInv(w)'
  <2>1. Own(w) = {}
    BY DEF OneInv, Push
  <2>2. Own(w)' = {Len(branch) + 1}
    BY <1>2, <1>3, <2>1, OwnGrows
  <2>3. pc'[w] = "idle"
    BY <1>1, <1>3
  <2> QED
    BY <2>2, <2>3 DEF OneInv
<1>5. ASSUME NEW u \in Writers, u # w PROVE OneInv(u)'
  <2>1. Own(u)' = Own(u)
    BY <1>2, <1>3, <1>5, OwnGrows
  <2>2. pc'[u] = pc[u]
    BY <1>1, <1>3, <1>5
  <2> QED
    BY <2>1, <2>2 DEF OneInv
<1> QED
  BY <1>4, <1>5

LEMMA ForeignPushOne ==
  ASSUME Inv, \A u \in Writers : OneInv(u), ForeignPush
  PROVE  \A u \in Writers : OneInv(u)'
<1>1. PICK n \in ForeignEdits(branch[Len(branch)].manifest) :
        branch' = Append(branch, [by |-> Foreign, manifest |-> n])
  BY DEF ForeignPush
<1>2. [by |-> Foreign, manifest |-> n] \in Commit
  <2>0. branch[Len(branch)] \in Commit
    BY DEF Inv, TypeOK
  <2>1. branch[Len(branch)].manifest \in Manifest
    BY <2>0 DEF Commit
  <2>2. n \in Manifest
    BY <1>1, <2>1, ForeignEditsType
  <2> QED
    BY <2>2 DEF Commit
<1>3. \A u \in Writers : Own(u)' = Own(u)
  BY <1>1, <1>2, OwnGrows DEF ForeignPush, call_vars
<1> QED
  BY <1>3 DEF OneInv, ForeignPush

LEMMA NextOne ==
  Inv /\ (\A w \in Writers : OneInv(w)) /\ [Next]_vars => (\A w \in Writers : OneInv(w))'
<1> SUFFICES ASSUME Inv, \A w \in Writers : OneInv(w), [Next]_vars
             PROVE  \A w \in Writers : OneInv(w)'
  OBVIOUS
<1>0. pc \in [Writers -> {"idle", "clone", "edit", "push"}]
  BY DEF Inv, TypeOK
<1>1. CASE UNCHANGED vars
  BY <1>1, OneStays DEF vars, call_vars
<1>2. ASSUME NEW w \in Writers, Start(w) PROVE \A u \in Writers : OneInv(u)'
  BY <1>2, StartOne
<1>3. ASSUME NEW w \in Writers, Push(w) PROVE \A u \in Writers : OneInv(u)'
  BY <1>3, PushOne
<1>4. ASSUME NEW w \in Writers, Apply(w), ~Push(w) PROVE \A u \in Writers : OneInv(u)'
  <2>1. UNCHANGED <<branch, since>>
    BY <1>4 DEF Apply, Clone, Unchanged, Edit, Conflict, PushFails, Fails, Return, call_vars
  <2>2. pc[w] # "idle"
    BY <1>4 DEF Apply, Clone, Unchanged, Edit, Conflict, PushFails
  <2>3. \E x \in {"idle", "clone", "edit", "push"} : pc' = [pc EXCEPT ![w] = x]
    BY <1>4 DEF Apply, Clone, Unchanged, Edit, Conflict, PushFails, Fails, Return
  <2>4. \A u \in Writers : pc'[u] # "idle" => pc[u] # "idle"
    BY <1>0, <2>2, <2>3
  <2> QED
    BY <2>1, <2>4, OneStays
<1>5. CASE ForeignPush
  BY <1>5, ForeignPushOne
<1> QED
  BY <1>1, <1>2, <1>3, <1>4, <1>5 DEF Next

\* One call of Apply puts at most one commit on the branch, through its
\* retries and through answers that are lost.
THEOREM CallCommitsOnce == Spec => []AtMostOneCommit
<1>1. Init => \A w \in Writers : OneInv(w)
  <2> SUFFICES ASSUME Init, NEW w \in Writers PROVE OneInv(w)
    OBVIOUS
  <2>1. pc[w] = "idle" /\ since[w] = 0 /\ Len(branch) = 1
    BY DEF Init
  <2>2. Own(w) \subseteq {1}
    BY <2>1 DEF Own
  <2> QED
    BY <2>1, <2>2 DEF OneInv
<1>2. (\A w \in Writers : OneInv(w)) => AtMostOneCommit
  <2> SUFFICES ASSUME NEW w \in Writers, OneInv(w) PROVE Cardinality(Own(w)) <= 1
    BY DEF AtMostOneCommit, Own
  <2>1. CASE Own(w) = {}
    BY <2>1, FS_EmptySet
  <2>2. ASSUME NEW i \in Own(w) PROVE Cardinality(Own(w)) <= 1
    <3>1. Own(w) = {i}
      BY <2>2 DEF OneInv
    <3> QED
      BY <3>1, FS_Singleton
  <2> QED
    BY <2>1, <2>2
<1> QED
  BY <1>1, <1>2, NextOne, Invariant, PTL DEF Spec

=============================================================================
