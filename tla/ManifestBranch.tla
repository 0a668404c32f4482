--------------------------- MODULE ManifestBranch ---------------------------
(***************************************************************************)
(* What Writer.Apply promises its callers about the manifest branch.       *)
(*                                                                         *)
(* Several writers share one branch, each being the only updater of its    *)
(* own fields, and other people push to the same branch.  A call puts at   *)
(* most one commit on it, on top of whatever the tip is at that moment,    *)
(* and touches no field but the caller's.  A call that succeeds returns a  *)
(* commit that was the tip at some moment of the call and holds the        *)
(* caller's value.  A call that fails may have put its commit there all    *)
(* the same.                                                               *)
(***************************************************************************)
EXTENDS Integers, Sequences

CONSTANTS
  Writers,    \* the callers, one per set of owned fields
  Values,     \* what a caller's templates may render
  Blank,      \* what its fields hold before anybody writes them, no value
  Foreign     \* everybody else who pushes to the branch, no writer

VARIABLES
  branch,     \* the commits of the branch, oldest first
  call,       \* each writer's call in progress, or Idle
  answer      \* each writer's last answer

vars == <<branch, call, answer>>

\* The manifest at a commit: the writers' fields, and all the rest of it.
Manifest == [owned : [Writers -> Values \cup {Blank}], other : Nat]
Commit == [by : Writers \cup {Foreign}, manifest : Manifest]

Idle == [value |-> Blank, since |-> 0]
Call == [value : Values, since : Nat \ {0}]

NoAnswer == [state |-> "none", commit |-> 0]
Failure == [state |-> "failed", commit |-> 0]
Success(i) == [state |-> "ok", commit |-> i]

Tip(b) == b[Len(b)]

\* The manifest m with w's fields set to v and nothing else changed.
Edited(m, w, v) == [m EXCEPT !.owned[w] = v]

First == [by |-> Foreign,
          manifest |-> [owned |-> [w \in Writers |-> Blank], other |-> 0]]

Init ==
  /\ branch = <<First>>
  /\ call = [w \in Writers |-> Idle]
  /\ answer = [w \in Writers |-> NoAnswer]

Request(w) ==
  /\ call[w] = Idle
  /\ \E v \in Values : call' = [call EXCEPT ![w] = [value |-> v, since |-> Len(branch)]]
  /\ answer' = [answer EXCEPT ![w] = NoAnswer]
  /\ UNCHANGED branch

Return(w, a) ==
  /\ call' = [call EXCEPT ![w] = Idle]
  /\ answer' = [answer EXCEPT ![w] = a]

\* The commit lands, whether or not the caller hears of it.
Put(w) ==
  /\ call[w] # Idle
  /\ branch' = Append(branch,
       [by |-> w, manifest |-> Edited(Tip(branch).manifest, w, call[w].value)])
  /\ Tip(branch).manifest.owned[w] # call[w].value
  /\ \E a \in {Success(Len(branch')), Failure} : Return(w, a)

\* The fields held the value already at some moment of the call.
Confirm(w) ==
  /\ call[w] # Idle
  /\ \E i \in call[w].since..Len(branch) :
       /\ branch[i].manifest.owned[w] = call[w].value
       /\ Return(w, Success(i))
  /\ UNCHANGED branch

Refuse(w) == call[w] # Idle /\ Return(w, Failure) /\ UNCHANGED branch

ForeignPush ==
  /\ Len(branch') = Len(branch) + 1
  /\ branch' = Append(branch, Tip(branch'))
  /\ Tip(branch') \in Commit /\ Tip(branch').by = Foreign
  /\ UNCHANGED <<call, answer>>

Next == \/ \E w \in Writers : Request(w) \/ Put(w) \/ Confirm(w) \/ Refuse(w)
        \/ ForeignPush

Spec == Init /\ [][Next]_vars

=============================================================================
