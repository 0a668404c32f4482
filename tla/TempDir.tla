------------------------------- MODULE TempDir -------------------------------
(***************************************************************************)
(* The clone directories of the write-back and the lock over their root    *)
(* (internal/writeback/temp.go, with its callers in git.go and main.go).   *)
(*                                                                         *)
(* Every push works in a fresh clone-* directory under one root of the     *)
(* host's temporary directory, removed when the push returns.  A process   *)
(* that dies leaves its directory behind, so each process begins by        *)
(* removing what it finds, and holds a file lock from before that clean-up *)
(* until its manager has stopped: a second process on the same directory   *)
(* exits instead of removing the first one's clones.                       *)
(*                                                                         *)
(*   - A name is an entry of the root that starts with clone-; Strangers   *)
(*     are those that are symbolic links or another user's.                *)
(*   - The lock goes with the process: the kernel drops it at any exit,    *)
(*     and a git child cannot hold it (O_CLOEXEC; go-git runs none).       *)
(*   - One worker reconciles, so a process uses one clone at a time.       *)
(***************************************************************************)
EXTENDS Integers, FiniteSets

CONSTANTS
  Procs,      \* the controller processes started on this host
  Names,      \* the clone-* names
  Strangers,  \* the entries that are not this user's real directories
  None,       \* no process, no clone
  MaxFaults   \* bound: deaths, and removals that fail

ASSUME ProcsAssumption == None \notin Procs
ASSUME NamesAssumption == Strangers \subseteq Names /\ None \notin Names
ASSUME FaultsAssumption == MaxFaults \in Nat

VARIABLES
  pc,      \* where each process is
  lock,    \* who holds .writeback.lock
  dir,     \* the clone-* entries of the root
  todo,    \* the entries each process has still to look at in its clean-up
  using,   \* the clone each process is working in
  made,    \* history: the clones this life of each process created
  faults   \* faults left to inject

vars == <<pc, lock, dir, todo, using, made, faults>>

\* The steps at which a process holds the lock.
Holding == {"list", "clean", "run", "stopped"}

Init ==
  /\ pc = [p \in Procs |-> "down"]
  /\ lock = None
  /\ \E left \in SUBSET Names : dir = left \cup Strangers
  /\ todo = [p \in Procs |-> {}]
  /\ using = [p \in Procs |-> None]
  /\ made = [p \in Procs |-> {}]
  /\ faults = MaxFaults

Goto(p, step) == pc' = [pc EXCEPT ![p] = step]

\* Mutant: a lock that is a file, and outlives the process that made it.
ExitLeavesLock(p) ==
  /\ Goto(p, "down")
  /\ lock' = lock
  /\ todo' = [todo EXCEPT ![p] = {}]
  /\ using' = [using EXCEPT ![p] = None]
  /\ made' = [made EXCEPT ![p] = {}]

\* A process ends: its lock goes with it, its directories do not.
Exit(p) ==
  /\ Goto(p, "down")
  /\ lock' = IF lock = p THEN None ELSE lock
  /\ todo' = [todo EXCEPT ![p] = {}]
  /\ using' = [using EXCEPT ![p] = None]
  /\ made' = [made EXCEPT ![p] = {}]

Fault == faults > 0 /\ faults' = faults - 1

-----------------------------------------------------------------------------
(* Start-up: PrepareWritebackTempDir.                                      *)

\* The root exists or is created, and is this user's own.
Launch(p) ==
  /\ pc[p] = "down"
  /\ Goto(p, "lock")
  /\ UNCHANGED <<lock, dir, todo, using, made, faults>>

\* Mutant: a lock that does not exclude.
LockShared(p) ==
  /\ pc[p] = "lock"
  /\ lock' = p
  /\ Goto(p, "list")
  /\ UNCHANGED <<dir, todo, using, made, faults>>

\* flock(LOCK_EX | LOCK_NB).
Lock(p) ==
  /\ pc[p] = "lock"
  /\ lock = None
  /\ lock' = p
  /\ Goto(p, "list")
  /\ UNCHANGED <<dir, todo, using, made, faults>>

\* The lock is held, so the process gives up.
LockBusy(p) ==
  /\ pc[p] = "lock"
  /\ lock # None
  /\ Exit(p)
  /\ UNCHANGED <<dir, faults>>

\* os.ReadDir: what the clean-up will look at.
List(p) ==
  /\ pc[p] = "list"
  /\ todo' = [todo EXCEPT ![p] = dir]
  /\ Goto(p, "clean")
  /\ UNCHANGED <<lock, dir, using, made, faults>>

\* One entry: gone by now, not a clone of this user's, or removed.
Clean(p) ==
  /\ pc[p] = "clean"
  /\ \E n \in todo[p] :
       /\ todo' = [todo EXCEPT ![p] = @ \ {n}]
       /\ dir' = IF n \in Strangers THEN dir ELSE dir \ {n}
  /\ UNCHANGED <<pc, lock, using, made, faults>>

\* Listing, inspecting or removing fails: release and exit.
CleanFails(p) ==
  /\ pc[p] \in {"list", "clean"}
  /\ Fault
  /\ Exit(p)
  /\ UNCHANGED dir

\* Mutant: the clean-up gives up at an entry that fails, and start-up goes on.
CleanedPartly(p) ==
  /\ pc[p] = "clean"
  /\ Goto(p, "run")
  /\ UNCHANGED <<lock, dir, todo, using, made, faults>>

\* Every entry was looked at.
Cleaned(p) ==
  /\ pc[p] = "clean" /\ todo[p] = {}
  /\ Goto(p, "run")
  /\ UNCHANGED <<lock, dir, todo, using, made, faults>>

-----------------------------------------------------------------------------
(* The running manager: one push at a time.                                *)

\* newCloneDirectory: MkdirTemp takes a name that is free.
NewClone(p) ==
  /\ pc[p] = "run" /\ using[p] = None
  /\ \E n \in Names \ dir :
       /\ dir' = dir \cup {n}
       /\ using' = [using EXCEPT ![p] = n]
       /\ made' = [made EXCEPT ![p] = @ \cup {n}]
  /\ UNCHANGED <<pc, lock, todo, faults>>

\* The push returns, with or without an error: its directory is removed, and
\* an error of the removal is dropped.
EndClone(p) ==
  /\ pc[p] = "run" /\ using[p] # None
  /\ \/ dir' = dir \ {using[p]} /\ UNCHANGED faults
     \/ dir' = dir /\ Fault
  /\ using' = [using EXCEPT ![p] = None]
  /\ UNCHANGED <<pc, lock, todo, made>>

\* mgr.Start returns nil once every worker has ended.
Stop(p) ==
  /\ pc[p] = "run" /\ using[p] = None
  /\ Goto(p, "stopped")
  /\ UNCHANGED <<lock, dir, todo, using, made, faults>>

\* The deferred release, and the end of main.
Release(p) ==
  /\ pc[p] = "stopped"
  /\ Exit(p)
  /\ UNCHANGED <<dir, faults>>

\* Killed, or os.Exit: a start-up or a shutdown that fails.
Die(p) ==
  /\ pc[p] # "down"
  /\ Fault
  /\ Exit(p)
  /\ UNCHANGED dir

Prepare(p) == Launch(p) \/ Lock(p) \/ LockBusy(p) \/ List(p) \/ Clean(p) \/ Cleaned(p)

Step(p) ==
  \/ Prepare(p)
  \/ CleanFails(p)
  \/ NewClone(p) \/ EndClone(p)
  \/ Stop(p) \/ Release(p)
  \/ Die(p)

Next == \E p \in Procs : Step(p)

\* The supervisor starts a process again, and a process runs its start-up to
\* its end; nothing makes a push end or a process stop.
Fairness == \A p \in Procs : WF_vars(Prepare(p)) /\ WF_vars(Release(p))

Spec == Init /\ [][Next]_vars /\ Fairness

-----------------------------------------------------------------------------
(* Properties.                                                             *)

TypeOK ==
  /\ pc \in [Procs -> {"down", "lock"} \cup Holding]
  /\ lock \in Procs \cup {None}
  /\ dir \in SUBSET Names
  /\ todo \in [Procs -> SUBSET Names]
  /\ using \in [Procs -> Names \cup {None}]
  /\ made \in [Procs -> SUBSET Names]
  /\ faults \in 0..MaxFaults
  /\ \A p \in Procs : lock = p => pc[p] \in Holding

\* A clone of this user's that no living process created.
Interrupted(n) == n \in dir \ Strangers /\ \A p \in Procs : n \notin made[p]

\* No clean-up removes the directory another process is pushing from: the
\* lock is taken before the directory is read and kept until the pushes are
\* over.
LiveClonesStay == \A p \in Procs : using[p] # None => using[p] \in dir

\* A process that has come up shares the root with no clone of an earlier
\* life: what can pile up is what it failed to remove itself.
UpMeansClean == \A p \in Procs : pc[p] \in {"run", "stopped"} => ~\E n \in Names : Interrupted(n)

\* The promise of OwnedDir: PrepareWritebackTempDir makes its caller the one
\* owner of a root without left-overs, until the process ends in whatever way.
Owner == IF lock # None /\ pc[lock] \in {"run", "stopped"} THEN lock ELSE None
InUse == IF Owner = None THEN None ELSE using[Owner]
Ownership == INSTANCE OwnedDir WITH owner <- Owner, clone <- InUse,
                                    left <- dir \ (Strangers \cup {InUse})
RootHasOneOwner == Ownership!Spec

\* What a dead process left is removed in the end, by whichever process comes
\* up next, however many die or fail on the way.
InterruptedAreRemoved == \A n \in Names : Interrupted(n) ~> ~Interrupted(n)
=============================================================================
