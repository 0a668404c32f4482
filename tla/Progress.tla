------------------------------ MODULE Progress ------------------------------
(***************************************************************************)
(* Failure detection (internal/controller/progress.go, and addRev,         *)
(* revResolutionHealth and markReconcileSucceeded in                       *)
(* internal/controller/tagupdater_controller.go).                          *)
(*                                                                         *)
(* One worker reconciles the TagUpdaters in turn.  The process remembers   *)
(* in memory when each of them last succeeded, and when a tag was last     *)
(* resolved to a commit; its two liveness checks compare these times with  *)
(* windows, and the kubelet restarts a process that fails one.             *)
(*                                                                         *)
(*   - Times are kept as ages, in ticks; an age beyond every window stops  *)
(*     (at Cap, and at RevStaleAfter + 1 for the tag resolutions).         *)
(*   - What a reconcile does to status and git is the subject of           *)
(*     TagUpdater; here it succeeds, fails, or never returns.              *)
(*   - The queue is controller-runtime's priority queue: a key is in it at *)
(*     most once, ready or waiting for its delay; ready keys are taken in  *)
(*     the order in which they became so, those known from a listing last. *)
(***************************************************************************)
EXTENDS Integers, Sequences, FiniteSets, Functions

CONSTANTS
  Updaters,       \* the keys of TagUpdaters
  Git,            \* those whose source is a TagRevResolver
  Failing,        \* those of Git whose tags may fail to resolve
  Intervals,      \* for each, the values its spec.interval may take
  Multiplier,     \* --reconcile-stale-multiplier
  Floor,          \* --reconcile-stale-floor
  RevStaleAfter,  \* revStaleAfter
  Poll,           \* requeue after a poll of ArgoCD
  MaxBackoff,     \* bound: the longest delay of the rate limiter
  MaxReconcile,   \* bound: how long a reconcile lasts, unless it hangs
  Cap             \* bound: beyond it the ages of entries are not told apart

None == -1        \* a zero time, or no key

ASSUME KeyAssumption == None \notin Updaters /\ Failing \subseteq Git /\ Git \subseteq Updaters
ASSUME DelayAssumption ==
  /\ Intervals \in [Updaters -> SUBSET (Nat \ {0})]
  /\ Poll \in Nat \ {0} /\ MaxBackoff \in Nat \ {0} /\ MaxReconcile \in Nat
ASSUME WindowAssumption ==
  /\ Multiplier \in Nat \ {0} /\ Floor \in Nat
  /\ RevStaleAfter \in Nat /\ Cap \in Nat

VARIABLES
  spec,       \* spec.interval of each TagUpdater, None if there is no such object
  queue,      \* the keys of the work queue
  delay,      \* how long a key has to wait before it is ready, None if it is
  low,        \* the keys of low priority
  running, stage, busy,     \* the worker
  anchor,     \* age of an entry's lastSuccess, before any of its firstAttempt
  interval,   \* the entry's interval
  revAnchor,  \* age of lastRevSuccess, before any of firstRevAttempt
  steady      \* history: has the updater's last reconcile succeeded, and was
              \* it not overtaken since?

work == <<queue, delay, low>>
worker == <<running, stage, busy>>
memory == <<anchor, interval, revAnchor>>
vars == <<spec, work, worker, memory, steady>>

Existing == {u \in Updaters : spec[u] # None}
Tracked == {u \in Updaters : anchor[u] # None}

Init ==
  /\ spec = [u \in Updaters |-> None]
  /\ queue = << >> /\ low = {}
  /\ delay = [u \in Updaters |-> None]
  /\ running = None /\ stage = "idle" /\ busy = 0
  /\ anchor = [u \in Updaters |-> None]
  /\ interval = [u \in Updaters |-> None]
  /\ revAnchor = None
  /\ steady = [u \in Updaters |-> FALSE]

-----------------------------------------------------------------------------
(* Windows and checks.                                                     *)

\* Mutant: the floor is ignored.
WindowWithoutFloor(i) == Multiplier * i

\* staleWindow.
Window(i) == IF Multiplier * i > Floor THEN Multiplier * i ELSE Floor

\* staleAt.
Stale(u) == anchor[u] > Window(interval[u])

\* Mutant: updaters the process has not tried yet count as fresh.
EveryExistingStale == Existing # {} /\ \A u \in Existing : Stale(u)

\* ReconcileProgressHealthz fails.
AllStale == Tracked # {} /\ \A u \in Tracked : Stale(u)

\* revResolutionHealth fails.
RevStale == revAnchor > RevStaleAfter

-----------------------------------------------------------------------------
(* The work queue.                                                         *)

Ready == {u \in Range(queue) : delay[u] = None}

\* The queue without a key.
Without(u) ==
  IF u \notin Range(queue) THEN queue
  ELSE LET i == CHOOSE i \in DOMAIN queue : queue[i] = u
       IN  [j \in 1..(Len(queue) - 1) |-> IF j < i THEN queue[j] ELSE queue[j + 1]]

\* An event makes its key ready; one that waits keeps its place, unless its
\* priority rises.
Add(u) ==
  /\ queue' = IF u \in Range(queue) /\ u \notin low
              THEN queue ELSE Append(Without(u), u)
  /\ delay' = [delay EXCEPT ![u] = None]
  /\ low' = low \ {u}

\* The reconcile's own addition counts for nothing if an event has come first.
AddAfter(d) ==
  /\ UNCHANGED low
  /\ \/ running \in Range(queue) /\ UNCHANGED <<queue, delay>>
     \/ /\ running \notin Range(queue)
        /\ queue' = Append(queue, running)
        /\ delay' = [delay EXCEPT ![running] = d]

\* The delay of a key is over.
Ripen(u) ==
  /\ delay[u] = 0
  /\ delay' = [delay EXCEPT ![u] = None]
  /\ queue' = Append(Without(u), u)
  /\ UNCHANGED <<spec, low, worker, memory, steady>>

\* An object is created, edited, deleted, or its status is written.
Write(u) ==
  /\ spec' \in {[spec EXCEPT ![u] = i] : i \in Intervals[u] \cup {None}}
  /\ spec[u] # None \/ spec'[u] # None
  /\ Add(u)
  /\ UNCHANGED <<worker, memory, steady>>

-----------------------------------------------------------------------------
(* The reconcile.                                                          *)

\* Mutant: an attempt does not set the length of the window.
AttemptKeepsInterval(u) ==
  /\ anchor' = [anchor EXCEPT ![u] = IF @ = None THEN 0 ELSE @]
  /\ UNCHANGED interval

\* attempt: the first one starts the window, and each sets its length.
Attempt(u) ==
  /\ anchor' = [anchor EXCEPT ![u] = IF @ = None THEN 0 ELSE @]
  /\ interval' = [interval EXCEPT ![u] = spec[u]]

\* Mutant: a deleted TagUpdater is not forgotten.
KeepEntry(u) == UNCHANGED <<anchor, interval>>

\* forget.
Forget(u) ==
  /\ anchor' = [anchor EXCEPT ![u] = None]
  /\ interval' = [interval EXCEPT ![u] = None]

\* The first of the ready keys, of normal priority if there are any.
Takes(u) ==
  LET turn == IF Ready \subseteq low THEN Ready ELSE Ready \ low
  IN  \E i \in DOMAIN queue :
        u = queue[i] /\ u \in turn /\ \A j \in 1..(i - 1) : queue[j] \notin turn

\* A key known from a listing lets every key with an event pass.
Overtakes(u, v) == u \notin low /\ v \in Ready \cap low

\* Reconcile reads the object and, unless it is gone, records the attempt.
Begin(u) ==
  /\ running = None /\ Takes(u)
  /\ queue' = Without(u)
  /\ \/ /\ spec[u] = None
        /\ Forget(u)
        /\ UNCHANGED worker
     \/ /\ spec[u] # None
        /\ Attempt(u)
        /\ running' = u /\ stage' = "resolving"
        /\ UNCHANGED busy
  /\ steady' = [v \in Updaters |-> steady[v] /\ spec[v] # None /\ ~Overtakes(u, v)]
  /\ UNCHANGED <<spec, delay, low, revAnchor>>

Done == running' = None /\ stage' = "idle" /\ busy' = 0

\* markReconcileSucceeded, and the requeue after d.
Succeed(d) ==
  /\ anchor' = [anchor EXCEPT ![running] = 0]
  /\ steady' = [steady EXCEPT ![running] = TRUE]
  /\ AddAfter(d) /\ Done
  /\ UNCHANGED <<spec, interval, revAnchor>>

\* An error, retried after a backoff, or a return that is no success: bad
\* configuration, a conflicting owner, ArgoCD unreadable or not there yet.
Fail ==
  /\ \E d \in 1..MaxBackoff \cup {Poll, interval[running]} : AddAfter(d)
  /\ Done
  /\ steady' = [steady EXCEPT ![running] = FALSE]
  /\ UNCHANGED <<spec, memory>>

\* The gate holds, and ArgoCD has observed the commit.
WatchHealth == stage = "resolving" /\ Succeed(Poll)

NoMatchingTags == stage = "resolving" /\ Succeed(interval[running])

FailEarly == stage = "resolving" /\ Fail

\* Mutant: every attempt restarts the window of tag resolution.
RestartRevWindow == 0

\* The first attempt starts the window of tag resolution.
FirstRevAttempt == IF revAnchor = None THEN 0 ELSE revAnchor

\* A tag has been found; addRev asks for its commit.
AskRev ==
  /\ stage = "resolving" /\ running \in Git
  /\ revAnchor' = FirstRevAttempt
  /\ stage' = "asking"
  /\ UNCHANGED <<spec, work, running, busy, anchor, interval, steady>>

\* addRev is inert for the other sources.
SkipRev ==
  /\ stage = "resolving" /\ running \notin Git
  /\ stage' = "writing"
  /\ UNCHANGED <<spec, work, running, busy, memory, steady>>

RevResolved ==
  /\ stage = "asking"
  /\ revAnchor' = 0
  /\ stage' = "writing"
  /\ UNCHANGED <<spec, work, running, busy, anchor, interval, steady>>

RevFailed == stage = "asking" /\ running \in Failing /\ Fail

Written == stage = "writing" /\ Succeed(interval[running])

WriteFailed == stage = "writing" /\ Fail

Step ==
  \/ WatchHealth \/ NoMatchingTags \/ FailEarly \/ AskRev \/ SkipRev
  \/ RevResolved \/ RevFailed \/ Written \/ WriteFailed

Hung == stage = "hung"

\* The reconcile waits for something that will not come.
Hang ==
  /\ stage \notin {"idle", "hung"}
  /\ stage' = "hung" /\ busy' = 0
  /\ UNCHANGED <<spec, work, running, memory, steady>>

-----------------------------------------------------------------------------
(* The environment.                                                        *)

Older(a, most) == IF a \in {None, most} THEN a ELSE a + 1

\* Time passes, but an idle worker takes what is due at once.
Tick ==
  /\ \A u \in Updaters : delay[u] # 0
  /\ running = None => Ready = {}
  /\ Hung \/ busy < MaxReconcile
  /\ busy' = IF running = None \/ Hung THEN busy ELSE busy + 1
  /\ delay' = [u \in Updaters |-> IF delay[u] = None THEN None ELSE delay[u] - 1]
  /\ anchor' = [u \in Updaters |-> Older(anchor[u], Cap)]
  /\ revAnchor' = Older(revAnchor, RevStaleAfter + 1)
  /\ UNCHANGED <<spec, queue, low, running, stage, interval, steady>>

\* The objects as an informer may list them.
Listings ==
  {q \in UNION {[1..n -> Updaters] : n \in 0..Cardinality(Updaters)} :
     Range(q) = Existing /\ IsInjective(q)}

\* A new process has an empty memory and is told of every object.
Restart ==
  /\ queue' \in Listings
  /\ low' = Existing
  /\ delay' = [u \in Updaters |-> None]
  /\ running' = None /\ stage' = "idle" /\ busy' = 0
  /\ anchor' = [u \in Updaters |-> None]
  /\ interval' = [u \in Updaters |-> None]
  /\ revAnchor' = None
  /\ steady' = [u \in Updaters |-> FALSE]
  /\ UNCHANGED spec

\* The process dies.
Crash == Restart

\* The kubelet kills a process whose /healthz fails.
Kill == (AllStale \/ RevStale) /\ Restart

Next ==
  \/ \E u \in Updaters : Ripen(u) \/ Write(u) \/ Begin(u)
  \/ Step \/ Hang
  \/ Tick \/ Crash \/ Kill

\* No age or delay is left that a tick would change.
Settled ==
  /\ running = None \/ Hung
  /\ \A u \in Updaters : delay[u] = None /\ anchor[u] \in {None, Cap}
  /\ revAnchor \in {None, RevStaleAfter + 1}

\* The queue, the worker and the kubelet go on, and time passes while it makes
\* a difference: no infinity of steps happens at one instant.
Fairness ==
  /\ \A u \in Updaters : WF_vars(Ripen(u)) /\ WF_vars(Begin(u))
  /\ WF_vars(Step) /\ WF_vars(Kill)
  /\ []<>Settled \/ []<><<Tick>>_vars

Spec == Init /\ [][Next]_vars /\ Fairness

-----------------------------------------------------------------------------
(* Properties.                                                             *)

QueueOK ==
  /\ queue \in Seq(Updaters) /\ IsInjective(queue)
  /\ delay \in [Updaters -> Nat \cup {None}] /\ low \subseteq Updaters

WorkerOK ==
  /\ running \in Tracked \cup {None}
  /\ stage \in {"idle", "resolving", "asking", "writing", "hung"}
  /\ stage = "idle" <=> running = None
  /\ busy \in 0..MaxReconcile
  /\ running = None => busy = 0

EntriesOK ==
  /\ anchor \in [Updaters -> 0..Cap \cup {None}]
  /\ spec \in [Updaters -> Nat \cup {None}]
  /\ interval \in [Updaters -> Nat \cup {None}]
  /\ \A u \in Updaters :
       /\ {spec[u], interval[u]} \subseteq Intervals[u] \cup {None}
       /\ u \in Tracked <=> interval[u] # None
  /\ revAnchor \in 0..(RevStaleAfter + 1) \cup {None}
  /\ steady \in [Updaters -> BOOLEAN]

\* Every variable has its type, no key is queued twice, what is reconciled
\* is tracked, and an entry has an interval.
TypeOK == QueueOK /\ WorkerOK /\ EntriesOK

\* The updaters whose progress counts are those that exist, each with its
\* present interval, except for those the worker has still to hear about
\* (attempt and forget: nothing deleted keeps the aggregate check red or
\* green, and nothing that exists is left out of it).
TracksExisting ==
  \A u \in Updaters :
    \/ u \in Ready
    \/ interval[u] = spec[u] /\ (u \in Tracked <=> u \in Existing)

\* Waiting for its turn makes no updater stale, unless it is overtaken: while
\* the worker is not stuck, an updater whose reconciles succeed is stale at
\* most during the very reconcile that has found its interval shortened
\* (staleWindow: the windows leave room for interval and queue).
StaleMeansFailing ==
  \A u \in Tracked :
    Stale(u) /\ steady[u] /\ ~Hung => u = running

\* A reconcile that never returns ends with the process
\* (ReconcileProgressHealthz: the systemic freeze).
HungIsRestarted == Hung ~> ~Hung

\* Once a resolution has been tried, resolutions go on to succeed or the
\* process is restarted (revResolutionHealth: no outage pins the targets).
OutageIsRestarted == []<><<RevResolved>>_vars \/ []<>(revAnchor = None)
=============================================================================
