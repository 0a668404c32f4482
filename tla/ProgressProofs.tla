--------------------------- MODULE ProgressProofs ---------------------------
(***************************************************************************)
(* Proofs about Progress: any updaters, intervals, windows and delays.     *)
(*                                                                         *)
(* Types and tracking go by what the operations of the queue do to the set *)
(* of ready keys; staleness by what they do to the order of the queue.     *)
(***************************************************************************)
EXTENDS Progress, FiniteSetTheorems, TLAPS

(* Without(u) is the queue without u, in which no key is repeated (Add,    *)
(* Ripen and Begin take a key from its place).                             *)
LEMMA WithoutKey ==
  ASSUME queue \in Seq(Updaters), IsInjective(queue), NEW u
  PROVE  /\ Without(u) \in Seq(Updaters) /\ IsInjective(Without(u))
         /\ Range(Without(u)) = Range(queue) \ {u}
<1>1. Len(queue) \in Nat /\ DOMAIN queue = 1..Len(queue)
  OBVIOUS
<1>2. CASE u \notin Range(queue)
  <2>1. Without(u) = queue
    BY <1>2 DEF Without
  <2> QED
    BY <1>2, <2>1
<1>3. CASE u \in Range(queue)
  <2> DEFINE i == CHOOSE k \in DOMAIN queue : queue[k] = u
             n == Len(queue) - 1
             w == [j \in 1..n |-> IF j < i THEN queue[j] ELSE queue[j + 1]]
  <2>1. Without(u) = w
    BY <1>3 DEF Without
  <2>2. i \in 1..Len(queue) /\ queue[i] = u
    <3>1. \E k \in DOMAIN queue : queue[k] = u
      BY <1>3 DEF Range
    <3> QED
      BY <1>1, <3>1
  <2> HIDE DEF i
  <2>3. n \in Nat /\ \A j \in 1..n : j \in 1..Len(queue) /\ j + 1 \in 1..Len(queue)
    BY <1>1, <2>2
  <2>4. \A j \in 1..Len(queue) : queue[j] \in Updaters
    OBVIOUS
  <2>5. w \in Seq(Updaters) /\ DOMAIN w = 1..n
    <3>1. \A j \in 1..n : w[j] \in Updaters
      BY <2>3, <2>4
    <3>2. w \in [1..n -> Updaters]
      BY <3>1
    <3> QED
      BY <2>3, <3>2
  <2>6. \A j, k \in 1..Len(queue) : queue[j] = queue[k] => j = k
    BY <1>1 DEF IsInjective
  <2>7. \A j \in 1..n : w[j] = queue[IF j < i THEN j ELSE j + 1]
    OBVIOUS
  <2>8. IsInjective(w)
    <3>1. ASSUME NEW j \in 1..n, NEW k \in 1..n, w[j] = w[k] PROVE j = k
      <4>1. (IF j < i THEN j ELSE j + 1) = (IF k < i THEN k ELSE k + 1)
        BY <2>3, <2>6, <2>7, <3>1
      <4> QED
        BY <2>2, <4>1
    <3> QED
      BY <2>5, <3>1 DEF IsInjective
  <2>9. Range(w) \subseteq Range(queue) \ {u}
    <3>1. ASSUME NEW j \in 1..n PROVE w[j] \in Range(queue) /\ w[j] # u
      <4>1. PICK k \in 1..Len(queue) : w[j] = queue[k] /\ k # i
        BY <2>2, <2>3, <2>7
      <4> QED
        BY <1>1, <2>2, <2>6, <4>1 DEF Range
    <3> QED
      BY <2>5, <3>1 DEF Range
  <2>10. Range(queue) \ {u} \subseteq Range(w)
    <3>1. ASSUME NEW k \in 1..Len(queue), queue[k] # u PROVE queue[k] \in Range(w)
      <4>1. k # i
        BY <2>2, <3>1
      <4>2. CASE k < i
        <5>1. k \in 1..n /\ w[k] = queue[k]
          BY <1>1, <2>2, <4>2
        <5> QED
          BY <2>5, <5>1 DEF Range
      <4>3. CASE k > i
        <5>1. k - 1 \in 1..n /\ ~(k - 1 < i) /\ (k - 1) + 1 = k
          BY <1>1, <2>2, <4>3
        <5>2. w[k - 1] = queue[k]
          BY <2>7, <5>1
        <5> QED
          BY <2>5, <5>1, <5>2 DEF Range
      <4> QED
        BY <1>1, <2>2, <4>1, <4>2, <4>3
    <3> QED
      BY <1>1, <3>1 DEF Range
  <2> QED
    BY <2>1, <2>5, <2>8, <2>9, <2>10
<1> QED
  BY <1>2, <1>3

(* A key added at the end is the only new element (Add, and Done for a key *)
(* added during its reconcile).                                            *)
LEMMA AppendToQueue ==
  ASSUME NEW q \in Seq(Updaters), NEW u \in Updaters
  PROVE  /\ Append(q, u) \in Seq(Updaters)
         /\ Range(Append(q, u)) = Range(q) \cup {u}
         /\ IsInjective(q) /\ u \notin Range(q) => IsInjective(Append(q, u))
<1>1. Len(q) \in Nat /\ DOMAIN q = 1..Len(q)
  OBVIOUS
<1>2. /\ Append(q, u) \in Seq(Updaters)
      /\ DOMAIN Append(q, u) = 1..(Len(q) + 1)
      /\ \A i \in 1..Len(q) : Append(q, u)[i] = q[i]
      /\ Append(q, u)[Len(q) + 1] = u
  OBVIOUS
<1>3. 1..(Len(q) + 1) = 1..Len(q) \cup {Len(q) + 1}
  BY <1>1
<1>4. Range(Append(q, u)) = Range(q) \cup {u}
  BY <1>1, <1>2, <1>3, Zenon DEF Range
<1>5. ASSUME IsInjective(q), u \notin Range(q)
      PROVE  IsInjective(Append(q, u))
  <2>1. \A i, j \in 1..Len(q) : q[i] = q[j] => i = j
    BY <1>1, <1>5 DEF IsInjective
  <2>2. \A i \in 1..Len(q) : q[i] # u
    BY <1>1, <1>5 DEF Range
  <2> QED
    BY <2>1, <2>2, <1>2, <1>3 DEF IsInjective
<1> QED
  BY <1>2, <1>4, <1>5

-----------------------------------------------------------------------------
(* What the operations of the work queue do.                               *)

(* A key put at the end: a queue of the same keys and that one.            *)
LEMMA MovedToEnd ==
  ASSUME TypeOK, NEW u \in Updaters, queue' = Append(Without(u), u)
  PROVE  /\ queue' \in Seq(Updaters) /\ IsInjective(queue')
         /\ Range(queue') = Range(queue) \cup {u}
<1>1. queue \in Seq(Updaters) /\ IsInjective(queue)
  BY DEF TypeOK, QueueOK
<1>2. /\ Without(u) \in Seq(Updaters) /\ IsInjective(Without(u))
      /\ Range(Without(u)) = Range(queue) \ {u}
  BY <1>1, WithoutKey, Zenon
<1>3. u \notin Range(Without(u))
  BY <1>2
<1>4. /\ Append(Without(u), u) \in Seq(Updaters)
      /\ Range(Append(Without(u), u)) = Range(Without(u)) \cup {u}
      /\ IsInjective(Append(Without(u), u))
  BY <1>2, <1>3, AppendToQueue, Zenon
<1>5. queue' \in Seq(Updaters) /\ IsInjective(queue')
      /\ Range(queue') = Range(Without(u)) \cup {u}
  BY <1>4
<1> QED
  BY <1>2, <1>5

(* Add makes its key ready, and leaves the others as they are.             *)
LEMMA AddMakesReady ==
  ASSUME TypeOK, NEW u \in Updaters, Add(u)
  PROVE  /\ QueueOK'
         /\ u \in Ready'
         /\ Ready \subseteq Ready'
<1>1. /\ queue \in Seq(Updaters) /\ IsInjective(queue)
      /\ delay \in [Updaters -> Nat \cup {None}] /\ low \subseteq Updaters
  BY DEF TypeOK, QueueOK
<1>2. delay' = [delay EXCEPT ![u] = None] /\ low' = low \ {u}
  BY DEF Add
<1>3. /\ queue' \in Seq(Updaters) /\ IsInjective(queue')
      /\ Range(queue') = Range(queue) \cup {u}
  <2>1. CASE u \in Range(queue) /\ u \notin low
    <3>1. queue' = queue
      BY <2>1 DEF Add
    <3> QED
      BY <1>1, <2>1, <3>1
  <2>2. CASE ~(u \in Range(queue) /\ u \notin low)
    <3>1. queue' = Append(Without(u), u)
      BY <2>2 DEF Add
    <3> QED
      BY <3>1, MovedToEnd
  <2> QED
    BY <2>1, <2>2
<1>4. QueueOK'
  BY <1>1, <1>2, <1>3 DEF QueueOK
<1>5. Range(queue) \subseteq Updaters
  BY <1>1 DEF Range
<1> QED
  BY <1>1, <1>2, <1>3, <1>4, <1>5 DEF Ready

(* So does the end of a delay.                                             *)
LEMMA RipenMakesReady ==
  ASSUME TypeOK, NEW u \in Updaters, Ripen(u)
  PROVE  QueueOK' /\ u \in Ready' /\ Ready \subseteq Ready'
<1>1. /\ delay' = [delay EXCEPT ![u] = None] /\ low' = low
      /\ queue' = Append(Without(u), u)
  BY DEF Ripen
<1>2. /\ queue' \in Seq(Updaters) /\ IsInjective(queue')
      /\ Range(queue') = Range(queue) \cup {u}
  BY <1>1, MovedToEnd
<1>3. QueueOK'
  BY <1>1, <1>2 DEF TypeOK, QueueOK
<1>4. Range(queue) \subseteq Updaters
  BY DEF TypeOK, QueueOK, Range
<1> QED
  BY <1>1, <1>2, <1>3, <1>4 DEF Ready, TypeOK, QueueOK

(* A delayed addition leaves the ready keys ready.                         *)
LEMMA AddAfterKeepsReady ==
  ASSUME TypeOK, running \in Updaters, NEW d \in Nat, AddAfter(d)
  PROVE  QueueOK' /\ Ready \subseteq Ready'
<1>1. /\ queue \in Seq(Updaters) /\ IsInjective(queue) /\ low' = low
      /\ delay \in [Updaters -> Nat \cup {None}] /\ low \subseteq Updaters
  BY DEF TypeOK, QueueOK, AddAfter
<1>2. CASE running \in Range(queue)
  <2>1. queue' = queue /\ delay' = delay
    BY <1>2 DEF AddAfter
  <2> QED
    BY <1>1, <2>1 DEF QueueOK, Ready
<1>3. CASE running \notin Range(queue)
  <2>1. /\ queue' = Append(queue, running)
        /\ delay' = [delay EXCEPT ![running] = d]
    BY <1>3 DEF AddAfter
  <2>2. /\ Append(queue, running) \in Seq(Updaters)
        /\ Range(Append(queue, running)) = Range(queue) \cup {running}
        /\ IsInjective(Append(queue, running))
    BY <1>1, <1>3, AppendToQueue, Zenon
  <2>3. /\ queue' \in Seq(Updaters) /\ IsInjective(queue')
        /\ Range(queue') = Range(queue) \cup {running}
    BY <2>1, <2>2
  <2>4. QueueOK'
    BY <1>1, <2>1, <2>3 DEF QueueOK
  <2>5. Range(queue) \subseteq Updaters
    BY <1>1 DEF Range
  <2> QED
    BY <1>1, <1>3, <2>1, <2>3, <2>4, <2>5 DEF Ready
<1> QED
  BY <1>2, <1>3

(* A listing is a queue of all existing updaters.                          *)
LEMMA ListingIsQueue ==
  ASSUME NEW q \in Listings
  PROVE  q \in Seq(Updaters) /\ IsInjective(q) /\ Range(q) = Existing
<1>1. PICK n \in 0..Cardinality(Updaters) : q \in [1..n -> Updaters]
  BY DEF Listings
<1>2. n \in Nat
  BY <1>1
<1>3. q \in Seq(Updaters)
  BY <1>1, <1>2
<1> QED
  BY <1>3 DEF Listings

-----------------------------------------------------------------------------
(* Type correctness.                                                       *)

(* A reconcile that has begun is of a tracked updater with an interval.    *)
LEMMA RunningIsTracked ==
  ASSUME TypeOK, running # None
  PROVE  /\ running \in Updaters /\ anchor[running] # None
         /\ interval[running] \in Nat
BY DEF TypeOK, WorkerOK, EntriesOK, Tracked

(* Succeed keeps the types.                                                *)
LEMMA SucceedKeepsTypes ==
  ASSUME TypeOK, running # None, NEW d \in Nat, Succeed(d)
  PROVE  TypeOK'
<1>1. running \in Updaters /\ anchor[running] # None /\ interval[running] \in Nat
  BY RunningIsTracked
<1>2. Done /\ AddAfter(d)
  BY DEF Succeed
<1>3. QueueOK'
  BY <1>1, <1>2, AddAfterKeepsReady
<1>4. WorkerOK'
  BY <1>1, <1>2, DelayAssumption DEF Done, WorkerOK
<1>5. EntriesOK'
  <2>1. /\ anchor' = [anchor EXCEPT ![running] = 0]
        /\ steady' = [steady EXCEPT ![running] = TRUE]
        /\ spec' = spec /\ interval' = interval /\ revAnchor' = revAnchor
    BY DEF Succeed
  <2>2. 0 \in 0..Cap /\ 0 # None
    BY WindowAssumption DEF None
  <2>3. \A u \in Updaters : anchor'[u] # None <=> anchor[u] # None
    BY <1>1, <2>1, <2>2 DEF TypeOK, EntriesOK
  <2> QED
    BY <1>1, <2>1, <2>2, <2>3 DEF TypeOK, EntriesOK, Tracked
<1> QED
  BY <1>3, <1>4, <1>5 DEF TypeOK

(* Fail keeps the types.                                                   *)
LEMMA FailKeepsTypes ==
  ASSUME TypeOK, running # None, Fail
  PROVE  TypeOK'
<1>1. running \in Updaters /\ anchor[running] # None /\ interval[running] \in Nat
  BY RunningIsTracked
<1>2. PICK d \in 1..MaxBackoff \cup {Poll, interval[running]} : AddAfter(d)
  BY DEF Fail
<1>3. d \in Nat
  BY <1>1, <1>2, DelayAssumption
<1>4. Done
  BY DEF Fail
<1>5. QueueOK'
  BY <1>1, <1>2, <1>3, AddAfterKeepsReady
<1>6. WorkerOK'
  BY <1>4, DelayAssumption DEF Done, WorkerOK
<1>7. EntriesOK'
  BY <1>1 DEF Fail, memory, TypeOK, EntriesOK, Tracked
<1> QED
  BY <1>5, <1>6, <1>7 DEF TypeOK

(* So does every way a reconcile goes on.                                  *)
LEMMA StepKeepsTypes ==
  ASSUME TypeOK, Step
  PROVE  TypeOK'
<1>1. running # None
  BY DEF Step, WatchHealth, NoMatchingTags, FailEarly, AskRev, SkipRev,
         RevResolved, RevFailed, Written, WriteFailed, TypeOK, WorkerOK
<1>2. interval[running] \in Nat /\ Poll \in Nat
  BY <1>1, RunningIsTracked, DelayAssumption
<1>3. CASE WatchHealth \/ NoMatchingTags \/ Written
  BY <1>1, <1>2, <1>3, SucceedKeepsTypes DEF WatchHealth, NoMatchingTags, Written
<1>4. CASE FailEarly \/ RevFailed \/ WriteFailed
  BY <1>1, <1>4, FailKeepsTypes DEF FailEarly, RevFailed, WriteFailed
<1>5. CASE AskRev
  <2>1. revAnchor' \in 0..(RevStaleAfter + 1) \cup {None}
    BY <1>5, WindowAssumption DEF AskRev, FirstRevAttempt, TypeOK, EntriesOK
  <2> QED
    BY <1>5, <2>1
    DEF AskRev, work, TypeOK, QueueOK, WorkerOK, EntriesOK, Tracked
<1>6. CASE SkipRev
  BY <1>6 DEF SkipRev, work, memory, TypeOK, QueueOK, WorkerOK, EntriesOK, Tracked
<1>7. CASE RevResolved
  BY <1>7, WindowAssumption
  DEF RevResolved, work, TypeOK, QueueOK, WorkerOK, EntriesOK, Tracked
<1> QED
  BY <1>3, <1>4, <1>5, <1>6, <1>7 DEF Step

(* Begin keeps the types.                                                  *)
LEMMA BeginKeepsTypes ==
  ASSUME TypeOK, NEW u \in Updaters, Begin(u)
  PROVE  TypeOK'
<1>1. /\ queue \in Seq(Updaters) /\ IsInjective(queue)
      /\ running = None /\ busy = 0
  BY DEF Begin, TypeOK, QueueOK, WorkerOK
<1>2. Without(u) \in Seq(Updaters) /\ IsInjective(Without(u))
  BY <1>1, WithoutKey, Zenon
<1>3. /\ queue' = Without(u) /\ delay' = delay /\ low' = low
      /\ spec' = spec /\ revAnchor' = revAnchor /\ busy' = busy
      /\ steady' \in [Updaters -> BOOLEAN]
  BY DEF Begin, worker, TypeOK, EntriesOK
<1>4. QueueOK'
  BY <1>2, <1>3 DEF TypeOK, QueueOK
<1>5. CASE spec[u] = None
  <2>1. Forget(u) /\ UNCHANGED worker
    BY <1>5 DEF Begin
  <2>2. EntriesOK'
    BY <1>3, <1>5, <2>1 DEF Forget, TypeOK, EntriesOK, Tracked
  <2>3. WorkerOK'
    BY <1>1, <1>3, <2>1 DEF worker, TypeOK, WorkerOK
  <2> QED
    BY <1>4, <2>2, <2>3 DEF TypeOK
<1>6. CASE spec[u] # None
  <2>1. Attempt(u) /\ running' = u /\ stage' = "resolving"
    BY <1>6 DEF Begin
  <2>2. /\ anchor' = [anchor EXCEPT ![u] = IF anchor[u] = None THEN 0 ELSE anchor[u]]
        /\ interval' = [interval EXCEPT ![u] = spec[u]]
    BY <2>1 DEF Attempt
  <2>3. 0 \in 0..Cap /\ 0 # None
    BY WindowAssumption DEF None
  <2>4. anchor'[u] # None
    BY <2>2, <2>3 DEF TypeOK, EntriesOK
  <2>5. EntriesOK'
    <3>1. /\ anchor' \in [Updaters -> 0..Cap \cup {None}]
          /\ interval' \in [Updaters -> Nat \cup {None}]
          /\ spec' \in [Updaters -> Nat \cup {None}]
          /\ revAnchor' \in 0..(RevStaleAfter + 1) \cup {None}
          /\ steady' \in [Updaters -> BOOLEAN]
      BY <1>2, <1>3, <2>1, <2>2, <2>3 DEF TypeOK, EntriesOK
    <3>2. ASSUME NEW v \in Updaters
          PROVE  /\ {spec'[v], interval'[v]} \subseteq Intervals[v] \cup {None}
                 /\ anchor'[v] # None <=> interval'[v] # None
      <4>1. CASE v = u
        BY <1>2, <1>3, <1>6, <2>2, <2>4, <4>1 DEF TypeOK, EntriesOK
      <4>2. CASE v # u
        BY <1>2, <1>3, <2>2, <4>2 DEF TypeOK, EntriesOK, Tracked
      <4> QED
        BY <4>1, <4>2
    <3> QED
      BY <3>1, <3>2 DEF EntriesOK, Tracked
  <2>6. WorkerOK'
    BY <1>1, <1>2, <1>3, <2>1, <2>4, KeyAssumption DEF TypeOK, WorkerOK, Tracked
  <2> QED
    BY <1>4, <2>5, <2>6 DEF TypeOK
<1> QED
  BY <1>5, <1>6

(* The environment keeps the types.                                        *)
LEMMA EnvironmentKeepsTypes ==
  ASSUME TypeOK,
         (\E u \in Updaters : Ripen(u) \/ Write(u)) \/ Hang \/ Tick \/ Restart
  PROVE  TypeOK'
<1>1. ASSUME NEW u \in Updaters, Ripen(u) PROVE TypeOK'
  <2>1. UNCHANGED <<spec, worker, memory, steady>>
    BY <1>1 DEF Ripen
  <2>2. QueueOK'
    BY <1>1, RipenMakesReady
  <2>3. WorkerOK' /\ EntriesOK'
    BY <2>1 DEF TypeOK, WorkerOK, EntriesOK, worker, memory, Tracked
  <2> QED
    BY <2>2, <2>3 DEF TypeOK
<1>2. ASSUME NEW u \in Updaters, Write(u) PROVE TypeOK'
  <2>1. Add(u) /\ UNCHANGED <<worker, memory, steady>>
    BY <1>2 DEF Write
  <2>2. QueueOK'
    BY <2>1, AddMakesReady
  <2>3. WorkerOK'
    BY <2>1 DEF TypeOK, WorkerOK, worker, memory, Tracked
  <2>4. EntriesOK'
    <3>1. PICK i \in Intervals[u] \cup {None} : spec' = [spec EXCEPT ![u] = i]
      BY <1>2 DEF Write
    <3>2. i \in Nat \cup {None}
      BY <3>1, DelayAssumption
    <3> QED
      BY <2>1, <3>1, <3>2 DEF TypeOK, EntriesOK, memory, Tracked
  <2> QED
    BY <2>2, <2>3, <2>4 DEF TypeOK
<1>3. CASE Hang
  <2>1. /\ stage \notin {"idle", "hung"} /\ stage' = "hung" /\ busy' = 0
        /\ UNCHANGED <<spec, queue, delay, low, running, anchor, interval,
                       revAnchor, steady>>
    BY <1>3 DEF Hang, work, memory
  <2>2. QueueOK' /\ EntriesOK'
    BY <2>1 DEF TypeOK, QueueOK, EntriesOK, Tracked
  <2>3. WorkerOK'
    BY <2>1, DelayAssumption DEF TypeOK, WorkerOK, Tracked
  <2> QED
    BY <2>2, <2>3 DEF TypeOK
<1>4. CASE Tick
  <2>1. /\ \A u \in Updaters : delay[u] # 0
        /\ delay' = [u \in Updaters |-> IF delay[u] = None THEN None ELSE delay[u] - 1]
        /\ anchor' = [u \in Updaters |-> Older(anchor[u], Cap)]
        /\ revAnchor' = Older(revAnchor, RevStaleAfter + 1)
        /\ running = None \/ Hung => busy' = busy
        /\ ~(running = None \/ Hung) => busy' = busy + 1 /\ busy < MaxReconcile
        /\ UNCHANGED <<spec, queue, low, running, stage, interval, steady>>
    BY <1>4 DEF Tick
  <2>2. \A most \in Nat : \A a \in 0..most \cup {None} :
          /\ Older(a, most) \in 0..most \cup {None}
          /\ Older(a, most) = None <=> a = None
    BY DEF Older, None
  <2>3. anchor' \in [Updaters -> 0..Cap \cup {None}]
        /\ \A u \in Updaters : anchor'[u] = None <=> anchor[u] = None
    BY <2>1, <2>2, WindowAssumption DEF TypeOK, EntriesOK
  <2>4. revAnchor' \in 0..(RevStaleAfter + 1) \cup {None}
    <3>1. RevStaleAfter + 1 \in Nat
      BY WindowAssumption
    <3> QED
      BY <2>1, <2>2, <3>1 DEF TypeOK, EntriesOK
  <2>5. QueueOK'
    <3>1. ASSUME NEW u \in Updaters
          PROVE  (IF delay[u] = None THEN None ELSE delay[u] - 1) \in Nat \cup {None}
      BY <2>1 DEF TypeOK, QueueOK
    <3>2. delay' \in [Updaters -> Nat \cup {None}]
      BY <2>1, <3>1
    <3> QED
      BY <2>1, <3>2 DEF TypeOK, QueueOK
  <2>6. WorkerOK'
    <3>1. busy' \in 0..MaxReconcile /\ (running = None => busy' = 0)
      BY <2>1, DelayAssumption DEF TypeOK, WorkerOK
    <3> QED
      BY <2>1, <2>3, <3>1 DEF TypeOK, WorkerOK, Tracked
  <2>7. EntriesOK'
    BY <2>1, <2>3, <2>4 DEF TypeOK, EntriesOK, Tracked
  <2> QED
    BY <2>5, <2>6, <2>7 DEF TypeOK
<1>5. CASE Restart
  <2>1. queue' \in Seq(Updaters) /\ IsInjective(queue')
    BY <1>5, ListingIsQueue DEF Restart
  <2>2. QueueOK'
    BY <1>5, <2>1 DEF Restart, QueueOK, Existing
  <2>3. WorkerOK'
    BY <1>5, DelayAssumption DEF Restart, WorkerOK
  <2>4. EntriesOK'
    BY <1>5 DEF Restart, TypeOK, EntriesOK, Tracked
  <2> QED
    BY <2>2, <2>3, <2>4 DEF TypeOK
<1> QED
  BY <1>1, <1>2, <1>3, <1>4, <1>5

(* Every state of the failure detection has its types, the queue holds no  *)
(* key twice, and what is reconciled is tracked.                           *)
THEOREM TypeCorrect == Spec => []TypeOK
<1>1. Init => TypeOK
  <2> SUFFICES ASSUME Init PROVE TypeOK
    OBVIOUS
  <2>1. QueueOK
    <3>1. /\ queue = << >> /\ low = {}
          /\ delay = [u \in Updaters |-> None]
      BY DEF Init
    <3>2. queue \in Seq(Updaters) /\ DOMAIN queue = {}
      BY <3>1
    <3> QED
      BY <3>1, <3>2 DEF QueueOK, IsInjective
  <2>2. WorkerOK
    BY DelayAssumption DEF Init, WorkerOK
  <2>3. EntriesOK
    BY DEF Init, EntriesOK, Tracked
  <2> QED
    BY <2>1, <2>2, <2>3 DEF TypeOK
<1>2. TypeOK /\ [Next]_vars => TypeOK'
  <2> SUFFICES ASSUME TypeOK, [Next]_vars PROVE TypeOK'
    OBVIOUS
  <2>1. CASE (\E u \in Updaters : Ripen(u) \/ Write(u)) \/ Hang \/ Tick \/ Restart
    BY <2>1, EnvironmentKeepsTypes
  <2>2. CASE \E u \in Updaters : Begin(u)
    BY <2>2, BeginKeepsTypes
  <2>3. CASE Step
    BY <2>3, StepKeepsTypes
  <2>4. CASE UNCHANGED vars
    BY <2>4 DEF vars, work, worker, memory, TypeOK, QueueOK, WorkerOK, EntriesOK, Tracked
  <2> QED
    BY <2>1, <2>2, <2>3, <2>4 DEF Next, Crash, Kill
<1> QED
  BY <1>1, <1>2, PTL DEF Spec

-----------------------------------------------------------------------------
(* What is tracked is what exists, but for the pending keys.               *)

Pending(u) == u \in Ready

Heard(u) == interval[u] = spec[u] /\ (u \in Tracked <=> u \in Existing)

(* A step that keeps the pending keys, the objects and the entries of the  *)
(* others keeps the invariant.                                             *)
LEMMA OthersAreTracked ==
  ASSUME TracksExisting, NEW v \in Updaters,
         Pending(v) => Pending(v)',
         spec'[v] = spec[v], interval'[v] = interval[v],
         anchor'[v] = None <=> anchor[v] = None
  PROVE  Pending(v)' \/ Heard(v)'
BY DEF TracksExisting, Pending, Heard, Tracked, Existing

(* An event, or the end of a delay, puts its key among the pending ones.   *)
LEMMA EventKeepsTracking ==
  ASSUME TypeOK, TracksExisting, NEW u \in Updaters, Ripen(u) \/ Write(u)
  PROVE  TracksExisting'
<1>1. UNCHANGED memory
  BY DEF Ripen, Write
<1>2. \A v \in Updaters \ {u} : spec'[v] = spec[v]
  BY DEF Ripen, Write, TypeOK, EntriesOK
<1>3. Pending(u)' /\ \A v \in Updaters : Pending(v) => Pending(v)'
  <2>1. CASE Ripen(u)
    BY <2>1, RipenMakesReady DEF Pending
  <2>2. CASE Write(u)
    <3>1. Add(u)
      BY <2>2 DEF Write
    <3> QED
      BY <3>1, AddMakesReady DEF Pending
  <2> QED
    BY <2>1, <2>2
<1>4. ASSUME NEW v \in Updaters PROVE Pending(v)' \/ Heard(v)'
  <2>1. CASE v = u
    BY <1>3, <2>1
  <2>2. CASE v # u
    BY <1>1, <1>2, <1>3, <2>2, OthersAreTracked DEF memory
  <2> QED
    BY <2>1, <2>2
<1> QED
  BY <1>4 DEF TracksExisting, Pending, Heard

(* Begin brings the entry of its key up to date.                           *)
LEMMA BeginKeepsTracking ==
  ASSUME TypeOK, TracksExisting, NEW u \in Updaters, Begin(u)
  PROVE  TracksExisting'
<1>1. /\ queue' = Without(u) /\ delay' = delay /\ spec' = spec
  BY DEF Begin
<1>2. Range(queue') = Range(queue) \ {u}
  <2>1. queue \in Seq(Updaters) /\ IsInjective(queue)
    BY DEF TypeOK, QueueOK
  <2>2. Range(Without(u)) = Range(queue) \ {u}
    BY <2>1, WithoutKey, Zenon
  <2> QED
    BY <1>1, <2>2
<1>3. /\ \A v \in Updaters \ {u} : /\ interval'[v] = interval[v]
                                   /\ anchor'[v] = anchor[v]
      /\ interval'[u] = spec[u]
      /\ anchor'[u] = None <=> spec[u] = None
  <2>1. CASE spec[u] = None
    <3>1. Forget(u)
      BY <2>1 DEF Begin
    <3> QED
      BY <2>1, <3>1 DEF Forget, TypeOK, EntriesOK
  <2>2. CASE spec[u] # None
    <3>1. Attempt(u)
      BY <2>2 DEF Begin
    <3>2. 0 # None
      BY DEF None
    <3> QED
      BY <2>2, <3>1, <3>2 DEF Attempt, TypeOK, EntriesOK
  <2> QED
    BY <2>1, <2>2
<1>4. ASSUME NEW v \in Updaters PROVE Pending(v)' \/ Heard(v)'
  <2>1. CASE v = u
    BY <1>1, <1>3, <2>1 DEF Heard, Tracked, Existing
  <2>2. CASE v # u
    <3>1. Pending(v) => Pending(v)'
      BY <1>1, <1>2, <2>2 DEF Pending, Ready
    <3> QED
      BY <1>1, <1>3, <2>2, <3>1, OthersAreTracked
  <2> QED
    BY <2>1, <2>2
<1> QED
  BY <1>4 DEF TracksExisting, Pending, Heard

(* A step that ends a reconcile, well or not.                              *)
LEMMA EndKeepsTracking ==
  ASSUME TypeOK, TracksExisting, running # None, NEW d \in Nat, AddAfter(d),
         spec' = spec, interval' = interval,
         anchor' \in {anchor, [anchor EXCEPT ![running] = 0]}
  PROVE  TracksExisting'
<1>1. running \in Updaters /\ anchor[running] # None
  BY RunningIsTracked
<1>2. 0 # None
  BY DEF None
<1>3. ASSUME NEW v \in Updaters PROVE Pending(v)' \/ Heard(v)'
  <2>1. Pending(v) => Pending(v)'
    BY <1>1, AddAfterKeepsReady DEF Pending
  <2>2. anchor'[v] = None <=> anchor[v] = None
    BY <1>1, <1>2 DEF TypeOK, EntriesOK
  <2> QED
    BY <2>1, <2>2, OthersAreTracked
<1> QED
  BY <1>3 DEF TracksExisting, Pending, Heard

(* A reconcile goes on.                                                    *)
LEMMA StepKeepsTracking ==
  ASSUME TypeOK, TracksExisting, Step
  PROVE  TracksExisting'
<1>1. running # None
  BY DEF Step, WatchHealth, NoMatchingTags, FailEarly, AskRev, SkipRev,
         RevResolved, RevFailed, Written, WriteFailed, TypeOK, WorkerOK
<1>2. CASE WatchHealth \/ NoMatchingTags \/ Written
  <2>1. PICK d \in {Poll, interval[running]} : Succeed(d)
    BY <1>2 DEF WatchHealth, NoMatchingTags, Written
  <2>2. /\ AddAfter(d) /\ spec' = spec /\ interval' = interval
        /\ anchor' = [anchor EXCEPT ![running] = 0]
    BY <2>1 DEF Succeed
  <2>3. d \in Nat
    BY <1>1, <2>1, RunningIsTracked, DelayAssumption
  <2> QED
    BY <1>1, <2>2, <2>3, EndKeepsTracking
<1>3. CASE FailEarly \/ RevFailed \/ WriteFailed
  <2>1. Fail
    BY <1>3 DEF FailEarly, RevFailed, WriteFailed
  <2>2. /\ \E d \in 1..MaxBackoff \cup {Poll, interval[running]} : AddAfter(d)
        /\ spec' = spec /\ interval' = interval /\ anchor' = anchor
    BY <2>1 DEF Fail, memory
  <2>3. \A d \in 1..MaxBackoff \cup {Poll, interval[running]} : d \in Nat
    BY <1>1, RunningIsTracked, DelayAssumption
  <2> QED
    BY <1>1, <2>2, <2>3, EndKeepsTracking
<1>4. CASE AskRev \/ SkipRev \/ RevResolved
  <2>1. UNCHANGED <<spec, queue, delay, interval, anchor>>
    BY <1>4 DEF AskRev, SkipRev, RevResolved, work, memory
  <2> QED
    BY <2>1 DEF TracksExisting, Ready, Tracked, Existing
<1> QED
  BY <1>2, <1>3, <1>4 DEF Step

(* A hang, the clock, and a restart, which lists every object.            *)
LEMMA OtherStepsKeepTracking ==
  ASSUME TypeOK, TracksExisting, Hang \/ Tick \/ Restart
  PROVE  TracksExisting'
<1>1. CASE Hang
  BY <1>1 DEF Hang, work, memory, TracksExisting, Ready, Tracked, Existing
<1>2. CASE Tick
  <2>1. \A u \in Updaters : anchor'[u] = None <=> anchor[u] = None
    BY <1>2 DEF Tick, Older, None, TypeOK, EntriesOK
  <2>2. \A u \in Updaters : delay'[u] = None <=> delay[u] = None
    BY <1>2 DEF Tick, None, TypeOK, QueueOK
  <2>3. Range(queue) \subseteq Updaters /\ queue' = queue
    BY <1>2 DEF Tick, TypeOK, QueueOK, Range
  <2>4. Ready' = Ready
    BY <2>2, <2>3 DEF Ready
  <2> QED
    BY <1>2, <2>1, <2>4 DEF Tick, TracksExisting, Tracked, Existing
<1>3. CASE Restart
  <2>1. Range(queue') = Existing /\ spec' = spec
        /\ \A u \in Updaters : interval'[u] = None /\ anchor'[u] = None
    BY <1>3, ListingIsQueue DEF Restart
  <2>2. \A u \in Existing : u \in Updaters /\ delay'[u] = None
    BY <1>3 DEF Restart, Existing
  <2>3. Ready' = Existing
    BY <2>1, <2>2 DEF Ready
  <2> QED
    BY <2>1, <2>3 DEF TracksExisting, Tracked, Existing
<1> QED
  BY <1>1, <1>2, <1>3

(* In every state the updaters whose progress counts are those that exist, *)
(* with their present interval, except for those the worker has still to   *)
(* hear about (attempt and forget).                                        *)
THEOREM CountedIsExisting == Spec => []TracksExisting
<1>1. Init => TracksExisting
  BY DEF Init, TracksExisting, Tracked, Existing
<1>2. TypeOK /\ TracksExisting /\ [Next]_vars => TracksExisting'
  <2> SUFFICES ASSUME TypeOK, TracksExisting, [Next]_vars PROVE TracksExisting'
    OBVIOUS
  <2>1. CASE \E u \in Updaters : Ripen(u) \/ Write(u)
    BY <2>1, EventKeepsTracking
  <2>2. CASE \E u \in Updaters : Begin(u)
    BY <2>2, BeginKeepsTracking
  <2>3. CASE Step
    BY <2>3, StepKeepsTracking
  <2>4. CASE Hang \/ Tick \/ Restart
    BY <2>4, OtherStepsKeepTracking
  <2>5. CASE UNCHANGED vars
    BY <2>5 DEF vars, work, worker, memory, TracksExisting, Ready, Tracked, Existing
  <2> QED
    BY <2>1, <2>2, <2>3, <2>4, <2>5 DEF Next, Crash, Kill
<1> QED
  BY <1>1, <1>2, TypeCorrect, PTL DEF Spec

-----------------------------------------------------------------------------
(* Nobody is stale for waiting.  What is left of an updater's wait, added  *)
(* to the time since its last success, does not grow: a tick takes as much *)
(* from the one as it adds to the other, whatever enters the queue enters  *)
(* behind it, and its own event moves it back at most once.                *)

\* The longest wait of a ready key: two reconciles of every other updater.
LongestWait == (2 * Cardinality(Updaters) - 2) * MaxReconcile

\* The windows leave room for an interval or a poll, and for the queue.
WindowsLeaveRoom ==
  /\ IsFiniteSet(Updaters)
  /\ \A u \in Updaters : \A i \in Intervals[u] :
       i + LongestWait <= Window(i) /\ Poll + LongestWait <= Window(i)

\* The keys in front of u, and those of them that may be taken before it: if u
\* has low priority, the others of low priority, unless u is overtaken.
InFront(q, u) == {v \in Updaters : \E i, j \in DOMAIN q : i < j /\ q[i] = v /\ q[j] = u}
AheadIn(q, lows, u) == InFront(q, u) \cap (IF u \in lows THEN lows ELSE Updaters)
Ahead(u) == AheadIn(queue, low, u)

\* How many reconciles u still has to wait for; one of low priority goes to
\* the end of the queue when an event raises it.
TurnsIn(q, lows, u) ==
  Cardinality(AheadIn(q, lows, u)) + (IF u \in lows THEN Cardinality(Updaters) - 1 ELSE 0)
Turns(u) == TurnsIn(queue, low, u)

\* How long that may take: after the delay, or after what is running now.
Wait(d, runs, spent, turns) ==
  IF d # None THEN d + LongestWait
  ELSE (IF runs = None THEN 0 ELSE MaxReconcile - spent) + MaxReconcile * turns
Remaining(u) == Wait(delay[u], running, busy, Turns(u))

Waiting(u) == u \in Tracked /\ steady[u] /\ u # running

\* u is in the queue, and will have its turn within its window.
InTime(u) == u \in Range(queue) /\ anchor[u] + Remaining(u) <= Window(interval[u])

\* What is running is in the queue for an event only, which has raised it: it
\* is not waited for twice by a key of low priority.
Raised == running # None => running \notin Range(queue) \cap low

WaitInv ==
  /\ Raised
  /\ running # None => delay[running] = None
  /\ ~Hung => \A u \in Updaters : Waiting(u) => InTime(u)

(* To take a key out of the queue does not change the order of the others, *)
(* and to put one at the end puts it in front of nobody.                   *)
LEMMA WithoutKeepsOrder ==
  ASSUME queue \in Seq(Updaters), IsInjective(queue), NEW w, NEW u
  PROVE  InFront(Without(w), u) \subseteq InFront(queue, u) \ {w}
<1>1. Len(queue) \in Nat /\ DOMAIN queue = 1..Len(queue)
  OBVIOUS
<1>2. CASE w \notin Range(queue)
  <2>1. Without(w) = queue
    BY <1>2 DEF Without
  <2> QED
    BY <1>2, <2>1 DEF InFront, Range
<1>3. CASE w \in Range(queue)
  <2> DEFINE k == CHOOSE i \in DOMAIN queue : queue[i] = w
             n == Len(queue) - 1
             q == [j \in 1..n |-> IF j < k THEN queue[j] ELSE queue[j + 1]]
             from(j) == IF j < k THEN j ELSE j + 1
  <2>1. Without(w) = q
    BY <1>3 DEF Without
  <2>2. k \in 1..Len(queue) /\ queue[k] = w
    <3>1. \E i \in DOMAIN queue : queue[i] = w
      BY <1>3 DEF Range
    <3> QED
      BY <1>1, <3>1
  <2> HIDE DEF k
  <2>3. DOMAIN q = 1..n /\ n \in Nat
    BY <1>1, <2>2
  <2>4. \A j \in 1..n : from(j) \in 1..Len(queue) /\ from(j) # k /\ q[j] = queue[from(j)]
    BY <1>1, <2>2
  <2>5. \A i, j \in 1..n : i < j => from(i) < from(j)
    BY <1>1, <2>2
  <2>6. \A i, j \in 1..Len(queue) : queue[i] = queue[j] => i = j
    BY <1>1 DEF IsInjective
  <2> HIDE DEF q, n, from
  <2>7. ASSUME NEW v \in InFront(q, u)
        PROVE  v \in InFront(queue, u) /\ v # w
    <3>1. PICK i, j \in 1..n : i < j /\ q[i] = v /\ q[j] = u
      BY <2>3, <2>7 DEF InFront
    <3>2. from(i) < from(j) /\ queue[from(i)] = v /\ queue[from(j)] = u
      BY <2>4, <2>5, <3>1
    <3>3. from(i) \in 1..Len(queue) /\ from(j) \in 1..Len(queue) /\ from(i) # k
      BY <2>4
    <3>4. v \in Updaters
      BY <2>7 DEF InFront
    <3>5. v # w
      BY <2>2, <2>6, <3>2, <3>3
    <3> QED
      BY <1>1, <3>2, <3>3, <3>4, <3>5 DEF InFront
  <2> QED
    BY <2>1, <2>7
<1> QED
  BY <1>2, <1>3

LEMMA AppendKeepsOrder ==
  ASSUME NEW q \in Seq(Updaters), NEW w \in Updaters, NEW u, u # w
  PROVE  InFront(Append(q, w), u) \subseteq InFront(q, u)
<1>1. Len(q) \in Nat /\ DOMAIN q = 1..Len(q)
  OBVIOUS
<1>2. /\ DOMAIN Append(q, w) = 1..(Len(q) + 1)
      /\ \A i \in 1..Len(q) : Append(q, w)[i] = q[i]
      /\ Append(q, w)[Len(q) + 1] = w
  OBVIOUS
<1>3. ASSUME NEW v \in InFront(Append(q, w), u)
      PROVE  v \in InFront(q, u)
  <2>1. PICK i, j \in 1..(Len(q) + 1) :
          i < j /\ Append(q, w)[i] = v /\ Append(q, w)[j] = u
    BY <1>2, <1>3 DEF InFront
  <2>2. j \in 1..Len(q)
    BY <1>1, <1>2, <2>1
  <2>3. i \in 1..Len(q)
    BY <1>1, <2>1, <2>2
  <2>4. q[i] = v /\ q[j] = u
    BY <1>2, <2>1, <2>2, <2>3
  <2>5. v \in Updaters
    BY <1>3 DEF InFront
  <2> QED
    BY <1>1, <2>1, <2>2, <2>3, <2>4, <2>5 DEF InFront
<1> QED
  BY <1>3

LEMMA FewerAhead ==
  ASSUME NEW u, InFront(queue, u)' \subseteq InFront(queue, u),
         low' \subseteq low, u \in low' <=> u \in low
  PROVE  Ahead(u)' \subseteq Ahead(u)
  BY DEF Ahead, AheadIn

\* Whatever moves to the end of the queue, the others keep their places.
OthersStay(w) ==
  \A u \in Updaters \ {w} :
    /\ Ahead(u)' \subseteq Ahead(u)
    /\ u \in Range(queue) => u \in Range(queue')
    /\ delay'[u] = delay[u]
    /\ u \in low' <=> u \in low

LEMMA MoveKeepsOrder ==
  ASSUME TypeOK, NEW w \in Updaters, NEW u \in Updaters, u # w,
         queue' = Append(Without(w), w)
  PROVE  /\ InFront(queue, u)' \subseteq InFront(queue, u)
         /\ u \in Range(queue) => u \in Range(queue')
<1>1. queue \in Seq(Updaters) /\ IsInjective(queue)
  BY DEF TypeOK, QueueOK
<1>2. Without(w) \in Seq(Updaters)
  BY <1>1, WithoutKey, Zenon
<1>3. InFront(queue', u) \subseteq InFront(Without(w), u)
  BY <1>2, AppendKeepsOrder
<1>4. InFront(Without(w), u) \subseteq InFront(queue, u)
  BY <1>1, WithoutKeepsOrder
<1>5. Range(queue') = Range(queue) \cup {w}
  BY MovedToEnd
<1> QED
  BY <1>3, <1>4, <1>5 DEF InFront

LEMMA RipenKeepsOrder ==
  ASSUME TypeOK, NEW w \in Updaters, Ripen(w)
  PROVE  OthersStay(w)
<1>1. queue' = Append(Without(w), w) /\ low' = low /\ delay' = [delay EXCEPT ![w] = None]
  BY DEF Ripen
<1>2. delay \in [Updaters -> Nat \cup {None}]
  BY DEF TypeOK, QueueOK
<1> QED
  BY <1>1, <1>2, MoveKeepsOrder, FewerAhead DEF OthersStay

LEMMA AddKeepsOrder ==
  ASSUME TypeOK, NEW w \in Updaters, Add(w)
  PROVE  OthersStay(w)
<1>1. delay' = [delay EXCEPT ![w] = None] /\ low' = low \ {w}
  BY DEF Add
<1>2. delay \in [Updaters -> Nat \cup {None}]
  BY DEF TypeOK, QueueOK
<1>3. queue' = queue \/ queue' = Append(Without(w), w)
  BY DEF Add
<1>4. ASSUME NEW u \in Updaters \ {w}
      PROVE  /\ InFront(queue, u)' \subseteq InFront(queue, u)
             /\ u \in Range(queue) => u \in Range(queue')
  BY <1>3, MoveKeepsOrder DEF InFront
<1> QED
  BY <1>1, <1>2, <1>4, FewerAhead DEF OthersStay

LEMMA AddAfterKeepsOrder ==
  ASSUME TypeOK, running \in Updaters, NEW d \in Nat, AddAfter(d)
  PROVE  OthersStay(running)
<1>1. queue \in Seq(Updaters) /\ delay \in [Updaters -> Nat \cup {None}] /\ low' = low
  BY DEF TypeOK, QueueOK, AddAfter
<1>2. CASE UNCHANGED <<queue, delay>>
  BY <1>1, <1>2 DEF OthersStay, Ahead, AheadIn, InFront
<1>3. CASE queue' = Append(queue, running) /\ delay' = [delay EXCEPT ![running] = d]
  <2>1. ASSUME NEW u \in Updaters \ {running}
        PROVE  Ahead(u)' \subseteq Ahead(u)
    <3>1. InFront(queue', u) \subseteq InFront(queue, u)
      BY <1>1, <1>3, AppendKeepsOrder
    <3> QED
      BY <1>1, <3>1, FewerAhead DEF InFront
  <2>2. Range(queue') = Range(queue) \cup {running}
    BY <1>1, <1>3, AppendToQueue
  <2> QED
    BY <1>1, <1>3, <2>1, <2>2 DEF OthersStay
<1> QED
  BY <1>2, <1>3 DEF AddAfter

-----------------------------------------------------------------------------
(* Turns and time.                                                         *)

LEMMA TurnsTakeTime ==
  /\ \A m, r, s \in Nat : r <= s => m * r <= m * s
  /\ \A m, r, s \in Nat : r + 1 <= s => m + m * r <= m * s
  /\ \A m, r \in Nat : m * r \in Nat
<1>1. \A m, r \in Nat : m * r \in Nat
  OBVIOUS
<1>2. \A m, r, s \in Nat : r <= s => m * r <= m * s
  <2>1. SUFFICES ASSUME NEW m \in Nat, NEW r \in Nat, NEW s \in Nat, r <= s
                 PROVE  m * r <= m * s
    OBVIOUS
  <2>2. m * s = m * r + m * (s - r) /\ s - r \in Nat
    BY <2>1
  <2> QED
    BY <1>1, <2>2
<1>3. \A m, r, s \in Nat : r + 1 <= s => m + m * r <= m * s
  <2>1. SUFFICES ASSUME NEW m \in Nat, NEW r \in Nat, NEW s \in Nat, r + 1 <= s
                 PROVE  m + m * r <= m * s
    OBVIOUS
  <2>2. m * (r + 1) = m + m * r /\ m * (r + 1) <= m * s
    BY <1>2, <2>1
  <2> QED
    BY <2>2
<1> QED
  BY <1>1, <1>2, <1>3

LEMMA AheadIsFinite ==
  ASSUME IsFiniteSet(Updaters), NEW q \in Seq(Updaters), IsInjective(q), NEW u \in Updaters,
         NEW lows
  PROVE  /\ AheadIn(q, lows, u) \subseteq Updaters \ {u}
         /\ IsFiniteSet(AheadIn(q, lows, u)) /\ Cardinality(AheadIn(q, lows, u)) \in Nat
         /\ Cardinality(AheadIn(q, lows, u)) <= Cardinality(Updaters) - 1
         /\ Cardinality(Updaters) \in Nat \ {0}
<1>1. AheadIn(q, lows, u) \subseteq Updaters \ {u}
  <2>1. \A i, j \in DOMAIN q : q[i] = q[j] => i = j
    BY DEF IsInjective
  <2>2. ASSUME u \in InFront(q, u)
        PROVE  FALSE
    <3>1. PICK i, j \in DOMAIN q : i < j /\ q[i] = u /\ q[j] = u
      BY <2>2 DEF InFront
    <3>2. i \in Nat /\ j \in Nat /\ i = j
      BY <2>1, <3>1
    <3> QED
      BY <3>1, <3>2
  <2> QED
    BY <2>2 DEF InFront, AheadIn
<1>2. /\ IsFiniteSet(Updaters \ {u})
      /\ Cardinality(Updaters \ {u}) = Cardinality(Updaters) - 1
  BY FS_RemoveElement
<1>3. /\ IsFiniteSet(AheadIn(q, lows, u))
      /\ Cardinality(AheadIn(q, lows, u)) <= Cardinality(Updaters \ {u})
  BY <1>1, <1>2, FS_Subset
<1>4. /\ Cardinality(AheadIn(q, lows, u)) \in Nat /\ Cardinality(Updaters) \in Nat
      /\ Cardinality(Updaters \ {u}) \in Nat
  BY <1>2, <1>3, FS_CardinalityType
<1> QED
  BY <1>1, <1>2, <1>3, <1>4

\* There are at most two turns for every other updater, and one less when one
\* of the others is running: that one is not counted twice.
LEMMA TurnsType ==
  ASSUME IsFiniteSet(Updaters), NEW u \in Updaters,
         NEW q \in Seq(Updaters), IsInjective(q), NEW lows
  PROVE  /\ TurnsIn(q, lows, u) \in Nat
         /\ TurnsIn(q, lows, u) <= 2 * Cardinality(Updaters) - 2
         /\ \A r \in Updaters \ {u} : r \notin Range(q) \cap lows =>
              TurnsIn(q, lows, u) + 1 <= 2 * Cardinality(Updaters) - 2
<1> DEFINE n == Cardinality(Updaters)
           a == Cardinality(AheadIn(q, lows, u))
<1>1. a \in Nat /\ a <= n - 1 /\ n \in Nat \ {0}
  BY AheadIsFinite
<1>2. ASSUME NEW r \in Updaters \ {u}
      PROVE  n >= 2 /\ (r \notin AheadIn(q, lows, u) => a + 1 <= n - 1)
  <2>1. /\ IsFiniteSet(Updaters \ {u})
        /\ Cardinality(Updaters \ {u}) = n - 1
    BY FS_RemoveElement
  <2>2. /\ IsFiniteSet((Updaters \ {u}) \ {r})
        /\ Cardinality((Updaters \ {u}) \ {r}) = (n - 1) - 1
    BY <2>1, FS_RemoveElement
  <2>3. Cardinality((Updaters \ {u}) \ {r}) \in Nat
    BY <2>2, FS_CardinalityType
  <2>4. AheadIn(q, lows, u) \subseteq Updaters \ {u}
    BY AheadIsFinite
  <2>5. r \notin AheadIn(q, lows, u) => a <= Cardinality((Updaters \ {u}) \ {r})
    BY <2>2, <2>4, FS_Subset
  <2> QED
    BY <1>1, <2>2, <2>3, <2>5
<1>3. ASSUME NEW r \in Updaters \ {u}, r \notin Range(q) \cap lows, u \in lows
      PROVE  r \notin AheadIn(q, lows, u)
  BY <1>3 DEF AheadIn, InFront, Range
<1> HIDE DEF n, a
<1>4. TurnsIn(q, lows, u) = a + (IF u \in lows THEN n - 1 ELSE 0)
  BY DEF TurnsIn, n, a
<1>5. 2 * Cardinality(Updaters) - 2 = 2 * n - 2
  BY DEF n
<1>6. ASSUME NEW r \in Updaters \ {u}, r \notin Range(q) \cap lows
      PROVE  TurnsIn(q, lows, u) + 1 <= 2 * Cardinality(Updaters) - 2
  <2>1. CASE u \in lows
    BY <1>1, <1>2, <1>3, <1>4, <1>5, <1>6, <2>1
  <2>2. CASE u \notin lows
    BY <1>1, <1>2, <1>4, <1>5, <2>2
  <2> QED
    BY <2>1, <2>2
<1> QED
  BY <1>1, <1>4, <1>5, <1>6

\* So the longest wait is one.
LEMMA WaitType ==
  ASSUME IsFiniteSet(Updaters), NEW u \in Updaters, NEW d \in Nat \cup {None}, NEW runs,
         NEW spent \in 0..MaxReconcile,
         NEW turns \in Nat, turns <= 2 * Cardinality(Updaters) - 2
  PROVE  /\ Wait(d, runs, spent, turns) \in Nat /\ LongestWait \in Nat
         /\ d # None => Wait(d, runs, spent, turns) = d + LongestWait
         /\ d = None /\ (runs # None => turns + 1 <= 2 * Cardinality(Updaters) - 2) =>
              Wait(d, runs, spent, turns) <= LongestWait
<1> DEFINE most == 2 * Cardinality(Updaters) - 2
           long == MaxReconcile * most
           part == MaxReconcile * turns
<1>1. most \in Nat
  <2>1. Cardinality(Updaters) \in Nat /\ Cardinality(Updaters) # 0
    BY FS_CardinalityType, FS_EmptySet
  <2> QED
    BY <2>1
<1>2. MaxReconcile \in Nat
  BY DelayAssumption
<1>3. LongestWait = long
  BY <1>1, <1>2 DEF LongestWait
<1>4. turns <= most
  OBVIOUS
<1>5. (turns + 1 <= 2 * Cardinality(Updaters) - 2) <=> (turns + 1 <= most)
  OBVIOUS
<1> HIDE DEF most
<1>6. /\ part \in Nat /\ long \in Nat /\ part <= long
      /\ turns + 1 <= most => MaxReconcile + part <= long
  BY <1>1, <1>2, <1>4, TurnsTakeTime
<1> HIDE DEF long, part
<1>7. CASE d # None
  BY <1>3, <1>6, <1>7 DEF Wait
<1>8. CASE d = None
  <2>1. Wait(d, runs, spent, turns) = (IF runs = None THEN 0 ELSE MaxReconcile - spent) + part
    BY <1>8 DEF Wait, part
  <2>2. MaxReconcile - spent \in 0..MaxReconcile
    BY <1>2
  <2> HIDE DEF Wait
  <2>3. CASE runs = None
    BY <1>3, <1>6, <1>8, <2>1, <2>3
  <2>4. CASE runs # None
    BY <1>2, <1>3, <1>5, <1>6, <1>8, <2>1, <2>2, <2>4
  <2> QED
    BY <2>3, <2>4
<1> QED
  BY <1>7, <1>8

\* A window leaves room for the wait of an updater that has an interval.
LEMMA WindowType ==
  ASSUME WindowsLeaveRoom, NEW u \in Updaters, NEW i \in Intervals[u]
  PROVE  /\ i \in Nat /\ Window(i) \in Nat
         /\ i + LongestWait <= Window(i) /\ Poll + LongestWait <= Window(i)
<1>1. i \in Nat /\ Multiplier \in Nat /\ Floor \in Nat
  BY DelayAssumption, WindowAssumption
<1>2. Multiplier * i \in Nat
  BY <1>1, TurnsTakeTime
<1> QED
  BY <1>1, <1>2 DEF WindowsLeaveRoom, Window

\* What the waits are made of, before and after a step.
LEMMA WaitTypes ==
  ASSUME TypeOK, TypeOK', WindowsLeaveRoom, NEW u \in Updaters
  PROVE  /\ delay[u] \in Nat \cup {None} /\ delay'[u] \in Nat \cup {None}
         /\ Turns(u) \in Nat /\ Turns(u)' \in Nat
         /\ Remaining(u) \in Nat /\ Remaining(u)' \in Nat /\ LongestWait \in Nat
         /\ delay[u] # None => Remaining(u) = delay[u] + LongestWait
         /\ delay'[u] # None => Remaining(u)' = delay'[u] + LongestWait
         /\ delay'[u] = None /\ Raised' /\ u # running' => Remaining(u)' <= LongestWait
<1>1. /\ queue \in Seq(Updaters) /\ IsInjective(queue)
      /\ delay[u] \in Nat \cup {None} /\ busy \in 0..MaxReconcile
  BY DEF TypeOK, QueueOK, WorkerOK
<1>2. /\ queue' \in Seq(Updaters) /\ IsInjective(queue')
      /\ delay'[u] \in Nat \cup {None} /\ busy' \in 0..MaxReconcile
      /\ running' \in Updaters \cup {None}
  BY DEF TypeOK, QueueOK, WorkerOK, Tracked
<1>3. IsFiniteSet(Updaters)
  BY DEF WindowsLeaveRoom
<1>4. Turns(u) \in Nat /\ Turns(u) <= 2 * Cardinality(Updaters) - 2
  BY <1>1, <1>3, TurnsType DEF Turns
<1>5. /\ Turns(u)' \in Nat /\ Turns(u)' <= 2 * Cardinality(Updaters) - 2
      /\ Raised' /\ u # running' =>
           (running' # None => Turns(u)' + 1 <= 2 * Cardinality(Updaters) - 2)
  BY <1>2, <1>3, TurnsType DEF Turns, Raised
<1>6. /\ Remaining(u) \in Nat /\ LongestWait \in Nat
      /\ delay[u] # None => Remaining(u) = delay[u] + LongestWait
  BY <1>1, <1>3, <1>4, WaitType DEF Remaining
<1>7. /\ Remaining(u)' \in Nat
      /\ delay'[u] # None => Remaining(u)' = delay'[u] + LongestWait
      /\ delay'[u] = None /\ Raised' /\ u # running' => Remaining(u)' <= LongestWait
  <2> DEFINE turns == Turns(u)'
             raised == Raised'
  <2>1. /\ turns \in Nat /\ turns <= 2 * Cardinality(Updaters) - 2
        /\ raised /\ u # running' =>
             (running' # None => turns + 1 <= 2 * Cardinality(Updaters) - 2)
    BY <1>5
  <2>2. Remaining(u)' = Wait(delay'[u], running', busy', turns)
    BY DEF Remaining
  <2>3. raised <=> Raised'
    OBVIOUS
  <2> HIDE DEF turns, raised
  <2> QED
    BY <1>2, <1>3, <2>1, <2>2, <2>3, WaitType
<1> QED
  BY <1>1, <1>2, <1>4, <1>5, <1>6, <1>7

\* Fewer keys ahead are fewer turns.
LEMMA FewerTurns ==
  ASSUME TypeOK, TypeOK', WindowsLeaveRoom, NEW u \in Updaters,
         Ahead(u)' \subseteq Ahead(u), u \in low' <=> u \in low
  PROVE  /\ Turns(u)' <= Turns(u)
         /\ \A v \in Ahead(u) : v \notin Ahead(u)' => Turns(u)' + 1 <= Turns(u)
<1>1. /\ queue \in Seq(Updaters) /\ IsInjective(queue)
      /\ queue' \in Seq(Updaters) /\ IsInjective(queue')
      /\ IsFiniteSet(Updaters)
  BY DEF TypeOK, QueueOK, WindowsLeaveRoom
<1>2. IsFiniteSet(Ahead(u)) /\ Cardinality(Ahead(u)) \in Nat
  BY <1>1, AheadIsFinite DEF Ahead
<1>3. IsFiniteSet(Ahead(u)') /\ Cardinality(Ahead(u)') \in Nat
  BY <1>1, AheadIsFinite DEF Ahead
<1>4. Cardinality(Ahead(u)') <= Cardinality(Ahead(u))
  BY <1>2, FS_Subset
<1>5. ASSUME NEW v \in Ahead(u), v \notin Ahead(u)'
      PROVE  Cardinality(Ahead(u)') + 1 <= Cardinality(Ahead(u))
  <2>1. Ahead(u)' \subseteq Ahead(u) \ {v}
    BY <1>5
  <2>2. IsFiniteSet(Ahead(u) \ {v}) /\ Cardinality(Ahead(u) \ {v}) = Cardinality(Ahead(u)) - 1
    BY <1>2, <1>5, FS_RemoveElement
  <2>3. Cardinality(Ahead(u)') <= Cardinality(Ahead(u) \ {v})
    BY <2>1, <2>2, FS_Subset
  <2> QED
    BY <1>2, <1>3, <2>2, <2>3
<1> DEFINE more == IF u \in low THEN Cardinality(Updaters) - 1 ELSE 0
<1>6. more \in Nat
  BY <1>1, AheadIsFinite
<1>7. Turns(u) = Cardinality(Ahead(u)) + more /\ Turns(u)' = Cardinality(Ahead(u)') + more
  BY DEF Turns, TurnsIn, Ahead
<1> HIDE DEF more
<1> QED
  BY <1>2, <1>3, <1>4, <1>5, <1>6, <1>7

-----------------------------------------------------------------------------
(* Steps.                                                                  *)

LEMMA EntryType ==
  ASSUME TypeOK, NEW u \in Tracked
  PROVE  anchor[u] \in 0..Cap /\ interval[u] \in Intervals[u]
  BY DEF TypeOK, EntriesOK, Tracked

\* u waits on, no longer than before.
LEMMA StaysInTime ==
  ASSUME TypeOK, TypeOK', WindowsLeaveRoom, NEW u \in Tracked, InTime(u),
         u \in Range(queue'), anchor'[u] = anchor[u], interval'[u] = interval[u],
         Remaining(u)' <= Remaining(u)
  PROVE  InTime(u)'
<1>1. u \in Updaters
  BY DEF Tracked
<1>2. anchor[u] \in Nat /\ interval[u] \in Intervals[u]
  BY EntryType, WindowAssumption
<1>3. Remaining(u) \in Nat /\ Remaining(u)' \in Nat
  BY <1>1, WaitTypes
<1>4. Window(interval[u]) \in Nat
  BY <1>1, <1>2, WindowType
<1>5. anchor[u] + Remaining(u) <= Window(interval[u])
  BY DEF InTime
<1>6. Window(interval[u])' = Window(interval[u])
  BY DEF Window
<1>7. anchor'[u] + Remaining(u)' <= Window(interval[u])
  BY <1>2, <1>3, <1>4, <1>5
<1> QED
  BY <1>6, <1>7 DEF InTime

\* Its place in the queue does not get worse, and the worker is not slower.
LEMMA NoLongerWait ==
  ASSUME TypeOK, TypeOK', WindowsLeaveRoom, NEW u \in Updaters,
         Ahead(u)' \subseteq Ahead(u), u \in low' <=> u \in low, delay'[u] = delay[u],
         running' = None \/ (running' = running /\ busy' = busy)
  PROVE  Remaining(u)' <= Remaining(u)
<1>1. CASE delay[u] # None
  BY <1>1, WaitTypes
<1>2. CASE delay[u] = None
  <2> DEFINE before == MaxReconcile * Turns(u)
             after == MaxReconcile * Turns(u)'
             rest == IF running = None THEN 0 ELSE MaxReconcile - busy
  <2>1. MaxReconcile \in Nat /\ busy \in 0..MaxReconcile
    BY DelayAssumption DEF TypeOK, WorkerOK
  <2>2. before \in Nat /\ after \in Nat /\ after <= before
    BY <2>1, FewerTurns, WaitTypes, TurnsTakeTime
  <2>3. Remaining(u) = rest + before
    BY <1>2 DEF Remaining, Wait
  <2>4. Remaining(u)' = (IF running' = None THEN 0 ELSE MaxReconcile - busy') + after
    BY <1>2 DEF Remaining, Wait
  <2> HIDE DEF before, after
  <2> QED
    BY <2>1, <2>2, <2>3, <2>4
<1> QED
  BY <1>1, <1>2

\* A key of which only others are moved stays in time.
LEMMA OthersInTime ==
  ASSUME TypeOK, TypeOK', WindowsLeaveRoom, NEW w, OthersStay(w), NEW u \in Tracked \ {w},
         InTime(u), anchor'[u] = anchor[u], interval'[u] = interval[u],
         running' = None \/ (running' = running /\ busy' = busy)
  PROVE  InTime(u)'
<1>1. u \in Updaters \ {w}
  BY DEF Tracked
<1>2. /\ Ahead(u)' \subseteq Ahead(u) /\ (u \in low' <=> u \in low) /\ delay'[u] = delay[u]
      /\ u \in Range(queue')
  BY <1>1 DEF OthersStay, InTime
<1>3. Remaining(u)' <= Remaining(u)
  BY <1>1, <1>2, NoLongerWait
<1> QED
  BY <1>2, <1>3, StaysInTime

\* A delayed key that becomes ready has at most the longest wait before it.
LEMMA ReadyInTime ==
  ASSUME TypeOK, TypeOK', WindowsLeaveRoom, NEW u \in Tracked, InTime(u),
         delay[u] # None, delay'[u] = None, u \in Range(queue'), Raised', u # running',
         anchor'[u] = anchor[u], interval'[u] = interval[u]
  PROVE  InTime(u)'
<1>1. u \in Updaters
  BY DEF Tracked
<1>2. Remaining(u)' <= Remaining(u)
  BY <1>1, WaitTypes
<1> QED
  BY <1>2, StaysInTime

LEMMA RipenInTime ==
  ASSUME TypeOK, TypeOK', WindowsLeaveRoom, WaitInv, NEW w \in Updaters, Ripen(w)
  PROVE  WaitInv'
<1>1. UNCHANGED <<worker, memory, steady>> /\ delay[w] = 0 /\ delay' = [delay EXCEPT ![w] = None]
  BY DEF Ripen
<1>2. delay \in [Updaters -> Nat \cup {None}]
  BY DEF TypeOK, QueueOK
<1>3. running' # None => delay'[running'] = None
  BY <1>1, <1>2 DEF WaitInv, worker, TypeOK, WorkerOK, Tracked
<1>r. Raised'
  <2>1. running # w
    BY <1>1, KeyAssumption DEF WaitInv, None
  <2>2. Range(queue') = Range(queue) \cup {w} /\ low' = low
    BY MovedToEnd DEF Ripen
  <2> QED
    BY <1>1, <2>1, <2>2 DEF WaitInv, Raised, worker
<1>4. ASSUME ~Hung', NEW u \in Updaters, Waiting(u)'
      PROVE  InTime(u)'
  <2>1. u \in Tracked /\ InTime(u)
    BY <1>1, <1>4 DEF WaitInv, Waiting, Hung, Tracked, worker, memory
  <2>2. OthersStay(w)
    BY RipenKeepsOrder
  <2>3. CASE u # w
    BY <1>1, <2>1, <2>2, <2>3, OthersInTime DEF worker, memory
  <2>4. CASE u = w
    <3>1. w \in Ready'
      BY RipenMakesReady
    <3>2. delay[u] # None /\ delay'[u] = None /\ u \in Range(queue')
      BY <1>1, <1>2, <2>4, <3>1 DEF Ready, None
    <3> QED
      BY <1>1, <1>4, <1>r, <2>1, <3>2, ReadyInTime DEF memory, Waiting
  <2> QED
    BY <2>3, <2>4
<1> QED
  BY <1>3, <1>4, <1>r DEF WaitInv

\* An event ends the delay of its key, or finds it ready.  Only one of low
\* priority goes back, to where it was counted from all along.
LEMMA WriteInTime ==
  ASSUME TypeOK, TypeOK', WindowsLeaveRoom, WaitInv, NEW w \in Updaters, Write(w)
  PROVE  WaitInv'
<1>1. /\ UNCHANGED <<worker, memory, steady>> /\ Add(w)
      /\ delay' = [delay EXCEPT ![w] = None] /\ low' = low \ {w}
  BY DEF Write, Add
<1>2. /\ delay \in [Updaters -> Nat \cup {None}]
      /\ queue' \in Seq(Updaters) /\ IsInjective(queue')
  BY DEF TypeOK, QueueOK
<1>3. running' # None => delay'[running'] = None
  BY <1>1, <1>2 DEF WaitInv, worker, TypeOK, WorkerOK, Tracked
<1>r. Raised'
  <2>1. CASE running = w
    BY <1>1, <2>1 DEF Raised, worker
  <2>2. CASE running # w
    <3>1. queue' = queue \/ queue' = Append(Without(w), w)
      BY <1>1 DEF Add
    <3>2. Range(queue') \subseteq Range(queue) \cup {w}
      BY <3>1, MovedToEnd DEF Range
    <3> QED
      BY <1>1, <2>2, <3>2 DEF WaitInv, Raised, worker
  <2> QED
    BY <2>1, <2>2
<1>4. ASSUME ~Hung', NEW u \in Updaters, Waiting(u)'
      PROVE  InTime(u)'
  <2>1. u \in Tracked /\ InTime(u)
    BY <1>1, <1>4 DEF WaitInv, Waiting, Hung, Tracked, worker, memory
  <2>2. CASE u # w
    BY <1>1, <2>1, <2>2, AddKeepsOrder, OthersInTime DEF worker, memory
  <2>3. CASE u = w
    <3>1. u \in Range(queue') /\ delay'[u] = None
      BY <1>1, <1>2, <2>3, AddMakesReady DEF Ready
    <3>2. CASE delay[u] # None
      BY <1>1, <1>4, <1>r, <2>1, <3>1, <3>2, ReadyInTime DEF memory, Waiting
    <3>3. CASE delay[u] = None /\ u \notin low
      <4>1. queue' = queue
        BY <1>1, <2>1, <2>3, <3>3 DEF Add, InTime
      <4>2. Ahead(u)' \subseteq Ahead(u) /\ (u \in low' <=> u \in low)
        BY <1>1, <2>3, <3>3, <4>1, FewerAhead DEF InFront
      <4>3. Remaining(u)' <= Remaining(u)
        BY <1>1, <3>1, <3>3, <4>2, NoLongerWait DEF worker
      <4> QED
        BY <1>1, <2>1, <3>1, <4>3, StaysInTime DEF memory
    <3>4. CASE delay[u] = None /\ u \in low
      <4>1. IsFiniteSet(Updaters) /\ queue \in Seq(Updaters) /\ IsInjective(queue)
        BY DEF WindowsLeaveRoom, TypeOK, QueueOK
      <4>2. /\ Cardinality(Ahead(u)') \in Nat
            /\ Cardinality(Ahead(u)') <= Cardinality(Updaters) - 1
            /\ Cardinality(Updaters) \in Nat \ {0} /\ Cardinality(Ahead(u)) \in Nat
        BY <1>2, <4>1, AheadIsFinite DEF Ahead
      <4>3. Turns(u)' = Cardinality(Ahead(u)')
        BY <1>1, <2>3, <4>2 DEF Turns, TurnsIn, Ahead
      <4>4. Turns(u) = Cardinality(Ahead(u)) + (Cardinality(Updaters) - 1)
        BY <3>4 DEF Turns, TurnsIn, Ahead
      <4>5. Turns(u)' <= Turns(u) /\ Turns(u) \in Nat /\ Turns(u)' \in Nat
        BY <4>2, <4>3, <4>4
      <4>6. MaxReconcile * Turns(u)' <= MaxReconcile * Turns(u)
            /\ MaxReconcile * Turns(u)' \in Nat /\ MaxReconcile * Turns(u) \in Nat
        BY <4>5, TurnsTakeTime, DelayAssumption
      <4>7. (IF running = None THEN 0 ELSE MaxReconcile - busy) \in Nat
        BY DelayAssumption DEF TypeOK, WorkerOK
      <4>8. Remaining(u)' <= Remaining(u)
        <5> DEFINE before == MaxReconcile * Turns(u)
                   after == MaxReconcile * Turns(u)'
                   rest == IF running = None THEN 0 ELSE MaxReconcile - busy
        <5>1. Remaining(u) = rest + before /\ Remaining(u)' = rest + after
          BY <1>1, <3>1, <3>4 DEF Remaining, Wait, worker
        <5> HIDE DEF before, after, rest
        <5>2. after <= before /\ after \in Nat /\ before \in Nat /\ rest \in Nat
          BY <4>6, <4>7 DEF before, after, rest
        <5> QED
          BY <5>1, <5>2
      <4> QED
        BY <1>1, <2>1, <3>1, <4>8, StaysInTime DEF memory
    <3> QED
      BY <3>2, <3>3, <3>4
  <2> QED
    BY <2>2, <2>3
<1> QED
  BY <1>3, <1>4, <1>r DEF WaitInv

\* The key that is taken was in front of every ready one it does not overtake.
LEMMA TakenIsAhead ==
  ASSUME TypeOK, NEW w \in Updaters, Takes(w), NEW u \in Ready \ {w}, ~Overtakes(w, u)
  PROVE  w \in Ahead(u)
<1> DEFINE turn == IF Ready \subseteq low THEN Ready ELSE Ready \ low
<1>1. PICK i \in DOMAIN queue :
        w = queue[i] /\ w \in turn /\ \A j \in 1..(i - 1) : queue[j] \notin turn
  BY DEF Takes
<1>2. PICK k \in DOMAIN queue : queue[k] = u
  BY DEF Ready, Range
<1>3. u \in turn
  BY <1>1 DEF Overtakes
<1>w. u \in low => w \in low
  BY <1>1, <1>3 DEF Overtakes
<1> HIDE DEF turn
<1>4. i \in Nat /\ k \in Nat /\ k >= 1
  BY DEF TypeOK, QueueOK
<1>5. ~(k < i) /\ k # i
  BY <1>1, <1>2, <1>3, <1>4
<1>6. i < k
  BY <1>4, <1>5
<1> QED
  BY <1>1, <1>2, <1>6, <1>w DEF Ahead, AheadIn, InFront

LEMMA BeginInTime ==
  ASSUME TypeOK, TypeOK', WindowsLeaveRoom, WaitInv, NEW w \in Updaters, Begin(w)
  PROVE  WaitInv'
<1>1. /\ running = None /\ Takes(w) /\ queue' = Without(w) /\ delay' = delay /\ low' = low
      /\ steady' = [v \in Updaters |-> steady[v] /\ spec[v] # None /\ ~Overtakes(w, v)]
      /\ busy' = busy
  BY DEF Begin, worker
<1>2. \/ spec[w] = None /\ Forget(w) /\ running' = None
      \/ spec[w] # None /\ Attempt(w) /\ running' = w
  BY <1>1 DEF Begin, worker
<1>3. /\ queue \in Seq(Updaters) /\ IsInjective(queue) /\ ~Hung /\ busy = 0
      /\ anchor \in [Updaters -> 0..Cap \cup {None}]
      /\ interval \in [Updaters -> Nat \cup {None}]
  BY <1>1 DEF TypeOK, QueueOK, WorkerOK, EntriesOK, Hung
<1>4. w \in Ready
  BY <1>1 DEF Takes
<1>5. running' # None => delay'[running'] = None
  BY <1>1, <1>2, <1>4 DEF Ready
<1>r. Raised'
  <2>1. Range(queue') = Range(queue) \ {w}
    BY <1>1, <1>3, WithoutKey
  <2> QED
    BY <1>2, <2>1 DEF Raised
<1>6. ASSUME NEW u \in Updaters, Waiting(u)'
      PROVE  InTime(u)'
  <2>1. u # w
    BY <1>2, <1>3, <1>6 DEF Waiting, Tracked, Forget
  <2>2. anchor'[u] = anchor[u] /\ interval'[u] = interval[u]
    BY <1>2, <1>3, <2>1 DEF Forget, Attempt
  <2>3. u \in Tracked /\ steady[u] /\ ~Overtakes(w, u)
    BY <1>1, <1>6, <2>2 DEF Waiting, Tracked
  <2>4. u # running
    BY <1>1, KeyAssumption
  <2>5. InTime(u)
    BY <1>3, <2>3, <2>4 DEF WaitInv, Waiting
  <2>6. Ahead(u)' \subseteq Ahead(u) \ {w}
    BY <1>1, <1>3, WithoutKeepsOrder DEF Ahead, AheadIn
  <2>7. u \in Range(queue')
    <3>1. Range(queue') = Range(queue) \ {w}
      BY <1>1, <1>3, WithoutKey
    <3> QED
      BY <2>1, <2>5, <3>1 DEF InTime
  <2>8. Remaining(u)' <= Remaining(u)
    <3>1. CASE delay[u] # None \/ running' = None
      <4>1. CASE delay[u] # None
        BY <1>1, <4>1, WaitTypes
      <4>2. CASE running' = None
        BY <1>1, <2>6, <4>2, NoLongerWait
      <4> QED
        BY <3>1, <4>1, <4>2
    <3>2. CASE delay[u] = None /\ running' = w
      <4> DEFINE before == MaxReconcile * Turns(u)
                 after == MaxReconcile * Turns(u)'
      <4>1. u \in Ready \ {w}
        BY <2>1, <2>5, <3>2 DEF Ready, InTime
      <4>2. w \in Ahead(u) /\ w \notin Ahead(u)'
        BY <1>1, <2>3, <2>6, <4>1, TakenIsAhead
      <4>3. Turns(u)' + 1 <= Turns(u)
        BY <1>1, <2>6, <4>2, FewerTurns
      <4>4. MaxReconcile + after <= before /\ after \in Nat /\ before \in Nat
        BY <4>3, WaitTypes, TurnsTakeTime, DelayAssumption
      <4>5. Remaining(u) = 0 + before
        BY <1>1, <3>2 DEF Remaining, Wait
      <4>6. Remaining(u)' = (MaxReconcile - 0) + after
        BY <1>1, <1>3, <3>2, KeyAssumption DEF Remaining, Wait
      <4> HIDE DEF before, after
      <4> QED
        BY <4>4, <4>5, <4>6, DelayAssumption
    <3> QED
      BY <1>2, <3>1, <3>2
  <2> QED
    BY <2>2, <2>3, <2>5, <2>7, <2>8, StaysInTime
<1> QED
  BY <1>5, <1>6, <1>r DEF WaitInv

\* A reconcile that ends leaves the others where they are; its own updater is
\* requeued, after an interval or a poll if it has succeeded.
LEMMA EndInTime ==
  ASSUME TypeOK, TypeOK', WindowsLeaveRoom, WaitInv, running \in Updaters,
         interval[running] \in Nat, ~Hung,
         Fail \/ Succeed(Poll) \/ Succeed(interval[running])
  PROVE  WaitInv'
<1>1. \E d \in Nat : AddAfter(d)
  BY DelayAssumption DEF Fail, Succeed
<1>2. running' = None /\ interval' = interval
  BY DEF Fail, Succeed, Done, memory
<1>r. Raised'
  BY <1>2 DEF Raised
<1>3. OthersStay(running)
  BY <1>1, AddAfterKeepsOrder
<1>4. /\ anchor \in [Updaters -> 0..Cap \cup {None}] /\ steady \in [Updaters -> BOOLEAN]
      /\ delay \in [Updaters -> Nat \cup {None}]
  BY DEF TypeOK, EntriesOK, QueueOK
<1>5. \A u \in Updaters \ {running} : anchor'[u] = anchor[u] /\ steady'[u] = steady[u]
  BY <1>4 DEF Fail, Succeed, memory
<1>6. ASSUME NEW u \in Updaters, Waiting(u)'
      PROVE  InTime(u)'
  <2>1. CASE u # running
    <3>1. u \in Tracked /\ InTime(u)
      BY <1>5, <1>6, <2>1 DEF WaitInv, Waiting, Tracked
    <3> QED
      BY <1>2, <1>3, <1>5, <2>1, <3>1, OthersInTime
  <2>2. CASE u = running
    <3>1. steady'[u]
      BY <1>6 DEF Waiting
    <3>2. PICK d \in {Poll, interval[u]} : Succeed(d)
      BY <1>4, <2>2, <3>1 DEF Fail
    <3>3. anchor'[u] = 0 /\ AddAfter(d)
      BY <1>4, <2>2, <3>2 DEF Succeed
    <3>4. interval'[u] \in Intervals[u] /\ interval'[u] = interval[u]
      BY <1>2, <1>6, EntryType DEF Waiting, TypeOK, EntriesOK, Tracked
    <3>5. d \in Nat /\ d + LongestWait <= Window(interval'[u]) /\ Window(interval'[u]) \in Nat
      BY <3>2, <3>4, WindowType, DelayAssumption
    <3>6. u \in Range(queue') /\ (delay'[u] = None \/ delay'[u] = d)
      <4>1. CASE running \in Range(queue) /\ UNCHANGED <<queue, delay>>
        BY <2>2, <4>1, KeyAssumption DEF WaitInv
      <4>2. CASE queue' = Append(queue, running) /\ delay' = [delay EXCEPT ![running] = d]
        <5>1. queue \in Seq(Updaters)
          BY DEF TypeOK, QueueOK
        <5>2. u \in Range(queue')
          BY <2>2, <4>2, <5>1, AppendToQueue
        <5> QED
          BY <1>4, <2>2, <4>2, <5>2
      <4> QED
        BY <3>3, <4>1, <4>2 DEF AddAfter
    <3>7. Remaining(u)' <= d + LongestWait /\ Remaining(u)' \in Nat /\ LongestWait \in Nat
      BY <1>2, <1>r, <2>2, <3>5, <3>6, WaitTypes, KeyAssumption
    <3>8. anchor'[u] + Remaining(u)' <= Window(interval'[u])
      BY <3>3, <3>5, <3>7
    <3>9. Window(interval[u])' = Window(interval'[u])
      BY DEF Window
    <3> QED
      BY <3>6, <3>8, <3>9 DEF InTime
  <2> QED
    BY <2>1, <2>2
<1> QED
  BY <1>2, <1>6, <1>r DEF WaitInv

LEMMA StepInTime ==
  ASSUME TypeOK, TypeOK', WindowsLeaveRoom, WaitInv, Step
  PROVE  WaitInv'
<1>1. CASE Fail \/ Succeed(Poll) \/ Succeed(interval[running])
  <2>1. ~Hung /\ running # None
    BY DEF Step, WatchHealth, NoMatchingTags, FailEarly, AskRev, SkipRev, RevResolved,
           RevFailed, Written, WriteFailed, Hung, TypeOK, WorkerOK
  <2>2. running \in Updaters /\ interval[running] \in Nat
    BY <2>1, RunningIsTracked
  <2> QED
    BY <1>1, <2>1, <2>2, EndInTime
<1>2. CASE AskRev \/ SkipRev \/ RevResolved
  <2>1. UNCHANGED <<work, running, busy, anchor, interval, steady>> /\ ~Hung
    BY <1>2 DEF AskRev, SkipRev, RevResolved, memory, Hung
  <2>2. ASSUME NEW u \in Updaters, Waiting(u)'
        PROVE  InTime(u)'
    <3>1. u \in Tracked /\ InTime(u)
      BY <2>1, <2>2 DEF WaitInv, Waiting, Tracked
    <3>2. Remaining(u)' = Remaining(u) /\ u \in Range(queue')
      BY <2>1, <3>1 DEF Remaining, Turns, work, InTime
    <3>3. Remaining(u)' <= Remaining(u)
      BY <3>2, WaitTypes
    <3> QED
      BY <2>1, <3>1, <3>2, <3>3, StaysInTime
  <2> QED
    BY <2>1, <2>2 DEF WaitInv, Raised, work
<1> QED
  BY <1>1, <1>2 DEF Step, WatchHealth, NoMatchingTags, FailEarly, RevFailed, Written, WriteFailed

\* A tick adds to the time since the last success what it takes from the wait.
LEMMA TickInTime ==
  ASSUME TypeOK, TypeOK', WindowsLeaveRoom, WaitInv, Tick
  PROVE  WaitInv'
<1>1. /\ \A u \in Updaters : delay[u] # 0
      /\ running = None => Ready = {}
      /\ Hung \/ busy < MaxReconcile
      /\ busy' = IF running = None \/ Hung THEN busy ELSE busy + 1
      /\ delay' = [u \in Updaters |-> IF delay[u] = None THEN None ELSE delay[u] - 1]
      /\ anchor' = [u \in Updaters |-> Older(anchor[u], Cap)]
      /\ UNCHANGED <<queue, low, running, stage, interval, steady>>
  BY DEF Tick
<1>2. running' # None => delay'[running'] = None
  <2>1. running # None => running \in Updaters
    BY DEF TypeOK, WorkerOK, Tracked
  <2> QED
    BY <1>1, <2>1 DEF WaitInv
<1>3. ASSUME ~Hung', NEW u \in Updaters, Waiting(u)'
      PROVE  InTime(u)'
  <2>1. u \in Tracked
    <3>1. Older(anchor[u], Cap) # None
      BY <1>1, <1>3 DEF Waiting, Tracked
    <3> QED
      BY <3>1 DEF Older, Tracked
  <2>2. ~Hung /\ InTime(u)
    BY <1>1, <1>3, <2>1 DEF WaitInv, Waiting, Hung
  <2>3. anchor[u] \in Nat /\ interval[u] \in Intervals[u]
    BY <2>1, EntryType, WindowAssumption
  <2>4. anchor'[u] \in Nat /\ anchor'[u] <= anchor[u] + 1
    BY <1>1, <2>1, <2>3, WindowAssumption DEF Older, Tracked
  <2>5. Remaining(u)' + 1 <= Remaining(u)
    <3>1. CASE delay[u] # None
      <4>1. delay[u] \in Nat /\ delay[u] # 0 /\ delay'[u] = delay[u] - 1
        BY <1>1, <3>1, WaitTypes
      <4>2. delay'[u] # None
        BY <4>1 DEF None
      <4> QED
        BY <3>1, <4>1, <4>2, WaitTypes
    <3>2. CASE delay[u] = None
      <4>1. u \in Ready /\ delay'[u] = None
        BY <1>1, <2>2, <3>2 DEF Ready, InTime
      <4>2. running # None
        BY <1>1, <4>1
      <4>3. busy' = busy + 1 /\ busy < MaxReconcile /\ busy \in Nat /\ MaxReconcile \in Nat
        BY <1>1, <2>2, <4>2, DelayAssumption DEF TypeOK, WorkerOK
      <4> DEFINE turns == MaxReconcile * Turns(u)
      <4>4. turns \in Nat
        BY <4>3, WaitTypes, TurnsTakeTime
      <4>5. /\ Remaining(u) = (MaxReconcile - busy) + turns
            /\ Remaining(u)' = (MaxReconcile - busy') + turns
        BY <1>1, <3>2, <4>1, <4>2 DEF Remaining, Wait, Turns
      <4> HIDE DEF turns
      <4> QED
        BY <4>3, <4>4, <4>5
    <3> QED
      BY <3>1, <3>2
  <2>6. anchor'[u] + Remaining(u)' <= Window(interval[u])
    <3>1. Window(interval[u]) \in Nat
      BY <2>3, WindowType
    <3>2. Remaining(u) \in Nat /\ Remaining(u)' \in Nat
      BY WaitTypes
    <3>3. anchor[u] + Remaining(u) <= Window(interval[u])
      BY <2>2 DEF InTime
    <3> QED
      BY <2>3, <2>4, <2>5, <3>1, <3>2, <3>3
  <2>7. u \in Range(queue') /\ Window(interval[u])' = Window(interval[u])
    BY <1>1, <2>2 DEF InTime, Window
  <2> QED
    BY <2>6, <2>7 DEF InTime
<1> QED
  BY <1>1, <1>2, <1>3 DEF WaitInv, Raised

LEMMA NextInTime ==
  ASSUME WindowsLeaveRoom
  PROVE  TypeOK /\ TypeOK' /\ WaitInv /\ [Next]_vars => WaitInv'
<1> SUFFICES ASSUME TypeOK, TypeOK', WaitInv, [Next]_vars PROVE WaitInv'
  OBVIOUS
<1>1. ASSUME NEW w \in Updaters, Ripen(w) \/ Write(w) \/ Begin(w)
      PROVE  WaitInv'
  BY <1>1, RipenInTime, WriteInTime, BeginInTime
<1>2. CASE Step
  BY <1>2, StepInTime
<1>3. CASE Hang
  BY <1>3 DEF Hang, Hung, WaitInv, Raised, work
<1>4. CASE Tick
  BY <1>4, TickInTime
<1>5. CASE Restart
  BY <1>5 DEF Restart, WaitInv, Raised, Waiting
<1>6. CASE UNCHANGED vars
  BY <1>6 DEF vars, work, worker, memory, WaitInv, Raised, Waiting, InTime, Remaining, Turns, Window,
              Hung, Tracked
<1> QED
  BY <1>1, <1>2, <1>3, <1>4, <1>5, <1>6 DEF Next, Crash, Kill

(* With windows that leave room for an interval, or a poll, and for two    *)
(* reconciles of every other updater, waiting makes nobody stale: for any  *)
(* number of updaters, edits of intervals, events, deletions and restarts, *)
(* as long as no reconcile hangs and no new event is let past an updater   *)
(* still waiting from the first listing (staleWindow, and the queue of     *)
(* controller-runtime).                                                    *)
THEOREM WaitingIsNotFailing ==
  ASSUME WindowsLeaveRoom
  PROVE  Spec => []StaleMeansFailing
<1>1. Init => WaitInv
  <2> SUFFICES ASSUME Init PROVE WaitInv
    OBVIOUS
  <2> QED
    BY DEF Init, WaitInv, Raised, Waiting
<1>2. TypeOK /\ TypeOK' /\ WaitInv /\ [Next]_vars => WaitInv'
  BY NextInTime
<1>3. TypeOK /\ WaitInv => StaleMeansFailing
  <2> SUFFICES ASSUME TypeOK, WaitInv, NEW u \in Tracked, Stale(u), steady[u], ~Hung, u # running
               PROVE  FALSE
    BY DEF StaleMeansFailing
  <2>1. u \in Updaters /\ InTime(u)
    BY DEF WaitInv, Waiting, Tracked
  <2>2. anchor[u] \in Nat /\ interval[u] \in Intervals[u]
    BY EntryType, WindowAssumption
  <2>3. Window(interval[u]) \in Nat
    BY <2>1, <2>2, WindowType
  <2>4. Remaining(u) \in Nat
    <3>1. /\ queue \in Seq(Updaters) /\ IsInjective(queue)
          /\ delay[u] \in Nat \cup {None} /\ busy \in 0..MaxReconcile
      BY <2>1 DEF TypeOK, QueueOK, WorkerOK
    <3>2. Turns(u) \in Nat /\ Turns(u) <= 2 * Cardinality(Updaters) - 2
      BY <2>1, <3>1, TurnsType DEF Turns, WindowsLeaveRoom
    <3> QED
      BY <2>1, <3>1, <3>2, WaitType DEF Remaining, WindowsLeaveRoom
  <2>5. anchor[u] + Remaining(u) <= Window(interval[u]) /\ anchor[u] > Window(interval[u])
    BY <2>1 DEF InTime, Stale
  <2> QED
    BY <2>2, <2>3, <2>4, <2>5
<1> QED
  BY <1>1, <1>2, <1>3, TypeCorrect, PTL DEF Spec
=============================================================================
