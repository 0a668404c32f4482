--------------------------- MODULE ManifestProofs ---------------------------
(***************************************************************************)
(* Proofs about Manifest: any updaters, lists of targets, texts, tags and  *)
(* number of edits.                                                        *)
(*                                                                         *)
(* What the matcher computes is proved here.  What UpdateManifest makes of *)
(* a text is not: UpdateIsExact, which TLC checks, is a premise of the     *)
(* theorem about fields, which is about the rest: who writes what, and     *)
(* when.  It has a second premise, which says what validateFieldOwnership  *)
(* relies on: every field has one key, whichever target reaches it.        *)
(***************************************************************************)
EXTENDS Manifest, FiniteSetTheorems, WellFoundedInduction, TLAPS

Documents(tree) == {tree[k].path[1] : k \in DOMAIN tree}

KeyOf(target, patch) ==
  [kind |-> target.kind, name |-> target.name, selector |-> target.selector,
   field |-> patch.field]

\* Whatever target finds a field, by name or by label, claims it by one key.
OneKey(key) ==
  \A layout \in DOMAIN Layouts : \A t \in DOMAIN Layouts[layout] :
  \A k \in DOMAIN Layouts[layout][t].patches : \A d \in Documents(Tree(text)) :
    LET target == Layouts[layout][t]
        field == <<d>> \o target.patches[k].field
    IN  Matches(Tree(text), d, target) =>
          field \in DOMAIN key /\ key[field] = KeyOf(target, target.patches[k])

-----------------------------------------------------------------------------
(* The inductive invariant.                                                *)

\* Updaters of which the informer has not seen the last edit, and how many
\* edits it must have seen at least.
Behind == {u \in Updaters : listed[u] # targets[u]}
Delivered == edits - Cardinality(Behind)

TypeInv ==
  /\ targets \in [Updaters -> DOMAIN Layouts] /\ listed \in [Updaters -> DOMAIN Layouts]
  /\ pc \in {"idle", "owners", "resolve", "write"}
  /\ pc # "idle" => me \in Updaters /\ mine \in DOMAIN Layouts
  /\ edits \in Nat
  /\ IsFiniteSet(Behind) /\ Cardinality(Behind) <= edits
  /\ writer \in [DOMAIN writer -> Updaters]
  /\ handovers \in [DOMAIN handovers -> Nat] /\ DOMAIN handovers \subseteq DOMAIN writer

Times(p) == IF p \in DOMAIN handovers THEN handovers[p] ELSE 0

ClaimedOnlyBy(u, k) ==
  /\ k \in Claims(listed[u])
  /\ \A v \in Updaters \ {u} : k \notin Claims(listed[v])

\* A field that was handed over as often as there were deliveries is, in the
\* informer's copies, its last writer's alone.
Kept(key) ==
  \A p \in DOMAIN writer :
    /\ Times(p) <= Delivered
    /\ Times(p) < Delivered \/ ClaimedOnlyBy(writer[p], key[p])

\* The handovers of p once the updater being reconciled has written it.
Due(p) == Times(p) + (IF p \in DOMAIN writer /\ writer[p] # me THEN 1 ELSE 0)

\* What the worker is about to write is paid for by a delivery; by one of its
\* own, if the copies have changed since it took its own or looked at them.
Earned(key) ==
  pc # "idle" =>
    \A p \in DOMAIN key :
      key[p] \in Claims(mine) =>
        /\ Due(p) <= Delivered
        /\ \/ Due(p) < Delivered
           \/ listed[me] = mine /\ (pc # "owners" => ~Conflict(listed))

HandoverInv(key) == DOMAIN writer \subseteq DOMAIN key /\ Kept(key) /\ Earned(key)

-----------------------------------------------------------------------------
(* Induction up to a natural number, as a fact about sets.                 *)

\* Sets of naturals have a least element, which is what induction rests on:
\* the intervals up to its elements are finite sets.
LEMMA Least ==
  ASSUME NEW T, T \subseteq Nat, T # {}
  PROVE  \E x \in T : \A y \in T : x <= y
<1>1. PICK n \in T : TRUE
  OBVIOUS
<1> DEFINE R == StrictSubsetOrdering(0..n)
           F == {0..m : m \in {k \in T : k <= n}}
<1>2. FiniteSubsetsOf(0..n) = SUBSET (0..n)
  <2>1. 0 \in Int /\ n \in Int
    OBVIOUS
  <2>2. IsFiniteSet(0..n)
    BY <2>1, FS_Interval
  <2> QED
    BY <2>2, FS_FiniteSubsetsOfFinite
<1>3. IsWellFoundedOn(R, SUBSET (0..n))
  BY <1>2, FS_StrictSubsetOrderingWellFounded
<1>4. F \subseteq SUBSET (0..n) /\ F # {}
  OBVIOUS
<1>5. PICK x \in F : \A y \in F : ~ (<<y, x>> \in R)
  <2> HIDE DEF F, R
  <2> QED
    BY <1>3, <1>4, WFMin
<1>6. PICK m \in T : m <= n /\ x = 0..m
  OBVIOUS
<1>7. ASSUME NEW k \in T, k < m PROVE FALSE
  <2>1. 0..k \in F /\ 0..k \subseteq x /\ m \in x /\ m \notin 0..k
    BY <1>6, <1>7
  <2>2. <<0..k, x>> \in R
    BY <2>1, <1>4 DEF StrictSubsetOrdering
  <2> QED
    BY <1>5, <2>1, <2>2
<1> QED
  BY <1>6, <1>7

LEMMA Greatest ==
  ASSUME NEW n \in Nat, NEW T, T \subseteq 1..n, T # {}
  PROVE  \E x \in T : \A y \in T : x >= y
<1> DEFINE D == {n - x : x \in T}
<1>1. D \subseteq Nat
  OBVIOUS
<1>a. D # {}
  OBVIOUS
<1> HIDE DEF D
<1>2. PICK d \in D : \A e \in D : d <= e
  BY <1>1, <1>a, Least
<1>3. PICK x \in T : d = n - x
  BY DEF D
<1>4. \A y \in T : n - y \in D
  BY DEF D
<1> QED
  BY <1>2, <1>3, <1>4

LEMMA Induction ==
  ASSUME NEW n \in Nat, NEW T, 0 \in T, \A k \in 1..n : k - 1 \in T => k \in T
  PROVE  n \in T
<1> DEFINE D == (0..n) \ T
<1> SUFFICES ASSUME n \notin T PROVE FALSE
  OBVIOUS
<1>2. D \subseteq Nat /\ D # {}
  OBVIOUS
<1>3. PICK x \in D : \A y \in D : x <= y
  <2> HIDE DEF D
  <2> QED
    BY <1>2, Least
<1>4. x \in 1..n /\ x \notin T
  BY <1>3
<1>5. x - 1 \in 0..n /\ x - 1 \notin D
  BY <1>3, <1>4
<1> QED
  BY <1>4, <1>5

Iterates(f, S, first, n, Step) ==
  f \in [0..n -> S] /\ f[0] = first /\ \A k \in 1..n : f[k] = Step[k][f[k - 1]]

LEMMA Recursion ==
  ASSUME NEW S, NEW first, first \in S, NEW n, n \in Nat,
         NEW Step, Step \in [1..n -> [S -> S]]
  PROVE  \E f : Iterates(f, S, first, n, Step)
<1> DEFINE Defines(f, m) == f[0] = first /\ \A k \in 1..m : f[k] = Step[k][f[k - 1]]
           T == {m \in 0..n : \E f \in [0..m -> S] : Defines(f, m)}
<1>1. 0 \in T
  <2> DEFINE f == [k \in 0..0 |-> first]
  <2>1. f \in [0..0 -> S] /\ Defines(f, 0)
    OBVIOUS
  <2> HIDE DEF f, Defines
  <2> QED
    BY <2>1
<1>2. ASSUME NEW m \in 1..n, m - 1 \in T PROVE m \in T
  <2>1. PICK f \in [0..(m - 1) -> S] : Defines(f, m - 1)
    BY <1>2
  <2> DEFINE g == [k \in 0..m |-> IF k = m THEN Step[m][f[m - 1]] ELSE f[k]]
  <2>2. m - 1 \in 0..(m - 1) /\ Step[m][f[m - 1]] \in S
    OBVIOUS
  <2>3. g \in [0..m -> S]
    BY <2>2
  <2>4. Defines(g, m)
    BY <2>1
  <2> HIDE DEF g, Defines
  <2> QED
    BY <2>3, <2>4
<1> HIDE DEF T
<1>3. \A m \in 1..n : m - 1 \in T => m \in T
  BY <1>2
<1>4. n \in T
  BY <1>1, <1>3, Induction
<1> QED
  BY <1>4 DEF T, Iterates

-----------------------------------------------------------------------------
(* What the matcher takes.                                                 *)

\* All's loop, unfolded.
LEMMA AllRule ==
  ASSUME NEW D, NEW tags \in Seq(D)
  PROVE  \E results :
           /\ results[0] = <<>> /\ All(tags) = results[Len(tags)]
           /\ \A k \in 1..Len(tags) :
                results[k] = IF tags[k].matches THEN Append(results[k - 1], tags[k])
                             ELSE results[k - 1]
<1> DEFINE n == Len(tags)
           S == Seq(D)
           none == <<>>
           Extend(x, k) == IF tags[k].matches THEN Append(x, tags[k]) ELSE x
           Rule(f) == [k \in 0..n |-> IF k = 0 THEN <<>> ELSE
                         IF tags[k].matches THEN Append(f[k - 1], tags[k]) ELSE f[k - 1]]
           results == CHOOSE f : f = Rule(f)
           Step == [k \in 1..n |-> [x \in S |-> Extend(x, k)]]
<1>1. n \in Nat
  OBVIOUS
<1>2. none \in S /\ \A k \in 1..n : \A x \in S : Extend(x, k) \in S
  OBVIOUS
<1>3. \A f : Rule(f) = [k \in 0..n |-> IF k = 0 THEN none ELSE Extend(f[k - 1], k)]
  OBVIOUS
<1>4. All(tags) = results[n]
  BY DEF All
<1> HIDE DEF n, S, none, Extend, Rule
<1>5. Step \in [1..n -> [S -> S]]
  BY <1>2
<1>6. \E f : Iterates(f, S, none, n, Step)
  <2> HIDE DEF Step
  <2> QED
    BY <1>1, <1>2, <1>5, Recursion
<1>7. PICK f : /\ f \in [0..n -> S] /\ f[0] = none
               /\ \A k \in 1..n : f[k] = Step[k][f[k - 1]]
  BY <1>6 DEF Iterates
<1>8. \A k \in 1..n : f[k] = Extend(f[k - 1], k)
  BY <1>1, <1>7
<1>9. f = Rule(f)
  BY <1>1, <1>3, <1>7, <1>8
<1>10. results = Rule(results)
  BY <1>9
<1> HIDE DEF results
<1>11. results[0] = none /\ \A k \in 1..n : results[k] = Extend(results[k - 1], k)
  BY <1>1, <1>3, <1>10
<1> QED
  BY <1>4, <1>11 DEF n, none, Extend

\* What All keeps.
LEMMA AllOf ==
  ASSUME NEW D, NEW tags \in Seq(D)
  PROVE  /\ All(tags) \in Seq(D)
         /\ \A i \in 1..Len(All(tags)) :
              \E j \in 1..Len(tags) : tags[j].matches /\ All(tags)[i] = tags[j]
         /\ \A j \in 1..Len(tags) :
              tags[j].matches => \E i \in 1..Len(All(tags)) : All(tags)[i] = tags[j]
<1>1. PICK results :
        /\ results[0] = <<>> /\ All(tags) = results[Len(tags)]
        /\ \A k \in 1..Len(tags) :
             results[k] = IF tags[k].matches THEN Append(results[k - 1], tags[k])
                          ELSE results[k - 1]
  BY AllRule
<1> DEFINE n == Len(tags)
           Gathered(x, k) ==
             /\ x \in Seq(D)
             /\ \A i \in 1..Len(x) : \E j \in 1..k : tags[j].matches /\ x[i] = tags[j]
             /\ \A j \in 1..k : tags[j].matches => \E i \in 1..Len(x) : x[i] = tags[j]
           T == {k \in 0..n : Gathered(results[k], k)}
<1>2. n \in Nat /\ \A k \in 1..n : tags[k] \in D
  OBVIOUS
<1>3. 0 \in T
  <2>1. Gathered(<<>>, 0)
    OBVIOUS
  <2> HIDE DEF Gathered
  <2> QED
    BY <1>1, <1>2, <2>1
<1>4. ASSUME NEW k \in 1..n, k - 1 \in T PROVE k \in T
  <2> DEFINE x == results[k - 1]
  <2>1. Gathered(x, k - 1)
    BY <1>4
  <2>2. results[k] = IF tags[k].matches THEN Append(x, tags[k]) ELSE x
    BY <1>1
  <2> HIDE DEF x
  <2>3. Gathered(results[k], k)
    <3>1. CASE ~tags[k].matches
      <4>1. /\ \A i \in 1..Len(x) : \E j \in 1..k : tags[j].matches /\ x[i] = tags[j]
            /\ \A j \in 1..k : tags[j].matches => \E i \in 1..Len(x) : x[i] = tags[j]
        BY <2>1, <3>1
      <4> QED
        BY <2>1, <2>2, <3>1, <4>1
    <3>2. CASE tags[k].matches
      <4>1. x \in Seq(D) /\ tags[k] \in D /\ Len(x) \in Nat
        BY <1>2, <2>1
      <4> DEFINE y == Append(x, tags[k])
      <4>2. /\ y \in Seq(D) /\ Len(y) = Len(x) + 1 /\ y[Len(x) + 1] = tags[k]
            /\ \A i \in 1..Len(x) : y[i] = x[i]
        BY <4>1
      <4> HIDE DEF y
      <4>3. ASSUME NEW i \in 1..Len(y)
            PROVE  \E j \in 1..k : tags[j].matches /\ y[i] = tags[j]
        <5>1. CASE i = Len(x) + 1
          BY <3>2, <4>2, <5>1
        <5>2. CASE i \in 1..Len(x)
          BY <2>1, <4>2, <5>2
        <5> QED
          BY <4>1, <4>2, <5>1, <5>2
      <4>4. ASSUME NEW j \in 1..k, tags[j].matches
            PROVE  \E i \in 1..Len(y) : y[i] = tags[j]
        <5>1. CASE j = k
          BY <4>1, <4>2, <5>1
        <5>2. CASE j \in 1..(k - 1)
          <6>1. PICK i \in 1..Len(x) : x[i] = tags[j]
            BY <2>1, <4>4, <5>2
          <6> QED
            BY <4>1, <4>2, <6>1
        <5> QED
          BY <5>1, <5>2
      <4>5. results[k] = y
        BY <2>2, <3>2 DEF y
      <4> QED
        BY <4>2, <4>3, <4>4, <4>5
    <3> QED
      BY <3>1, <3>2
  <2> HIDE DEF Gathered
  <2> QED
    BY <2>3
<1>5. n \in T
  <2> HIDE DEF T, n
  <2>1. \A k \in 1..n : k - 1 \in T => k \in T
    BY <1>4
  <2> QED
    BY <1>2, <1>3, <2>1, Induction
<1> QED
  BY <1>1, <1>5

LEMMA InsertAtIs ==
  ASSUME NEW s, NEW i, NEW p, NEW e, i - 1 = p
  PROVE  InsertAt(s, i, e) = SubSeq(s, 1, p) \o <<e>> \o SubSeq(s, i, Len(s))
  BY Zenon DEF InsertAt

\* What is known of s, which is done with t inserted: its elements and its head.
Inserts(D, s, done, t) ==
  /\ s \in Seq(D) /\ Len(s) = Len(done) + 1
  /\ \A i \in 1..(Len(done) + 1) : s[i] = t \/ \E j \in 1..Len(done) : s[i] = done[j]
  /\ \/ s[1] = t /\ \A j \in 1..Len(done) : Before(t, done[j])
     \/ \E j \in 1..Len(done) : ~Before(t, done[j]) /\ s[1] = done[1]

LEMMA InsertedIn ==
  ASSUME NEW D, NEW done, done \in Seq(D), NEW t, t \in D
  PROVE  Inserts(D, Inserted(done, t), done, t)
<1> DEFINE I == {i \in 1..Len(done) : ~Before(t, done[i])}
           p == IF I # {} THEN Max(I) ELSE 0
<1>1. Len(done) \in Nat /\ \A j \in 1..Len(done) : done[j] \in D
  OBVIOUS
<1>2. (I = {} /\ p = 0) \/ p \in I
  <2>1. CASE I # {}
    <3>1. I \subseteq 1..Len(done)
      OBVIOUS
    <3> HIDE DEF I
    <3>2. \E x \in I : \A y \in I : x >= y
      BY <1>1, <2>1, <3>1, Greatest
    <3> QED
      BY <2>1, <3>2 DEF Max
  <2> QED
    BY <2>1
<1>3. p \in 0..Len(done)
  BY <1>1, <1>2
<1>4. SelectLastInSeq(done, LAMBDA u : ~Before(t, u)) = p
  BY DEF SelectLastInSeq
<1>5. Inserted(done, t) = InsertAt(done, p + 1, t)
  BY <1>4, Zenon DEF Inserted
<1> HIDE DEF p
<1>a. Inserted(done, t) = (SubSeq(done, 1, p) \o <<t>>) \o SubSeq(done, p + 1, Len(done))
  <2>1. PICK i : i = p + 1 /\ i - 1 = p
    BY <1>3
  <2>2. InsertAt(done, i, t) = (SubSeq(done, 1, p) \o <<t>>) \o SubSeq(done, i, Len(done))
    BY <2>1, InsertAtIs, Zenon
  <2> QED
    BY <1>5, <2>1, <2>2, Zenon
<1> DEFINE u == SubSeq(done, 1, p)
           v == SubSeq(done, p + 1, Len(done))
           w == u \o <<t>>
           s == w \o v
<1>6. /\ u \in Seq(D) /\ Len(u) = p /\ \A i \in 1..p : u[i] = done[i]
      /\ v \in Seq(D) /\ Len(v) = Len(done) - p
      /\ \A i \in 1..(Len(done) - p) : v[i] = done[p + i]
  BY <1>1, <1>3
<1> HIDE DEF u, v
<1>7. w \in Seq(D) /\ Len(w) = p + 1 /\ w[p + 1] = t /\ \A i \in 1..p : w[i] = done[i]
  BY <1>1, <1>3, <1>6
<1> HIDE DEF w
<1>8. /\ s \in Seq(D) /\ Len(s) = Len(done) + 1
      /\ \A i \in 1..(p + 1) : s[i] = w[i]
      /\ \A i \in 1..(Len(done) - p) : s[p + 1 + i] = v[i]
  BY <1>1, <1>3, <1>6, <1>7
<1>9. Inserted(done, t) = s
  BY <1>a DEF u, v, w
<1> HIDE DEF s
<1>10. ASSUME NEW i \in 1..(Len(done) + 1)
       PROVE  s[i] = t \/ \E j \in 1..Len(done) : s[i] = done[j]
  <2>1. CASE i \in 1..p
    <3>1. i \in 1..(p + 1) /\ i \in 1..Len(done)
      BY <1>1, <1>3, <2>1
    <3> QED
      BY <1>7, <1>8, <2>1, <3>1
  <2>2. CASE i = p + 1
    BY <1>3, <1>7, <1>8, <2>2
  <2>3. CASE i > p + 1
    <3> DEFINE j == i - 1 - p
    <3>1. j \in 1..(Len(done) - p) /\ p + 1 + j = i /\ p + j \in 1..Len(done)
      BY <1>1, <1>3, <2>3
    <3> HIDE DEF j
    <3> QED
      BY <1>6, <1>8, <3>1
  <2> QED
    BY <1>1, <1>3, <2>1, <2>2, <2>3
<1>11. \/ s[1] = t /\ \A j \in 1..Len(done) : Before(t, done[j])
       \/ \E j \in 1..Len(done) : ~Before(t, done[j]) /\ s[1] = done[1]
  <2>1. CASE I = {} /\ p = 0
    BY <1>7, <1>8, <2>1
  <2>2. CASE p \in I
    BY <1>1, <1>7, <1>8, <2>2
  <2> QED
    BY <1>2, <2>1, <2>2
<1> QED
  BY <1>8, <1>9, <1>10, <1>11 DEF Inserts

\* The sort's loop, unfolded.
LEMMA SortRule ==
  ASSUME NEW D, NEW tags \in Seq(D)
  PROVE  \E done :
           /\ done[0] = <<>> /\ Sorted(tags) = done[Len(tags)]
           /\ \A k \in 1..Len(tags) : done[k] = Inserted(done[k - 1], tags[k])
<1> DEFINE n == Len(tags)
           S == Seq(D)
           none == <<>>
           Rule(f) == [k \in 0..n |-> IF k = 0 THEN <<>> ELSE Inserted(f[k - 1], tags[k])]
           done == CHOOSE f : f = Rule(f)
           Step == [k \in 1..n |-> [x \in S |-> Inserted(x, tags[k])]]
<1>1. n \in Nat
  OBVIOUS
<1>2. none \in S /\ \A k \in 1..n : \A x \in S : Inserted(x, tags[k]) \in S
  <2>1. ASSUME NEW k \in 1..n, NEW x \in S PROVE Inserted(x, tags[k]) \in S
    <3>1. tags[k] \in D
      OBVIOUS
    <3>2. Inserts(D, Inserted(x, tags[k]), x, tags[k])
      BY <3>1, InsertedIn
    <3> QED
      BY <3>2 DEF Inserts
  <2> QED
    BY <2>1
<1>3. \A f : Rule(f) = [k \in 0..n |-> IF k = 0 THEN none ELSE Inserted(f[k - 1], tags[k])]
  OBVIOUS
<1>4. Sorted(tags) = done[n]
  BY DEF Sorted
<1> HIDE DEF n, S, none, Rule
<1>5. Step \in [1..n -> [S -> S]]
  BY <1>2
<1>6. \E f : Iterates(f, S, none, n, Step)
  <2> HIDE DEF Step
  <2> QED
    BY <1>1, <1>2, <1>5, Recursion
<1>7. PICK f : /\ f \in [0..n -> S] /\ f[0] = none
               /\ \A k \in 1..n : f[k] = Step[k][f[k - 1]]
  BY <1>6 DEF Iterates
<1>8. \A k \in 1..n : f[k] = Inserted(f[k - 1], tags[k])
  BY <1>1, <1>7
<1>9. f = Rule(f)
  BY <1>1, <1>3, <1>7, <1>8
<1>10. done = Rule(done)
  BY <1>9
<1> HIDE DEF done
<1>11. done[0] = none /\ \A k \in 1..n : done[k] = Inserted(done[k - 1], tags[k])
  BY <1>1, <1>3, <1>10
<1> QED
  BY <1>4, <1>11 DEF n, none

\* The head of the sorted list is no smaller than any other, which does not
\* need the rest to be in order.
LEMMA SortedHead ==
  ASSUME NEW D, NEW tags \in Seq(D), tags # <<>>
  PROVE  /\ \E i \in 1..Len(tags) : Head(Sorted(tags)) = tags[i]
         /\ (\A t \in D : t.n \in Nat) =>
              \A i \in 1..Len(tags) : tags[i].n <= Head(Sorted(tags)).n
<1>1. PICK done :
        /\ done[0] = <<>> /\ Sorted(tags) = done[Len(tags)]
        /\ \A k \in 1..Len(tags) : done[k] = Inserted(done[k - 1], tags[k])
  BY SortRule
<1> DEFINE n == Len(tags)
           Numbers == \A t \in D : t.n \in Nat
           From(x, k) == /\ x \in Seq(D) /\ Len(x) = k
                         /\ \A i \in 1..k : \E j \in 1..k : x[i] = tags[j]
           Bounded(x, k) == \A i \in 1..k : tags[i].n <= x[1].n
           T == {k \in 0..n : From(done[k], k) /\ (Numbers => Bounded(done[k], k))}
<1>2. n \in Nat \ {0} /\ \A k \in 1..n : tags[k] \in D
  OBVIOUS
<1>3. 0 \in T
  <2>1. From(<<>>, 0) /\ Bounded(<<>>, 0)
    OBVIOUS
  <2> HIDE DEF From, Bounded
  <2> QED
    BY <1>1, <1>2, <2>1
<1>4. ASSUME NEW k \in 1..n, k - 1 \in T PROVE k \in T
  <2> DEFINE x == done[k - 1]
             t == tags[k]
             y == Inserted(x, t)
  <2>1. From(x, k - 1) /\ (Numbers => Bounded(x, k - 1))
    BY <1>4
  <2>2. done[k] = y /\ t \in D
    BY <1>1, <1>2
  <2> HIDE DEF x
  <2>3. x \in Seq(D) /\ Len(x) = k - 1 /\ k - 1 + 1 = k
    BY <2>1
  <2>4. /\ y \in Seq(D) /\ Len(y) = k
        /\ \A i \in 1..k : y[i] = t \/ \E j \in 1..(k - 1) : y[i] = x[j]
        /\ \/ y[1] = t /\ \A j \in 1..(k - 1) : Before(t, x[j])
           \/ \E j \in 1..(k - 1) : ~Before(t, x[j]) /\ y[1] = x[1]
    <3> HIDE DEF t
    <3>1. Inserts(D, y, x, t)
      BY <2>2, <2>3, InsertedIn
    <3> HIDE DEF y
    <3> QED
      BY <2>3, <3>1 DEF Inserts
  <2> HIDE DEF y
  <2>5. From(y, k)
    <3>1. ASSUME NEW i \in 1..k PROVE \E j \in 1..k : y[i] = tags[j]
      <4>1. CASE y[i] = t
        BY <4>1
      <4>2. ASSUME NEW j \in 1..(k - 1), y[i] = x[j] PROVE \E l \in 1..k : y[i] = tags[l]
        <5>1. PICK l \in 1..(k - 1) : x[j] = tags[l]
          BY <2>1
        <5> QED
          BY <4>2, <5>1
      <4> QED
        BY <2>4, <4>1, <4>2
    <3> QED
      BY <2>4, <3>1
  <2>6. ASSUME Numbers PROVE Bounded(y, k)
    <3>1. \A i \in 1..k : tags[i].n \in Nat
      BY <1>2, <2>6
    <3>2. \A i \in 1..(k - 1) : tags[i].n <= x[1].n
      BY <2>1, <2>6
    <3>3. \A j \in 1..(k - 1) : x[j].n \in Nat /\ x[j].n <= x[1].n
      <4>1. ASSUME NEW j \in 1..(k - 1) PROVE x[j].n \in Nat /\ x[j].n <= x[1].n
        <5>1. PICK l \in 1..(k - 1) : x[j] = tags[l]
          BY <2>1
        <5> QED
          BY <3>1, <3>2, <5>1
      <4> QED
        BY <4>1
    <3>4. CASE y[1] = t /\ \A j \in 1..(k - 1) : Before(t, x[j])
      <4>1. ASSUME NEW i \in 1..k PROVE tags[i].n <= y[1].n
        <5>1. CASE i = k
          BY <3>1, <3>4, <5>1
        <5>2. CASE i \in 1..(k - 1)
          <6>1. 1 \in 1..(k - 1) /\ Before(t, x[1])
            BY <3>4, <5>2
          <6>2. t.n > x[1].n
            BY <3>1, <3>3, <6>1 DEF Before, NotANumber
          <6> QED
            BY <3>1, <3>2, <3>3, <3>4, <5>2, <6>1, <6>2
        <5> QED
          BY <5>1, <5>2
      <4> QED
        BY <4>1
    <3>5. ASSUME NEW j \in 1..(k - 1), ~Before(t, x[j]), y[1] = x[1]
          PROVE  Bounded(y, k)
      <4>1. t.n \in Nat /\ x[j].n \in Nat /\ x[1].n \in Nat
        BY <3>1, <3>3
      <4>2. t.n <= x[j].n
        BY <3>5, <4>1 DEF Before, NotANumber
      <4>3. t.n <= x[1].n
        BY <3>3, <4>1, <4>2
      <4>4. ASSUME NEW i \in 1..k PROVE tags[i].n <= y[1].n
        BY <3>2, <3>5, <4>3
      <4> QED
        BY <4>4
    <3> QED
      BY <2>4, <3>4, <3>5
  <2> HIDE DEF From, Bounded, Numbers
  <2> QED
    BY <2>2, <2>5, <2>6
<1>5. n \in T
  <2> HIDE DEF T, n
  <2>1. \A k \in 1..n : k - 1 \in T => k \in T
    BY <1>4
  <2>2. n \in Nat
    BY <1>2
  <2> QED
    BY <1>3, <2>1, <2>2, Induction
<1>6. /\ Sorted(tags) = done[n]
      /\ From(done[n], n) /\ (Numbers => Bounded(done[n], n))
  BY <1>1, <1>5
<1>7. Head(Sorted(tags)) = Sorted(tags)[1] /\ 1 \in 1..n
  BY <1>2, <1>6
<1> QED
  BY <1>6, <1>7

\* The tags a source may list, when all that match have a build number.
Numbered == \A t \in Tags : t.matches => t.n # NotANumber

\* A listing has every published tag, whatever its order.
LEMMA ListingOf ==
  ASSUME NEW S, IsFiniteSet(S), NEW listing, listing \in SetToSeqs(S)
  PROVE  listing \in Seq(S) /\ \A t \in S : \E i \in 1..Len(listing) : listing[i] = t
<1> DEFINE n == Cardinality(S)
           D == 1..n
<1>1. n \in Nat
  BY FS_CardinalityType
<1>2. listing \in [D -> S] /\ \A i, j \in D : i # j => listing[i] # listing[j]
  BY DEF SetToSeqs
<1>3. listing \in Seq(S) /\ Len(listing) = n
  BY <1>1, <1>2
<1>4. listing \in Injection(D, S)
  BY <1>2 DEF Injection, IsInjective
<1>5. IsFiniteSet(D) /\ Cardinality(D) = n
  BY <1>1, FS_Interval
<1>6. listing \in Surjection(D, S)
  <2> HIDE DEF D
  <2> QED
    BY <1>4, <1>5, FS_Injection
<1>7. \A t \in S : \E i \in D : listing[i] = t
  BY <1>6 DEF Surjection
<1> QED
  BY <1>3, <1>7

\* What is taken from a listing is a tag of it that matches; if they all have
\* build numbers, it is one with the highest.
LEMMA LatestOf ==
  ASSUME NEW D, NEW listing, listing \in Seq(D), All(listing) # <<>>
  PROVE  /\ Latest(listing) \in D /\ Latest(listing).matches
         /\ (\A t \in D : t.matches => t.n \in Nat) =>
              \A i \in 1..Len(listing) : listing[i].matches => listing[i].n <= Latest(listing).n
<1> DEFINE M == {t \in D : t.matches}
           all == All(listing)
<1>1. /\ all \in Seq(D)
      /\ \A i \in 1..Len(all) : \E j \in 1..Len(listing) : listing[j].matches /\ all[i] = listing[j]
      /\ \A j \in 1..Len(listing) :
           listing[j].matches => \E i \in 1..Len(all) : all[i] = listing[j]
  BY AllOf
<1>2. Latest(listing) = Head(Sorted(all))
  BY DEF Latest
<1> HIDE DEF all
<1>3. \A j \in 1..Len(listing) : listing[j] \in D
  OBVIOUS
<1>4. \A i \in 1..Len(all) : all[i] \in M
  BY <1>1, <1>3
<1>5. all \in Seq(M) /\ all # <<>>
  BY <1>1, <1>4 DEF all
<1>6. /\ \E i \in 1..Len(all) : Head(Sorted(all)) = all[i]
      /\ (\A t \in M : t.n \in Nat) => \A i \in 1..Len(all) : all[i].n <= Head(Sorted(all)).n
  <2> HIDE DEF M
  <2> QED
    BY <1>5, SortedHead
<1>7. Latest(listing) \in M
  BY <1>2, <1>4, <1>6
<1>8. ASSUME \A t \in D : t.matches => t.n \in Nat,
             NEW j \in 1..Len(listing), listing[j].matches
      PROVE  listing[j].n <= Latest(listing).n
  <2>1. PICK i \in 1..Len(all) : all[i] = listing[j]
    BY <1>1, <1>8
  <2>2. \A t \in M : t.n \in Nat
    BY <1>8
  <2> QED
    BY <1>2, <1>6, <2>1, <2>2
<1> QED
  BY <1>7, <1>8

\* What Resolve takes.
LEMMA ResolveTakes ==
  ASSUME published \subseteq Tags, Resolve, pc' = "write"
  PROVE  /\ release' \in published /\ release'.matches
         /\ Numbered => \A t \in published : t.matches => t.n <= release'.n
<1>1. PICK listing \in SetToSeqs(published) :
        All(listing) # <<>> /\ release' = Latest(listing)
  BY DEF Resolve, EndReconcile
<1>2. IsFiniteSet(published)
  BY TagsAssumption, FS_Subset
<1>3. /\ listing \in Seq(published)
      /\ \A t \in published : \E i \in 1..Len(listing) : listing[i] = t
  BY <1>2, ListingOf
<1>4. /\ Latest(listing) \in published /\ Latest(listing).matches
      /\ (\A t \in published : t.matches => t.n \in Nat) =>
           \A i \in 1..Len(listing) : listing[i].matches => listing[i].n <= Latest(listing).n
  BY <1>1, <1>3, LatestOf
<1>5. Numbered => \A t \in published : t.matches => t.n \in Nat
  BY TagsAssumption DEF Numbered
<1> QED
  BY <1>1, <1>3, <1>4, <1>5

-----------------------------------------------------------------------------
(* What an exact update writes.                                            *)

LEMMA AskedIsReached ==
  ASSUME NEW tree, NEW list, NEW data, NEW a \in Asked(tree, list, data)
  PROVE  \E t \in DOMAIN list : \E k \in DOMAIN list[t].patches : \E d \in Documents(tree) :
           Matches(tree, d, list[t]) /\ a.path = <<d>> \o list[t].patches[k].field
<1> DEFINE Wish(t, k, d) == [at |-> <<t, k>>, path |-> <<d>> \o list[t].patches[k].field,
                             value |-> data[list[t].patches[k].template]]
           InDocument(t, d) == {Wish(t, k, d) : k \in DOMAIN list[t].patches}
           InTarget(t) ==
             UNION {InDocument(t, d) : d \in {e \in Documents(tree) : Matches(tree, e, list[t])}}
           Wishes == UNION {InTarget(t) : t \in DOMAIN list}
<1>1. \E w \in Wishes : a.path = w.path
  <2> DEFINE Later(w, v) == w.at[1] > v.at[1] \/ (w.at[1] = v.at[1] /\ w.at[2] > v.at[2])
             Stated == {w \in Wishes : w.value # ""}
             Asking == {v \in Stated : ~\E u \in Stated : u.path = v.path /\ Later(u, v)}
  <2>1. a \in {[path |-> w.path, value |-> w.value] : w \in Asking}
    BY DEF Asked, Documents
  <2>2. Asking \subseteq Wishes
    OBVIOUS
  <2> HIDE DEF Asking, Wishes
  <2> QED
    BY <2>1, <2>2
<1>2. PICK w \in Wishes : a.path = w.path
  BY <1>1
<1>3. PICK t \in DOMAIN list : w \in InTarget(t)
  <2> HIDE DEF InTarget
  <2> QED
    BY <1>2
<1>4. PICK d \in Documents(tree) : Matches(tree, d, list[t]) /\ w \in InDocument(t, d)
  <2> HIDE DEF InDocument
  <2> QED
    BY <1>3
<1>5. PICK k \in DOMAIN list[t].patches : w = Wish(t, k, d)
  BY <1>4
<1> QED
  BY <1>2, <1>4, <1>5

\* The fields a step of Write changes.
Changed == {f.path : f \in Fields(Tree(text')) \ Fields(Tree(text))}

LEMMA ChangedIsClaimed ==
  ASSUME NEW key, OneKey(key), mine \in DOMAIN Layouts,
         Exact(text, text', Layouts[mine], Data(release)),
         NEW p \in Changed
  PROVE  p \in DOMAIN key /\ key[p] \in Claims(mine)
<1>1. PICK f \in Fields(Tree(text')) \ Fields(Tree(text)) : f.path = p
  BY DEF Changed
<1>2. f \in Asked(Tree(text), Layouts[mine], Data(release))
  BY <1>1 DEF Exact
<1> DEFINE tree == Tree(text)
           data == Data(release)
<1> HIDE DEF tree, data
<1>3. \E t \in DOMAIN Layouts[mine] :
        \E k \in DOMAIN Layouts[mine][t].patches : \E d \in Documents(tree) :
          /\ Matches(tree, d, Layouts[mine][t])
          /\ f.path = <<d>> \o Layouts[mine][t].patches[k].field
  <2>1. f \in Asked(tree, Layouts[mine], data)
    BY <1>2 DEF tree, data
  <2> QED
    BY <2>1, AskedIsReached
<1>4. PICK t \in DOMAIN Layouts[mine] :
        \E k \in DOMAIN Layouts[mine][t].patches : \E d \in Documents(Tree(text)) :
          /\ Matches(Tree(text), d, Layouts[mine][t])
          /\ p = <<d>> \o Layouts[mine][t].patches[k].field
  BY <1>1, <1>3 DEF tree
<1>5. PICK k \in DOMAIN Layouts[mine][t].patches : \E d \in Documents(Tree(text)) :
        /\ Matches(Tree(text), d, Layouts[mine][t])
        /\ p = <<d>> \o Layouts[mine][t].patches[k].field
  BY <1>4
<1>6. p \in DOMAIN key /\ key[p] = KeyOf(Layouts[mine][t], Layouts[mine][t].patches[k])
  BY <1>5 DEF OneKey
<1>7. Layouts[mine][t] \in ToSet(Layouts[mine])
      /\ Layouts[mine][t].patches[k] \in ToSet(Layouts[mine][t].patches)
  BY DEF ToSet
<1> QED
  BY <1>6, <1>7 DEF Claims, KeyOf

-----------------------------------------------------------------------------
(* The edits and the informer.                                             *)

LEMMA SameBehind ==
  ASSUME UNCHANGED <<targets, listed>>
  PROVE  Behind' = Behind
  BY DEF Behind

LEMMA EditBehind ==
  ASSUME TypeInv, NEW u \in Updaters, EditTargets(u)
  PROVE  /\ IsFiniteSet(Behind') /\ Cardinality(Behind') \in Nat
         /\ Cardinality(Behind') <= Cardinality(Behind) + 1
<1>1. Behind' \subseteq Behind \cup {u}
  BY DEF Behind, EditTargets, TypeInv
<1>2. IsFiniteSet(Behind) /\ Cardinality(Behind) \in Nat
  BY FS_CardinalityType DEF TypeInv
<1>3. /\ IsFiniteSet(Behind \cup {u})
      /\ Cardinality(Behind \cup {u}) \in Nat
      /\ Cardinality(Behind \cup {u}) <= Cardinality(Behind) + 1
  BY <1>2, FS_AddElement, FS_CardinalityType
<1>4. IsFiniteSet(Behind') /\ Cardinality(Behind') <= Cardinality(Behind \cup {u})
  BY <1>1, <1>3, FS_Subset
<1>5. Cardinality(Behind') \in Nat
  BY <1>4, FS_CardinalityType
<1> QED
  BY <1>2, <1>3, <1>4, <1>5

LEMMA SyncBehind ==
  ASSUME TypeInv, NEW u \in Updaters, Sync(u)
  PROVE  /\ IsFiniteSet(Behind') /\ Cardinality(Behind') \in Nat
         /\ Cardinality(Behind') = Cardinality(Behind) - 1
<1>1. Behind' = Behind \ {u} /\ u \in Behind
  BY DEF Behind, Sync, TypeInv
<1>2. IsFiniteSet(Behind)
  BY DEF TypeInv
<1>3. IsFiniteSet(Behind') /\ Cardinality(Behind') = Cardinality(Behind) - 1
  BY <1>1, <1>2, FS_RemoveElement
<1> QED
  BY <1>3, FS_CardinalityType

\* Deliveries only add up; a step that changes the informer's copies adds one.
LEMMA DeliveredGrows ==
  ASSUME TypeInv, [Next]_vars
  PROVE  /\ Delivered \in Nat /\ Delivered' \in Nat
         /\ Delivered <= Delivered'
         /\ listed' # listed => Delivered < Delivered'
<1>1. Cardinality(Behind) \in Nat /\ Cardinality(Behind) <= edits /\ edits \in Nat
  BY FS_CardinalityType DEF TypeInv
<1>2. CASE \E u \in Updaters : EditTargets(u)
  <2>1. PICK u \in Updaters : EditTargets(u)
    BY <1>2
  <2>2. /\ Cardinality(Behind') \in Nat
        /\ Cardinality(Behind') <= Cardinality(Behind) + 1
    BY <2>1, EditBehind
  <2>3. edits' = edits + 1 /\ listed' = listed
    BY <2>1 DEF EditTargets
  <2> QED
    BY <1>1, <2>2, <2>3 DEF Delivered
<1>3. CASE \E u \in Updaters : Sync(u)
  <2>1. PICK u \in Updaters : Sync(u)
    BY <1>3
  <2>2. /\ Cardinality(Behind') \in Nat
        /\ Cardinality(Behind') = Cardinality(Behind) - 1
    BY <2>1, SyncBehind
  <2>3. edits' = edits
    BY <2>1 DEF Sync
  <2> QED
    BY <1>1, <2>2, <2>3 DEF Delivered
<1>4. CASE UNCHANGED <<targets, listed, edits>>
  <2>1. Behind' = Behind
    BY <1>4, SameBehind
  <2> QED
    BY <1>1, <1>4, <2>1 DEF Delivered
<1>5. ASSUME ~\E u \in Updaters : EditTargets(u) \/ Sync(u)
      PROVE  UNCHANGED <<targets, listed, edits>>
  BY <1>5 DEF Next, Reconcile, Get, CheckOwners, Resolve, Write, Publish, vars, world
<1> QED
  BY <1>2, <1>3, <1>4, <1>5

-----------------------------------------------------------------------------
(* A write and the history it leaves.                                      *)

\* The fields a write changes are its updater's, and those it takes over are
\* handed over once more.
LEMMA WriteHistory ==
  ASSUME TypeInv, Write, ~UNCHANGED history
  PROVE  /\ writer' = [p \in Changed \cup DOMAIN writer |->
                         IF p \in Changed THEN me ELSE writer[p]]
         /\ DOMAIN handovers' \subseteq DOMAIN writer'
         /\ handovers' \in [DOMAIN handovers' -> Nat]
         /\ \A p : Times(p)' = IF p \in Changed THEN Due(p) ELSE Times(p)
<1> DEFINE taken == {p \in Changed \cap DOMAIN writer : writer[p] # me}
<1>1. PICK after \in UpdateManifest(text, Layouts[mine], Data(release)) :
        LET changed == {f.path : f \in Fields(Tree(after)) \ Fields(Tree(text))}
            given == {p \in changed \cap DOMAIN writer : writer[p] # me}
        IN  /\ text' = after
            /\ writer' = [p \in changed \cup DOMAIN writer |->
                            IF p \in changed THEN me ELSE writer[p]]
            /\ handovers' = handovers (+) SetToBag(given)
  BY DEF Write
<1>2. /\ writer' = [p \in Changed \cup DOMAIN writer |->
                      IF p \in Changed THEN me ELSE writer[p]]
      /\ handovers' = handovers (+) SetToBag(taken)
  BY <1>1 DEF Changed
<1> HIDE DEF taken
<1>3. handovers' = [p \in DOMAIN handovers \cup taken |->
                      (IF p \in DOMAIN handovers THEN handovers[p] ELSE 0)
                      + (IF p \in taken THEN 1 ELSE 0)]
  BY <1>2 DEF (+), SetToBag
<1>4. \A p \in DOMAIN handovers : handovers[p] \in Nat
  BY DEF TypeInv
<1>5. handovers' \in [DOMAIN handovers' -> Nat]
  BY <1>3, <1>4
<1>6. DOMAIN handovers' \subseteq DOMAIN writer'
  <2>1. taken \subseteq DOMAIN writer /\ DOMAIN handovers \subseteq DOMAIN writer
    BY DEF taken, TypeInv
  <2> QED
    BY <1>2, <1>3, <2>1
<1>7. ASSUME NEW p
      PROVE  Times(p)' = IF p \in Changed THEN Due(p) ELSE Times(p)
  <2>1. Times(p)' = Times(p) + (IF p \in taken THEN 1 ELSE 0)
    BY <1>3, <1>4 DEF Times
  <2>2. Times(p) \in Nat
    BY <1>4 DEF Times
  <2>3. p \in taken <=> p \in Changed /\ p \in DOMAIN writer /\ writer[p] # me
    BY DEF taken
  <2> QED
    BY <2>1, <2>2, <2>3 DEF Due
<1> QED
  BY <1>2, <1>5, <1>6, <1>7

-----------------------------------------------------------------------------
(* Types.                                                                  *)

LEMMA InitTypes == Init => TypeInv
<1> SUFFICES ASSUME Init PROVE TypeInv
  OBVIOUS
<1>1. Behind = {}
  BY DEF Init, Behind
<1>2. IsFiniteSet(Behind) /\ Cardinality(Behind) = 0
  BY <1>1, FS_EmptySet
<1>3. DOMAIN writer = {} /\ DOMAIN handovers = {}
  BY DEF Init, EmptyBag, SetToBag
<1>4. writer \in [DOMAIN writer -> Updaters] /\ handovers \in [DOMAIN handovers -> Nat]
  <2>1. writer = [p \in {} |-> p] /\ handovers = [p \in {} |-> 1]
    BY DEF Init, EmptyBag, SetToBag
  <2> QED
    BY <2>1
<1> QED
  BY <1>2, <1>3, <1>4 DEF Init, TypeInv

LEMMA NextTypes == TypeInv /\ [Next]_vars => TypeInv'
<1> SUFFICES ASSUME TypeInv, [Next]_vars PROVE TypeInv'
  OBVIOUS
<1>1. ASSUME NEW u \in Updaters, Get(u)
      PROVE  TypeInv'
  BY <1>1, SameBehind DEF TypeInv, Get, world, history
<1>2. ASSUME NEW u \in Updaters, EditTargets(u)
      PROVE  TypeInv'
  <2>1. /\ IsFiniteSet(Behind') /\ Cardinality(Behind') \in Nat
        /\ Cardinality(Behind') <= Cardinality(Behind) + 1
    BY <1>2, EditBehind
  <2>2. Cardinality(Behind) \in Nat
    BY FS_CardinalityType DEF TypeInv
  <2>3. edits' \in Nat /\ Cardinality(Behind') <= edits'
    BY <1>2, <2>1, <2>2 DEF EditTargets, TypeInv
  <2> QED
    BY <1>2, <2>1, <2>3 DEF TypeInv, EditTargets, local, history
<1>3. ASSUME NEW u \in Updaters, Sync(u)
      PROVE  TypeInv'
  <2>1. /\ IsFiniteSet(Behind') /\ Cardinality(Behind') \in Nat
        /\ Cardinality(Behind') = Cardinality(Behind) - 1
    BY <1>3, SyncBehind
  <2>2. Cardinality(Behind) \in Nat
    BY FS_CardinalityType DEF TypeInv
  <2>3. edits' \in Nat /\ Cardinality(Behind') <= edits'
    BY <1>3, <2>1, <2>2 DEF Sync, TypeInv
  <2> QED
    BY <1>3, <2>1, <2>3 DEF TypeInv, Sync, local, history
<1>4. CASE CheckOwners
  BY <1>4, SameBehind DEF TypeInv, CheckOwners, EndReconcile, world, local, history
<1>5. CASE Resolve
  BY <1>5, SameBehind DEF TypeInv, Resolve, EndReconcile, world, local, history
<1>6. CASE Write
  <2>1. /\ writer' \in [DOMAIN writer' -> Updaters]
        /\ handovers' \in [DOMAIN handovers' -> Nat]
        /\ DOMAIN handovers' \subseteq DOMAIN writer'
    <3>1. CASE UNCHANGED history
      BY <3>1 DEF history, TypeInv
    <3>2. CASE ~UNCHANGED history
      <4>1. me \in Updaters
        BY <1>6 DEF Write, TypeInv
      <4>2. \A p \in DOMAIN writer : writer[p] \in Updaters
        BY DEF TypeInv
      <4> QED
        BY <1>6, <3>2, <4>1, <4>2, WriteHistory
    <3> QED
      BY <3>1, <3>2
  <2> QED
    BY <1>6, <2>1, SameBehind DEF TypeInv, Write, EndReconcile, world
<1>7. CASE Publish
  BY <1>7, SameBehind DEF TypeInv, Publish, local, history
<1>8. CASE UNCHANGED vars
  BY <1>8, SameBehind DEF TypeInv, vars, world, local, history
<1> QED
  BY <1>1, <1>2, <1>3, <1>4, <1>5, <1>6, <1>7, <1>8 DEF Next, Reconcile

-----------------------------------------------------------------------------
(* Fields, their writers and the edits.                                    *)

\* The step UpdateIsExact allows.
ExactStep ==
  pc = "write" /\ pc' = "idle" /\ text' # text =>
    Exact(text, text', Layouts[mine], Data(release))

LEMMA TimesType ==
  ASSUME TypeInv
  PROVE  \A p : Times(p) \in Nat /\ Due(p) \in Nat /\ Times(p) <= Due(p)
<1>1. \A p : Times(p) \in Nat
  BY DEF TypeInv, Times
<1> QED
  BY <1>1 DEF Due

\* While nothing is written, a delivery pays for whatever it changes.
LEMMA KeptUnwritten ==
  ASSUME NEW key, TypeInv, [Next]_vars, UNCHANGED history, Kept(key)
  PROVE  Kept(key)'
<1>1. \A p : Times(p)' = Times(p) /\ Times(p) \in Nat
  BY TimesType DEF history, Times
<1>2. /\ Delivered \in Nat /\ Delivered' \in Nat
      /\ Delivered <= Delivered'
      /\ listed' # listed => Delivered < Delivered'
  BY DeliveredGrows
<1>3. SUFFICES ASSUME NEW p \in DOMAIN writer
               PROVE  /\ Times(p) <= Delivered'
                      /\ Times(p) < Delivered' \/ ClaimedOnlyBy(writer[p], key[p])'
  BY <1>1 DEF Kept, history
<1>4. Times(p) <= Delivered /\ (Times(p) < Delivered \/ ClaimedOnlyBy(writer[p], key[p]))
  BY DEF Kept
<1>5. CASE listed' = listed
  <2>1. ClaimedOnlyBy(writer[p], key[p])' <=> ClaimedOnlyBy(writer[p], key[p])
    BY <1>5 DEF ClaimedOnlyBy, history
  <2> QED
    BY <1>1, <1>2, <1>4, <2>1
<1>6. CASE listed' # listed
  BY <1>1, <1>2, <1>4, <1>6
<1> QED
  BY <1>5, <1>6

LEMMA EarnedUnwritten ==
  ASSUME NEW key, TypeInv, [Next]_vars, UNCHANGED <<history, me, mine>>,
         pc # "idle", pc = "owners" /\ pc' # "owners" => ~Conflict(listed) /\ listed' = listed,
         pc' = "owners" => pc = "owners", Earned(key)
  PROVE  Earned(key)'
<1>1. \A p : Due(p)' = Due(p) /\ Due(p) \in Nat
  BY TimesType DEF history, Times, Due
<1>2. /\ Delivered \in Nat /\ Delivered' \in Nat
      /\ Delivered <= Delivered'
      /\ listed' # listed => Delivered < Delivered'
  BY DeliveredGrows
<1>3. SUFFICES ASSUME NEW p \in DOMAIN key, key[p] \in Claims(mine)
               PROVE  /\ Due(p) <= Delivered'
                      /\ \/ Due(p) < Delivered'
                         \/ listed'[me] = mine /\ (pc' # "owners" => ~Conflict(listed'))
  BY <1>1 DEF Earned
<1>4. /\ Due(p) <= Delivered
      /\ Due(p) < Delivered \/ (listed[me] = mine /\ (pc # "owners" => ~Conflict(listed)))
  BY <1>3 DEF Earned
<1>5. CASE listed' = listed
  BY <1>1, <1>2, <1>4, <1>5
<1>6. CASE listed' # listed
  BY <1>1, <1>2, <1>4, <1>6
<1> QED
  BY <1>5, <1>6

LEMMA InitHandovers == ASSUME NEW key PROVE Init => HandoverInv(key)
<1> SUFFICES ASSUME Init PROVE HandoverInv(key)
  OBVIOUS
<1>1. DOMAIN writer = {} /\ pc = "idle"
  BY DEF Init
<1> QED
  BY <1>1 DEF HandoverInv, Kept, Earned

\* When the worker takes an updater, its fields are its own, nobody's, or were
\* somebody else's before a delivery that is not yet spent.
LEMMA GetHandovers ==
  ASSUME NEW key, TypeInv, HandoverInv(key), [Next]_vars, NEW u \in Updaters, Get(u)
  PROVE  HandoverInv(key)'
<1>1. UNCHANGED <<history, listed, targets, edits>> /\ me' = u /\ mine' = listed[u] /\ pc' = "owners"
  BY DEF Get, world
<1>2. Kept(key)'
  BY <1>1, KeptUnwritten DEF HandoverInv
<1>3. Earned(key)'
  <2>1. SUFFICES ASSUME NEW p \in DOMAIN key, key[p] \in Claims(listed[u])
                 PROVE  Due(p)' <= Delivered'
    BY <1>1 DEF Earned
  <2>2. Delivered \in Nat /\ Delivered' = Delivered
    BY <1>1, DeliveredGrows DEF Delivered, Behind
  <2>3. Times(p) \in Nat /\ Times(p)' = Times(p)
    BY <1>1, TimesType DEF Times, history
  <2>4. CASE p \in DOMAIN writer /\ writer[p] # u
    <3>1. Times(p) <= Delivered /\ (Times(p) < Delivered \/ ClaimedOnlyBy(writer[p], key[p]))
      BY <2>4 DEF HandoverInv, Kept
    <3>2. ~ClaimedOnlyBy(writer[p], key[p])
      BY <2>1, <2>4 DEF ClaimedOnlyBy
    <3>3. Due(p)' = Times(p) + 1
      BY <1>1, <2>3, <2>4 DEF Due, history
    <3> QED
      BY <2>2, <2>3, <3>1, <3>2, <3>3
  <2>5. CASE p \in DOMAIN writer /\ writer[p] = u
    <3>1. Times(p) <= Delivered
      BY <2>5 DEF HandoverInv, Kept
    <3>2. Due(p)' = Times(p)
      BY <1>1, <2>3, <2>5 DEF Due, history
    <3> QED
      BY <2>2, <3>1, <3>2
  <2>6. CASE p \notin DOMAIN writer
    <3>1. Times(p) = 0
      BY <2>6 DEF Times, TypeInv
    <3>2. Due(p)' = 0
      BY <1>1, <2>3, <2>6, <3>1 DEF Due, history
    <3> QED
      BY <2>2, <3>2
  <2> QED
    BY <2>4, <2>5, <2>6
<1> QED
  BY <1>1, <1>2, <1>3 DEF HandoverInv, history

\* What is written belongs to its writer alone, or a delivery is left over.
LEMMA WriteHandovers ==
  ASSUME NEW key, TypeInv, HandoverInv(key), [Next]_vars, OneKey(key), ExactStep, Write
  PROVE  HandoverInv(key)'
<1>1. pc = "write" /\ pc' = "idle" /\ UNCHANGED <<targets, listed, edits>>
  BY DEF Write, EndReconcile, world
<1>2. Earned(key)'
  BY <1>1 DEF Earned
<1>3. CASE UNCHANGED history
  <2>1. Kept(key)'
    BY <1>3, KeptUnwritten DEF HandoverInv
  <2> QED
    BY <1>2, <1>3, <2>1 DEF HandoverInv, history
<1>4. CASE ~UNCHANGED history
  <2>1. /\ writer' = [p \in Changed \cup DOMAIN writer |->
                        IF p \in Changed THEN me ELSE writer[p]]
        /\ \A p : Times(p)' = IF p \in Changed THEN Due(p) ELSE Times(p)
    BY <1>4, WriteHistory
  <2>2. Delivered \in Nat /\ Delivered' = Delivered
    BY <1>1, DeliveredGrows DEF Delivered, Behind
  <2>3. me \in Updaters /\ mine \in DOMAIN Layouts
    BY <1>1 DEF TypeInv
  <2>4. \A p \in Changed : p \in DOMAIN key /\ key[p] \in Claims(mine)
    <3>1. CASE text' = text
      BY <3>1 DEF Changed
    <3>2. CASE text' # text
      <4>1. Exact(text, text', Layouts[mine], Data(release))
        BY <1>1, <3>2 DEF ExactStep
      <4> QED
        BY <2>3, <4>1, ChangedIsClaimed
    <3> QED
      BY <3>1, <3>2
  <2>5. ASSUME NEW p \in DOMAIN writer'
        PROVE  /\ Times(p)' <= Delivered'
               /\ Times(p)' < Delivered' \/ ClaimedOnlyBy(writer[p], key[p])'
    <3>1. CASE p \in Changed
      <4>1. Times(p)' = Due(p) /\ writer'[p] = me
        BY <2>1, <3>1
      <4>2. /\ Due(p) <= Delivered
            /\ Due(p) < Delivered \/ (listed[me] = mine /\ ~Conflict(listed))
        BY <1>1, <2>4, <3>1 DEF HandoverInv, Earned
      <4>3. ASSUME listed[me] = mine, ~Conflict(listed)
            PROVE  ClaimedOnlyBy(me, key[p])
        BY <2>3, <2>4, <3>1, <4>3 DEF ClaimedOnlyBy, Conflict
      <4>4. ClaimedOnlyBy(writer[p], key[p])' <=> ClaimedOnlyBy(me, key[p])
        BY <1>1, <4>1 DEF ClaimedOnlyBy
      <4> QED
        BY <2>2, <4>1, <4>2, <4>3, <4>4
    <3>2. CASE p \notin Changed
      <4>1. p \in DOMAIN writer /\ Times(p)' = Times(p) /\ writer'[p] = writer[p]
        BY <2>1, <3>2
      <4>2. /\ Times(p) <= Delivered
            /\ Times(p) < Delivered \/ ClaimedOnlyBy(writer[p], key[p])
        BY <4>1 DEF HandoverInv, Kept
      <4>3. ClaimedOnlyBy(writer[p], key[p])' <=> ClaimedOnlyBy(writer[p], key[p])
        BY <1>1, <4>1 DEF ClaimedOnlyBy
      <4> QED
        BY <2>2, <4>1, <4>2, <4>3
    <3> QED
      BY <3>1, <3>2
  <2>6. Kept(key)'
    BY <2>5 DEF Kept
  <2>7. DOMAIN writer' \subseteq DOMAIN key
    BY <2>1, <2>4 DEF HandoverInv
  <2> QED
    BY <1>2, <2>6, <2>7 DEF HandoverInv
<1> QED
  BY <1>3, <1>4

LEMMA NextHandovers ==
  ASSUME NEW key, TypeInv, HandoverInv(key), [Next]_vars, OneKey(key), ExactStep
  PROVE  HandoverInv(key)'
<1>1. ASSUME NEW u \in Updaters, Get(u)
      PROVE  HandoverInv(key)'
  BY <1>1, GetHandovers
<1>2. CASE Write
  BY <1>2, WriteHandovers
<1>3. ASSUME UNCHANGED history,
             pc' = "idle" \/ (pc' = pc /\ UNCHANGED local)
                          \/ (pc = "owners" /\ ~Conflict(listed) /\ UNCHANGED <<listed, local>>)
                          \/ (pc = "resolve" /\ pc' = "write" /\ UNCHANGED <<me, mine>>)
      PROVE  HandoverInv(key)'
  <2>1. Kept(key)' /\ DOMAIN writer' \subseteq DOMAIN key
    BY <1>3, KeptUnwritten DEF HandoverInv, history
  <2>2. CASE pc = "idle" \/ pc' = "idle"
    BY <1>3, <2>1, <2>2 DEF HandoverInv, Earned
  <2>3. CASE pc # "idle" /\ pc' # "idle"
    <3>1. UNCHANGED <<history, me, mine>>
      BY <1>3, <2>3 DEF local
    <3>2. pc = "owners" /\ pc' # "owners" => ~Conflict(listed) /\ listed' = listed
      BY <1>3, <2>3
    <3>3. pc' = "owners" => pc = "owners"
      BY <1>3, <2>3
    <3>4. Earned(key)'
      BY <2>3, <3>1, <3>2, <3>3, EarnedUnwritten DEF HandoverInv
    <3> QED
      BY <2>1, <3>4 DEF HandoverInv
  <2> QED
    BY <2>2, <2>3
<1>4. ASSUME NEW u \in Updaters, EditTargets(u) \/ Sync(u)
      PROVE  HandoverInv(key)'
  BY <1>3, <1>4 DEF EditTargets, Sync
<1>5. CASE CheckOwners
  BY <1>3, <1>5 DEF CheckOwners, EndReconcile, world
<1>6. CASE Resolve
  BY <1>3, <1>6 DEF Resolve, EndReconcile
<1>7. CASE Publish
  BY <1>3, <1>7 DEF Publish
<1>8. CASE UNCHANGED vars
  BY <1>3, <1>8 DEF vars, history
<1> QED
  BY <1>1, <1>2, <1>4, <1>5, <1>6, <1>7, <1>8 DEF Next, Reconcile

LEMMA HandoversArePaid ==
  ASSUME NEW key, TypeInv, HandoverInv(key)
  PROVE  HandoversAreEdits
<1>1. SUFFICES ASSUME NEW p \in DOMAIN handovers
               PROVE  handovers[p] <= edits
  BY DEF HandoversAreEdits
<1>2. Times(p) <= Delivered /\ Times(p) = handovers[p] /\ Times(p) \in Nat
  BY TimesType DEF HandoverInv, Kept, Times, TypeInv
<1>3. Cardinality(Behind) \in Nat /\ edits \in Nat
  BY FS_CardinalityType DEF TypeInv
<1> QED
  BY <1>2, <1>3 DEF Delivered

\* Provided an update changes the fields of its targets and no others, and no
\* field has two keys, updaters take a field from each other at most once per
\* edit of their targets: for any number of updaters and edits, however late
\* the informer sees them, and although the list in which validateFieldOwnership
\* looks for a conflict is younger than the copy Reconcile then writes with.
THEOREM FieldsAreNotFoughtOver ==
  ASSUME NEW CONSTANT key
  PROVE  Spec /\ UpdateIsExact /\ []OneKey(key) => []HandoversAreEdits
<1>1. Init => TypeInv /\ HandoverInv(key)
  BY InitTypes, InitHandovers
<1>2. TypeInv /\ HandoverInv(key) /\ OneKey(key) /\ [Next]_vars /\ [ExactStep]_vars
        => (TypeInv /\ HandoverInv(key))'
  <2> SUFFICES ASSUME TypeInv, HandoverInv(key), OneKey(key), [Next]_vars, [ExactStep]_vars
               PROVE  TypeInv' /\ HandoverInv(key)'
    OBVIOUS
  <2>1. ExactStep
    BY DEF ExactStep, vars
  <2> QED
    BY <2>1, NextTypes, NextHandovers
<1>3. TypeInv /\ HandoverInv(key) => HandoversAreEdits
  BY HandoversArePaid
<1>4. UpdateIsExact <=> [][ExactStep]_vars
  BY DEF UpdateIsExact, ExactStep
<1> QED
  BY <1>1, <1>2, <1>3, <1>4, PTL DEF Spec

-----------------------------------------------------------------------------
(* The tag that is written, and the manifest.                              *)

LEMMA InitTyped == Init => Typed
<1> SUFFICES ASSUME Init PROVE Typed
  OBVIOUS
<1>1. writer = <<>> /\ handovers = EmptyBag /\ DOMAIN writer = {}
  BY DEF Init
<1>2. writer \in [DOMAIN writer -> Updaters]
  <2>1. writer = [p \in {} |-> p]
    BY <1>1
  <2> QED
    BY <2>1
<1>3. IsABag(handovers) /\ DOMAIN handovers \subseteq DOMAIN writer
  BY <1>1 DEF EmptyBag, SetToBag, IsABag
<1>4. published \subseteq Tags /\ edits \in 0..MaxEdits
  BY BoundsAssumption DEF Init
<1> QED
  BY <1>2, <1>3, <1>4 DEF Init, Typed

\* Whatever is handed over was handed over at least once.
LEMMA WriteBag ==
  ASSUME Typed, TypeInv, Write
  PROVE  /\ IsABag(handovers')
         /\ DOMAIN handovers' \subseteq DOMAIN writer'
         /\ writer' \in [DOMAIN writer' -> Updaters]
<1>1. CASE UNCHANGED history
  BY <1>1 DEF Typed, history
<1>2. CASE ~UNCHANGED history
  <2>1. PICK taken : /\ taken \subseteq DOMAIN writer
                     /\ handovers' = handovers (+) SetToBag(taken)
    BY <1>2 DEF Write
  <2>2. handovers' = [p \in DOMAIN handovers \cup taken |->
                        (IF p \in DOMAIN handovers THEN handovers[p] ELSE 0)
                        + (IF p \in taken THEN 1 ELSE 0)]
    BY <2>1 DEF (+), SetToBag
  <2>3. \A p \in DOMAIN handovers : handovers[p] \in Nat /\ handovers[p] > 0
    BY DEF Typed, IsABag
  <2>4. IsABag(handovers')
    BY <2>2, <2>3 DEF IsABag
  <2>5. DOMAIN handovers' \subseteq DOMAIN writer'
    BY <1>2, WriteHistory
  <2>6. writer' \in [DOMAIN writer' -> Updaters]
    <3>1. me \in Updaters
      BY DEF Write, TypeInv
    <3>2. \A p \in DOMAIN writer : writer[p] \in Updaters
      BY DEF TypeInv
    <3> QED
      BY <1>2, <3>1, <3>2, WriteHistory
  <2> QED
    BY <2>4, <2>5, <2>6
<1> QED
  BY <1>1, <1>2

LEMMA NextTyped ==
  ASSUME Typed, TypeInv, [Next]_vars
  PROVE  Typed'
<1> USE DEF Typed
<1>1. ASSUME NEW u \in Updaters, Get(u)
      PROVE  Typed'
  BY <1>1 DEF Get, world, history
<1>2. ASSUME NEW u \in Updaters, EditTargets(u)
      PROVE  Typed'
  <2>1. edits' \in 0..MaxEdits
    BY <1>2, BoundsAssumption DEF EditTargets
  <2>2. targets' \in [Updaters -> DOMAIN Layouts]
    BY <1>2 DEF EditTargets
  <2> QED
    BY <1>2, <2>1, <2>2 DEF EditTargets, local, history
<1>3. ASSUME NEW u \in Updaters, Sync(u)
      PROVE  Typed'
  BY <1>3 DEF Sync, local, history
<1>4. CASE CheckOwners
  BY <1>4 DEF CheckOwners, EndReconcile, world, local, history
<1>5. CASE Resolve
  <2>1. /\ me' \in Updaters \cup {NoOne} /\ mine' \in DOMAIN Layouts \cup {NoLayout}
        /\ pc' \in {"idle", "write"} /\ (pc' = "idle" => release' = NoTag)
    BY <1>5 DEF Resolve, EndReconcile
  <2>2. release' \in Tags \cup {NoTag}
    BY <1>5, <2>1, ResolveTakes
  <2> QED
    BY <1>5, <2>1, <2>2 DEF Resolve, world, history
<1>6. CASE Write
  <2>1. /\ pc' = "idle" /\ me' = NoOne /\ mine' = NoLayout /\ release' = NoTag
        /\ UNCHANGED <<targets, listed, published, edits>>
    BY <1>6 DEF Write, EndReconcile, world
  <2> QED
    BY <1>6, <2>1, WriteBag
<1>7. CASE Publish
  BY <1>7 DEF Publish, local, history
<1>8. CASE UNCHANGED vars
  BY <1>8 DEF vars, world, local, history
<1> QED
  BY <1>1, <1>2, <1>3, <1>4, <1>5, <1>6, <1>7, <1>8 DEF Next, Reconcile

\* Reconcile holds a tag of the source or none (whatever the matcher makes of
\* the listing), each changed field has one of the updaters for its writer, and
\* only such fields are handed over.  What a write makes of the text is not
\* looked at here.
THEOREM VariablesAreTyped == Spec => []Typed
<1>1. Init => TypeInv /\ Typed
  BY InitTypes, InitTyped
<1>2. TypeInv /\ Typed /\ [Next]_vars => (TypeInv /\ Typed)'
  BY NextTypes, NextTyped
<1> QED
  BY <1>1, <1>2, PTL DEF Spec

\* The step NewestIsWritten allows.
NewestStep ==
  pc' = "write" /\ pc # "write" => \A t \in published : t.matches => t.n <= release'.n

\* If all tags that match have a build number, the one Latest takes has the
\* highest of those published: for any number of tags and in whatever order
\* the source lists them.  Without the hypothesis the comparator is no order
\* and what it finds depends on the listing.
THEOREM NewestIsTaken ==
  ASSUME Numbered
  PROVE  Spec => NewestIsWritten
<1>1. Init => published \subseteq Tags
  BY DEF Init
<1>2. published \subseteq Tags /\ [Next]_vars => (published \subseteq Tags)'
  <2> SUFFICES ASSUME published \subseteq Tags, [Next]_vars
               PROVE  published' \subseteq Tags
    OBVIOUS
  <2>1. CASE Publish
    BY <2>1 DEF Publish
  <2>2. CASE UNCHANGED published
    BY <2>2
  <2> QED
    BY <2>1, <2>2 DEF Next, Reconcile, Get, EditTargets, Sync, CheckOwners, Resolve, Write,
                      vars, world
<1>3. published \subseteq Tags /\ [Next]_vars => [NewestStep]_vars
  <2> SUFFICES ASSUME published \subseteq Tags, Next, pc' = "write", pc # "write"
               PROVE  \A t \in published : t.matches => t.n <= release'.n
    BY DEF NewestStep, vars
  <2>1. Resolve
    BY DEF Next, Reconcile, Get, EditTargets, Sync, CheckOwners, Write, EndReconcile, Publish
  <2> QED
    BY <2>1, Numbered, ResolveTakes
<1>4. NewestIsWritten <=> [][NewestStep]_vars
  BY DEF NewestIsWritten, NewestStep
<1> QED
  BY <1>1, <1>2, <1>3, <1>4, PTL DEF Spec
=============================================================================
