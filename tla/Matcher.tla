------------------------------- MODULE Matcher -------------------------------
(***************************************************************************)
(* The choice of the newest tag (internal/matcher/matcher.go).             *)
(*                                                                         *)
(* A tag is a record: matches, whether the pattern matches its name; n,    *)
(* the number its n group captures, NotANumber when there is none or when  *)
(* Atoi rejects it; rank, its place in the lexicographic order of names.   *)
(* Captures of other groups are in Manifest's Data.                        *)
(***************************************************************************)
EXTENDS Integers, Sequences, SequencesExt

NotANumber == -1

\* Mutant: names are compared even where both have a build number.
BeforeByName(a, b) == a.rank > b.rank

\* The comparator of Latest: a goes before b.
Before(a, b) ==
  IF a.n # NotANumber /\ b.n # NotANumber THEN a.n > b.n ELSE a.rank > b.rank

\* All: the tags the pattern matches, in the order of the listing.
All(tags) ==
  LET results[k \in 0..Len(tags)] ==
        IF k = 0 THEN <<>>
        ELSE IF tags[k].matches THEN Append(results[k - 1], tags[k]) ELSE results[k - 1]
  IN  results[Len(tags)]

\* t moved to the left past those it goes before.
Inserted(done, t) ==
  InsertAt(done, SelectLastInSeq(done, LAMBDA u : ~Before(t, u)) + 1, t)

\* sort.Slice, which sorts up to twelve elements by insertion.
Sorted(tags) ==
  LET done[k \in 0..Len(tags)] == IF k = 0 THEN <<>> ELSE Inserted(done[k - 1], tags[k])
  IN  done[Len(tags)]

\* Mutant: the first one of the listing is taken.
FirstListed(tags) == Head(All(tags))

\* Latest: the newest of the tags that match.
Latest(tags) == Head(Sorted(All(tags)))
=============================================================================
