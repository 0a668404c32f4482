---------------------------- MODULE ManifestText ----------------------------
(***************************************************************************)
(* Editing a manifest in place (internal/writeback/yaml.go): the manifest  *)
(* is parsed for its structure, the rendered fields are set in the tree,   *)
(* and the tree's changes are carried out on the text by their positions,  *)
(* so that every other line stays as it was.                               *)
(*                                                                         *)
(*   - A manifest is the sequence of its lines.  A line is a separator, a  *)
(*     comment (or a blank line), or an entry "key: value", the first of a *)
(*     list item when it has a dash.  indent is the column of its key.     *)
(*   - A node is named by its path: its document, then keys and indices of *)
(*     lists.  Keys are not numerals.                                      *)
(*   - Lines are block style, and their scalars one line of plain or       *)
(*     quoted text: quoting, line ends and the end of a token, which the   *)
(*     code computes, are not told apart here.  There is no empty scalar,  *)
(*     no flow mapping and no anchor.                                      *)
(***************************************************************************)
EXTENDS Integers, Sequences, FiniteSets, SequencesExt

NoValue == ""     \* what an entry that heads a mapping or a list has

Indices == {ToString(i) : i \in 0..9}

-----------------------------------------------------------------------------
(* Parsing.                                                                *)

IsSeparator(line) == line.key = "---"
IsComment(line) == line.key = "#"

\* The line that heads the mapping of line i: the last one indented less, or
\* the separator above the document, or 0.
Heading(text, i) ==
  LET above == {j \in 1..i - 1 : \/ IsSeparator(text[j])
                                 \/ ~IsComment(text[j]) /\ text[j].indent < text[i].indent}
  IN  IF above = {} THEN 0 ELSE CHOOSE j \in above : above \cap j + 1..i - 1 = {}

\* The lines of i's mapping, or of its list of mappings, up to i.
Siblings(text, heading, i) ==
  {j \in heading + 1..i : ~IsComment(text[j]) /\ text[j].indent = text[i].indent}

\* The lines with entries, in order.
Entries(text) ==
  SelectSeq([i \in DOMAIN text |-> i], LAMBDA i : ~IsSeparator(text[i]) /\ ~IsComment(text[i]))

\* The tree of the decoder, in the order of its lines.
Tree(text) ==
  LET lines == Entries(text)
      document(i) == Cardinality({j \in 1..i : IsSeparator(text[j])})
      path[i \in DOMAIN text] ==
        LET above == Heading(text, i)
            items == Cardinality({j \in Siblings(text, above, i) : text[j].dash})
        IN  (IF above = 0 \/ IsSeparator(text[above]) THEN <<ToString(document(i))>>
             ELSE path[above])
              \o (IF items = 0 THEN <<>> ELSE <<ToString(items - 1)>>)
              \o <<text[i].key>>
  IN  [k \in DOMAIN lines |->
         [path |-> path[lines[k]], value |-> text[lines[k]].value, line |-> lines[k]]]

\* What the decoder accepts: entries are nested under the head of a mapping,
\* the keys of a mapping are aligned and distinct, and only such heads have
\* no value.
WellFormed(text) ==
  LET lines == Entries(text)
      tree == Tree(text)
  IN  /\ \A k \in DOMAIN lines :
           LET i == lines[k]
               above == Heading(text, i)
               siblings == Siblings(text, above, i)
           IN  /\ above = 0 \/ IsSeparator(text[above]) \/ text[above].value = NoValue
               /\ \A j \in above + 1..i : IsComment(text[j]) \/ text[j].indent >= text[i].indent
               /\ (\E j \in siblings : text[j].dash) => text[Min(siblings)].dash
               /\ text[i].value = NoValue => k < Len(lines) /\ Heading(text, lines[k + 1]) = i
      /\ IsInjective([k \in DOMAIN tree |-> tree[k].path])

-----------------------------------------------------------------------------
(* Setting fields in the tree.                                             *)

Refused == <<>>   \* an error, which leaves the manifest as it is

Has(tree, q) == \E k \in DOMAIN tree : IsPrefix(q, tree[k].path)

\* scalarAt: the value of the scalar at q, empty when there is none.
ScalarAt(tree, q) ==
  LET k == SelectInSeq(tree, LAMBDA n : n.path = q)
  IN  IF k = 0 THEN NoValue ELSE tree[k].value

IsList(tree, q) ==
  \E k \in DOMAIN tree : /\ IsStrictPrefix(q, tree[k].path)
                         /\ tree[k].path[Len(q) + 1] \in Indices

\* The selector of a target is one label's value.
Matches(tree, d, target) ==
  /\ ScalarAt(tree, <<d, "kind">>) = target.kind
  /\ target.name # "" => ScalarAt(tree, <<d, "metadata", "name">>) = target.name
  /\ IF target.selector = "" THEN target.name # ""
     ELSE ScalarAt(tree, <<d, "metadata", "labels", "app">>) = target.selector

\* The longest part of path that is in the tree.
Deepest(tree, path) ==
  SubSeq(path, 1, Max({k \in 1..Len(path) : Has(tree, SubSeq(path, 1, k))}))

\* The missing keys of path, appended to the mapping at q.
Grown(tree, q, path, value) ==
  LET last == SelectLastInSeq(tree, LAMBDA n : IsPrefix(q, n.path))
      missing == [k \in 1..(Len(path) - Len(q)) |->
                    [path |-> SubSeq(path, 1, Len(q) + k), line |-> 0,
                     value |-> IF Len(q) + k = Len(path) THEN value ELSE NoValue]]
  IN  SubSeq(tree, 1, last) \o missing \o SubSeq(tree, last + 1, Len(tree))

SetScalar(tree, path, value) ==
  LET q == Deepest(tree, path) IN
  CASE q = path /\ ScalarAt(tree, q) # NoValue ->
         [k \in DOMAIN tree |->
            IF tree[k].path = path THEN [tree[k] EXCEPT !.value = value] ELSE tree[k]]
    [] q # path /\ ScalarAt(tree, q) = NoValue /\ ~IsList(tree, q) ->
         Grown(tree, q, path, value)
    [] OTHER -> Refused

\* A template renders one key of the release; a blank value skips the field.
Patched(tree, d, patch, data) ==
  CASE tree = Refused \/ patch.template \notin DOMAIN data -> Refused
    [] data[patch.template] = "" -> tree
    [] OTHER -> SetScalar(tree, <<d>> \o patch.field, data[patch.template])

\* A target's patches, on every document it matches.
Retargeted(tree, target, data) ==
  LET docs == {d \in {tree[k].path[1] : k \in DOMAIN tree} : Matches(tree, d, target)}
  IN  IF docs = {} THEN Refused
      ELSE FoldLeft(LAMBDA t, d :
                      FoldLeft(LAMBDA u, p : Patched(u, d, p, data), t, target.patches),
                    tree, SetToSeq(docs))

-----------------------------------------------------------------------------
(* Carrying the changes over to the text.                                  *)

InText(tree, q) ==
  \E k \in DOMAIN tree : tree[k].line > 0 /\ IsPrefix(q, tree[k].path)

\* The mappings of the text that get new keys.
Growing(tree) ==
  {q \in {Front(tree[k].path) : k \in {j \in DOMAIN tree : tree[j].line = 0}} : InText(tree, q)}

FirstLine(tree, q) ==
  tree[SelectInSeq(tree, LAMBDA n : n.line > 0 /\ IsStrictPrefix(q, n.path))].line

\* Column of the first character that is not a space.
LineIndent(line) == IF line.dash THEN line.indent - 2 ELSE line.indent

\* Mutant: new keys go to the end of the file.
InsertionAtEnd(text, tree, q) == Len(text) + 1

\* mappingInsertionPoint: the first line after the mapping's first key that
\* is indented less, or the end of the file.
InsertionPoint(text, tree, q) ==
  LET first == FirstLine(tree, q)
      outside == {i \in first + 1..Len(text) :
                    ~IsComment(text[i]) /\ LineIndent(text[i]) < text[first].indent}
  IN  IF outside = {} THEN Len(text) + 1 ELSE Min(outside)

\* Mutant: new keys are all put at the column of the mapping.
RenderedFlat(text, tree, q) ==
  LET new == SelectSeq(tree, LAMBDA n : /\ IsStrictPrefix(q, n.path)
                                        /\ ~InText(tree, SubSeq(n.path, 1, Len(q) + 1)))
  IN  [k \in DOMAIN new |-> [indent |-> text[FirstLine(tree, q)].indent, dash |-> FALSE,
                             key |-> Last(new[k].path), value |-> new[k].value]]

\* The lines for the new keys of q.
RenderEntries(text, tree, q) ==
  LET new == SelectSeq(tree, LAMBDA n : /\ IsStrictPrefix(q, n.path)
                                        /\ ~InText(tree, SubSeq(n.path, 1, Len(q) + 1)))
      indent == text[FirstLine(tree, q)].indent
  IN  [k \in DOMAIN new |->
         [indent |-> indent + 2 * (Len(new[k].path) - Len(q) - 1), dash |-> FALSE,
          key |-> Last(new[k].path), value |-> new[k].value]]

\* Scalars are replaced where they stand, new keys go to their insertion
\* points; those of two mappings that end at the same line come in the order
\* in which a Go map is ranged over, which is any.
ApplyEdits(text, tree) ==
  LET at == [q \in Growing(tree) |-> InsertionPoint(text, tree, q)]
      entries == [q \in Growing(tree) |-> RenderEntries(text, tree, q)]
      edited == [i \in DOMAIN text |->
                   LET k == SelectInSeq(tree, LAMBDA n : n.line = i)
                   IN  IF k = 0 THEN text[i] ELSE [text[i] EXCEPT !.value = tree[k].value]]
      inserted(order, i) ==
        FlattenSeq([k \in DOMAIN order |-> IF at[order[k]] = i THEN entries[order[k]] ELSE <<>>])
  IN  {FlattenSeq([i \in 1..Len(text) + 1 |->
                     inserted(order, i) \o (IF i <= Len(text) THEN <<edited[i]>> ELSE <<>>)]) :
         order \in SetToSeqs(Growing(tree))}

\* The manifests an update may produce; none when it is refused.
UpdateManifest(text, targets, data) ==
  LET tree == FoldLeft(LAMBDA t, target : IF t = Refused THEN Refused
                                          ELSE Retargeted(t, target, data),
                       Tree(text), targets)
  IN  IF tree = Refused THEN {} ELSE ApplyEdits(text, tree)

-----------------------------------------------------------------------------
(* What an update is for, said without trees and positions.                *)

\* The scalars of a tree.
Fields(tree) ==
  {[path |-> tree[k].path, value |-> tree[k].value] :
     k \in {j \in DOMAIN tree : tree[j].value # NoValue}}

\* The values targets ask for in a tree: later patches win.
Asked(tree, targets, data) ==
  LET docs == {tree[k].path[1] : k \in DOMAIN tree}
      wishes ==
        UNION {UNION {{[at |-> <<t, k>>, path |-> <<d>> \o targets[t].patches[k].field,
                        value |-> data[targets[t].patches[k].template]] :
                         k \in DOMAIN targets[t].patches} :
                      d \in {e \in docs : Matches(tree, e, targets[t])}} :
               t \in DOMAIN targets}
      later(w, v) == w.at[1] > v.at[1] \/ (w.at[1] = v.at[1] /\ w.at[2] > v.at[2])
      stated == {w \in wishes : w.value # ""}
  IN  {[path |-> w.path, value |-> w.value] :
         w \in {v \in stated : ~\E u \in stated : u.path = v.path /\ later(u, v)}}

\* A text without its values and without the lines of nodes not at paths.
Skeleton(text, tree, paths) ==
  LET dropped == {tree[k].line : k \in {j \in DOMAIN tree : tree[j].path \notin paths}}
      kept == SelectSeq([i \in DOMAIN text |-> i], LAMBDA i : i \notin dropped)
  IN  [k \in DOMAIN kept |-> IF IsComment(text[kept[k]]) THEN text[kept[k]]
                             ELSE [text[kept[k]] EXCEPT !.value = NoValue]]

\* after is before with exactly the values asked for, and with every line of
\* before in its place.
Exact(before, after, targets, data) ==
  LET tree == Tree(before)
      new == Tree(after)
      asked == Asked(tree, targets, data)
      paths == {tree[k].path : k \in DOMAIN tree}
  IN  /\ WellFormed(after)
      /\ Fields(new) = asked \cup {f \in Fields(tree) : ~\E a \in asked : a.path = f.path}
      /\ Skeleton(after, new, paths) = Skeleton(before, tree, paths)
=============================================================================
