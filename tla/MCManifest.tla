----------------------------- MODULE MCManifest -----------------------------
(* Instances of Manifest for TLC.                                          *)
EXTENDS Manifest

L(indent, key, value) == [indent |-> indent, dash |-> FALSE, key |-> key, value |-> value]
D(indent, key, value) == [indent |-> indent, dash |-> TRUE, key |-> key, value |-> value]
Comment(indent) == L(indent, "#", "note")
Separator == L(0, "---", "")

\* An Application with a list of two sources, and a second document after it.
TwoDocuments ==
  << L(0, "kind", "App"),
     L(0, "metadata", ""),
     L(2, "name", "web"),
     L(2, "labels", ""),
     L(4, "app", "shop"),
     L(0, "spec", ""),
     L(2, "sources", ""),
     D(4, "rev", "v0"),
     Comment(4),
     D(4, "chart", "shop"),
     L(2, "project", "default"),
     Separator,
     L(0, "kind", "App"),
     L(0, "metadata", ""),
     L(2, "labels", ""),
     L(4, "app", "shop"),
     L(0, "spec", ""),
     L(2, "tag", "v0"),
     Comment(0) >>

Edit(name, selector, patches) ==
  [kind |-> "App", name |-> name, selector |-> selector, patches |-> patches]
P(field, template) == [field |-> field, template |-> template]

FirstRev == P(<<"spec", "sources", "0", "rev">>, "tag")
SecondRev == P(<<"spec", "sources", "1", "rev">>, "tag")
Image == P(<<"spec", "image", "tag">>, "tag")
ImageRev == P(<<"spec", "image", "rev">>, "rev")
ImageByRev == P(<<"spec", "image", "tag">>, "rev")
AppTag == P(<<"spec", "tag">>, "tag")
AppRev == P(<<"spec", "rev">>, "rev")
Nowhere == P(<<"spec", "project", "tag">>, "tag")

\* The revisions of both sources, one of them to add, and an image to add; a
\* tag in both documents, found by their label; a list with both targets that
\* sets the image in another way; and a path through a scalar, which is refused.
SomeLayouts ==
  [web |-> <<Edit("web", "", <<FirstRev, SecondRev, Image, ImageRev>>)>>,
   apps |-> <<Edit("", "shop", <<AppTag>>)>>,
   mixed |-> <<Edit("web", "", <<ImageByRev>>), Edit("", "shop", <<AppTag, AppRev>>)>>,
   bad |-> <<Edit("web", "", <<FirstRev, Nowhere>>)>>]

\* A mapping and the last mapping in it, each of which gets a key.
Nested ==
  << L(0, "kind", "App"),
     L(0, "metadata", ""),
     L(2, "name", "web"),
     L(0, "spec", ""),
     L(2, "image", ""),
     L(4, "tag", "v0") >>
NestedLayouts == [web |-> <<Edit("web", "", <<AppTag, ImageRev>>)>>]
NestedTexts == {Nested}

Tag(name, rev, n, rank) == [name |-> name, rev |-> rev, matches |-> TRUE, n |-> n, rank |-> rank]
OlderTag == Tag("v9", "", 9, 3)
NewerTag == Tag("v10", "sha", 10, 2)
OtherTag == [Tag("nightly", "", NotANumber, 4) EXCEPT !.matches = FALSE]

SomeTags == {OlderTag, NewerTag, OtherTag}
SomeTexts == {TwoDocuments}
=============================================================================
