------------------------ MODULE MCTransformationState ------------------------
(***************************************************************************)
(* A block of up to three units (one of them twice, or with scalars that    *)
(* join) and a second block, unprotected or with protections with and       *)
(* without context.  First every Patch of up to three text edits of the     *)
(* first block, or of up to two operations of every type, then every single *)
(* one on what it left.                                                    *)
(***************************************************************************)
EXTENDS TransformationState

(* Graphemes, as far as these scalars go: "m" is a combining mark, "r" and  *)
(* "n" are CR and LF, and "f" is a regional indicator, which joins the one  *)
(* before it unless that one has joined another.                            *)
FlagsUpto(text, i) == Cardinality({j \in 1..i : \A k \in j..i : text[k] = "f"})
Joined(text, i) ==
  \/ text[i] = "r" /\ text[i + 1] = "n"
  \/ text[i] \notin {"r", "n"} /\ text[i + 1] = "m"
  \/ text[i + 1] = "f" /\ FlagsUpto(text, i) % 2 = 1
MCSegments(text) == {i \in 0..Len(text) - 1 : i > 0 => ~Joined(text, i)}

Sel(id, rev, start, end, exact) ==
  [block |-> id, revision |-> rev, start |-> start, end |-> end, exact |-> exact,
   prefix |-> <<>>, suffix |-> <<>>]
At(doc, id, rev, start, end) == Sel(id, rev, start, end, Slice(TextOf(doc, id), start, end))

Block(id, text) == [id |-> id, text |-> text]
Doc(text, protections) ==
  [content |-> <<Block("one", text), Block("two", <<"y">>)>>,
   protections |-> protections, extensions |-> [k \in Keys |-> NoValue]]
Protect(text, start, end, prefix, suffix) ==
  [At(Doc(text, <<>>), "one", 0, start, end) EXCEPT !.prefix = prefix, !.suffix = suffix]

XYX == <<"x", "y", "x">>
XMY == <<"x", "m", "y">>
MX == <<"m", "x">>
XN == <<"x", "n">>
FFX == <<"f", "f", "x">>
MCDocuments ==
  {Doc(XYX, <<>>), Doc(XMY, <<>>), Doc(XYX, <<Protect(XYX, 2, 3, <<>>, <<>>)>>),
   Doc(XYX, <<Protect(XYX, 1, 2, <<"x">>, <<>>), Protect(XYX, 1, 1, <<>>, <<"y">>)>>),
   Doc(MX, <<Protect(MX, 0, 1, <<>>, <<>>)>>), Doc(XN, <<Protect(XN, 1, 2, <<>>, <<>>)>>),
   Doc(FFX, <<Protect(FFX, 0, 2, <<>>, <<>>)>>)}

Edit(sel, text) == [type |-> "replace-text", selector |-> sel, text |-> text]
Edits(doc, id, rev, texts) ==
  UNION {{Edit(At(doc, id, rev, start, end), text) : end \in start..Len(TextOf(doc, id)), text \in texts} :
           start \in 0..Len(TextOf(doc, id))}
Rejected(doc, rev) ==
  {Edit(Sel("one", rev + 1, 0, 0, <<>>), <<>>), Edit(Sel("one", rev, 0, 1, <<"m">>), <<>>),
   Edit(Sel("one", rev, 1, 9, <<>>), <<>>), Edit(Sel("four", rev, 0, 0, <<>>), <<>>),
   Edit([Sel("one", rev, 0, 0, <<>>) EXCEPT !.suffix = <<"y">>], <<>>)}

Inserts ==
  {[type |-> "insert-content-block", block |-> Block(id, <<"x">>), before |-> before] :
     id \in {"two", "three", "four"}, before \in {NoBlock, "one", "four"}}
OnBlocks(doc) ==
  UNION {{[type |-> "remove-content-block", blockId |-> id, expected |-> text],
          [type |-> "replace-content-block", blockId |-> id, expected |-> text,
           block |-> Block(id, <<"y", "x">>)]} :
           id \in {"one", "two", "three"}, text \in {<<"x">>, <<"y">>, TextOf(doc, Head(doc.content).id)}}
Renamed ==
  [type |-> "replace-content-block", blockId |-> "two", expected |-> <<"y">>,
   block |-> Block("three", <<>>)]
Extensions ==
  {[type |-> "set-namespaced-extension", key |-> k, value |-> v] : k \in Keys, v \in {<<"x">>, <<"y">>}}

Ops(doc, rev) ==
  Inserts \cup OnBlocks(doc) \cup {Renamed} \cup Extensions \cup Rejected(doc, rev)
    \cup Edits(doc, Last(doc.content).id, rev, {<<"x">>})

Upto(n, ops) == UNION {[1..k -> ops] : k \in 0..n}
Longest(doc) ==
  Upto(3, Edits(doc, "one", 0, {<<>>, <<"x", "y">>}))
    \cup Upto(2, Edits(doc, "one", 0, {<<"x">>, <<"m", "y">>}) \cup Ops(doc, 0))
    \cup Upto(2, Edits(doc, "one", 0, {<<"r">>, <<"f">>}))
MCProposals(doc, rev) ==
  {[baseRevision |-> rev, operations |-> ops] :
     ops \in IF rev = 0 THEN Longest(doc) ELSE Upto(1, Ops(doc, rev))}
  \cup {[baseRevision |-> rev + 1, operations |-> <<Renamed>>]}
=============================================================================
