------------------------------ MODULE BindingTree ------------------------------
(***************************************************************************)
(* What a document as a whole stands for: the object that build() is to    *)
(* make of it, and the text that description() of doxyxml/text.py is to    *)
(* give of that.                                                           *)
(***************************************************************************)
EXTENDS Binding

-----------------------------------------------------------------------------
(* description()                                                           *)

\* Mutant: all mixed content is looked for in content_.
AlwaysMixed(o) == o.members["content_"]

Contents(o) ==
  IF "content" \in DOMAIN o.members THEN o.members["content"] ELSE o.members["content_"]

\* The text of an object, a paragraph followed by a break.
Break == <<[char |-> "break", at |-> 0]>>
RECURSIVE description_bit(_)
description_bit(o) ==
  IF o.class = "string" THEN o.text
  ELSE FoldLeft(LAMBDA done, item : done \o description_bit(item), <<>>, Contents(o))
         \o (IF o.tag = "para" THEN Break ELSE <<>>)

-----------------------------------------------------------------------------
(* What is to come of the whole document.                                  *)

\* The text in valueOf_: adjacent text makes one piece, CDATA keeps its own.
RECURSIVE Joined(_)
Joined(pieces) ==
  IF Len(pieces) < 2 THEN pieces
  ELSE LET rest == Joined(Tail(pieces))
           a == Head(pieces)
           b == Head(rest)
       IN  IF a.tag = "#text" /\ b.tag = "#text"
           THEN <<[a EXCEPT !.text = @ \o b.text]>> \o Tail(rest)
           ELSE <<a>> \o rest

\* The object an element stands for.
RECURSIVE ObjectOf(_, _)
ObjectOf(node, class) ==
  LET Item(n) == IF n.tag = "#text" THEN Str(n.tag, n.text)
                 ELSE ObjectOf(n, ChildOf(class, n.tag).class)
      Items(m) == LET kept == SelectSeq(node.children, LAMBDA n : Belongs(class, n, m))
                   IN  [i \in DOMAIN kept |-> Item(kept[i])]
      value == SelectSeq(node.children, IsText)
      Member(m) ==
        IF m = "valueOf_"
        THEN Joined([i \in DOMAIN value |-> Str(value[i].tag, value[i].text)])
        ELSE Kept(class, m, Items(m))
  IN  IF class = "string" THEN Str(node.tag, AllText(node.children))
      ELSE Object(node.tag, class, buildAttributes(class, node.attributes), <<>>,
                  [m \in Members(class) |-> Member(m)])

\* An element nothing is wrong with, as far as the classes look at it.
RECURSIVE Readable(_, _)
Readable(node, class) ==
  IF class = "string" THEN \A i \in DOMAIN node.children : ~IsElement(node.children[i])
  ELSE /\ ~BadInteger(class, node.attributes)
       /\ \A i \in DOMAIN node.children :
            node.children[i].tag \in Known(class) =>
              Readable(node.children[i], ChildOf(class, node.children[i].tag).class)

\* The text a description shows: that of the element itself and of the known
\* elements in it.  A paragraph knows references only, so that what is bold, in
\* a list or verbatim is lost, as CDATA is and the lists of parameters.
RECURSIVE Shown(_, _)
Shown(node, class) ==
  UNION {LET n == node.children[i]
         IN  IF n.tag = "#text" \/ (class = "string" /\ ~IsElement(n)) THEN ToSet(n.text)
             ELSE IF n.tag \in Known(class) /\ ChildOf(class, n.tag).member \in {"content_", "content"}
             THEN Shown(n, ChildOf(class, n.tag).class)
             ELSE {} : i \in DOMAIN node.children}

Root == stack[1].node
Describable == "content_" \in Texts_(Made.class)

-----------------------------------------------------------------------------
(* Properties                                                              *)

\* build() makes the object that the whole element stands for: the last of a
\* repeated single child, every one of the others, in order, the text of each
\* where its class keeps it, and nothing of elements it does not know.  It
\* raises if, and only if, an element it looks at has an integer attribute that
\* is none, or a string has an element in it.
BuildsTheTree ==
  /\ result = "built" => Readable(Root, Made.class) /\ Made = ObjectOf(Root, Made.class)
  /\ result \in {"ValueError", "TypeError"} => ~Readable(Top.node, Class)

\* The description of what was built has the text it is to show, each piece
\* once and in the order of the document, whichever of content_ and content the
\* pieces were kept in on the way.
DescriptionShowsText ==
  result = "built" /\ Describable =>
    LET shown == SelectSeq(description_bit(Made), LAMBDA c : c.char # "break")
    IN  /\ ToSet(shown) = Shown(Root, Made.class)
        /\ \A i, j \in DOMAIN shown : i < j => shown[i].at < shown[j].at
=============================================================================
