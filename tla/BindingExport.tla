----------------------------- MODULE BindingExport -----------------------------
(***************************************************************************)
(* The methods of the generated classes that write an object: export() as  *)
(* XML and exportLiteral() as Python.  They change no object, so that they *)
(* are functions of what build() makes.                                    *)
(***************************************************************************)
EXTENDS BindingTree

-----------------------------------------------------------------------------
(* export(): the document that what it writes is.  The white space added   *)
(* between the children of an element is text of that element; build()     *)
(* passes it over where the class takes no text.                           *)

exportAttributes(o) ==
  LET class == Classes[o.class]
  IN  [a \in DOMAIN o.attributes \cup class.always |->
         IF a \in DOMAIN o.attributes THEN o.attributes[a] ELSE "None"]

\* Mutant: nothing is quoted.
quote_nothing(text) == text

\* Text of valueOf_ is quoted and read back as it was; in CDATA the quoting
\* stays, for nothing there is taken for an entity.
quote_xml(text) ==
  [i \in DOMAIN text |->
     IF text[i].char = "<" THEN [text[i] EXCEPT !.char = "&lt;"] ELSE text[i]]

\* White space: an indentation of four blanks, and the end of a line.
Blank == [char |-> "blank", at |-> 0]
showIndent(level) == Leaf("#text", [k \in 1..level |-> Blank])
NewLine == Leaf("#text", <<Blank>>)

\* A class with content_ has its children follow the tag at once; all others
\* have them, or the text of valueOf_, on lines of their own.
Inline(class) == "content_" \in Classes[class].text

ExportedValue(value) ==
  [i \in DOMAIN value |->
     Leaf(value[i].tag,
          IF value[i].tag = "#cdata" THEN quote_xml(value[i].text) ELSE value[i].text)]

AsText(text) == IF text = <<>> THEN <<>> ELSE <<Leaf("#text", text)>>

\* The title of a compound is an object, and written as if it were a string.
IsTitle(o, k) == o.class = "compounddefType" /\ k.tag = "title"
Repr == <<[char |-> "repr", at |-> 0]>>
ExportedTitle(o) ==
  <<Node("title", <<>>, <<>>, IF o.members["title"] = <<>> THEN <<>> ELSE AsText(Repr))>>

RECURSIVE export(_, _)
exportChildren(o, level) ==
  LET class == Classes[o.class]
      Lines(item) ==
        IF item.class = "string" THEN <<export(item, level)>>
        ELSE <<showIndent(level), export(item, level), NewLine>>
      Exported(objects) == FlattenSeq([i \in DOMAIN objects |-> Lines(objects[i])])
  IN  IF "valueOf_" \in class.text THEN ExportedValue(o.members["valueOf_"])
      ELSE IF "content_" \in class.text THEN Exported(o.members["content_"])
      ELSE FoldSet(LAMBDA k, done :
                     done \o IF IsTitle(o, k) THEN ExportedTitle(o)
                             ELSE Exported(o.members[k.member]),
                   <<>>, class.children)

ExportedElement(o, level) ==
  LET children == exportChildren(o, level + 1)
  IN  Node(o.tag, exportAttributes(o), <<>>,
           IF Inline(o.class) THEN children
           ELSE <<NewLine>> \o children \o <<showIndent(level)>>)

export(o, level) ==
  CASE o.tag = "#text" -> Leaf("#text", o.text)
    [] o.tag # "#text" /\ o.class = "string" -> Node(o.tag, <<>>, <<>>, AsText(o.text))
    [] OTHER -> ExportedElement(o, level)

\* Text and strings of mixed content are written as they are, quoted by no one.
RECURSIVE IsXML(_)
IsXML(o) ==
  LET class == Classes[o.class]
      Plain(s) == \A i \in DOMAIN s.text : s.text[i].char # "<"
  IN  IF "valueOf_" \in class.text THEN TRUE
      ELSE \A m \in DOMAIN o.members : \A i \in DOMAIN o.members[m] :
             LET item == o.members[m][i]
             IN  IF item.class = "string" THEN m = "content_" => Plain(item)
                 ELSE IsXML(item)

\* exportLiteral() asks a class with children in mixed content hasContent_(),
\* which looks at attributes that no method of the class ever sets.
hasContent_Raises(class) == "valueOf_" \notin class.text /\ "content_" \in class.text

\* Mutant: the lists of children are passed over.
LiteralSingles(class) == {k.member : k \in {j \in class.children : j.keep = "last"}}

\* The members exportLiteralChildren goes down into: in a class that has text
\* none but the text.
LiteralChildren(class) ==
  IF "valueOf_" \in class.text THEN {} ELSE {k.member : k \in class.children}

RECURSIVE exportLiteral(_)
exportLiteral(o) ==
  LET class == Classes[o.class]
  IN  IF \/ hasContent_Raises(class)
         \/ \E m \in LiteralChildren(class) : \E i \in DOMAIN o.members[m] :
              /\ o.members[m][i].class # "string"
              /\ exportLiteral(o.members[m][i]) = "AttributeError"
      THEN "AttributeError" ELSE "written"

-----------------------------------------------------------------------------
(* Properties                                                              *)

\* Whether an object survives being written and read: no text of mixed content
\* that should have been quoted, no CDATA that was quoted, no compound (its
\* title is lost), nothing in a paragraph but text, no attribute written "None".
RECURSIVE Survives(_)
Survives(o) ==
  LET class == Classes[o.class]
      Items(m) == ToSet(o.members[m])
      IsPlain(s) == \A i \in DOMAIN s.text : s.text[i].char # "<"
  IN  /\ o.class # "compounddefType"
      /\ class.always \subseteq DOMAIN o.attributes
      /\ IF "valueOf_" \in class.text
         THEN /\ \A item \in Items("valueOf_") : item.tag = "#cdata" => IsPlain(item)
              /\ \A k \in class.children : \A item \in Items(k.member) : item.tag = "#text"
         ELSE \A m \in DOMAIN o.members : \A item \in Items(m) :
                IF item.class = "string" THEN m = "content_" => IsPlain(item)
                ELSE Survives(item)

\* Whether white space is written where it is read back as text of the object:
\* around valueOf_ on a line of its own, and around an element of mixed content.
RECURSIVE GainsBlanks(_)
GainsBlanks(o) ==
  LET class == Classes[o.class]
      Objects(m) == {item \in ToSet(o.members[m]) : item.class # "string"}
  IN  IF "valueOf_" \in class.text THEN "content_" \notin class.text
      ELSE \/ "content_" \in class.text /\ Objects("content_") # {}
           \/ \E m \in DOMAIN o.members : \E item \in Objects(m) : GainsBlanks(item)

\* An object up to the division of its text into pieces, and without blanks.
RECURSIVE Undivided(_)
Undivided(o) ==
  [o EXCEPT !.members = [m \in DOMAIN @ |->
     Joined([i \in DOMAIN @[m] |-> Undivided(@[m][i])])]]

RECURSIVE WithoutBlanks(_)
WithoutBlanks(o) ==
  LET IsBlank(item) == item.tag = "#text" /\ item.text = <<>>
      Items(items) == SelectSeq([i \in DOMAIN items |-> WithoutBlanks(items[i])],
                                LAMBDA item : ~IsBlank(item))
  IN  [o EXCEPT !.text = SelectSeq(@, LAMBDA c : c # Blank),
                !.members = [m \in DOMAIN @ |-> Items(@[m])]]

ReadBack == ObjectOf(export(Made, 0), Made.class)

\* What export() writes, read again, makes the same object up to white space for
\* those that survive and no others: each of the exceptions does come back
\* changed, or not at all.  To the letter it makes the same object if, besides,
\* no line break or indentation is read back as text: the value of a class
\* without content_ never comes back as it was, nor does mixed content with an
\* element in it.
WrittenIsReadBack ==
  result = "built" =>
    /\ (IsXML(Made) /\ Undivided(WithoutBlanks(ReadBack)) = Undivided(Made))
         = Survives(Made)
    /\ (IsXML(Made) /\ Undivided(ReadBack) = Undivided(Made))
         = (Survives(Made) /\ ~GainsBlanks(Made))

\* Whether an element of mixed content is looked at on the way down.
RECURSIVE HasMixed(_, _)
HasMixed(node, class) ==
  /\ class # "string" /\ "valueOf_" \notin Texts_(class)
  /\ \/ "content_" \in Texts_(class)
     \/ \E i \in DOMAIN node.children :
          LET tag == node.children[i].tag
          IN  /\ tag \in Known(class)
              \* of a repeated single child the last one is what is kept
              /\ ChildOf(class, tag).keep = "last" =>
                   \A j \in DOMAIN node.children : node.children[j].tag = tag => j <= i
              /\ HasMixed(node.children[i], ChildOf(class, tag).class)

\* exportLiteral() writes the objects without mixed content and fails on all
\* others, however deep in them it is.
LiteralNeedsNoMixedContent ==
  result = "built" => ((exportLiteral(Made) = "AttributeError") <=> HasMixed(Root, Made.class))
=============================================================================
