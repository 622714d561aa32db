-------------------------------- MODULE Binding --------------------------------
(***************************************************************************)
(* What the generated classes do: build() makes an object from an element  *)
(* of the XML document.  BindingTree.tla says what the document as a whole *)
(* stands for, BindingExport.tla has the methods that write objects.       *)
(*                                                                         *)
(* build() goes over the child nodes once and in order, calling itself for *)
(* the elements it knows; the elements under construction are the stack.   *)
(* A node is drawn when build() gets to it: none is looked at before.      *)
(***************************************************************************)
EXTENDS Integers, Sequences, SequencesExt, FiniteSets, Subsequences

CONSTANTS
  Classes,  \* the classes by name, in the forms of BindingForms
  Bound     \* the classes to build from and, for each, the nodes below it

\* A tag is known as one child, and what shares a member is kept in one way; a
\* member that takes text is a list.
ASSUME ClassesAssumption ==
  /\ "string" \notin DOMAIN Classes /\ DOMAIN Bound \subseteq DOMAIN Classes
  /\ \A class \in DOMAIN Bound : Bound[class] \in Nat
  /\ \A class \in DOMAIN Classes : \A k \in Classes[class].children :
       /\ k.class \in DOMAIN Classes \cup {"string"}
       /\ k.tag \notin {"#text", "#cdata", "#comment", "other"}
       /\ k.member # "valueOf_" /\ k.keep \in {"last", "all"}
       /\ k.member \in Classes[class].text => k.keep = "all"
       /\ \A j \in Classes[class].children : /\ j.tag = k.tag => j = k
                                             /\ j.member = k.member => j.keep = k.keep

VARIABLES
  stack,    \* the elements being built: the nodes read of each, the object made
            \* of them so far, and (a history) what each of the nodes was made
  nodes,    \* how many nodes have been read
  result    \* "reading", "built", or the exception raised

vars == <<stack, nodes, result>>

\* A node of the document.  Text is a sequence of characters, "<" being one
\* that has to be quoted; the place of the node tells them from each other.
Node(tag, attributes, text, children) ==
  [tag |-> tag, attributes |-> attributes, text |-> text, children |-> children]
Characters == {"#text", "#cdata", "#comment"}
Leaf(tag, text) == Node(tag, <<>>, text, <<>>)
IsElement(node) == node.tag \notin Characters

\* An object, or a string if the class is "string".  In content_ the tag is the
\* name of the MixedContainer, and text is an item of its own.
Object(tag, class, attributes, text, members) ==
  [tag |-> tag, class |-> class, attributes |-> attributes, text |-> text,
   members |-> members]
Str(tag, text) == Object(tag, "string", <<>>, text, <<>>)

Children(class) == IF class = "string" THEN {} ELSE Classes[class].children
Texts_(class) == IF class = "string" THEN {} ELSE Classes[class].text
Known(class) == {k.tag : k \in Children(class)}
ChildOf(class, tag) == CHOOSE k \in Children(class) : k.tag = tag
Members(class) == {k.member : k \in Children(class)} \cup Texts_(class)
Of(class, member) == {k \in Children(class) : k.member = member}

\* The constructors of generated/compound.py and index.py leave a string empty
\* and all else None or a list without items.
Default(class, member) ==
  IF \E k \in Of(class, member) : k.class = "string" /\ k.keep = "last"
  THEN <<Str(member, <<>>)>>
  ELSE <<>>

\* Attributes hold something, or an integer, or what is no integer.
BadInteger(class, attributes) ==
  \E a \in Classes[class].integers \cap DOMAIN attributes : attributes[a] = "text"
buildAttributes(class, attributes) ==
  [a \in Classes[class].attributes \cap DOMAIN attributes |-> attributes[a]]

-----------------------------------------------------------------------------
(* build()                                                                 *)

\* Mutant: only what is an attribute of its own is set by the constructor.
BegunWithoutText(tag, class, attributes) ==
  [node   |-> Node(tag, attributes, <<>>, <<>>), made |-> <<>>,
   object |-> Object(tag, class,
                IF class = "string" THEN <<>> ELSE buildAttributes(class, attributes),
                <<>>, [m \in {k.member : k \in Children(class)} |-> Default(class, m)])]

\* factory() and the empty object.  A string is not built but collected.
Begun(tag, class, attributes) ==
  [node   |-> Node(tag, attributes, <<>>, <<>>), made |-> <<>>,
   object |-> Object(tag, class,
                IF class = "string" THEN <<>> ELSE buildAttributes(class, attributes),
                <<>>, [m \in Members(class) |-> Default(class, m)])]

\* Mutant: a piece of text takes the place of those before it.
Replaced(value, node) == <<Str(node.tag, node.text)>>

\* valueOf_ is one string, in which CDATA stays marked as such.
Concatenated(value, node) ==
  IF value # <<>> /\ node.tag = "#text" /\ Last(value).tag = "#text"
  THEN Front(value) \o <<Str("#text", Last(value).text \o node.text)>>
  ELSE Append(value, Str(node.tag, node.text))

\* A string takes whatever has text in it, comments too.
TextInto(object, node) ==
  IF object.class = "string"
  THEN [object EXCEPT !.text = @ \o node.text]
  ELSE [object EXCEPT !.members = [m \in DOMAIN @ |->
          CASE m = "valueOf_" /\ node.tag \in {"#text", "#cdata"} ->
                 Concatenated(@[m], node)
            [] m \in Texts_(object.class) \ {"valueOf_"} /\ node.tag = "#text" ->
                 Append(@[m], Str("#text", node.text))
            [] OTHER -> @[m]]]

\* Mutant: every child is appended, also where there is to be one.
ChildAppended(object, child) ==
  LET k == ChildOf(object.class, child.tag)
  IN  [object EXCEPT !.members[k.member] = Append(@, child)]

ChildInto(object, child) ==
  LET k == ChildOf(object.class, child.tag)
  IN  [object EXCEPT !.members[k.member] =
         IF k.keep = "all" THEN Append(@, child) ELSE <<child>>]

\* The node is read, and is worth the object.
Seen(frame, node, object) ==
  [frame EXCEPT !.node.children = Append(@, node), !.made = Append(@, object)]
Top == Last(stack)
Class == Top.object.class
Made == stack[1].object
AfterText == LET read == Top.node.children
             IN  read # <<>> /\ Last(read).tag = "#text"

\* Values for the attributes of an element: none, all and one the class does
\* not look for, or all with an integer that is none.
AttributeChoices(class) ==
  IF class = "string" THEN {<<>>}
  ELSE LET all == [a \in Classes[class].attributes \cup {"xml:lang"} |->
                     IF a \in Classes[class].integers THEN "integer" ELSE "text"]
       IN  {<<>>, all} \cup {[all EXCEPT ![a] = "text"] : a \in Classes[class].integers}

Begin(tag, class) ==
  \E attributes \in AttributeChoices(class) :
    /\ stack' = Append(stack, Begun(tag, class, attributes))
    /\ result' = IF class # "string" /\ BadInteger(class, attributes)
                 THEN "ValueError" ELSE "reading"

Init ==
  \E class \in DOMAIN Bound : \E attributes \in AttributeChoices(class) :
    /\ stack = <<Begun("root", class, attributes)>>
    /\ nodes = 0
    /\ result = IF BadInteger(class, attributes) THEN "ValueError" ELSE "reading"

Reading ==
  /\ result = "reading"
  /\ nodes < Bound[stack[1].object.class]
  /\ nodes' = nodes + 1

\* Text, CDATA or a comment.  The parser hands over adjacent text as one node.
ReadText ==
  /\ Reading
  /\ \E tag \in Characters, char \in {"a", "<"} :
       LET node == Leaf(tag, <<[char |-> char, at |-> nodes']>>)
       IN  /\ ~(tag = "#text" /\ AfterText)
           /\ tag = "#comment" => char = "a"  \* its text makes no difference
           /\ stack' = Front(stack) \o
                         <<[Seen(Top, node, Str(tag, node.text)) EXCEPT
                                !.object = TextInto(@, node)]>>
  /\ UNCHANGED result

\* An element of a known tag.
ReadChild ==
  /\ Reading
  /\ \E k \in Children(Class) : Begin(k.tag, k.class)

\* Any other element is passed over with all it holds; a string cannot take it,
\* its nodeValue being None.
ReadUnknown ==
  LET node == Node("other", <<>>, <<>>, <<Leaf("#text", <<[char |-> "a", at |-> nodes']>>)>>)
  IN  /\ Reading
      /\ stack' = Front(stack) \o <<Seen(Top, node, Str("other", <<>>))>>
      /\ result' = IF Class = "string" THEN "TypeError" ELSE result

\* The end of an element: its object goes to the parent's.
EndChild ==
  /\ result = "reading" /\ Len(stack) > 1
  /\ LET parent == stack[Len(stack) - 1]
     IN  stack' = SubSeq(stack, 1, Len(stack) - 2) \o
                    <<[Seen(parent, Top.node, Top.object) EXCEPT
                         !.object = ChildInto(@, Top.object)]>>
  /\ UNCHANGED <<nodes, result>>

EndRoot ==
  /\ result = "reading" /\ Len(stack) = 1
  /\ result' = "built"
  /\ UNCHANGED <<stack, nodes>>

Next == ReadText \/ ReadChild \/ ReadUnknown \/ EndChild \/ EndRoot

Spec == Init /\ [][Next]_vars

-----------------------------------------------------------------------------
(* What is to come of a single element, told of all its nodes at once.     *)

IsText(n) == n.tag \in {"#text", "#cdata"}
AllText(pieces) == FlattenSeq([i \in DOMAIN pieces |-> pieces[i].text])

\* Whether a node goes into a member of the class, other than valueOf_.
Belongs(class, n, m) == \/ n.tag = "#text" /\ m \in Texts_(class)
                        \/ \E k \in Of(class, m) : k.tag = n.tag

\* What is kept of the items that belong to a member, in their order.
Kept(class, m, items) ==
  IF items = <<>> THEN Default(class, m)
  ELSE IF \E k \in Of(class, m) : k.keep = "last" THEN <<Last(items)>>
  ELSE items

ItemsFor(frame, m) ==
  Chosen(frame.made, {i \in DOMAIN frame.made :
                        Belongs(frame.object.class, frame.node.children[i], m)})
TextNodes(frame) ==
  Chosen(frame.node.children,
         {i \in DOMAIN frame.node.children : IsText(frame.node.children[i])})

-----------------------------------------------------------------------------
(* Properties                                                              *)

\* Every open element but the first is one that its parent knows, under the
\* class the parent builds it with, and every object has its class's members.
TypeOK ==
  /\ result \in {"reading", "built", "ValueError", "TypeError"}
  /\ nodes \in 0..Bound[Made.class]
  /\ \A d \in DOMAIN stack :
       LET o == stack[d].object
       IN  /\ o.tag = stack[d].node.tag
           /\ DOMAIN o.members = Members(o.class)
           /\ d > 1 => \E k \in Children(stack[d-1].object.class) :
                         k.tag = o.tag /\ k.class = o.class

\* At every node, the object of an element under construction is the one that
\* the nodes read of it make up: each member has what belongs to it and nothing
\* else, in order or the last of it; valueOf_ has all the text, adjacent text
\* joined; and nothing is wrong with the element but what is raised at once.
LevelByLevel ==
  \A d \in DOMAIN stack :
    LET frame == stack[d]
        o == frame.object
    IN  /\ o.class = "string" => o.text = AllText(frame.node.children)
        /\ o.class # "string" => o.attributes = buildAttributes(o.class, frame.node.attributes)
        /\ \A m \in DOMAIN o.members \ {"valueOf_"} :
             o.members[m] = Kept(o.class, m, ItemsFor(frame, m))
        /\ "valueOf_" \in DOMAIN o.members =>
             LET value == o.members["valueOf_"]
             IN  /\ AllText(value) = AllText(TextNodes(frame))
                 /\ \A i \in 1..(Len(value) - 1) :
                      value[i].tag = "#text" => value[i + 1].tag # "#text"
        /\ (o.class # "string" /\ BadInteger(o.class, frame.node.attributes))
             <=> (result = "ValueError" /\ d = Len(stack))
        /\ (o.class = "string" /\ \E i \in DOMAIN frame.node.children :
                                   IsElement(frame.node.children[i]))
             <=> (result = "TypeError" /\ d = Len(stack))
=============================================================================
