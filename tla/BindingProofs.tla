----------------------------- MODULE BindingProofs -----------------------------
(***************************************************************************)
(* Theorems about Binding, for any classes that know a tag as one child,   *)
(* and documents of any size and depth.                                    *)
(***************************************************************************)
EXTENDS Binding, InductionLemmas

-----------------------------------------------------------------------------
(* Text                                                                    *)

\* What text consists of.
Char == [char : {"a", "<"}, at : Nat]

\* Pieces of text: nodes, or the strings they become.
IsPieces(s) == IsSeq(s) /\ \A i \in 1..Len(s) : s[i].text \in Seq(Char)

\* A sequence and an element that is to follow have a set in common.
LEMMA CommonSet ==
  ASSUME NEW s, IsSeq(s), NEW e
  PROVE  s \in Seq(ToSet(s) \cup {e}) /\ e \in ToSet(s) \cup {e}
BY SeqMonotonic DEF IsSeq

\* A sequence with one element more.
LEMMA AppendOf ==
  ASSUME NEW s, IsSeq(s), NEW e
  PROVE  /\ IsSeq(Append(s, e)) /\ Len(Append(s, e)) = Len(s) + 1
         /\ Append(s, e)[Len(s) + 1] = e
         /\ \A i \in 1..Len(s) : Append(s, e)[i] = s[i]
         /\ DOMAIN s = 1..Len(s) /\ DOMAIN Append(s, e) = 1..(Len(s) + 1)
         /\ Len(s) \in Nat
<1> DEFINE S == ToSet(s) \cup {e}
<1>1. s \in Seq(S)
  BY CommonSet
<1> HIDE DEF S
<1>2. e \in S
  BY DEF S
<1>3. /\ Append(s, e) \in Seq(S) /\ Len(Append(s, e)) = Len(s) + 1
      /\ Append(s, e)[Len(s) + 1] = e
      /\ \A i \in 1..Len(s) : Append(s, e)[i] = s[i]
  BY <1>1, <1>2, AppendProperties
<1>4. /\ IsSeq(Append(s, e)) /\ Len(s) \in Nat
      /\ DOMAIN s = 1..Len(s) /\ DOMAIN Append(s, e) = 1..Len(Append(s, e))
  BY <1>1, <1>3, SeqOfItself
<1>5. QED
  BY <1>3, <1>4

\* The texts of pieces are texts.
LEMMA TextsOf ==
  ASSUME NEW s, IsPieces(s)
  PROVE  [i \in DOMAIN s |-> s[i].text] \in Seq(Seq(Char))
<1>1. IsSeq(s) /\ \A i \in 1..Len(s) : s[i].text \in Seq(Char)
  BY DEF IsPieces
<1>2. Len(s) \in Nat /\ DOMAIN s = 1..Len(s)
  BY <1>1, SeqOfItself DEF IsSeq
<1>3. [i \in 1..Len(s) |-> s[i].text] \in Seq(Seq(Char))
  BY <1>1, <1>2, IsASeq
<1>4. QED
  BY <1>2, <1>3

LEMMA AllTextType ==
  ASSUME NEW s, IsPieces(s)
  PROVE  AllText(s) \in Seq(Char)
BY TextsOf, FlattenType DEF AllText

\* The text of pieces and one more is theirs and then its.
LEMMA AllTextAppend ==
  ASSUME NEW s, IsPieces(s), NEW p, p.text \in Seq(Char)
  PROVE  IsPieces(Append(s, p)) /\ AllText(Append(s, p)) = AllText(s) \o p.text
<1> DEFINE n == Len(s)
           t == Append(s, p)
           texts == [i \in DOMAIN s |-> s[i].text]
           more == [i \in DOMAIN t |-> t[i].text]
<1>1. /\ IsSeq(t) /\ Len(t) = n + 1 /\ t[n + 1] = p /\ n \in Nat
      /\ \A i \in 1..n : t[i] = s[i]
      /\ DOMAIN s = 1..n /\ DOMAIN t = 1..(n + 1)
      /\ \A i \in 1..n : s[i].text \in Seq(Char)
  <2>1. IsSeq(s) /\ \A i \in 1..n : s[i].text \in Seq(Char)
    BY DEF IsPieces
  <2>2. /\ IsSeq(Append(s, p)) /\ Len(Append(s, p)) = Len(s) + 1
        /\ Append(s, p)[Len(s) + 1] = p /\ Len(s) \in Nat
        /\ \A i \in 1..Len(s) : Append(s, p)[i] = s[i]
        /\ DOMAIN s = 1..Len(s) /\ DOMAIN Append(s, p) = 1..(Len(s) + 1)
    BY <2>1, AppendOf
  <2>3. QED
    BY <2>1, <2>2
<1>2. texts \in Seq(Seq(Char))
  BY TextsOf
<1> HIDE DEF t, n
<1>3. Len(texts) = n /\ texts = [i \in 1..n |-> s[i].text]
  BY <1>1
<1>4. \A i \in 1..(n + 1) : t[i].text \in Seq(Char)
  <2> TAKE i \in 1..(n + 1)
  <2>1. i \in 1..n \/ i = n + 1
    BY <1>1
  <2>2. QED
    BY <1>1, <2>1
<1>5. IsPieces(t)
  BY <1>1, <1>4 DEF IsPieces
<1>6. more = Append(texts, p.text)
  <2>1. more = [i \in 1..(n + 1) |-> t[i].text]
    BY <1>1
  <2>2. /\ Len(Append(texts, p.text)) = n + 1
        /\ \A i \in 1..n : Append(texts, p.text)[i] = s[i].text
        /\ Append(texts, p.text)[n + 1] = p.text
        /\ Append(texts, p.text) \in Seq(Seq(Char))
    BY <1>2, <1>3, AppendProperties
  <2>3. more \in Seq(Seq(Char))
    BY <1>5, TextsOf
  <2>4. Len(more) = n + 1
    BY <1>1, <2>1
  <2>5. ASSUME NEW i \in 1..(n + 1) PROVE more[i] = Append(texts, p.text)[i]
    <3>1. i \in 1..n \/ i = n + 1
      BY <1>1
    <3>2. more[i] = t[i].text
      BY <2>1
    <3>3. QED
      BY <1>1, <2>2, <3>1, <3>2
  <2> HIDE DEF more, texts
  <2>6. QED
    BY <2>2, <2>3, <2>4, <2>5, SeqEqual
<1> HIDE DEF texts, more
<1>7. FlattenSeq(more) = FlattenSeq(texts) \o p.text
  BY <1>2, <1>6, FlattenAppend
<1>8. QED
  BY <1>5, <1>7 DEF AllText, texts, more, t

\* A sequence that is not empty is its front and its last element.
LEMMA FrontOf ==
  ASSUME NEW s, IsSeq(s), s # <<>>
  PROVE  /\ Len(s) \in Nat /\ Len(s) > 0 /\ Last(s) = s[Len(s)]
         /\ IsSeq(Front(s)) /\ Len(Front(s)) = Len(s) - 1
         /\ \A i \in 1..(Len(s) - 1) : Front(s)[i] = s[i]
         /\ s = Append(Front(s), Last(s))
<1> DEFINE n == Len(s)
           S == ToSet(s)
           front == Front(s)
<1>1. s \in Seq(S) /\ n \in Nat /\ n > 0 /\ \A i \in 1..n : s[i] \in S
  BY EmptySeq, LenProperties, ElementOfSeq DEF IsSeq
<1> HIDE DEF n, S
<1>2. front = [i \in 1..(n - 1) |-> s[i]]
  BY DEF Front, n
<1>3. front \in Seq(S) /\ Len(front) = n - 1 /\ \A i \in 1..(n - 1) : front[i] = s[i]
  <2>1. n - 1 \in Nat /\ \A i \in 1..(n - 1) : s[i] \in S
    BY <1>1
  <2>2. front \in Seq(S)
    BY <1>2, <2>1, IsASeq
  <2>3. QED
    BY <1>2, <2>1, <2>2, LenProperties
<1> HIDE DEF front
<1>4. IsSeq(front)
  BY <1>3, SeqOfItself
<1>5. Last(s) = s[n] /\ s[n] \in S
  BY <1>1 DEF Last, n
<1>6. s = Append(front, s[n])
  <2> DEFINE t == Append(front, s[n])
  <2>1. /\ t \in Seq(S) /\ Len(t) = n /\ t[n] = s[n]
        /\ \A i \in 1..(n - 1) : t[i] = front[i]
    BY <1>1, <1>3, <1>5, AppendProperties
  <2>2. ASSUME NEW i \in 1..n PROVE t[i] = s[i]
    <3>1. i \in 1..(n - 1) \/ i = n
      BY <1>1
    <3>2. QED
      BY <1>3, <2>1, <3>1
  <2> HIDE DEF t
  <2>3. Len(t) = Len(s) /\ \A i \in 1..Len(t) : t[i] = s[i]
    BY <2>1, <2>2 DEF n
  <2>4. t = s
    BY <1>1, <2>1, <2>3, SeqEqual
  <2>5. QED
    BY <2>4 DEF t
<1>7. QED
  BY <1>1, <1>3, <1>4, <1>5, <1>6 DEF n, front

\* valueOf_: pieces, of which none of text follows another.
IsJoined(value) ==
  \A i \in 1..(Len(value) - 1) : value[i].tag = "#text" => value[i + 1].tag # "#text"

\* A piece more, which text before it is joined with, is its text more.
LEMMA ConcatenatedIs ==
  ASSUME NEW value, IsPieces(value), IsJoined(value),
         NEW node, IsText(node), node.text \in Seq(Char)
  PROVE  /\ IsPieces(Concatenated(value, node)) /\ IsJoined(Concatenated(value, node))
         /\ AllText(Concatenated(value, node)) = AllText(value) \o node.text
<1> DEFINE n == Len(value)
           last == value[n]
           p == Str(node.tag, node.text)
           joined == Str("#text", last.text \o node.text)
<1>1. /\ p.text = node.text /\ p.tag = node.tag
      /\ joined.text = last.text \o node.text /\ joined.tag = "#text"
  BY DEF Str, Object
<1>2. IsSeq(value) /\ n \in Nat /\ \A i \in 1..n : value[i].text \in Seq(Char)
  BY SeqOfItself DEF IsPieces, IsSeq
<1>3. CASE value # <<>> /\ node.tag = "#text" /\ Last(value).tag = "#text"
  <2> DEFINE front == Front(value)
  <2>1. /\ n > 0 /\ Last(value) = last /\ IsSeq(front)
        /\ Len(front) = n - 1 /\ value = Append(front, last)
        /\ \A i \in 1..(n - 1) : front[i] = value[i]
    BY <1>2, <1>3, FrontOf
  <2> HIDE DEF front, p, joined
  <2>2. Concatenated(value, node) = Append(front, joined)
    <3>1. Concatenated(value, node) = front \o <<joined>>
      BY <1>3, <2>1 DEF Concatenated, joined, front
    <3>2. front \in Seq(ToSet(front) \cup {joined}) /\ joined \in ToSet(front) \cup {joined}
      BY <2>1, CommonSet
    <3>3. QED
      BY <3>1, <3>2, AppendIsConcat
  <2>3. IsPieces(front) /\ last.text \in Seq(Char)
    <3>1. \A i \in 1..(n - 1) : i \in 1..n
      BY <1>2
    <3>2. n \in 1..n
      BY <1>2, <2>1
    <3>3. QED
      BY <1>2, <2>1, <3>1, <3>2 DEF IsPieces
  <2>4. last.text \o node.text \in Seq(Char)
    BY <2>3, ConcatProperties
  <2>5. /\ IsPieces(Append(front, joined))
        /\ AllText(Append(front, joined)) = AllText(front) \o (last.text \o node.text)
    BY <1>1, <2>3, <2>4, AllTextAppend
  <2>6. AllText(value) = AllText(front) \o last.text
    BY <2>1, <2>3, AllTextAppend
  <2>7. AllText(front) \o (last.text \o node.text) = (AllText(front) \o last.text) \o node.text
    <3> DEFINE a == AllText(front)
               b == last.text
               c == node.text
    <3>1. a \in Seq(Char) /\ b \in Seq(Char) /\ c \in Seq(Char)
      BY <2>3, AllTextType
    <3> HIDE DEF a, b, c
    <3>2. a \o (b \o c) = (a \o b) \o c
      BY <3>1, ConcatAssociative, SMTT(30)
    <3>3. QED
      BY <3>2 DEF a, b, c
  <2>8. IsJoined(Append(front, joined))
    <3> DEFINE t == Append(front, joined)
    <3>1. /\ Len(t) = n /\ t[n] = joined /\ \A i \in 1..(n - 1) : t[i] = value[i]
      BY <1>2, <2>1, AppendOf
    <3> HIDE DEF t
    <3>2. ASSUME NEW i \in 1..(n - 1), t[i].tag = "#text" PROVE t[i + 1].tag # "#text"
      <4>1. value[i].tag = "#text" /\ value[i + 1].tag # "#text"
        BY <3>1, <3>2 DEF IsJoined
      <4>2. i + 1 \in 1..(n - 1) \/ i + 1 = n
        BY <1>2
      <4>3. i + 1 # n
        BY <1>3, <2>1, <4>1
      <4>4. QED
        BY <3>1, <4>1, <4>2, <4>3
    <3>3. QED
      BY <3>1, <3>2 DEF IsJoined, t
  <2>9. QED
    BY <2>2, <2>5, <2>6, <2>7, <2>8
<1>4. CASE ~(value # <<>> /\ node.tag = "#text" /\ Last(value).tag = "#text")
  <2>1. Concatenated(value, node) = Append(value, p)
    BY <1>4 DEF Concatenated
  <2> HIDE DEF p
  <2>2. IsPieces(Append(value, p)) /\ AllText(Append(value, p)) = AllText(value) \o node.text
    BY <1>1, AllTextAppend
  <2>3. IsJoined(Append(value, p))
    <3> DEFINE t == Append(value, p)
    <3>1. /\ Len(t) = n + 1 /\ t[n + 1] = p /\ \A i \in 1..n : t[i] = value[i]
      BY <1>2, AppendOf
    <3> HIDE DEF t
    <3>2. ASSUME NEW i \in 1..n, t[i].tag = "#text" PROVE t[i + 1].tag # "#text"
      <4>1. CASE i \in 1..(n - 1)
        <5>1. i + 1 \in 1..n
          BY <1>2, <4>1
        <5>2. QED
          BY <3>1, <3>2, <4>1, <5>1 DEF IsJoined
      <4>2. CASE i = n
        <5>1. value # <<>>
          BY <1>2, <4>2, EmptySeq
        <5>2. Last(value) = value[n]
          BY <1>2, <5>1, FrontOf
        <5>3. t[i + 1] = p /\ t[i] = value[n]
          BY <3>1, <4>2
        <5>4. QED
          BY <1>1, <1>4, <3>2, <5>1, <5>2, <5>3
      <4>3. QED
        BY <1>2, <4>1, <4>2
    <3>3. Len(t) - 1 = n
      BY <1>2, <3>1
    <3>4. QED
      BY <3>2, <3>3 DEF IsJoined, t
  <2>4. QED
    BY <2>1, <2>2, <2>3
<1>5. QED
  BY <1>3, <1>4

-----------------------------------------------------------------------------
(* Elements under construction                                             *)

HasFields(f) ==
  /\ DOMAIN f = {"node", "object", "made"}
  /\ DOMAIN f.node = {"tag", "attributes", "text", "children"}
  /\ DOMAIN f.object = {"tag", "class", "attributes", "text", "members"}

TypedFrame(f) ==
  /\ HasFields(f)
  /\ IsSeq(f.made) /\ IsPieces(f.node.children)
  /\ Len(f.made) = Len(f.node.children)
  /\ f.object.class \in DOMAIN Classes \cup {"string"}
  /\ f.object.tag = f.node.tag /\ f.node.text = <<>>
  /\ DOMAIN f.object.members = Members(f.object.class)

\* The object is the one that the nodes read make up.
RightObject(f) ==
  LET o == f.object
  IN  /\ o.class = "string" => o.text = AllText(f.node.children)
      /\ o.class # "string" => o.attributes = buildAttributes(o.class, f.node.attributes)
      /\ \A m \in DOMAIN o.members \ {"valueOf_"} :
           o.members[m] = Kept(o.class, m, ItemsFor(f, m))
      /\ "valueOf_" \in DOMAIN o.members =>
           /\ IsPieces(o.members["valueOf_"]) /\ IsJoined(o.members["valueOf_"])
           /\ AllText(o.members["valueOf_"]) = AllText(TextNodes(f))

\* What is known of the classes.
LEMMA ClassFacts ==
  ASSUME NEW class \in DOMAIN Classes \cup {"string"}
  PROVE  /\ "string" \notin DOMAIN Classes
         /\ \A k \in Children(class) :
              /\ k.class \in DOMAIN Classes \cup {"string"}
              /\ k.tag \notin {"#text", "#cdata", "#comment", "other"}
              /\ k.member # "valueOf_" /\ k.keep \in {"last", "all"}
              /\ k.member \in Members(class)
              /\ k.member \in Texts_(class) => k.keep = "all"
              /\ \A j \in Children(class) : /\ j.tag = k.tag => j = k
                                            /\ j.member = k.member => j.keep = k.keep
         /\ Texts_(class) \subseteq Members(class)
BY ClassesAssumption DEF Children, Texts_, Members

LEMMA ChildIs ==
  ASSUME NEW class \in DOMAIN Classes \cup {"string"}, NEW k \in Children(class)
  PROVE  ChildOf(class, k.tag) = k
<1> DEFINE P(j) == j \in Children(class) /\ j.tag = k.tag
<1>1. \A j \in Children(class) : j.tag = k.tag => j = k
  BY ClassFacts
<1>2. ChildOf(class, k.tag) = CHOOSE j \in Children(class) : j.tag = k.tag
  BY DEF ChildOf
<1>3. QED
  BY <1>1, <1>2

\* A node more is read.
LEMMA SeenIs ==
  ASSUME NEW f, HasFields(f), NEW n, NEW x
  PROVE  /\ HasFields(Seen(f, n, x))
         /\ Seen(f, n, x).object = f.object
         /\ Seen(f, n, x).made = Append(f.made, x)
         /\ Seen(f, n, x).node.children = Append(f.node.children, n)
         /\ Seen(f, n, x).node.tag = f.node.tag
         /\ Seen(f, n, x).node.text = f.node.text
         /\ Seen(f, n, x).node.attributes = f.node.attributes
BY DEF HasFields, Seen

LEMMA WithObject ==
  ASSUME NEW f, HasFields(f), NEW o, DOMAIN o = DOMAIN f.object
  PROVE  /\ HasFields([f EXCEPT !.object = o])
         /\ [f EXCEPT !.object = o].object = o
         /\ [f EXCEPT !.object = o].made = f.made
         /\ [f EXCEPT !.object = o].node = f.node
BY DEF HasFields

\* h is f with the node n more, which is worth x.
Grown(f, h, n, x) ==
  /\ h.made = Append(f.made, x) /\ h.node.children = Append(f.node.children, n)
  /\ h.node.tag = f.node.tag /\ h.node.text = f.node.text
  /\ h.node.attributes = f.node.attributes
  /\ h.object.class = f.object.class /\ h.object.tag = f.object.tag
  /\ h.object.attributes = f.object.attributes
  /\ HasFields(h)

LEMMA ItemsGrow ==
  ASSUME NEW f, TypedFrame(f), NEW n, NEW x, NEW h, Grown(f, h, n, x), NEW m
  PROVE  /\ IsSeq(ItemsFor(f, m))
         /\ ItemsFor(h, m) = IF Belongs(f.object.class, n, m)
                             THEN Append(ItemsFor(f, m), x) ELSE ItemsFor(f, m)
<1> DEFINE made == f.made
           children == f.node.children
           class == f.object.class
           S == ToSet(made) \cup {x}
           I == {i \in DOMAIN made : Belongs(class, children[i], m)}
           J == {i \in DOMAIN h.made : Belongs(class, h.node.children[i], m)}
           len == Len(made)
<1>1. IsSeq(made) /\ IsSeq(children) /\ Len(children) = len
  BY DEF TypedFrame, IsPieces
<1>2. h.made = Append(made, x) /\ h.node.children = Append(children, n) /\ h.object.class = class
  BY DEF Grown
<1>3. made \in Seq(S) /\ x \in S
  BY <1>1, CommonSet
<1>4. DOMAIN made = 1..len /\ DOMAIN h.made = 1..(len + 1) /\ len \in Nat
  BY <1>1, <1>2, AppendOf
<1>5. h.node.children[len + 1] = n /\ \A i \in 1..len : h.node.children[i] = children[i]
  BY <1>1, <1>2, AppendOf
<1> HIDE DEF made, children, class, len
<1>6. \A i \in 1..len : i \in I <=> i \in J
  BY <1>4, <1>5
<1>7. len + 1 \in J <=> Belongs(class, n, m)
  BY <1>4, <1>5
<1>8. ItemsFor(f, m) = Chosen(made, I) /\ ItemsFor(h, m) = Chosen(Append(made, x), J)
  BY <1>2 DEF ItemsFor, made, children, class
<1> HIDE DEF I, J, S
<1>9. Chosen(Append(made, x), J) = IF len + 1 \in J THEN Append(Chosen(made, I), x)
                                   ELSE Chosen(made, I)
  BY <1>3, <1>6, ChosenAppend DEF len
<1>10. Chosen(made, I) \in Seq(S)
  BY <1>3, ChosenType
<1>11. IsSeq(Chosen(made, I))
  BY <1>10, SeqOfItself
<1>12. QED
  BY <1>7, <1>8, <1>9, <1>11 DEF class

LEMMA TextNodesGrow ==
  ASSUME NEW f, TypedFrame(f), NEW n, n.text \in Seq(Char), NEW x,
         NEW h, Grown(f, h, n, x)
  PROVE  /\ IsPieces(TextNodes(f))
         /\ TextNodes(h) = IF IsText(n) THEN Append(TextNodes(f), n) ELSE TextNodes(f)
<1> DEFINE children == f.node.children
           S == ToSet(children) \cup {n}
           I == {i \in DOMAIN children : IsText(children[i])}
           J == {i \in DOMAIN h.node.children : IsText(h.node.children[i])}
           len == Len(children)
<1>1. IsSeq(children) /\ \A i \in 1..len : children[i].text \in Seq(Char)
  BY DEF TypedFrame, IsPieces
<1>2. h.node.children = Append(children, n)
  BY DEF Grown
<1>3. children \in Seq(S) /\ n \in S
  BY <1>1, CommonSet
<1>4. /\ DOMAIN children = 1..len /\ DOMAIN h.node.children = 1..(len + 1) /\ len \in Nat
      /\ h.node.children[len + 1] = n /\ \A i \in 1..len : h.node.children[i] = children[i]
  BY <1>1, <1>2, AppendOf
<1> HIDE DEF children, len
<1>5. \A i \in 1..len : i \in I <=> i \in J
  BY <1>4
<1>6. len + 1 \in J <=> IsText(n)
  BY <1>4
<1>7. TextNodes(f) = Chosen(children, I) /\ TextNodes(h) = Chosen(Append(children, n), J)
  BY <1>2 DEF TextNodes, children
<1> HIDE DEF I, J, S
<1>8. Chosen(Append(children, n), J) = IF len + 1 \in J THEN Append(Chosen(children, I), n)
                                       ELSE Chosen(children, I)
  BY <1>3, <1>5, ChosenAppend DEF len
<1>9. IsPieces(Chosen(children, I))
  <2> DEFINE c == Chosen(children, I)
  <2>1. c \in Seq(S)
    BY <1>3, ChosenType
  <2>2. IsSeq(c)
    BY <2>1, SeqOfItself
  <2>3. ASSUME NEW k \in 1..Len(c) PROVE c[k].text \in Seq(Char)
    <3>1. k \in 1..Len(Chosen(children, I)) /\ children \in Seq(S)
      BY <1>3
    <3> HIDE DEF children, c
    <3>2. \E i \in 1..Len(children) : Chosen(children, I)[k] = children[i]
      BY <3>1, ChosenElements
    <3>3. QED
      BY <1>1, <3>2 DEF c, len
  <2>4. QED
    BY <2>2, <2>3 DEF IsPieces
<1>10. QED
  BY <1>6, <1>7, <1>8, <1>9

\* A member keeps its items, or, if it is single, the last.
IsSingle(class, m) == \E k \in Of(class, m) : k.keep = "last"

KeepsOn(class, m, items, x) ==
  /\ ~IsSingle(class, m) => /\ Kept(class, m, items) = items
                            /\ Kept(class, m, Append(items, x)) = Append(items, x)
  /\ IsSingle(class, m) => Kept(class, m, Append(items, x)) = <<x>>

LEMMA KeptIs ==
  ASSUME NEW class, NEW m, NEW items, IsSeq(items), NEW x
  PROVE  KeepsOn(class, m, items, x)
<1>1. /\ Append(items, x) # <<>> /\ Last(Append(items, x)) = x
  <2>1. items \in Seq(ToSet(items) \cup {x}) /\ x \in ToSet(items) \cup {x}
    BY CommonSet
  <2>2. Append(items, x) # <<>>
    BY <2>1, AppendProperties
  <2>3. /\ Len(Append(items, x)) = Len(items) + 1
        /\ Append(items, x)[Len(items) + 1] = x
    BY AppendOf
  <2>4. QED
    BY <2>2, <2>3 DEF Last
<1>2. ~IsSingle(class, m) => Default(class, m) = <<>>
  BY DEF IsSingle, Default
<1>3. QED
  BY <1>1, <1>2 DEF Kept, IsSingle, KeepsOn

\* What a node more does to an object: it goes into the members it belongs to,
\* and its text into valueOf_ or the string.
Takes(o, p, n, x) ==
  /\ o.class = "string" => p.text = o.text \o n.text
  /\ DOMAIN p.members = DOMAIN o.members
  /\ \A m \in DOMAIN o.members \ {"valueOf_"} :
       p.members[m] = IF ~Belongs(o.class, n, m) THEN o.members[m]
                      ELSE IF IsSingle(o.class, m) THEN <<x>>
                      ELSE Append(o.members[m], x)
  /\ "valueOf_" \in DOMAIN o.members =>
       p.members["valueOf_"] = IF IsText(n) THEN Concatenated(o.members["valueOf_"], n)
                               ELSE o.members["valueOf_"]

LEMMA FrameGrows ==
  ASSUME NEW f, TypedFrame(f), RightObject(f), NEW n, n.text \in Seq(Char), NEW x,
         NEW h, Grown(f, h, n, x), Takes(f.object, h.object, n, x)
  PROVE  TypedFrame(h) /\ RightObject(h)
<1> DEFINE o == f.object
           p == h.object
           class == o.class
           children == f.node.children
<1>1. /\ p.class = class /\ p.tag = o.tag /\ p.attributes = o.attributes
      /\ h.node.children = Append(children, n) /\ h.made = Append(f.made, x)
      /\ h.node.tag = f.node.tag /\ h.node.text = f.node.text
      /\ h.node.attributes = f.node.attributes /\ HasFields(h)
      /\ DOMAIN p.members = DOMAIN o.members
  BY DEF Grown, Takes
<1>2. /\ IsSeq(f.made) /\ IsPieces(children) /\ Len(f.made) = Len(children)
      /\ class \in DOMAIN Classes \cup {"string"}
      /\ o.tag = f.node.tag /\ f.node.text = <<>> /\ DOMAIN o.members = Members(class)
  BY DEF TypedFrame
<1>3. /\ IsPieces(Append(children, n))
      /\ AllText(Append(children, n)) = AllText(children) \o n.text
  BY <1>2, AllTextAppend
<1>4. TypedFrame(h)
  <2>1. /\ IsSeq(Append(f.made, x)) /\ Len(Append(f.made, x)) = Len(f.made) + 1
        /\ Len(Append(children, n)) = Len(children) + 1
    BY <1>2, AppendOf DEF IsPieces
  <2>2. QED
    BY <1>1, <1>2, <1>3, <2>1 DEF TypedFrame
<1>5. class = "string" => p.text = AllText(h.node.children)
  <2>1. class = "string" => o.text = AllText(children) /\ p.text = o.text \o n.text
    BY DEF RightObject, Takes
  <2>2. QED
    BY <1>1, <1>3, <2>1
<1>6. class # "string" => p.attributes = buildAttributes(class, h.node.attributes)
  BY <1>1 DEF RightObject
<1>7. ASSUME NEW m \in DOMAIN o.members \ {"valueOf_"}
      PROVE  p.members[m] = Kept(class, m, ItemsFor(h, m))
  <2> DEFINE items == ItemsFor(f, m)
  <2>1. o.members[m] = Kept(class, m, items)
    BY <1>7 DEF RightObject
  <2>2. p.members[m] = IF ~Belongs(class, n, m) THEN o.members[m]
                       ELSE IF IsSingle(class, m) THEN <<x>>
                       ELSE Append(o.members[m], x)
    BY <1>7 DEF Takes
  <2>3. IsSeq(items) /\ ItemsFor(h, m) = IF Belongs(class, n, m) THEN Append(items, x)
                                         ELSE items
    BY ItemsGrow
  <2> HIDE DEF items, class
  <2>4. KeepsOn(class, m, items, x)
    BY <2>3, KeptIs
  <2>5. QED
    BY <2>1, <2>2, <2>3, <2>4 DEF KeepsOn
<1>8. ASSUME "valueOf_" \in DOMAIN o.members
      PROVE  /\ IsPieces(p.members["valueOf_"]) /\ IsJoined(p.members["valueOf_"])
             /\ AllText(p.members["valueOf_"]) = AllText(TextNodes(h))
  <2> DEFINE value == o.members["valueOf_"]
             texts == TextNodes(f)
  <2>1. IsPieces(value) /\ IsJoined(value) /\ AllText(value) = AllText(texts)
    BY <1>8 DEF RightObject
  <2>2. p.members["valueOf_"] = IF IsText(n) THEN Concatenated(value, n) ELSE value
    BY <1>8 DEF Takes
  <2>3. /\ IsPieces(texts)
        /\ TextNodes(h) = IF IsText(n) THEN Append(texts, n) ELSE texts
    BY TextNodesGrow
  <2> HIDE DEF value, texts
  <2>4. CASE IsText(n)
    <3>1. /\ IsPieces(Concatenated(value, n)) /\ IsJoined(Concatenated(value, n))
          /\ AllText(Concatenated(value, n)) = AllText(value) \o n.text
      BY <2>1, <2>4, ConcatenatedIs
    <3>2. AllText(Append(texts, n)) = AllText(texts) \o n.text
      BY <2>3, AllTextAppend
    <3>3. QED
      BY <2>1, <2>2, <2>3, <2>4, <3>1, <3>2
  <2>5. CASE ~IsText(n)
    BY <2>1, <2>2, <2>3, <2>5
  <2>6. QED
    BY <2>4, <2>5
<1>9. RightObject(h)
  BY <1>1, <1>5, <1>6, <1>7, <1>8 DEF RightObject
<1>10. QED
  BY <1>4, <1>9

-----------------------------------------------------------------------------
(* What the steps do to an object                                          *)

\* Text goes into the members for text, CDATA and comments into no other.
LEMMA TextTaken ==
  ASSUME NEW f, TypedFrame(f), NEW node, node.tag \in Characters
  PROVE  /\ Takes(f.object, TextInto(f.object, node), node, Str(node.tag, node.text))
         /\ DOMAIN TextInto(f.object, node) = DOMAIN f.object
         /\ TextInto(f.object, node).class = f.object.class
         /\ TextInto(f.object, node).tag = f.object.tag
         /\ TextInto(f.object, node).attributes = f.object.attributes
<1> DEFINE o == f.object
           p == TextInto(o, node)
           x == Str(node.tag, node.text)
           class == o.class
<1>1. /\ DOMAIN o = {"tag", "class", "attributes", "text", "members"}
      /\ class \in DOMAIN Classes \cup {"string"} /\ DOMAIN o.members = Members(class)
  BY DEF TypedFrame, HasFields
<1> HIDE DEF o
<1>2. CASE class = "string"
  <2>1. p = [o EXCEPT !.text = @ \o node.text]
    BY <1>2 DEF TextInto
  <2>2. Members(class) = {}
    BY <1>2 DEF Members, Children, Texts_
  <2>3. /\ p.text = o.text \o node.text /\ p.members = o.members /\ DOMAIN p = DOMAIN o
        /\ p.class = class /\ p.tag = o.tag /\ p.attributes = o.attributes
    BY <1>1, <2>1
  <2>4. Takes(o, p, node, x)
    BY <1>1, <2>2, <2>3 DEF Takes
  <2>5. QED
    BY <2>3, <2>4 DEF o
<1>3. CASE class # "string"
  <2> DEFINE members ==
        [m \in DOMAIN o.members |->
          CASE m = "valueOf_" /\ node.tag \in {"#text", "#cdata"} ->
                 Concatenated(o.members[m], node)
            [] m \in Texts_(class) \ {"valueOf_"} /\ node.tag = "#text" ->
                 Append(o.members[m], Str("#text", node.text))
            [] OTHER -> o.members[m]]
  <2>1. p = [o EXCEPT !.members = members]
    BY <1>3 DEF TextInto
  <2> HIDE DEF members, p
  <2>2. /\ p.members = members /\ DOMAIN p = DOMAIN o
        /\ p.class = class /\ p.tag = o.tag /\ p.attributes = o.attributes
    BY <1>1, <2>1
  <2>3. /\ node.tag \in {"#text", "#cdata", "#comment"}
        /\ IsText(node) <=> node.tag \in {"#text", "#cdata"}
    BY DEF Characters, IsText
  <2>4. DOMAIN members = DOMAIN o.members
    BY DEF members
  <2>5. ASSUME NEW m \in DOMAIN o.members \ {"valueOf_"}
        PROVE  members[m] = IF ~Belongs(class, node, m) THEN o.members[m]
                            ELSE IF IsSingle(class, m) THEN <<x>>
                            ELSE Append(o.members[m], x)
    <3>1. \A k \in Of(class, m) : k.tag # node.tag
      BY <1>1, <2>3, ClassFacts DEF Of
    <3>2. Belongs(class, node, m) <=> node.tag = "#text" /\ m \in Texts_(class)
      BY <3>1 DEF Belongs
    <3>3. CASE Belongs(class, node, m)
      <4>1. ~IsSingle(class, m)
        BY <1>1, <3>2, <3>3, ClassFacts DEF IsSingle, Of
      <4>2. members[m] = Append(o.members[m], Str("#text", node.text))
        BY <2>5, <3>2, <3>3 DEF members
      <4>3. QED
        BY <3>2, <3>3, <4>1, <4>2
    <3>4. CASE ~Belongs(class, node, m)
      <4>1. members[m] = o.members[m]
        BY <2>5, <3>2, <3>4 DEF members
      <4>2. QED
        BY <3>4, <4>1
    <3>5. QED
      BY <3>3, <3>4
  <2>6. "valueOf_" \in DOMAIN o.members =>
          members["valueOf_"] = IF IsText(node) THEN Concatenated(o.members["valueOf_"], node)
                                ELSE o.members["valueOf_"]
    BY <2>3 DEF members
  <2>7. Takes(o, p, node, x)
    BY <1>3, <2>2, <2>4, <2>5, <2>6 DEF Takes
  <2>8. QED
    BY <2>2, <2>7 DEF o, p
<1>4. QED
  BY <1>2, <1>3

\* A child goes into the member of its tag.
LEMMA ChildTaken ==
  ASSUME NEW f, TypedFrame(f), NEW k \in Children(f.object.class),
         NEW n, n.tag = k.tag, NEW x, x.tag = k.tag
  PROVE  /\ Takes(f.object, ChildInto(f.object, x), n, x)
         /\ DOMAIN ChildInto(f.object, x) = DOMAIN f.object
         /\ ChildInto(f.object, x).class = f.object.class
         /\ ChildInto(f.object, x).tag = f.object.tag
         /\ ChildInto(f.object, x).attributes = f.object.attributes
<1> DEFINE o == f.object
           p == ChildInto(o, x)
           class == o.class
           new == IF k.keep = "all" THEN Append(o.members[k.member], x) ELSE <<x>>
<1>1. /\ DOMAIN o = {"tag", "class", "attributes", "text", "members"}
      /\ class \in DOMAIN Classes \cup {"string"} /\ DOMAIN o.members = Members(class)
  BY DEF TypedFrame, HasFields
<1>2. class # "string"
  BY DEF Children
<1>3. /\ k.tag \notin {"#text", "#cdata", "#comment", "other"}
      /\ k.member # "valueOf_" /\ k.keep \in {"last", "all"}
      /\ k.member \in Members(class)
      /\ \A j \in Children(class) : /\ j.tag = k.tag => j = k
                                    /\ j.member = k.member => j.keep = k.keep
  BY <1>1, ClassFacts
<1>4. ChildOf(class, x.tag) = k
  BY <1>1, ChildIs
<1>5. p = [o EXCEPT !.members[k.member] = new]
  BY <1>4 DEF ChildInto
<1> HIDE DEF o, p, new
<1>6. /\ DOMAIN p = DOMAIN o /\ DOMAIN p.members = DOMAIN o.members
      /\ p.class = class /\ p.tag = o.tag /\ p.attributes = o.attributes
      /\ p.members[k.member] = new
      /\ \A m \in DOMAIN o.members : m # k.member => p.members[m] = o.members[m]
  BY <1>1, <1>3, <1>5
<1>7. ~IsText(n)
  BY <1>3 DEF IsText
<1>8. ASSUME NEW m \in DOMAIN o.members \ {"valueOf_"}
      PROVE  p.members[m] = IF ~Belongs(class, n, m) THEN o.members[m]
                            ELSE IF IsSingle(class, m) THEN <<x>>
                            ELSE Append(o.members[m], x)
  <2>1. Belongs(class, n, m) <=> m = k.member
    BY <1>3 DEF Belongs, Of, o
  <2>2. CASE m = k.member
    <3>1. IsSingle(class, m) <=> k.keep = "last"
      BY <1>3, <2>2 DEF IsSingle, Of, o
    <3>2. p.members[m] = new
      BY <1>6, <2>2
    <3>3. new = IF IsSingle(class, m) THEN <<x>> ELSE Append(o.members[m], x)
      BY <1>3, <2>2, <3>1 DEF new
    <3>4. QED
      BY <2>1, <2>2, <3>2, <3>3
  <2>3. CASE m # k.member
    BY <1>6, <1>8, <2>1, <2>3
  <2>4. QED
    BY <2>2, <2>3
<1>9. "valueOf_" \in DOMAIN o.members => p.members["valueOf_"] = o.members["valueOf_"]
  BY <1>3, <1>6
<1>10. Takes(o, p, n, x)
  BY <1>2, <1>6, <1>7, <1>8, <1>9 DEF Takes
<1>11. QED
  BY <1>6, <1>10 DEF o, p

\* An unknown element goes nowhere.
LEMMA UnknownTaken ==
  ASSUME NEW f, TypedFrame(f), RightObject(f), NEW n, n.tag = "other", n.text = <<>>, NEW x
  PROVE  Takes(f.object, f.object, n, x)
<1> DEFINE o == f.object
           class == o.class
<1>1. class \in DOMAIN Classes \cup {"string"}
  BY DEF TypedFrame
<1>2. class = "string" => o.text = o.text \o n.text
  <2> SUFFICES ASSUME class = "string" PROVE o.text = o.text \o n.text
    OBVIOUS
  <2>1. IsPieces(f.node.children) /\ o.text = AllText(f.node.children)
    BY DEF TypedFrame, RightObject
  <2>2. o.text \in Seq(Char)
    BY <2>1, AllTextType
  <2>3. QED
    BY <2>2, ConcatEmptySeq
<1>3. \A m : ~Belongs(class, n, m)
  BY <1>1, ClassFacts DEF Belongs, Of
<1>4. ~IsText(n)
  BY DEF IsText
<1>5. QED
  BY <1>2, <1>3, <1>4 DEF Takes

\* Of nothing there is no text, and nothing can be chosen.
LEMMA NothingIs ==
  ASSUME NEW e, e \in Seq({}), Len(e) = 0
  PROVE  /\ IsSeq(e) /\ IsPieces(e) /\ IsJoined(e)
         /\ AllText(e) = <<>>
         /\ \A I : Chosen(e, I) = <<>>
<1> DEFINE texts == [i \in DOMAIN e |-> e[i].text]
<1>1. IsSeq(e)
  BY SeqOfItself
<1>2. IsPieces(e)
  BY <1>1 DEF IsPieces
<1>3. IsJoined(e)
  BY DEF IsJoined
<1>4. texts \in Seq(Seq(Char)) /\ Len(texts) = 0
  <2>1. texts \in Seq(Seq(Char))
    BY <1>2, TextsOf
  <2>2. DOMAIN e = 1..0
    BY LenProperties
  <2>3. DOMAIN texts = 1..0
    BY <2>2
  <2> HIDE DEF texts
  <2>4. Len(texts) \in Nat /\ 1..Len(texts) = 1..0
    BY <2>1, <2>3, LenProperties
  <2>5. 1 \notin 1..Len(texts)
    BY <2>4
  <2>6. QED
    BY <2>1, <2>4, <2>5
<1> HIDE DEF texts
<1>5. FlattenSeq(texts) = <<>>
  <2>1. \E f \in [0..Len(texts) -> Seq(Char)] :
          f[0] = <<>> /\ FlattenSeq(texts) = f[Len(texts)]
    BY <1>4, FlattenDefined
  <2>2. QED
    BY <1>4, <2>1
<1>6. AllText(e) = <<>>
  BY <1>5 DEF AllText, texts
<1>7. ASSUME NEW I PROVE Chosen(e, I) = <<>>
  <2>1. \A i \in 1..Len(e) : i \notin I
    OBVIOUS
  <2>2. QED
    BY <2>1, ChosenNone
<1>8. QED
  BY <1>1, <1>2, <1>3, <1>6, <1>7

\* The empty object is what no nodes make up.
LEMMA BegunRight ==
  ASSUME NEW tag, NEW class \in DOMAIN Classes \cup {"string"}, NEW attributes
  PROVE  /\ TypedFrame(Begun(tag, class, attributes)) /\ RightObject(Begun(tag, class, attributes))
         /\ Begun(tag, class, attributes).object.class = class
         /\ Begun(tag, class, attributes).object.tag = tag
         /\ Begun(tag, class, attributes).node.attributes = attributes
         /\ Begun(tag, class, attributes).node.children = <<>>
<1> DEFINE f == Begun(tag, class, attributes)
           o == f.object
<1>1. /\ DOMAIN f = {"node", "object", "made"} /\ f.made = <<>>
      /\ f.node = Node(tag, attributes, <<>>, <<>>)
      /\ o.tag = tag /\ o.class = class /\ o.text = <<>>
      /\ o.attributes = IF class = "string" THEN <<>> ELSE buildAttributes(class, attributes)
      /\ o.members = [m \in Members(class) |-> Default(class, m)]
      /\ DOMAIN o = {"tag", "class", "attributes", "text", "members"}
  BY DEF Begun, Object
<1>2. /\ DOMAIN f.node = {"tag", "attributes", "text", "children"}
      /\ f.node.tag = tag /\ f.node.attributes = attributes
      /\ f.node.text = <<>> /\ f.node.children = <<>>
  BY <1>1 DEF Node
<1> HIDE DEF f
<1>3. /\ IsSeq(<<>>) /\ IsPieces(<<>>) /\ IsJoined(<<>>)
      /\ AllText(<<>>) = <<>>
      /\ \A I : Chosen(<<>>, I) = <<>>
  <2> DEFINE e == <<>>
  <2>1. e \in Seq({}) /\ Len(e) = 0
    BY EmptySeq
  <2> HIDE DEF e
  <2>2. /\ IsSeq(e) /\ IsPieces(e) /\ IsJoined(e) /\ AllText(e) = <<>>
        /\ \A I : Chosen(e, I) = <<>>
    BY <2>1, NothingIs
  <2>3. QED
    BY <2>2 DEF e
<1>4. TypedFrame(f)
  BY <1>1, <1>2, <1>3 DEF TypedFrame, HasFields
<1>5. TextNodes(f) = <<>> /\ \A m : ItemsFor(f, m) = <<>>
  BY <1>1, <1>2, <1>3 DEF TextNodes, ItemsFor
<1>6. \A m : Kept(class, m, <<>>) = Default(class, m)
  BY DEF Kept
<1>7. Default(class, "valueOf_") = <<>>
  BY ClassFacts DEF Default, Of
<1>8. RightObject(f)
  BY <1>1, <1>2, <1>3, <1>5, <1>6, <1>7 DEF RightObject
<1>9. QED
  BY <1>1, <1>2, <1>4, <1>8 DEF f

\* An object that has taken the node is put back.
LEMMA PutBack ==
  ASSUME NEW f, HasFields(f), NEW n, NEW x, NEW p, DOMAIN p = DOMAIN f.object,
         p.class = f.object.class, p.tag = f.object.tag, p.attributes = f.object.attributes
  PROVE  /\ Grown(f, [Seen(f, n, x) EXCEPT !.object = p], n, x)
         /\ [Seen(f, n, x) EXCEPT !.object = p].object = p
<1> DEFINE seen == Seen(f, n, x)
           h == [seen EXCEPT !.object = p]
<1>1. /\ HasFields(seen) /\ seen.object = f.object
      /\ seen.made = Append(f.made, x) /\ seen.node.children = Append(f.node.children, n)
      /\ seen.node.tag = f.node.tag /\ seen.node.text = f.node.text
      /\ seen.node.attributes = f.node.attributes
  BY SeenIs
<1> HIDE DEF seen
<1>2. HasFields(h) /\ h.object = p /\ h.made = seen.made /\ h.node = seen.node
  BY <1>1, WithObject
<1> HIDE DEF h
<1>3. Grown(f, h, n, x)
  BY <1>1, <1>2 DEF Grown
<1>4. QED
  BY <1>2, <1>3 DEF h, seen

-----------------------------------------------------------------------------
(* The elements under construction                                         *)

\* What a frame can have wrong with it.
IsBad(f) == f.object.class # "string" /\ BadInteger(f.object.class, f.node.attributes)
IsRefused(f) == /\ f.object.class = "string"
                /\ \E i \in DOMAIN f.node.children : IsElement(f.node.children[i])

\* The parent knows the element, and builds it with its class.
IsLinked(parent, f) ==
  \E k \in Children(parent.object.class) : k.tag = f.object.tag /\ k.class = f.object.class

\* Elements one in another.
AreLevels(s) ==
  /\ IsSeq(s) /\ Len(s) > 0
  /\ \A d \in 1..Len(s) : TypedFrame(s[d]) /\ RightObject(s[d])
  /\ \A d \in 2..Len(s) : IsLinked(s[d - 1], s[d])

\* Only the innermost has anything wrong with it, which is then raised.
IsRaised(s, r) ==
  \A d \in 1..Len(s) : /\ IsBad(s[d]) <=> (r = "ValueError" /\ d = Len(s))
                       /\ IsRefused(s[d]) <=> (r = "TypeError" /\ d = Len(s))

LevelInv ==
  /\ AreLevels(stack) /\ IsRaised(stack, result)
  /\ result \in {"reading", "built", "ValueError", "TypeError"}
  /\ Made.class \in DOMAIN Bound /\ nodes \in 0..Bound[Made.class]

\* t is the first n of s, and then f.
IsUpTo(t, s, n, f) ==
  /\ IsSeq(t) /\ Len(t) = n + 1 /\ t[n + 1] = f
  /\ \A i \in 1..n : t[i] = s[i]

\* The sequence of the first n of another, with an element more.
LEMMA UpToIs ==
  ASSUME NEW front, IsSeq(front), NEW s, NEW f, \A i \in 1..Len(front) : front[i] = s[i]
  PROVE  IsUpTo(front \o <<f>>, s, Len(front), f)
<1>1. /\ IsSeq(Append(front, f)) /\ Len(Append(front, f)) = Len(front) + 1
      /\ Append(front, f)[Len(front) + 1] = f
      /\ \A i \in 1..Len(front) : Append(front, f)[i] = front[i]
  BY AppendOf
<1>2. Append(front, f) = front \o <<f>>
  <2>1. front \in Seq(ToSet(front) \cup {f}) /\ f \in ToSet(front) \cup {f}
    BY CommonSet
  <2>2. QED
    BY <2>1, AppendIsConcat
<1>3. QED
  BY <1>1, <1>2 DEF IsUpTo

\* A node more of the innermost element.
LEMMA ReplacesTop ==
  ASSUME NEW s, IsSeq(s), Len(s) > 0, NEW f
  PROVE  /\ Len(s) \in Nat /\ Last(s) = s[Len(s)]
         /\ IsUpTo(Front(s) \o <<f>>, s, Len(s) - 1, f)
<1>1. s # <<>>
  BY EmptySeq
<1>2. /\ Len(s) \in Nat /\ Last(s) = s[Len(s)]
      /\ IsSeq(Front(s)) /\ Len(Front(s)) = Len(s) - 1
      /\ \A i \in 1..(Len(s) - 1) : Front(s)[i] = s[i]
  BY <1>1, FrontOf
<1>3. QED
  BY <1>2, UpToIs

\* A node more of the one around it, the innermost having ended.
LEMMA EndsTop ==
  ASSUME NEW s, IsSeq(s), Len(s) > 1, NEW f
  PROVE  IsUpTo(SubSeq(s, 1, Len(s) - 2) \o <<f>>, s, Len(s) - 2, f)
<1> DEFINE n == Len(s) - 2
           front == SubSeq(s, 1, n)
<1>1. Len(s) \in Nat /\ \A i \in 1..Len(s) : s[i] \in ToSet(s)
  BY LenProperties, ElementOfSeq DEF IsSeq
<1>2. n \in Nat /\ 1..n \subseteq 1..Len(s)
  BY <1>1
<1> HIDE DEF n
<1>3. /\ front \in Seq(ToSet(s)) /\ Len(front) = n
      /\ \A i \in 1..n : front[i] = s[i]
  <2>1. /\ front \in Seq(ToSet(s)) /\ Len(front) = IF 1 <= n THEN n - 1 + 1 ELSE 0
        /\ \A i \in 1..(n - 1 + 1) : front[i] = s[1 + i - 1]
    BY <1>1, <1>2, SubSeqProperties
  <2>2. n - 1 + 1 = n /\ \A i \in 1..n : 1 + i - 1 = i
    BY <1>2
  <2>3. QED
    BY <1>2, <2>1, <2>2
<1> HIDE DEF front
<1>4. IsSeq(front)
  BY <1>3, SeqOfItself
<1>5. IsUpTo(front \o <<f>>, s, n, f)
  BY <1>3, <1>4, UpToIs
<1>6. QED
  BY <1>5 DEF front, n

\* An element more among the innermost, or one element with a node more and
\* none in it: the elements are still one in another.
LEMMA LevelsRemain ==
  ASSUME NEW s, AreLevels(s), IsRaised(s, "reading"),
         NEW n \in 0..Len(s), NEW f, TypedFrame(f), RightObject(f),
         n = Len(s) => IsLinked(s[n], f),
         n < Len(s) => f.object.class = s[n + 1].object.class /\ f.object.tag = s[n + 1].object.tag,
         NEW r, IsBad(f) <=> r = "ValueError", IsRefused(f) <=> r = "TypeError",
         NEW t, IsUpTo(t, s, n, f)
  PROVE  AreLevels(t) /\ IsRaised(t, r) /\ t[1].object.class = s[1].object.class
<1>1. /\ Len(s) \in Nat /\ Len(s) > 0 /\ n \in Nat /\ n <= Len(s)
      /\ IsSeq(t) /\ Len(t) = n + 1 /\ t[n + 1] = f
      /\ \A i \in 1..n : t[i] = s[i]
  BY SeqOfItself DEF AreLevels, IsUpTo, IsSeq
<1>2. ASSUME NEW d \in 1..(n + 1) PROVE TypedFrame(t[d]) /\ RightObject(t[d])
  <2>1. d = n + 1 \/ (d \in 1..n /\ d \in 1..Len(s))
    BY <1>1
  <2>2. QED
    BY <1>1, <2>1 DEF AreLevels
<1>3. ASSUME NEW d \in 2..(n + 1) PROVE IsLinked(t[d - 1], t[d])
  <2>1. d - 1 \in 1..n /\ t[d - 1] = s[d - 1]
    BY <1>1
  <2>2. CASE d \in 1..n
    <3>1. d \in 2..Len(s) /\ t[d] = s[d]
      BY <1>1, <2>2
    <3>2. QED
      BY <2>1, <3>1 DEF AreLevels
  <2>3. CASE d = n + 1
    <3>1. t[d] = f /\ t[d - 1] = s[n]
      BY <1>1, <2>1, <2>3
    <3>2. CASE n = Len(s)
      BY <3>1, <3>2
    <3>3. CASE n < Len(s)
      <4>1. d \in 2..Len(s) /\ d - 1 = n
        BY <1>1, <2>3, <3>3
      <4>2. IsLinked(s[n], s[n + 1])
        BY <2>3, <4>1 DEF AreLevels
      <4>3. QED
        BY <3>1, <3>3, <4>2 DEF IsLinked
    <3>4. QED
      BY <1>1, <3>2, <3>3
  <2>4. QED
    BY <1>1, <2>2, <2>3
<1>4. ASSUME NEW d \in 1..(n + 1)
      PROVE  /\ IsBad(t[d]) <=> (r = "ValueError" /\ d = n + 1)
             /\ IsRefused(t[d]) <=> (r = "TypeError" /\ d = n + 1)
  <2>1. CASE d \in 1..n
    <3>1. d \in 1..Len(s) /\ t[d] = s[d] /\ d # n + 1
      BY <1>1, <2>1
    <3>2. QED
      BY <3>1 DEF IsRaised
  <2>2. CASE d = n + 1
    BY <1>1, <2>2
  <2>3. QED
    BY <1>1, <2>1, <2>2
<1>5. t[1].object.class = s[1].object.class
  <2>1. n = 0 \/ 1 \in 1..n
    BY <1>1
  <2>2. QED
    BY <1>1, <2>1
<1>6. QED
  BY <1>1, <1>2, <1>3, <1>4, <1>5 DEF AreLevels, IsRaised

\* So the invariant holds after a step that is one of these.
LEMMA InvRemains ==
  ASSUME LevelInv, result = "reading",
         NEW n \in 0..Len(stack), NEW f, TypedFrame(f), RightObject(f),
         n = Len(stack) => IsLinked(stack[n], f),
         n < Len(stack) => /\ f.object.class = stack[n + 1].object.class
                           /\ f.object.tag = stack[n + 1].object.tag,
         IsBad(f) <=> result' = "ValueError", IsRefused(f) <=> result' = "TypeError",
         result' \in {"reading", "built", "ValueError", "TypeError"},
         nodes' \in 0..Bound[Made.class],
         IsUpTo(stack', stack, n, f)
  PROVE  LevelInv'
<1>1. AreLevels(stack) /\ IsRaised(stack, "reading")
  BY DEF LevelInv
<1> DEFINE t == stack'
           r == result'
<1>2. IsUpTo(t, stack, n, f) /\ (IsBad(f) <=> r = "ValueError") /\ (IsRefused(f) <=> r = "TypeError")
  OBVIOUS
<1> HIDE DEF t, r
<1>3. AreLevels(t) /\ IsRaised(t, r) /\ t[1].object.class = stack[1].object.class
  BY <1>1, <1>2, LevelsRemain
<1>4. Made.class' = Made.class
  BY <1>3 DEF Made, t
<1>5. AreLevels(stack)' /\ IsRaised(stack, result)'
  BY <1>3 DEF t, r, AreLevels, IsRaised
<1>6. QED
  BY <1>4, <1>5 DEF LevelInv

-----------------------------------------------------------------------------
(* The steps                                                               *)

\* What a node more makes of a frame, and of what is wrong with it.
LEMMA FrameRemains ==
  ASSUME NEW f, TypedFrame(f), RightObject(f), NEW n, n.text \in Seq(Char), NEW x,
         NEW h, Grown(f, h, n, x), Takes(f.object, h.object, n, x)
  PROVE  /\ TypedFrame(h) /\ RightObject(h)
         /\ h.object.class = f.object.class /\ h.object.tag = f.object.tag
         /\ IsBad(h) <=> IsBad(f)
         /\ IsRefused(h) <=> (IsRefused(f) \/ (f.object.class = "string" /\ IsElement(n)))
<1> DEFINE children == f.node.children
<1>1. TypedFrame(h) /\ RightObject(h)
  BY FrameGrows
<1>2. /\ h.object.class = f.object.class /\ h.object.tag = f.object.tag
      /\ h.node.attributes = f.node.attributes /\ h.node.children = Append(children, n)
  BY DEF Grown
<1>3. IsSeq(children)
  BY DEF TypedFrame, IsPieces
<1>4. /\ DOMAIN children = 1..Len(children) /\ Len(children) \in Nat
      /\ DOMAIN Append(children, n) = 1..(Len(children) + 1)
      /\ Append(children, n)[Len(children) + 1] = n
      /\ \A i \in 1..Len(children) : Append(children, n)[i] = children[i]
  BY <1>3, AppendOf
<1> DEFINE more == Append(children, n)
<1> HIDE DEF children, more
<1>5. (\E i \in DOMAIN more : IsElement(more[i]))
        <=> (\E i \in DOMAIN children : IsElement(children[i])) \/ IsElement(n)
  <2>1. ASSUME NEW i \in DOMAIN more, IsElement(more[i])
        PROVE  (\E j \in DOMAIN children : IsElement(children[j])) \/ IsElement(n)
    <3>1. i \in 1..Len(children) \/ i = Len(children) + 1
      BY <1>4, <2>1 DEF more
    <3>2. QED
      BY <1>4, <2>1, <3>1 DEF more
  <2>2. ASSUME NEW i \in DOMAIN children, IsElement(children[i])
        PROVE  \E j \in DOMAIN more : IsElement(more[j])
    <3>1. i \in DOMAIN more /\ more[i] = children[i]
      BY <1>4, <2>2 DEF more
    <3>2. QED
      BY <2>2, <3>1
  <2>3. ASSUME IsElement(n) PROVE \E j \in DOMAIN more : IsElement(more[j])
    <3>1. Len(children) + 1 \in DOMAIN more /\ more[Len(children) + 1] = n
      BY <1>4 DEF more
    <3>2. QED
      BY <2>3, <3>1
  <2>4. QED
    BY <2>1, <2>2, <2>3
<1>6. IsBad(h) <=> IsBad(f)
  BY <1>2 DEF IsBad
<1>7. IsRefused(h) <=> (IsRefused(f) \/ (f.object.class = "string" /\ IsElement(n)))
  BY <1>2, <1>5 DEF IsRefused, children, more
<1>8. QED
  BY <1>1, <1>2, <1>6, <1>7

\* While nodes are read, nothing is wrong with any element.
LEMMA NothingWrong ==
  ASSUME LevelInv, result = "reading", NEW d \in 1..Len(stack)
  PROVE  TypedFrame(stack[d]) /\ RightObject(stack[d]) /\ ~IsBad(stack[d]) /\ ~IsRefused(stack[d])
BY DEF LevelInv, AreLevels, IsRaised

LEMMA TopIs ==
  ASSUME LevelInv
  PROVE  /\ IsSeq(stack) /\ Len(stack) \in Nat /\ Len(stack) > 0
         /\ Len(stack) \in 1..Len(stack) /\ Top = stack[Len(stack)]
<1>1. IsSeq(stack) /\ Len(stack) > 0
  BY DEF LevelInv, AreLevels
<1>2. Len(stack) \in Nat /\ Last(stack) = stack[Len(stack)]
  BY <1>1, ReplacesTop
<1>3. QED
  BY <1>1, <1>2 DEF Top

LEMMA ReadingBounded ==
  ASSUME LevelInv, Reading
  PROVE  nodes' \in 0..Bound[Made.class] /\ result = "reading" /\ nodes' \in Nat
<1>1. Bound[Made.class] \in Nat
  BY ClassesAssumption DEF LevelInv
<1>2. QED
  BY <1>1 DEF LevelInv, Reading, Made

LEMMA InitRight ==
  ASSUME Init
  PROVE  LevelInv
<1>1. PICK class \in DOMAIN Bound : \E attributes \in AttributeChoices(class) :
        /\ stack = <<Begun("root", class, attributes)>>
        /\ nodes = 0
        /\ result = IF BadInteger(class, attributes) THEN "ValueError" ELSE "reading"
  BY DEF Init
<1>2. PICK attributes :
        /\ stack = <<Begun("root", class, attributes)>>
        /\ nodes = 0
        /\ result = IF BadInteger(class, attributes) THEN "ValueError" ELSE "reading"
  BY <1>1
<1> DEFINE f == Begun("root", class, attributes)
<1>3. class \in DOMAIN Classes /\ class # "string" /\ Bound[class] \in Nat
  BY ClassesAssumption
<1>4. /\ TypedFrame(f) /\ RightObject(f) /\ f.object.class = class
      /\ f.node.attributes = attributes /\ f.node.children = <<>>
  BY <1>3, BegunRight
<1> HIDE DEF f
<1>5. IsSeq(stack) /\ Len(stack) = 1 /\ stack[1] = f
  <2>1. <<f>> \in Seq({f}) /\ Len(<<f>>) = 1 /\ <<f>>[1] = f
    OBVIOUS
  <2>2. IsSeq(<<f>>)
    BY <2>1, SeqOfItself
  <2>3. QED
    BY <1>2, <2>1, <2>2 DEF f
<1>6. AreLevels(stack)
  BY <1>4, <1>5 DEF AreLevels
<1>7. IsBad(f) <=> result = "ValueError"
  BY <1>2, <1>3, <1>4 DEF IsBad
<1>8. ~IsRefused(f) /\ result # "TypeError"
  BY <1>2, <1>3, <1>4 DEF IsRefused
<1>9. IsRaised(stack, result)
  BY <1>5, <1>7, <1>8 DEF IsRaised
<1>10. Made.class = class
  BY <1>4, <1>5 DEF Made
<1>11. result \in {"reading", "ValueError"} /\ nodes \in 0..Bound[class]
  BY <1>2, <1>3
<1>12. QED
  BY <1>6, <1>9, <1>10, <1>11 DEF LevelInv

LEMMA ReadTextRight ==
  ASSUME LevelInv, ReadText
  PROVE  LevelInv'
<1>1. nodes' \in 0..Bound[Made.class] /\ result = "reading" /\ nodes' \in Nat /\ result' = result
  BY ReadingBounded DEF ReadText
<1>2. PICK tag \in Characters, char \in {"a", "<"} :
        LET node == Leaf(tag, <<[char |-> char, at |-> nodes']>>)
        IN  stack' = Front(stack) \o
                       <<[Seen(Top, node, Str(tag, node.text)) EXCEPT
                              !.object = TextInto(@, node)]>>
  BY DEF ReadText
<1> DEFINE n == Len(stack)
           node == Leaf(tag, <<[char |-> char, at |-> nodes']>>)
           x == Str(tag, node.text)
           p == TextInto(Top.object, node)
           h == [Seen(Top, node, x) EXCEPT !.object = p]
<1>3. /\ IsSeq(stack) /\ n \in Nat /\ n > 0 /\ n \in 1..n /\ Top = stack[n]
      /\ TypedFrame(Top) /\ RightObject(Top) /\ ~IsBad(Top) /\ ~IsRefused(Top)
  BY <1>1, TopIs, NothingWrong
<1>4. node.tag = tag /\ node.text \in Seq(Char)
  <2>1. node.tag = tag /\ node.text = <<[char |-> char, at |-> nodes']>>
    BY DEF Leaf, Node
  <2> DEFINE one == [char |-> char, at |-> nodes']
  <2>2. one \in Char
    BY <1>1 DEF Char
  <2> HIDE DEF one
  <2>3. <<one>> \in Seq(Char)
    BY <2>2
  <2>4. QED
    BY <2>1, <2>3 DEF one
<1>5. Seen(Top, node, x).object = Top.object
  BY <1>3, SeenIs DEF TypedFrame
<1>6. stack' = Front(stack) \o <<h>>
  BY <1>2, <1>5
<1> HIDE DEF node, h
<1>7. /\ Takes(Top.object, p, node, x) /\ DOMAIN p = DOMAIN Top.object
      /\ p.class = Top.object.class /\ p.tag = Top.object.tag
      /\ p.attributes = Top.object.attributes
  BY <1>3, <1>4, TextTaken
<1> HIDE DEF x, p
<1>8. Grown(Top, h, node, x) /\ h.object = p
  BY <1>3, <1>7, PutBack DEF TypedFrame, h
<1>9. ~IsElement(node)
  BY <1>4 DEF IsElement
<1>10. /\ TypedFrame(h) /\ RightObject(h) /\ ~IsBad(h) /\ ~IsRefused(h)
       /\ h.object.class = Top.object.class /\ h.object.tag = Top.object.tag
  BY <1>3, <1>4, <1>7, <1>8, <1>9, FrameRemains
<1>11. IsUpTo(stack', stack, n - 1, h)
  BY <1>3, <1>6, ReplacesTop
<1>12. n - 1 \in 0..Len(stack) /\ n - 1 < Len(stack) /\ n - 1 + 1 = n
  BY <1>3
<1> HIDE DEF n
<1>13. stack[n - 1 + 1] = Top
  BY <1>3, <1>12
<1>14. QED
  BY <1>1, <1>10, <1>11, <1>12, <1>13, InvRemains

LEMMA ReadChildRight ==
  ASSUME LevelInv, ReadChild
  PROVE  LevelInv'
<1>1. nodes' \in 0..Bound[Made.class] /\ result = "reading"
  BY ReadingBounded DEF ReadChild
<1>2. PICK k \in Children(Class) : Begin(k.tag, k.class)
  BY DEF ReadChild
<1>3. PICK attributes :
        /\ stack' = Append(stack, Begun(k.tag, k.class, attributes))
        /\ result' = IF k.class # "string" /\ BadInteger(k.class, attributes)
                     THEN "ValueError" ELSE "reading"
  BY <1>2 DEF Begin
<1> DEFINE n == Len(stack)
           f == Begun(k.tag, k.class, attributes)
<1>4. /\ IsSeq(stack) /\ n \in Nat /\ n > 0 /\ n \in 1..n /\ Top = stack[n]
      /\ TypedFrame(Top)
  BY <1>1, TopIs, NothingWrong
<1>5. k \in Children(Top.object.class) /\ k.class \in DOMAIN Classes \cup {"string"}
  BY <1>2, <1>4, ClassFacts DEF TypedFrame, Class
<1>6. /\ TypedFrame(f) /\ RightObject(f) /\ f.object.class = k.class /\ f.object.tag = k.tag
      /\ f.node.attributes = attributes /\ f.node.children = <<>>
  BY <1>5, BegunRight
<1>7. stack' = Append(stack, f)
  BY <1>3
<1> HIDE DEF f
<1>8. IsLinked(Top, f)
  BY <1>5, <1>6 DEF IsLinked
<1>9. IsBad(f) <=> result' = "ValueError"
  BY <1>3, <1>6 DEF IsBad
<1>10. ~IsRefused(f) /\ result' # "TypeError" /\ result' \in {"reading", "ValueError"}
  BY <1>3, <1>6 DEF IsRefused
<1>11. IsUpTo(stack', stack, n, f)
  BY <1>4, <1>7, AppendOf DEF IsUpTo
<1>12. n \in 0..Len(stack) /\ ~(n < Len(stack)) /\ stack[n] = Top
  BY <1>4
<1> HIDE DEF n
<1>13. QED
  BY <1>1, <1>6, <1>8, <1>9, <1>10, <1>11, <1>12, InvRemains

LEMMA ReadUnknownRight ==
  ASSUME LevelInv, ReadUnknown
  PROVE  LevelInv'
<1> DEFINE n == Len(stack)
           node == Node("other", <<>>, <<>>, <<Leaf("#text", <<[char |-> "a", at |-> nodes']>>)>>)
           x == Str("other", <<>>)
           h == Seen(Top, node, x)
<1>1. nodes' \in 0..Bound[Made.class] /\ result = "reading"
  BY ReadingBounded DEF ReadUnknown
<1>2. stack' = Front(stack) \o <<h>>
  BY DEF ReadUnknown
<1>3. result' = IF Class = "string" THEN "TypeError" ELSE "reading"
  BY <1>1 DEF ReadUnknown
<1>4. /\ IsSeq(stack) /\ n \in Nat /\ n > 0 /\ n \in 1..n /\ Top = stack[n]
      /\ TypedFrame(Top) /\ RightObject(Top) /\ ~IsBad(Top) /\ ~IsRefused(Top)
  BY <1>1, TopIs, NothingWrong
<1>5. node.tag = "other" /\ node.text = <<>> /\ node.text \in Seq(Char)
  BY DEF Node
<1>6. IsElement(node)
  BY <1>5 DEF IsElement, Characters
<1> HIDE DEF node, x
<1>7. Grown(Top, h, node, x) /\ h.object = Top.object
  <2> DEFINE top == Top
  <2>1. HasFields(top)
    BY <1>4 DEF TypedFrame
  <2> HIDE DEF top
  <2>2. Grown(top, Seen(top, node, x), node, x) /\ Seen(top, node, x).object = top.object
    BY <2>1, SeenIs DEF Grown
  <2>3. QED
    BY <2>2 DEF top
<1> HIDE DEF h
<1>8. Takes(Top.object, h.object, node, x)
  BY <1>4, <1>5, <1>7, UnknownTaken
<1>9. /\ TypedFrame(h) /\ RightObject(h) /\ ~IsBad(h)
      /\ IsRefused(h) <=> Top.object.class = "string"
      /\ h.object.class = Top.object.class /\ h.object.tag = Top.object.tag
  BY <1>4, <1>5, <1>6, <1>7, <1>8, FrameRemains
<1>10. /\ IsRefused(h) <=> result' = "TypeError"
       /\ result' # "ValueError" /\ result' \in {"reading", "TypeError"}
  BY <1>3, <1>9 DEF Class
<1>11. IsUpTo(stack', stack, n - 1, h)
  BY <1>2, <1>4, ReplacesTop
<1>12. n - 1 \in 0..Len(stack) /\ n - 1 < Len(stack) /\ n - 1 + 1 = n
  BY <1>4
<1> HIDE DEF n
<1>13. stack[n - 1 + 1] = Top
  BY <1>4, <1>12
<1>14. QED
  BY <1>1, <1>9, <1>10, <1>11, <1>12, <1>13, InvRemains

LEMMA EndChildRight ==
  ASSUME LevelInv, EndChild
  PROVE  LevelInv'
<1> DEFINE n == Len(stack)
           parent == stack[n - 1]
           node == Top.node
           x == Top.object
           p == ChildInto(parent.object, x)
           h == [Seen(parent, node, x) EXCEPT !.object = p]
<1>1. /\ result = "reading" /\ result' = "reading" /\ nodes' = nodes /\ n > 1
      /\ nodes \in 0..Bound[Made.class]
  BY DEF EndChild, LevelInv
<1>2. IsSeq(stack) /\ n \in Nat /\ n \in 1..n /\ Top = stack[n] /\ TypedFrame(Top)
  BY <1>1, TopIs, NothingWrong
<1>3. n - 1 \in 1..Len(stack)
  BY <1>1, <1>2
<1>4. TypedFrame(parent) /\ RightObject(parent) /\ ~IsBad(parent) /\ ~IsRefused(parent)
  BY <1>1, <1>3, NothingWrong
<1>5. Seen(parent, node, x).object = parent.object
  BY <1>4, SeenIs DEF TypedFrame
<1>6. stack' = SubSeq(stack, 1, n - 2) \o <<h>>
  BY <1>5 DEF EndChild
<1>7. IsLinked(parent, Top)
  BY <1>1, <1>2 DEF LevelInv, AreLevels
<1>8. PICK k \in Children(parent.object.class) : k.tag = x.tag
  BY <1>7 DEF IsLinked
<1>9. node.tag = k.tag /\ node.text = <<>> /\ node.text \in Seq(Char)
  BY <1>2, <1>8 DEF TypedFrame
<1>10. parent.object.class # "string"
  BY <1>8 DEF Children
<1> HIDE DEF parent, node, x, h
<1>11. /\ Takes(parent.object, p, node, x) /\ DOMAIN p = DOMAIN parent.object
       /\ p.class = parent.object.class /\ p.tag = parent.object.tag
       /\ p.attributes = parent.object.attributes
  BY <1>4, <1>8, <1>9, ChildTaken
<1> HIDE DEF p
<1>12. Grown(parent, h, node, x) /\ h.object = p
  BY <1>4, <1>11, PutBack DEF TypedFrame, h
<1>13. /\ TypedFrame(h) /\ RightObject(h) /\ ~IsBad(h) /\ ~IsRefused(h)
       /\ h.object.class = parent.object.class /\ h.object.tag = parent.object.tag
  BY <1>4, <1>9, <1>10, <1>11, <1>12, FrameRemains
<1>14. IsUpTo(stack', stack, n - 2, h)
  BY <1>1, <1>2, <1>6, EndsTop
<1>15. n - 2 \in 0..Len(stack) /\ n - 2 < Len(stack) /\ n - 2 + 1 = n - 1
  BY <1>1, <1>2
<1> HIDE DEF n
<1>16. stack[n - 2 + 1] = parent
  BY <1>15 DEF parent
<1>17. QED
  BY <1>1, <1>13, <1>14, <1>15, <1>16, InvRemains

LEMMA EndRootRight ==
  ASSUME LevelInv, EndRoot
  PROVE  LevelInv'
<1>1. /\ stack' = stack /\ nodes' = nodes /\ result = "reading" /\ result' = "built"
  BY DEF EndRoot
<1>2. IsRaised(stack, result)'
  BY <1>1 DEF LevelInv, IsRaised
<1>3. QED
  BY <1>1, <1>2 DEF LevelInv, AreLevels, Made

LEMMA StepRight ==
  ASSUME LevelInv, [Next]_vars
  PROVE  LevelInv'
<1>1. CASE ReadText
  BY <1>1, ReadTextRight
<1>2. CASE ReadChild
  BY <1>2, ReadChildRight
<1>3. CASE ReadUnknown
  BY <1>3, ReadUnknownRight
<1>4. CASE EndChild
  BY <1>4, EndChildRight
<1>5. CASE EndRoot
  BY <1>5, EndRootRight
<1>6. CASE UNCHANGED vars
  BY <1>6 DEF vars, LevelInv, AreLevels, IsRaised, Made
<1>7. QED
  BY <1>1, <1>2, <1>3, <1>4, <1>5, <1>6 DEF Next

LEMMA InvHolds == Spec => []LevelInv
<1>1. Init => LevelInv
  BY InitRight
<1>2. LevelInv /\ [Next]_vars => LevelInv'
  BY StepRight
<1>3. QED
  BY <1>1, <1>2, PTL DEF Spec

-----------------------------------------------------------------------------
(* Theorems                                                                *)

\* In any document, every element that build() goes into is one that the
\* element around it knows, built with the class it knows it by; and every object
\* has all the members of its class.
THEOREM TypeCorrect == Spec => []TypeOK
<1>1. LevelInv => TypeOK
  <2> SUFFICES ASSUME LevelInv PROVE TypeOK
    OBVIOUS
  <2>1. DOMAIN stack = 1..Len(stack) /\ Len(stack) \in Nat
    BY TopIs, SeqOfItself DEF IsSeq
  <2>2. ASSUME NEW d \in 1..Len(stack)
        PROVE  LET o == stack[d].object
               IN  /\ o.tag = stack[d].node.tag
                   /\ DOMAIN o.members = Members(o.class)
    BY DEF LevelInv, AreLevels, TypedFrame
  <2>3. ASSUME NEW d \in 1..Len(stack), d > 1
        PROVE  \E k \in Children(stack[d-1].object.class) :
                 k.tag = stack[d].object.tag /\ k.class = stack[d].object.class
    <3>1. d \in 2..Len(stack)
      BY <2>1, <2>3
    <3>2. QED
      BY <3>1 DEF LevelInv, AreLevels, IsLinked
  <2>4. QED
    BY <2>1, <2>2, <2>3 DEF LevelInv, TypeOK
<1>2. QED
  BY <1>1, InvHolds, PTL

\* In any document and at every node of it, the object of every element that
\* build() is in is what its nodes up to there make up, for any classes: what
\* belongs to each member is there, in order, and nothing else is; and an element
\* with anything wrong raises its exception before another node is looked at.
THEOREM LevelsAreRight == Spec => []LevelByLevel
<1>1. LevelInv => LevelByLevel
  <2> SUFFICES ASSUME LevelInv, NEW d \in DOMAIN stack
      PROVE LET frame == stack[d]
                o == frame.object
            IN  /\ o.class = "string" => o.text = AllText(frame.node.children)
                /\ o.class # "string" => o.attributes = buildAttributes(o.class, frame.node.attributes)
                /\ \A m \in DOMAIN o.members \ {"valueOf_"} :
                     o.members[m] = Kept(o.class, m, ItemsFor(frame, m))
                /\ "valueOf_" \in DOMAIN o.members =>
                     LET value == o.members["valueOf_"]
                     IN  /\ AllText(value) = AllText(TextNodes(frame))
                         /\ \A i \in 1..(Len(value) - 1) :
                              value[i].tag = "#text" => value[i + 1].tag # "#text"
                /\ (o.class # "string" /\ BadInteger(o.class, frame.node.attributes))
                     <=> (result = "ValueError" /\ d = Len(stack))
                /\ (o.class = "string" /\ \E i \in DOMAIN frame.node.children :
                                           IsElement(frame.node.children[i]))
                     <=> (result = "TypeError" /\ d = Len(stack))
    BY DEF LevelByLevel
  <2>1. d \in 1..Len(stack)
    BY TopIs, SeqOfItself DEF IsSeq
  <2>2. RightObject(stack[d])
    BY <2>1 DEF LevelInv, AreLevels
  <2>3. /\ IsBad(stack[d]) <=> (result = "ValueError" /\ d = Len(stack))
        /\ IsRefused(stack[d]) <=> (result = "TypeError" /\ d = Len(stack))
    BY <2>1 DEF LevelInv, IsRaised
  <2>4. QED
    BY <2>2, <2>3 DEF RightObject, IsJoined, IsBad, IsRefused
<1>2. QED
  BY <1>1, InvHolds, PTL
=============================================================================
