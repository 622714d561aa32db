---------------------------- MODULE SwigDocProofs ----------------------------
(***************************************************************************)
(* Theorems about SwigDoc, for indices of any length and classes, headers  *)
(* and members of any number.                                              *)
(***************************************************************************)
EXTENDS SwigDoc, InductionLemmas

\* What is chosen of a sequence are elements of it.
LEMMA ChosenOf ==
  ASSUME NEW s, IsSeq(s), NEW I
  PROVE  /\ IsSeq(Chosen(s, I)) /\ ToSet(Chosen(s, I)) \subseteq ToSet(s)
         /\ \A x \in ToSet(Chosen(s, I)) : \E i \in DOMAIN s : i \in I /\ x = s[i]
<1>1. s \in Seq(ToSet(s))
  BY DEF IsSeq
<1>2. Chosen(s, I) \in Seq(ToSet(s)) /\ DOMAIN s = 1..Len(s)
  BY <1>1, ChosenType, SeqOfItself
<1>3. ASSUME NEW x \in ToSet(Chosen(s, I)) PROVE \E i \in DOMAIN s : i \in I /\ x = s[i]
  <2>1. PICK k \in 1..Len(Chosen(s, I)) : x = Chosen(s, I)[k]
    BY <1>2, SeqOfItself
  <2>2. QED
    BY <1>1, <1>2, <2>1, ChosenElements
<1>4. QED
  BY <1>2, <1>3, SeqOfItself

\* Both parts of a concatenation are in it, and nothing else.
LEMMA ConcatOf ==
  ASSUME NEW s, NEW t, IsSeq(s), IsSeq(t)
  PROVE  IsSeq(s \o t) /\ ToSet(s \o t) = ToSet(s) \cup ToSet(t)
<1> DEFINE S == ToSet(s) \cup ToSet(t)
<1>1. s \in Seq(S) /\ t \in Seq(S)
  BY SeqMonotonic DEF IsSeq
<1>2. /\ s \o t \in Seq(S) /\ Len(s \o t) = Len(s) + Len(t)
      /\ \A i \in 1..(Len(s) + Len(t)) : (s \o t)[i] = IF i <= Len(s) THEN s[i] ELSE t[i - Len(s)]
  BY <1>1, ConcatProperties
<1>3. /\ Len(s) \in Nat /\ Len(t) \in Nat
      /\ ToSet(s) = {s[i] : i \in 1..Len(s)} /\ ToSet(t) = {t[i] : i \in 1..Len(t)}
      /\ IsSeq(s \o t) /\ ToSet(s \o t) \subseteq S
      /\ ToSet(s \o t) = {(s \o t)[i] : i \in 1..Len(s \o t)}
  BY <1>1, <1>2, SeqOfItself
<1>4. ASSUME NEW i \in 1..Len(s) PROVE s[i] \in ToSet(s \o t)
  <2>1. i \in 1..Len(s \o t) /\ (s \o t)[i] = s[i]
    BY <1>2, <1>3
  <2>2. QED
    BY <1>3, <2>1
<1>5. ASSUME NEW i \in 1..Len(t) PROVE t[i] \in ToSet(s \o t)
  <2>1. /\ Len(s) + i \in 1..Len(s \o t) /\ ~(Len(s) + i <= Len(s))
        /\ (Len(s) + i) - Len(s) = i
    BY <1>2, <1>3
  <2>2. (s \o t)[Len(s) + i] = t[i]
    BY <1>2, <2>1
  <2>3. QED
    BY <1>3, <2>1, <2>2
<1>6. S \subseteq ToSet(s \o t)
  BY <1>3, <1>4, <1>5
<1>7. QED
  BY <1>3, <1>6

\* An element added is the only one added.
LEMMA AppendOf ==
  ASSUME NEW s, NEW e, IsSeq(s)
  PROVE  IsSeq(Append(s, e)) /\ ToSet(Append(s, e)) = ToSet(s) \cup {e}
<1> DEFINE S == ToSet(s) \cup {e}
           t == Append(s, e)
<1>1. s \in Seq(S) /\ e \in S
  BY SeqMonotonic DEF IsSeq
<1>2. /\ t \in Seq(S) /\ Len(t) = Len(s) + 1 /\ Len(s) \in Nat
      /\ t[Len(s) + 1] = e /\ \A i \in 1..Len(s) : t[i] = s[i]
  BY <1>1, AppendProperties, LenProperties
<1> HIDE DEF t
<1>3. /\ ToSet(s) = {s[i] : i \in 1..Len(s)}
      /\ IsSeq(t) /\ ToSet(t) \subseteq S
      /\ ToSet(t) = {t[i] : i \in 1..Len(t)}
  BY <1>1, <1>2, SeqOfItself
<1>4. ASSUME NEW i \in 1..Len(s) PROVE s[i] \in ToSet(t)
  BY <1>2, <1>3
<1>5. e \in ToSet(t)
  BY <1>2, <1>3
<1>6. QED
  BY <1>3, <1>4, <1>5 DEF t

LEMMA EmptyOf == IsSeq(<<>>) /\ ToSet(<<>>) = {}
<1> DEFINE s == <<>>
<1>1. \A S : s \in Seq(S)
  BY EmptySeq
<1> HIDE DEF s
<1>2. s \in Seq({}) /\ s \in Seq(ToSet(s))
  BY <1>1
<1>3. ToSet(s) \subseteq {}
  BY <1>2, SeqOfItself
<1>4. QED
  BY <1>2, <1>3 DEF IsSeq, s

-----------------------------------------------------------------------------
(* What doxyxml finds                                                      *)

LEMMA CategoryOf ==
  ASSUME NEW objects, IsSeq(objects), NEW kind
  PROVE  /\ IsSeq(in_category(objects, kind))
         /\ \A o \in ToSet(in_category(objects, kind)) : o \in ToSet(objects) /\ o.kind = kind
<1> DEFINE I == {i \in DOMAIN objects : objects[i].kind = kind}
<1>1. in_category(objects, kind) = Chosen(objects, I)
  BY DEF in_category
<1>2. \A i \in I : objects[i].kind = kind
  OBVIOUS
<1> HIDE DEF I
<1>3. QED
  BY <1>1, <1>2, ChosenOf

LEMMA NamedOf ==
  ASSUME NEW objects, IsSeq(objects), NEW kind, NEW name
  PROVE  /\ IsSeq(Named(objects, kind, name))
         /\ \A o \in ToSet(Named(objects, kind, name)) :
              o \in ToSet(objects) /\ o.kind = kind /\ o.name = name
<1> DEFINE those == in_category(objects, kind)
           I == {i \in DOMAIN those : those[i].name = name}
<1>1. Named(objects, kind, name) = Chosen(those, I)
  BY DEF Named
<1>2. IsSeq(those) /\ \A o \in ToSet(those) : o \in ToSet(objects) /\ o.kind = kind
  BY CategoryOf
<1>3. \A i \in I : those[i].name = name
  OBVIOUS
<1> HIDE DEF I, those
<1>4. QED
  BY <1>1, <1>2, <1>3, ChosenOf

LEMMA MembersOf ==
  ASSUME NEW memberdefs, IsSeq(memberdefs)
  PROVE  /\ IsSeq(process_memberdefs(memberdefs))
         /\ ToSet(process_memberdefs(memberdefs)) \subseteq ToSet(memberdefs)
BY ChosenOf DEF process_memberdefs

\* A class with a make function for a friend has it among its members.
LEMMA HasMakeFriend ==
  ASSUME NEW c, IsSeq(c.members), HasMake(c)
  PROVE  ~Qualified(c.name) /\ \E m \in ToSet(c.members) : IsFriend(m, c)
<1> DEFINE mems == process_memberdefs(c.members)
           friends == Named(mems, "friend", make_name(c.name))
<1>1. IsSeq(mems) /\ ToSet(mems) \subseteq ToSet(c.members)
  BY MembersOf
<1>2. ~Qualified(c.name) /\ friends # <<>>
  BY DEF HasMake
<1>3. /\ IsSeq(friends)
      /\ \A o \in ToSet(friends) : o \in ToSet(mems) /\ o.kind = "friend"
                                   /\ o.name = make_name(c.name)
  BY <1>1, NamedOf
<1> HIDE DEF mems, friends
<1>4. friends \in Seq(ToSet(friends))
  BY <1>3 DEF IsSeq
<1>5. Len(friends) \in Nat \ {0}
  BY <1>2, <1>4, EmptySeq, LenProperties
<1>6. friends[1] \in ToSet(friends)
  BY <1>4, <1>5, ElementOfSeq
<1>7. QED
  BY <1>1, <1>2, <1>3, <1>6 DEF IsFriend

-----------------------------------------------------------------------------
(* The entries made                                                        *)

\* Entries are worth writing.
Worth(entries) ==
  IsSeq(entries) /\ \A e \in ToSet(entries) : e.text # <<>> \/ e.params # <<>>

LEMMA WorthEmpty == Worth(<<>>)
BY EmptyOf DEF Worth

LEMMA WorthConcat ==
  ASSUME NEW s, NEW t, Worth(s), Worth(t)
  PROVE  Worth(s \o t)
BY ConcatOf DEF Worth

LEMMA EntryWorth ==
  ASSUME NEW name, NEW text, NEW params
  PROVE  Worth(make_entry(name, text, params))
<1> DEFINE e == [name |-> name, text |-> text, params |-> params]
<1>1. CASE make_entry(name, text, params) = <<>>
  BY <1>1, WorthEmpty
<1>2. CASE text # <<>> \/ params # <<>>
  <2>1. <<e>> = Append(<<>>, e)
    OBVIOUS
  <2>2. IsSeq(<<e>>) /\ ToSet(<<e>>) = {e}
    <3> DEFINE s == <<>>
    <3>1. <<e>> = Append(s, e) /\ IsSeq(s) /\ ToSet(s) = {}
      BY <2>1, EmptyOf
    <3> HIDE DEF s, e
    <3>2. IsSeq(Append(s, e)) /\ ToSet(Append(s, e)) = ToSet(s) \cup {e}
      BY <3>1, AppendOf
    <3>3. QED
      BY <3>1, <3>2
  <2>3. e.text = text /\ e.params = params
    OBVIOUS
  <2> HIDE DEF e
  <2>4. Worth(<<e>>)
    BY <1>2, <2>2, <2>3 DEF Worth
  <2>5. make_entry(name, text, params) \in {<<>>, <<e>>}
    BY DEF make_entry, e
  <2>6. QED
    BY <2>4, <2>5, WorthEmpty
<1>3. QED
  BY <1>1, <1>2 DEF make_entry

\* The concatenation of several sequences of entries.
LEMMA FlattenWorth ==
  ASSUME NEW n \in Nat, NEW seqs, seqs = [i \in 1..n |-> seqs[i]],
         \A i \in 1..n : Worth(seqs[i])
  PROVE  Worth(FlattenSeq(seqs))
<1> DEFINE T == UNION {ToSet(seqs[i]) : i \in 1..n}
           Q == Seq(T)
<1>1. \A i \in 1..n : seqs[i] \in Q
  <2> TAKE i \in 1..n
  <2>1. ToSet(seqs[i]) \subseteq T /\ seqs[i] \in Seq(ToSet(seqs[i]))
    BY DEF Worth, IsSeq
  <2>2. QED
    BY <2>1, SeqMonotonic
<1>2. \A e \in T : e.text # <<>> \/ e.params # <<>>
  BY DEF Worth
<1> HIDE DEF T
<1>3. seqs \in Seq(Seq(T))
  <2> HIDE DEF Q
  <2>1. seqs \in Seq(Q)
    BY <1>1, IsASeq
  <2>2. QED
    BY <2>1 DEF Q
<1>4. FlattenSeq(seqs) \in Seq(T)
  BY <1>3, FlattenType
<1>5. IsSeq(FlattenSeq(seqs)) /\ ToSet(FlattenSeq(seqs)) \subseteq T
  BY <1>4, SeqOfItself
<1>6. QED
  BY <1>2, <1>5 DEF Worth

\* The entries of a class and its functions.
LEMMA ClassWorth ==
  ASSUME NEW c, IsSeq(c.members), NEW text
  PROVE  Worth(make_class_entry(c, text))
<1> DEFINE fs == functions(c)
           entry(i) == make_func_entry(fs[i], method_name(c, fs[i]))
           seqs == [i \in DOMAIN fs |-> entry(i)]
<1>1. IsSeq(fs)
  BY MembersOf, CategoryOf DEF functions
<1>2. Len(fs) \in Nat /\ DOMAIN fs = 1..Len(fs)
  BY <1>1, SeqOfItself DEF IsSeq
<1>3. \A i \in 1..Len(fs) : Worth(entry(i))
  BY EntryWorth DEF make_func_entry
<1>4. make_class_entry(c, text) = make_entry(c.name, text, <<>>) \o FlattenSeq(seqs)
  BY DEF make_class_entry
<1> HIDE DEF fs, entry
<1>5. /\ seqs = [i \in 1..Len(fs) |-> seqs[i]]
      /\ \A i \in 1..Len(fs) : Worth(seqs[i])
  BY <1>2, <1>3
<1> HIDE DEF seqs
<1>6. Worth(FlattenSeq(seqs))
  BY <1>2, <1>5, FlattenWorth
<1>7. QED
  BY <1>4, <1>6, EntryWorth, WorthConcat

LEMMA BlockWorth ==
  ASSUME NEW b, IsSeq(b.members)
  PROVE  Worth(make_block_entry(b))
BY ClassWorth, EntryWorth, WorthConcat DEF make_block_entry

-----------------------------------------------------------------------------
(* The program                                                             *)

\* What the index and the headers hold.
IndexFacts ==
  /\ index \in Indices
  /\ IsSeq(index)
  /\ \A c \in ToSet(index) :
       /\ IsSeq(c.members)
       /\ \A m \in ToSet(c.members) : m.kind \notin {"class", "odd"}

\* The classes among the members of the index are those of index.xml itself;
\* the blocks are some of them, and have been read.
MembersInv ==
  /\ IsSeq(members)
  /\ \A o \in ToSet(members) : /\ o.kind # "odd"
                               /\ o.kind = "class" => o \in ToSet(index)
  /\ IsSeq(blocks)
  /\ \A b \in ToSet(blocks) : b \in Classes /\ IsBlock(b)

\* What is written and what is printed.
OutputInv ==
  /\ phase \in DOMAIN Following \cup Ends
  /\ at \in Nat \ {0}
  /\ parsed \subseteq {c.name : c \in ToSet(index)}
  /\ IsSeq(complaints)
  /\ ToSet(complaints) \subseteq {"xml", "class"} \X {c.name : c \in ToSet(index)}
  /\ make_funcs \subseteq {make_name(b.name) : b \in ToSet(blocks)}
  /\ Worth(output)

ReaderInv == IndexFacts /\ MembersInv /\ OutputInv /\ BrokenClassIsContained

LEMMA IndexHolds == index \in Indices => IndexFacts
BY IndicesAssumption DEF IndexFacts, IsSeq

LEMMA ReaderInit == Init => ReaderInv
<1> SUFFICES ASSUME Init PROVE ReaderInv
  OBVIOUS
<1>1. IndexFacts
  BY IndexHolds DEF Init
<1>2. /\ members = <<>> /\ blocks = <<>> /\ complaints = <<>> /\ output = <<>>
      /\ parsed = {} /\ make_funcs = {} /\ phase = "index" /\ at = 1
  BY DEF Init
<1>3. MembersInv
  BY <1>2, EmptyOf DEF MembersInv
<1>4. OutputInv
  BY <1>2, EmptyOf, WorthEmpty DEF OutputInv, Following
<1>5. QED
  BY <1>1, <1>2, <1>3, <1>4 DEF ReaderInv, BrokenClassIsContained

\* Nothing changes the index.
LEMMA IndexStep == IndexFacts /\ [Next]_vars => IndexFacts'
<1> SUFFICES ASSUME IndexFacts, [Next]_vars PROVE IndexFacts'
  OBVIOUS
<1>1. index' = index
  BY DEF Next, IndexCompound, IndexHeader, IndexRaises, PassOver, FindBlock,
         DocumentFunction, PassOverBlock, DocumentClass, DocumentBlock,
         BlockRaises, EndLoop, Go, Die, vars
<1>2. QED
  BY <1>1 DEF IndexFacts

\* What Block.includes and the index are asked for.
LEMMA MembersStep == IndexFacts /\ MembersInv /\ [Next]_vars => MembersInv'
<1> SUFFICES ASSUME IndexFacts, MembersInv, [Next]_vars PROVE MembersInv'
  OBVIOUS
<1>1. index' = index /\ Classes' = Classes
  BY DEF Classes, Next, IndexCompound, IndexHeader, IndexRaises, PassOver,
         FindBlock, DocumentFunction, PassOverBlock, DocumentClass,
         DocumentBlock, BlockRaises, EndLoop, Go, Die, vars
<1>2. CASE UNCHANGED <<members, blocks>>
  BY <1>1, <1>2 DEF MembersInv
<1>3. ASSUME NEW c \in ToSet(index), IndexCompound(c) PROVE MembersInv'
  <2>1. /\ c.kind # "odd" /\ blocks' = blocks
        /\ members' \in {members, Append(members, c)}
    BY <1>3 DEF IndexCompound
  <2>2. IsSeq(Append(members, c)) /\ ToSet(Append(members, c)) = ToSet(members) \cup {c}
    BY AppendOf DEF MembersInv
  <2>3. IsSeq(members') /\ ToSet(members') \subseteq ToSet(members) \cup {c}
    BY <2>1, <2>2 DEF MembersInv
  <2>4. QED
    BY <1>1, <2>1, <2>3 DEF MembersInv
<1>4. ASSUME NEW c \in ToSet(index), IndexHeader(c) PROVE MembersInv'
  <2> DEFINE mems == process_memberdefs(c.members)
             more == Append(mems, c)
  <2>1. c.kind = "file" /\ blocks' = blocks /\ members' = members \o more
    BY <1>4 DEF IndexHeader, IsHeader
  <2>2. IsSeq(mems) /\ \A m \in ToSet(mems) : m.kind \notin {"class", "odd"}
    BY MembersOf DEF IndexFacts
  <2> HIDE DEF mems
  <2>3. IsSeq(more) /\ ToSet(more) = ToSet(mems) \cup {c}
    BY <2>2, AppendOf
  <2> HIDE DEF more
  <2>4. IsSeq(members \o more) /\ ToSet(members \o more) = ToSet(members) \cup ToSet(more)
    BY <2>3, ConcatOf DEF MembersInv
  <2>5. \A o \in ToSet(members') : o \in ToSet(members) \/ o.kind \notin {"class", "odd"}
    BY <2>1, <2>2, <2>3, <2>4
  <2>6. QED
    BY <1>1, <2>1, <2>4, <2>5 DEF MembersInv
<1>5. ASSUME NEW c \in ToSet(members), FindBlock(c) PROVE MembersInv'
  <2>1. /\ c.kind = "class" /\ members' = members
        /\ blocks' = blocks \/ (c.xml = "ok" /\ HasMake(c) /\ blocks' = Append(blocks, c))
    BY <1>5 DEF FindBlock
  <2>2. c \in ToSet(index) /\ c \in Classes
    BY <2>1 DEF MembersInv, Classes
  <2>3. CASE c.xml = "ok" /\ HasMake(c) /\ blocks' = Append(blocks, c)
    <3>1. IsBlock(c)
      BY <2>2, <2>3, HasMakeFriend DEF IndexFacts, IsBlock
    <3>2. IsSeq(blocks') /\ ToSet(blocks') = ToSet(blocks) \cup {c}
      BY <2>3, AppendOf DEF MembersInv
    <3>3. QED
      BY <1>1, <2>1, <2>2, <3>1, <3>2 DEF MembersInv
  <2>4. QED
    BY <1>2, <2>1, <2>3
<1>6. QED
  BY <1>2, <1>3, <1>4, <1>5
     DEF Next, IndexRaises, PassOver, DocumentFunction, PassOverBlock,
         DocumentClass, DocumentBlock, BlockRaises, EndLoop, vars

\* The class whose turn it is in the last loop is one of the index.
LEMMA ClassTurn ==
  ASSUME IndexFacts, MembersInv, NEW c, Turn("classes", c), at \in Nat \ {0}
  PROVE  c \in ToSet(index)
<1> DEFINE those == in_category(members, "class")
<1>1. at <= Len(those) /\ c = those[at]
  BY DEF Turn, Loop
<1>2. /\ IsSeq(those)
      /\ \A o \in ToSet(those) : o \in ToSet(members) /\ o.kind = "class"
  BY CategoryOf DEF MembersInv
<1> HIDE DEF those
<1>3. those \in Seq(ToSet(those)) /\ Len(those) \in Nat
  BY <1>2, LenProperties DEF IsSeq
<1>4. at \in 1..Len(those)
  BY <1>1, <1>3
<1>5. c \in ToSet(those)
  BY <1>1, <1>3, <1>4, ElementOfSeq
<1>6. QED
  BY <1>2, <1>5 DEF MembersInv

\* A complaint more is one about a class or header of the index.
LEMMA ComplaintMore ==
  ASSUME NEW c \in ToSet(index), NEW kind \in {"xml", "class"}, NEW s, IsSeq(s),
         ToSet(s) \subseteq {"xml", "class"} \X {d.name : d \in ToSet(index)}
  PROVE  /\ IsSeq(Append(s, <<kind, c.name>>))
         /\ ToSet(Append(s, <<kind, c.name>>))
              \subseteq {"xml", "class"} \X {d.name : d \in ToSet(index)}
<1> DEFINE e == <<kind, c.name>>
<1>1. e \in {"xml", "class"} \X {d.name : d \in ToSet(index)}
  OBVIOUS
<1> HIDE DEF e
<1>2. IsSeq(Append(s, e)) /\ ToSet(Append(s, e)) = ToSet(s) \cup {e}
  BY AppendOf
<1>3. QED
  BY <1>1, <1>2 DEF e

LEMMA OutputStep == IndexFacts /\ MembersInv /\ OutputInv /\ [Next]_vars => OutputInv'
<1> SUFFICES ASSUME IndexFacts, MembersInv, OutputInv, [Next]_vars PROVE OutputInv'
  OBVIOUS
<1> DEFINE Names == {c.name : c \in ToSet(index)}
           Made(s) == {make_name(b.name) : b \in ToSet(s)}
<1>1. index' = index
  BY DEF Next, IndexCompound, IndexHeader, IndexRaises, PassOver, FindBlock,
         DocumentFunction, PassOverBlock, DocumentClass, DocumentBlock,
         BlockRaises, EndLoop, Go, Die, vars
<1>2. /\ phase \in DOMAIN Following \cup Ends /\ at \in Nat \ {0}
      /\ parsed \subseteq Names /\ IsSeq(complaints)
      /\ ToSet(complaints) \subseteq {"xml", "class"} \X Names
      /\ make_funcs \subseteq Made(blocks) /\ Worth(output)
  BY DEF OutputInv
<1>3. ASSUME phase' \in DOMAIN Following \cup Ends, at' \in Nat \ {0},
             parsed' \subseteq Names, IsSeq(complaints'),
             ToSet(complaints') \subseteq {"xml", "class"} \X Names,
             make_funcs' \subseteq Made(blocks'), Worth(output')
      PROVE  OutputInv'
  BY <1>1, <1>3 DEF OutputInv
<1>4. Go => phase' \in DOMAIN Following \cup Ends /\ at' \in Nat \ {0}
  BY <1>2 DEF Go
<1>5. Die => phase' \in DOMAIN Following \cup Ends /\ at' \in Nat \ {0}
  BY <1>2 DEF Die, Ends
<1> HIDE DEF Names, Made
<1>6. ASSUME NEW c \in ToSet(index), IndexCompound(c) \/ IndexHeader(c) PROVE OutputInv'
  BY <1>2, <1>3, <1>4, <1>6 DEF IndexCompound, IndexHeader
<1>7. ASSUME NEW c \in ToSet(index), NEW kind \in {"xml", "class"}, NEW s, IsSeq(s),
             ToSet(s) \subseteq {"xml", "class"} \X Names
      PROVE  /\ IsSeq(Append(s, <<kind, c.name>>))
             /\ ToSet(Append(s, <<kind, c.name>>)) \subseteq {"xml", "class"} \X Names
  BY <1>7, ComplaintMore DEF Names
<1>8. ASSUME NEW c \in ToSet(index), IndexRaises(c) PROVE OutputInv'
  <2>1. complaints' \in {complaints, Append(complaints, <<"xml", c.name>>)}
    BY <1>8 DEF IndexRaises
  <2>2. IsSeq(complaints') /\ ToSet(complaints') \subseteq {"xml", "class"} \X Names
    BY <1>2, <1>7, <2>1
  <2>3. QED
    BY <1>2, <1>3, <1>5, <1>8, <2>2 DEF IndexRaises
<1>9. ASSUME NEW o, PassOver(o) \/ PassOverBlock(o) PROVE OutputInv'
  BY <1>2, <1>3, <1>4, <1>9 DEF PassOver, PassOverBlock
<1>10. ASSUME NEW c \in ToSet(index), CheckParsed(c)
       PROVE  /\ parsed' \subseteq Names
              /\ IsSeq(complaints')
              /\ ToSet(complaints') \subseteq {"xml", "class"} \X Names
  <2>1. c.name \in Names
    BY DEF Names
  <2>2. complaints' \in {complaints, Append(complaints, <<"xml", c.name>>)}
    BY <1>10 DEF CheckParsed
  <2>3. IsSeq(complaints') /\ ToSet(complaints') \subseteq {"xml", "class"} \X Names
    BY <1>2, <1>7, <2>2
  <2>4. QED
    BY <1>2, <1>10, <2>1, <2>3 DEF CheckParsed
<1>11. ASSUME NEW c \in ToSet(members), FindBlock(c) PROVE OutputInv'
  <2>1. /\ c \in ToSet(index) /\ CheckParsed(c)
        /\ Go \/ Die
        /\ blocks' \in {blocks, Append(blocks, c)}
        /\ make_funcs' = make_funcs /\ output' = output
    BY <1>11 DEF FindBlock, MembersInv
  <2>2. ToSet(Append(blocks, c)) = ToSet(blocks) \cup {c}
    BY AppendOf DEF MembersInv
  <2>3. Made(blocks) \subseteq Made(blocks')
    BY <2>1, <2>2 DEF Made
  <2>4. QED
    BY <1>2, <1>3, <1>4, <1>5, <1>10, <2>1, <2>3
<1>12. ASSUME NEW b \in ToSet(blocks), DocumentBlock(b) PROVE OutputInv'
  <2>1. /\ Go /\ UNCHANGED <<parsed, complaints, blocks>>
        /\ make_funcs' = make_funcs \cup {make_name(b.name)}
        /\ output' = output \o make_block_entry(b)
    BY <1>12 DEF DocumentBlock
  <2>2. make_funcs' \subseteq Made(blocks')
    BY <1>2, <2>1 DEF Made
  <2>3. IsSeq(b.members)
    BY DEF MembersInv, Classes, IndexFacts
  <2>4. Worth(output')
    BY <1>2, <2>1, <2>3, BlockWorth, WorthConcat
  <2>5. QED
    BY <1>2, <1>3, <1>4, <2>1, <2>2, <2>4
<1>13. ASSUME NEW b \in ToSet(blocks), BlockRaises(b) PROVE OutputInv'
  BY <1>2, <1>3, <1>5, <1>13 DEF BlockRaises
<1>14. ASSUME NEW f, DocumentFunction(f) PROVE OutputInv'
  <2>1. Worth(output')
    <3>1. output' \in {output, output \o make_func_entry(f, f.name)}
      BY <1>14 DEF DocumentFunction
    <3>2. Worth(make_func_entry(f, f.name))
      BY EntryWorth DEF make_func_entry
    <3>3. QED
      BY <1>2, <3>1, <3>2, WorthConcat
  <2>2. QED
    BY <1>2, <1>3, <1>4, <1>14, <2>1 DEF DocumentFunction
<1>15. ASSUME NEW c \in ToSet(members), DocumentClass(c) PROVE OutputInv'
  <2>1. Turn("classes", c) /\ Go /\ UNCHANGED <<blocks, make_funcs>>
    BY <1>15 DEF DocumentClass
  <2>2. c \in ToSet(index) /\ IsSeq(c.members)
    BY <1>2, <2>1, ClassTurn DEF IndexFacts
  <2>3. CASE CheckParsed(c) /\ output' = output \o make_class_entry(c, combine_descriptions(c))
    <3>1. Worth(output')
      BY <1>2, <2>2, <2>3, ClassWorth, WorthConcat
    <3>2. QED
      BY <1>2, <1>3, <1>4, <1>10, <2>1, <2>2, <2>3, <3>1
  <2>4. CASE /\ parsed' = parsed \cup {c.name}
             /\ complaints' = complaints \o (IF c.name \in parsed THEN <<>>
                                             ELSE <<<<"xml", c.name>>>>)
                                         \o <<<<"class", c.name>>>>
             /\ output' = output
    <3>1. complaints' = Append(complaints, <<"class", c.name>>)
          \/ complaints' = Append(Append(complaints, <<"xml", c.name>>), <<"class", c.name>>)
      <4> DEFINE T == {"xml", "class"} \X Names
                 x == <<"xml", c.name>>
                 y == <<"class", c.name>>
      <4>1. x \in T /\ y \in T
        BY <2>2 DEF Names
      <4>2. complaints \in Seq(T)
        BY <1>2, SeqMonotonic DEF IsSeq
      <4>3. complaints' = complaints \o (IF c.name \in parsed THEN <<>> ELSE <<x>>) \o <<y>>
        BY <2>4
      <4> HIDE DEF T, x, y
      <4>4. /\ complaints \o <<>> = complaints
            /\ complaints \o <<x>> = Append(complaints, x)
            /\ complaints \o <<y>> = Append(complaints, y)
            /\ Append(complaints, x) \in Seq(T)
        BY <4>1, <4>2, ConcatEmptySeq, AppendIsConcat, AppendProperties
      <4>5. Append(complaints, x) \o <<y>> = Append(Append(complaints, x), y)
        BY <4>1, <4>4, AppendIsConcat
      <4>6. QED
        BY <4>3, <4>4, <4>5 DEF x, y
    <3>2. IsSeq(complaints') /\ ToSet(complaints') \subseteq {"xml", "class"} \X Names
      BY <1>2, <1>7, <2>2, <3>1
    <3>3. c.name \in Names
      BY <2>2 DEF Names
    <3>4. QED
      BY <1>2, <1>3, <1>4, <2>1, <2>4, <3>2, <3>3
  <2>5. QED
    BY <1>15, <2>3, <2>4 DEF DocumentClass
<1>16. CASE EndLoop
  <2>1. phase \in DOMAIN Following /\ phase' = Following[phase] /\ at' = 1
    BY <1>2, <1>16 DEF EndLoop
  <2>2. phase' \in DOMAIN Following \cup Ends
    BY <2>1 DEF Following, Ends
  <2>3. QED
    BY <1>2, <1>3, <1>16, <2>1, <2>2 DEF EndLoop
<1>17. CASE UNCHANGED vars
  BY <1>2, <1>3, <1>17 DEF vars
<1>18. QED
  BY <1>6, <1>8, <1>9, <1>11, <1>12, <1>13, <1>14, <1>15, <1>16, <1>17 DEF Next

\* An exception that nobody catches has one of the causes named.
LEMMA ContainedStep == ReaderInv /\ [Next]_vars => BrokenClassIsContained'
<1> SUFFICES ASSUME ReaderInv, [Next]_vars PROVE BrokenClassIsContained'
  OBVIOUS
<1> USE DEF ReaderInv
<1>1. ASSUME phase' # "dead" PROVE BrokenClassIsContained'
  BY <1>1 DEF BrokenClassIsContained
<1>2. ASSUME NEW c \in ToSet(index), IndexRaises(c) PROVE BrokenClassIsContained'
  BY <1>2 DEF IndexRaises, Die, BrokenClassIsContained
<1>3. ASSUME NEW c \in ToSet(members), FindBlock(c) PROVE BrokenClassIsContained'
  <2>1. c \in ToSet(index) /\ c.kind = "class"
    BY <1>3 DEF FindBlock, MembersInv
  <2>2. CASE Go
    BY <1>1, <1>3, <2>2 DEF Go, FindBlock, Turn
  <2>3. CASE Die
    <3>1. c.xml = "missing" /\ index' = index
      BY <1>3, <2>3 DEF FindBlock, AsksForMembers, Die, Go, Turn
    <3>2. QED
      BY <2>1, <3>1 DEF BrokenClassIsContained
  <2>4. QED
    BY <1>3, <2>2, <2>3 DEF FindBlock
<1>4. ASSUME NEW b \in ToSet(blocks), BlockRaises(b) PROVE BrokenClassIsContained'
  <2>1. ~EntryPossible(b) /\ index' = index /\ members' = members
    BY <1>4 DEF BlockRaises, Die
  <2>2. b \in Classes' /\ IsBlock(b)
    BY <2>1 DEF MembersInv, Classes
  <2>3. ~EntryPossible(b)'
    BY <2>1 DEF EntryPossible
  <2>4. QED
    BY <2>2, <2>3 DEF BrokenClassIsContained
<1>5. ASSUME NEW o, \/ IndexCompound(o) \/ IndexHeader(o) \/ PassOver(o)
                    \/ DocumentFunction(o) \/ PassOverBlock(o) \/ DocumentClass(o)
                    \/ DocumentBlock(o)
      PROVE  BrokenClassIsContained'
  BY <1>1, <1>5 DEF IndexCompound, IndexHeader, PassOver, DocumentFunction,
                    PassOverBlock, DocumentClass, DocumentBlock, Go, Turn
<1>6. CASE EndLoop
  <2>1. phase \in DOMAIN Following /\ phase' = Following[phase]
    BY <1>6 DEF EndLoop, OutputInv
  <2>2. phase' # "dead"
    BY <2>1 DEF Following
  <2>3. QED
    BY <1>1, <2>2
<1>7. CASE UNCHANGED vars
  <2>1. index' = index /\ members' = members /\ phase' = phase
    BY <1>7 DEF vars
  <2>2. \A b : EntryPossible(b)' <=> EntryPossible(b)
    BY <2>1 DEF EntryPossible
  <2>3. QED
    BY <2>1, <2>2 DEF BrokenClassIsContained, Classes
<1>8. QED
  BY <1>2, <1>3, <1>4, <1>5, <1>6, <1>7 DEF Next

LEMMA ReaderStep == ReaderInv /\ [Next]_vars => ReaderInv'
BY IndexStep, MembersStep, OutputStep, ContainedStep DEF ReaderInv

\* The variables hold values of their types, whatever doxygen leaves: no entry
\* is empty, no complaint or object is about what the index does not have, and
\* no object is made of a compound whose kind is unknown.
THEOREM TypeCorrect == Spec => []TypeOK
<1>1. ReaderInv => TypeOK
  <2> SUFFICES ASSUME ReaderInv PROVE TypeOK
    OBVIOUS
  <2>1. \A i \in DOMAIN members : members[i].kind # "odd"
    BY DEF ReaderInv, MembersInv, ToSet
  <2>2. ToSet(blocks) \subseteq {c \in ToSet(index) : c.kind = "class"}
    BY DEF ReaderInv, MembersInv, Classes
  <2>3. \A e \in ToSet(output) : e.text # <<>> \/ e.params # <<>>
    BY DEF ReaderInv, OutputInv, Worth
  <2>4. QED
    BY <2>1, <2>2, <2>3 DEF ReaderInv, IndexFacts, OutputInv, TypeOK
<1>2. QED
  BY <1>1, ReaderInit, ReaderStep, PTL DEF Spec

\* A class that doxygen left broken never ends the program, however many there
\* are and whatever else is in the index.
THEOREM BrokenIsContained == Spec => []BrokenClassIsContained
<1>1. ReaderInv => BrokenClassIsContained
  BY DEF ReaderInv
<1>2. QED
  BY <1>1, ReaderInit, ReaderStep, PTL DEF Spec

-----------------------------------------------------------------------------
(* Counting                                                                *)

\* Of the places C of a concatenation, A are in its first part and B in its
\* second one.
PlacesOf(s, t, A, B, C) ==
  /\ A \subseteq DOMAIN s /\ B \subseteq DOMAIN t /\ C \subseteq DOMAIN (s \o t)
  /\ \A i \in DOMAIN s : i \in C <=> i \in A
  /\ \A i \in DOMAIN t : Len(s) + i \in C <=> i \in B

\* There are as many as in both parts.
LEMMA ConcatNumber ==
  ASSUME NEW s, NEW t, IsSeq(s), IsSeq(t), NEW A, NEW B, NEW C, PlacesOf(s, t, A, B, C)
  PROVE  Cardinality(C) = Cardinality(A) + Cardinality(B)
<1> DEFINE S == ToSet(s) \cup ToSet(t)
<1>1. s \in Seq(S) /\ t \in Seq(S)
  BY SeqMonotonic DEF IsSeq
<1>2. /\ Len(s) \in Nat /\ DOMAIN s = 1..Len(s)
      /\ Len(t) \in Nat /\ DOMAIN t = 1..Len(t)
      /\ DOMAIN (s \o t) = 1..(Len(s) + Len(t))
  BY <1>1, ConcatProperties, LenProperties
<1> DEFINE n == Len(s)
           m == Len(t)
<1> HIDE DEF n, m
<1>3. n \in Nat /\ m \in Nat /\ A \subseteq 1..n /\ B \subseteq 1..m /\ C \subseteq 1..(n + m)
  BY <1>2 DEF n, m, PlacesOf
<1>4. /\ \A i \in 1..n : i \in C <=> i \in A
      /\ \A i \in 1..m : n + i \in C <=> i \in B
  BY <1>2 DEF n, m, PlacesOf
<1>5. ASSUME NEW i \in C PROVE i \in A \/ \E j \in B : i = n + j
  <2>1. i \in 1..n \/ (i - n \in 1..m /\ i = n + (i - n))
    BY <1>3
  <2>2. QED
    BY <1>4, <2>1
<1>6. C = A \cup Beyond(n, B)
  BY <1>3, <1>4, <1>5 DEF Beyond
<1>7. Cardinality(A \cup Beyond(n, B)) = Cardinality(A) + Cardinality(B)
  <2>1. IsFiniteSet(B)
    BY <1>3, FiniteTo
  <2>2. n \in Nat /\ B \in SUBSET (Nat \ {0}) /\ A \in SUBSET (1..n)
    BY <1>3
  <2>3. QED
    BY <2>1, <2>2, PlacesBeyond
<1>8. QED
  BY <1>6, <1>7

\* The elements of a concatenation.
LEMMA ConcatElements ==
  ASSUME NEW s, NEW t, IsSeq(s), IsSeq(t)
  PROVE  /\ \A i \in DOMAIN s : i \in DOMAIN (s \o t) /\ (s \o t)[i] = s[i]
         /\ \A i \in DOMAIN t : /\ Len(s) + i \in DOMAIN (s \o t)
                                /\ (s \o t)[Len(s) + i] = t[i]
<1> DEFINE S == ToSet(s) \cup ToSet(t)
<1>1. s \in Seq(S) /\ t \in Seq(S)
  BY SeqMonotonic DEF IsSeq
<1> HIDE DEF S
<1>2. /\ Len(s) \in Nat /\ DOMAIN s = 1..Len(s)
      /\ Len(t) \in Nat /\ DOMAIN t = 1..Len(t)
      /\ DOMAIN (s \o t) = 1..(Len(s) + Len(t))
      /\ \A i \in 1..(Len(s) + Len(t)) : (s \o t)[i] = IF i <= Len(s) THEN s[i] ELSE t[i - Len(s)]
  BY <1>1, ConcatProperties, LenProperties
<1> DEFINE u == s \o t
<1> HIDE DEF u
<1>3. /\ DOMAIN u = 1..(Len(s) + Len(t))
      /\ \A i \in 1..(Len(s) + Len(t)) : u[i] = IF i <= Len(s) THEN s[i] ELSE t[i - Len(s)]
  BY <1>2 DEF u
<1>4. \A i \in DOMAIN s : i \in DOMAIN u /\ u[i] = s[i]
  BY <1>2, <1>3
<1>5. ASSUME NEW i \in DOMAIN t PROVE Len(s) + i \in DOMAIN u /\ u[Len(s) + i] = t[i]
  <2>1. /\ Len(s) + i \in 1..(Len(s) + Len(t)) /\ ~(Len(s) + i <= Len(s))
        /\ (Len(s) + i) - Len(s) = i
    BY <1>2
  <2>2. QED
    BY <1>3, <2>1
<1>6. QED
  BY <1>4, <1>5 DEF u

\* Entries of one name.
Count(s, name) == Cardinality({i \in DOMAIN s : s[i].name = name})

LEMMA CountNat ==
  ASSUME NEW s, IsSeq(s), NEW name
  PROVE  Count(s, name) \in Nat
<1>1. Len(s) \in Nat /\ DOMAIN s = 1..Len(s)
  BY LenProperties DEF IsSeq
<1> DEFINE A == {i \in DOMAIN s : s[i].name = name}
<1>2. A \subseteq 1..Len(s)
  BY <1>1
<1> HIDE DEF A
<1>3. Cardinality(A) \in Nat
  BY <1>1, <1>2, FiniteTo
<1>4. QED
  BY <1>3 DEF Count, A

\* Both parts of a concatenation count.
LEMMA CountConcat ==
  ASSUME NEW s, NEW t, IsSeq(s), IsSeq(t), NEW name
  PROVE  Count(s \o t, name) = Count(s, name) + Count(t, name)
<1> DEFINE A == {i \in DOMAIN s : s[i].name = name}
           B == {i \in DOMAIN t : t[i].name = name}
           C == {i \in DOMAIN (s \o t) : (s \o t)[i].name = name}
<1>1. A \subseteq DOMAIN s /\ B \subseteq DOMAIN t /\ C \subseteq DOMAIN (s \o t)
  OBVIOUS
<1>2. \A i \in DOMAIN s : i \in C <=> i \in A
  BY ConcatElements
<1>3. \A i \in DOMAIN t : Len(s) + i \in C <=> i \in B
  BY ConcatElements
<1> HIDE DEF A, B, C
<1>4. PlacesOf(s, t, A, B, C)
  BY <1>1, <1>2, <1>3 DEF PlacesOf
<1>5. Cardinality(C) = Cardinality(A) + Cardinality(B)
  BY <1>4, ConcatNumber
<1>6. QED
  BY <1>5 DEF Count, A, B, C

\* None of a name.
LEMMA CountNone ==
  ASSUME NEW s, IsSeq(s), NEW name
  PROVE  Count(s, name) = 0 <=> \A e \in ToSet(s) : e.name # name
<1> DEFINE A == {i \in DOMAIN s : s[i].name = name}
<1>1. Len(s) \in Nat /\ DOMAIN s = 1..Len(s) /\ ToSet(s) = {s[i] : i \in 1..Len(s)}
  BY SeqOfItself DEF IsSeq
<1>2. A \subseteq 1..Len(s) /\ (A = {} <=> \A e \in ToSet(s) : e.name # name)
  BY <1>1
<1> HIDE DEF A
<1>3. IsFiniteSet(A)
  BY <1>1, <1>2, FiniteTo
<1>4. Cardinality(A) = 0 <=> A = {}
  BY <1>3, FS_EmptySet
<1>5. QED
  BY <1>2, <1>4 DEF Count, A

LEMMA CountEmpty ==
  ASSUME NEW name
  PROVE  Count(<<>>, name) = 0
<1> DEFINE s == <<>>
<1>1. IsSeq(s) /\ ToSet(s) = {}
  BY EmptyOf
<1> HIDE DEF s
<1>2. Count(s, name) = 0
  BY <1>1, CountNone
<1>3. QED
  BY <1>2 DEF s

\* One element alone.
LEMMA CountOne ==
  ASSUME NEW e, NEW name
  PROVE  /\ IsSeq(<<e>>) /\ ToSet(<<e>>) = {e}
         /\ Count(<<e>>, name) = IF e.name = name THEN 1 ELSE 0
<1> DEFINE s == <<e>>
           A == {i \in DOMAIN s : s[i].name = name}
<1>1. s \in Seq({e}) /\ Len(s) = 1 /\ s[1] = e
  OBVIOUS
<1> HIDE DEF s
<1>2. IsSeq(s) /\ DOMAIN s = 1..1 /\ ToSet(s) = {s[i] : i \in 1..1}
  BY <1>1, SeqOfItself
<1>3. ToSet(s) = {e}
  BY <1>1, <1>2
<1>4. A = IF e.name = name THEN {1} ELSE {}
  BY <1>1, <1>2
<1> HIDE DEF A
<1>5. Cardinality(A) = IF e.name = name THEN 1 ELSE 0
  BY <1>4, FS_EmptySet, FS_Singleton
<1>6. Count(s, name) = Cardinality(A)
  BY DEF Count, A
<1>7. QED
  BY <1>2, <1>3, <1>5, <1>6 DEF s

\* Of n sequences only the k-th has a thing of that name, and has one.
OnlyAt(seqs, n, name, k) ==
  /\ seqs = [i \in 1..n |-> seqs[i]]
  /\ \A i \in 1..n : IsSeq(seqs[i]) /\ Count(seqs[i], name) = (IF i = k THEN 1 ELSE 0)

\* Then they have one together, and none if there is no k-th.
LEMMA CountFlatten ==
  ASSUME NEW n \in Nat, NEW seqs, NEW name, NEW k \in 1..(n + 1), OnlyAt(seqs, n, name, k)
  PROVE  /\ IsSeq(FlattenSeq(seqs))
         /\ Count(FlattenSeq(seqs), name) = IF k = n + 1 THEN 0 ELSE 1
<1> DEFINE T == UNION {ToSet(seqs[i]) : i \in 1..n}
           Q == Seq(T)
<1>1. \A i \in 1..n : seqs[i] \in Q
  <2> TAKE i \in 1..n
  <2>1. ToSet(seqs[i]) \subseteq T /\ seqs[i] \in Seq(ToSet(seqs[i]))
    BY DEF IsSeq, OnlyAt
  <2>2. QED
    BY <2>1, SeqMonotonic
<1> HIDE DEF T
<1>2. seqs \in Seq(Seq(T)) /\ Len(seqs) = n
  <2> HIDE DEF Q
  <2>1. seqs \in Seq(Q) /\ DOMAIN seqs = 1..n
    BY <1>1, IsASeq DEF OnlyAt
  <2>2. Len(seqs) \in Nat /\ DOMAIN seqs = 1..Len(seqs)
    BY <2>1, LenProperties
  <2>3. Len(seqs) = n
    BY <2>1, <2>2
  <2>4. QED
    BY <2>1, <2>3 DEF Q
<1>3. PICK f \in [0..n -> Seq(T)] :
        /\ f[0] = <<>>
        /\ \A i \in 1..n : f[i] = f[i - 1] \o seqs[i]
        /\ FlattenSeq(seqs) = f[n]
  BY <1>2, FlattenDefined
<1> DEFINE P == {i \in 0..n : Count(f[i], name) = IF i < k THEN 0 ELSE 1}
<1>4. 0 \in P
  BY <1>3, CountEmpty
<1>5. ASSUME NEW i \in 1..n, i - 1 \in P PROVE i \in P
  <2>1. i - 1 \in 0..n /\ i \in 0..n
    OBVIOUS
  <2>2. IsSeq(f[i - 1]) /\ IsSeq(seqs[i])
    BY <1>3, <2>1, SeqOfItself DEF OnlyAt
  <2>3. f[i] = f[i - 1] \o seqs[i]
    BY <1>3
  <2>4. Count(f[i], name) = Count(f[i - 1], name) + Count(seqs[i], name)
    BY <2>2, <2>3, CountConcat
  <2>5. /\ Count(f[i - 1], name) = IF i - 1 < k THEN 0 ELSE 1
        /\ Count(seqs[i], name) = IF i = k THEN 1 ELSE 0
    BY <1>5 DEF OnlyAt
  <2>6. Count(f[i], name) = IF i < k THEN 0 ELSE 1
    BY <2>4, <2>5
  <2>7. QED
    BY <2>1, <2>6
<1> HIDE DEF P
<1>6. \A i \in 0..n : i \in P
  BY <1>4, <1>5, UpTo
<1>7. n \in P /\ f[n] \in Seq(T)
  BY <1>3, <1>6
<1>8. QED
  BY <1>3, <1>7, SeqOfItself DEF P

-----------------------------------------------------------------------------
(* Names                                                                   *)

\* Of two parts of a name the first and the whole tell the second.
LEMMA NameConcat ==
  ASSUME NEW a, NEW b, NEW c, IsSeq(a), IsSeq(b), IsSeq(c)
  PROVE  /\ a \o b = a \o c => b = c
         /\ Len(a \o b) = Len(a) + Len(b)
         /\ IsSeq(a \o b) /\ ToSet(a \o b) = ToSet(a) \cup ToSet(b)
<1> DEFINE S == ToSet(a) \cup ToSet(b) \cup ToSet(c)
<1>1. a \in Seq(S) /\ b \in Seq(S) /\ c \in Seq(S)
  BY SeqMonotonic DEF IsSeq
<1> HIDE DEF S
<1>2. Len(a) \in Nat /\ Len(b) \in Nat /\ Len(c) \in Nat
  BY <1>1, LenProperties
<1>3. /\ Len(a \o b) = Len(a) + Len(b)
      /\ \A i \in 1..(Len(a) + Len(b)) : (a \o b)[i] = IF i <= Len(a) THEN a[i] ELSE b[i - Len(a)]
  BY <1>1, ConcatProperties
<1>4. /\ Len(a \o c) = Len(a) + Len(c)
      /\ \A i \in 1..(Len(a) + Len(c)) : (a \o c)[i] = IF i <= Len(a) THEN a[i] ELSE c[i - Len(a)]
  BY <1>1, ConcatProperties
<1>5. ASSUME a \o b = a \o c PROVE b = c
  <2> DEFINE u == a \o b
             v == a \o c
  <2> HIDE DEF u, v
  <2>1. /\ u = v /\ Len(u) = Len(a) + Len(b) /\ Len(v) = Len(a) + Len(c)
        /\ \A i \in 1..(Len(a) + Len(b)) : u[i] = IF i <= Len(a) THEN a[i] ELSE b[i - Len(a)]
        /\ \A i \in 1..(Len(a) + Len(c)) : v[i] = IF i <= Len(a) THEN a[i] ELSE c[i - Len(a)]
    BY <1>3, <1>4, <1>5 DEF u, v
  <2>2. Len(b) = Len(c)
    BY <1>2, <2>1
  <2>3. ASSUME NEW i \in 1..Len(b) PROVE b[i] = c[i]
    <3>1. /\ Len(a) + i \in 1..(Len(a) + Len(b)) /\ ~(Len(a) + i <= Len(a))
          /\ (Len(a) + i) - Len(a) = i
      BY <1>2
    <3>2. u[Len(a) + i] = b[i] /\ v[Len(a) + i] = c[i]
      BY <2>1, <2>2, <3>1
    <3>3. QED
      BY <2>1, <3>2
  <2>4. QED
    BY <1>1, <2>2, <2>3, SeqEqual
<1>6. QED
  BY <1>3, <1>5, ConcatOf

\* A word alone is a name.
LEMMA WordName ==
  ASSUME NEW w
  PROVE  IsSeq(<<w>>) /\ ToSet(<<w>>) = {w} /\ Len(<<w>>) = 1
<1>1. Len(<<w>>) = 1
  OBVIOUS
<1>2. QED
  BY <1>1, CountOne

\* A function's name with its class before it tells what function it is.
LEMMA MethodNameTells ==
  ASSUME NEW c, NEW f, NEW g, IsName(c.name), IsName(f.name), IsName(g.name),
         method_name(c, f) = method_name(c, g)
  PROVE  f.name = g.name
<1> DEFINE sep == <<"::">>
           a == c.name \o sep
<1>1. IsSeq(c.name) /\ IsSeq(f.name) /\ IsSeq(g.name)
  BY DEF IsName, IsSeq
<1>2. IsSeq(sep)
  BY WordName
<1> HIDE DEF sep
<1>3. IsSeq(a)
  BY <1>1, <1>2, NameConcat
<1> HIDE DEF a
<1>4. a \o f.name = a \o g.name
  BY DEF method_name, a, sep
<1>5. QED
  BY <1>1, <1>3, <1>4, NameConcat

\* It is not the class, and an operator if the function is.
LEMMA MethodNames ==
  ASSUME NEW c, NEW f, IsName(c.name), IsName(f.name)
  PROVE  /\ method_name(c, f) # c.name
         /\ "operator " \notin ToSet(c.name)
              => ("operator " \in ToSet(method_name(c, f)) <=> IsOperator(f))
<1> DEFINE sep == <<"::">>
           a == c.name \o sep
<1>1. IsSeq(c.name) /\ IsSeq(f.name)
  BY DEF IsName, IsSeq
<1>2. IsSeq(sep) /\ ToSet(sep) = {"::"} /\ Len(sep) = 1
  BY WordName
<1> HIDE DEF sep
<1>3. IsSeq(a) /\ ToSet(a) = ToSet(c.name) \cup {"::"} /\ Len(a) = Len(c.name) + 1
  BY <1>1, <1>2, NameConcat
<1> HIDE DEF a
<1>4. /\ Len(a \o f.name) = Len(a) + Len(f.name)
      /\ ToSet(a \o f.name) = ToSet(a) \cup ToSet(f.name)
  BY <1>1, <1>3, NameConcat
<1>5. method_name(c, f) = a \o f.name
  BY DEF method_name, a, sep
<1>6. Len(c.name) \in Nat /\ Len(f.name) \in Nat
  BY <1>1, LenProperties DEF IsSeq
<1>7. method_name(c, f) # c.name
  BY <1>3, <1>4, <1>5, <1>6
<1>8. ToSet(method_name(c, f)) = ToSet(c.name) \cup {"::"} \cup ToSet(f.name)
  BY <1>3, <1>4, <1>5
<1>9. QED
  BY <1>7, <1>8 DEF IsOperator

\* A make function's name tells its class.
LEMMA MakeNames ==
  ASSUME NEW m, NEW n, IsName(m), IsName(n)
  PROVE  /\ make_name(m) = make_name(n) => m = n
         /\ make_name(m) # <<>>
         /\ "operator " \notin ToSet(m) => "operator " \notin ToSet(make_name(m))
<1> DEFINE w == <<"make">>
<1>1. IsSeq(m) /\ IsSeq(n)
  BY DEF IsName, IsSeq
<1>2. IsSeq(w) /\ ToSet(w) = {"make"} /\ Len(w) = 1
  BY WordName
<1>3. make_name(m) = w \o m /\ make_name(n) = w \o n
  BY DEF make_name
<1> HIDE DEF w
<1>4. /\ w \o m = w \o n => m = n
      /\ Len(w \o m) = Len(w) + Len(m)
      /\ ToSet(w \o m) = ToSet(w) \cup ToSet(m)
  BY <1>1, <1>2, NameConcat
<1>5. Len(m) \in Nat
  BY <1>1, LenProperties DEF IsSeq
<1>6. Len(w \o m) # 0
  BY <1>2, <1>4, <1>5
<1>7. Len(<<>>) = 0
  OBVIOUS
<1>8. make_name(m) # <<>>
  BY <1>3, <1>6, <1>7
<1>9. QED
  BY <1>2, <1>3, <1>4, <1>8

-----------------------------------------------------------------------------
(* All that is to be found is found                                        *)

\* What is to be chosen is.
LEMMA ChosenAll ==
  ASSUME NEW s, IsSeq(s), NEW I, NEW i \in DOMAIN s, i \in I
  PROVE  s[i] \in ToSet(Chosen(s, I))
<1>1. s \in Seq(ToSet(s))
  BY DEF IsSeq
<1>2. PICK p : Places(s, I, Chosen(s, I), p)
  BY <1>1, ChosenPlaces
<1>3. /\ i \in 1..Len(s) /\ DOMAIN Chosen(s, I) = 1..Len(Chosen(s, I))
      /\ ToSet(Chosen(s, I)) = {Chosen(s, I)[k] : k \in 1..Len(Chosen(s, I))}
  BY <1>1, ChosenType, SeqOfItself
<1>4. PICK k \in 1..Len(Chosen(s, I)) : p[k] = i
  BY <1>2, <1>3 DEF Places
<1>5. Chosen(s, I)[k] = s[i]
  BY <1>2, <1>4 DEF Places
<1>6. QED
  BY <1>3, <1>5

\* So is all of a kind,
LEMMA CategoryAll ==
  ASSUME NEW objects, IsSeq(objects), NEW kind
  PROVE  \A o \in ToSet(objects) : o.kind = kind => o \in ToSet(in_category(objects, kind))
<1> TAKE o \in ToSet(objects)
<1> HAVE o.kind = kind
<1> DEFINE I == {i \in DOMAIN objects : objects[i].kind = kind}
<1>1. PICK i \in DOMAIN objects : objects[i] = o
  BY DEF ToSet
<1>2. i \in I
  BY <1>1
<1> HIDE DEF I
<1>3. objects[i] \in ToSet(Chosen(objects, I))
  BY <1>2, ChosenAll
<1>4. QED
  BY <1>1, <1>3 DEF in_category, I

\* and all of a name.
LEMMA NamedAll ==
  ASSUME NEW objects, IsSeq(objects), NEW kind, NEW name
  PROVE  \A o \in ToSet(objects) :
           o.kind = kind /\ o.name = name => o \in ToSet(Named(objects, kind, name))
<1> TAKE o \in ToSet(objects)
<1> HAVE o.kind = kind /\ o.name = name
<1> DEFINE those == in_category(objects, kind)
           I == {i \in DOMAIN those : those[i].name = name}
<1>1. IsSeq(those) /\ o \in ToSet(those)
  BY CategoryAll, CategoryOf
<1>2. Named(objects, kind, name) = Chosen(those, I)
  BY DEF Named
<1> HIDE DEF those
<1>3. PICK i \in DOMAIN those : those[i] = o
  BY <1>1 DEF ToSet
<1>4. i \in I
  BY <1>3
<1> HIDE DEF I
<1>5. those[i] \in ToSet(Chosen(those, I))
  BY <1>1, <1>4, ChosenAll
<1>6. QED
  BY <1>2, <1>3, <1>5

\* Whatever is in a sequence is in it a first time.
LEMMA FirstOfName ==
  ASSUME NEW s, IsSeq(s), NEW m \in ToSet(s)
  PROVE  \E i \in DOMAIN s : /\ s[i].name = m.name
                             /\ \A j \in 1..(i - 1) : s[j].name # s[i].name
<1>1. Len(s) \in Nat /\ DOMAIN s = 1..Len(s)
  BY LenProperties DEF IsSeq
<1> DEFINE T == {i \in DOMAIN s : s[i].name = m.name}
<1>2. T \in SUBSET Nat /\ T # {}
  BY <1>1 DEF ToSet
<1>3. PICK i \in T : \A j \in T : i <= j
  BY <1>2, LeastNatural
<1>4. ASSUME NEW j \in 1..(i - 1) PROVE s[j].name # s[i].name
  <2>1. j \in DOMAIN s /\ ~(i <= j)
    BY <1>1, <1>3
  <2>2. QED
    BY <1>3, <2>1
<1>5. QED
  BY <1>3, <1>4

\* Of each name there is one member, and only one.
LEMMA MembersAll ==
  ASSUME NEW memberdefs, IsSeq(memberdefs)
  PROVE  LET mems == process_memberdefs(memberdefs)
         IN  /\ \A m \in ToSet(memberdefs) : \E k \in DOMAIN mems : mems[k].name = m.name
             /\ \A k, l \in DOMAIN mems : mems[k].name = mems[l].name => k = l
<1> DEFINE I == {i \in DOMAIN memberdefs :
                   \A j \in 1..(i - 1) : memberdefs[j].name # memberdefs[i].name}
           mems == Chosen(memberdefs, I)
<1>1. process_memberdefs(memberdefs) = mems
  BY DEF process_memberdefs
<1>2. memberdefs \in Seq(ToSet(memberdefs))
  BY DEF IsSeq
<1>3. /\ Len(memberdefs) \in Nat /\ DOMAIN memberdefs = 1..Len(memberdefs)
      /\ mems \in Seq(ToSet(memberdefs))
  BY <1>2, ChosenType, LenProperties
<1> DEFINE n == Len(mems)
<1>4. DOMAIN mems = 1..n
  BY <1>3, LenProperties
<1>5. \A m \in ToSet(memberdefs) : \E i \in I : memberdefs[i].name = m.name
  BY FirstOfName
<1>6. ASSUME NEW i \in I, NEW j \in I, memberdefs[i].name = memberdefs[j].name PROVE i = j
  <2>1. i \in 1..Len(memberdefs) /\ j \in 1..Len(memberdefs)
    BY <1>3
  <2>2. ~(i < j) /\ ~(j < i)
    BY <1>6, <2>1
  <2>3. QED
    BY <2>1, <2>2
<1>7. I \subseteq DOMAIN memberdefs
  OBVIOUS
<1> HIDE DEF I, mems
<1>8. PICK p : Places(memberdefs, I, mems, p)
  BY <1>2, ChosenPlaces DEF mems
<1>9. ASSUME NEW m \in ToSet(memberdefs) PROVE \E k \in DOMAIN mems : mems[k].name = m.name
  <2>1. PICK i \in I : memberdefs[i].name = m.name
    BY <1>5
  <2>2. PICK k \in 1..n : p[k] = i
    BY <1>3, <1>7, <1>8 DEF Places
  <2>3. QED
    BY <1>4, <1>8, <2>1, <2>2 DEF Places
<1>10. ASSUME NEW k \in DOMAIN mems, NEW l \in DOMAIN mems, mems[k].name = mems[l].name
       PROVE  k = l
  <2>1. /\ p[k] \in I /\ mems[k] = memberdefs[p[k]]
        /\ p[l] \in I /\ mems[l] = memberdefs[p[l]]
    BY <1>4, <1>8 DEF Places
  <2>2. p[k] = p[l]
    BY <1>6, <1>10, <2>1
  <2>3. QED
    BY <1>4, <1>8, <2>2 DEF Places
<1>11. QED
  BY <1>1, <1>9, <1>10

\* What NamesAssumption and IndicesAssumption say of a compound.
CompoundFacts(c) ==
  /\ c.kind \notin {"function", "friend"}
  /\ IsSeq(c.members) /\ IsName(c.name)
  /\ \A m \in ToSet(c.members) : m.kind \notin {"class", "file", "odd"} /\ IsName(m.name)
  /\ \A m, n \in ToSet(c.members) : m.name = n.name => m.kind = n.kind
  /\ c.kind = "class" => "operator " \notin ToSet(c.name)

\* Nothing has the name of something else.
NamesApart(s) == \A k, l \in DOMAIN s : s[k].name = s[l].name => k = l

\* So a name counts once, if at all.
LEMMA CountApart ==
  ASSUME NEW s, IsSeq(s), NamesApart(s), NEW name
  PROVE  Count(s, name) = IF \E e \in ToSet(s) : e.name = name THEN 1 ELSE 0
<1> DEFINE A == {i \in DOMAIN s : s[i].name = name}
<1>1. CASE \E e \in ToSet(s) : e.name = name
  <2>1. PICK k \in DOMAIN s : s[k].name = name
    BY <1>1 DEF ToSet
  <2>2. A = {k}
    BY <2>1 DEF NamesApart
  <2> HIDE DEF A
  <2>3. Cardinality(A) = 1
    BY <2>2, FS_Singleton
  <2>4. QED
    BY <1>1, <2>3 DEF Count, A
<1>2. CASE ~\E e \in ToSet(s) : e.name = name
  BY <1>2, CountNone
<1>3. QED
  BY <1>1, <1>2

\* Nothing of one kind does.
KindApart(s, kind) ==
  \A k, l \in DOMAIN s :
    s[k].kind = kind /\ s[l].kind = kind /\ s[k].name = s[l].name => k = l

\* So a category of it has each name once.
LEMMA CategoryApart ==
  ASSUME NEW objects, IsSeq(objects), NEW kind, KindApart(objects, kind)
  PROVE  NamesApart(in_category(objects, kind))
<1> DEFINE I == {i \in DOMAIN objects : objects[i].kind = kind}
           t == Chosen(objects, I)
<1>1. in_category(objects, kind) = t
  BY DEF in_category
<1>2. /\ objects \in Seq(ToSet(objects)) /\ DOMAIN objects = 1..Len(objects)
  BY LenProperties DEF IsSeq
<1>3. DOMAIN t = 1..Len(t)
  BY <1>2, ChosenType, LenProperties
<1>4. \A i \in I : objects[i].kind = kind
  OBVIOUS
<1> HIDE DEF I, t
<1>5. PICK p : Places(objects, I, t, p)
  BY <1>2, ChosenPlaces DEF t
<1>6. ASSUME NEW k \in DOMAIN t, NEW l \in DOMAIN t, t[k].name = t[l].name PROVE k = l
  <2>1. /\ p[k] \in 1..Len(objects) /\ t[k] = objects[p[k]] /\ t[k].kind = kind
        /\ p[l] \in 1..Len(objects) /\ t[l] = objects[p[l]] /\ t[l].kind = kind
    BY <1>3, <1>4, <1>5 DEF Places
  <2>2. p[k] = p[l]
    BY <1>2, <1>6, <2>1 DEF KindApart
  <2>3. QED
    BY <1>3, <1>5, <2>2 DEF Places
<1>7. QED
  BY <1>1, <1>6 DEF NamesApart

\* The functions of a compound, each once.
LEMMA FunctionsOf ==
  ASSUME NEW c, CompoundFacts(c)
  PROVE  /\ IsSeq(functions(c)) /\ NamesApart(functions(c))
         /\ \A f \in ToSet(functions(c)) : f \in ToSet(c.members) /\ f.kind = "function"
         /\ \A m \in ToSet(c.members) :
              m.kind = "function" => \E f \in ToSet(functions(c)) : f.name = m.name
<1> DEFINE mems == process_memberdefs(c.members)
<1>1. IsSeq(c.members)
  BY DEF CompoundFacts
<1>2. IsSeq(mems) /\ ToSet(mems) \subseteq ToSet(c.members) /\ KindApart(mems, "function")
  BY <1>1, MembersOf, MembersAll DEF KindApart
<1>3. functions(c) = in_category(mems, "function")
  BY DEF functions
<1>4. \A m \in ToSet(c.members) : \E k \in DOMAIN mems : mems[k].name = m.name
  BY <1>1, MembersAll
<1>5. \A k \in DOMAIN mems : mems[k] \in ToSet(mems)
  BY DEF ToSet
<1> HIDE DEF mems
<1>6. /\ IsSeq(functions(c)) /\ NamesApart(functions(c))
      /\ \A f \in ToSet(functions(c)) : f \in ToSet(mems) /\ f.kind = "function"
      /\ \A m \in ToSet(mems) : m.kind = "function" => m \in ToSet(functions(c))
  BY <1>2, <1>3, CategoryOf, CategoryAll, CategoryApart
<1>7. ASSUME NEW m \in ToSet(c.members), m.kind = "function"
      PROVE  \E f \in ToSet(functions(c)) : f.name = m.name
  <2>1. PICK k \in DOMAIN mems : mems[k].name = m.name
    BY <1>4
  <2>2. mems[k] \in ToSet(mems) /\ mems[k] \in ToSet(c.members)
    BY <1>2, <1>5
  <2>3. mems[k].kind = "function"
    BY <1>7, <2>1, <2>2 DEF CompoundFacts
  <2>4. QED
    BY <1>6, <2>1, <2>2, <2>3
<1>8. QED
  BY <1>2, <1>6, <1>7

\* Asked for a friend, a class that has been read says what doxygen wrote.
LEMMA BlockHasMake ==
  ASSUME NEW c, CompoundFacts(c), c.xml = "ok"
  PROVE  IsBlock(c) <=> HasMake(c)
<1> DEFINE mems == process_memberdefs(c.members)
<1>1. IsSeq(c.members)
  BY DEF CompoundFacts
<1>2. HasMake(c) => IsBlock(c)
  BY <1>1, HasMakeFriend DEF IsBlock
<1>3. ASSUME IsBlock(c) PROVE HasMake(c)
  <2>1. PICK m \in ToSet(c.members) : IsFriend(m, c)
    BY <1>3 DEF IsBlock
  <2>2. IsSeq(mems) /\ ToSet(mems) \subseteq ToSet(c.members)
    BY <1>1, MembersOf
  <2>3. PICK k \in DOMAIN mems : mems[k].name = m.name
    BY <1>1, MembersAll
  <2> DEFINE o == mems[k]
  <2>4. o \in ToSet(mems) /\ o.name = make_name(c.name) /\ m.kind = "friend" /\ m.name = o.name
    BY <2>1, <2>3 DEF ToSet, IsFriend
  <2> HIDE DEF mems, o
  <2>5. o.kind = "friend"
    BY <2>2, <2>4 DEF CompoundFacts
  <2> DEFINE those == Named(mems, "friend", make_name(c.name))
  <2>6. o \in ToSet(those)
    BY <2>2, <2>4, <2>5, NamedAll
  <2>7. those # <<>>
    <3> HIDE DEF those
    <3>1. ToSet(<<>>) = {}
      BY EmptyOf
    <3>2. QED
      BY <2>6, <3>1
  <2>8. QED
    BY <1>3, <2>7 DEF HasMake, IsBlock, mems
<1>4. QED
  BY <1>2, <1>3

-----------------------------------------------------------------------------
(* Functions of the index                                                  *)

CountKind(s, kind, name) ==
  Cardinality({i \in DOMAIN s : s[i].kind = kind /\ s[i].name = name})

\* Counting in a category is counting those of the kind.
LEMMA CountCategory ==
  ASSUME NEW s, IsSeq(s), NEW kind, NEW name
  PROVE  Count(in_category(s, kind), name) = CountKind(s, kind, name)
<1> DEFINE I == {i \in DOMAIN s : s[i].kind = kind}
           t == Chosen(s, I)
           T == {i \in DOMAIN s : s[i].kind = kind /\ s[i].name = name}
           K == {k \in DOMAIN t : t[k].name = name}
<1>1. in_category(s, kind) = t
  BY DEF in_category
<1>2. s \in Seq(ToSet(s)) /\ DOMAIN s = 1..Len(s)
  BY LenProperties DEF IsSeq
<1>3. t \in Seq(ToSet(s)) /\ DOMAIN t = 1..Len(t)
  BY <1>2, ChosenType, LenProperties
<1>4. \A i \in I : i \in T <=> s[i].name = name
  OBVIOUS
<1>5. T \subseteq I \cap 1..Len(s)
  BY <1>2
<1> HIDE DEF t
<1>6. PICK p : Places(s, I, t, p)
  BY <1>2, ChosenPlaces DEF t
<1> HIDE DEF I, T
<1>7. K = {k \in 1..Len(t) : p[k] \in T}
  BY <1>3, <1>4, <1>6 DEF Places
<1> HIDE DEF K
<1>8. Cardinality(K) = Cardinality(T)
  BY <1>2, <1>3, <1>5, <1>6, <1>7, PlacesNumber
<1>9. QED
  BY <1>1, <1>8 DEF Count, CountKind, K, T

LEMMA CountKindConcat ==
  ASSUME NEW s, NEW t, IsSeq(s), IsSeq(t), NEW kind, NEW name
  PROVE  CountKind(s \o t, kind, name) = CountKind(s, kind, name) + CountKind(t, kind, name)
<1> DEFINE A == {i \in DOMAIN s : s[i].kind = kind /\ s[i].name = name}
           B == {i \in DOMAIN t : t[i].kind = kind /\ t[i].name = name}
           C == {i \in DOMAIN (s \o t) : (s \o t)[i].kind = kind /\ (s \o t)[i].name = name}
<1>1. A \subseteq DOMAIN s /\ B \subseteq DOMAIN t /\ C \subseteq DOMAIN (s \o t)
  OBVIOUS
<1>2. \A i \in DOMAIN s : i \in C <=> i \in A
  BY ConcatElements
<1>3. \A i \in DOMAIN t : Len(s) + i \in C <=> i \in B
  BY ConcatElements
<1> HIDE DEF A, B, C
<1>4. PlacesOf(s, t, A, B, C)
  BY <1>1, <1>2, <1>3 DEF PlacesOf
<1>5. Cardinality(C) = Cardinality(A) + Cardinality(B)
  BY <1>4, ConcatNumber
<1>6. QED
  BY <1>5 DEF CountKind, A, B, C

\* What is no such thing is not counted.
LEMMA CountKindOther ==
  ASSUME NEW s, IsSeq(s), NEW kind, NEW name, \A e \in ToSet(s) : e.kind # kind
  PROVE  CountKind(s, kind, name) = 0
<1> DEFINE A == {i \in DOMAIN s : s[i].kind = kind /\ s[i].name = name}
<1>1. A = {}
  BY DEF ToSet
<1> HIDE DEF A
<1>2. Cardinality(A) = 0
  BY <1>1, FS_EmptySet
<1>3. QED
  BY <1>2 DEF CountKind, A

Defines(h, f) ==
  IsHeader(h) /\ \E m \in ToSet(h.members) : m.kind = "function" /\ m.name = f

\* A header has each of its functions once.
LEMMA HeaderFunctions ==
  ASSUME NEW h, CompoundFacts(h), IsHeader(h), NEW f
  PROVE  CountKind(process_memberdefs(h.members), "function", f) = IF Defines(h, f) THEN 1 ELSE 0
<1>1. IsSeq(process_memberdefs(h.members))
  BY MembersOf DEF CompoundFacts
<1>2. Count(functions(h), f) = CountKind(process_memberdefs(h.members), "function", f)
  BY <1>1, CountCategory DEF functions
<1>3. Count(functions(h), f) = IF \E e \in ToSet(functions(h)) : e.name = f THEN 1 ELSE 0
  BY FunctionsOf, CountApart
<1>4. (\E e \in ToSet(functions(h)) : e.name = f) <=> Defines(h, f)
  BY FunctionsOf DEF Defines
<1>5. QED
  BY <1>2, <1>3, <1>4

-----------------------------------------------------------------------------
(* What is written of a class                                              *)

\* es is the one entry of that name, if it is worth one.
OneEntry(es, name, text, params) ==
  /\ IsSeq(es)
  /\ \A e \in ToSet(es) : e.name = name /\ e.text = text /\ e.params = params
  /\ \A n : Count(es, n) = IF n = name /\ "operator " \notin ToSet(name)
                                /\ (text # <<>> \/ params # <<>>)
                           THEN 1 ELSE 0

\* make_entry makes that one.
LEMMA EntryOf ==
  ASSUME NEW name, NEW text, NEW params
  PROVE  OneEntry(make_entry(name, text, params), name, text, params)
<1> DEFINE e == [name |-> name, text |-> text, params |-> params]
           none == "operator " \in ToSet(name) \/ (text = <<>> /\ params = <<>>)
           es == make_entry(name, text, params)
<1>1. es = IF none THEN <<>> ELSE <<e>>
  BY DEF make_entry
<1>2. e.name = name /\ e.text = text /\ e.params = params
  OBVIOUS
<1> HIDE DEF e, es
<1>3. CASE none
  <2>1. es = <<>>
    BY <1>1, <1>3
  <2>2. IsSeq(es) /\ ToSet(es) = {} /\ \A n : Count(es, n) = 0
    BY <2>1, EmptyOf, CountEmpty
  <2>3. QED
    BY <1>3, <2>2 DEF es, OneEntry
<1>4. CASE ~none
  <2>1. es = <<e>>
    BY <1>1, <1>4
  <2> HIDE DEF none
  <2>2. /\ IsSeq(es) /\ ToSet(es) = {e}
        /\ \A n : Count(es, n) = IF e.name = n THEN 1 ELSE 0
    BY <2>1, CountOne
  <2>3. QED
    BY <1>2, <1>4, <2>2 DEF es, none, OneEntry
<1>5. QED
  BY <1>3, <1>4

\* A class's entries are of its own names, each once.
LEMMA ClassEntries ==
  ASSUME NEW c, CompoundFacts(c), c.kind = "class", NEW text
  PROVE  LET es == make_class_entry(c, text)
         IN  /\ IsSeq(es)
             /\ \A n : n \notin OwnNames(c) => Count(es, n) = 0
             /\ \A m \in ToSet(c.members) :
                  m.kind = "function" /\ ~IsOperator(m) => Count(es, method_name(c, m)) = 1
             /\ text # <<>> => Count(es, c.name) = 1
             /\ \A e \in ToSet(es) : e.name = c.name => e.text = text /\ e.params = <<>>
<1> DEFINE fs == functions(c)
           entry(i) == make_func_entry(fs[i], method_name(c, fs[i]))
           seqs == [i \in DOMAIN fs |-> entry(i)]
           own == make_entry(c.name, text, <<>>)
           rest == FlattenSeq(seqs)
<1>1. make_class_entry(c, text) = own \o rest
  BY DEF make_class_entry
<1>2. /\ IsSeq(fs) /\ NamesApart(fs)
      /\ \A f \in ToSet(fs) : f \in ToSet(c.members) /\ f.kind = "function"
      /\ \A m \in ToSet(c.members) :
           m.kind = "function" => \E f \in ToSet(fs) : f.name = m.name
  BY FunctionsOf
<1> DEFINE n == Len(fs)
<1>3. n \in Nat /\ DOMAIN fs = 1..n /\ \A i \in 1..n : fs[i] \in ToSet(fs)
  BY <1>2, SeqOfItself DEF IsSeq
<1>4. IsName(c.name) /\ "operator " \notin ToSet(c.name)
  BY DEF CompoundFacts
<1>5. \A m \in ToSet(c.members) : IsName(m.name)
  BY DEF CompoundFacts
<1>6. /\ IsSeq(own)
      /\ \A e \in ToSet(own) : e.text = text /\ e.params = <<>>
      /\ \A x : Count(own, x) = IF x = c.name /\ text # <<>> THEN 1 ELSE 0
  <2>1. OneEntry(own, c.name, text, <<>>)
    BY EntryOf
  <2> HIDE DEF own
  <2>2. \A x : Count(own, x) = IF x = c.name /\ "operator " \notin ToSet(c.name)
                                 /\ (text # <<>> \/ <<>> # <<>>)
                              THEN 1 ELSE 0
    BY <2>1 DEF OneEntry
  <2>3. IsSeq(own) /\ \A e \in ToSet(own) : e.text = text /\ e.params = <<>>
    BY <2>1 DEF OneEntry
  <2>4. ASSUME NEW x PROVE Count(own, x) = IF x = c.name /\ text # <<>> THEN 1 ELSE 0
    <3>1. "operator " \notin ToSet(c.name)
      BY <1>4
    <3>2. CASE x = c.name /\ text # <<>>
      BY <2>2, <3>1, <3>2
    <3>3. CASE x # c.name
      BY <2>2, <3>3
    <3>4. CASE text = <<>>
      <4>1. Count(own, x) = 0
        BY <2>2, <3>4, Zenon
      <4>2. QED
        BY <3>4, <4>1
    <3>5. QED
      BY <3>2, <3>3, <3>4
  <2>5. QED
    BY <2>3, <2>4
<1>7. ASSUME NEW i \in 1..n
      PROVE  /\ IsSeq(entry(i))
             /\ \A x : Count(entry(i), x)
                        = IF x = method_name(c, fs[i]) /\ ~IsOperator(fs[i]) THEN 1 ELSE 0
  <2>1. IsName(fs[i].name)
    BY <1>2, <1>3, <1>5
  <2>2. "operator " \in ToSet(method_name(c, fs[i])) <=> IsOperator(fs[i])
    BY <1>4, <2>1, MethodNames
  <2>3. fs[i].name # <<>>
    BY <2>1 DEF IsName
  <2>4. entry(i) = make_entry(method_name(c, fs[i]), combine_descriptions(fs[i]), fs[i].name)
    BY DEF make_func_entry
  <2> HIDE DEF entry
  <2>5. OneEntry(entry(i), method_name(c, fs[i]), combine_descriptions(fs[i]), fs[i].name)
    BY <2>4, EntryOf
  <2> HIDE DEF fs
  <2>6. QED
    BY <2>2, <2>3, <2>5 DEF OneEntry
<1>8. \A i \in 1..n : seqs[i] = entry(i)
  BY <1>3
<1>9. seqs = [i \in 1..n |-> seqs[i]]
  BY <1>3
<1> HIDE DEF fs, n, entry, seqs, own
<1>10. ASSUME NEW x, NEW k \in 1..(n + 1),
             \A i \in 1..n : Count(entry(i), x) = IF i = k THEN 1 ELSE 0
      PROVE  IsSeq(rest) /\ Count(rest, x) = IF k = n + 1 THEN 0 ELSE 1
  <2>1. OnlyAt(seqs, n, x, k)
    BY <1>7, <1>8, <1>9, <1>10 DEF OnlyAt
  <2>2. QED
    <3>1. IsSeq(FlattenSeq(seqs)) /\ Count(FlattenSeq(seqs), x) = IF k = n + 1 THEN 0 ELSE 1
      BY <1>3, <2>1, CountFlatten
    <3>2. QED
      BY <3>1
<1>11. ASSUME NEW x, \A i \in 1..n : x # method_name(c, fs[i])
       PROVE  IsSeq(rest) /\ Count(rest, x) = 0
  <2>1. n + 1 \in 1..(n + 1)
    BY <1>3
  <2>2. \A i \in 1..n : Count(entry(i), x) = IF i = n + 1 THEN 1 ELSE 0
    BY <1>3, <1>7, <1>11
  <2>3. QED
    BY <1>10, <2>1, <2>2
<1>12. \A i \in 1..n : /\ c.name # method_name(c, fs[i])
                       /\ method_name(c, fs[i]) \in OwnNames(c)
  BY <1>2, <1>3, <1>4, <1>5, MethodNames DEF OwnNames
<1>13. IsSeq(rest) /\ Count(rest, c.name) = 0
  BY <1>11, <1>12
<1>14. \A x : x \notin OwnNames(c) => Count(rest, x) = 0
  BY <1>11, <1>12
<1>15. ASSUME NEW m \in ToSet(c.members), m.kind = "function", ~IsOperator(m)
       PROVE  Count(rest, method_name(c, m)) = 1
  <2>1. PICK k \in 1..n : fs[k].name = m.name
    <3>1. PICK f \in ToSet(fs) : f.name = m.name
      BY <1>2, <1>15
    <3>2. PICK k \in DOMAIN fs : fs[k] = f
      BY DEF ToSet
    <3>3. QED
      BY <1>3, <3>1, <3>2
  <2>2. ASSUME NEW i \in 1..n
        PROVE  Count(entry(i), method_name(c, m)) = IF i = k THEN 1 ELSE 0
    <3>1. IsName(m.name) /\ IsName(fs[i].name)
      BY <1>2, <1>3, <1>5
    <3>2. method_name(c, m) = method_name(c, fs[i]) <=> m.name = fs[i].name
      <4>1. method_name(c, m) = method_name(c, fs[i]) => m.name = fs[i].name
        <5> DEFINE g == fs[i]
        <5>1. IsName(c.name) /\ IsName(m.name) /\ IsName(g.name)
          BY <1>4, <3>1
        <5> HIDE DEF g
        <5>2. method_name(c, m) = method_name(c, g) => m.name = g.name
          BY <5>1, MethodNameTells
        <5>3. QED
          BY <5>2 DEF g
      <4>2. QED
        BY <4>1 DEF method_name
    <3>3. m.name = fs[i].name <=> i = k
      BY <1>2, <1>3, <2>1 DEF NamesApart
    <3>4. i = k => ~IsOperator(fs[i])
      BY <1>15, <2>1 DEF IsOperator
    <3>5. QED
      BY <1>7, <3>2, <3>3, <3>4
  <2>3. k \in 1..(n + 1) /\ k # n + 1
    BY <1>3
  <2>4. QED
    BY <1>10, <2>2, <2>3
<1> HIDE DEF rest
<1> DEFINE es == own \o rest
<1>16. /\ IsSeq(es) /\ ToSet(es) = ToSet(own) \cup ToSet(rest)
       /\ \A x : Count(es, x) = Count(own, x) + Count(rest, x)
  BY <1>6, <1>13, ConcatOf, CountConcat
<1> HIDE DEF es
<1>17. \A e \in ToSet(rest) : e.name # c.name
  BY <1>13, CountNone
<1>18. \A x : x \notin OwnNames(c) => Count(es, x) = 0
  BY <1>6, <1>14, <1>16 DEF OwnNames
<1>19. ASSUME NEW m \in ToSet(c.members), m.kind = "function", ~IsOperator(m)
       PROVE  Count(es, method_name(c, m)) = 1
  <2>1. method_name(c, m) # c.name
    BY <1>4, <1>5, MethodNames
  <2>2. QED
    BY <1>6, <1>15, <1>16, <1>19, <2>1
<1>20. text # <<>> => Count(es, c.name) = 1
  BY <1>6, <1>13, <1>16
<1>21. \A e \in ToSet(es) : e.name = c.name => e.text = text /\ e.params = <<>>
  BY <1>6, <1>16, <1>17
<1>22. QED
  BY <1>1, <1>16, <1>18, <1>19, <1>20, <1>21 DEF es

\* The things of one kind and name.
These(objects, kind, name) == {o \in ToSet(objects) : o.kind = kind /\ o.name = name}

\* Named finds these.
LEMMA NamedThese ==
  ASSUME NEW objects, IsSeq(objects), NEW kind, NEW name
  PROVE  /\ IsSeq(Named(objects, kind, name))
         /\ ToSet(Named(objects, kind, name)) = These(objects, kind, name)
BY NamedOf, NamedAll DEF These

\* get_member finds the one there is.
LEMMA FoundAlone ==
  ASSUME NEW s, IsSeq(s), Len(s) <= 1
  PROVE  /\ s = <<>> => ToSet(s) = {}
         /\ s # <<>> => ToSet(s) = {s[1]}
<1>1. s \in Seq(ToSet(s)) /\ Len(s) \in Nat /\ ToSet(s) = {s[i] : i \in 1..Len(s)}
  BY SeqOfItself DEF IsSeq
<1>2. CASE s = <<>>
  BY <1>2, EmptyOf
<1>3. CASE s # <<>>
  <2>1. Len(s) \in Nat \ {0}
    BY <1>1, <1>3, EmptySeq, LenProperties
  <2>2. QED
    BY <1>1, <1>3, <2>1
<1>4. QED
  BY <1>2, <1>3

\* The descriptions of a block are those of its class, its make function and
\* its header.
Owners(b) ==
  {b} \cup {o \in ToSet(members) : \/ o.kind = "function" /\ o.name = make_name(b.name)
                                   \/ o.kind = "file" /\ o.name = header_name(b.name)}
Described(b) == UNION {ToSet(combine_descriptions(o)) : o \in Owners(b)}

LEMMA DescriptionsOf ==
  ASSUME NEW o
  PROVE  /\ IsSeq(combine_descriptions(o))
         /\ o.described => Len(combine_descriptions(o)) = 1
BY EmptyOf, WordName DEF combine_descriptions

\* The text that make_block_entry gives a block.
block_text(b) ==
  LET make == Named(members, "function", make_name(b.name))[1]
      file == Named(members, "file", header_name(b.name))
  IN  combine_descriptions(b) \o combine_descriptions(make)
        \o (IF file = <<>> THEN <<>> ELSE combine_descriptions(file[1]))

\* It is what its owners say.
LEMMA BlockText ==
  ASSUME NEW b, IsSeq(members), EntryPossible(b)
  PROVE  /\ IsSeq(block_text(b)) /\ ToSet(block_text(b)) = Described(b)
         /\ b.described => block_text(b) # <<>>
<1> DEFINE makes == Named(members, "function", make_name(b.name))
           files == Named(members, "file", header_name(b.name))
           x == combine_descriptions(b)
           y == combine_descriptions(makes[1])
           z == IF files = <<>> THEN <<>> ELSE combine_descriptions(files[1])
           M == These(members, "function", make_name(b.name))
           F == These(members, "file", header_name(b.name))
<1>1. /\ IsSeq(makes) /\ ToSet(makes) = M /\ Len(makes) = 1
      /\ IsSeq(files) /\ ToSet(files) = F /\ Len(files) <= 1
  BY NamedThese DEF EntryPossible
<1>2. makes # <<>> /\ Len(makes) <= 1
  <2> HIDE DEF makes
  <2>1. Len(<<>>) = 0 /\ Len(makes) = 1
    BY <1>1
  <2>2. QED
    BY <2>1
<1>3. block_text(b) = x \o y \o z
  BY DEF block_text
<1>4. Owners(b) = {b} \cup M \cup F
  BY DEF Owners, These
<1> HIDE DEF makes, files
<1>5. M = {makes[1]} /\ (IF files = <<>> THEN F = {} ELSE F = {files[1]})
  <2>1. ToSet(makes) = {makes[1]}
    BY <1>1, <1>2, FoundAlone
  <2>2. (files = <<>> => ToSet(files) = {}) /\ (files # <<>> => ToSet(files) = {files[1]})
    BY <1>1, FoundAlone
  <2>3. QED
    BY <1>1, <2>1, <2>2
<1>6. IsSeq(x) /\ IsSeq(y) /\ IsSeq(z)
  BY DescriptionsOf, EmptyOf
<1>7. ToSet(x) \cup ToSet(y) \cup ToSet(z) = Described(b)
  <2>1. CASE files = <<>>
    <3>1. Owners(b) = {b, makes[1]} /\ ToSet(z) = {}
      BY <1>4, <1>5, <2>1, EmptyOf
    <3>2. QED
      BY <3>1 DEF Described
  <2>2. CASE files # <<>>
    <3>1. Owners(b) = {b, makes[1], files[1]} /\ z = combine_descriptions(files[1])
      BY <1>4, <1>5, <2>2
    <3>2. QED
      BY <3>1 DEF Described
  <2>3. QED
    BY <2>1, <2>2
<1>8. b.described => Len(x) = 1
  BY DescriptionsOf
<1> HIDE DEF x, y, z
<1>9. /\ IsSeq(x \o y) /\ ToSet(x \o y) = ToSet(x) \cup ToSet(y)
      /\ Len(x \o y) = Len(x) + Len(y)
  BY <1>6, NameConcat
<1> DEFINE u == x \o y
<1> HIDE DEF u
<1>10. /\ IsSeq(u \o z) /\ ToSet(u \o z) = ToSet(u) \cup ToSet(z)
       /\ Len(u \o z) = Len(u) + Len(z)
  BY <1>6, <1>9, NameConcat DEF u
<1>11. Len(y) \in Nat /\ Len(z) \in Nat
  BY <1>6, LenProperties DEF IsSeq
<1>12. b.described => Len(u \o z) # 0
  BY <1>8, <1>9, <1>10, <1>11 DEF u
<1>13. Len(<<>>) = 0
  OBVIOUS
<1>14. QED
  BY <1>3, <1>7, <1>9, <1>10, <1>12, <1>13 DEF u

\* What a block's turn adds.
LEMMA BlockEntriesMade ==
  ASSUME NEW b, CompoundFacts(b), b.kind = "class", IsSeq(members), EntryPossible(b),
         make_name(b.name) \notin OwnNames(b)
  PROVE  LET es == make_block_entry(b)
         IN  /\ IsSeq(es)
             /\ \A n : n \notin OwnNames(b) /\ n # make_name(b.name) => Count(es, n) = 0
             /\ \A m \in ToSet(b.members) :
                  m.kind = "function" /\ ~IsOperator(m) => Count(es, method_name(b, m)) = 1
             /\ b.described => Count(es, b.name) = 1
             /\ Count(es, make_name(b.name)) = 1
             /\ \A e \in ToSet(es) :
                  /\ e.name = b.name => e.params = <<>> /\ ToSet(e.text) = Described(b)
                  /\ e.name = make_name(b.name)
                       => e.params = b.name /\ ToSet(e.text) = Described(b)
<1> DEFINE makes == Named(members, "function", make_name(b.name))
           text == block_text(b)
           first == make_class_entry(b, text)
           last == make_entry(make_name(b.name), text, b.name)
           es == first \o last
<1>1. makes[1].name = make_name(b.name)
  <2>1. IsSeq(makes) /\ Len(makes) = 1
    BY NamedOf DEF EntryPossible
  <2>2. \A o \in ToSet(makes) : o.name = make_name(b.name)
    BY NamedOf
  <2> HIDE DEF makes
  <2>3. ToSet(makes) = {makes[i] : i \in 1..1}
    BY <2>1, SeqOfItself DEF IsSeq
  <2>4. QED
    BY <2>2, <2>3
<1>2. make_block_entry(b) = es
  BY <1>1 DEF make_block_entry, block_text
<1>3. ToSet(text) = Described(b) /\ (b.described => text # <<>>)
  BY BlockText
<1> HIDE DEF text, makes
<1>4. IsName(b.name) /\ "operator " \notin ToSet(b.name)
  BY DEF CompoundFacts
<1>5. b.name # <<>> /\ "operator " \notin ToSet(make_name(b.name))
  BY <1>4, MakeNames DEF IsName
<1>6. OneEntry(last, make_name(b.name), text, b.name)
  BY EntryOf
<1>7. /\ IsSeq(first)
      /\ \A n : n \notin OwnNames(b) => Count(first, n) = 0
      /\ \A m \in ToSet(b.members) :
           m.kind = "function" /\ ~IsOperator(m) => Count(first, method_name(b, m)) = 1
      /\ text # <<>> => Count(first, b.name) = 1
      /\ \A e \in ToSet(first) : e.name = b.name => e.text = text /\ e.params = <<>>
  BY ClassEntries
<1> HIDE DEF first, last
<1>8. /\ IsSeq(last)
      /\ \A e \in ToSet(last) : e.name = make_name(b.name) /\ e.text = text /\ e.params = b.name
      /\ Count(last, make_name(b.name)) = 1
      /\ \A n : n # make_name(b.name) => Count(last, n) = 0
  <2>1. /\ IsSeq(last)
        /\ \A e \in ToSet(last) : e.name = make_name(b.name) /\ e.text = text /\ e.params = b.name
    BY <1>6 DEF OneEntry
  <2>2. Count(last, make_name(b.name)) = 1
    BY <1>5, <1>6 DEF OneEntry
  <2>3. \A n : n # make_name(b.name) => Count(last, n) = 0
    BY <1>6 DEF OneEntry
  <2>4. QED
    BY <2>1, <2>2, <2>3
<1>9. /\ IsSeq(es) /\ ToSet(es) = ToSet(first) \cup ToSet(last)
      /\ \A x : Count(es, x) = Count(first, x) + Count(last, x)
  BY <1>7, <1>8, ConcatOf, CountConcat
<1> HIDE DEF es
<1>10. b.name \in OwnNames(b) /\ b.name # make_name(b.name)
  BY DEF OwnNames
<1>11. \A m \in ToSet(b.members) :
         m.kind = "function" => method_name(b, m) \in OwnNames(b)
  BY DEF OwnNames
<1>12. \A n : n \notin OwnNames(b) /\ n # make_name(b.name) => Count(es, n) = 0
  BY <1>7, <1>8, <1>9
<1>13. ASSUME NEW m \in ToSet(b.members), m.kind = "function", ~IsOperator(m)
       PROVE  Count(es, method_name(b, m)) = 1
  <2>1. Count(first, method_name(b, m)) = 1
    BY <1>7, <1>13
  <2>2. method_name(b, m) # make_name(b.name)
    BY <1>11, <1>13
  <2>3. Count(last, method_name(b, m)) = 0
    BY <1>8, <2>2
  <2>4. QED
    BY <1>9, <2>1, <2>3
<1>14. b.described => Count(es, b.name) = 1
  BY <1>3, <1>7, <1>8, <1>9, <1>10
<1>15. Count(es, make_name(b.name)) = 1
  BY <1>7, <1>8, <1>9
<1>16. \A e \in ToSet(first) : e.name # make_name(b.name)
  BY <1>7, CountNone
<1>17. ASSUME NEW e \in ToSet(es)
       PROVE  /\ e.name = b.name => e.params = <<>> /\ ToSet(e.text) = Described(b)
              /\ e.name = make_name(b.name)
                   => e.params = b.name /\ ToSet(e.text) = Described(b)
  BY <1>3, <1>7, <1>8, <1>9, <1>10, <1>16
<1>18. QED
  BY <1>2, <1>9, <1>12, <1>13, <1>14, <1>15, <1>17

-----------------------------------------------------------------------------
(* How far the program has come                                            *)

FreeFunctions == in_category(members, "function")
ClassMembers == in_category(members, "class")

\* The turns taken of each loop.
DoneIndex == IF phase = "index" THEN at - 1 ELSE Len(index)
DoneMembers ==
  IF phase = "index" THEN 0 ELSE IF phase = "blocks" THEN at - 1 ELSE Len(members)
DoneBlocks ==
  IF phase \in {"index", "blocks"} THEN 0
  ELSE IF phase = "block_entries" THEN at - 1 ELSE Len(blocks)
DoneFunctions ==
  IF phase = "functions" THEN at - 1
  ELSE IF phase \in {"classes", "written"} THEN Len(FreeFunctions) ELSE 0
DoneClasses ==
  IF phase = "classes" THEN at - 1
  ELSE IF phase = "written" THEN Len(ClassMembers) ELSE 0

\* No loop goes beyond its end.
TurnsInv ==
  /\ DoneIndex \in 0..Len(index) /\ DoneMembers \in 0..Len(members)
  /\ DoneBlocks \in 0..Len(blocks) /\ DoneFunctions \in 0..Len(FreeFunctions)
  /\ DoneClasses \in 0..Len(ClassMembers)

\* The headers among the first n compounds that define f, and the things of a
\* name among the first n of a loop.
DefinedBy(i, n, f) == Cardinality({j \in 1..n : Defines(i[j], f)})
CountTo(s, n, name) == Cardinality({k \in 1..n : s[k].name = name})

\* The classes of the index are members once each, and the functions of its
\* headers as often as headers have them.
IndexRead ==
  /\ \A k \in DOMAIN members :
       /\ members[k].kind = "class" => \E j \in 1..DoneIndex : index[j] = members[k]
       /\ members[k].kind = "function" => members[k].name \in FreeNames(index)
  /\ \A j \in 1..DoneIndex :
       index[j].kind = "class" => \E k \in DOMAIN members : members[k] = index[j]
  /\ KindApart(members, "class")
  /\ \A f \in FreeNames(index) :
       CountKind(members, "function", f) = DefinedBy(index, DoneIndex, f)

\* What Block.includes has been asked of has been read, and those it includes
\* are the blocks.
BlocksFound ==
  /\ parsed = {members[k].name : k \in {k \in 1..DoneMembers : members[k].kind = "class"}}
  /\ \A k \in 1..DoneMembers : members[k].kind = "class" =>
       /\ members[k].xml \in {"ok", "broken"}
       /\ members[k].xml = "ok" /\ HasMake(members[k]) => members[k] \in ToSet(blocks)
  /\ \A i \in DOMAIN blocks :
       /\ \E k \in 1..DoneMembers : members[k] = blocks[i]
       /\ blocks[i].kind = "class" /\ blocks[i].xml = "ok"
  /\ NamesApart(blocks)

\* A broken class is complained of when it is read, and when it is its turn.
BrokenReported ==
  \A c \in Classes : c.xml = "broken" =>
    /\ Times(<<"xml", c.name>>, complaints) = (IF c.name \in parsed THEN 1 ELSE 0)
    /\ Times(<<"class", c.name>>, complaints)
         = (IF \E k \in 1..DoneClasses : ClassMembers[k] = c THEN 1 ELSE 0)

\* The entries with a class's own names are there from its turn on, and not
\* before.
Treated(c) == /\ c.xml = "ok"
              /\ \/ \E i \in 1..DoneBlocks : blocks[i] = c
                 \/ \E k \in 1..DoneClasses : ClassMembers[k] = c
ClassWritten(c, out, treated) ==
  /\ treated => /\ \A m \in ToSet(c.members) :
                     m.kind = "function" /\ ~IsOperator(m) => Count(out, method_name(c, m)) = 1
                /\ c.described => Count(out, c.name) = 1
  /\ ~treated => \A n \in OwnNames(c) : Count(out, n) = 0
ClassesWritten == \A c \in Classes : ClassWritten(c, output, Treated(c))

\* The same of the blocks and their make functions.
BlockWritten(b, out, texts) ==
  /\ Count(out, make_name(b.name)) = 1
  /\ \A e \in ToSet(out) :
       /\ e.name = b.name => e.params = <<>> /\ ToSet(e.text) = texts
       /\ e.name = make_name(b.name) => e.params = b.name /\ ToSet(e.text) = texts
BlocksWritten ==
  /\ make_funcs = {make_name(blocks[i].name) : i \in 1..DoneBlocks}
  /\ make_funcs \subseteq FreeNames(index)
  /\ \A i \in 1..DoneBlocks : BlockWritten(blocks[i], output, Described(blocks[i]))

\* A function that makes no block has one entry for each turn.
FunctionsWritten ==
  \A f \in FreeNames(index) \ make_funcs : "operator " \notin ToSet(f) =>
    Count(output, f) = CountTo(FreeFunctions, DoneFunctions, f)

\* An exception stops the program halfway, and then nothing is written.
WriterInv ==
  phase # "dead" => /\ TurnsInv /\ IndexRead /\ BlocksFound /\ BrokenReported
                    /\ ClassesWritten /\ BlocksWritten /\ FunctionsWritten

-----------------------------------------------------------------------------
(* The index                                                               *)

\* What the assumptions say of the compounds of the index.
LEMMA IndexCompounds ==
  ASSUME IndexFacts
  PROVE  /\ \A c \in ToSet(index) : CompoundFacts(c)
         /\ \A c \in Classes : OwnNames(c) \cap FreeNames(index) = {}
         /\ \A j, k \in DOMAIN index :
              index[j].kind = "class" /\ index[k].kind = "class" /\ j # k
                => OwnNames(index[j]) \cap OwnNames(index[k]) = {}
<1>1. index \in Indices
  BY DEF IndexFacts
<1>2. \A c \in ToSet(index) : CompoundFacts(c)
  BY <1>1, IndicesAssumption, NamesAssumption DEF CompoundFacts, IsSeq
<1>3. \A c \in Classes : OwnNames(c) \cap FreeNames(index) = {}
  BY <1>1, NamesAssumption DEF Classes
<1>4. \A j, k \in DOMAIN index :
        index[j].kind = "class" /\ index[k].kind = "class" /\ j # k
          => OwnNames(index[j]) \cap OwnNames(index[k]) = {}
  BY <1>1, NamesAssumption
<1>5. QED
  BY <1>2, <1>3, <1>4

\* Two classes share no name.
LEMMA ClassesApart ==
  ASSUME IndexFacts, NEW c \in Classes, NEW d \in Classes, c # d
  PROVE  OwnNames(c) \cap OwnNames(d) = {} /\ c.name # d.name
<1>1. PICK j \in DOMAIN index : index[j] = c
  BY DEF Classes, ToSet
<1>2. PICK k \in DOMAIN index : index[k] = d
  BY DEF Classes, ToSet
<1>3. OwnNames(c) \cap OwnNames(d) = {}
  BY <1>1, <1>2, IndexCompounds DEF Classes
<1>4. c.name \in OwnNames(c) /\ d.name \in OwnNames(d)
  BY DEF OwnNames
<1>5. QED
  BY <1>3, <1>4

LEMMA FreeIsName ==
  ASSUME IndexFacts, NEW f \in FreeNames(index)
  PROVE  IsName(f)
<1>1. PICK h \in ToSet(index) : \E m \in ToSet(h.members) : m.name = f
  BY DEF FreeNames
<1>2. PICK m \in ToSet(h.members) : m.name = f
  BY <1>1
<1>3. CompoundFacts(h)
  BY IndexCompounds
<1>4. QED
  BY <1>2, <1>3 DEF CompoundFacts

\* What the loops go over.
LEMMA LoopFacts ==
  ASSUME IndexFacts, MembersInv
  PROVE  /\ IsSeq(FreeFunctions) /\ IsSeq(ClassMembers)
         /\ Len(index) \in Nat /\ DOMAIN index = 1..Len(index)
         /\ Len(members) \in Nat /\ DOMAIN members = 1..Len(members)
         /\ Len(blocks) \in Nat /\ DOMAIN blocks = 1..Len(blocks)
         /\ Len(FreeFunctions) \in Nat /\ DOMAIN FreeFunctions = 1..Len(FreeFunctions)
         /\ Len(ClassMembers) \in Nat /\ DOMAIN ClassMembers = 1..Len(ClassMembers)
<1>1. IsSeq(index) /\ IsSeq(members) /\ IsSeq(blocks)
  BY DEF IndexFacts, MembersInv
<1>2. IsSeq(FreeFunctions) /\ IsSeq(ClassMembers)
  BY <1>1, CategoryOf DEF FreeFunctions, ClassMembers
<1>3. \A s : IsSeq(s) => Len(s) \in Nat /\ DOMAIN s = 1..Len(s)
  BY LenProperties DEF IsSeq
<1>4. QED
  BY <1>1, <1>2, <1>3

-----------------------------------------------------------------------------
(* The turns                                                               *)

Dones == <<DoneIndex, DoneMembers, DoneBlocks, DoneFunctions, DoneClasses>>

LEMMA TurnIndex ==
  ASSUME NEW o, Turn("index", o), Go, at \in Nat \ {0}
  PROVE  /\ DoneIndex \in Nat /\ DoneIndex' = DoneIndex + 1 /\ DoneIndex' <= Len(index)
         /\ o = index[DoneIndex']
         /\ DoneMembers = 0 /\ DoneBlocks = 0 /\ DoneFunctions = 0 /\ DoneClasses = 0
         /\ DoneMembers' = 0 /\ DoneBlocks' = 0 /\ DoneFunctions' = 0 /\ DoneClasses' = 0
BY DEF Turn, Loop, Go, DoneIndex, DoneMembers, DoneBlocks, DoneFunctions, DoneClasses

LEMMA TurnBlocks ==
  ASSUME NEW o, Turn("blocks", o), Go, at \in Nat \ {0}, members' = members
  PROVE  /\ DoneIndex' = DoneIndex
         /\ DoneMembers \in Nat /\ DoneMembers' = DoneMembers + 1 /\ DoneMembers' <= Len(members)
         /\ o = members[DoneMembers']
         /\ DoneBlocks = 0 /\ DoneFunctions = 0 /\ DoneClasses = 0
         /\ DoneBlocks' = 0 /\ DoneFunctions' = 0 /\ DoneClasses' = 0
BY DEF Turn, Loop, Go, DoneIndex, DoneMembers, DoneBlocks, DoneFunctions, DoneClasses

LEMMA TurnEntries ==
  ASSUME NEW o, Turn("block_entries", o), Go, at \in Nat \ {0},
         members' = members, blocks' = blocks
  PROVE  /\ DoneIndex' = DoneIndex /\ DoneMembers' = DoneMembers
         /\ DoneBlocks \in Nat /\ DoneBlocks' = DoneBlocks + 1 /\ DoneBlocks' <= Len(blocks)
         /\ o = blocks[DoneBlocks']
         /\ DoneFunctions = 0 /\ DoneClasses = 0
         /\ DoneFunctions' = 0 /\ DoneClasses' = 0
BY DEF Turn, Loop, Go, DoneIndex, DoneMembers, DoneBlocks, DoneFunctions, DoneClasses

LEMMA TurnFunctions ==
  ASSUME NEW o, Turn("functions", o), Go, at \in Nat \ {0},
         members' = members, blocks' = blocks
  PROVE  /\ DoneIndex' = DoneIndex /\ DoneMembers' = DoneMembers /\ DoneBlocks' = DoneBlocks
         /\ DoneFunctions \in Nat /\ DoneFunctions' = DoneFunctions + 1
         /\ DoneFunctions' <= Len(FreeFunctions) /\ o = FreeFunctions[DoneFunctions']
         /\ DoneClasses = 0 /\ DoneClasses' = 0
BY DEF Turn, Loop, Go, DoneIndex, DoneMembers, DoneBlocks, DoneFunctions, DoneClasses,
       FreeFunctions

LEMMA TurnClasses ==
  ASSUME NEW o, Turn("classes", o), Go, at \in Nat \ {0},
         members' = members, blocks' = blocks
  PROVE  /\ DoneIndex' = DoneIndex /\ DoneMembers' = DoneMembers /\ DoneBlocks' = DoneBlocks
         /\ DoneFunctions' = DoneFunctions
         /\ DoneClasses \in Nat /\ DoneClasses' = DoneClasses + 1
         /\ DoneClasses' <= Len(ClassMembers) /\ o = ClassMembers[DoneClasses']
         /\ DoneMembers = Len(members) /\ DoneBlocks = Len(blocks)
BY DEF Turn, Loop, Go, DoneIndex, DoneMembers, DoneBlocks, DoneFunctions, DoneClasses,
       FreeFunctions, ClassMembers

\* The end of a loop is no turn.
LEMMA LoopEnds ==
  ASSUME IndexFacts, MembersInv, TurnsInv, EndLoop, at \in Nat \ {0},
         phase \in DOMAIN Following \cup Ends
  PROVE  Dones' = Dones
<1>1. /\ phase \in {"index", "blocks", "block_entries", "functions", "classes"}
      /\ phase' = Following[phase] /\ at' = 1 /\ at > Len(Loop[phase])
      /\ UNCHANGED <<index, members, blocks>>
  BY DEF EndLoop, Following, Ends
<1>2. FreeFunctions' = FreeFunctions /\ ClassMembers' = ClassMembers
  BY <1>1 DEF FreeFunctions, ClassMembers
<1> DEFINE a == Len(index)
           b == Len(members)
           c == Len(blocks)
           d == Len(FreeFunctions)
           e == Len(ClassMembers)
<1>3. a \in Nat /\ b \in Nat /\ c \in Nat /\ d \in Nat /\ e \in Nat
  BY LoopFacts
<1>4. /\ phase = "index" => at > a /\ phase' = "blocks"
      /\ phase = "blocks" => at > b /\ phase' = "block_entries"
      /\ phase = "block_entries" => at > c /\ phase' = "functions"
      /\ phase = "functions" => at > d /\ phase' = "classes"
      /\ phase = "classes" => at > e /\ phase' = "written"
  BY <1>1 DEF Loop, Following, FreeFunctions, ClassMembers
<1>5. /\ DoneIndex \in 0..a /\ DoneMembers \in 0..b /\ DoneBlocks \in 0..c
      /\ DoneFunctions \in 0..d /\ DoneClasses \in 0..e
  BY DEF TurnsInv
<1>6. a' = a /\ b' = b /\ c' = c /\ d' = d /\ e' = e
  BY <1>1, <1>2
<1>7. DoneIndex' = DoneIndex
  BY <1>1, <1>3, <1>4, <1>5, <1>6 DEF DoneIndex
<1>8. DoneMembers' = DoneMembers
  BY <1>1, <1>3, <1>4, <1>5, <1>6 DEF DoneMembers
<1>9. DoneBlocks' = DoneBlocks
  BY <1>1, <1>3, <1>4, <1>5, <1>6 DEF DoneBlocks
<1>10. DoneFunctions' = DoneFunctions
  BY <1>1, <1>3, <1>4, <1>5, <1>6 DEF DoneFunctions
<1>11. DoneClasses' = DoneClasses
  BY <1>1, <1>3, <1>4, <1>5, <1>6 DEF DoneClasses
<1>12. QED
  BY <1>7, <1>8, <1>9, <1>10, <1>11 DEF Dones

-----------------------------------------------------------------------------
(* What a step keeps                                                       *)

\* Whatever the program has done stays done.
LEMMA KeepTurns ==
  TurnsInv /\ UNCHANGED <<Dones, index, members, blocks>> => TurnsInv'
BY DEF TurnsInv, Dones, FreeFunctions, ClassMembers

LEMMA KeepIndexRead ==
  IndexRead /\ UNCHANGED <<index, members, DoneIndex>> => IndexRead'
BY DEF IndexRead

LEMMA KeepBlocksFound ==
  BlocksFound /\ UNCHANGED <<members, blocks, parsed, DoneMembers>> => BlocksFound'
BY DEF BlocksFound

LEMMA KeepReported ==
  BrokenReported /\ UNCHANGED <<index, complaints, parsed, ClassMembers, DoneClasses>>
    => BrokenReported'
BY DEF BrokenReported, Classes

LEMMA KeepClasses ==
  ClassesWritten /\ UNCHANGED <<index, output, blocks, DoneBlocks, ClassMembers, DoneClasses>>
    => ClassesWritten'
BY DEF ClassesWritten, Treated, Classes

LEMMA KeepBlocksWritten ==
  BlocksWritten /\ UNCHANGED <<index, members, output, blocks, make_funcs, DoneBlocks>>
    => BlocksWritten'
BY DEF BlocksWritten, Described, Owners

LEMMA KeepFunctions ==
  FunctionsWritten /\ UNCHANGED <<index, output, make_funcs, FreeFunctions, DoneFunctions>>
    => FunctionsWritten'
BY DEF FunctionsWritten

\* All that the invariant says, of a program that has not died.
Live ==
  /\ ReaderInv /\ phase # "dead"
  /\ TurnsInv /\ IndexRead /\ BlocksFound /\ BrokenReported
  /\ ClassesWritten /\ BlocksWritten /\ FunctionsWritten

LEMMA LiveFacts ==
  ASSUME Live
  PROVE  /\ IndexFacts /\ MembersInv /\ OutputInv
         /\ at \in Nat \ {0} /\ phase \in DOMAIN Following \cup Ends
         /\ IsSeq(members) /\ IsSeq(blocks) /\ IsSeq(complaints) /\ IsSeq(output)
BY DEF Live, ReaderInv, MembersInv, OutputInv, Worth

\* While the index is read there is nothing else.
LEMMA IndexTurnKeeps ==
  ASSUME Live, NEW o, Turn("index", o), Go, IsSeq(members'),
         UNCHANGED <<parsed, complaints, blocks, make_funcs, output>>
  PROVE  /\ TurnsInv' /\ BlocksFound' /\ BrokenReported'
         /\ ClassesWritten' /\ BlocksWritten' /\ FunctionsWritten'
<1>1. index' = index
  BY DEF Go
<1>2. /\ DoneIndex \in Nat /\ DoneIndex' = DoneIndex + 1 /\ DoneIndex' <= Len(index)
      /\ DoneMembers = 0 /\ DoneBlocks = 0 /\ DoneFunctions = 0 /\ DoneClasses = 0
      /\ DoneMembers' = 0 /\ DoneBlocks' = 0 /\ DoneFunctions' = 0 /\ DoneClasses' = 0
  BY LiveFacts, TurnIndex
<1>3. /\ Len(members') \in Nat /\ Len(FreeFunctions') \in Nat /\ Len(ClassMembers') \in Nat
  <2>1. IsSeq(FreeFunctions') /\ IsSeq(ClassMembers')
    BY CategoryOf DEF FreeFunctions, ClassMembers
  <2>2. \A s : IsSeq(s) => Len(s) \in Nat
    BY LenProperties DEF IsSeq
  <2>3. QED
    BY <2>1, <2>2
<1>4. DOMAIN blocks = 1..Len(blocks) /\ Len(blocks) \in Nat
  BY LiveFacts, LoopFacts
<1>5. TurnsInv'
  BY <1>1, <1>2, <1>3, <1>4 DEF TurnsInv
<1>6. BlocksFound'
  <2>1. DOMAIN blocks = {} /\ parsed = {}
    <3>1. 1..DoneMembers = {}
      BY <1>2
    <3>2. \A i \in DOMAIN blocks : \E k \in 1..DoneMembers : members[k] = blocks[i]
      BY DEF Live, BlocksFound
    <3>3. parsed = {members[k].name : k \in {k \in 1..DoneMembers : members[k].kind = "class"}}
      BY DEF Live, BlocksFound
    <3>4. QED
      BY <3>1, <3>2, <3>3
  <2>2. QED
    BY <1>2, <2>1 DEF BlocksFound, NamesApart
<1>7. BrokenReported'
  BY <1>1, <1>2 DEF Live, BrokenReported, Classes
<1>8. ClassesWritten'
  <2>1. \A c : Treated(c) = FALSE /\ Treated(c)' = FALSE
    BY <1>2 DEF Treated
  <2>2. QED
    BY <1>1, <2>1 DEF Live, ClassesWritten, Classes
<1>9. BlocksWritten'
  BY <1>1, <1>2 DEF Live, BlocksWritten
<1>10. FunctionsWritten'
  <2>1. \A s, f : {k \in 1..0 : s[k].name = f} = {}
    OBVIOUS
  <2>2. \A s, f : CountTo(s, 0, f) = 0
    BY <2>1, FS_EmptySet DEF CountTo
  <2>3. QED
    BY <1>1, <1>2, <2>2 DEF Live, FunctionsWritten
<1>11. QED
  BY <1>5, <1>6, <1>7, <1>8, <1>9, <1>10

\* One place more.
LEMMA NextPlace ==
  ASSUME NEW n \in Nat, NEW A \in SUBSET (1..n), NEW B,
         B \subseteq A \cup {n + 1}, A \subseteq B
  PROVE  Cardinality(B) = Cardinality(A) + (IF n + 1 \in B THEN 1 ELSE 0)
<1>1. IsFiniteSet(A) /\ Cardinality(A) \in Nat
  BY FiniteTo
<1>2. CASE n + 1 \in B
  <2>1. B = A \cup {n + 1} /\ n + 1 \notin A
    <3>1. n + 1 \notin 1..n
      OBVIOUS
    <3>2. QED
      BY <1>2, <3>1
  <2>2. QED
    BY <1>1, <1>2, <2>1, FS_AddElement
<1>3. CASE n + 1 \notin B
  <2>1. B = A
    BY <1>3
  <2>2. QED
    BY <1>1, <1>3, <2>1
<1>4. QED
  BY <1>2, <1>3

\* The next header, and the next turn.
LEMMA DefinedMore ==
  ASSUME NEW i, NEW n \in Nat, NEW f
  PROVE  /\ DefinedBy(i, n, f) \in Nat
         /\ DefinedBy(i, n + 1, f) = DefinedBy(i, n, f) + (IF Defines(i[n + 1], f) THEN 1 ELSE 0)
<1> DEFINE A == {j \in 1..n : Defines(i[j], f)}
           B == {j \in 1..(n + 1) : Defines(i[j], f)}
<1>1. /\ A \in SUBSET (1..n) /\ B \subseteq A \cup {n + 1} /\ A \subseteq B
      /\ n + 1 \in B <=> Defines(i[n + 1], f)
  OBVIOUS
<1> HIDE DEF A, B
<1>2. Cardinality(B) = Cardinality(A) + (IF n + 1 \in B THEN 1 ELSE 0)
  BY <1>1, NextPlace
<1>3. Cardinality(A) \in Nat
  BY <1>1, FiniteTo
<1>4. QED
  BY <1>1, <1>2, <1>3 DEF DefinedBy, A, B

LEMMA CountToMore ==
  ASSUME NEW s, NEW n \in Nat, NEW name
  PROVE  /\ CountTo(s, n, name) \in Nat
         /\ CountTo(s, n + 1, name) = CountTo(s, n, name) + (IF s[n + 1].name = name THEN 1 ELSE 0)
<1> DEFINE A == {k \in 1..n : s[k].name = name}
           B == {k \in 1..(n + 1) : s[k].name = name}
<1>1. /\ A \in SUBSET (1..n) /\ B \subseteq A \cup {n + 1} /\ A \subseteq B
      /\ n + 1 \in B <=> s[n + 1].name = name
  OBVIOUS
<1> HIDE DEF A, B
<1>2. Cardinality(B) = Cardinality(A) + (IF n + 1 \in B THEN 1 ELSE 0)
  BY <1>1, NextPlace
<1>3. Cardinality(A) \in Nat
  BY <1>1, FiniteTo
<1>4. QED
  BY <1>1, <1>2, <1>3 DEF CountTo, A, B

-----------------------------------------------------------------------------
(* Reading the index                                                       *)

\* What a compound adds to the members.
Adds(c, more) ==
  /\ IsSeq(more)
  /\ \A e \in ToSet(more) : e.kind = "function" => e.name \in FreeNames(index)
  /\ c.kind = "class" => more = <<c>>
  /\ c.kind # "class" => \A e \in ToSet(more) : e.kind # "class"
  /\ \A f : CountKind(more, "function", f) = IF Defines(c, f) THEN 1 ELSE 0

\* With it the next compound has been read.
LEMMA IndexMore ==
  ASSUME Live, NEW c, Turn("index", c), Go, NEW more, Adds(c, more), members' = members \o more
  PROVE  IndexRead'
<1> DEFINE n == DoneIndex
           m == Len(members)
           ms == members \o more
<1>1. /\ n \in Nat /\ DoneIndex' = n + 1 /\ n + 1 <= Len(index) /\ c = index[n + 1]
      /\ index' = index
  BY LiveFacts, TurnIndex DEF Go
<1>2. /\ IsSeq(members) /\ IsSeq(more)
      /\ m \in Nat /\ DOMAIN members = 1..m /\ DOMAIN index = 1..Len(index)
  BY LiveFacts, LoopFacts DEF Adds
<1>3. Len(more) \in Nat /\ DOMAIN more = 1..Len(more)
  BY <1>2, LenProperties DEF IsSeq
<1>4. /\ \A k \in DOMAIN members :
           /\ members[k].kind = "class" => \E j \in 1..n : index[j] = members[k]
           /\ members[k].kind = "function" => members[k].name \in FreeNames(index)
      /\ \A j \in 1..n :
           index[j].kind = "class" => \E k \in DOMAIN members : members[k] = index[j]
      /\ KindApart(members, "class")
      /\ \A f \in FreeNames(index) : CountKind(members, "function", f) = DefinedBy(index, n, f)
  BY DEF Live, IndexRead
<1>5. /\ \A i \in DOMAIN members : i \in DOMAIN ms /\ ms[i] = members[i]
      /\ \A i \in DOMAIN more : m + i \in DOMAIN ms /\ ms[m + i] = more[i]
  BY <1>2, ConcatElements
<1>6. Len(ms) = m + Len(more) /\ DOMAIN ms = 1..(m + Len(more))
  <2>1. IsSeq(ms) /\ Len(ms) = m + Len(more)
    BY <1>2, NameConcat
  <2>2. QED
    BY <2>1, LenProperties DEF IsSeq
<1> HIDE DEF n, m, ms
<1>7. ASSUME NEW k \in DOMAIN ms
      PROVE  \/ k \in DOMAIN members /\ ms[k] = members[k]
             \/ \E i \in DOMAIN more : k = m + i /\ ms[k] = more[i]
  <2>1. k \in 1..m \/ (k - m \in 1..Len(more) /\ k = m + (k - m))
    BY <1>2, <1>3, <1>6
  <2>2. QED
    BY <1>2, <1>3, <1>5, <2>1
<1>8. \A i \in DOMAIN more : more[i] \in ToSet(more)
  BY DEF ToSet
<1>9. ASSUME NEW i \in DOMAIN more, more[i].kind = "class" PROVE i = 1 /\ more[i] = c /\ c.kind = "class"
  <2>1. c.kind = "class" /\ more = <<c>>
    BY <1>8, <1>9 DEF Adds
  <2>2. Len(<<c>>) = 1 /\ <<c>>[1] = c
    OBVIOUS
  <2>3. QED
    BY <1>3, <2>1, <2>2
<1>10. ASSUME NEW k \in DOMAIN ms
       PROVE  /\ ms[k].kind = "class" => \E j \in 1..(n + 1) : index[j] = ms[k]
              /\ ms[k].kind = "function" => ms[k].name \in FreeNames(index)
  <2>1. CASE k \in DOMAIN members /\ ms[k] = members[k]
    BY <1>1, <1>4, <2>1
  <2>2. CASE \E i \in DOMAIN more : k = m + i /\ ms[k] = more[i]
    <3>1. PICK i \in DOMAIN more : k = m + i /\ ms[k] = more[i]
      BY <2>2
    <3>2. n + 1 \in 1..(n + 1)
      BY <1>1
    <3>3. ms[k].kind = "function" => ms[k].name \in FreeNames(index)
      BY <1>8, <3>1 DEF Adds
    <3>4. QED
      BY <1>1, <1>9, <3>1, <3>2, <3>3
  <2>3. QED
    BY <1>7, <2>1, <2>2
<1>11. ASSUME NEW j \in 1..(n + 1), index[j].kind = "class"
       PROVE  \E k \in DOMAIN ms : ms[k] = index[j]
  <2>1. CASE j \in 1..n
    BY <1>4, <1>5, <1>11, <2>1
  <2>2. CASE j = n + 1
    <3>1. more = <<c>>
      BY <1>1, <1>11, <2>2 DEF Adds
    <3>2. Len(<<c>>) = 1 /\ <<c>>[1] = c
      OBVIOUS
    <3>3. 1 \in DOMAIN more /\ more[1] = c
      BY <1>3, <3>1, <3>2
    <3>4. QED
      BY <1>1, <1>5, <2>2, <3>3
  <2>3. QED
    BY <1>1, <2>1, <2>2
<1>12. ASSUME NEW k \in DOMAIN members, members[k].kind = "class", c.kind = "class"
       PROVE  members[k].name # c.name
  <2>1. PICK j \in 1..n : index[j] = members[k]
    BY <1>4, <1>12
  <2>2. j \in DOMAIN index /\ n + 1 \in DOMAIN index /\ j # n + 1
    BY <1>1, <1>2
  <2>3. OwnNames(index[j]) \cap OwnNames(index[n + 1]) = {}
    BY <1>1, <1>12, <2>1, <2>2, LiveFacts, IndexCompounds
  <2>4. index[j].name \in OwnNames(index[j]) /\ index[n + 1].name \in OwnNames(index[n + 1])
    BY DEF OwnNames
  <2>5. QED
    BY <1>1, <2>1, <2>3, <2>4
<1>13. ASSUME NEW k \in DOMAIN ms, NEW l \in DOMAIN ms,
              ms[k].kind = "class", ms[l].kind = "class", ms[k].name = ms[l].name
       PROVE  k = l
  <2>1. \A i \in DOMAIN ms : ms[i].kind = "class" =>
          \/ i \in DOMAIN members /\ ms[i] = members[i]
          \/ i = m + 1 /\ ms[i] = c /\ c.kind = "class"
    BY <1>7, <1>9
  <2>2. QED
    BY <1>4, <1>12, <1>13, <2>1 DEF KindApart
<1>14. ASSUME NEW f \in FreeNames(index)
       PROVE  CountKind(ms, "function", f) = DefinedBy(index, n + 1, f)
  <2>1. CountKind(ms, "function", f)
          = CountKind(members, "function", f) + CountKind(more, "function", f)
    BY <1>2, CountKindConcat DEF ms
  <2>2. DefinedBy(index, n + 1, f)
          = DefinedBy(index, n, f) + (IF Defines(c, f) THEN 1 ELSE 0)
    BY <1>1, DefinedMore
  <2>3. QED
    BY <1>4, <2>1, <2>2 DEF Adds
<1>15. members' = ms
  BY DEF ms
<1>16. QED
  BY <1>1, <1>10, <1>11, <1>13, <1>14, <1>15 DEF IndexRead, KindApart

\* A compound with an object of its own, or a source file.
LEMMA IndexCompoundWrites ==
  ASSUME Live, NEW c \in ToSet(index), IndexCompound(c)
  PROVE  WriterInv'
<1> DEFINE more == IF c.kind = "file" THEN <<>> ELSE <<c>>
<1>1. /\ Turn("index", c) /\ Go /\ ~IsHeader(c)
      /\ UNCHANGED <<parsed, complaints, blocks, make_funcs, output>>
  BY DEF IndexCompound
<1>2. IsSeq(members) /\ CompoundFacts(c) /\ index' = index
  BY <1>1, LiveFacts, IndexCompounds DEF Go
<1>3. IsSeq(more) /\ ToSet(more) \subseteq {c}
  BY WordName, EmptyOf
<1>4. members' = members \o more
  <2>1. members' = IF c.kind = "file" THEN members ELSE Append(members, c)
    BY DEF IndexCompound
  <2>2. members \o <<>> = members /\ Append(members, c) = members \o <<c>>
    BY <1>2, SMTT(30) DEF IsSeq
  <2>3. QED
    BY <2>1, <2>2
<1>5. Adds(c, more)
  <2>1. c.kind # "function"
    BY <1>2 DEF CompoundFacts
  <2>2. \A e \in ToSet(more) : e.kind # "function" /\ (c.kind # "class" => e.kind # "class")
    BY <1>3, <2>1
  <2>3. c.kind = "class" => more = <<c>>
    OBVIOUS
  <2> HIDE DEF more
  <2>4. ASSUME NEW f PROVE CountKind(more, "function", f) = IF Defines(c, f) THEN 1 ELSE 0
    <3>1. CountKind(more, "function", f) = 0
      BY <1>3, <2>2, CountKindOther
    <3>2. ~Defines(c, f)
      BY <1>1 DEF Defines
    <3>3. QED
      BY <3>1, <3>2
  <2>5. QED
    BY <1>3, <2>2, <2>3, <2>4 DEF Adds
<1> HIDE DEF more
<1>6. IndexRead'
  BY <1>1, <1>4, <1>5, IndexMore
<1>7. IsSeq(members')
  BY <1>2, <1>3, <1>4, ConcatOf
<1>8. QED
  BY <1>1, <1>6, <1>7, IndexTurnKeeps DEF WriterInv

\* A header, after its members.
LEMMA IndexHeaderWrites ==
  ASSUME Live, NEW c \in ToSet(index), IndexHeader(c)
  PROVE  WriterInv'
<1> DEFINE mems == process_memberdefs(c.members)
           more == Append(mems, c)
<1>1. /\ Turn("index", c) /\ Go /\ IsHeader(c) /\ members' = members \o more
      /\ UNCHANGED <<parsed, complaints, blocks, make_funcs, output>>
  BY DEF IndexHeader
<1>2. /\ IsSeq(members) /\ CompoundFacts(c) /\ index' = index /\ c.kind = "file"
  BY <1>1, LiveFacts, IndexCompounds DEF Go, IsHeader
<1>3. IsSeq(mems) /\ ToSet(mems) \subseteq ToSet(c.members)
  BY <1>2, MembersOf DEF CompoundFacts
<1>4. \A f : CountKind(mems, "function", f) = IF Defines(c, f) THEN 1 ELSE 0
  BY <1>1, <1>2, HeaderFunctions
<1> HIDE DEF mems
<1>5. more = mems \o <<c>>
  BY <1>3, SMTT(30) DEF IsSeq
<1>6. IsSeq(<<c>>) /\ ToSet(<<c>>) = {c}
  BY WordName
<1>7. IsSeq(more) /\ ToSet(more) = ToSet(mems) \cup {c}
  BY <1>3, AppendOf
<1> DEFINE one == <<c>>
<1> HIDE DEF more, one
<1>8. Adds(c, more)
  <2>1. ASSUME NEW e \in ToSet(more), e.kind = "function" PROVE e.name \in FreeNames(index)
    <3>1. e \in ToSet(c.members)
      BY <1>2, <1>3, <1>7, <2>1
    <3>2. e \in {m \in ToSet(c.members) : m.kind = "function"}
      BY <2>1, <3>1
    <3>3. c \in {h \in ToSet(index) : IsHeader(h)}
      BY <1>1
    <3>4. QED
      BY <3>2, <3>3 DEF FreeNames
  <2>2. \A e \in ToSet(more) : e.kind # "class"
    BY <1>2, <1>3, <1>7 DEF CompoundFacts
  <2>3. ASSUME NEW f PROVE CountKind(more, "function", f) = IF Defines(c, f) THEN 1 ELSE 0
    <3>1. IsSeq(one) /\ \A e \in ToSet(one) : e.kind # "function"
      BY <1>2, <1>6 DEF one
    <3>2. CountKind(one, "function", f) = 0
      BY <3>1, CountKindOther
    <3>3. CountKind(mems \o one, "function", f)
            = CountKind(mems, "function", f) + CountKind(one, "function", f)
      BY <1>3, <3>1, CountKindConcat
    <3>4. more = mems \o one
      BY <1>5 DEF one
    <3>5. QED
      BY <1>4, <3>2, <3>3, <3>4
  <2>4. QED
    BY <1>2, <1>7, <2>1, <2>2, <2>3 DEF Adds
<1>9. IndexRead'
  BY <1>1, <1>8, IndexMore
<1>10. IsSeq(members')
  BY <1>1, <1>2, <1>7, ConcatOf
<1>11. QED
  BY <1>1, <1>9, <1>10, IndexTurnKeeps DEF WriterInv

-----------------------------------------------------------------------------
(* Finding the blocks                                                      *)

\* A complaint more.
LEMMA TimesMore ==
  ASSUME NEW s, IsSeq(s), NEW e, NEW x
  PROVE  /\ Times(x, s) \in Nat
         /\ Times(x, Append(s, e)) = Times(x, s) + (IF e = x THEN 1 ELSE 0)
<1> DEFINE n == Len(s)
           t == Append(s, e)
           A == {i \in DOMAIN s : s[i] = x}
           B == {i \in DOMAIN t : t[i] = x}
<1>1. n \in Nat /\ DOMAIN s = 1..n
  BY LenProperties DEF IsSeq
<1>2. /\ DOMAIN t = 1..(n + 1) /\ t[n + 1] = e
      /\ \A i \in 1..n : t[i] = s[i]
  <2>1. s \in Seq(ToSet(s) \cup {e}) /\ e \in ToSet(s) \cup {e}
    BY SeqMonotonic DEF IsSeq
  <2>2. /\ t \in Seq(ToSet(s) \cup {e}) /\ Len(t) = n + 1
        /\ t[n + 1] = e /\ \A i \in 1..n : t[i] = s[i]
    BY <2>1, AppendProperties
  <2> HIDE DEF t, n
  <2>3. DOMAIN t = 1..Len(t)
    BY <2>2, LenProperties
  <2>4. QED
    BY <2>2, <2>3
<1> HIDE DEF n, t
<1>3. A \in SUBSET (1..n)
  BY <1>1
<1>4. B \subseteq A \cup {n + 1} /\ A \subseteq B
  BY <1>1, <1>2
<1>5. n + 1 \in B <=> e = x
  BY <1>1, <1>2
<1> HIDE DEF A, B
<1>6. Cardinality(A) \in Nat /\ Cardinality(B) = Cardinality(A) + (IF n + 1 \in B THEN 1 ELSE 0)
  BY <1>1, <1>3, <1>4, FiniteTo, NextPlace
<1>7. QED
  BY <1>5, <1>6 DEF Times, A, B, t

\* While the blocks are found nothing is written.
LEMMA BlocksTurnKeeps ==
  ASSUME Live, NEW o, Turn("blocks", o), Go, IsSeq(blocks'),
         UNCHANGED <<members, make_funcs, output>>
  PROVE  /\ TurnsInv' /\ IndexRead' /\ ClassesWritten' /\ BlocksWritten' /\ FunctionsWritten'
<1>1. index' = index /\ members' = members
  BY DEF Go
<1>2. /\ DoneIndex' = DoneIndex
      /\ DoneMembers \in Nat /\ DoneMembers' = DoneMembers + 1 /\ DoneMembers' <= Len(members)
      /\ DoneBlocks = 0 /\ DoneFunctions = 0 /\ DoneClasses = 0
      /\ DoneBlocks' = 0 /\ DoneFunctions' = 0 /\ DoneClasses' = 0
  BY <1>1, LiveFacts, TurnBlocks
<1>3. FreeFunctions' = FreeFunctions /\ ClassMembers' = ClassMembers
  BY <1>1 DEF FreeFunctions, ClassMembers
<1>4. /\ Len(FreeFunctions) \in Nat /\ Len(ClassMembers) \in Nat /\ Len(members) \in Nat
  BY LiveFacts, LoopFacts
<1>5. Len(blocks') \in Nat
  BY LenProperties DEF IsSeq
<1>6. TurnsInv'
  <2>1. DoneIndex \in 0..Len(index)
    BY DEF Live, TurnsInv
  <2>2. QED
    BY <1>1, <1>2, <1>3, <1>4, <1>5, <2>1 DEF TurnsInv
<1>7. IndexRead'
  BY <1>1, <1>2, KeepIndexRead DEF Live
<1>8. ClassesWritten'
  <2>1. \A c : Treated(c) = FALSE /\ Treated(c)' = FALSE
    BY <1>2 DEF Treated
  <2>2. QED
    BY <1>1, <2>1 DEF Live, ClassesWritten, Classes
<1>9. BlocksWritten'
  BY <1>1, <1>2 DEF Live, BlocksWritten
<1>10. FunctionsWritten'
  BY <1>1, <1>2, <1>3, KeepFunctions DEF Live
<1>11. QED
  BY <1>6, <1>7, <1>8, <1>9, <1>10

\* Nothing is asked of what is no class.
LEMMA PassOverWrites ==
  ASSUME Live, NEW o, PassOver(o)
  PROVE  WriterInv'
<1> DEFINE n == DoneMembers
<1>1. /\ Turn("blocks", o) /\ o.kind # "class" /\ Go
      /\ UNCHANGED <<members, parsed, complaints, blocks, make_funcs, output>>
  BY DEF PassOver
<1>2. /\ n \in Nat /\ DoneMembers' = n + 1 /\ o = members[n + 1]
      /\ DoneClasses' = DoneClasses /\ index' = index
  BY <1>1, LiveFacts, TurnBlocks DEF Go
<1>3. ClassMembers' = ClassMembers
  BY <1>1 DEF ClassMembers
<1>4. BrokenReported'
  BY <1>1, <1>2, <1>3, KeepReported DEF Live
<1>5. IsSeq(blocks')
  BY <1>1, LiveFacts
<1>6. BlocksFound'
  <2>1. /\ parsed = {members[k].name : k \in {k \in 1..n : members[k].kind = "class"}}
        /\ \A k \in 1..n : members[k].kind = "class" =>
             /\ members[k].xml \in {"ok", "broken"}
             /\ members[k].xml = "ok" /\ HasMake(members[k]) => members[k] \in ToSet(blocks)
        /\ \A i \in DOMAIN blocks :
             /\ \E k \in 1..n : members[k] = blocks[i]
             /\ blocks[i].kind = "class" /\ blocks[i].xml = "ok"
        /\ NamesApart(blocks)
    BY DEF Live, BlocksFound
  <2> HIDE DEF n
  <2>2. \A k \in 1..n : k \in 1..(n + 1)
    BY <1>2
  <2>3. \A k \in 1..(n + 1) : members[k].kind = "class" => k \in 1..n
    BY <1>1, <1>2
  <2>4. {k \in 1..(n + 1) : members[k].kind = "class"} = {k \in 1..n : members[k].kind = "class"}
    BY <2>2, <2>3
  <2>5. QED
    BY <1>1, <1>2, <2>1, <2>2, <2>3, <2>4 DEF BlocksFound
<1>7. QED
  BY <1>1, <1>4, <1>5, <1>6, BlocksTurnKeeps DEF WriterInv

\* A class is read when it is found, for the first time.
LEMMA ClassFound ==
  ASSUME Live, NEW n \in Nat, n = DoneMembers, n + 1 <= Len(members),
         NEW c, c = members[n + 1], c.kind = "class"
  PROVE  /\ c \in Classes /\ c.name \notin parsed
         /\ {members[k].name : k \in {k \in 1..(n + 1) : members[k].kind = "class"}}
              = parsed \cup {c.name}
         /\ \A i \in DOMAIN blocks : blocks[i].name # c.name
<1>1. IsSeq(members) /\ DOMAIN members = 1..Len(members) /\ Len(members) \in Nat
  BY LiveFacts, LoopFacts
<1>2. n + 1 \in DOMAIN members /\ \A k \in 1..n : k \in DOMAIN members /\ k # n + 1
  BY <1>1
<1>3. c \in Classes
  <2>1. c \in ToSet(members)
    BY <1>2 DEF ToSet
  <2>2. QED
    BY <2>1, LiveFacts DEF MembersInv, Classes
<1>4. \A k \in 1..n : members[k].kind = "class" => members[k].name # c.name
  BY <1>2 DEF Live, IndexRead, KindApart
<1>5. parsed = {members[k].name : k \in {k \in 1..n : members[k].kind = "class"}}
  BY DEF Live, BlocksFound
<1>6. {k \in 1..(n + 1) : members[k].kind = "class"}
        = {k \in 1..n : members[k].kind = "class"} \cup {n + 1}
  OBVIOUS
<1>7. {members[k].name : k \in {k \in 1..(n + 1) : members[k].kind = "class"}}
        = parsed \cup {c.name}
  BY <1>5, <1>6
<1>8. \A i \in DOMAIN blocks :
        blocks[i].kind = "class" /\ \E k \in 1..n : members[k] = blocks[i]
  BY DEF Live, BlocksFound
<1>9. QED
  BY <1>3, <1>4, <1>5, <1>7, <1>8

\* A class that is broken is complained of, and one that is ok and has a make
\* function is a block.
LEMMA FindBlockWrites ==
  ASSUME Live, NEW c, FindBlock(c)
  PROVE  WriterInv'
<1> DEFINE n == DoneMembers
<1>1. SUFFICES ASSUME phase' # "dead" PROVE WriterInv'
  BY DEF WriterInv
<1>2. /\ Turn("blocks", c) /\ c.kind = "class" /\ CheckParsed(c) /\ Go
      /\ UNCHANGED <<members, make_funcs, output>>
      /\ \/ c.xml = "broken" /\ blocks' = blocks
         \/ c.xml = "ok" /\ blocks' = IF HasMake(c) THEN Append(blocks, c) ELSE blocks
  BY <1>1 DEF FindBlock, Die
<1>3. /\ n \in Nat /\ DoneMembers' = n + 1 /\ n + 1 <= Len(members) /\ c = members[n + 1]
      /\ DoneClasses = 0 /\ DoneClasses' = 0 /\ index' = index
  BY <1>2, LiveFacts, TurnBlocks DEF Go
<1>4. ClassMembers' = ClassMembers /\ Classes' = Classes
  BY <1>2, <1>3 DEF ClassMembers, Classes
<1>5. /\ c \in Classes /\ c.name \notin parsed
      /\ {members[k].name : k \in {k \in 1..(n + 1) : members[k].kind = "class"}}
           = parsed \cup {c.name}
      /\ \A i \in DOMAIN blocks : blocks[i].name # c.name
  BY <1>2, <1>3, ClassFound
<1>6. parsed' = parsed \cup {c.name}
  BY <1>2 DEF CheckParsed
<1>7. IsSeq(blocks) /\ IsSeq(complaints)
  BY LiveFacts
<1>8. IsSeq(blocks')
  BY <1>2, <1>7, AppendOf
<1>9. BlocksFound'
  <2>1. /\ \A k \in 1..n : members[k].kind = "class" =>
             /\ members[k].xml \in {"ok", "broken"}
             /\ members[k].xml = "ok" /\ HasMake(members[k]) => members[k] \in ToSet(blocks)
        /\ \A i \in DOMAIN blocks :
             /\ \E k \in 1..n : members[k] = blocks[i]
             /\ blocks[i].kind = "class" /\ blocks[i].xml = "ok"
        /\ NamesApart(blocks)
    BY DEF Live, BlocksFound
  <2> HIDE DEF n
  <2>2. /\ ToSet(blocks) \subseteq ToSet(blocks')
        /\ c.xml = "ok" /\ HasMake(c) => c \in ToSet(blocks')
    <3>1. ToSet(Append(blocks, c)) = ToSet(blocks) \cup {c}
      BY <1>7, AppendOf
    <3>2. \/ blocks' = blocks /\ ~(c.xml = "ok" /\ HasMake(c))
          \/ blocks' = Append(blocks, c)
      BY <1>2
    <3>3. CASE blocks' = blocks /\ ~(c.xml = "ok" /\ HasMake(c))
      BY <3>3
    <3>4. CASE blocks' = Append(blocks, c)
      BY <3>1, <3>4
    <3>5. QED
      BY <3>2, <3>3, <3>4
  <2>3. ASSUME NEW i \in DOMAIN blocks'
        PROVE  \/ i \in DOMAIN blocks /\ blocks'[i] = blocks[i]
               \/ i = Len(blocks) + 1 /\ blocks'[i] = c /\ c.xml = "ok"
    <3>1. CASE blocks' = blocks
      BY <3>1
    <3>2. CASE blocks' = Append(blocks, c) /\ c.xml = "ok"
      <4> DEFINE S == ToSet(blocks) \cup {c}
      <4>1. blocks \in Seq(S) /\ c \in S
        BY <1>7, SeqMonotonic DEF IsSeq
      <4>2. /\ blocks' \in Seq(S) /\ Len(blocks') = Len(blocks) + 1 /\ Len(blocks) \in Nat
            /\ blocks'[Len(blocks) + 1] = c /\ \A j \in 1..Len(blocks) : blocks'[j] = blocks[j]
        BY <3>2, <4>1, AppendProperties, LenProperties
      <4>3. DOMAIN blocks' = 1..(Len(blocks) + 1) /\ DOMAIN blocks = 1..Len(blocks)
        BY <4>1, <4>2, LenProperties
      <4>4. i \in 1..Len(blocks) \/ i = Len(blocks) + 1
        BY <4>2, <4>3
      <4>5. QED
        BY <3>2, <4>2, <4>3, <4>4
    <3>3. QED
      BY <1>2, <3>1, <3>2
  <2>4. \A k \in 1..n : k \in 1..(n + 1)
    BY <1>3
  <2>5. n + 1 \in 1..(n + 1) /\ \A k \in 1..(n + 1) : k \in 1..n \/ k = n + 1
    BY <1>3
  <2>6. parsed' = {members[k].name : k \in {k \in 1..(n + 1) : members[k].kind = "class"}}
    BY <1>5, <1>6
  <2>7. \A k \in 1..(n + 1) : members[k].kind = "class" =>
          /\ members[k].xml \in {"ok", "broken"}
          /\ members[k].xml = "ok" /\ HasMake(members[k]) => members[k] \in ToSet(blocks')
    BY <1>2, <1>3, <2>1, <2>2, <2>5
  <2>8. \A i \in DOMAIN blocks' :
          /\ \E k \in 1..(n + 1) : members[k] = blocks'[i]
          /\ blocks'[i].kind = "class" /\ blocks'[i].xml = "ok"
    BY <1>2, <1>3, <2>1, <2>3, <2>4, <2>5
  <2>9. NamesApart(blocks)'
    BY <1>5, <2>1, <2>3 DEF NamesApart
  <2>10. QED
    BY <1>2, <1>3, <2>6, <2>7, <2>8, <2>9 DEF BlocksFound
<1>10. BrokenReported'
  <2>1. ASSUME NEW d \in Classes, d.xml = "broken"
        PROVE  /\ Times(<<"xml", d.name>>, complaints')
                    = (IF d.name \in parsed' THEN 1 ELSE 0)
               /\ Times(<<"class", d.name>>, complaints') = 0
    <3>1. /\ Times(<<"xml", d.name>>, complaints) = (IF d.name \in parsed THEN 1 ELSE 0)
          /\ Times(<<"class", d.name>>, complaints) = 0
      BY <1>3, <2>1 DEF Live, BrokenReported
    <3>2. complaints' = IF c.xml = "broken" THEN Append(complaints, <<"xml", c.name>>)
                        ELSE complaints
      BY <1>2, <1>5 DEF CheckParsed
    <3>3. d = c \/ d.name # c.name
      BY <1>5, LiveFacts, ClassesApart
    <3> DEFINE e == <<"xml", c.name>>
               x == <<"xml", d.name>>
               y == <<"class", d.name>>
    <3>4. e # y /\ (e = x <=> c.name = d.name)
      OBVIOUS
    <3> HIDE DEF e, x, y
    <3>5. /\ Times(x, Append(complaints, e)) = Times(x, complaints) + (IF e = x THEN 1 ELSE 0)
          /\ Times(y, Append(complaints, e)) = Times(y, complaints) + (IF e = y THEN 1 ELSE 0)
          /\ Times(x, complaints) \in Nat /\ Times(y, complaints) \in Nat
      BY <1>7, TimesMore
    <3>6. /\ Times(x, complaints) = (IF d.name \in parsed THEN 1 ELSE 0)
          /\ Times(y, complaints) = 0
          /\ complaints' = IF c.xml = "broken" THEN Append(complaints, e) ELSE complaints
      BY <3>1, <3>2 DEF e, x, y
    <3>7. /\ Times(x, complaints') = (IF d.name \in parsed' THEN 1 ELSE 0)
          /\ Times(y, complaints') = 0
      <4>1. CASE d = c
        BY <1>5, <1>6, <2>1, <3>4, <3>5, <3>6, <4>1
      <4>2. CASE d.name # c.name
        BY <1>6, <3>4, <3>5, <3>6, <4>2
      <4>3. QED
        BY <3>3, <4>1, <4>2
    <3>8. QED
      BY <3>7 DEF x, y
  <2>2. ~ \E k \in 1..0 : TRUE
    OBVIOUS
  <2>3. QED
    BY <1>3, <1>4, <2>1, <2>2 DEF BrokenReported
<1>11. QED
  BY <1>2, <1>8, <1>9, <1>10, BlocksTurnKeeps DEF WriterInv

-----------------------------------------------------------------------------
(* Writing the entries                                                     *)

\* Entries of other names change nothing.
LEMMA ClassMore ==
  ASSUME NEW c, NEW out, NEW es, IsSeq(out), IsSeq(es), NEW treated,
         ClassWritten(c, out, treated), \A n \in OwnNames(c) : Count(es, n) = 0
  PROVE  ClassWritten(c, out \o es, treated)
<1>1. \A n \in OwnNames(c) : Count(out \o es, n) = Count(out, n)
  <2> TAKE n \in OwnNames(c)
  <2>1. /\ Count(out \o es, n) = Count(out, n) + Count(es, n)
        /\ Count(out, n) \in Nat
    BY CountConcat, CountNat
  <2>2. Count(es, n) = 0
    OBVIOUS
  <2>3. QED
    BY <2>1, <2>2
<1>2. /\ c.name \in OwnNames(c)
      /\ \A m \in ToSet(c.members) : m.kind = "function" => method_name(c, m) \in OwnNames(c)
  BY DEF OwnNames
<1>3. QED
  BY <1>1, <1>2 DEF ClassWritten

LEMMA BlockMore ==
  ASSUME NEW b, NEW out, NEW es, IsSeq(out), IsSeq(es), NEW texts,
         BlockWritten(b, out, texts),
         Count(es, b.name) = 0, Count(es, make_name(b.name)) = 0
  PROVE  BlockWritten(b, out \o es, texts)
<1>1. ToSet(out \o es) = ToSet(out) \cup ToSet(es)
  BY ConcatOf
<1>2. \A e \in ToSet(es) : e.name # b.name /\ e.name # make_name(b.name)
  BY CountNone
<1>3. /\ Count(out \o es, make_name(b.name))
           = Count(out, make_name(b.name)) + Count(es, make_name(b.name))
      /\ Count(out, make_name(b.name)) \in Nat
  BY CountConcat, CountNat
<1>4. QED
  BY <1>1, <1>2, <1>3 DEF BlockWritten

\* While the entries are made the members are done with.
LEMMA WritingKeeps ==
  ASSUME Live, index' = index,
         UNCHANGED <<members, blocks, DoneIndex, DoneMembers>>,
         DoneBlocks' \in 0..Len(blocks), DoneFunctions' \in 0..Len(FreeFunctions),
         DoneClasses' \in 0..Len(ClassMembers)
  PROVE  /\ TurnsInv' /\ IndexRead'
         /\ parsed' = parsed => BlocksFound'
         /\ UNCHANGED <<parsed, complaints, DoneClasses>> => BrokenReported'
         /\ FreeFunctions' = FreeFunctions /\ ClassMembers' = ClassMembers
         /\ Classes' = Classes
<1>1. FreeFunctions' = FreeFunctions /\ ClassMembers' = ClassMembers /\ Classes' = Classes
  BY DEF FreeFunctions, ClassMembers, Classes
<1>2. TurnsInv'
  BY <1>1 DEF Live, TurnsInv
<1>3. IndexRead'
  BY KeepIndexRead DEF Live
<1>4. parsed' = parsed => BlocksFound'
  BY KeepBlocksFound DEF Live
<1>5. UNCHANGED <<parsed, complaints, DoneClasses>> => BrokenReported'
  BY <1>1, KeepReported DEF Live
<1>6. QED
  BY <1>1, <1>2, <1>3, <1>4, <1>5

\* A block, and the make function that it needs.
LEMMA BlockFacts ==
  ASSUME Live, NEW b \in ToSet(blocks)
  PROVE  b \in Classes /\ b.xml = "ok" /\ b.kind = "class" /\ CompoundFacts(b) /\ IsName(b.name)
<1>1. b \in Classes /\ b.xml = "ok"
  BY LiveFacts DEF MembersInv, IsBlock
<1>2. QED
  BY <1>1, LiveFacts, IndexCompounds DEF Classes, CompoundFacts

\* Its make function is outside the classes.
LEMMA MakeIsFree ==
  ASSUME Live, NEW b \in ToSet(blocks), EntryPossible(b)
  PROVE  /\ make_name(b.name) \in FreeNames(index)
         /\ "operator " \notin ToSet(make_name(b.name))
<1> DEFINE name == make_name(b.name)
           found == Named(members, "function", name)
<1>1. IsSeq(members)
  BY LiveFacts
<1>2. IsSeq(found) /\ ToSet(found) = These(members, "function", name)
  BY <1>1, NamedThese
<1>3. Len(found) = 1
  BY DEF EntryPossible
<1> HIDE DEF found
<1>4. found[1] \in ToSet(found)
  <2>1. found \in Seq(ToSet(found)) /\ 1 \in 1..Len(found)
    BY <1>2, <1>3 DEF IsSeq
  <2>2. QED
    BY <2>1, ElementOfSeq
<1>5. found[1] \in ToSet(members) /\ found[1].kind = "function" /\ found[1].name = name
  BY <1>2, <1>4 DEF These
<1>6. PICK k \in DOMAIN members : members[k] = found[1]
  BY <1>5 DEF ToSet
<1>7. name \in FreeNames(index)
  BY <1>5, <1>6 DEF Live, IndexRead
<1>8. b.kind = "class" /\ CompoundFacts(b) /\ IsName(b.name)
  BY BlockFacts
<1>9. "operator " \notin ToSet(b.name)
  BY <1>8 DEF CompoundFacts
<1>10. "operator " \notin ToSet(name)
  BY <1>8, <1>9, MakeNames
<1>11. QED
  BY <1>7, <1>10

\* A block's entries are the first of its names, and of its make function's.
LEMMA DocumentBlockWrites ==
  ASSUME Live, NEW b, DocumentBlock(b)
  PROVE  WriterInv'
<1> DEFINE n == DoneBlocks
           es == make_block_entry(b)
           make == make_name(b.name)
<1>1. /\ Turn("block_entries", b) /\ EntryPossible(b) /\ Go
      /\ make_funcs' = make_funcs \cup {make} /\ output' = output \o es
      /\ UNCHANGED <<members, parsed, complaints, blocks>>
  BY DEF DocumentBlock
<1>2. /\ DoneIndex' = DoneIndex /\ DoneMembers' = DoneMembers
      /\ n \in Nat /\ DoneBlocks' = n + 1 /\ n + 1 <= Len(blocks) /\ b = blocks[n + 1]
      /\ DoneFunctions = 0 /\ DoneClasses = 0
      /\ DoneFunctions' = 0 /\ DoneClasses' = 0 /\ index' = index
  BY <1>1, LiveFacts, TurnEntries DEF Go
<1>3. /\ IsSeq(members) /\ IsSeq(output) /\ Len(blocks) \in Nat /\ DOMAIN blocks = 1..Len(blocks)
      /\ Len(FreeFunctions) \in Nat /\ Len(ClassMembers) \in Nat
  BY LiveFacts, LoopFacts
<1>4. /\ TurnsInv' /\ IndexRead' /\ BlocksFound' /\ BrokenReported'
      /\ FreeFunctions' = FreeFunctions /\ ClassMembers' = ClassMembers /\ Classes' = Classes
  <2>1. n + 1 \in 0..Len(blocks) /\ 0 \in 0..Len(FreeFunctions) /\ 0 \in 0..Len(ClassMembers)
    BY <1>2, <1>3
  <2>2. DoneBlocks' \in 0..Len(blocks) /\ DoneFunctions' \in 0..Len(FreeFunctions)
        /\ DoneClasses' \in 0..Len(ClassMembers)
    BY <1>2, <2>1
  <2>3. /\ UNCHANGED <<members, blocks, DoneIndex, DoneMembers>> /\ parsed' = parsed
        /\ UNCHANGED <<parsed, complaints, DoneClasses>>
    BY <1>1, <1>2
  <2>4. QED
    BY <1>2, <2>2, <2>3, WritingKeeps
<1>5. n + 1 \in DOMAIN blocks /\ \A i \in 1..n : i \in DOMAIN blocks /\ i # n + 1
  BY <1>2, <1>3
<1>6. /\ b \in ToSet(blocks) /\ \A i \in 1..n : blocks[i] \in ToSet(blocks)
  BY <1>2, <1>5 DEF ToSet
<1>7. b \in Classes /\ b.xml = "ok" /\ b.kind = "class" /\ CompoundFacts(b) /\ IsName(b.name)
  BY <1>6, BlockFacts
<1>8. make \in FreeNames(index) /\ "operator " \notin ToSet(make)
  BY <1>1, <1>6, MakeIsFree
<1>9. \A c \in Classes : OwnNames(c) \cap FreeNames(index) = {}
  BY LiveFacts, IndexCompounds
<1>10. \A i \in 1..n : blocks[i].name # b.name
  <2>1. NamesApart(blocks)
    BY DEF Live, BlocksFound
  <2>2. QED
    BY <1>2, <1>5, <2>1 DEF NamesApart
<1>11. b.name \in OwnNames(b)
       /\ \A m \in ToSet(b.members) : m.kind = "function" => method_name(b, m) \in OwnNames(b)
  BY DEF OwnNames
<1>12. /\ IsSeq(es)
       /\ \A x : x \notin OwnNames(b) /\ x # make => Count(es, x) = 0
       /\ \A m \in ToSet(b.members) :
            m.kind = "function" /\ ~IsOperator(m) => Count(es, method_name(b, m)) = 1
       /\ b.described => Count(es, b.name) = 1
       /\ Count(es, make) = 1
       /\ \A e \in ToSet(es) :
            /\ e.name = b.name => e.params = <<>> /\ ToSet(e.text) = Described(b)
            /\ e.name = make => e.params = b.name /\ ToSet(e.text) = Described(b)
  <2>1. make \notin OwnNames(b)
    BY <1>7, <1>8, <1>9
  <2>2. QED
    BY <1>1, <1>3, <1>7, <2>1, BlockEntriesMade
<1> HIDE DEF n, es, make
<1>13. \A c \in Classes : c # b => \A x \in OwnNames(c) : Count(es, x) = 0
  <2> TAKE c \in Classes
  <2>1. make \notin OwnNames(c)
    BY <1>8, <1>9
  <2>2. c # b => OwnNames(c) \cap OwnNames(b) = {}
    BY <1>7, LiveFacts, ClassesApart
  <2>3. QED
    BY <1>12, <2>1, <2>2
<1>14. \A c \in Classes : Treated(c)' <=> (Treated(c) \/ c = b)
  <2>1. ~ \E k \in 1..DoneClasses : TRUE
    BY <1>2
  <2>2. ~ \E k \in 1..DoneClasses' : TRUE
    BY <1>2
  <2>3. \A c : Treated(c) <=> c.xml = "ok" /\ \E i \in 1..n : blocks[i] = c
    BY <2>1 DEF Treated, n
  <2>4. \A c : Treated(c)' <=> c.xml = "ok" /\ \E i \in 1..(n + 1) : blocks[i] = c
    BY <1>1, <1>2, <2>2 DEF Treated
  <2>5. n \in Nat
    BY <1>2
  <2>6. \A c : (\E i \in 1..(n + 1) : blocks[i] = c) <=> (\E i \in 1..n : blocks[i] = c) \/ c = b
    <3>1. n + 1 \in 1..(n + 1) /\ \A i \in 1..(n + 1) : i \in 1..n \/ i = n + 1
      BY <2>5
    <3>2. \A i \in 1..n : i \in 1..(n + 1)
      BY <2>5
    <3>3. b = blocks[n + 1]
      BY <1>2
    <3>4. QED
      BY <3>1, <3>2, <3>3
  <2>7. QED
    BY <1>7, <2>3, <2>4, <2>6
<1>15. ~Treated(b)
  <2>1. ~ \E k \in 1..DoneClasses : TRUE
    BY <1>2
  <2>2. QED
    BY <1>10, <2>1 DEF Treated, n
<1>16. \A c \in Classes : ClassWritten(c, output, Treated(c))
  BY DEF Live, ClassesWritten
<1>17. \A x \in OwnNames(b) : Count(output, x) = 0
  BY <1>7, <1>15, <1>16 DEF ClassWritten
<1>18. ClassesWritten'
  <2>1. ASSUME NEW c \in Classes PROVE ClassWritten(c, output', Treated(c)')
    <3>1. CASE c # b
      <4>1. ClassWritten(c, output \o es, Treated(c))
        BY <1>3, <1>12, <1>13, <1>16, <3>1, ClassMore
      <4>2. Treated(c)' <=> Treated(c)
        BY <1>14, <3>1
      <4>3. QED
        BY <1>1, <4>1, <4>2 DEF ClassWritten, es
    <3>2. CASE c = b
      <4>1. \A x \in OwnNames(b) : Count(output \o es, x) = Count(es, x)
        <5> TAKE x \in OwnNames(b)
        <5>1. Count(output \o es, x) = Count(output, x) + Count(es, x) /\ Count(es, x) \in Nat
          BY <1>3, <1>12, CountConcat, CountNat
        <5>2. Count(output, x) = 0
          BY <1>17
        <5>3. QED
          BY <5>1, <5>2
      <4>2. Treated(c)'
        BY <1>7, <1>14, <3>2
      <4>3. output' = output \o es
        BY <1>1 DEF es
      <4>4. QED
        BY <1>11, <1>12, <3>2, <4>1, <4>2, <4>3 DEF ClassWritten
    <3>3. QED
      BY <3>1, <3>2
  <2>2. QED
    BY <1>4, <2>1 DEF ClassesWritten
<1>19. /\ make_funcs = {make_name(blocks[i].name) : i \in 1..n}
       /\ make_funcs \subseteq FreeNames(index)
       /\ \A i \in 1..n : BlockWritten(blocks[i], output, Described(blocks[i]))
  BY DEF Live, BlocksWritten, n
<1>20. \A i \in 1..n : make_name(blocks[i].name) # make
  <2> TAKE i \in 1..n
  <2>1. IsName(blocks[i].name)
    BY <1>6, BlockFacts
  <2>2. blocks[i].name # b.name
    BY <1>10
  <2>3. QED
    BY <1>7, <2>1, <2>2, MakeNames DEF make
<1>21. Count(output, make) = 0
  <2>1. make \in FreeNames(index) \ make_funcs
    BY <1>8, <1>19, <1>20
  <2>2. Count(output, make) = CountTo(FreeFunctions, 0, make)
    BY <1>2, <1>8, <2>1 DEF Live, FunctionsWritten
  <2>3. {k \in 1..0 : FreeFunctions[k].name = make} = {}
    OBVIOUS
  <2>4. QED
    BY <2>2, <2>3, FS_EmptySet DEF CountTo
<1>22. BlockWritten(b, output \o es, Described(b))
  <2>1. Count(output \o es, make) = 1
    <3>1. Count(output \o es, make) = Count(output, make) + Count(es, make)
      BY <1>3, <1>12, CountConcat
    <3>2. QED
      BY <1>12, <1>21, <3>1
  <2>2. \A e \in ToSet(output) : e.name # b.name /\ e.name # make
    BY <1>3, <1>11, <1>17, <1>21, CountNone
  <2>3. ToSet(output \o es) = ToSet(output) \cup ToSet(es)
    BY <1>3, <1>12, ConcatOf
  <2>4. QED
    BY <1>12, <2>1, <2>2, <2>3 DEF BlockWritten, make
<1>23. \A i \in 1..n : BlockWritten(blocks[i], output \o es, Described(blocks[i]))
  <2> TAKE i \in 1..n
  <2>1. blocks[i] \in Classes
    BY <1>6, BlockFacts
  <2>2. blocks[i] # b
    BY <1>10
  <2>3. blocks[i].name \in OwnNames(blocks[i])
    BY DEF OwnNames
  <2>4. Count(es, blocks[i].name) = 0
    BY <1>13, <2>1, <2>2, <2>3
  <2>5. make_name(blocks[i].name) \in FreeNames(index)
    BY <1>19
  <2>6. make_name(blocks[i].name) \notin OwnNames(b) /\ make_name(blocks[i].name) # make
    BY <1>7, <1>9, <1>20, <2>5
  <2>7. Count(es, make_name(blocks[i].name)) = 0
    BY <1>12, <2>6
  <2>8. QED
    BY <1>3, <1>12, <1>19, <2>4, <2>7, BlockMore
<1>24. BlocksWritten'
  <2>1. n \in Nat /\ b = blocks[n + 1]
    BY <1>2
  <2>2. n + 1 \in 1..(n + 1) /\ \A i \in 1..(n + 1) : i \in 1..n \/ i = n + 1
    BY <2>1
  <2>3. \A i \in 1..n : i \in 1..(n + 1)
    BY <2>1
  <2>4. \A c : Described(c)' = Described(c)
    BY <1>1 DEF Described, Owners
  <2>5. make_funcs' = make_funcs \cup {make} /\ output' = output \o es
    BY <1>1 DEF make, es
  <2>6. make_funcs' = {make_name(blocks[i].name) : i \in 1..(n + 1)}
    BY <1>19, <2>1, <2>2, <2>3, <2>5 DEF make
  <2>7. make_funcs' \subseteq FreeNames(index)
    BY <1>8, <1>19, <2>5
  <2>8. \A i \in 1..(n + 1) : BlockWritten(blocks[i], output', Described(blocks[i]))
    BY <1>22, <1>23, <2>1, <2>2, <2>5
  <2>9. DoneBlocks' = n + 1 /\ blocks' = blocks /\ index' = index
    BY <1>1, <1>2
  <2>10. QED
    BY <2>4, <2>6, <2>7, <2>8, <2>9 DEF BlocksWritten
<1>25. FunctionsWritten'
  <2>1. ASSUME NEW f \in FreeNames(index) \ make_funcs', "operator " \notin ToSet(f)
        PROVE  Count(output', f) = CountTo(FreeFunctions, 0, f)
    <3>1. make_funcs' = make_funcs \cup {make} /\ output' = output \o es
      BY <1>1 DEF make, es
    <3>2. f \notin OwnNames(b) /\ f # make /\ f \notin make_funcs
      BY <1>7, <1>9, <2>1, <3>1
    <3>3. Count(es, f) = 0
      BY <1>12, <3>2
    <3>4. Count(output \o es, f) = Count(output, f) + Count(es, f) /\ Count(output, f) \in Nat
      BY <1>3, <1>12, CountConcat, CountNat
    <3>5. Count(output, f) = CountTo(FreeFunctions, 0, f)
      BY <1>2, <2>1, <3>2 DEF Live, FunctionsWritten
    <3>6. QED
      BY <3>1, <3>3, <3>4, <3>5
  <2>2. QED
    BY <1>2, <1>4, <2>1 DEF FunctionsWritten
<1>26. QED
  BY <1>4, <1>18, <1>24, <1>25 DEF WriterInv

\* Blocks are not disturbed by entries of names that are not theirs.
LEMMA BlocksStay ==
  ASSUME Live, NEW es, IsSeq(es), output' = output \o es,
         UNCHANGED <<index, members, blocks, make_funcs, DoneBlocks>>,
         \A name \in make_funcs : Count(es, name) = 0,
         \A i \in 1..DoneBlocks : Count(es, blocks[i].name) = 0
  PROVE  BlocksWritten'
<1>1. \A c : Described(c)' = Described(c)
  BY DEF Described, Owners
<1>2. /\ make_funcs = {make_name(blocks[i].name) : i \in 1..DoneBlocks}
      /\ make_funcs \subseteq FreeNames(index)
      /\ \A i \in 1..DoneBlocks : BlockWritten(blocks[i], output, Described(blocks[i]))
  BY DEF Live, BlocksWritten
<1>3. IsSeq(output)
  BY LiveFacts
<1>4. \A i \in 1..DoneBlocks : BlockWritten(blocks[i], output \o es, Described(blocks[i]))
  <2> TAKE i \in 1..DoneBlocks
  <2>1. Count(es, blocks[i].name) = 0 /\ Count(es, make_name(blocks[i].name)) = 0
    BY <1>2
  <2>2. QED
    BY <1>2, <1>3, <2>1, BlockMore
<1>5. QED
  BY <1>1, <1>2, <1>4 DEF BlocksWritten

\* The turn of a function adds its entry, unless it makes a block.
FunctionAdds(f, es) ==
  /\ IsSeq(es) /\ output' = output \o es
  /\ f.name \in FreeNames(index)
  /\ \A g : g # f.name => Count(es, g) = 0
  /\ f.name \in make_funcs => Count(es, f.name) = 0
  /\ f.name \notin make_funcs /\ "operator " \notin ToSet(f.name)
       => Count(es, f.name) = 1

LEMMA FunctionTurn ==
  ASSUME Live, NEW f, DocumentFunction(f)
  PROVE  \E es : FunctionAdds(f, es)
<1>1. Turn("functions", f) /\ Go /\ UNCHANGED <<members, blocks>>
  BY DEF DocumentFunction
<1>2. /\ IsSeq(members) /\ IsSeq(output) /\ IsSeq(FreeFunctions)
      /\ DOMAIN FreeFunctions = 1..Len(FreeFunctions) /\ Len(FreeFunctions) \in Nat
  BY LiveFacts, LoopFacts
<1>3. /\ DoneFunctions \in Nat /\ DoneFunctions' = DoneFunctions + 1
      /\ DoneFunctions' <= Len(FreeFunctions) /\ f = FreeFunctions[DoneFunctions']
  BY <1>1, LiveFacts, TurnFunctions
<1>4. f \in ToSet(FreeFunctions)
  <2>1. DoneFunctions' \in DOMAIN FreeFunctions
    BY <1>2, <1>3
  <2>2. QED
    BY <1>3, <2>1 DEF ToSet
<1>5. f \in ToSet(members) /\ f.kind = "function"
  BY <1>2, <1>4, CategoryOf DEF FreeFunctions
<1>6. f.name \in FreeNames(index)
  <2>1. PICK k \in DOMAIN members : members[k] = f
    BY <1>5 DEF ToSet
  <2>2. QED
    BY <1>5, <2>1 DEF Live, IndexRead
<1>7. f.name # <<>>
  BY <1>6, LiveFacts, FreeIsName DEF IsName
<1>8. CASE f.name \in make_funcs
  <2> DEFINE es == <<>>
  <2>1. output' = output /\ output = output \o es
    BY <1>2, <1>8 DEF DocumentFunction, IsSeq
  <2>2. IsSeq(es) /\ \A g : Count(es, g) = 0
    BY EmptyOf, CountEmpty
  <2> HIDE DEF es
  <2>3. FunctionAdds(f, es)
    BY <1>6, <1>8, <2>1, <2>2 DEF FunctionAdds
  <2>4. QED
    BY <2>3
<1>9. CASE f.name \notin make_funcs
  <2> DEFINE es == make_func_entry(f, f.name)
  <2>1. output' = output \o es
    BY <1>9 DEF DocumentFunction
  <2> DEFINE name == f.name
             text == combine_descriptions(f)
  <2>2. OneEntry(es, name, text, name)
    BY EntryOf DEF make_func_entry
  <2>3. name # <<>>
    BY <1>7
  <2> HIDE DEF es, name, text
  <2>4. /\ IsSeq(es)
        /\ \A g : g # name => Count(es, g) = 0
        /\ "operator " \notin ToSet(name) => Count(es, name) = 1
    <3>1. IsSeq(es)
      BY <2>2 DEF OneEntry
    <3>2. \A g : g # name => Count(es, g) = 0
      BY <2>2 DEF OneEntry
    <3>3. "operator " \notin ToSet(name) => Count(es, name) = 1
      BY <2>2, <2>3 DEF OneEntry
    <3>4. QED
      BY <3>1, <3>2, <3>3
  <2>5. FunctionAdds(f, es)
    BY <1>6, <1>9, <2>1, <2>4 DEF FunctionAdds, name
  <2>6. QED
    BY <2>5
<1>10. QED
  BY <1>8, <1>9

\* With it one turn more is counted.
LEMMA DocumentFunctionWrites ==
  ASSUME Live, NEW f, DocumentFunction(f)
  PROVE  WriterInv'
<1> DEFINE n == DoneFunctions
<1>1. /\ Turn("functions", f) /\ Go
      /\ UNCHANGED <<members, parsed, complaints, blocks, make_funcs>>
  BY DEF DocumentFunction
<1>2. /\ DoneIndex' = DoneIndex /\ DoneMembers' = DoneMembers /\ DoneBlocks' = DoneBlocks
      /\ n \in Nat /\ DoneFunctions' = n + 1 /\ n + 1 <= Len(FreeFunctions)
      /\ f = FreeFunctions[n + 1] /\ DoneClasses = 0 /\ DoneClasses' = 0 /\ index' = index
  BY <1>1, LiveFacts, TurnFunctions DEF Go
<1>3. /\ IsSeq(output) /\ Len(FreeFunctions) \in Nat /\ Len(ClassMembers) \in Nat
      /\ DOMAIN blocks = 1..Len(blocks) /\ Len(blocks) \in Nat
      /\ DoneBlocks \in 0..Len(blocks)
  BY LiveFacts, LoopFacts DEF Live, TurnsInv
<1>4. /\ TurnsInv' /\ IndexRead' /\ BlocksFound' /\ BrokenReported'
      /\ FreeFunctions' = FreeFunctions /\ ClassMembers' = ClassMembers /\ Classes' = Classes
  <2>1. n + 1 \in 0..Len(FreeFunctions) /\ 0 \in 0..Len(ClassMembers)
    BY <1>2, <1>3
  <2>2. DoneBlocks' \in 0..Len(blocks) /\ DoneFunctions' \in 0..Len(FreeFunctions)
        /\ DoneClasses' \in 0..Len(ClassMembers)
    BY <1>2, <1>3, <2>1
  <2>3. /\ UNCHANGED <<members, blocks, DoneIndex, DoneMembers>> /\ parsed' = parsed
        /\ UNCHANGED <<parsed, complaints, DoneClasses>>
    BY <1>1, <1>2
  <2>4. QED
    BY <1>2, <2>2, <2>3, WritingKeeps
<1>5. PICK es : FunctionAdds(f, es)
  BY FunctionTurn
<1>6. \A c \in Classes : OwnNames(c) \cap FreeNames(index) = {}
  BY LiveFacts, IndexCompounds
<1>7. \A c \in Classes : \A x \in OwnNames(c) : Count(es, x) = 0
  BY <1>5, <1>6 DEF FunctionAdds
<1>8. IsSeq(es) /\ output' = output \o es
  BY <1>5 DEF FunctionAdds
<1>9. ClassesWritten'
  <2>1. \A c : Treated(c)' <=> Treated(c)
    BY <1>1, <1>2, <1>4 DEF Treated
  <2>2. ASSUME NEW c \in Classes PROVE ClassWritten(c, output', Treated(c)')
    <3>1. ClassWritten(c, output, Treated(c))
      BY DEF Live, ClassesWritten
    <3>2. ClassWritten(c, output \o es, Treated(c))
      BY <1>3, <1>8, <1>7, <3>1, ClassMore
    <3>3. QED
      BY <1>8, <2>1, <3>2 DEF ClassWritten
  <2>3. QED
    BY <1>4, <2>2 DEF ClassesWritten
<1>10. BlocksWritten'
  <2>1. \A name \in make_funcs : Count(es, name) = 0
    BY <1>5 DEF FunctionAdds
  <2>2. ASSUME NEW i \in 1..DoneBlocks PROVE Count(es, blocks[i].name) = 0
    <3>1. blocks[i] \in ToSet(blocks)
      BY <1>3 DEF ToSet
    <3>2. blocks[i] \in Classes /\ blocks[i].name \in OwnNames(blocks[i])
      BY <3>1, BlockFacts DEF OwnNames
    <3>3. QED
      BY <1>7, <3>2
  <2>3. UNCHANGED <<index, members, blocks, make_funcs, DoneBlocks>>
    BY <1>1, <1>2
  <2>4. QED
    BY <1>8, <2>1, <2>2, <2>3, BlocksStay
<1>11. FunctionsWritten'
  <2>1. ASSUME NEW g \in FreeNames(index) \ make_funcs, "operator " \notin ToSet(g)
        PROVE  Count(output', g) = CountTo(FreeFunctions, n + 1, g)
    <3>1. Count(output, g) = CountTo(FreeFunctions, n, g)
      BY <2>1 DEF Live, FunctionsWritten
    <3>2. /\ CountTo(FreeFunctions, n, g) \in Nat
          /\ CountTo(FreeFunctions, n + 1, g)
               = CountTo(FreeFunctions, n, g) + (IF f.name = g THEN 1 ELSE 0)
      BY <1>2, CountToMore
    <3>3. Count(output \o es, g) = Count(output, g) + Count(es, g)
      BY <1>3, <1>8, CountConcat
    <3>4. Count(es, g) = IF f.name = g THEN 1 ELSE 0
      BY <1>5, <2>1 DEF FunctionAdds
    <3>5. QED
      BY <1>8, <3>1, <3>2, <3>3, <3>4
  <2>2. QED
    BY <1>1, <1>2, <1>4, <2>1 DEF FunctionsWritten
<1>12. QED
  BY <1>4, <1>9, <1>10, <1>11 DEF WriterInv

\* The turn of a class in the last loop: it has been read, and it is its only
\* turn.
LEMMA ClassTurnFacts ==
  ASSUME Live, NEW c, Turn("classes", c), Go, UNCHANGED <<members, blocks>>,
         NEW n, n = DoneClasses
  PROVE  /\ n \in Nat /\ DoneClasses' = n + 1 /\ c = ClassMembers[n + 1]
         /\ c \in Classes /\ c.name \in parsed /\ CompoundFacts(c)
         /\ \A k \in 1..n : ClassMembers[k] # c
         /\ DoneBlocks = Len(blocks) /\ DoneBlocks' = Len(blocks)
         /\ DoneFunctions' = DoneFunctions
         /\ TurnsInv' /\ IndexRead' /\ (parsed' = parsed => BlocksFound')
         /\ FreeFunctions' = FreeFunctions /\ ClassMembers' = ClassMembers
         /\ Classes' = Classes /\ index' = index
<1>1. /\ DoneIndex' = DoneIndex /\ DoneMembers' = DoneMembers /\ DoneBlocks' = DoneBlocks
      /\ DoneFunctions' = DoneFunctions
      /\ n \in Nat /\ DoneClasses' = n + 1 /\ n + 1 <= Len(ClassMembers)
      /\ c = ClassMembers[n + 1]
      /\ DoneMembers = Len(members) /\ DoneBlocks = Len(blocks) /\ index' = index
  BY LiveFacts, TurnClasses DEF Go
<1>2. /\ IsSeq(ClassMembers) /\ Len(ClassMembers) \in Nat
      /\ DOMAIN ClassMembers = 1..Len(ClassMembers)
      /\ DOMAIN members = 1..Len(members) /\ IsSeq(members)
      /\ Len(blocks) \in Nat /\ DoneFunctions \in 0..Len(FreeFunctions)
  BY LiveFacts, LoopFacts DEF Live, TurnsInv
<1>3. n + 1 \in DOMAIN ClassMembers /\ \A k \in 1..n : k \in DOMAIN ClassMembers /\ k # n + 1
  BY <1>1, <1>2
<1>4. c \in ToSet(members) /\ c.kind = "class"
  <2>1. c \in ToSet(ClassMembers)
    BY <1>1, <1>3 DEF ToSet
  <2>2. QED
    BY <1>2, <2>1, CategoryOf DEF ClassMembers
<1>5. c \in Classes
  BY <1>4, LiveFacts DEF MembersInv, Classes
<1>6. CompoundFacts(c)
  BY <1>5, LiveFacts, IndexCompounds DEF Classes
<1>7. c.name \in parsed
  <2>1. PICK k \in 1..Len(members) : members[k] = c
    BY <1>2, <1>4 DEF ToSet
  <2>2. parsed = {members[j].name : j \in {j \in 1..Len(members) : members[j].kind = "class"}}
    BY <1>1 DEF Live, BlocksFound
  <2>3. k \in {j \in 1..Len(members) : members[j].kind = "class"}
    BY <1>4, <2>1
  <2>4. QED
    BY <2>1, <2>2, <2>3
<1>8. \A k \in 1..n : ClassMembers[k] # c
  <2>1. KindApart(members, "class")
    BY DEF Live, IndexRead
  <2>2. NamesApart(ClassMembers)
    BY <1>2, <2>1, CategoryApart DEF ClassMembers
  <2>3. QED
    BY <1>1, <1>3, <2>2 DEF NamesApart
<1>9. /\ TurnsInv' /\ IndexRead' /\ (parsed' = parsed => BlocksFound')
      /\ FreeFunctions' = FreeFunctions /\ ClassMembers' = ClassMembers /\ Classes' = Classes
  <2>1. n + 1 \in 0..Len(ClassMembers) /\ Len(blocks) \in 0..Len(blocks)
    BY <1>1, <1>2
  <2>2. DoneBlocks' \in 0..Len(blocks) /\ DoneFunctions' \in 0..Len(FreeFunctions)
        /\ DoneClasses' \in 0..Len(ClassMembers)
    BY <1>1, <1>2, <2>1
  <2>3. UNCHANGED <<members, blocks, DoneIndex, DoneMembers>>
    BY <1>1
  <2>4. QED
    BY <1>1, <2>2, <2>3, WritingKeeps
<1>10. QED
  BY <1>1, <1>5, <1>6, <1>7, <1>8, <1>9

\* After its turn a class is treated if it could be read.
LEMMA TreatedMore ==
  ASSUME NEW n \in Nat, n = DoneClasses, DoneClasses' = n + 1,
         UNCHANGED <<blocks, DoneBlocks, ClassMembers>>
  PROVE  /\ \A d : Treated(d)' <=> (Treated(d) \/ (d.xml = "ok" /\ d = ClassMembers[n + 1]))
         /\ \A d : (\E k \in 1..DoneClasses' : ClassMembers'[k] = d)
                     <=> (\E k \in 1..DoneClasses : ClassMembers[k] = d)
                           \/ d = ClassMembers[n + 1]
<1>1. \A d : (\E k \in 1..(n + 1) : ClassMembers[k] = d)
               <=> (\E k \in 1..n : ClassMembers[k] = d) \/ d = ClassMembers[n + 1]
  <2>1. n + 1 \in 1..(n + 1) /\ \A k \in 1..(n + 1) : k \in 1..n \/ k = n + 1
    OBVIOUS
  <2>2. \A k \in 1..n : k \in 1..(n + 1)
    OBVIOUS
  <2>3. QED
    BY <2>1, <2>2
<1>2. \A d : (\E k \in 1..DoneClasses' : ClassMembers'[k] = d)
               <=> (\E k \in 1..DoneClasses : ClassMembers[k] = d) \/ d = ClassMembers[n + 1]
  BY <1>1
<1>3. \A d : (\E i \in 1..DoneBlocks' : blocks'[i] = d) <=> (\E i \in 1..DoneBlocks : blocks[i] = d)
  OBVIOUS
<1>4. QED
  BY <1>2, <1>3 DEF Treated

\* When a turn writes nothing of classes, what was true of them is.
LEMMA ClassesStay ==
  ASSUME Live, output' = output, Classes' = Classes,
         \A d \in Classes : Treated(d)' <=> Treated(d)
  PROVE  ClassesWritten'
<1>1. \A d \in Classes : ClassWritten(d, output, Treated(d))
  BY DEF Live, ClassesWritten
<1>2. \A d \in Classes : ClassWritten(d, output', Treated(d)')
  BY <1>1 DEF ClassWritten
<1>3. QED
  BY <1>2 DEF ClassesWritten

\* A block has had its turn.
LEMMA PassOverBlockWrites ==
  ASSUME Live, NEW c, PassOverBlock(c)
  PROVE  WriterInv'
<1> DEFINE n == DoneClasses
<1>1. /\ Turn("classes", c) /\ Go
      /\ UNCHANGED <<members, parsed, complaints, blocks, make_funcs, output>>
  BY DEF PassOverBlock
<1>2. UNCHANGED <<members, blocks>>
  BY <1>1
<1>3. /\ n \in Nat /\ DoneClasses' = n + 1 /\ c = ClassMembers[n + 1]
      /\ c \in Classes
      /\ DoneBlocks = Len(blocks) /\ DoneBlocks' = Len(blocks)
      /\ DoneFunctions' = DoneFunctions
      /\ TurnsInv' /\ IndexRead' /\ (parsed' = parsed => BlocksFound')
      /\ FreeFunctions' = FreeFunctions /\ ClassMembers' = ClassMembers
      /\ Classes' = Classes /\ index' = index
  BY <1>1, <1>2, ClassTurnFacts
<1>4. PICK i \in DOMAIN blocks : blocks[i].name = c.name
  BY DEF PassOverBlock
<1>5. blocks[i] \in ToSet(blocks) /\ i \in 1..DoneBlocks
  BY <1>3, LiveFacts, LoopFacts DEF ToSet
<1>6. blocks[i] \in Classes /\ blocks[i].xml = "ok"
  BY <1>5, BlockFacts
<1>7. blocks[i] = c
  BY <1>3, <1>4, <1>6, LiveFacts, ClassesApart
<1>8. Treated(c)
  BY <1>5, <1>6, <1>7 DEF Treated
<1>9. /\ \A d : Treated(d)' <=> (Treated(d) \/ (d.xml = "ok" /\ d = c))
      /\ \A d : (\E k \in 1..DoneClasses' : ClassMembers'[k] = d)
                  <=> (\E k \in 1..DoneClasses : ClassMembers[k] = d) \/ d = c
  BY <1>1, <1>3, TreatedMore
<1>10. ClassesWritten'
  BY <1>1, <1>3, <1>8, <1>9, ClassesStay
<1>11. BrokenReported'
  <2>1. ASSUME NEW d \in Classes, d.xml = "broken"
        PROVE  /\ Times(<<"xml", d.name>>, complaints') = (IF d.name \in parsed' THEN 1 ELSE 0)
               /\ Times(<<"class", d.name>>, complaints')
                    = (IF \E k \in 1..DoneClasses' : ClassMembers'[k] = d THEN 1 ELSE 0)
    <3>1. d # c
      BY <1>6, <1>7, <2>1
    <3>2. (\E k \in 1..DoneClasses' : ClassMembers'[k] = d)
            <=> (\E k \in 1..DoneClasses : ClassMembers[k] = d)
      BY <1>9, <3>1
    <3>3. /\ Times(<<"xml", d.name>>, complaints) = (IF d.name \in parsed THEN 1 ELSE 0)
          /\ Times(<<"class", d.name>>, complaints)
               = (IF \E k \in 1..DoneClasses : ClassMembers[k] = d THEN 1 ELSE 0)
      BY <2>1 DEF Live, BrokenReported
    <3>4. QED
      BY <1>1, <3>2, <3>3
  <2>2. QED
    BY <1>3, <2>1 DEF BrokenReported
<1>12. BlocksWritten'
  BY <1>1, <1>3, KeepBlocksWritten DEF Live
<1>13. FunctionsWritten'
  BY <1>1, <1>3, KeepFunctions DEF Live
<1>14. QED
  BY <1>1, <1>3, <1>10, <1>11, <1>12, <1>13 DEF WriterInv

\* A class that is no block gets its entries when it is its turn.
LEMMA ReadableClassWrites ==
  ASSUME Live, NEW c, DocumentClass(c), c.xml = "ok"
  PROVE  WriterInv'
<1> DEFINE n == DoneClasses
           text == combine_descriptions(c)
           es == make_class_entry(c, text)
<1>1. /\ Turn("classes", c) /\ Go /\ CheckParsed(c)
      /\ \A i \in DOMAIN blocks : blocks[i].name # c.name
      /\ output' = output \o es
      /\ UNCHANGED <<members, blocks, make_funcs>>
  BY DEF DocumentClass
<1>2. UNCHANGED <<members, blocks>>
  BY <1>1
<1>3. /\ n \in Nat /\ DoneClasses' = n + 1 /\ c = ClassMembers[n + 1]
      /\ c \in Classes /\ c.name \in parsed /\ CompoundFacts(c)
      /\ \A k \in 1..n : ClassMembers[k] # c
      /\ DoneBlocks = Len(blocks) /\ DoneBlocks' = Len(blocks)
      /\ DoneFunctions' = DoneFunctions
      /\ TurnsInv' /\ IndexRead' /\ (parsed' = parsed => BlocksFound')
      /\ FreeFunctions' = FreeFunctions /\ ClassMembers' = ClassMembers
      /\ Classes' = Classes /\ index' = index
  BY <1>1, <1>2, ClassTurnFacts
<1>4. parsed' = parsed /\ complaints' = complaints
  BY <1>1, <1>3 DEF CheckParsed
<1>5. /\ \A d : Treated(d)' <=> (Treated(d) \/ (d.xml = "ok" /\ d = c))
      /\ \A d : (\E k \in 1..DoneClasses' : ClassMembers'[k] = d)
                  <=> (\E k \in 1..DoneClasses : ClassMembers[k] = d) \/ d = c
  BY <1>1, <1>3, TreatedMore
<1>6. BrokenReported'
  <2>1. ASSUME NEW d \in Classes, d.xml = "broken"
        PROVE  /\ Times(<<"xml", d.name>>, complaints') = (IF d.name \in parsed' THEN 1 ELSE 0)
               /\ Times(<<"class", d.name>>, complaints')
                    = (IF \E k \in 1..DoneClasses' : ClassMembers'[k] = d THEN 1 ELSE 0)
    <3>1. (\E k \in 1..DoneClasses' : ClassMembers'[k] = d)
            <=> (\E k \in 1..DoneClasses : ClassMembers[k] = d)
      BY <1>5, <2>1
    <3>2. /\ Times(<<"xml", d.name>>, complaints) = (IF d.name \in parsed THEN 1 ELSE 0)
          /\ Times(<<"class", d.name>>, complaints)
               = (IF \E k \in 1..DoneClasses : ClassMembers[k] = d THEN 1 ELSE 0)
      BY <2>1 DEF Live, BrokenReported
    <3>3. QED
      BY <1>4, <3>1, <3>2
  <2>2. QED
    BY <1>3, <2>1 DEF BrokenReported
<1>7. c.kind = "class"
  BY <1>3 DEF Classes
<1>8. /\ IsSeq(es)
      /\ \A x : x \notin OwnNames(c) => Count(es, x) = 0
      /\ \A m \in ToSet(c.members) :
           m.kind = "function" /\ ~IsOperator(m) => Count(es, method_name(c, m)) = 1
      /\ text # <<>> => Count(es, c.name) = 1
  BY <1>3, <1>7, ClassEntries
<1>9. c.described => text # <<>>
  BY DEF combine_descriptions
<1>10. IsSeq(output) /\ DOMAIN blocks = 1..Len(blocks)
  BY LiveFacts, LoopFacts
<1>11. ~Treated(c)
  <2>1. \A i \in 1..DoneBlocks : blocks[i] # c
    BY <1>1, <1>3, <1>10
  <2>2. QED
    BY <1>3, <2>1 DEF Treated
<1> HIDE DEF n, text, es
<1>12. \A d \in Classes : ClassWritten(d, output, Treated(d))
  BY DEF Live, ClassesWritten
<1>13. \A x \in OwnNames(c) : Count(output, x) = 0
  BY <1>3, <1>11, <1>12 DEF ClassWritten
<1>14. output' = output \o es
  BY <1>1 DEF es, text
<1>15. ClassWritten(c, output', TRUE)
  <2>1. \A x \in OwnNames(c) : Count(output', x) = Count(es, x)
    <3> TAKE x \in OwnNames(c)
    <3>1. Count(output \o es, x) = Count(output, x) + Count(es, x) /\ Count(es, x) \in Nat
      BY <1>8, <1>10, CountConcat, CountNat
    <3>2. Count(output, x) = 0
      BY <1>13
    <3>3. QED
      BY <1>14, <3>1, <3>2
  <2>2. c.name \in OwnNames(c)
        /\ \A m \in ToSet(c.members) : m.kind = "function" => method_name(c, m) \in OwnNames(c)
    BY DEF OwnNames
  <2>3. QED
    BY <1>8, <1>9, <2>1, <2>2 DEF ClassWritten
<1>16. \A d \in Classes : d # c => \A x \in OwnNames(d) : Count(es, x) = 0
  BY <1>3, <1>8, LiveFacts, ClassesApart
<1>17. ClassesWritten'
  <2>1. ASSUME NEW d \in Classes PROVE ClassWritten(d, output', Treated(d)')
    <3>1. CASE d # c
      <4>1. ClassWritten(d, output \o es, Treated(d))
        BY <1>8, <1>10, <1>12, <1>16, <3>1, ClassMore
      <4>2. Treated(d)' <=> Treated(d)
        BY <1>5, <3>1
      <4>3. QED
        BY <1>14, <4>1, <4>2 DEF ClassWritten
    <3>2. CASE d = c
      <4>1. Treated(d)'
        BY <1>5, <3>2
      <4>2. QED
        BY <1>15, <3>2, <4>1 DEF ClassWritten
    <3>3. QED
      BY <3>1, <3>2
  <2>2. QED
    BY <1>3, <2>1 DEF ClassesWritten
<1>18. \A f \in FreeNames(index) : Count(es, f) = 0
  <2>1. OwnNames(c) \cap FreeNames(index) = {}
    BY <1>3, LiveFacts, IndexCompounds
  <2>2. QED
    BY <1>8, <2>1
<1>19. BlocksWritten'
  <2>1. make_funcs \subseteq FreeNames(index)
    BY DEF Live, BlocksWritten
  <2>2. \A name \in make_funcs : Count(es, name) = 0
    BY <1>18, <2>1
  <2>3. ASSUME NEW i \in 1..DoneBlocks PROVE Count(es, blocks[i].name) = 0
    <3>1. i \in DOMAIN blocks /\ blocks[i] \in ToSet(blocks)
      BY <1>3, <1>10 DEF ToSet
    <3>2. blocks[i] \in Classes /\ blocks[i] # c /\ blocks[i].name \in OwnNames(blocks[i])
      BY <1>1, <3>1, BlockFacts DEF OwnNames
    <3>3. QED
      BY <1>16, <3>2
  <2>4. UNCHANGED <<index, members, blocks, make_funcs, DoneBlocks>>
    BY <1>1, <1>3
  <2>5. QED
    BY <1>8, <1>14, <2>2, <2>3, <2>4, BlocksStay
<1>20. FunctionsWritten'
  <2>1. ASSUME NEW f \in FreeNames(index) PROVE Count(output', f) = Count(output, f)
    <3>1. Count(output \o es, f) = Count(output, f) + Count(es, f) /\ Count(output, f) \in Nat
      BY <1>8, <1>10, CountConcat, CountNat
    <3>2. QED
      BY <1>14, <1>18, <3>1
  <2>2. make_funcs' = make_funcs
    BY <1>1
  <2>3. QED
    BY <1>3, <2>1, <2>2 DEF Live, FunctionsWritten
<1>21. QED
  BY <1>3, <1>4, <1>6, <1>17, <1>19, <1>20 DEF WriterInv

\* A class that is broken is complained of again.
LEMMA BrokenClassWrites ==
  ASSUME Live, NEW c, DocumentClass(c), c.xml = "broken"
  PROVE  WriterInv'
<1> DEFINE n == DoneClasses
           e == <<"class", c.name>>
<1>1. /\ Turn("classes", c) /\ Go
      /\ parsed' = parsed \cup {c.name}
      /\ complaints' = complaints \o (IF c.name \in parsed THEN <<>> ELSE <<<<"xml", c.name>>>>)
                                  \o <<e>>
      /\ UNCHANGED <<members, blocks, make_funcs, output>>
  BY DEF DocumentClass
<1>2. UNCHANGED <<members, blocks>>
  BY <1>1
<1>3. /\ n \in Nat /\ DoneClasses' = n + 1 /\ c = ClassMembers[n + 1]
      /\ c \in Classes /\ c.name \in parsed
      /\ \A k \in 1..n : ClassMembers[k] # c
      /\ DoneBlocks = Len(blocks) /\ DoneBlocks' = Len(blocks)
      /\ DoneFunctions' = DoneFunctions
      /\ TurnsInv' /\ IndexRead' /\ (parsed' = parsed => BlocksFound')
      /\ FreeFunctions' = FreeFunctions /\ ClassMembers' = ClassMembers
      /\ Classes' = Classes /\ index' = index
  BY <1>1, <1>2, ClassTurnFacts
<1>4. IsSeq(complaints)
  BY LiveFacts
<1>5. parsed' = parsed
  BY <1>1, <1>3
<1>6. complaints' = Append(complaints, e)
  <2>1. complaints' = complaints \o <<>> \o <<e>>
    BY <1>1, <1>3
  <2>2. complaints \o <<>> = complaints
    BY <1>4 DEF IsSeq
  <2> HIDE DEF e
  <2>3. complaints \o <<e>> = Append(complaints, e)
    BY <1>4, SMTT(30) DEF IsSeq
  <2>4. QED
    BY <2>1, <2>2, <2>3
<1>7. /\ \A d : Treated(d)' <=> (Treated(d) \/ (d.xml = "ok" /\ d = c))
      /\ \A d : (\E k \in 1..DoneClasses' : ClassMembers'[k] = d)
                  <=> (\E k \in 1..DoneClasses : ClassMembers[k] = d) \/ d = c
  BY <1>1, <1>3, TreatedMore
<1>8. ClassesWritten'
  BY <1>1, <1>3, <1>7, ClassesStay
<1>9. BrokenReported'
  <2>1. ASSUME NEW d \in Classes, d.xml = "broken"
        PROVE  /\ Times(<<"xml", d.name>>, complaints') = (IF d.name \in parsed' THEN 1 ELSE 0)
               /\ Times(<<"class", d.name>>, complaints')
                    = (IF \E k \in 1..DoneClasses' : ClassMembers'[k] = d THEN 1 ELSE 0)
    <3> DEFINE x == <<"xml", d.name>>
               y == <<"class", d.name>>
    <3>1. /\ Times(x, complaints) = (IF d.name \in parsed THEN 1 ELSE 0)
          /\ Times(y, complaints)
               = (IF \E k \in 1..DoneClasses : ClassMembers[k] = d THEN 1 ELSE 0)
      BY <2>1 DEF Live, BrokenReported
    <3>2. e # x /\ (e = y <=> c.name = d.name)
      OBVIOUS
    <3>3. d = c <=> c.name = d.name
      BY <1>3, LiveFacts, ClassesApart
    <3> HIDE DEF e, x, y
    <3>4. /\ Times(x, Append(complaints, e)) = Times(x, complaints) + (IF e = x THEN 1 ELSE 0)
          /\ Times(y, Append(complaints, e)) = Times(y, complaints) + (IF e = y THEN 1 ELSE 0)
          /\ Times(x, complaints) \in Nat /\ Times(y, complaints) \in Nat
      BY <1>4, TimesMore
    <3>5. Times(x, complaints') = (IF d.name \in parsed' THEN 1 ELSE 0)
      BY <1>5, <1>6, <3>1, <3>2, <3>4
    <3>6. d = c => ~ \E k \in 1..DoneClasses : ClassMembers[k] = d
      BY <1>3
    <3>7. Times(y, complaints')
            = (IF \E k \in 1..DoneClasses' : ClassMembers'[k] = d THEN 1 ELSE 0)
      <4> DEFINE before == \E k \in 1..DoneClasses : ClassMembers[k] = d
                 after == \E k \in 1..DoneClasses' : ClassMembers'[k] = d
      <4>1. (after <=> before \/ d = c) /\ (d = c => ~before)
        BY <1>7, <3>6
      <4>2. Times(y, complaints) = (IF before THEN 1 ELSE 0)
        BY <3>1
      <4>3. complaints' = Append(complaints, e) /\ (e = y <=> d = c)
        BY <1>6, <3>2, <3>3
      <4> HIDE DEF before, after
      <4>4. Times(y, complaints') = (IF after THEN 1 ELSE 0)
        BY <3>4, <4>1, <4>2, <4>3
      <4>5. QED
        BY <4>4 DEF after
    <3>8. QED
      BY <3>5, <3>7 DEF x, y
  <2>2. QED
    BY <1>3, <2>1 DEF BrokenReported
<1>10. BlocksWritten'
  BY <1>1, <1>3, KeepBlocksWritten DEF Live
<1>11. FunctionsWritten'
  BY <1>1, <1>3, KeepFunctions DEF Live
<1>12. QED
  BY <1>3, <1>5, <1>8, <1>9, <1>10, <1>11 DEF WriterInv

-----------------------------------------------------------------------------
(* The inductive invariant                                                 *)

\* Nothing has been done at first.
LEMMA WriterInit == Init => WriterInv
<1> SUFFICES ASSUME Init PROVE WriterInv
  OBVIOUS
<1>1. /\ members = <<>> /\ blocks = <<>> /\ complaints = <<>> /\ output = <<>>
      /\ parsed = {} /\ make_funcs = {} /\ phase = "index" /\ at = 1 /\ index \in Indices
  BY DEF Init
<1>2. IndexFacts
  BY <1>1, IndexHolds
<1>3. MembersInv
  BY <1>1, EmptyOf DEF MembersInv
<1>4. /\ Len(index) \in Nat /\ Len(FreeFunctions) \in Nat /\ Len(ClassMembers) \in Nat
      /\ Len(members) = 0 /\ Len(blocks) = 0 /\ DOMAIN members = {} /\ DOMAIN blocks = {}
      /\ DOMAIN complaints = {} /\ DOMAIN output = {}
  BY <1>1, <1>2, <1>3, LoopFacts
<1>5. /\ DoneIndex = 0 /\ DoneMembers = 0 /\ DoneBlocks = 0
      /\ DoneFunctions = 0 /\ DoneClasses = 0
  BY <1>1 DEF DoneIndex, DoneMembers, DoneBlocks, DoneFunctions, DoneClasses
<1>6. TurnsInv
  BY <1>4, <1>5 DEF TurnsInv
<1>7. 1..0 = {} /\ Cardinality({}) = 0
  BY FS_EmptySet
<1>8. IndexRead
  <2>1. \A f : CountKind(members, "function", f) = 0
    <3> TAKE f
    <3>1. {i \in DOMAIN members : members[i].kind = "function" /\ members[i].name = f} = {}
      BY <1>4
    <3>2. QED
      BY <1>7, <3>1 DEF CountKind
  <2>2. \A f : DefinedBy(index, 0, f) = 0
    <3> TAKE f
    <3>1. {j \in 1..0 : Defines(index[j], f)} = {}
      BY <1>7
    <3>2. QED
      BY <1>7, <3>1 DEF DefinedBy
  <2>3. QED
    BY <1>4, <1>5, <1>7, <2>1, <2>2 DEF IndexRead, KindApart
<1>9. BlocksFound
  BY <1>1, <1>4, <1>5, <1>7 DEF BlocksFound, NamesApart
<1>10. BrokenReported
  <2>1. \A x : Times(x, complaints) = 0
    <3> TAKE x
    <3>1. {i \in DOMAIN complaints : complaints[i] = x} = {}
      BY <1>4
    <3>2. QED
      BY <1>7, <3>1 DEF Times
  <2>2. QED
    BY <1>1, <1>5, <1>7, <2>1 DEF BrokenReported
<1>11. \A n : Count(output, n) = 0
  BY <1>1, CountEmpty
<1>12. ClassesWritten
  BY <1>5, <1>7, <1>11 DEF ClassesWritten, ClassWritten, Treated
<1>13. BlocksWritten
  BY <1>1, <1>5, <1>7 DEF BlocksWritten
<1>14. FunctionsWritten
  <2>1. \A f : CountTo(FreeFunctions, 0, f) = 0
    <3> TAKE f
    <3>1. {k \in 1..0 : FreeFunctions[k].name = f} = {}
      BY <1>7
    <3>2. QED
      BY <1>7, <3>1 DEF CountTo
  <2>2. QED
    BY <1>5, <1>11, <2>1 DEF FunctionsWritten
<1>15. QED
  BY <1>6, <1>8, <1>9, <1>10, <1>12, <1>13, <1>14 DEF WriterInv

\* What does nothing but end a loop changes nothing.
LEMMA NothingWrites ==
  ASSUME Live, Dones' = Dones,
         UNCHANGED <<index, members, parsed, complaints, blocks, make_funcs, output>>
  PROVE  WriterInv'
<1>1. /\ DoneIndex' = DoneIndex /\ DoneMembers' = DoneMembers /\ DoneBlocks' = DoneBlocks
      /\ DoneFunctions' = DoneFunctions /\ DoneClasses' = DoneClasses
  BY DEF Dones
<1>2. FreeFunctions' = FreeFunctions /\ ClassMembers' = ClassMembers
  BY DEF FreeFunctions, ClassMembers
<1>3. TurnsInv' /\ IndexRead' /\ BlocksFound' /\ BrokenReported'
  BY <1>1, <1>2, KeepTurns, KeepIndexRead, KeepBlocksFound, KeepReported DEF Live
<1>4. ClassesWritten' /\ BlocksWritten' /\ FunctionsWritten'
  BY <1>1, <1>2, KeepClasses, KeepBlocksWritten, KeepFunctions DEF Live
<1>5. QED
  BY <1>3, <1>4 DEF WriterInv

\* Every turn of every loop keeps it.
LEMMA WriterStep == ReaderInv /\ WriterInv /\ [Next]_vars => WriterInv'
<1> SUFFICES ASSUME ReaderInv, WriterInv, [Next]_vars PROVE WriterInv'
  OBVIOUS
<1>1. CASE phase = "dead"
  <2>1. phase' = "dead"
    BY <1>1 DEF Next, IndexCompound, IndexHeader, IndexRaises, PassOver, FindBlock,
                DocumentFunction, PassOverBlock, DocumentClass, DocumentBlock, BlockRaises,
                EndLoop, Turn, Ends, vars
  <2>2. QED
    BY <2>1 DEF WriterInv
<1>2. CASE Live
  <2>1. ASSUME NEW c \in ToSet(index), IndexCompound(c) PROVE WriterInv'
    BY <1>2, <2>1, IndexCompoundWrites
  <2>2. ASSUME NEW c \in ToSet(index), IndexHeader(c) PROVE WriterInv'
    BY <1>2, <2>2, IndexHeaderWrites
  <2>3. ASSUME NEW c, IndexRaises(c) \/ BlockRaises(c) PROVE WriterInv'
    BY <2>3 DEF IndexRaises, BlockRaises, Die, WriterInv
  <2>4. ASSUME NEW o, PassOver(o) PROVE WriterInv'
    BY <1>2, <2>4, PassOverWrites
  <2>5. ASSUME NEW c, FindBlock(c) PROVE WriterInv'
    BY <1>2, <2>5, FindBlockWrites
  <2>6. ASSUME NEW b, DocumentBlock(b) PROVE WriterInv'
    BY <1>2, <2>6, DocumentBlockWrites
  <2>7. ASSUME NEW f, DocumentFunction(f) PROVE WriterInv'
    BY <1>2, <2>7, DocumentFunctionWrites
  <2>8. ASSUME NEW c, PassOverBlock(c) PROVE WriterInv'
    BY <1>2, <2>8, PassOverBlockWrites
  <2>9. ASSUME NEW c, DocumentClass(c) PROVE WriterInv'
    <3>1. c.xml = "ok" \/ c.xml = "broken"
      BY <2>9 DEF DocumentClass
    <3>2. QED
      BY <1>2, <2>9, <3>1, ReadableClassWrites, BrokenClassWrites
  <2>10. CASE EndLoop
    <3>1. Dones' = Dones
      BY <1>2, <2>10, LiveFacts, LoopEnds DEF Live
    <3>2. UNCHANGED <<index, members, parsed, complaints, blocks, make_funcs, output>>
      BY <2>10 DEF EndLoop
    <3>3. QED
      BY <1>2, <3>1, <3>2, NothingWrites
  <2>11. CASE UNCHANGED vars
    <3>1. UNCHANGED <<index, phase, at, members, parsed, complaints, blocks, make_funcs, output>>
      BY <2>11 DEF vars
    <3>2. Dones' = Dones
      BY <3>1 DEF Dones, DoneIndex, DoneMembers, DoneBlocks, DoneFunctions, DoneClasses,
                  FreeFunctions, ClassMembers
    <3>3. QED
      BY <1>2, <3>1, <3>2, NothingWrites
  <2>12. QED
    BY <2>1, <2>2, <2>3, <2>4, <2>5, <2>6, <2>7, <2>8, <2>9, <2>10, <2>11 DEF Next
<1>3. QED
  BY <1>1, <1>2 DEF WriterInv, Live

-----------------------------------------------------------------------------
(* What has been written                                                   *)

\* When the output is written every class has had its turn.
LEMMA EveryTurn ==
  ASSUME Live, phase = "written", NEW c \in Classes
  PROVE  /\ c.xml \in {"ok", "broken"} /\ c.name \in parsed
         /\ \E k \in 1..DoneClasses : ClassMembers[k] = c
         /\ c.xml = "ok" => Treated(c)
         /\ c.xml = "ok" /\ IsBlock(c) => \E i \in 1..DoneBlocks : blocks[i] = c
<1>1. /\ DoneIndex = Len(index) /\ DoneMembers = Len(members) /\ DoneBlocks = Len(blocks)
      /\ DoneClasses = Len(ClassMembers)
  BY DEF DoneIndex, DoneMembers, DoneBlocks, DoneClasses
<1>2. /\ DOMAIN index = 1..Len(index) /\ DOMAIN members = 1..Len(members)
      /\ DOMAIN blocks = 1..Len(blocks) /\ DOMAIN ClassMembers = 1..Len(ClassMembers)
      /\ IsSeq(members)
  BY LiveFacts, LoopFacts
<1>3. PICK j \in DOMAIN index : index[j] = c
  BY DEF Classes, ToSet
<1>4. c.kind = "class" /\ CompoundFacts(c)
  BY LiveFacts, IndexCompounds DEF Classes
<1>5. PICK k \in DOMAIN members : members[k] = c
  BY <1>1, <1>2, <1>3, <1>4 DEF Live, IndexRead
<1>6. /\ c.xml \in {"ok", "broken"}
      /\ c.xml = "ok" /\ HasMake(c) => c \in ToSet(blocks)
      /\ parsed = {members[i].name : i \in {i \in 1..Len(members) : members[i].kind = "class"}}
  BY <1>1, <1>2, <1>4, <1>5 DEF Live, BlocksFound
<1>7. c.name \in parsed
  <2>1. k \in {i \in 1..Len(members) : members[i].kind = "class"}
    BY <1>2, <1>4, <1>5
  <2>2. QED
    BY <1>5, <1>6, <2>1
<1>8. c \in ToSet(ClassMembers)
  <2>1. c \in ToSet(members)
    BY <1>5 DEF ToSet
  <2>2. QED
    BY <1>2, <1>4, <2>1, CategoryAll DEF ClassMembers
<1>9. \E i \in 1..DoneClasses : ClassMembers[i] = c
  BY <1>1, <1>2, <1>8 DEF ToSet
<1>10. c.xml = "ok" /\ IsBlock(c) => \E i \in 1..DoneBlocks : blocks[i] = c
  <2> SUFFICES ASSUME c.xml = "ok", IsBlock(c) PROVE \E i \in 1..DoneBlocks : blocks[i] = c
    OBVIOUS
  <2>1. HasMake(c)
    BY <1>4, BlockHasMake
  <2>2. c \in ToSet(blocks)
    BY <1>6, <2>1
  <2>3. QED
    BY <1>1, <1>2, <2>2 DEF ToSet
<1>11. QED
  BY <1>6, <1>7, <1>9, <1>10 DEF Treated

\* A block's entries, and those of its make function, are as they should be.
LEMMA BlockIsDocumented ==
  ASSUME Live, NEW c, BlockWritten(c, output, Described(c))
  PROVE  BlockDocumented(c)
<1> DEFINE make == make_name(c.name)
<1>1. Once(make)
  BY DEF BlockWritten, Once, Entries, Count
<1>2. ASSUME NEW i \in Entries(make) \cup Entries(c.name)
      PROVE  /\ output[i].name = c.name => output[i].params = <<>>
             /\ output[i].name # c.name => output[i].params = c.name
             /\ ToSet(output[i].text) = Described(c)
  <2>1. output[i] \in ToSet(output) /\ output[i].name \in {make, c.name}
    BY <1>2 DEF Entries, ToSet
  <2>2. QED
    BY <2>1 DEF BlockWritten
<1>3. Described(c) =
        UNION {ToSet(combine_descriptions(o)) :
               o \in {c} \cup {o \in ToSet(members) :
                               \/ o.kind = "function" /\ o.name = make_name(c.name)
                               \/ o.kind = "file" /\ o.name = header_name(c.name)}}
  BY DEF Described, Owners
<1>4. QED
  BY <1>1, <1>2, <1>3 DEF BlockDocumented

\* A function has an entry for each header that has it, unless it makes a block.
LEMMA FunctionsAreDocumented ==
  ASSUME Live, phase = "written"
  PROVE  FunctionsDocumented
<1> SUFFICES ASSUME NEW h \in ToSet(index), IsHeader(h), NEW m \in ToSet(h.members),
                    m.kind = "function", ~IsOperator(m)
             PROVE  \/ \E c \in Classes : IsBlock(c) /\ m.name = make_name(c.name)
                    \/ Cardinality(Entries(m.name)) = Cardinality(HeadersWith(m.name))
  BY DEF FunctionsDocumented
<1> DEFINE f == m.name
<1>1. f \in FreeNames(index) /\ "operator " \notin ToSet(f)
  <2>1. h \in {c \in ToSet(index) : IsHeader(c)}
    OBVIOUS
  <2>2. m \in {g \in ToSet(h.members) : g.kind = "function"}
    OBVIOUS
  <2>3. QED
    BY <2>1, <2>2 DEF FreeNames, IsOperator
<1>2. DoneIndex = Len(index) /\ DoneBlocks = Len(blocks) /\ DoneFunctions = Len(FreeFunctions)
  BY DEF DoneIndex, DoneBlocks, DoneFunctions
<1>3. /\ DOMAIN index = 1..Len(index) /\ DOMAIN blocks = 1..Len(blocks)
      /\ DOMAIN FreeFunctions = 1..Len(FreeFunctions) /\ IsSeq(members)
  BY LiveFacts, LoopFacts
<1>4. CASE f \in make_funcs
  <2>1. PICK i \in DOMAIN blocks : f = make_name(blocks[i].name)
    BY <1>2, <1>3, <1>4 DEF Live, BlocksWritten
  <2>2. blocks[i] \in ToSet(blocks)
    BY DEF ToSet
  <2>3. blocks[i] \in Classes /\ IsBlock(blocks[i])
    BY <2>2, LiveFacts DEF MembersInv
  <2>4. QED
    BY <2>1, <2>3
<1>5. CASE f \notin make_funcs
  <2>1. Count(output, f) = CountTo(FreeFunctions, Len(FreeFunctions), f)
    BY <1>1, <1>2, <1>5 DEF Live, FunctionsWritten
  <2>2. CountTo(FreeFunctions, Len(FreeFunctions), f) = Count(FreeFunctions, f)
    BY <1>3 DEF CountTo, Count
  <2>3. Count(FreeFunctions, f) = CountKind(members, "function", f)
    BY <1>3, CountCategory DEF FreeFunctions
  <2>4. CountKind(members, "function", f) = DefinedBy(index, Len(index), f)
    BY <1>1, <1>2 DEF Live, IndexRead
  <2>5. DefinedBy(index, Len(index), f) = Cardinality(HeadersWith(f))
    BY <1>3 DEF DefinedBy, HeadersWith, Defines
  <2>6. Count(output, f) = Cardinality(Entries(f))
    BY DEF Count, Entries
  <2>7. QED
    BY <2>1, <2>2, <2>3, <2>4, <2>5, <2>6
<1>6. QED
  BY <1>4, <1>5

\* At the end it says what EverythingDocumented does.
LEMMA WriterDocuments == ReaderInv /\ WriterInv => EverythingDocumented
<1> SUFFICES ASSUME ReaderInv, WriterInv, phase = "written" PROVE EverythingDocumented
  BY DEF EverythingDocumented
<1>1. Live
  BY DEF WriterInv, Live
<1>2. ASSUME NEW c \in Classes, c.xml = "broken" PROVE Reported(c)
  <2>1. c.name \in parsed /\ \E k \in 1..DoneClasses : ClassMembers[k] = c
    BY <1>1, EveryTurn
  <2>2. /\ Times(<<"xml", c.name>>, complaints) = 1
        /\ Times(<<"class", c.name>>, complaints) = 1
    BY <1>1, <1>2, <2>1 DEF Live, BrokenReported
  <2>3. \A n \in OwnNames(c) : Count(output, n) = 0
    BY <1>1, <1>2 DEF Live, ClassesWritten, ClassWritten, Treated
  <2>4. \A e \in ToSet(output) : e.name \notin OwnNames(c)
    BY <1>1, <2>3, LiveFacts, CountNone
  <2>5. QED
    BY <2>2, <2>4 DEF Reported
<1>3. ASSUME NEW c \in Classes, c.xml = "ok"
      PROVE  /\ MethodsDocumented(c)
             /\ c.described => Once(c.name)
             /\ IsBlock(c) => BlockDocumented(c)
  <2>1. Treated(c) /\ (IsBlock(c) => \E i \in 1..DoneBlocks : blocks[i] = c)
    BY <1>1, <1>3, EveryTurn
  <2>2. ClassWritten(c, output, Treated(c))
    BY <1>1 DEF Live, ClassesWritten
  <2>3. /\ \A m \in ToSet(c.members) :
             m.kind = "function" /\ ~IsOperator(m) => Count(output, method_name(c, m)) = 1
        /\ c.described => Count(output, c.name) = 1
    BY <2>1, <2>2 DEF ClassWritten
  <2>4. MethodsDocumented(c) /\ (c.described => Once(c.name))
    BY <2>3 DEF MethodsDocumented, Once, Entries, Count
  <2>5. ASSUME IsBlock(c) PROVE BlockDocumented(c)
    <3>1. BlockWritten(c, output, Described(c))
      BY <1>1, <2>1, <2>5 DEF Live, BlocksWritten
    <3>2. QED
      BY <1>1, <3>1, BlockIsDocumented
  <2>6. QED
    BY <2>4, <2>5
<1>4. FunctionsDocumented
  BY <1>1, FunctionsAreDocumented
<1>5. QED
  BY <1>2, <1>3, <1>4 DEF EverythingDocumented

\* make_swig_interface_file writes one entry for each function of a class that
\* could be read, for the class if it is described, for each block and its make
\* function with the text they share, and for a function outside the classes one
\* for each header; of a broken class it writes none and complains twice.
THEOREM EverythingIsDocumented == Spec => []EverythingDocumented
<1>1. Init => ReaderInv /\ WriterInv
  BY ReaderInit, WriterInit
<1>2. (ReaderInv /\ WriterInv) /\ [Next]_vars => (ReaderInv /\ WriterInv)'
  BY ReaderStep, WriterStep
<1>3. ReaderInv /\ WriterInv => EverythingDocumented
  BY WriterDocuments
<1>4. QED
  BY <1>1, <1>2, <1>3, PTL DEF Spec
=============================================================================
