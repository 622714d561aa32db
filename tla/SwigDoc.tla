------------------------------- MODULE SwigDoc -------------------------------
(***************************************************************************)
(* The docstring generator of docs/doxygen: swig_doc.py, and the doxyxml   *)
(* objects it reads the XML of doxygen through.                            *)
(*                                                                         *)
(* The objects are lazy: the file of a class is read when something of it  *)
(* is first asked for, and an object whose file is broken raises           *)
(* ParsingError from then on.  make_swig_interface_file goes over the index*)
(* several times (the phases here), and writes its output at the very end. *)
(* One action is one turn of one of its loops; an exception nobody catches *)
(* ends the program without output.                                        *)
(*                                                                         *)
(* Names are sequences of words: a class <<"a">>, its make function        *)
(* <<"make", "a">>, its header <<"a", ".h">>.  Of a description only its   *)
(* owner is kept, and whether it is empty.                                 *)
(***************************************************************************)
EXTENDS Naturals, Sequences, SequencesExt, FiniteSets, Subsequences

CONSTANT Indices  \* the indices considered, each a sequence of compounds

\* A member is of another kind than a compound.
ASSUME IndicesAssumption ==
  \A i \in Indices :
    /\ i \in Seq(ToSet(i))
    /\ \A c \in ToSet(i) :
         /\ c.kind \notin {"function", "friend"}
         /\ c.members \in Seq(ToSet(c.members))
         /\ \A m \in ToSet(c.members) : m.kind \notin {"class", "file", "odd"}

VARIABLES
  index,       \* index.xml: the compounds, each with what its own file holds
  phase,       \* the loop the program is in, or "written", or "dead"
  at,          \* the turn of that loop
  members,     \* _members of the DoxyIndex
  parsed,      \* the names of the classes with _parsed set
  complaints,  \* what has been printed: <<"xml" or "class", name>>
  blocks,      \* the members that Block includes
  make_funcs,  \* names of the make functions documented with their blocks
  output       \* the entries made

vars == <<index, phase, at, members, parsed, complaints, blocks, make_funcs, output>>

\* Ends are the phases without a loop.
Following == [index |-> "blocks", blocks |-> "block_entries",
              block_entries |-> "functions", functions |-> "classes",
              classes |-> "written"]
Ends == {"written", "dead"}

-----------------------------------------------------------------------------
(* doxyxml                                                                 *)

\* Members of a compound: a memberdef found in several sections counts once.
\* The class compared is that of the XML node, so names alone are compared.
process_memberdefs(memberdefs) ==
  Chosen(memberdefs,
         {i \in DOMAIN memberdefs :
            \A j \in 1..(i - 1) : memberdefs[j].name # memberdefs[i].name})

in_category(objects, kind) ==
  Chosen(objects, {i \in DOMAIN objects : objects[i].kind = kind})

\* The members get_member chooses from: it raises NoSuchMember if there is
\* none and Duplicate if there are several.
Named(objects, kind, name) ==
  LET those == in_category(objects, kind)
  IN  Chosen(those, {i \in DOMAIN those : those[i].name = name})

IsHeader(c) == c.kind = "file" /\ Last(c.name) = ".h"

functions(c) == in_category(process_memberdefs(c.members), "function")

make_name(name) == <<"make">> \o name
header_name(name) == name \o <<".h">>

\* get_member splits a name at ::, and looks for the namespace in the class.
Qualified(name) == "::" \in ToSet(name)

HasMake(c) ==
  /\ ~Qualified(c.name)
  /\ Named(process_memberdefs(c.members), "friend", make_name(c.name)) # <<>>

\* klass.name() + '::' + func.name()
method_name(c, f) == c.name \o <<"::">> \o f.name

-----------------------------------------------------------------------------
(* The names in a program                                                  *)

OwnNames(c) ==
  {c.name} \cup {method_name(c, m) : m \in {m \in ToSet(c.members) : m.kind = "function"}}
FreeNames(i) ==
  {f.name : f \in UNION {{m \in ToSet(h.members) : m.kind = "function"} :
                          h \in {c \in ToSet(i) : IsHeader(c)}}}

IsName(name) == name # <<>> /\ name \in Seq(ToSet(name))

\* In C++ one name stands for one thing in its scope: one class, or a class's
\* functions, or functions outside the classes.  Classes are no operators.
ASSUME NamesAssumption ==
  \A i \in Indices :
    /\ \A c \in ToSet(i) :
         /\ IsName(c.name)
         /\ \A m \in ToSet(c.members) : IsName(m.name)
         /\ \A m, n \in ToSet(c.members) : m.name = n.name => m.kind = n.kind
         /\ c.kind = "class" => /\ "operator " \notin ToSet(c.name)
                                /\ OwnNames(c) \cap FreeNames(i) = {}
    /\ \A j, k \in DOMAIN i :
         i[j].kind = "class" /\ i[k].kind = "class" /\ j # k
           => OwnNames(i[j]) \cap OwnNames(i[k]) = {}

-----------------------------------------------------------------------------
(* Entries                                                                 *)

combine_descriptions(o) == IF o.described THEN <<o.name>> ELSE <<>>

\* An operator gets no entry, and neither does an empty docstring; that of a
\* function has at least its parameters, params naming whose they are.
make_entry(name, text, params) ==
  IF "operator " \in ToSet(name) \/ (text = <<>> /\ params = <<>>)
  THEN <<>>
  ELSE <<[name |-> name, text |-> text, params |-> params]>>

make_func_entry(f, name) == make_entry(name, combine_descriptions(f), f.name)

make_class_entry(c, text) ==
  make_entry(c.name, text, <<>>)
    \o FlattenSeq([i \in DOMAIN functions(c) |->
                    make_func_entry(functions(c)[i], method_name(c, functions(c)[i]))])

\* Whether get_member finds what make_block_entry asks for; having no header
\* of the block's name is the one exception it catches.
EntryPossible(b) ==
  /\ Len(Named(members, "function", make_name(b.name))) = 1
  /\ Len(Named(members, "file", header_name(b.name))) <= 1
  /\ Named(functions(b), "function", b.name) # <<>>

\* The class and the make function share one text; the make function is given
\* the parameters of the constructor.
make_block_entry(b) ==
  LET make == Named(members, "function", make_name(b.name))[1]
      file == Named(members, "file", header_name(b.name))
      text == combine_descriptions(b) \o combine_descriptions(make)
                \o (IF file = <<>> THEN <<>> ELSE combine_descriptions(file[1]))
  IN  make_class_entry(b, text) \o make_entry(make.name, text, b.name)

-----------------------------------------------------------------------------
Init ==
  /\ index \in Indices
  /\ phase = "index" /\ at = 1
  /\ members = <<>> /\ parsed = {} /\ complaints = <<>>
  /\ blocks = <<>> /\ make_funcs = {} /\ output = <<>>

\* What the loop of each phase goes over.
Loop == [index         |-> index,
         blocks        |-> members,
         block_entries |-> blocks,
         functions     |-> in_category(members, "function"),
         classes       |-> in_category(members, "class")]

\* It is o's turn; the turn is over; the loop is; an exception ends the program.
Turn(p, o) == phase = p /\ at <= Len(Loop[p]) /\ o = Loop[p][at]
Go == at' = at + 1 /\ UNCHANGED <<index, phase>>
EndLoop ==
  /\ phase \notin Ends /\ at > Len(Loop[phase])
  /\ phase' = Following[phase] /\ at' = 1
  /\ UNCHANGED <<index, members, parsed, complaints, blocks, make_funcs, output>>
Die == phase' = "dead" /\ UNCHANGED <<index, at>>

\* Mutant: what has no class is added like the others, as None.
IndexCompoundNone(c) ==
  /\ Turn("index", c)
  /\ ~IsHeader(c)
  /\ Go
  /\ members' = IF c.kind = "file" THEN members ELSE Append(members, c)
  /\ UNCHANGED <<parsed, complaints, blocks, make_funcs, output>>

\* DoxyIndex._parse: a source file is skipped, and of anything else an object
\* is made.
IndexCompound(c) ==
  /\ Turn("index", c)
  /\ ~IsHeader(c) /\ c.kind # "odd"
  /\ Go
  /\ members' = IF c.kind = "file" THEN members ELSE Append(members, c)
  /\ UNCHANGED <<parsed, complaints, blocks, make_funcs, output>>

\* A header is read at once, and its members come before it.
IndexHeader(c) ==
  /\ Turn("index", c)
  /\ IsHeader(c) /\ c.xml = "ok"
  /\ Go
  /\ members' = members \o Append(process_memberdefs(c.members), c)
  /\ UNCHANGED <<parsed, complaints, blocks, make_funcs, output>>

\* There is no class for the compound's kind; or the header is missing, or
\* broken: set_descriptions uses the data before the error is looked at.
IndexRaises(c) ==
  /\ Turn("index", c)
  /\ c.kind = "odd" \/ (IsHeader(c) /\ c.xml # "ok")
  /\ Die
  /\ complaints' = IF IsHeader(c) /\ c.xml = "broken"
                   THEN Append(complaints, <<"xml", c.name>>) ELSE complaints
  /\ UNCHANGED <<members, parsed, blocks, make_funcs, output>>

-----------------------------------------------------------------------------
(* make_swig_interface_file                                                *)

\* Asking a class for anything reads its file, the first time.
CheckParsed(c) ==
  /\ parsed' = parsed \cup {c.name}
  /\ complaints' = IF c.name \notin parsed /\ c.xml = "broken"
                   THEN Append(complaints, <<"xml", c.name>>) ELSE complaints

\* Mutant: Block.includes does not look at the error.
AsksForMembersAlways(c) == c.xml # "missing"

\* Block.includes asks for the members of a class without an error only.
AsksForMembers(c) == c.xml = "ok"

\* Block.includes, of each member of the index.
PassOver(o) ==
  /\ Turn("blocks", o)
  /\ o.kind # "class"
  /\ Go
  /\ UNCHANGED <<members, parsed, complaints, blocks, make_funcs, output>>

FindBlock(c) ==
  /\ Turn("blocks", c)
  /\ c.kind = "class"
  /\ CheckParsed(c)
  /\ \/ c.xml = "broken" /\ ~AsksForMembers(c) /\ Go /\ UNCHANGED blocks
     \/ /\ c.xml = "ok"
        /\ Go
        /\ blocks' = IF HasMake(c) THEN Append(blocks, c) ELSE blocks
     \/ /\ c.xml = "missing" \/ (c.xml = "broken" /\ AsksForMembers(c))
        /\ Die
        /\ UNCHANGED blocks
  /\ UNCHANGED <<members, make_funcs, output>>

\* Mutant: the make function is not remembered.
DocumentBlockOnly(b) ==
  /\ Turn("block_entries", b)
  /\ EntryPossible(b)
  /\ Go
  /\ output' = output \o make_block_entry(b)
  /\ UNCHANGED <<members, parsed, complaints, blocks, make_funcs>>

DocumentBlock(b) ==
  /\ Turn("block_entries", b)
  /\ EntryPossible(b)
  /\ Go
  /\ make_funcs' = make_funcs \cup {make_name(b.name)}
  /\ output' = output \o make_block_entry(b)
  /\ UNCHANGED <<members, parsed, complaints, blocks>>

\* NoSuchMember or Duplicate; only ParsingError is caught.
BlockRaises(b) ==
  /\ Turn("block_entries", b)
  /\ ~EntryPossible(b)
  /\ Die
  /\ UNCHANGED <<members, parsed, complaints, blocks, make_funcs, output>>

\* The make functions have been dealt with.
DocumentFunction(f) ==
  /\ Turn("functions", f)
  /\ Go
  /\ output' = IF f.name \in make_funcs THEN output
               ELSE output \o make_func_entry(f, f.name)
  /\ UNCHANGED <<members, parsed, complaints, blocks, make_funcs>>

PassOverBlock(c) ==
  /\ Turn("classes", c)
  /\ \E i \in DOMAIN blocks : blocks[i].name = c.name
  /\ Go
  /\ UNCHANGED <<members, parsed, complaints, blocks, make_funcs, output>>

\* Here ParsingError is raised, caught and reported.
DocumentClass(c) ==
  /\ Turn("classes", c)
  /\ \A i \in DOMAIN blocks : blocks[i].name # c.name
  /\ Go
  /\ \/ /\ c.xml = "ok"
        /\ CheckParsed(c)
        /\ output' = output \o make_class_entry(c, combine_descriptions(c))
     \/ /\ c.xml = "broken"
        /\ parsed' = parsed \cup {c.name}
        /\ complaints' = complaints \o (IF c.name \in parsed THEN <<>>
                                       ELSE <<<<"xml", c.name>>>>)
                                    \o <<<<"class", c.name>>>>
        /\ UNCHANGED output
  /\ UNCHANGED <<members, blocks, make_funcs>>

Next ==
  \/ \E c \in ToSet(index) : IndexCompound(c) \/ IndexHeader(c) \/ IndexRaises(c)
  \/ \E o \in ToSet(members) : \/ PassOver(o) \/ FindBlock(o)
                               \/ DocumentFunction(o)
                               \/ PassOverBlock(o) \/ DocumentClass(o)
  \/ \E b \in ToSet(blocks) : DocumentBlock(b) \/ BlockRaises(b)
  \/ EndLoop

Spec == Init /\ [][Next]_vars

-----------------------------------------------------------------------------
(* Properties                                                              *)

\* Types; no object is made of a compound whose kind is unknown.
TypeOK ==
  /\ index \in Indices
  /\ phase \in DOMAIN Following \cup Ends
  /\ at \in Nat \ {0}
  /\ \A i \in DOMAIN members : members[i].kind # "odd"
  /\ parsed \subseteq {c.name : c \in ToSet(index)}
  /\ ToSet(complaints) \subseteq {"xml", "class"} \X {c.name : c \in ToSet(index)}
  /\ ToSet(blocks) \subseteq {c \in ToSet(index) : c.kind = "class"}
  /\ make_funcs \subseteq {make_name(b.name) : b \in ToSet(blocks)}
  /\ \A e \in ToSet(output) : e.text # <<>> \/ e.params # <<>>

Times(x, s) == Cardinality({i \in DOMAIN s : s[i] = x})
Entries(name) == {i \in DOMAIN output : output[i].name = name}
Once(name) == Cardinality(Entries(name)) = 1

Classes == {c \in ToSet(index) : c.kind = "class"}
IsFriend(m, c) == m.kind = "friend" /\ m.name = make_name(c.name)
IsBlock(c) == /\ c.xml = "ok" /\ ~Qualified(c.name)
              /\ \E m \in ToSet(c.members) : IsFriend(m, c)
IsOperator(m) == "operator " \in ToSet(m.name)
HeadersWith(name) ==
  {i \in DOMAIN index : /\ IsHeader(index[i])
                        /\ \E m \in ToSet(index[i].members) :
                             m.kind = "function" /\ m.name = name}

\* A broken class is complained of once by the reader and once by the writer,
\* and nothing is written of it.
Reported(c) == /\ Times(<<"xml", c.name>>, complaints) = 1
               /\ Times(<<"class", c.name>>, complaints) = 1
               /\ \A e \in ToSet(output) : e.name \notin OwnNames(c)

MethodsDocumented(c) ==
  \A m \in ToSet(c.members) : m.kind = "function" /\ ~IsOperator(m)
                             => Once(method_name(c, m))

\* A block and its make function share the descriptions of class, make function
\* and header, and the make function has the parameters of the constructor.
BlockDocumented(c) ==
  /\ Once(make_name(c.name))
  /\ \A i \in Entries(make_name(c.name)) \cup Entries(c.name) :
       /\ output[i].name = c.name => output[i].params = <<>>
       /\ output[i].name # c.name => output[i].params = c.name
       /\ ToSet(output[i].text) =
            UNION {ToSet(combine_descriptions(o)) :
                   o \in {c} \cup {o \in ToSet(members) :
                                   \/ o.kind = "function" /\ o.name = make_name(c.name)
                                   \/ o.kind = "file" /\ o.name = header_name(c.name)}}

FunctionsDocumented ==
  \A h \in ToSet(index) : IsHeader(h) =>
    \A f \in ToSet(h.members) :
      f.kind = "function" /\ ~IsOperator(f) =>
        \/ \E c \in Classes : IsBlock(c) /\ f.name = make_name(c.name)
        \/ Cardinality(Entries(f.name)) = Cardinality(HeadersWith(f.name))

\* What is written documents everything that could be read, each thing once,
\* and the rest has been reported, once.
EverythingDocumented ==
  phase = "written" =>
    /\ \A c \in Classes : c.xml = "broken" => Reported(c)
    /\ \A c \in Classes : c.xml = "ok" =>
         /\ MethodsDocumented(c)
         /\ c.described => Once(c.name)
         /\ IsBlock(c) => BlockDocumented(c)
    /\ FunctionsDocumented

\* A class that doxygen left broken never ends the program: an exception has
\* another cause, in the index, a header, a file that is missing, or a block
\* whose make function or constructor is not documented, or not uniquely.
BrokenClassIsContained ==
  phase = "dead" =>
    \/ \E c \in ToSet(index) : \/ c.kind = "odd"
                               \/ c.kind = "class" /\ c.xml = "missing"
                               \/ IsHeader(c) /\ c.xml # "ok"
    \/ \E c \in Classes : IsBlock(c) /\ ~EntryPossible(c)
=============================================================================
