------------------------------ MODULE MCSwigDoc ------------------------------
\* Small indices for SwigDoc: a class <<"a">> in many forms, its headers, and
\* one compound of each other sort.
EXTENDS SwigDoc

Member(kind, name, described) ==
  [kind |-> kind, name |-> name, described |-> described]

A == <<"a">>
Friend == Member("friend", make_name(A), TRUE)
Constructor == Member("function", A, TRUE)
Plus == Member("function", <<"operator ", "+">>, TRUE)
Work == Member("function", <<"work">>, FALSE)
Make(described) == Member("function", make_name(A), described)
Free == Member("function", <<"f">>, TRUE)

Compound(kind, name, xml, described, mems) ==
  [kind |-> kind, name |-> name, xml |-> xml, described |-> described,
   members |-> mems]

BlockClasses ==
  {Compound("class", A, "ok", described, mems) :
     described \in BOOLEAN,
     mems \in {<<Friend, Constructor, Plus, Constructor>>, <<Friend, Work>>}}

OtherClasses ==
  {Compound("class", name, xml, TRUE, <<Friend, Constructor, Work>>) :
     name \in {A, <<"b">>, <<"a", "::", "b">>, <<"ns", "::", "a">>}, xml \in {"ok", "broken", "missing"}}
    \ {Compound("class", A, "ok", TRUE, <<Friend, Constructor, Work>>)}

Headers ==
  {Compound("file", header_name(A), "ok", described, mems) :
     described \in BOOLEAN,
     mems \in {<<>>, <<Make(TRUE), Free>>, <<Free, Make(FALSE), Free>>}}
    \cup {Compound("file", <<"c", ".h">>, xml, TRUE, <<Make(TRUE), Plus, Free>>) :
           xml \in {"ok", "broken", "missing"}}

Rest == {Compound(kind, <<"r">>, "ok", FALSE, <<>>) : kind \in {"file", "other", "odd"}}

\* Bound: three compounds.  Doxygen gives a class one compound.
SmallIndices ==
  {i \in UNION {[1..n -> BlockClasses \cup OtherClasses \cup Headers \cup Rest] : n \in 0..3} :
     \A j, k \in DOMAIN i : (i[j].kind = "class" /\ i[k].kind = "class"
                             /\ i[j].name = i[k].name) => j = k}
=============================================================================
