------------------------------- MODULE MCBinding -------------------------------
\* The classes of both index.xml and the compounds' files, and how many nodes
\* are read below an object of each.
EXTENDS BindingExport

C == INSTANCE CompoundSchema
X == INSTANCE IndexSchema

AllClasses == [class \in DOMAIN C!CompoundClasses \cup DOMAIN X!IndexClasses |->
                 IF class \in DOMAIN X!IndexClasses THEN X!IndexClasses[class] ELSE C!CompoundClasses[class]]

\* Bound: two nodes for every class, more for those whose members interact: a
\* string and its neighbours, mixed content and what is in it.
SmallBound ==
  [class \in DOMAIN AllClasses |->
     CASE class \in {"descriptionType", "docParaType", "enumvalueType"} -> 3
       [] class \in {"linkedTextType", "highlightType", "docRefTextType", "doxygenindex"} -> 4
       [] OTHER -> 2]
=============================================================================
