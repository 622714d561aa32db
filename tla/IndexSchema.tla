------------------------------ MODULE IndexSchema ------------------------------
(***************************************************************************)
(* The classes that hold Doxygen's index.xml, one definition for each      *)
(* class of generated/indexsuper.py and with the class's name.  They write *)
(* every attribute, set or not.                                            *)
(***************************************************************************)
EXTENDS BindingForms

DoxygenType ==
  WithAlways(Elements({"version"}, {Many("compound", "CompoundType")}))
CompoundType ==
  WithAlways(Elements({"kind", "refid"}, {
    Text("name"), Many("member", "MemberType")}))
MemberType == WithAlways(Elements({"kind", "refid"}, {Text("name")}))

\* "doxygenindex" is the DoxygenType of index.xml, whose name is that of the
\* root class of a compound's file too.
IndexClasses == [
   doxygenindex |-> DoxygenType, CompoundType |-> CompoundType,
   MemberType |-> MemberType]
===============================================================================
