----------------------------- MODULE BindingForms -----------------------------
(***************************************************************************)
(* The forms that the classes of generated/compoundsuper.py and            *)
(* generated/indexsuper.py come in.  All of them were generated from one   *)
(* XML schema and differ in a few things only, which a record holds:       *)
(*   attributes - the XML attributes that buildAttributes looks for        *)
(*   integers   - those of them that must be integers                      *)
(*   always     - those that exportAttributes writes even if they are None *)
(*   children   - the child elements that buildChildren knows              *)
(*   text       - the members of the object that text nodes are added to   *)
(* What the methods do with such a record is the subject of Binding.tla.   *)
(***************************************************************************)

\* A child element is known by its tag.  An object of its class is built from
\* it and kept in a member of the parent, "last" replacing an earlier one and
\* "all" being appended.  The class "string" stands for its bare text.
Child(tag, class, member, keep) ==
  [tag |-> tag, class |-> class, member |-> member, keep |-> keep]

One(tag, class)  == Child(tag, class, tag, "last")
Many(tag, class) == Child(tag, class, tag, "all")
Text(tag)        == Child(tag, "string", tag, "last")
Texts(tag)       == Child(tag, "string", tag, "all")

\* In mixed content it is wrapped in a MixedContainer of category Complex, or
\* Simple if it is a string.
Item(tag, class) == Child(tag, class, "content_", "all")
ItemText(tag)    == Child(tag, "string", "content_", "all")

Class(attrs, children, text) ==
  [attributes |-> attrs, integers |-> {}, always |-> {},
   children |-> children, text |-> text]

\* Child elements and no text; text and no child elements, as valueOf_ alone
\* or as a MixedContainer of category Text too; text and children mixed.
Elements(attrs, children) == Class(attrs, children, {})
Value(attrs)              == Class(attrs, {}, {"valueOf_"})
ValueAndContent(attrs)    == Class(attrs, {}, {"valueOf_", "content_"})
Mixed(attrs, children)    == Class(attrs, children, {"content_"})

WithIntegers(class, names) ==
  [class EXCEPT !.attributes = @ \cup names, !.integers = names]

WithAlways(class) == [class EXCEPT !.always = class.attributes]
=============================================================================
