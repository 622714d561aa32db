---------------------------- MODULE CompoundSchema ----------------------------
(***************************************************************************)
(* The classes that hold a compound's XML file, one definition for each    *)
(* class of generated/compoundsuper.py and with the class's name.  A class *)
(* here stands for the whole class there: constructor, accessors, build,   *)
(* export and exportLiteral are all generated from these few facts.        *)
(***************************************************************************)
EXTENDS BindingForms

\* The document, a compound and the references a compound makes.
DoxygenType ==
  WithAlways(Elements({"version"}, {One("compounddef", "compounddefType")}))
compounddefChildren == {
  Text("compoundname"), One("title", "docTitleType"),
  Many("basecompoundref", "compoundRefType"),
  Many("derivedcompoundref", "compoundRefType"),
  Many("includes", "incType"), Many("includedby", "incType"),
  One("incdepgraph", "graphType"), One("invincdepgraph", "graphType"),
  Many("innerdir", "refType"), Many("innerfile", "refType"),
  Many("innerclass", "refType"), Many("innernamespace", "refType"),
  Many("innerpage", "refType"), Many("innergroup", "refType"),
  One("templateparamlist", "templateparamlistType"),
  Many("sectiondef", "sectiondefType"),
  One("briefdescription", "descriptionType"),
  One("detaileddescription", "descriptionType"),
  One("inheritancegraph", "graphType"),
  One("collaborationgraph", "graphType"),
  One("programlisting", "listingType"), One("location", "locationType"),
  One("listofallmembers", "listofallmembersType")}
compounddefType == Elements({"kind", "prot", "id"}, compounddefChildren)
listofallmembersType == Elements({}, {Many("member", "memberRefType")})
memberRefType ==
  Elements({"virt", "prot", "refid", "ambiguityscope"}, {
    Text("scope"), Text("name")})
scope == Value({})
name == Value({})
compoundRefType == ValueAndContent({"virt", "prot", "refid"})
reimplementType == ValueAndContent({"refid"})
incType == ValueAndContent({"local", "refid"})
refType == ValueAndContent({"prot", "refid"})
refTextType == ValueAndContent({"refid", "kindref", "external"})

\* The members of a compound.
sectiondefType ==
  Elements({"kind"}, {
    Text("header"), One("description", "descriptionType"),
    Many("memberdef", "memberdefType")})
memberdefAttributes ==
  {"initonly", "kind", "volatile", "const", "raise", "virt", "readable",
   "prot", "explicit", "new", "final", "writable", "add", "static", "remove",
   "sealed", "mutable", "gettable", "inline", "settable", "id"}
memberdefChildren == {
  One("templateparamlist", "templateparamlistType"),
  One("type", "linkedTextType"), Text("definition"), Text("argsstring"),
  Text("name"), Text("read"), Text("write"), Text("bitfield"),
  Many("reimplements", "reimplementType"),
  Many("reimplementedby", "reimplementType"), Many("param", "paramType"),
  Many("enumvalue", "enumvalueType"), One("initializer", "linkedTextType"),
  One("exceptions", "linkedTextType"),
  One("briefdescription", "descriptionType"),
  One("detaileddescription", "descriptionType"),
  One("inbodydescription", "descriptionType"),
  One("location", "locationType"), Many("references", "referenceType"),
  Many("referencedby", "referenceType")}
memberdefType == Elements(memberdefAttributes, memberdefChildren)
definition == Value({})
argsstring == Value({})
read == Value({})
write == Value({})
bitfield == Value({})
descriptionType ==
  Mixed({}, {
    Item("title", "docTitleType"), Item("para", "docParaType"),
    Item("sect1", "docSect1Type"), Item("internal", "docInternalType")})
enumvalueType ==
  Mixed({"prot", "id"}, {
    ItemText("name"), Item("initializer", "linkedTextType"),
    Item("briefdescription", "descriptionType"),
    Item("detaileddescription", "descriptionType")})
templateparamlistType == Elements({}, {Many("param", "paramType")})
paramType ==
  Elements({}, {
    One("type", "linkedTextType"), Text("declname"), Text("defname"),
    Text("array"), One("defval", "linkedTextType"),
    One("briefdescription", "descriptionType")})
declname == Value({})
defname == Value({})
array == Value({})
linkedTextType == Mixed({}, {Item("ref", "docRefTextType")})

\* Graphs, listings and places.
graphType == Elements({}, {Many("node", "nodeType")})
nodeType ==
  Elements({"id"}, {
    Text("label"), One("link", "linkType"), Many("childnode", "childnodeType")})
label == Value({})
childnodeType == Elements({"relation", "refid"}, {Texts("edgelabel")})
edgelabel == Value({})
linkType == Value({"refid", "external"})
listingType == Elements({}, {Many("codeline", "codelineType")})
codelineType ==
  WithIntegers(Elements({"external", "refkind", "refid"}, {
    Many("highlight", "highlightType")}), {"lineno"})
highlightType ==
  Mixed({"class"}, {ItemText("sp"), Item("ref", "docRefTextType")})
sp == Value({})
referenceType ==
  WithIntegers(ValueAndContent({"refid", "compoundref"}),
    {"endline", "startline"})
locationType ==
  WithIntegers(Value({"bodyfile", "file"}), {"bodystart", "line", "bodyend"})

\* The sections of a description.  docInternalS3Type looks for a sect3 and builds
\* a docSect4Type from it.
docSect1Type ==
  Mixed({"id"}, {
    Item("title", "docTitleType"), Item("para", "docParaType"),
    Item("sect2", "docSect2Type"), Item("internal", "docInternalS1Type")})
docSect2Type ==
  Mixed({"id"}, {
    Item("title", "docTitleType"), Item("para", "docParaType"),
    Item("sect3", "docSect3Type"), Item("internal", "docInternalS2Type")})
docSect3Type ==
  Mixed({"id"}, {
    Item("title", "docTitleType"), Item("para", "docParaType"),
    Item("sect4", "docSect4Type"), Item("internal", "docInternalS3Type")})
docSect4Type ==
  Mixed({"id"}, {
    Item("title", "docTitleType"), Item("para", "docParaType"),
    Item("internal", "docInternalS4Type")})
docInternalType ==
  Mixed({}, {Item("para", "docParaType"), Item("sect1", "docSect1Type")})
docInternalS1Type ==
  Mixed({}, {Item("para", "docParaType"), Item("sect2", "docSect2Type")})
docInternalS2Type ==
  Mixed({}, {Item("para", "docParaType"), Item("sect3", "docSect3Type")})
docInternalS3Type ==
  Mixed({}, {Item("para", "docParaType"), Item("sect3", "docSect4Type")})
docInternalS4Type == Mixed({}, {Item("para", "docParaType")})

\* The parts of a paragraph.  docParaType itself knows no child element.
docTitleType == ValueAndContent({})
docParaType == ValueAndContent({})
docMarkupType == ValueAndContent({})
docURLLink == ValueAndContent({"url"})
docAnchorType == ValueAndContent({"id"})
docFormulaType == ValueAndContent({"id"})
docIndexEntryType == Elements({}, {Text("primaryie"), Text("secondaryie")})

\* Lists, tables and the blocks that hold paragraphs.
docListType == Elements({}, {Many("listitem", "docListItemType")})
docListItemType == Elements({}, {Many("para", "docParaType")})
docSimpleSectType ==
  Elements({"kind"}, {
    One("title", "docTitleType"), Many("para", "docParaType")})
docVarListEntryType == Elements({}, {One("term", "docTitleType")})
docVariableListType == Value({})
docRefTextType == ValueAndContent({"refid", "kindref", "external"})
docTableType ==
  WithIntegers(Elements({}, {
    Many("row", "docRowType"), One("caption", "docCaptionType")}), {"rows", "cols"})
docRowType == Elements({}, {Many("entry", "docEntryType")})
docEntryType == Elements({"thead"}, {Many("para", "docParaType")})
docCaptionType == ValueAndContent({})
docHeadingType == WithIntegers(ValueAndContent({}), {"level"})
docImageType == ValueAndContent({"width", "type", "name", "height"})
docDotFileType == ValueAndContent({"name"})
docTocItemType == ValueAndContent({"id"})
docTocListType == Elements({}, {Many("tocitem", "docTocItemType")})
docLanguageType == Elements({"langid"}, {Many("para", "docParaType")})
docParamListType ==
  Elements({"kind"}, {Many("parameteritem", "docParamListItem")})
docParamListItem ==
  Elements({}, {
    Many("parameternamelist", "docParamNameList"),
    One("parameterdescription", "descriptionType")})
docParamNameList == Elements({}, {Many("parametername", "docParamName")})
docParamName == Mixed({"direction"}, {Item("ref", "docRefTextType")})
docXRefSectType ==
  Elements({"id"}, {
    Texts("xreftitle"), One("xrefdescription", "descriptionType")})
docCopyType ==
  Elements({"link"}, {
    Many("para", "docParaType"), Many("sect1", "docSect1Type"),
    One("internal", "docInternalType")})
docCharType == Value({"char"})
docEmptyType == Value({})

\* generated/compound.py gives the paragraph, alone of all classes, a
\* buildChildren of its own: the inherited one goes first, then text and
\* references are kept again in content, in the order they come in, the
\* parameter lists and the simple sections in lists of their own.
docParaTypeSub ==
  [docParaType EXCEPT
     !.text = @ \cup {"content"},
     !.children = {
       Child("ref", "docRefTextType", "content", "all"),
       Many("parameterlist", "docParamListType"),
       Child("simplesect", "docSimpleSectType", "simplesects", "all")}]

\* The classes by name, as factory() finds them.
CompoundClasses == [
   DoxygenType |-> DoxygenType,
   compounddefType |-> compounddefType,
   listofallmembersType |-> listofallmembersType,
   memberRefType |-> memberRefType, scope |-> scope, name |-> name,
   compoundRefType |-> compoundRefType, reimplementType |-> reimplementType,
   incType |-> incType, refType |-> refType, refTextType |-> refTextType,
   sectiondefType |-> sectiondefType, memberdefType |-> memberdefType,
   definition |-> definition, argsstring |-> argsstring, read |-> read,
   write |-> write, bitfield |-> bitfield,
   descriptionType |-> descriptionType, enumvalueType |-> enumvalueType,
   templateparamlistType |-> templateparamlistType, paramType |-> paramType,
   declname |-> declname, defname |-> defname, array |-> array,
   linkedTextType |-> linkedTextType, graphType |-> graphType,
   nodeType |-> nodeType, label |-> label, childnodeType |-> childnodeType,
   edgelabel |-> edgelabel, linkType |-> linkType,
   listingType |-> listingType, codelineType |-> codelineType,
   highlightType |-> highlightType, sp |-> sp,
   referenceType |-> referenceType, locationType |-> locationType,
   docSect1Type |-> docSect1Type, docSect2Type |-> docSect2Type,
   docSect3Type |-> docSect3Type, docSect4Type |-> docSect4Type,
   docInternalType |-> docInternalType,
   docInternalS1Type |-> docInternalS1Type,
   docInternalS2Type |-> docInternalS2Type,
   docInternalS3Type |-> docInternalS3Type,
   docInternalS4Type |-> docInternalS4Type, docTitleType |-> docTitleType,
   docParaType |-> docParaTypeSub, docMarkupType |-> docMarkupType,
   docURLLink |-> docURLLink, docAnchorType |-> docAnchorType,
   docFormulaType |-> docFormulaType, docIndexEntryType |-> docIndexEntryType,
   docListType |-> docListType, docListItemType |-> docListItemType,
   docSimpleSectType |-> docSimpleSectType,
   docVarListEntryType |-> docVarListEntryType,
   docVariableListType |-> docVariableListType,
   docRefTextType |-> docRefTextType, docTableType |-> docTableType,
   docRowType |-> docRowType, docEntryType |-> docEntryType,
   docCaptionType |-> docCaptionType, docHeadingType |-> docHeadingType,
   docImageType |-> docImageType, docDotFileType |-> docDotFileType,
   docTocItemType |-> docTocItemType, docTocListType |-> docTocListType,
   docLanguageType |-> docLanguageType, docParamListType |-> docParamListType,
   docParamListItem |-> docParamListItem,
   docParamNameList |-> docParamNameList, docParamName |-> docParamName,
   docXRefSectType |-> docXRefSectType, docCopyType |-> docCopyType,
   docCharType |-> docCharType, docEmptyType |-> docEmptyType]
===============================================================================
