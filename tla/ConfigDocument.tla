--------------------------- MODULE ConfigDocument ---------------------------
(***************************************************************************)
(* The document of the jkconfig editor: a JSON Schema becomes a tree of    *)
(* elements (schema.rs), a file is read into it (update_from_value), it is *)
(* checked (collect_missing_required_element) and written (as_json).       *)
(*                                                                         *)
(* A JSON value is a pair of a tag and a content; an object is the         *)
(* sequence of its entries in the order of their keys.  The content of a   *)
(* file is such a value spread out: the way to every value in it, and what *)
(* is there.  An element is named by the way from the root to it, "#1",    *)
(* "#2" being the variants of a oneOf; a document gives every element its  *)
(* value.                                                                  *)
(***************************************************************************)
EXTENDS Integers, Sequences, FiniteSets, SequencesExt, TLC

CONSTANTS
  Root,     \* the schema
  Defs,     \* its $defs
  None,     \* no value
  NumberOf  \* the strings that parse as a number, and the number

VARIABLE tree  \* the elements of AppState::document, as they were made from the schema

-----------------------------------------------------------------------------
(***************************************************************************)
(* JSON values.                                                            *)
(***************************************************************************)
Obj(entries) == <<"obj", entries>>
Str(s) == <<"str", s>>
IsObj(v) == v[1] = "obj"

\* The content of a file with this value.
Table == <<"obj", None>>
RECURSIVE Spread(_, _)
Spread(v, path) ==
  IF ~IsObj(v) THEN path :> v
  ELSE FoldLeft(LAMBDA so, entry : so @@ Spread(entry[2], Append(path, entry[1])), path :> Table, v[2])

-----------------------------------------------------------------------------
(***************************************************************************)
(* Schemas.  Only the parts that a node has are given.                     *)
(***************************************************************************)
Node == [types |-> <<>>, enum |-> <<>>, const |-> None, ref |-> None, oneOf |-> <<>>, anyOf |-> <<>>,
         props |-> <<>>, required |-> {}]

Option(n) == Len(n.anyOf) = 2 /\ \E i \in 1..2 : n.anyOf[i].types = <<"null">>
Inner(n) == IF Option(n) /\ n.anyOf[1].types = <<"null">> THEN n.anyOf[2] ELSE n.anyOf[1]

\* What serde accepts for the type that the schema was made from, at every place of a file: the
\* tags, the strings (all, if empty), the keys that must be there, and for an enum with data the
\* keys of which there must be exactly one.
Accepts(tags, strings, required, oneOf) == [tags |-> tags, strings |-> strings, required |-> required, oneOf |-> oneOf]
TagOf == "object" :> "obj" @@ "string" :> "str" @@ "array" :> "arr" @@ "integer" :> "num" @@ "number" :> "num"
         @@ "boolean" :> "bool" @@ "null" :> "null"
RECURSIVE ShapeOf(_, _)
ShapeOf(n, path) ==
  LET With(this, props) == FoldLeft(LAMBDA so, p : so @@ ShapeOf(p[2], Append(path, p[1])), path :> this, props)
      consts == {n.oneOf[i].const : i \in DOMAIN n.oneOf} \ {None}
      data == FoldLeft(LAMBDA so, v : so \o v.props, <<>>, n.oneOf)
  IN CASE n.ref # None -> ShapeOf(Defs[n.ref], path)
       [] n.anyOf # <<>> -> ShapeOf(Inner(n), path)
       [] n.oneOf # <<>> /\ consts # {} -> path :> Accepts({"str"}, consts, {}, {})
       [] n.oneOf # <<>> /\ consts = {} ->
            With(Accepts({"obj"}, {}, {}, {data[i][1] : i \in DOMAIN data}), data)
       [] OTHER -> With(Accepts({TagOf[n.types[i]] : i \in DOMAIN n.types}, Range(n.enum), n.required, {}), n.props)

-----------------------------------------------------------------------------
(***************************************************************************)
(* tree.                                                               *)
(***************************************************************************)
Nothing == <<>>
Element(kind, path, req, name, subs, enum) ==
  [kind |-> kind, path |-> path, req |-> req, name |-> name, subs |-> subs, enum |-> enum]

Variant == <<"#1", "#2", "#3">>

\* The element with the elements of its parts below it; parts the editor cannot show are left out.
Compose(id, kind, path, req, name, keys, parts) ==
  LET shown == SelectSeq([i \in DOMAIN keys |-> i], LAMBDA i : parts[i] # Nothing)
  IN (id :> Element(kind, path, req, name, [i \in DOMAIN shown |-> Append(id, keys[shown[i]])], <<>>))
     @@ [e \in UNION {DOMAIN parts[i] : i \in DOMAIN keys} |->
           parts[CHOOSE i \in DOMAIN keys : e \in DOMAIN parts[i]][e]]

RECURSIVE AsElement(_, _, _, _, _)

\* Menu::from_schema
FromSchema(n, req, name, path, id) ==
  Compose(id, "menu", path, req, name, [i \in DOMAIN n.props |-> n.props[i][1]],
    [i \in DOMAIN n.props |-> LET key == n.props[i][1]
                             IN AsElement(n.props[i][2], key \in n.required, key, Append(path, key), Append(id, key))])

\* as_ref
AsRef(n, req, path, id) ==
  IF n.ref \in DOMAIN Defs THEN AsElement(Defs[n.ref], req, n.ref, path, id) ELSE Nothing

\* handle_object: a variant without a name of its own is the first property that names a struct.
HandleObject(n, req, field, path, id) ==
  IF n.types # <<"object">> THEN Nothing
  ELSE IF field # None THEN FromSchema(n, req, field, path, id)
  ELSE LET menus == {i \in DOMAIN n.props : LET e == AsRef(n.props[i][2], req, path, id)
                                            IN e # Nothing /\ e[id].kind = "menu"}
       IN IF menus = {} THEN Nothing
          ELSE AsRef(n.props[CHOOSE i \in menus : \A j \in menus : i <= j][2], req, path, id)

\* handle_oneof: constants become an enum.
HandleOneOf(n, req, field, path, id) ==
  IF n.oneOf = <<>> THEN Nothing
  ELSE IF \A i \in DOMAIN n.oneOf : n.oneOf[i].const # None
    THEN id :> Element("enum", path, req, field, <<>>, [i \in DOMAIN n.oneOf |-> n.oneOf[i].const])
  ELSE IF field = None THEN Nothing
  ELSE LET parts == [i \in DOMAIN n.oneOf |-> AsElement(n.oneOf[i], FALSE, None, path, Append(id, Variant[i]))]
       IN Compose(id, "oneof", path, req, field, SubSeq(Variant, 1, Len(n.oneOf)), parts)

\* as_item: the first of several types.
AsItem(n, req, path, id) ==
  IF n.types = <<>> \/ Head(n.types) \notin {"string", "number", "integer", "boolean", "array"} THEN Nothing
  ELSE id :> Element(IF Head(n.types) = "string" /\ n.enum # <<>> THEN "enum" ELSE Head(n.types),
                     path, req, Head(n.types), <<>>, n.enum)

\* as_anyof: the other one of an option, or else the first alternative.
AsAnyOf(n, req, path, id) ==
  IF n.anyOf = <<>> THEN Nothing ELSE AsElement(Inner(n), Option(n) /\ req, None, path, id)

\* as_element_type
AsElement(n, req, field, path, id) ==
  LET tries == <<HandleObject(n, req, field, path, id), AsRef(n, req, path, id),
                 HandleOneOf(n, req, field, path, id), AsItem(n, req, path, id), AsAnyOf(n, req, path, id)>>
      found == {i \in DOMAIN tries : tries[i] # Nothing}
  IN IF found = {} THEN Nothing ELSE tries[CHOOSE i \in found : \A j \in found : i <= j]

\* MenuRoot::try_from: the tree that the editor makes of the schema.
TryFrom == FromSchema(Root, TRUE, "root", <<>>, <<>>)


Ids == DOMAIN tree
Kind(id) == tree[id].kind

\* The document before a file is read: menus that are required are set, nothing else is.
NewDocument ==
  [id \in Ids |-> CASE Kind(id) = "menu" -> tree[id].req [] Kind(id) = "oneof" -> 0
                    [] Kind(id) = "boolean" -> FALSE [] Kind(id) = "array" -> <<>> [] OTHER -> None]

Selected(doc, id) == IF doc[id] \in DOMAIN tree[id].subs THEN tree[id].subs[doc[id]] ELSE None

\* is_none and set_none
IsNone(doc, id) ==
  CASE Kind(id) = "menu" -> ~tree[id].req /\ ~doc[id] [] Kind(id) = "oneof" -> doc[id] = 0
    [] Kind(id) \in {"boolean", "array"} -> FALSE [] OTHER -> doc[id] = None
Unset(id) ==
  CASE Kind(id) \in {"menu", "boolean"} -> FALSE [] Kind(id) = "oneof" -> 0
    [] Kind(id) = "array" -> <<>> [] OTHER -> None

-----------------------------------------------------------------------------
(***************************************************************************)
(* Reading.  A part that is refused leaves what was read before it.        *)
(***************************************************************************)
Result(ok, doc) == [ok |-> ok, doc |-> doc]
Refused(doc) == Result(FALSE, doc)
Taken(doc, id, v) == Result(TRUE, [doc EXCEPT ![id] = v])

TextOf(v) ==
  CASE v[1] = "str" -> v[2] [] v[1] = "num" -> ToString(v[2]) [] OTHER -> IF v[2] THEN "true" ELSE "false"

\* ItemType::update_from_value and EnumItem::update_from_value
UpdateItem(doc, id, v) ==
  CASE Kind(id) = "string" /\ v[1] = "str" -> Taken(doc, id, v[2])
    [] Kind(id) \in {"integer", "number"} /\ v[1] = "num" -> Taken(doc, id, v[2])
    [] Kind(id) = "boolean" /\ v[1] = "bool" -> Taken(doc, id, v[2])
    [] Kind(id) = "enum" /\ v[1] = "str" /\ v[2] \in Range(tree[id].enum) -> Taken(doc, id, v[2])
    [] Kind(id) = "enum" /\ v[1] = "num" /\ v[2] + 1 \in DOMAIN tree[id].enum ->
         Taken(doc, id, tree[id].enum[v[2] + 1])
    [] Kind(id) = "array" /\ v[1] = "arr" /\ \A i \in DOMAIN v[2] : v[2][i][1] \in {"str", "num", "bool"} ->
         Taken(doc, id, [i \in DOMAIN v[2] |-> TextOf(v[2][i])])
    [] OTHER -> Refused(doc)

\* get_child_mut_by_key finds nothing.
Skipped(id, key) == Append(id, key) \notin Ids

\* ElementType::update_from_value.  Menu: keys that the menu does not have are skipped, any key
\* sets it.  OneOf: a table names the variant; the first variant that takes the value is selected.
RECURSIVE UpdateFromValue(_, _, _, _)
UpdateFromValue(doc, id, v, name) ==
  LET tagged == IsObj(v) /\ v[2] # <<>>
      Read(so, entry) ==
        IF ~so.ok THEN so
        ELSE LET next == IF Skipped(id, entry[1]) THEN so ELSE UpdateFromValue(so.doc, Append(id, entry[1]), entry[2], None)
             IN Result(next.ok, IF next.ok THEN [next.doc EXCEPT ![id] = TRUE] ELSE next.doc)
      Try(so, i) ==
        IF so.ok THEN so
        ELSE LET next == UpdateFromValue(so.doc, tree[id].subs[i], IF tagged THEN v[2][1][2] ELSE v,
                                         IF tagged THEN v[2][1][1] ELSE None)
             IN Result(next.ok, IF next.ok THEN [next.doc EXCEPT ![id] = i] ELSE next.doc)
  IN CASE Kind(id) = "menu" -> IF (name # None /\ name # tree[id].name) \/ ~IsObj(v) THEN Refused(doc)
                               ELSE FoldLeft(Read, Result(TRUE, doc), v[2])
       [] Kind(id) = "oneof" -> FoldLeft(Try, Refused(doc), [i \in DOMAIN tree[id].subs |-> i])
       [] OTHER -> UpdateItem(doc, id, v)

\* new_with_init_and_schema; an empty file is no file.
Load(content) == IF content = None THEN Result(TRUE, NewDocument) ELSE UpdateFromValue(NewDocument, <<>>, content, None)

-----------------------------------------------------------------------------
(***************************************************************************)
(* Checking and writing.                                                   *)
(***************************************************************************)
Above(id) == {SubSeq(id, 1, k) : k \in 0..Len(id) - 1}

\* Every oneOf on the way has the variant selected that the way takes.
Live(doc, id) == \A a \in Above(id) : Kind(a) = "oneof" => Selected(doc, a) = SubSeq(id, 1, Len(a) + 1)

\* Mutant: a oneOf without a selected variant is not reported.
Mutant_unselected_is_fine(doc) ==
  {id \in Ids : /\ tree[id].req /\ Kind(id) \notin {"menu", "oneof"} /\ IsNone(doc, id)
                /\ Live(doc, id) /\ \A a \in Above(id) : Kind(a) = "menu" => ~IsNone(doc, a)}

\* collect_missing_required_element: below menus that are set, in the variants that are selected.
Missing(doc) ==
  {id \in Ids : /\ tree[id].req /\ Kind(id) # "menu" /\ IsNone(doc, id)
                /\ Live(doc, id) /\ \A a \in Above(id) : Kind(a) = "menu" => ~IsNone(doc, a)}

\* In an array what looks like a number or a boolean is written as one.
ScalarOf(s) ==
  CASE s \in DOMAIN NumberOf -> <<"num", NumberOf[s]>> [] s \in {"true", "false"} -> <<"bool", s = "true">>
    [] OTHER -> Str(s)

\* Item::as_json
ItemJson(doc, id) ==
  CASE Kind(id) \in {"string", "enum"} -> Str(doc[id]) [] Kind(id) = "boolean" -> <<"bool", doc[id]>>
    [] Kind(id) = "array" -> <<"arr", [i \in DOMAIN doc[id] |-> ScalarOf(doc[id][i])]>>
    [] OTHER -> <<"num", doc[id]>>

\* Where an element is in the file: a struct that is a variant is written under its name.
JsonPath(id) ==
  LET name(k) == CASE Kind(SubSeq(id, 1, k - 1)) # "oneof" -> <<id[k]>>
                   [] Kind(SubSeq(id, 1, k)) = "menu" -> <<tree[SubSeq(id, 1, k)].name>>
                   [] OTHER -> <<>>
  IN FoldLeft(LAMBDA so, k : so \o name(k), <<>>, [k \in 1..Len(id) |-> k])

\* An element is written if it and the menus above it are set; a selected variant always is.
Written(doc, id) ==
  Live(doc, id) /\ \A a \in (Above(id) \cup {id}) \ {<<>>} : Kind(Front(a)) # "oneof" => ~IsNone(doc, a)

\* Menu::as_json and OneOf::as_json
AsJson(doc) ==
  LET written == {id \in Ids : Written(doc, id)}
      at == [id \in written |-> JsonPath(id)]
      IsItem(id) == Kind(id) \notin {"menu", "oneof"}
  IN [path \in {at[id] : id \in written} |->
        IF \E id \in written : at[id] = path /\ IsItem(id)
        THEN ItemJson(doc, CHOOSE id \in written : at[id] = path /\ IsItem(id))
        ELSE Table]

\* What serde reads the content into, in run().
Fits(content) ==
  LET shape == ShapeOf(Root, <<>>)
  IN \A path \in DOMAIN content \cap DOMAIN shape :
    LET v == content[path]
        s == shape[path]
        keys == {p[Len(path) + 1] : p \in {q \in DOMAIN content : Len(q) > Len(path) /\ IsPrefix(path, q)}}
    IN /\ v[1] \in s.tags
       /\ v[1] = "str" /\ s.strings # {} => v[2] \in s.strings
       /\ v[1] = "obj" => s.required \subseteq keys /\ (s.oneOf # {} => \E k \in s.oneOf : keys = {k})
       /\ v[1] = "arr" => \A i \in DOMAIN v[2] : v[2][i][1] = "str"

-----------------------------------------------------------------------------
(***************************************************************************)
(* Paths.                                                                  *)
(***************************************************************************)
\* ElementResolver::resolve: variants have the path of their oneOf, which is what the path names.
\* One element or none.
Resolve(doc, path) ==
  {id \in Ids : tree[id].path = path /\ Live(doc, id) /\ (id = <<>> \/ Kind(Front(id)) # "oneof")}

\* ElementResolver::menu
MenuAt(doc, path) ==
  {m \in {IF Kind(id) = "oneof" THEN Selected(doc, id) ELSE id : id \in Resolve(doc, path)} : m # None /\ Kind(m) = "menu"}
=============================================================================
