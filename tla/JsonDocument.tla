---------------------------- MODULE JsonDocument ----------------------------
(***************************************************************************)
(* A document in the hands of a program: built up, changed, copied, written *)
(* and read again by calls of parson.h, in any order.  Instead of that a   *)
(* behaviour may let a text of JsonTexts grow.                             *)
(***************************************************************************)
EXTENDS JsonTexts

CONSTANTS           \* functions on the kinds of documents:
  Texts,            \* texts a document may be read from
  Keys,             \* names, some with dots
  Fresh,            \* values a program makes and hands over
  MaxNodes,         \* bound: values in the document
  MaxLeaks          \* bound: values allocated that belong to nothing any more

VARIABLES
  doc,        \* the document
  live,       \* JSON_Values allocated and not freed
  answer      \* of the last call: success or failure, of a set apart

vars == <<textVars, doc, live, answer>>

\* A document that has been read holds what has been allocated, unless reading has
\* failed half way.
DocumentInit ==
  /\ kind \in DOMAIN Keys
  /\ text = <<>> /\ count = 0
  /\ doc \in {json_value_init_object, json_value_init_array}
             \cup ({json_parse_string(t) : t \in Texts[kind]} \ {NoValue})

Init ==
  /\ \/ TextInit /\ doc = NoValue
     \/ DocumentInit
  /\ live = Nodes(doc)
  /\ answer = "success"

-----------------------------------------------------------------------------
\* Places in the document: the positions to follow from the root.

RECURSIVE Paths(_), ValueAt(_, _), Replaced(_, _, _)
Paths(v) == {<<>>} \cup UNION {{<<i>> \o p : p \in Paths(v.items[i])} : i \in DOMAIN v.items}
ValueAt(v, path) == IF path = <<>> THEN v ELSE ValueAt(v.items[Head(path)], Tail(path))
Replaced(v, path, w) ==
  IF path = <<>> THEN w
  ELSE [v EXCEPT !.items[Head(path)] = Replaced(@, Tail(path), w)]

Places(type) == {p \in Paths(doc) : ValueAt(doc, p).type = type}

\* A call that works on the object or array at a place; allocated is what has been
\* made for it and not been freed again.
Apply(path, result, allocated, failure) ==
  /\ doc' = Replaced(doc, path, result.value)
  /\ live' = live + allocated + result.net
  /\ answer' = IF result.ok THEN "success" ELSE failure

\* A value made for a call is freed if the call fails.
OrFreed(result, v) == IF result.ok THEN Nodes(v) ELSE 0

-----------------------------------------------------------------------------
\* Objects.

\* json_object_set_string, _number, _boolean, _null; and json_object_set_value, with
\* a container: nothing is freed if it fails.
SetValue(path, name, v) ==
  Apply(path, json_object_set_value(ValueAt(doc, path), name, v), Nodes(v), "failed set")

\* json_object_dotset_string, _number, _boolean, _null.
DotsetValue(path, name, v) ==
  LET result == json_object_dotset_value(ValueAt(doc, path), name, v)
  IN  Apply(path, result, OrFreed(result, v), "failure")

RemoveName(path, name) ==
  Apply(path, json_object_remove(ValueAt(doc, path), name), 0, "failure")

Dotremove(path, name) ==
  Apply(path, json_object_dotremove(ValueAt(doc, path), name), 0, "failure")

\* json_object_clear and json_array_clear.
Clear(path) == Apply(path, Cleared(ValueAt(doc, path)), 0, "failure")

-----------------------------------------------------------------------------
\* Arrays.

\* json_array_append_string, _number, _boolean, _null.
AppendValue(path, v) ==
  LET result == json_array_append_value(ValueAt(doc, path), v)
  IN  Apply(path, result, OrFreed(result, v), "failure")

\* json_array_replace_string, _number, _boolean, _null.
ReplaceValue(path, i, v) ==
  LET result == json_array_replace_value(ValueAt(doc, path), i, v)
  IN  Apply(path, result, OrFreed(result, v), "failure")

RemoveAtIndex(path, i) ==
  Apply(path, json_array_remove(ValueAt(doc, path), i), 0, "failure")

-----------------------------------------------------------------------------
\* Whole documents.

\* If there is a new document the old one is freed.
Becomes(new) ==
  /\ new # NoValue
  /\ doc' = new
  /\ live' = live + Nodes(new) - Nodes(doc)
  /\ answer' = "success"

\* The document is replaced by a copy of it.
Copy == Becomes(json_value_deep_copy(doc))

\* It is written, and what is read of that takes its place.
Reread ==
  LET Again(written) == IF written = NoText THEN NoValue ELSE json_parse_string(written)
  IN  Becomes(Again(json_serialize_to_string(doc)))

Call ==
  \/ \E path \in Places("object") :
       \/ \E name \in Keys[kind] : \/ \E v \in Fresh[kind] : \/ SetValue(path, name, v)
                                                 \/ DotsetValue(path, name, v)
                             \/ RemoveName(path, name)
                             \/ Dotremove(path, name)
       \/ Clear(path)
  \/ \E path \in Places("array") :
       \/ \E v \in Fresh[kind] : \/ AppendValue(path, v)
                           \/ \E i \in 1..(Len(ValueAt(doc, path).items) + 1) : ReplaceValue(path, i, v)
       \/ \E i \in 1..(Len(ValueAt(doc, path).items) + 1) : RemoveAtIndex(path, i)
       \/ Clear(path)
  \/ Copy
  \/ Reread

\* What is allocated and belongs to the document no more.
Leaked == live - Nodes(doc)

Bounded == Cardinality(Paths(doc')) <= MaxNodes[kind] /\ Leaked' <= MaxLeaks[kind]

Next ==
  \/ Grow /\ UNCHANGED <<doc, live, answer>>
  \/ doc # NoValue /\ Call /\ Bounded /\ UNCHANGED textVars

Spec == Init /\ [][Next]_vars

-----------------------------------------------------------------------------
\* Names are unique and stand beside their values, and no object or array has
\* more than fits into what was allocated for it: neither failed calls nor removals
\* nor the trimming after parsing let count and capacity get out of step.
TablesSound ==
  \A p \in Places("object") \cup Places("array") :
    LET v == ValueAt(doc, p)
    IN  /\ Len(v.items) <= v.capacity
        /\ v.type = "object" => /\ Len(v.names) = Len(v.items)
                                /\ \A i, j \in DOMAIN v.names : v.names[i] = v.names[j] => i = j
                                /\ v.capacity <= OBJECT_MAX_CAPACITY
        /\ v.type = "array" => v.capacity <= ARRAY_MAX_CAPACITY

\* A key can be added wherever less than half of the limit is taken; above that it
\* depends on the capacity, which a document that was read has trimmed.
NewKeysFit ==
  \A p \in Places("object") :
    LET o == ValueAt(doc, p)
        absent == {k \in Keys[kind] : DotPosition(k) = 0 /\ IndexOf(o, k) = 0}
    IN  2 * Len(o.items) <= OBJECT_MAX_CAPACITY =>
          \A k \in absent : json_object_add(o, k, json_value_init_null).ok

\* Values are told apart by what they hold, not by the room they have.
RECURSIVE Content(_)
Content(v) ==
  [v EXCEPT !.capacity = 0, !.items = [i \in DOMAIN @ |-> Content(@[i])]]

\* The root object as a function from names to contents, unless it holds numbers
\* that are written with fewer digits than they have.
RootTable ==
  [k \in IF kind = "printed" THEN {} ELSE Range(doc.names) |->
     Content(json_object_get_value(doc, k))]

Root == INSTANCE FiniteMap WITH table <- RootTable

\* Each call changes what one name of the root stands for, or empties the root;
\* growing, moving the last pair, copying and writing and reading again lose
\* nothing and mix nothing up.
RootIsATable == Root!Spec

\* A call that answers JSONFailure has changed nothing, though it may have gone
\* half way: no object on the way of a dotted name is left behind.
FailureChangesNothing == [][answer' # "success" => Content(doc') = Content(doc)]_vars

Holes(d) == {p \in Paths(d) : ValueAt(d, p) = NoValue}

\* What was allocated is freed or in the document, but for two calls: setting a
\* fresh value in a full object, and json_array_remove, which loses the last item.
OnlyKnownLeaks ==
  [][Leaked' # Leaked => answer' = "failed set" \/ Holes(doc') \ Holes(doc) # {}]_vars

\* What has been set under a dotted name is found under it.
DotsetIsFound ==
  \A p \in Places("object") : \A name \in Keys[kind], v \in Fresh[kind] :
    LET result == json_object_dotset_value(ValueAt(doc, p), name, v)
    IN  result.ok => json_object_dotget(result.value, name, v.type) = v

\* An object validates against itself and against itself without one of its
\* names, and not the other way round.
SchemasAreSubsets ==
  (doc.type = "object" /\ Places("array") = {}) =>
    /\ json_validate(doc, doc)
    /\ \A i \in DOMAIN doc.names :
         LET less == json_object_remove(doc, doc.names[i]).value
         IN  json_validate(less, doc) /\ (less.items # <<>> => ~json_validate(doc, less))

IsReadable(p) ==
  LET v == ValueAt(doc, p)
  IN  /\ Len(p) <= MAX_NESTING
      /\ v.type = "string" => ~HasControl(v.atom)
      /\ \A i \in DOMAIN v.names : ~HasControl(v.names[i])

\* What is written fills its buffer to the last byte, and is read as an equal
\* document, unless a value lies too deep for the parser or a string holds a control
\* character.
WrittenIsRead ==
  LET written == json_serialize_to_string(doc)
  IN  IF Holes(doc) # {} THEN written = NoText
      ELSE /\ Len(written) + 1 = json_serialization_size(doc)
           /\ LET again == json_parse_string(written)
              IN  IF \A p \in Paths(doc) : IsReadable(p)
                  THEN json_value_equals(again, doc) /\ json_value_equals(doc, again)
                  ELSE again = NoValue

\* A copy holds the same and owns nothing of the original.
CopyIsEqual ==
  LET copy == json_value_deep_copy(doc)
  IN  IF Holes(doc) # {} THEN copy = NoValue
      ELSE json_value_equals(copy, doc) /\ Nodes(copy) = Nodes(doc)

\* There is room where the limits promise it, and names stay with their values.
CapacityIsSound == TablesSound /\ NewKeysFit

\* A call that fails leaves the document as it was, and nothing it has allocated.
FailuresAreClean == FailureChangesNothing /\ OnlyKnownLeaks

\* What one call does another finds: set and get, copy and compare, remove and
\* validate.
CallsAgree == DotsetIsFound /\ CopyIsEqual /\ SchemasAreSubsets

\* What is written is read again, strings by themselves and documents as a whole.
TextsRoundTrip == StringsAreReread /\ WrittenIsRead

-----------------------------------------------------------------------------
\* parson.h of json_array_remove: "Frees and removes value at given index"; the
\* comment in it: "Replace value with one from the end of array".  So what is
\* left are values.
NoHoles == Holes(doc) = {}
=============================================================================
