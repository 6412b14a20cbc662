------------------------------ MODULE JsonValue ------------------------------
(***************************************************************************)
(* JSON values as parson.c keeps them, and every operation on them.        *)
(*                                                                         *)
(* A value is a record; what holds others has them in items, an object with *)
(* the names beside.  A string is its bytes, a number is counted in units   *)
(* of UNIT to 1.  NoValue is the NULL pointer.  Places in an array begin at *)
(* 1.  Memory does not run out; what is allocated and freed is counted in   *)
(* JSON_Values.                                                             *)
(***************************************************************************)
EXTENDS Utf8, SequencesExt

CONSTANTS STARTING_CAPACITY, OBJECT_MAX_CAPACITY, ARRAY_MAX_CAPACITY

ASSUME CapacityAssumption ==
  /\ STARTING_CAPACITY \in Nat \ {0}
  /\ OBJECT_MAX_CAPACITY \in Nat /\ OBJECT_MAX_CAPACITY >= STARTING_CAPACITY
  /\ ARRAY_MAX_CAPACITY \in Nat /\ ARRAY_MAX_CAPACITY >= STARTING_CAPACITY

UNIT == 10000000      \* ten times finer than "%f" prints
EPSILON == 10
Dot == 46

Simple(type, atom) ==
  [type |-> type, atom |-> atom, names |-> <<>>, items |-> <<>>, capacity |-> 0]

NoValue == Simple("error", <<>>)
json_value_init_object == Simple("object", <<>>)
json_value_init_array == Simple("array", <<>>)
json_value_init_number(n) == Simple("number", <<n>>)
json_value_init_boolean(b) == Simple("boolean", <<IF b THEN 1 ELSE 0>>)
json_value_init_null == Simple("null", <<>>)
json_value_init_string(s) == IF is_valid_utf8(s) THEN Simple("string", s) ELSE NoValue

\* json_value_free: a value goes with all it holds.
RECURSIVE Nodes(_)
Nodes(v) ==
  LET held[i \in 0..Len(v.items)] == IF i = 0 THEN 0 ELSE held[i - 1] + Nodes(v.items[i])
  IN  IF v = NoValue THEN 0 ELSE 1 + held[Len(v.items)]

-----------------------------------------------------------------------------
\* Looking up.  A typed look-up yields the value or nothing.

AsType(v, type) == IF v.type = type THEN v ELSE NoValue

IndexOf(o, name) == SelectInSeq(o.names, LAMBDA n : n = name)

json_object_get_value(o, name) ==
  IF IndexOf(o, name) = 0 THEN NoValue ELSE o.items[IndexOf(o, name)]

json_object_get(o, name, type) == AsType(json_object_get_value(o, name), type)

json_array_get_value(a, i) == IF i \in DOMAIN a.items THEN a.items[i] ELSE NoValue

json_array_get(a, i, type) == AsType(json_array_get_value(a, i), type)

\* A dotted name is a key, or a key, a dot and a dotted name.
DotPosition(name) == SelectInSeq(name, LAMBDA c : c = Dot)
FirstKey(name) == SubSeq(name, 1, DotPosition(name) - 1)
OtherKeys(name) == SubSeq(name, DotPosition(name) + 1, Len(name))

\* Not the code: dots mean nothing.
Wrong_json_object_dotget_value(o, name) == json_object_get_value(o, name)

RECURSIVE json_object_dotget_value(_, _)
json_object_dotget_value(o, name) ==
  IF DotPosition(name) = 0 THEN json_object_get_value(o, name)
  ELSE json_object_dotget_value(json_object_get(o, FirstKey(name), "object"), OtherKeys(name))

json_object_dotget(o, name, type) == AsType(json_object_dotget_value(o, name), type)

-----------------------------------------------------------------------------
\* Changing.  The result of an operation: what becomes of the object or array,
\* whether it answers JSONSuccess, and by how many the values allocated grow.

Result(v, ok, net) == [value |-> v, ok |-> ok, net |-> net]
Failed(v) == Result(v, FALSE, 0)

NextCapacity(v) == IF v.capacity * 2 > STARTING_CAPACITY THEN v.capacity * 2 ELSE STARTING_CAPACITY
IsFull(v) == Len(v.items) >= v.capacity
HasRoom(v, max) == IsFull(v) => NextCapacity(v) <= max

\* Not the code: a capacity of 0 is doubled too.
WrongGrown(v) == IF IsFull(v) THEN [v EXCEPT !.capacity = @ * 2] ELSE v

Grown(v) == IF IsFull(v) THEN [v EXCEPT !.capacity = NextCapacity(v)] ELSE v

\* Not the code: a name that is there already is added again.
Wrong_json_object_add(o, name, v) ==
  IF o.type # "object" \/ v = NoValue \/ ~HasRoom(o, OBJECT_MAX_CAPACITY)
  THEN Failed(o)
  ELSE Result([Grown(o) EXCEPT !.names = Append(@, name), !.items = Append(@, v)], TRUE, 0)

\* Not the code: the last doubling is refused.
WrongLimit(o, name, v) ==
  IF o.type # "object" \/ v = NoValue \/ ~HasRoom(o, OBJECT_MAX_CAPACITY - 1)
  THEN Failed(o)
  ELSE IF json_object_get_value(o, name) # NoValue THEN Failed(Grown(o))
  ELSE Result([Grown(o) EXCEPT !.names = Append(@, name), !.items = Append(@, v)], TRUE, 0)

json_object_add(o, name, v) ==
  IF o.type # "object" \/ v = NoValue \/ ~HasRoom(o, OBJECT_MAX_CAPACITY)
  THEN Failed(o)
  ELSE IF json_object_get_value(o, name) # NoValue THEN Failed(Grown(o))
  ELSE Result([Grown(o) EXCEPT !.names = Append(@, name), !.items = Append(@, v)], TRUE, 0)

json_array_add(a, v) ==
  IF ~HasRoom(a, ARRAY_MAX_CAPACITY) THEN Failed(a)
  ELSE Result([Grown(a) EXCEPT !.items = Append(@, v)], TRUE, 0)

\* json_object_resize and json_array_resize at the end of parsing.
Trimmed(v) == [v EXCEPT !.capacity = Len(v.items)]

json_array_append_value(a, v) ==
  IF a.type # "array" \/ v = NoValue THEN Failed(a) ELSE json_array_add(a, v)

json_array_replace_value(a, i, v) ==
  IF a.type # "array" \/ v = NoValue \/ i \notin DOMAIN a.items THEN Failed(a)
  ELSE Result([a EXCEPT !.items[i] = v], TRUE, -Nodes(a.items[i]))

\* The count goes down before the last value is fetched, so it is not found.
json_array_remove(a, i) ==
  IF a.type # "array" \/ i \notin DOMAIN a.items THEN Failed(a)
  ELSE LET last    == Len(a.items)
           shorter == [a EXCEPT !.items = Front(@)]
       IN  Result(IF i = last THEN shorter
                  ELSE [shorter EXCEPT !.items[i] = json_array_get_value(shorter, last)],
                  TRUE, -Nodes(a.items[i]))

\* json_array_clear and json_object_clear
Cleared(v) ==
  IF v = NoValue THEN Failed(v)
  ELSE Result([v EXCEPT !.names = <<>>, !.items = <<>>], TRUE, 1 - Nodes(v))

\* Not the code: the old value stays in memory.
Wrong_json_object_set_value(o, name, v) ==
  LET i == IndexOf(o, name)
  IN  IF v = NoValue THEN Failed(o)
      ELSE IF i # 0 THEN Result([o EXCEPT !.items[i] = v], TRUE, 0)
      ELSE json_object_add(o, name, v)

json_object_set_value(o, name, v) ==
  LET i == IndexOf(o, name)
  IN  IF v = NoValue THEN Failed(o)
      ELSE IF i # 0 THEN Result([o EXCEPT !.items[i] = v], TRUE, -Nodes(o.items[i]))
      ELSE json_object_add(o, name, v)

\* Not the code: the objects on the way are made before the value is looked at.
Wrong_json_object_dotset_value(o, name, v) ==
  IF DotPosition(name) = 0 THEN json_object_set_value(o, name, v)
  ELSE LET key  == FirstKey(name)
           made == IF json_object_get(o, key, "object") # NoValue THEN Result(o, TRUE, 0)
                   ELSE [json_object_add(o, key, json_value_init_object) EXCEPT !.net = 1]
       IN  IF ~made.ok THEN Failed(made.value)
           ELSE LET i     == IndexOf(made.value, key)
                    inner == json_object_set_value(made.value.items[i], OtherKeys(name), v)
                IN  Result([made.value EXCEPT !.items[i] = inner.value], inner.ok,
                           made.net + inner.net)

\* Objects on the way are made if there is nothing of their name.
RECURSIVE json_object_dotset_value(_, _, _)
json_object_dotset_value(o, name, v) ==
  IF v = NoValue THEN Failed(o)
  ELSE IF DotPosition(name) = 0 THEN json_object_set_value(o, name, v)
  ELSE LET key  == FirstKey(name)
           made == IF json_object_get(o, key, "object") # NoValue THEN Result(o, TRUE, 0)
                   ELSE [json_object_add(o, key, json_value_init_object) EXCEPT !.net = 1]
       IN  IF ~made.ok THEN Failed(made.value)
           ELSE LET i     == IndexOf(made.value, key)
                    inner == json_object_dotset_value(made.value.items[i], OtherKeys(name), v)
                IN  Result([made.value EXCEPT !.items[i] = inner.value], inner.ok,
                           made.net + inner.net)

\* Not the code: only the name is moved.
Wrong_json_object_remove(o, name) ==
  LET i == IndexOf(o, name)  last == Len(o.items)
  IN  IF i = 0 THEN Failed(o)
      ELSE Result([o EXCEPT !.names = Front([@ EXCEPT ![i] = o.names[last]]), !.items = Front(@)],
                  TRUE, -Nodes(o.items[i]))

\* The last pair takes the place of the one removed.
json_object_remove(o, name) ==
  LET i == IndexOf(o, name)  last == Len(o.items)
  IN  IF i = 0 THEN Failed(o)
      ELSE Result([o EXCEPT !.names = Front([@ EXCEPT ![i] = o.names[last]]),
                            !.items = Front([@ EXCEPT ![i] = o.items[last]])],
                  TRUE, -Nodes(o.items[i]))

RECURSIVE json_object_dotremove(_, _)
json_object_dotremove(o, name) ==
  IF DotPosition(name) = 0 THEN json_object_remove(o, name)
  ELSE LET key == FirstKey(name)
           i   == IndexOf(o, key)
       IN  IF json_object_get(o, key, "object") = NoValue THEN Failed(o)
           ELSE LET inner == json_object_dotremove(o.items[i], OtherKeys(name))
                IN  [inner EXCEPT !.value = [o EXCEPT !.items[i] = inner.value]]

-----------------------------------------------------------------------------
\* Whole values.

\* Not the code: the items of an array come in the opposite order.
Wrong_json_value_deep_copy(v) ==
  IF v.type = "array" THEN [v EXCEPT !.items = Reverse(@)] ELSE v

RECURSIVE json_value_deep_copy(_)
json_value_deep_copy(v) ==
  IF v.type \notin {"array", "object"} THEN v
  ELSE LET Added(r, i) ==
             LET copy == json_value_deep_copy(v.items[i])
             IN  IF ~r.ok \/ copy = NoValue THEN Failed(r.value)
                 ELSE IF v.type = "array" THEN json_array_add(r.value, copy)
                 ELSE json_object_add(r.value, v.names[i], copy)
           all == FoldLeft(Added, Result(Simple(v.type, <<>>), TRUE, 0),
                           [i \in DOMAIN v.items |-> i])
       IN  IF all.ok THEN all.value ELSE NoValue

Near(m, n) == m - n < EPSILON /\ n - m < EPSILON

RECURSIVE json_value_equals(_, _)
json_value_equals(a, b) ==
  /\ a.type = b.type
  /\ Len(a.items) = Len(b.items)
  /\ CASE a.type = "array"  -> \A i \in DOMAIN a.items : json_value_equals(a.items[i], b.items[i])
       [] a.type = "object" -> \A i \in DOMAIN a.items :
                                 json_value_equals(a.items[i], json_object_get_value(b, a.names[i]))
       [] a.type = "number" -> Near(a.atom[1], b.atom[1])
       [] OTHER             -> a.atom = b.atom

\* Not the code: what is validated is the schema, by the names of the value.
Wrong_json_validate(schema, v) ==
  schema.type = v.type /\ \A i \in DOMAIN v.names : IndexOf(schema, v.names[i]) # 0

\* The answer of a valid value is JSONSuccess, which is 0: the loop over an
\* array takes it for a no.
RECURSIVE json_validate(_, _)
json_validate(schema, v) ==
  /\ schema # NoValue /\ v # NoValue
  /\ schema.type \in {v.type, "null"}
  /\ schema.type = "array" /\ schema.items # <<>> =>
       \A i \in DOMAIN v.items : ~json_validate(schema.items[1], v.items[i])
  /\ schema.type = "object" /\ schema.items # <<>> =>
       /\ Len(v.items) >= Len(schema.items)
       /\ \A i \in DOMAIN schema.items :
            json_validate(schema.items[i], json_object_get_value(v, schema.names[i]))
=============================================================================
