------------------------------ MODULE SpaPod -------------------------------
(***************************************************************************)
(* Pods (lib/wp/spa-pod.c): typed values, arrays and choices of values of  *)
(* one type, structs, objects with named properties and sequences of       *)
(* controls.  A pod is a record, and its layout in memory is left out: a   *)
(* builder is the sequence of what was added, a parser a pod and what is   *)
(* left of it.                                                             *)
(***************************************************************************)
EXTENDS SpaType

CONSTANT IdKeys       \* the names id-xxxxxxxx of properties, with their numbers

Containers == {"Array", "Choice", "Struct", "Object", "Sequence"}

IdKey(number) == CHOOSE key \in DOMAIN IdKeys : IdKeys[key] = number

NoPod == [t |-> "None", v |-> NULL]
pod_new(type, value) == [t |-> type, v |-> value]

pod_is(pod, type) == pod.t = type
pod_is_container(pod) == \E type \in Containers : pod_is(pod, type)

(* The type of an object is its own. *)
pod_get_spa_type(pod) == IF pod_is(pod, "Object") THEN pod.ot ELSE pod.t

(* A getter of the wrong type fails: NULL. *)
pod_get(pod, type) == IF pod_is(pod, type) THEN pod.v ELSE NULL

RECURSIVE pod_equal(_, _)
pod_equal(pod, other) ==
  LET Items(Same(_, _)) ==
        /\ Len(pod.v) = Len(other.v)
        /\ \A i \in DOMAIN pod.v : Same(pod.v[i], other.v[i])
      SameProp(p, q) == p.key = q.key /\ pod_equal(p.value, q.value)
      SameControl(p, q) ==
        p.offset = q.offset /\ p.type = q.type /\ pod_equal(p.value, q.value)
  IN /\ pod.t = other.t
     /\ CASE pod.t \in {"Array", "Choice"} ->
                pod.c = other.c /\ pod.k = other.k /\ pod.v = other.v
          [] pod.t = "Struct" -> Items(pod_equal)
          [] pod.t = "Object" -> pod.ot = other.ot /\ pod.id = other.id /\ Items(SameProp)
          [] pod.t = "Sequence" -> Items(SameControl)
          [] OTHER -> pod.v = other.v

-----------------------------------------------------------------------------
(* Builders. *)

builder_new(type) == [type |-> type, v |-> <<>>]
builder_new_choice(kind) == builder_new("Choice") @@ [kind |-> kind]

builder_new_object(of, id_name) ==
  LET type == type_from_name(of)
      id == id_table_find_value_from_short_name(type_get_object_id_values_table(type), id_name)
  IN IF id = NULL THEN NULL ELSE builder_new(type) @@ [id |-> id_value_number(id)]

builder_add_pod(b, pod) == [b EXCEPT !.v = Append(@, pod)]

(* Mutant: names id-xxxxxxxx are looked up as well. *)
KeyNumberOfName(table, key) == id_value_number(id_table_find_value_from_short_name(table, key))

KeyNumber(table, key) ==
  IF key \in DOMAIN IdKeys THEN IdKeys[key]
  ELSE id_value_number(id_table_find_value_from_short_name(table, key))

(* A property is its number and the pod that is added after it.  The number of
   a name that is not known is not written. *)
builder_add_property(b, key, pod) ==
  LET number == KeyNumber(type_get_values_table(b.type), key)
  IN builder_add_pod(b, [key |-> IF number = SPA_ID_INVALID THEN NULL ELSE number,
                         value |-> pod])

ControlTypes == id_table_from_name(<<"Spa", "Enum", "Control">>)

builder_add_control(b, offset, name, pod) ==
  LET type == id_table_find_value_from_short_name(ControlTypes, name)
  IN builder_add_pod(b, [offset |-> offset, type |-> id_value_number(type), value |-> pod])

(* An array or a choice holds bare values; the first pod gives their type. *)
builder_end(b) ==
  CASE b.type \in {"Array", "Choice"} ->
         [t |-> b.type, c |-> IF b.v = <<>> THEN "None" ELSE b.v[1].t,
          k |-> IF b.type = "Choice" THEN b.kind ELSE NULL,
          v |-> [i \in DOMAIN b.v |-> b.v[i].v]]
    [] b.type \in {"Struct", "Sequence"} -> [t |-> b.type, v |-> b.v]
    [] OTHER -> [t |-> "Object", ot |-> b.type, id |-> b.id, v |-> b.v]

(* One value of wp_spa_pod_builder_add: the format is P for a pod, K for the
   short name of an id, or the name of a type. *)
Collected(key, format, arg) ==
  CASE format \in {"P", "V", "O", "T"} -> IF arg = NULL THEN NoPod ELSE arg
    [] format = "K" ->
         pod_new("Id", id_value_number(id_table_find_value_from_short_name(id_value_table(key), arg)))
    [] OTHER -> pod_new(format, arg)

(* Each argument has a format and its values, several when it is a choice; that
   of an object a key, that of a sequence an offset and the name of a control.
   A key that is not known ends the list, and so does an offset of zero.  Names
   of ids are added to objects only, which know what they are the names of. *)
builder_add_valist(b, args) ==
  LET isObject == b.type \notin Containers
      table == type_get_values_table(b.type)
      Ends(a) == CASE isObject -> KeyNumber(table, a.key) = SPA_ID_INVALID
                   [] b.type = "Sequence" -> a.offset = 0
                   [] OTHER -> FALSE
      stop == SelectInSeq(args, Ends)
      Elements(a) ==
        LET key == IF isObject THEN id_table_find_value_from_short_name(table, a.key) ELSE NULL
        IN IF a.format = "K" /\ key = NULL THEN <<>>
           ELSE [i \in DOMAIN a.values |-> Collected(key, a.format, a.values[i])]
      Value(a) == IF a.choice = NULL THEN Elements(a)[1]
                  ELSE builder_end([builder_new_choice(a.choice) EXCEPT !.v = Elements(a)])
      Add(built, a) ==
        CASE isObject -> builder_add_property(built, a.key, Value(a))
          [] b.type = "Sequence" -> builder_add_control(built, a.offset, a.control, Value(a))
          [] a.choice = NULL /\ Elements(a) = <<>> -> built
          [] OTHER -> builder_add_pod(built, Value(a))
  IN FoldLeft(Add, b, IF stop = 0 THEN args ELSE SubSeq(args, 1, stop - 1))

pod_new_choice(kind, args) == builder_end(builder_add_valist(builder_new_choice(kind), args))
pod_new_object(of, id_name, args) ==
  builder_end(builder_add_valist(builder_new_object(of, id_name), args))
pod_new_sequence(args) == builder_end(builder_add_valist(builder_new("Sequence"), args))

-----------------------------------------------------------------------------
(* Iterators, and what an item of theirs is asked for. *)

ValueTable(pod) == type_get_values_table(pod.ot)

pod_iterator(pod) == IF pod_is_container(pod) THEN pod.v ELSE <<>>

pod_get_property(pod, prop) ==
  LET value == id_table_find_value(ValueTable(pod), prop.key)
  IN [key |-> IF value # NULL THEN id_value_short_name(value) ELSE IdKey(prop.key),
      value |-> prop.value]

pod_get_control(control) ==
  [offset |-> control.offset, value |-> control.value,
   type |-> id_value_short_name(id_table_find_value(ControlTypes, control.type))]

(* Fixed choices have the kind None and keep their values; spa_pod_object_fixate
   does this to the properties of an object. *)
pod_fixate(pod) ==
  [pod EXCEPT !.v = [i \in DOMAIN @ |->
     IF @[i].value.t = "Choice" THEN [@[i] EXCEPT !.value.k = "None"] ELSE @[i]]]

-----------------------------------------------------------------------------
(* Parsers. *)

(* spa_pod_object_find_prop: from the property after the last one that was
   found to the end, then from the beginning. *)
find_prop(props, after, key) ==
  LET at(range) == {i \in range : props[i].key = key}
      later == at((after + 1)..Len(props))
      earlier == at(1..after)
      Least(S) == CHOOSE i \in S : \A j \in S : i <= j
  IN IF later # {} THEN Least(later) ELSE IF earlier # {} THEN Least(earlier) ELSE 0

(* spa_pod_parser_can_collect: a choice passes as its value when it is fixed. *)
can_collect(pod, format) ==
  LET fixed == pod.t = "Choice" /\ pod.k = "None"
      type == IF fixed THEN pod.c ELSE pod.t
  IN CASE pod.t = "Choice" /\ format = "V" -> TRUE
       [] pod.t = "Choice" /\ ~fixed -> FALSE
       [] format = "P" -> TRUE
       [] format = "O" -> type \in {"Object", "None"}
       [] format = "T" -> type \in {"Struct", "None"}
       [] format = "K" -> type = "Id"
       [] OTHER -> type = format

Unwrapped(pod, format) ==
  IF pod.t = "Choice" /\ format # "V" /\ pod.k = "None" /\ pod.v # <<>>
    THEN pod_new(pod.c, pod.v[1]) ELSE pod

Parsed(key, pod, format) ==
  LET value == Unwrapped(pod, format) IN
  CASE format \in {"P", "V", "O", "T"} -> value
    [] format = "K" -> id_value_short_name(id_table_find_value(id_value_table(key), value.v))
    [] OTHER -> value.v

(* The items of a struct one after the other.  What is of another type than is
   asked for stays where it is. *)
parser_new_struct(pod) == [pod |-> pod, at |-> 1]
parser_next(p, value) ==
  [value |-> value, parser |-> IF value = NULL THEN p ELSE [p EXCEPT !.at = @ + 1]]
parser_get_pod(p) == parser_next(p, IF p.at <= Len(p.pod.v) THEN p.pod.v[p.at] ELSE NULL)
parser_get(p, type) ==
  parser_next(p, IF p.at <= Len(p.pod.v) THEN pod_get(p.pod.v[p.at], type) ELSE NULL)

(* Several at once: each request is a key, a format and whether it is optional.  The values so far, NULL for one that is
   missing, whether all is well and where the search goes on: from the beginning
   after a property that was not found. *)
ItemAt(pod, i) == IF pod.t = "Object" THEN pod.v[i].value ELSE pod.v[i]

Collect(key, pod, format) == IF can_collect(pod, format) THEN Parsed(key, pod, format) ELSE NULL

Took(got, i, value, optional) ==
  IF ~got.ok \/ (value = NULL /\ ~optional) THEN [got EXCEPT !.ok = FALSE]
  ELSE [got EXCEPT !.at = i, !.values = Append(@, value)]

GetAt(pod, got, r, key, i) ==
  Took(got, IF pod.t # "Object" /\ i = 0 THEN got.at ELSE i,
       IF i = 0 THEN NULL ELSE Collect(key, ItemAt(pod, i), r.format), r.optional)

GetProperty(pod, got, r, number) ==
  IF number = SPA_ID_INVALID THEN [got EXCEPT !.ok = FALSE]
  ELSE GetAt(pod, got, r, id_table_find_value_from_short_name(ValueTable(pod), r.key),
             find_prop(pod.v, got.at, number))

parser_get_valist(pod, requests) ==
  LET Get(got, r) ==
        IF pod.t = "Object" THEN GetProperty(pod, got, r, KeyNumber(ValueTable(pod), r.key))
        ELSE GetAt(pod, got, r, NULL, IF got.at < Len(pod.v) THEN got.at + 1 ELSE 0)
  IN FoldLeft(Get, [ok |-> TRUE, at |-> 0, values |-> <<>>], requests)

Refused == [ok |-> FALSE, at |-> 0, values |-> <<>>]
pod_get_object(pod, requests) ==
  IF pod_is(pod, "Object") THEN parser_get_valist(pod, requests) ELSE Refused
pod_get_struct(pod, requests) ==
  IF pod_is(pod, "Struct") THEN parser_get_valist(pod, requests) ELSE Refused
=============================================================================
