------------------------------ MODULE LuaPod -------------------------------
(***************************************************************************)
(* Pods in Lua scripts (module-lua-scripting/api/pod.c): the constructors  *)
(* that make a pod of Lua values, converting them to the type that a       *)
(* property asks for, and parse(), which makes Lua values of a pod.        *)
(*                                                                         *)
(* First the values of Lua scripts, as the C side sees them on the stack.  *)
(* An integer and a number with a fraction are both numbers in Lua; a      *)
(* table has fields with names, and an array part.  Userdata holds a pod   *)
(* or JSON that was made before.                                           *)
(***************************************************************************)
EXTENDS SpaPod

Lua(type, x) == [l |-> type, x |-> x]
Nil == Lua("nil", FALSE)
Table(fields, array) == Lua("table", [fields |-> fields, array |-> array])

(* Values of different types are different, whatever they hold. *)
RECURSIVE SameLua(_, _)
SameLua(a, b) ==
  LET Same(f, g) == DOMAIN f = DOMAIN g /\ \A i \in DOMAIN f : SameLua(f[i], g[i]) IN
  /\ a.l = b.l
  /\ IF a.l = "table"
       THEN Same(a.x.fields, b.x.fields) /\ Same(a.x.array, b.x.array)
       ELSE a.x = b.x

-----------------------------------------------------------------------------
(* Text of a number, and strtol. *)
strtol(text) ==
  LET Numbers == {n \in 0..Width : ToString(n) = text} IN
  IF Numbers = {} THEN 0 ELSE CHOOSE n \in Numbers : TRUE

Int32(n) == LET m == n % Width IN IF 2 * m < Width THEN m ELSE m - Width

(* Bytes that a number is made of are text up to the first zero, and more. *)
Bytes(text, rest) == [text |-> text, rest |-> rest]

-----------------------------------------------------------------------------
(* primitive_lua_types: which Lua values a type is made of, and how.  NULL when
   the value is refused. *)

AsBoolean(a) ==
  CASE a.l = "boolean" -> a.x
    [] a.l = "integer" -> a.x > 0
    [] a.l = "string" -> a.x \in {"true", "1"}
    [] OTHER -> NULL

(* The names of ids are those of the property; an unknown one is id -1. *)
AsId(a, key) ==
  CASE a.l = "integer" -> a.x % Width
    [] a.l = "string" /\ key # NULL ->
         IF id_value_table(key) = NULL THEN NULL
         ELSE id_value_number(id_table_find_value_from_short_name(id_value_table(key), a.x))
    [] OTHER -> NULL

AsInteger(a) ==
  CASE a.l = "boolean" -> IF a.x THEN 1 ELSE 0
    [] a.l = "integer" -> a.x
    [] a.l = "string" -> strtol(a.x)
    [] OTHER -> NULL

AsFloat(a) ==
  CASE a.l = "boolean" -> IF a.x THEN 1 ELSE 0
    [] a.l = "number" -> a.x
    [] OTHER -> NULL

AsString(a) ==
  CASE a.l = "boolean" -> IF a.x THEN "true" ELSE "false"
    [] a.l = "integer" -> ToString(a.x)
    [] a.l = "number" -> ToString(a.x) \o ".000000"
    [] a.l = "string" -> a.x
    [] OTHER -> NULL

AsBytes(a) ==
  CASE a.l \in {"integer", "number"} -> Bytes(ToString(a.x), TRUE)
    [] a.l = "string" -> Bytes(a.x, FALSE)
    [] OTHER -> NULL

Primitive(type, key, a) ==
  CASE type = "Bool" -> AsBoolean(a)
    [] type = "Id" -> AsId(a, key)
    [] type = "Int" /\ AsInteger(a) # NULL -> Int32(AsInteger(a))
    [] type = "Long" -> AsInteger(a)
    [] type \in {"Float", "Double"} -> AsFloat(a)
    [] type = "String" -> AsString(a)
    [] type = "Bytes" -> AsBytes(a)
    [] type = "Fd" /\ a.l # "boolean" -> AsInteger(a)
    [] OTHER -> NULL

(* Pod.Boolean, Pod.Id, Pod.Int and so on: Lua's own conversions.  An Id may be
   given by the table that it is of, and its name there. *)
primitive_new(type, of, a) ==
  CASE type = "Bool" -> pod_new(type, ~(a.l = "nil" \/ (a.l = "boolean" /\ ~a.x)))
    [] type = "Id" /\ a.l = "string" ->
         LET value == id_table_find_value_from_short_name(id_table_from_name(of), a.x)
         IN IF value = NULL THEN NULL ELSE pod_new(type, value.type)
    [] type \in {"Int", "Id"} -> pod_new(type, IF type = "Int" THEN Int32(a.x) ELSE a.x % Width)
    [] type = "Bytes" -> pod_new(type, AsBytes(a))
    [] OTHER -> pod_new(type, a.x)

(* A pod that a script holds must be of the type of the property, or a choice
   of values of that type. *)
is_pod_type_compatible(type, pod) ==
  \/ type = pod_get_spa_type(pod)
  \/ pod_is(pod, "Choice") /\ type = pod.c

AddField(b, name, a, key) ==
  LET type == id_value_get_value_type(key)
      primitive == IF key = NULL THEN NULL ELSE Primitive(type, key, a)
  IN CASE primitive # NULL -> builder_add_property(b, name, pod_new(type, primitive))
       [] a.l = "userdata" /\ (key = NULL \/ is_pod_type_compatible(type, a.x)) ->
            builder_add_property(b, name, a.x)
       [] OTHER -> NULL

object_add_property(b, table, name, a) ==
  AddField(b, name, a, id_table_find_value_from_short_name(table, name))

(* A builder that was refused a value is dropped. *)
Finished(b) == IF b = NULL THEN NULL ELSE builder_end(b)

(* Pod.Object: lua_next visits the fields in any order, here the one given. *)
object_new(of, id_name, fields) ==
  LET table == type_get_values_table(type_from_name(of))
      Add(b, f) == IF b = NULL THEN NULL ELSE object_add_property(b, table, f[1], f[2])
  IN Finished(FoldLeft(Add, builder_new_object(of, id_name), fields))

(* What Struct and Sequence take: the type follows from the value. *)
Untyped(a) ==
  CASE a.l = "boolean" -> pod_new("Bool", a.x)
    [] a.l = "integer" -> pod_new("Long", a.x)
    [] a.l = "number" -> pod_new("Double", a.x)
    [] a.l = "string" -> pod_new("String", a.x)
    [] a.l = "userdata" -> a.x
    [] OTHER -> NULL

struct_new(array) ==
  IF \E i \in DOMAIN array : Untyped(array[i]) = NULL THEN NULL
  ELSE builder_end([builder_new("Struct") EXCEPT !.v = [i \in DOMAIN array |-> Untyped(array[i])]])

(* Entries without a type or a value are passed over. *)
sequence_new(controls) ==
  LET Add(b, c) == IF Untyped(c.value) = NULL THEN b
                   ELSE builder_add_control(b, c.offset, c.typename, Untyped(c.value))
  IN builder_end(FoldLeft(Add, builder_new("Sequence"), controls))

(* The first field names the type of the others, or the table of their names. *)
AddItems(b, type, table, array) ==
  LET New(of, x) == IF x = NULL THEN NULL ELSE pod_new(of, x)
      Number(value) == IF value = NULL THEN NULL ELSE id_value_number(value)
      Item(a) ==
        CASE type # NULL -> New(type, Primitive(type, NULL, a))
          [] type = NULL /\ a.l \in {"integer", "number"} -> pod_new("Id", a.x % Width)
          [] type = NULL /\ a.l = "string" ->
               New("Id", Number(id_table_find_value_from_short_name(table, a.x)))
          [] OTHER -> NULL
      Add(built, pod) == IF built = NULL \/ pod = NULL THEN NULL ELSE builder_add_pod(built, pod)
  IN IF type = NULL /\ table = NULL THEN NULL
     ELSE FoldLeft(LAMBDA built, a : Add(built, Item(a)), b, array)

builder_add_table(b, first, array) ==
  AddItems(b, type_from_name(first), id_table_from_name(first), array)

array_new(first, array) == Finished(builder_add_table(builder_new("Array"), first, array))
choice_new(kind, first, array) ==
  Finished(builder_add_table(builder_new_choice(kind), first, array))

-----------------------------------------------------------------------------
(* parse() *)

IdName(table, number) ==
  LET value == id_table_find_value(table, number)
  IN IF value = NULL THEN Lua("integer", number) ELSE Lua("string", id_value_short_name(value))

(* The items of an array or a choice; those of other types are left out. *)
push_primitive_values(pod, table) ==
  LET Item(x) ==
        CASE pod.c = "Bool" -> Lua("boolean", x)
          [] pod.c = "Id" -> IdName(table, x)
          [] pod.c \in {"Int", "Long"} -> Lua("integer", x)
          [] pod.c \in {"Float", "Double", "Fd"} -> Lua("number", x)
          [] OTHER -> NULL
      Known(a) == a # NULL
  IN SelectSeq([i \in DOMAIN pod.v |-> Item(pod.v[i])], Known)

Fields(type) == [pod_type |-> Lua("string", type)]

RECURSIVE push_luapod(_, _)
push_luapod(pod, key) ==
  LET idtable ==
        CASE key = NULL -> NULL
          [] pod.t = "Array" ->
               IF id_value_get_value_type(key) = "Array" THEN id_value_array_item_table(key) ELSE NULL
          [] OTHER -> id_value_table(key)
      Property(i) == pod_get_property(pod, pod.v[i])
      KeyOf(i) == id_table_find_value_from_short_name(ValueTable(pod), Property(i).key)
      Control(c) == Table([offset |-> Lua("integer", pod_get_control(c).offset),
                           typename |-> Lua("string", pod_get_control(c).type),
                           value |-> push_luapod(c.value, NULL)], <<>>)
  IN CASE pod_is(pod, "None") -> Nil
       [] pod_is(pod, "Bool") -> Lua("boolean", pod.v)
       [] pod_is(pod, "Id") ->
            IdName(IF id_value_get_value_type(key) = "Id" THEN idtable ELSE NULL, pod.v)
       [] pod.t \in {"Int", "Long", "Fd"} -> Lua("integer", pod.v)
       [] pod.t \in {"Float", "Double"} -> Lua("number", pod.v)
       [] pod_is(pod, "String") -> Lua("string", pod.v)
       [] pod_is(pod, "Bytes") -> Lua("string", pod.v.text)
       [] pod_is(pod, "Object") ->
            Table(Fields("Object") @@
              [object_id |-> IdName(type_get_object_id_values_table(pod.ot), pod.id),
               properties |-> Table(
                 [name \in {Property(i).key : i \in DOMAIN pod.v} |->
                    LET i == CHOOSE i \in DOMAIN pod.v :
                               /\ Property(i).key = name
                               /\ \A j \in DOMAIN pod.v : Property(j).key = name => j <= i
                    IN push_luapod(Property(i).value, KeyOf(i))], <<>>)], <<>>)
       [] pod_is(pod, "Struct") ->
            Table(Fields("Struct"), [i \in DOMAIN pod.v |-> push_luapod(pod.v[i], NULL)])
       [] pod_is(pod, "Sequence") ->
            Table(Fields("Sequence"), [i \in DOMAIN pod.v |-> Control(pod.v[i])])
       [] pod_is(pod, "Array") ->
            Table(Fields("Array") @@ [value_type |-> Lua("string", type_name(pod.c))],
                  push_primitive_values(pod, idtable))
       [] pod_is(pod, "Choice") ->
            Table(Fields("Choice." \o pod.k) @@ [value_type |-> Lua("string", type_name(pod.c))],
                  push_primitive_values(pod, idtable))

parse(pod) == push_luapod(pod, NULL)
=============================================================================
