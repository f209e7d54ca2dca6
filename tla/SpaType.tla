------------------------------ MODULE SpaType ------------------------------
(***************************************************************************)
(* The type system of pods (lib/wp/spa-type.c).  A table is a sequence of  *)
(* entries; an entry of the tree of types names a type and its parent, one *)
(* of a table of values an id and the type of its value.  A name is the    *)
(* sequence of its parts: Spa:Enum:Direction:Input ends in the short name. *)
(***************************************************************************)
EXTENDS Integers, Sequences, SequencesExt, TLC

CONSTANTS
  RootTypes,          \* SPA_TYPE_ROOT: the entries of the types PipeWire knows
  StaticTables,       \* static_id_tables: [name, values]
  Width,              \* 2^32, the values of an id
  NULL

VARIABLES extra_types, extra_id_tables

typeVars == <<extra_types, extra_id_tables>>

Entry(type, name, parent, values) ==
  [type |-> type, name |-> name, parent |-> parent, values |-> values]

(* The first entry of a table that satisfies a test, or NULL: the loops over
   struct spa_type_info. *)
Find(table, Test(_)) ==
  LET i == SelectInSeq(table, Test) IN IF i = 0 THEN NULL ELSE table[i]

Short(name) == Last(name)

Types == RootTypes \o (IF extra_types = NULL THEN <<>> ELSE extra_types)

find_by_type(type) ==
  IF type = NULL THEN NULL ELSE LET Is(e) == e.type = type IN Find(Types, Is)

find_by_name(name) == LET Is(e) == e.name = name IN Find(Types, Is)

type_from_name(name) ==
  IF find_by_name(name) = NULL THEN NULL ELSE find_by_name(name).type

type_name(type) ==
  IF find_by_type(type) = NULL THEN NULL ELSE find_by_type(type).name

type_is_object(type) ==
  /\ find_by_type(type) # NULL
  /\ find_by_type(type).parent = "Object"

type_get_values_table(type) ==
  IF find_by_type(type) = NULL THEN NULL ELSE find_by_type(type).values

(* The first value of an object type stands for its id; its own values are the
   ids. *)
type_get_object_id_values_table(type) ==
  LET info == find_by_type(type) IN
  IF type_is_object(type) /\ info.values # NULL /\ info.values[1].parent = "Id"
    THEN info.values[1].values
    ELSE NULL

(* Registered tables first, then the static ones, then the values of a type. *)
id_table_from_name(name) ==
  LET Is(t) == t.name = name
      registered == IF extra_id_tables = NULL THEN <<>> ELSE extra_id_tables
      table == Find(registered \o StaticTables, Is)
  IN IF table # NULL THEN table.values
     ELSE IF find_by_name(name) # NULL THEN find_by_name(name).values
     ELSE NULL

id_table_find_value(table, number) ==
  LET Is(e) == e.type = number IN IF table = NULL THEN NULL ELSE Find(table, Is)

id_table_find_value_from_name(table, name) ==
  LET Is(e) == e.name = name IN IF table = NULL THEN NULL ELSE Find(table, Is)

id_table_find_value_from_short_name(table, short) ==
  LET Is(e) == Short(e.name) = short IN IF table = NULL THEN NULL ELSE Find(table, Is)

(* Mutant: names of values have just one part more than that of their table. *)
id_name_find_table_one_part(name) == IF Len(name) < 2 THEN NULL ELSE id_table_from_name(Front(name))

(* The table of a value is named by what its own name begins with, less one
   part or two. *)
id_name_find_id_table(name) ==
  LET parent == Front(name) IN
  IF Len(name) < 2 THEN NULL
  ELSE IF id_table_from_name(parent) # NULL \/ Len(name) < 3 THEN id_table_from_name(parent)
  ELSE id_table_from_name(Front(parent))

id_value_from_name(name) ==
  id_table_find_value_from_name(id_name_find_id_table(name), name)

id_value_from_short_name(table_name, short) ==
  id_table_find_value_from_short_name(id_table_from_name(table_name), short)

(* A missing value has the number -1, which is SPA_ID_INVALID. *)
SPA_ID_INVALID == Width - 1
id_value_number(value) == IF value = NULL THEN SPA_ID_INVALID ELSE value.type
id_value_short_name(value) == IF value = NULL THEN NULL ELSE Short(value.name)

id_value_get_value_type(value) == IF value = NULL THEN NULL ELSE value.parent

(* The table that the value of a property is looked up in. *)
id_value_table(value) ==
  IF value.values # NULL /\ value.parent # "Array" THEN value.values
  ELSE IF type_is_object(value.parent) THEN type_get_values_table(value.parent)
  ELSE NULL

(* Mutant: the values of the property itself. *)
id_value_array_own_table(value) == IF value.values = NULL THEN NULL ELSE id_value_table(value)

(* The values of an Array property begin with the entry of its items. *)
id_value_array_item_table(value) ==
  IF value.values = NULL THEN NULL ELSE id_value_table(value.values[1])

-----------------------------------------------------------------------------
dynamic_type_init ==
  /\ extra_types = NULL
  /\ extra_types' = <<>> /\ extra_id_tables' = <<>>

dynamic_type_deinit ==
  /\ extra_types # NULL
  /\ extra_types' = NULL /\ extra_id_tables' = NULL

(* The number of the new type follows from the length of the array. *)
SPA_TYPE_VENDOR_WirePlumber == "vendor"

dynamic_type_register(name, parent, values) ==
  /\ extra_types # NULL
  /\ LET type == SPA_TYPE_VENDOR_WirePlumber \o ToString(Len(extra_types) + 1)
     IN extra_types' = Append(extra_types, Entry(type, name, parent, values))
  /\ UNCHANGED extra_id_tables

dynamic_id_table_register(name, values) ==
  /\ extra_types # NULL
  /\ extra_id_tables' = Append(extra_id_tables, [name |-> name, values |-> values])
  /\ UNCHANGED extra_types
=============================================================================
