------------------------------ MODULE Library ------------------------------
(***************************************************************************)
(* What scripts and modules build out of the library: pods by argument     *)
(* lists and by Lua tables, JSON, interests and properties, and the types  *)
(* that are registered.  Each behaviour uses one of these parts: the parts *)
(* share no state, and only the pods depend on the types.                  *)
(***************************************************************************)
EXTENDS LuaPod, FiniteSets

CONSTANTS
  Parts,
  NewTypes, NewTables,       \* what is registered: arguments, in that order
  ObjectType, ObjectId,      \* the names of the object that is built
  PodArguments,              \* sequences of what can be added: [key, format, choice, values],
  LuaFields, JsonEntries,    \* [name, natural, value] and [key, value], see below
  MaxArguments,
  WP_SPA_JSON_BUILDER_INIT_SIZE, FLT_MAX,
  Objects, Constraints, Patterns, MaxConstraints,
  Holders, Boxes, Cells, Stores, Buffers, Keys, Values

VARIABLES
  part, args,                            \* what has been added so far
  interest, matched,
  box, store, held, iterator, item, outside, alone,
  memory_kind, cell, buffer, pointer, walked, builder, lent, single

J == INSTANCE SpaJson
I == INSTANCE ObjectInterest
P == INSTANCE Properties
M == INSTANCE SpaMemory WITH Contents <- Values

interestVars == <<interest, matched>>
propertiesVars == <<box, store, held, iterator, item, outside, alone>>
memoryVars == <<memory_kind, cell, buffer, pointer, walked, builder, lent, single>>
vars == <<part, args, typeVars, interestVars, propertiesVars, memoryVars>>

Init ==
  /\ part \in Parts
  /\ args = <<>>
  /\ extra_types = NULL /\ extra_id_tables = NULL
  /\ I!InitInterest
  /\ P!InitProperties
  /\ M!InitMemory /\ (part # "memory" => memory_kind = "pod")

(* wp_init and wp_deinit, and registrations in between. *)
Register ==
  /\ part = "types"
  /\ \/ dynamic_type_init \/ dynamic_type_deinit
     \/ \E t \in NewTypes :
          find_by_name(t.name) = NULL /\ dynamic_type_register(t.name, t.parent, t.values)
     \/ \E t \in NewTables :
          id_table_from_name(t.name) = NULL /\ dynamic_id_table_register(t.name, t.values)
  /\ UNCHANGED <<part, args, interestVars, propertiesVars, memoryVars>>

(* One more argument, field or entry, with a key of its own. *)
Add(where, all, Key(_)) ==
  /\ part = where /\ Len(args) < MaxArguments
  /\ \E n \in DOMAIN all :
       /\ \A i \in DOMAIN args : Key(args[i]) # Key(all[n])
       /\ args' = Append(args, all[n])
  /\ UNCHANGED <<part, typeVars, interestVars, propertiesVars, memoryVars>>

AddPodArgument == LET Key(a) == a.key IN Add("pod", PodArguments, Key)
AddLuaField == LET Key(a) == a.name IN Add("lua", LuaFields, Key)
AddJsonEntry == LET Key(a) == a.key.l \o ToString(a.key.x) IN Add("json", JsonEntries, Key)

UseInterest ==
  /\ part = "interest" /\ I!InterestNext
  /\ UNCHANGED <<part, args, typeVars, propertiesVars, memoryVars>>

UseProperties ==
  /\ part = "properties" /\ P!PropertiesNext
  /\ UNCHANGED <<part, args, typeVars, interestVars, memoryVars>>

UseMemory ==
  /\ part = "memory" /\ M!MemoryNext
  /\ UNCHANGED <<part, args, typeVars, interestVars, propertiesVars>>

Next ==
  \/ Register \/ AddPodArgument \/ AddLuaField \/ AddJsonEntry
  \/ UseInterest \/ UseProperties \/ UseMemory

Spec == Init /\ [][Next]_vars

-----------------------------------------------------------------------------
(* Types. *)

ValueTables == {t.values : t \in {Types[i] : i \in DOMAIN Types}} \ {NULL}

(* Names and numbers of types and ids are translated to and fro without loss,
   for what PipeWire knows and for what has been registered, and stay what they
   are when more is registered. *)
TypesKeepNames ==
  part = "types" =>
  /\ \A i \in DOMAIN Types :
       /\ type_from_name(Types[i].name) = Types[i].type
       /\ type_name(Types[i].type) = Types[i].name
  /\ \A table \in ValueTables \cup {StaticTables[i].values : i \in DOMAIN StaticTables} :
       \A i \in DOMAIN table :
         /\ id_table_find_value(table, table[i].type) = table[i]
         /\ id_value_from_name(table[i].name) = table[i]
         /\ id_table_find_value_from_short_name(table, Short(table[i].name)) = table[i]
  /\ extra_id_tables # NULL =>
       \A i \in DOMAIN extra_id_tables :
         LET values == extra_id_tables[i].values
         IN /\ id_table_from_name(extra_id_tables[i].name) = values
            /\ \A j \in DOMAIN values :
                 id_value_from_short_name(extra_id_tables[i].name, Short(values[j].name)) = values[j]

-----------------------------------------------------------------------------
(* Pods by argument lists. *)

Orders == Permutations(DOMAIN args)
Reordered(f) == [i \in DOMAIN args |-> args[f[i]]]

Pod(arguments) == pod_new_object(ObjectType, ObjectId, arguments)
Request(a, format, optional) == [key |-> a.key, format |-> format, optional |-> optional]

(* What a parser asks for, and what it is to get: a value as it was given, a
   choice as a pod. *)
Asked(a) == IF a.choice = NULL THEN a.format ELSE "V"
Given(a, got) ==
  CASE a.choice # NULL ->
         /\ got.k = a.choice
         /\ a.format # "K" => got.v = a.values
         /\ Len(got.v) = Len(a.values)
    [] a.choice = NULL /\ a.format = "P" -> pod_equal(got, a.values[1])
    [] OTHER -> got = a.values[1]

AllGiven(arguments, got) ==
  got.ok /\ \A i \in DOMAIN arguments : Given(arguments[i], got.values[i])
Answers(pod, order) ==
  AllGiven(order, pod_get_object(pod,
    [i \in DOMAIN order |-> Request(order[i], Asked(order[i]), FALSE)]))

(* Keys that the pod does not have, between those that it has. *)
Absent == {n \in DOMAIN PodArguments : \A i \in DOMAIN args : args[i].key # PodArguments[n].key}
GivenAround(got) ==
  /\ got.ok /\ Len(got.values) = Len(args) + 2
  /\ got.values[1] = NULL /\ got.values[Len(args) + 2] = NULL
  /\ \A i \in DOMAIN args : Given(args[i], got.values[i + 1])
AnswersAround(pod, a) ==
  LET missing == <<Request(a, "P", TRUE)>>
      asked == [i \in DOMAIN args |-> Request(args[i], Asked(args[i]), FALSE)]
  IN /\ GivenAround(pod_get_object(pod, missing \o asked \o missing))
     /\ ~pod_get_object(pod, <<Request(a, "P", FALSE)>>).ok

(* Once fixated, a choice is answered with its first value. *)
GivenOnly(got, value) == got.ok /\ got.values[1] = value
AnswersFixated(pod) ==
  \A i \in DOMAIN args : args[i].choice # NULL =>
    LET got(p) == pod_get_object(p, <<Request(args[i], args[i].format, FALSE)>>)
    IN /\ got(pod).ok = (args[i].choice = "None")
       /\ GivenOnly(got(pod_fixate(pod)), args[i].values[1])

(* A choice by arguments of its own. *)
AnswersChoices(pod) ==
  \A i \in DOMAIN args : args[i].choice # NULL /\ args[i].format # "K" =>
    LET Alone(x) == [args[i] EXCEPT !.choice = NULL, !.values = <<x>>]
        each == [j \in DOMAIN args[i].values |-> Alone(args[i].values[j])]
        got == pod_get_object(pod, <<Request(args[i], "V", FALSE)>>)
    IN pod_equal(pod_new_choice(args[i].choice, each), got.values[1])

Rebuilt(pod) ==
  LET AddProperty(b, prop) ==
        LET p == pod_get_property(pod, prop) IN builder_add_property(b, p.key, p.value)
  IN builder_end(FoldLeft(AddProperty, builder_new_object(ObjectType, ObjectId), pod_iterator(pod)))

(* The same values in a struct and in a sequence, without the names of ids: only
   properties know what they name, and a struct passes them over. *)
Positional == SelectSeq(args, LAMBDA a : a.format # "K")
StructOfArguments ==
  LET added == SelectSeq(args, LAMBDA a : a.format # "K" \/ a.choice = NULL)
  IN builder_end(builder_add_valist(builder_new("Struct"), added))

ControlName(i) == Short(ControlTypes[1 + (i % Len(ControlTypes))].name)
Timed == [i \in DOMAIN Positional |-> Positional[i] @@ [offset |-> i, control |-> ControlName(i)]]

AnswersInTurn(struct) ==
  AllGiven(Positional, pod_get_struct(struct,
    [i \in DOMAIN Positional |-> Request(Positional[i], Asked(Positional[i]), FALSE)]))

(* One value after the other, after asking for one of another type. *)
AnswersOneByOne(struct) ==
  LET Typed(a) == a.choice = NULL /\ a.format # "P"
      Then(ok, a, next) ==
        [ok |-> ok /\ next.value # NULL /\ Given(a, next.value), parser |-> next.parser]
      After(ok, a, refused) ==
        Then(ok /\ refused.value = NULL, a,
             IF Typed(a) THEN parser_get(refused.parser, a.format)
             ELSE parser_get_pod(refused.parser))
      Read(got, a) == After(got.ok, a, parser_get(got.parser, IF Typed(a) THEN "Bytes" ELSE "Int"))
      AtEnd(last) == last.ok /\ parser_get_pod(last.parser).value = NULL
  IN AtEnd(FoldLeft(Read, [ok |-> TRUE, parser |-> parser_new_struct(struct)], Positional))

AnswersInTime(sequence) ==
  LET controls == pod_iterator(sequence)
  IN /\ Len(controls) = Len(Timed)
     /\ \A i \in DOMAIN Timed :
          LET got == pod_get_control(controls[i])
          IN /\ got.offset = Timed[i].offset /\ got.type = Timed[i].control
             /\ Given(Timed[i], IF Timed[i].choice = NULL /\ Timed[i].format # "P"
                                  THEN pod_get(got.value, Timed[i].format) ELSE got.value)

(* A pod by arguments gives back every value it was built of: in whatever order they are asked
   for, with optional values it does not have in between, by iterating over it and
   building it again, and after it was fixated; so do structs, all at once and one
   by one, and sequences, with the time and the type of each. *)
ObjectKept(pod) ==
  /\ \A f \in Orders : Answers(pod, Reordered(f))
  /\ \A n \in Absent : AnswersAround(pod, PodArguments[n])
  /\ AnswersFixated(pod) /\ AnswersChoices(pod)
  /\ pod_equal(Rebuilt(pod), pod)
StructKept(struct) == AnswersInTurn(struct) /\ AnswersOneByOne(struct)
PodsKept ==
  /\ ObjectKept(Pod(args))
  /\ StructKept(StructOfArguments)
  /\ AnswersInTime(pod_new_sequence(Timed))

-----------------------------------------------------------------------------
(* Pods by Lua tables.  The value of a field is told by how it is made: a plain
   Lua value, a pod of a type of its own, or an array, a choice, a struct, a
   sequence or an object of values. *)

RECURSIVE Made(_)
Made(v) ==
  LET All(s) == [i \in DOMAIN s |-> Made(s[i])]
      Named(s) == [i \in DOMAIN s |-> <<s[i].name, Made(s[i].value)>>]
      Controls(s) == [i \in DOMAIN s |-> [s[i] EXCEPT !.value = Made(@)]]
      Userdata(pod) == Lua("userdata", pod)
  IN CASE v.how = "plain" -> v.value
       [] v.how = "typed" -> Userdata(primitive_new(v.type, v.of, v.value))
       [] v.how = "array" -> Userdata(array_new(v.of, All(v.values)))
       [] v.how = "choice" -> Userdata(choice_new(v.kind, v.of, All(v.values)))
       [] v.how = "struct" -> Userdata(struct_new(All(v.values)))
       [] v.how = "sequence" -> Userdata(sequence_new(Controls(v.values)))
       [] v.how = "object" -> Userdata(object_new(v.of, v.id, Named(v.values)))

(* What parse() makes of it. *)
RECURSIVE Told(_)
Told(v) ==
  LET All(s) == [i \in DOMAIN s |-> Told(s[i])]
      Text(x) == Lua("string", x)
      FieldsOf(s) == [name \in {s[i].name : i \in DOMAIN s} |->
                        Told(s[CHOOSE i \in DOMAIN s : s[i].name = name].value)]
      Control(c) == Table([offset |-> Lua("integer", c.offset), typename |-> Text(c.typename),
                           value |-> Told(c.value)], <<>>)
      ItemType == IF type_from_name(v.of) = NULL THEN <<"Spa", "Id">> ELSE v.of
  IN CASE v.how \in {"plain", "typed"} -> v.value
       [] v.how = "array" ->
            Table([pod_type |-> Text("Array"), value_type |-> Text(ItemType)], All(v.values))
       [] v.how = "choice" ->
            Table([pod_type |-> Text("Choice." \o v.kind), value_type |-> Text(ItemType)], All(v.values))
       [] v.how = "struct" -> Table([pod_type |-> Text("Struct")], All(v.values))
       [] v.how = "sequence" ->
            Table([pod_type |-> Text("Sequence")], [i \in DOMAIN v.values |-> Control(v.values[i])])
       [] v.how = "object" ->
            Table([pod_type |-> Text("Object"), object_id |-> Text(v.id),
                   properties |-> Table(FieldsOf(v.values), <<>>)], <<>>)

Whole(fields) == [how |-> "object", of |-> ObjectType, id |-> ObjectId, values |-> fields]

(* Values of the type that the property has are told as they were given. *)
Natural(f) == f.natural

(* Every pod that a table describes is parsed to that table again, whichever
   order Lua visits its fields in; values that were converted to the type of
   their property are parsed to values that make the same pod. *)
PlainFields(order) == SelectSeq(order, LAMBDA a : a.value.how = "plain")
NaturalKept(whole) == SameLua(parse(Made(whole).x), Told(whole))

(* The fields with the values that they were told to have. *)
Converted(fields, told) ==
  [i \in DOMAIN fields |->
     [name |-> fields[i].name, natural |-> TRUE,
      value |-> [how |-> "plain", value |-> told[fields[i].name]]]]
MakesTheSame(fields, told) ==
  pod_equal(Made(Whole(Converted(fields, told))).x, Made(Whole(fields)).x)

LuaPodsKept ==
  \A f \in Orders :
    /\ NaturalKept(Whole(SelectSeq(Reordered(f), Natural)))
    /\ MakesTheSame(PlainFields(Reordered(f)),
                    parse(Made(Whole(Reordered(f))).x).x.fields.properties.x.fields)

(* However a pod is made, by arguments or by Lua tables, it gives back what it was
   made of. *)
PodsKeepValues ==
  /\ part = "pod" => PodsKept
  /\ part = "lua" => LuaPodsKept

-----------------------------------------------------------------------------
(* JSON.  The value of an entry is a plain Lua value, or an array or an object. *)

RECURSIVE JsonMade(_)
JsonMade(v) ==
  LET All(s) == [i \in DOMAIN s |-> [key |-> s[i].key, value |-> JsonMade(s[i].value)]]
  IN CASE v.how = "plain" -> v.value
       [] v.how = "array" -> Lua("userdata", J!array_new(All(v.values)))
       [] v.how = "object" -> Lua("userdata", J!object_new(All(v.values)))

OfType(s, type) == SelectSeq(s, LAMBDA e : e.key.l = type)

RECURSIVE JsonTold(_)
JsonTold(v) ==
  CASE v.how = "plain" -> v.value
    [] v.how = "array" ->
         LET s == OfType(v.values, "integer")
         IN Table(<<>>, [i \in DOMAIN s |-> JsonTold(s[i].value)])
    [] v.how = "object" ->
         LET s == OfType(v.values, "string")
         IN Table([key \in {s[i].key.x : i \in DOMAIN s} |->
                     JsonTold(s[CHOOSE i \in DOMAIN s : s[i].key.x = key].value)], <<>>)

Deep == 10

(* The entries that an array or an object has, made and read by arguments. *)
EntriesOf(order, how) == OfType(order, IF how = "array" THEN "integer" ELSE "string")
JsonArgument(key, x, separate) ==
  [key |-> key, x |-> IF separate /\ x.j # "json" THEN [j |-> "json", v |-> J!json_new(x)] ELSE x]
JsonOfArguments(how, arguments) ==
  IF how = "array" THEN J!json_new_array(arguments) ELSE J!json_new_object(arguments)
JsonByArguments(entries, how, separate) ==
  JsonOfArguments(how, [i \in DOMAIN entries |->
    JsonArgument(entries[i].key.x, J!Value(JsonMade(entries[i].value)), separate)])

FormatOf(v) ==
  IF v.how # "plain" THEN "J"
  ELSE [boolean |-> "b", integer |-> "i", number |-> "f", string |-> "s"][v.value.l]

ParsedByArguments(data, formats, how) ==
  IF how = "array" THEN J!json_parse_array(data, formats) ELSE J!json_parse_object(data, formats)
ReadEntry(got, e, how) ==
  /\ how = "object" => got.key = e.key.x
  /\ SameLua(IF FormatOf(e.value) = "J" THEN J!push_luajson(got.value, Deep)
                                       ELSE Lua(e.value.value.l, got.value),
             JsonTold(e.value))
ReadAll(got, entries, how) ==
  got # NULL /\ \A i \in DOMAIN entries : ReadEntry(got[i], entries[i], how)
ReadByArguments(data, entries, how) ==
  ReadAll(ParsedByArguments(data, [i \in DOMAIN entries |-> FormatOf(entries[i].value)], how),
          entries, how)
ReadByKey(data, e) ==
  SameLua(J!push_luajson(J!object_get_valist(data, <<[key |-> e.key.x, format |-> "J"]>>)[1], Deep),
          JsonTold(e.value))

(* A float may be longer than the room that a builder reserves for one. *)
RECURSIVE HasLongest(_)
HasLongest(v) ==
  IF v.how = "plain" THEN v.value = Lua("number", FLT_MAX)
  ELSE \E i \in DOMAIN v.values : HasLongest(v.values[i].value)

(* JSON that is made of a table is parsed to that table again, with the integer
   keys of an array and the names of an object, in any order of its fields; each
   field of an object is found by its name, and all of them in their order; made
   of arguments, that may be JSON of their own, it is the same text.  Only a float
   as long as FLT_MAX may be cut, where the 32 characters that
   wp_spa_json_builder_add_float reserves end: the size of the builder is then
   ahead of its text, what is in between is not defined, and nothing is said of
   what is read.  Made alone, no value is cut.  Whatever is added, also after
   that, the text and the zero behind it are written inside the memory that the
   builder has allocated: each separator and the end reserve again before more
   is written. *)
SameText(json, other) == json.data = other.data
JsonRead(how, json, table, entries) ==
  /\ SameLua(J!push_luajson(json.data, Deep), JsonTold(table))
  /\ ReadByArguments(json.data, entries, how)
  /\ how = "object" => \A i \in DOMAIN entries : ReadByKey(json.data, entries[i])
JsonWritten(json, table) == json.fits /\ (json.whole \/ HasLongest(table))
JsonKept(how, json, table, entries) ==
  LET By(separate) == JsonByArguments(entries, how, separate)
      NoneNested == \A i \in DOMAIN entries : entries[i].value.how = "plain"
  IN /\ JsonWritten(json, table)
     /\ json.whole => JsonRead(how, json, table, entries)
     /\ \A separate \in BOOLEAN :
          /\ JsonWritten(By(separate), table)
          /\ json.whole /\ By(separate).whole => SameText(json, By(separate))
     /\ NoneNested => By(TRUE).whole
JsonOfTable(how, table) ==
  JsonKept(how, JsonMade(table).x, table, EntriesOf(table.values, how))
JsonKeepsValues ==
  part = "json" =>
    \A f \in Orders, how \in {"array", "object"} :
      JsonOfTable(how, [how |-> how, values |-> Reordered(f)])

(* What a reader of wp_spa_json_builder_add_float ("Adds a float value into the
   builder") expects, and TLC refutes in the same run: a float of 46 characters is
   cut where only the 33 that are reserved for it and its zero are left. *)
FloatsFit ==
  part = "json" =>
    \A f \in Orders, how \in {"array", "object"} :
      JsonMade([how |-> how, values |-> Reordered(f)]).x.whole

-----------------------------------------------------------------------------
(* A match answers for the constraints that the interest has now, and takes what
   is NULL for empty, against its comment (see ObjectInterest). *)
MatchesMean == I!MatchesMean
NullFails == I!NullFails

(* Properties, pods and JSON are owned once, and writing to what one has made
   sure to own alone reaches only those that share it on purpose (see Properties
   and SpaMemory). *)
MemoryOwnedOnce == P!TypeOK /\ P!OneOwner /\ M!TypeOK /\ M!OneOwner
WritesStayPrivate == [][P!StaysPrivate /\ M!StaysPrivate]_<<propertiesVars, memoryVars>>
=============================================================================
