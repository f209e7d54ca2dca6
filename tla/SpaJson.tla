------------------------------ MODULE SpaJson ------------------------------
(***************************************************************************)
(* JSON in the relaxed syntax of PipeWire (lib/wp/spa-json.c).  Text is a  *)
(* sequence of tokens: brackets, separators, quoted strings and bare       *)
(* words.  The builder keeps the room it has allocated, in characters.     *)
(* At the end JSON in Lua scripts (module-lua-scripting/api/json.c):       *)
(* constructors that make JSON of the entries of a table, and parse(),     *)
(* which makes Lua values of JSON.                                         *)
(***************************************************************************)
EXTENDS Integers, Sequences, SequencesExt, TLC

CONSTANTS
  WP_SPA_JSON_BUILDER_INIT_SIZE, NULL,
  FLT_MAX,                      \* the float with the longest text
  Nil, Lua(_, _), Table(_, _)   \* the values of Lua scripts, those of LuaPod

(* A token is a kind and its text; brackets and separators are their own kind. *)
Mark(c) == [k |-> c, s |-> c]
Quoted(s) == [k |-> "quoted", s |-> s]
Bare(s) == [k |-> "bare", s |-> s]
Chars(token) == IF token.k = "quoted" THEN Len(token.s) + 2 ELSE Len(token.s)
Open == {"[", "{"}
Close == {"]", "}"}
Ends == Close \cup {",", ":"}

-----------------------------------------------------------------------------
(* Builders: what is written, its size, the size that is allocated. *)

builder_new(c) ==
  [data |-> <<Mark(c)>>, size |-> 1, max_size |-> WP_SPA_JSON_BUILDER_INIT_SIZE,
   add_separator |-> FALSE, fits |-> TRUE, whole |-> TRUE]

(* Mutant: room for what is added, without what is there. *)
ensure_max_size(b, size) ==
  LET new_size == size + 1
  IN IF new_size > b.max_size THEN [b EXCEPT !.max_size = 2 * new_size] ELSE b

ensure_allocated_max_size(b, size) ==
  LET new_size == b.size + size + 1
  IN IF new_size > b.max_size THEN [b EXCEPT !.max_size = 2 * new_size] ELSE b

(* Whether all that was written was allocated, with the zero after it, and whether
   all of it was written, is kept for the reader of the model. *)
Written(b, data, size) ==
  [b EXCEPT !.data = @ \o data, !.size = @ + size, !.fits = @ /\ b.size + size < b.max_size]

Write(b, token) == Written(b, <<token>>, Chars(token))

(* Room is a size_t: behind the end of the memory there is no lack of it. *)
Lacks(b, size) == b.size <= b.max_size /\ b.max_size - b.size < size

(* vsnprintf stops where the room ends, and the size grows by what it would have
   written. *)
builder_add_formatted(b, word) ==
  IF Lacks(b, Len(word) + 1) THEN [b EXCEPT !.data = Append(@, Bare(word)),
                                            !.size = @ + Len(word), !.whole = FALSE]
  ELSE Write(b, Bare(word))

(* Before a property of an object, or a value of an array. *)
ensure_separator(b, for_property) ==
  IF (b.data[1].s = "{") # for_property THEN b
  ELSE IF b.add_separator
    THEN Written(ensure_allocated_max_size(b, 2), <<Mark(",")>>, 2)
    ELSE [b EXCEPT !.add_separator = TRUE]

(* Strings are encoded once to learn their size, and again when it was too
   much. *)
AddQuoted(b, text, more) ==
  LET size == Len(text) + 2
      roomy == IF Lacks(b, size + 1 + more) THEN ensure_allocated_max_size(b, size + more) ELSE b
  IN Write(roomy, Quoted(text))

builder_add_property(b, key) ==
  Write(AddQuoted(ensure_separator(b, TRUE), key, 1), Mark(":"))

builder_add_string(b, text) == AddQuoted(ensure_separator(b, FALSE), text, 0)

(* null, a boolean, a number: the room that is asked for depends on the kind. *)
builder_add_bare(b, word, room) ==
  builder_add_formatted(ensure_allocated_max_size(ensure_separator(b, FALSE), room), word)

AddJson(roomy, json) ==
  IF Lacks(roomy, json.size + 1) THEN roomy
  ELSE [Written(roomy, json.data, json.size) EXCEPT !.fits = @ /\ json.fits,
                                                    !.whole = @ /\ json.whole]

builder_add_json(b, json) ==
  AddJson(ensure_allocated_max_size(ensure_separator(b, FALSE), json.size), json)

builder_end(b) ==
  LET roomy == ensure_allocated_max_size(b, 2)
  IN Write(roomy, Mark(IF b.data[1].s = "{" THEN "}" ELSE "]"))

-----------------------------------------------------------------------------
(* Values: NULL, [j, v] for a boolean, int, float or string, and [j, json] for
   one that was built before.  wp_spa_json_new_* and the builder write the same. *)

Digits(n) == ToString(n)

(* "%.6f" of the largest float, which has 39 digits before the point. *)
Longest == "340282346638528859811704183484516925440.000000"

Word(x) ==
  CASE x.j = "float" /\ x.v = FLT_MAX -> Longest
    [] x.j = "null" -> "null"
    [] x.j = "boolean" -> IF x.v THEN "true" ELSE "false"
    [] x.j = "int" -> Digits(x.v)
    [] x.j = "float" -> Digits(x.v) \o ".000000"

Reserved(x) ==
  CASE x.j = "null" -> 4
    [] x.j = "boolean" -> IF x.v THEN 4 ELSE 5
    [] x.j = "int" -> 16
    [] x.j = "float" -> 32

builder_add_value(b, x) ==
  CASE x.j = "string" -> builder_add_string(b, x.v)
    [] x.j = "json" -> builder_add_json(b, x.v)
    [] OTHER -> builder_add_bare(b, Word(x), Reserved(x))

Json(b) == [data |-> b.data, size |-> b.size, fits |-> b.fits, whole |-> b.whole]

(* Values that are made alone.  A string has room for its characters first. *)
builder_new_empty(size) ==
  [data |-> <<>>, size |-> 0, max_size |-> size, add_separator |-> FALSE,
   fits |-> TRUE, whole |-> TRUE]
json_new_string(text) == Json(AddQuoted(builder_new_empty(Len(text)), text, 0))
json_new_formatted(word) ==
  [data |-> <<Bare(word)>>, size |-> Len(word), fits |-> TRUE, whole |-> TRUE]
json_new(x) == IF x.j = "string" THEN json_new_string(x.v) ELSE json_new_formatted(Word(x))

(* Arguments are a value each; those of an object have a key. *)
builder_add_valist(b, args) ==
  LET Add(built, a) ==
        builder_add_value(IF b.data[1].s = "{" THEN builder_add_property(built, a.key) ELSE built, a.x)
  IN FoldLeft(Add, b, args)

json_new_array(args) == Json(builder_end(builder_add_valist(builder_new("["), args)))
json_new_object(args) == Json(builder_end(builder_add_valist(builder_new("{"), args)))

json_is(data, c) == data # <<>> /\ data[1].k = c

-----------------------------------------------------------------------------
(* spa_json_next: the place of the next token behind separators, 0 at the end of
   the array or object, and the place behind it.  A bare word ends at a
   separator or at a closing bracket only. *)

Skip(data, i) ==
  LET later == {j \in i..Len(data) : data[j].k \notin {",", ":"}}
  IN IF later = {} THEN 0
     ELSE LET j == CHOOSE j \in later : \A k \in later : j <= k
          IN IF data[j].k \in Close THEN 0 ELSE j

Behind(data, i) ==
  IF data[i].k # "bare" THEN i + 1
  ELSE CHOOSE j \in (i + 1)..(Len(data) + 1) :
         /\ j = Len(data) + 1 \/ data[j].k \in Ends
         /\ \A k \in (i + 1)..(j - 1) : data[k].k \notin Ends

(* How many tokens the array or object at i has behind its opening bracket,
   found by advancing through what is nested in it. *)
RECURSIVE check_nested_size(_, _), EndOfNested(_, _, _)
check_nested_size(data, i) ==
  IF data[i].k \in Open THEN EndOfNested(data, i + 1, Skip(data, i + 1)) - i ELSE 0

(* The place behind the value at i. *)
BehindValue(data, i) ==
  IF data[i].k \in Open THEN i + check_nested_size(data, i) + 1 ELSE Behind(data, i)

EndOfNested(data, i, next) ==
  IF next = 0
    THEN CHOOSE j \in i..Len(data) : data[j].k \in Close /\ \A k \in i..(j - 1) : data[k].k \notin Close
    ELSE LET after == BehindValue(data, next) IN EndOfNested(data, after, Skip(data, after))

(* The parser advances over one value: the text it spans, and what is left. *)
Spanned(data, at, behind) == [curr |-> SubSeq(data, at, behind - 1), next |-> behind]
AdvanceTo(data, at) == IF at = 0 THEN NULL ELSE Spanned(data, at, BehindValue(data, at))
parser_advance(data, i) == AdvanceTo(data, Skip(data, i))

RECURSIVE Advances(_, _)
Advances(data, step) ==
  IF step = NULL THEN <<>>
  ELSE <<step.curr>> \o Advances(data, parser_advance(data, step.next))

(* The items of an array, the keys and values of an object in turn; other JSON
   has none. *)
json_iterator(data) == IF data[1].k \in Open THEN Advances(data, parser_advance(data, 2)) ELSE <<>>

-----------------------------------------------------------------------------
(* The meaning of one value's text. *)

Text(data) == FoldLeft(LAMBDA text, token : text \o token.s, "", data)

is_bare(data) == data[1].k = "bare"
is_null(data) == is_bare(data) /\ Text(data) = "null"
parse_boolean(data) == IF is_bare(data) /\ Text(data) \in {"true", "false"} THEN Text(data) = "true" ELSE NULL

Ints == 0..9

parse_int(data) ==
  LET same == {n \in Ints : Digits(n) = Text(data)}
  IN IF is_bare(data) /\ same # {} THEN CHOOSE n \in same : TRUE ELSE NULL

(* An int is a float as well. *)
parse_float(data) ==
  LET same == {n \in Ints : Text(data) \in {Digits(n), Digits(n) \o ".000000"}}
  IN CASE is_bare(data) /\ Text(data) = Longest -> FLT_MAX
       [] is_bare(data) /\ same # {} -> CHOOSE n \in same : TRUE
       [] OTHER -> NULL

(* Quoted or not. *)
parse_string(data) == Text(data)

(* One value of wp_spa_json_parser_get: NULL when it is not of the format. *)
parse_value(data, format) ==
  CASE format = "n" -> IF is_null(data) THEN TRUE ELSE NULL
    [] format = "b" -> parse_boolean(data)
    [] format = "i" -> parse_int(data)
    [] format = "f" -> parse_float(data)
    [] format = "s" -> parse_string(data)
    [] format = "J" -> data

(* One format after the other; the keys of an object are returned with the
   values.  NULL when there are not as many, or one is of another format. *)
GetAll(items, isObject, formats) ==
  LET At(i) == IF isObject THEN 2 * i ELSE i
      Got(i) ==
        IF At(i) > Len(items) THEN [key |-> NULL, value |-> NULL]
        ELSE [key |-> IF isObject THEN parse_string(items[At(i) - 1]) ELSE NULL,
              value |-> parse_value(items[At(i)], formats[i])]
      All(got) == IF \E i \in DOMAIN got : got[i].value = NULL THEN NULL ELSE got
  IN All([i \in DOMAIN formats |-> Got(i)])

parser_get_valist(data, formats) == GetAll(json_iterator(data), json_is(data, "{"), formats)

json_parse_array(data, formats) ==
  IF json_is(data, "[") THEN parser_get_valist(data, formats) ELSE NULL
json_parse_object(data, formats) ==
  IF json_is(data, "{") THEN parser_get_valist(data, formats) ELSE NULL

(* wp_spa_json_object_get: each key is looked up from the beginning. *)
GetEach(items, requests) ==
  LET At(key) == {i \in DOMAIN items : i % 2 = 1 /\ i < Len(items) /\ parse_string(items[i]) = key}
      First(S) == CHOOSE i \in S : \A j \in S : i <= j
      More(values, x) == IF x = NULL THEN NULL ELSE Append(values, x)
      Get(values, r) ==
        IF values = NULL \/ At(r.key) = {} THEN NULL
        ELSE More(values, parse_value(items[First(At(r.key)) + 1], r.format))
  IN FoldLeft(Get, <<>>, requests)

object_get_valist(data, requests) == GetEach(json_iterator(data), requests)

-----------------------------------------------------------------------------
(* What a builder is given for a Lua value, NULL for an error. *)
Value(a) ==
  LET kinds == ("boolean" :> "boolean") @@ ("integer" :> "int") @@ ("number" :> "float")
                 @@ ("string" :> "string") @@ ("userdata" :> "json")
  IN IF a.l \in DOMAIN kinds THEN [j |-> kinds[a.l], v |-> a.x] ELSE NULL

(* A table is the sequence of its entries in the order of lua_next. *)
Entries(type, entries) == SelectSeq(entries, LAMBDA e : e.key.l = type)

Built(b, entries, Add(_, _, _)) ==
  IF \E i \in DOMAIN entries : Value(entries[i].value) = NULL THEN NULL
  ELSE Json(builder_end(FoldLeft(LAMBDA got, e : Add(got, e.key.x, Value(e.value)), b, entries)))

array_new(entries) ==
  LET Add(b, key, x) == builder_add_value(b, x)
  IN Built(builder_new("["), Entries("integer", entries), Add)

object_new(entries) ==
  LET Add(b, key, x) == builder_add_value(builder_add_property(b, key), x)
  IN Built(builder_new("{"), Entries("string", entries), Add)

(* parse(), down to n levels: what is deeper stays text.  The last one of two
   fields of the same name counts. *)
RECURSIVE push_luajson(_, _), push_items(_, _, _)
push_luajson(data, n) ==
  CASE is_null(data) -> Nil
    [] parse_boolean(data) # NULL -> Lua("boolean", parse_boolean(data))
    [] parse_int(data) # NULL -> Lua("integer", parse_int(data))
    [] parse_float(data) # NULL -> Lua("number", parse_float(data))
    [] (json_is(data, "[") \/ json_is(data, "{")) /\ n > 0 ->
         push_items(json_iterator(data), json_is(data, "{"), n - 1)
    [] OTHER -> Lua("string", parse_string(data))

push_items(items, isObject, n) ==
  LET KeyPlaces == {i \in DOMAIN items : i % 2 = 1 /\ i < Len(items)}
      KeyOf(i) == parse_string(items[i])
      LastOf(key) == CHOOSE i \in KeyPlaces : KeyOf(i) = key /\ \A j \in KeyPlaces : KeyOf(j) = key => j <= i
  IN IF isObject
       THEN Table([key \in {KeyOf(i) : i \in KeyPlaces} |-> push_luajson(items[LastOf(key) + 1], n)], <<>>)
       ELSE Table(<<>>, [i \in DOMAIN items |-> push_luajson(items[i], n)])
=============================================================================
