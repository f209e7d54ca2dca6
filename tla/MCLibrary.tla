----------------------------- MODULE MCLibrary -----------------------------
(* A tree of types in the shape of PipeWire's, small. *)
EXTENDS Library

Enum(n, name) == <<"Spa", "Enum", n, name>>
Value(number, name, type, values) == Entry(number, name, type, values)
Number(number, table, name) == Value(number, Enum(table, name), "Int", NULL)

Directions == <<Number(0, "Direction", "Input"), Number(1, "Direction", "Output")>>
Channels == <<Number(3, "AudioChannel", "FL"), Number(4, "AudioChannel", "FR")>>
Params == <<Number(2, "ParamId", "Props"), Number(3, "ParamId", "Format")>>
Controls == <<Number(1, "Control", "Properties"), Number(2, "Control", "Midi")>>

MCStaticTables == <<
  [name |-> <<"Spa", "Enum", "Direction">>, values |-> Directions],
  [name |-> <<"Spa", "Enum", "AudioChannel">>, values |-> Channels],
  [name |-> <<"Spa", "Enum", "ParamId">>, values |-> Params],
  [name |-> <<"Spa", "Enum", "Control">>, values |-> Controls]>>

InFormat == <<"Spa", "Pod", "Object", "Param", "Format">>
InProps == <<"Spa", "Pod", "Object", "Param", "Props">>

(* Names of values have one part more than that of their table, or two. *)
FormatValues == <<
  Value(0, InFormat \o <<"">>, "Id", Params),
  Value(1, InFormat \o <<"mediaType">>, "Id", Directions),
  Value(2, InFormat \o <<"Audio", "rate">>, "Int", NULL),
  Value(3, InFormat \o <<"Audio", "position">>, "Array",
        <<Value(0, InFormat \o <<"Audio", "position", "item">>, "Id", Channels)>>)>>

PropsValues == <<
  Value(0, InProps \o <<"">>, "Id", Params),
  Value(1, InProps \o <<"mute">>, "Bool", NULL),
  Value(2, InProps \o <<"volume">>, "Float", NULL),
  Value(3, InProps \o <<"channelMap">>, "Array",
        <<Value(0, InProps \o <<"channelMap", "item">>, "Id", Channels)>>),
  Value(4, InProps \o <<"direction">>, "Id", Directions),
  Value(5, InProps \o <<"format">>, "Format", NULL),
  Value(6, InProps \o <<"device">>, "String", NULL),
  Value(7, InProps \o <<"rate">>, "Int", NULL),
  Value(8, InProps \o <<"params">>, "Struct", NULL),
  Value(9, InProps \o <<"notes">>, "Sequence", NULL)>>

Plain(t) == Entry(t, <<"Spa", t>>, "Pod", NULL)

MCRootTypes == <<
  Plain("None"), Plain("Bool"), Plain("Id"), Plain("Int"), Plain("Long"), Plain("Float"),
  Plain("Double"), Plain("String"), Plain("Bytes"), Plain("Array"), Plain("Struct"),
  Plain("Object"), Plain("Sequence"), Plain("Fd"), Plain("Choice"),
  Entry("Props", InProps, "Object", PropsValues),
  Entry("Format", InFormat, "Object", FormatValues)>>

MCIdKeys == ("id-0000002a" :> 42)

Volume == <<"Spa", "Pod", "Object", "Param", "Volume">>
MCNewTypes == {
  [name |-> Volume, parent |-> "Object",
   values |-> <<Value(0, Volume \o <<"">>, "Id", Params), Value(1, Volume \o <<"step">>, "Int", NULL)>>],
  [name |-> <<"Spa", "Level">>, parent |-> "Int", values |-> NULL]}
MCNewTables == {
  [name |-> <<"Spa", "Enum", "Level">>,
   values |-> <<Number(1, "Level", "Low"), Number(2, "Level", "High")>>]}

-----------------------------------------------------------------------------
Argument(key, format, choice, values) ==
  [key |-> key, format |-> format, choice |-> choice, values |-> values]

Position == [t |-> "Array", c |-> "Id", k |-> NULL, v |-> <<3, 4>>]

MCPodArguments == <<
  Argument("mute", "Bool", NULL, <<TRUE>>),
  Argument("volume", "Float", "Range", <<1, 0, 2>>),
  Argument("volume", "Float", NULL, <<1>>),
  Argument("direction", "K", "Enum", <<"Output", "Input">>),
  Argument("direction", "K", NULL, <<"Input">>),
  Argument("rate", "Int", "None", <<5>>),
  Argument("channelMap", "P", NULL, <<Position>>),
  Argument("id-0000002a", "String", NULL, <<"text">>)>>

(* How the value of a field is made. *)
AsIs(type, x) == [how |-> "plain", value |-> Lua(type, x)]
Typed(type, of, l, x) == [how |-> "typed", type |-> type, of |-> of, value |-> Lua(l, x)]
Array(of, values) == [how |-> "array", of |-> of, values |-> values]
Choice(kind, of, values) == [how |-> "choice", kind |-> kind, of |-> of, values |-> values]
Struct(values) == [how |-> "struct", values |-> values]
Sequence_(values) == [how |-> "sequence", values |-> values]
Object_(of, id, values) == [how |-> "object", of |-> of, id |-> id, values |-> values]
Field(name, natural, value) == [name |-> name, natural |-> natural, value |-> value]

MCLuaFields == <<
  Field("mute", TRUE, AsIs("boolean", FALSE)),
  Field("mute", FALSE, AsIs("string", "1")),
  Field("volume", TRUE, Choice("Range", <<"Spa", "Float">>, <<AsIs("number", 1), AsIs("number", 2)>>)),
  Field("volume", FALSE, AsIs("boolean", TRUE)),
  Field("direction", TRUE, AsIs("string", "Output")),
  Field("direction", TRUE, Typed("Id", <<"Spa", "Enum", "Direction">>, "string", "Input")),
  Field("direction", FALSE, AsIs("integer", 1)),
  Field("channelMap", TRUE, Array(<<"Spa", "Enum", "AudioChannel">>,
                                  <<AsIs("string", "FR"), AsIs("string", "FL")>>)),
  Field("format", TRUE, Object_(InFormat, "Format",
     <<Field("rate", TRUE, Choice("Enum", <<"Spa", "Int">>, <<AsIs("integer", 4), AsIs("integer", 8)>>)),
       Field("mediaType", TRUE, AsIs("string", "Input")),
       Field("position", TRUE, Array(<<"Spa", "Enum", "AudioChannel">>, <<AsIs("string", "FL")>>))>>)),
  Field("device", TRUE, AsIs("string", "text")),
  Field("device", FALSE, AsIs("integer", 7)),
  Field("rate", FALSE, AsIs("integer", -1)),
  Field("rate", FALSE, AsIs("string", "7")),
  Field("params", TRUE, Struct(<<AsIs("string", "a"), AsIs("boolean", TRUE), AsIs("number", 3),
                                 Typed("Int", NULL, "integer", 5), Typed("Bool", NULL, "boolean", TRUE),
                                 Typed("Float", NULL, "number", 2), Typed("String", NULL, "string", "b"),
                                 Struct(<<>>)>>)),
  Field("notes", TRUE, Sequence_(<<[offset |-> 0, typename |-> "Midi", value |-> AsIs("integer", 9)],
                                   [offset |-> 5, typename |-> "Properties",
                                    value |-> AsIs("string", "x")]>>))>>

Entry_(key, value) == [key |-> key, value |-> value]
Name(s) == Lua("string", s)
Index(n) == Lua("integer", n)

MCJsonEntries == <<
  Entry_(Name("on"), AsIs("boolean", TRUE)),
  Entry_(Name("a.name.of.more.than.thirty.letters"), AsIs("string", "true")),
  Entry_(Name("empty"), [how |-> "array", values |-> <<>>]),
  Entry_(Index(1), AsIs("integer", 7)),
  Entry_(Index(2), AsIs("number", 7)),
  Entry_(Index(5), AsIs("string", "twenty letters, here")),
  Entry_(Index(6), AsIs("number", FLT_MAX)),
  Entry_(Name("the.range.of.a.volume"), AsIs("number", FLT_MAX)),
  Entry_(Index(3), AsIs("string", "a text of sixty letters and more is what does not fit at once")),
  Entry_(Index(4), [how |-> "object", values |-> <<
     Entry_(Name("in"), [how |-> "array", values |-> <<
        Entry_(Index(1), AsIs("boolean", FALSE)), Entry_(Name("x"), AsIs("integer", 1)),
        Entry_(Index(2), AsIs("string", "two words"))>>]),
     Entry_(Name("out"), AsIs("integer", 3)), Entry_(Index(9), AsIs("integer", 1))>>]),
  Entry_(Name("nested"), [how |-> "array", values |-> <<
     Entry_(Index(1), [how |-> "array", values |-> <<
        Entry_(Index(1), AsIs("integer", 1)), Entry_(Index(2), AsIs("integer", 2))>>]),
     Entry_(Index(2), [how |-> "object", values |-> <<Entry_(Name("k"), AsIs("string", "v"))>>])>>])>>

-----------------------------------------------------------------------------
V(type, x) == [type |-> type, v |-> x]
Tuple(values) == V("(", values)
Constraint(type, subject, verb, value) ==
  [type |-> type, subject |-> subject, verb |-> verb, value |-> value]

MCPatterns == ("s*" :> {"sink"}) @@ ("*" :> {"sink", "1", "true"})

Node(info, class) ==
  [is_a |-> {"WpNode", "WpObject"}, global |-> ("class" :> class),
   props |-> ("class" :> class) @@ ("id" :> "1"), props_given |-> FALSE, info |-> info,
   session |-> NULL, gobject |-> ("id" :> V("u", 1)) @@ ("name" :> V("s", "sink"))]
Pairs(class) ==
  [is_a |-> {"WpProperties"}, global |-> NULL, props |-> ("class" :> class), props_given |-> TRUE,
   info |-> FALSE, session |-> NULL, gobject |-> NULL]
Item ==
  [is_a |-> {"WpNode"}, global |-> NULL, props |-> NULL, props_given |-> FALSE, info |-> FALSE,
   session |-> ("class" :> "sink"), gobject |-> ("id" :> V("b", TRUE))]

MCObjects == <<Node(TRUE, "sink"), Node(FALSE, "1"), Pairs("1"), Pairs("true"), Item>>

MCConstraints == <<
  Constraint("pw-global", "class", "EQUALS", V("s", "sink")),
  Constraint("pw-global", "class", "EQUALS", V("b", TRUE)),
  Constraint("pw-global", "class", "MATCHES", V("s", "s*")),
  Constraint("pw-global", "absent", "IS_ABSENT", NULL),
  Constraint("pw", "class", "NOT_EQUALS", V("i", 1)),
  Constraint("pw", "class", "MATCHES", V("s", "*")),
  Constraint("pw", "id", "IN_RANGE", Tuple(<<V("u", 1), V("u", 3)>>)),
  Constraint("pw", "id", "IS_PRESENT", NULL),
  Constraint("gobject", "id", "IN_LIST", Tuple(<<V("i", 2), V("i", 1)>>)),
  Constraint("gobject", "id", "EQUALS", V("s", "1")),
  Constraint("gobject", "name", "NOT_EQUALS", V("i", 1)),
  Constraint("pw", "class", "IN_RANGE", Tuple(<<V("i", 0)>>)),
  Constraint("pw", "class", "IN_LIST", Tuple(<<V("i", 0), V("s", "0")>>)),
  Constraint("pw", "class", "EQUALS", NULL),
  Constraint("pw-global", NULL, "IS_PRESENT", NULL)>>
=============================================================================
