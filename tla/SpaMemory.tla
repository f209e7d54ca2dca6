----------------------------- MODULE SpaMemory ------------------------------
(***************************************************************************)
(* The memory of pods and of JSON (lib/wp/spa-pod.c, lib/wp/spa-json.c).   *)
(* Both are counted boxes: one that owns its memory shares it with the     *)
(* builder it was made by, one that wraps memory looks at that of code     *)
(* outside or at a part of another box, and does not keep it.  Holders are *)
(* the variables of the program that point to boxes; one more variable     *)
(* holds an iterator, another one a builder.                               *)
(***************************************************************************)
EXTENDS Integers, FiniteSets

CONSTANTS
  Holders,
  Cells,              \* the boxes that can be allocated
  Buffers,            \* the memory that can be
  Contents,           \* what is written there
  NULL

VARIABLES
  memory_kind,        \* "pod" or "json"
  cell,               \* [Cells -> [ref, flags, buffer, part] or NULL when free]
  buffer,             \* [Buffers -> [ref, value] or NULL when free]
  pointer,            \* [Holders -> Cells or NULL]
  walked,             \* the box that is iterated over, or NULL
  builder,            \* [buffer, ended] or NULL
  lent,               \* the buffers that code outside owns
  single              \* the holders that made sure to be the only owner, and
                      \* have not shared their box since

memoryVars == <<memory_kind, cell, buffer, pointer, walked, builder, lent, single>>

FLAG_NO_OWNERSHIP == "wraps"
FLAG_CONSTANT == "constant"
Owns(c) == FLAG_NO_OWNERSHIP \notin cell[c].flags
Value(c) == buffer[cell[c].buffer].value

FreeCells == {c \in Cells : cell[c] = NULL}
FreeBuffers == {s \in Buffers : buffer[s] = NULL}
Pick(S) == CHOOSE x \in S : TRUE

InitMemory ==
  /\ memory_kind \in {"pod", "json"}
  /\ cell = [c \in Cells |-> NULL] /\ buffer = [s \in Buffers |-> NULL]
  /\ pointer = [h \in Holders |-> NULL] /\ walked = NULL /\ builder = NULL
  /\ lent = {} /\ single = {}

TypeOK ==
  /\ \A c \in Cells : cell[c] # NULL =>
       /\ cell[c].ref \in 1..(Cardinality(Holders) + 1)
       /\ cell[c].flags \in {{}, {FLAG_NO_OWNERSHIP}, {FLAG_NO_OWNERSHIP, FLAG_CONSTANT}}
       /\ cell[c].buffer \in Buffers /\ cell[c].part \in {"whole", "item"}
  /\ \A s \in Buffers : buffer[s] # NULL => buffer[s].value \in Contents \cup {NULL}
  /\ \A h \in Holders : pointer[h] \in Cells \cup {NULL}
  /\ walked \in Cells \cup {NULL} /\ lent \subseteq Buffers /\ single \subseteq Holders

-----------------------------------------------------------------------------
(* Whoever takes a part of a box keeps what owns the memory for as long as it
   uses the part: a holder of the box or of another one with the same memory, an
   iterator over it, the builder, or code outside. *)
Keepers(s) ==
  {h \in Holders : pointer[h] # NULL /\ cell[pointer[h]].buffer = s /\ Owns(pointer[h])}
    \cup {x \in {"iterator"} : walked # NULL /\ cell[walked].buffer = s /\ Owns(walked)}
    \cup {x \in {"builder"} : builder # NULL /\ builder.buffer = s}
    \cup {x \in {"outside"} : s \in lent}
Wrapped(s) == \E c \in Cells : cell[c] # NULL /\ cell[c].buffer = s /\ ~Owns(c)
MayLeave(x, s) == Wrapped(s) => (Keepers(s) \ {x} # {} \/ x \notin Keepers(s))

(* A box for memory that is there. *)
NewCell(g, flags, s, part) ==
  /\ pointer[g] = NULL /\ FreeCells # {}
  /\ pointer' = [pointer EXCEPT ![g] = Pick(FreeCells)]
  /\ cell' = [cell EXCEPT ![Pick(FreeCells)] =
                [ref |-> 1, flags |-> flags, buffer |-> s, part |-> part]]

(* A box with memory of its own. *)
NewOwner(g, part, value) ==
  /\ FreeBuffers # {}
  /\ NewCell(g, {}, Pick(FreeBuffers), part)
  /\ buffer' = [buffer EXCEPT ![Pick(FreeBuffers)] = [ref |-> 1, value |-> value]]
  /\ UNCHANGED <<memory_kind, walked, builder, lent, single>>

(* The boxes and the memory after one reference is gone. *)
BufferLess(s) == IF buffer[s].ref = 1 THEN NULL ELSE [buffer[s] EXCEPT !.ref = @ - 1]
CellLess(c) == IF cell[c].ref = 1 THEN NULL ELSE [cell[c] EXCEPT !.ref = @ - 1]
BuffersLess(c) ==
  IF cell[c].ref = 1 /\ Owns(c)
    THEN [buffer EXCEPT ![cell[c].buffer] = BufferLess(cell[c].buffer)] ELSE buffer

Ref(h, g) ==
  /\ pointer[h] # NULL /\ pointer[g] = NULL
  /\ pointer' = [pointer EXCEPT ![g] = pointer[h]]
  /\ cell' = [cell EXCEPT ![pointer[h]].ref = @ + 1]
  /\ single' = single \ {h}
  /\ UNCHANGED <<memory_kind, buffer, walked, builder, lent>>

Unref(h) ==
  /\ pointer[h] # NULL /\ MayLeave(h, cell[pointer[h]].buffer)
  /\ pointer' = [pointer EXCEPT ![h] = NULL]
  /\ cell' = [cell EXCEPT ![pointer[h]] = CellLess(pointer[h])]
  /\ buffer' = BuffersLess(pointer[h])
  /\ single' = single \ {h}
  /\ UNCHANGED <<memory_kind, walked, builder, lent>>

(* A part of the box of h, or of the one that is iterated over. *)
NewPart(g, c) ==
  /\ NewCell(g, {FLAG_NO_OWNERSHIP}, cell[c].buffer, "item")
  /\ UNCHANGED <<memory_kind, buffer, walked, builder, lent, single>>

is_unique_owner(c) == cell[c].ref = 1 /\ Owns(c)

(* The copy is made before the old box is let go. *)
EnsureUniqueOwner(h) ==
  /\ pointer[h] # NULL
  /\ single' = single \cup {h}
  /\ UNCHANGED <<memory_kind, walked, builder, lent>>
  /\ LET old == pointer[h] IN
     \/ is_unique_owner(old) /\ UNCHANGED <<cell, buffer, pointer>>
     \/ /\ ~is_unique_owner(old) /\ FreeCells # {} /\ FreeBuffers # {}
        /\ MayLeave(h, cell[old].buffer)
        /\ pointer' = [pointer EXCEPT ![h] = Pick(FreeCells)]
        /\ cell' = [cell EXCEPT
             ![Pick(FreeCells)] = [ref |-> 1, flags |-> {}, buffer |-> Pick(FreeBuffers),
                                   part |-> cell[old].part],
             ![old] = CellLess(old)]
        /\ buffer' = [BuffersLess(old) EXCEPT
                        ![Pick(FreeBuffers)] = [ref |-> 1, value |-> Value(old)]]

-----------------------------------------------------------------------------
(* Builders: the box that a builder ends with shares its memory. *)

BuilderNew ==
  /\ builder = NULL /\ FreeBuffers # {}
  /\ builder' = [buffer |-> Pick(FreeBuffers), ended |-> FALSE]
  /\ buffer' = [buffer EXCEPT ![Pick(FreeBuffers)] = [ref |-> 1, value |-> NULL]]
  /\ UNCHANGED <<memory_kind, cell, pointer, walked, lent, single>>

BuilderAdd(value) ==
  /\ builder # NULL /\ ~builder.ended
  /\ buffer' = [buffer EXCEPT ![builder.buffer].value = value]
  /\ UNCHANGED <<memory_kind, cell, pointer, walked, builder, lent, single>>

BuilderEnd(g) ==
  /\ builder # NULL /\ ~builder.ended /\ buffer[builder.buffer].value # NULL
  /\ NewCell(g, {}, builder.buffer, "whole")
  /\ buffer' = [buffer EXCEPT ![builder.buffer].ref = @ + 1]
  /\ builder' = [builder EXCEPT !.ended = TRUE]
  /\ UNCHANGED <<memory_kind, walked, lent, single>>

BuilderUnref ==
  /\ builder # NULL /\ MayLeave("builder", builder.buffer)
  /\ buffer' = [buffer EXCEPT ![builder.buffer] = BufferLess(builder.buffer)]
  /\ builder' = NULL
  /\ UNCHANGED <<memory_kind, cell, pointer, walked, lent, single>>

-----------------------------------------------------------------------------
(* Iterators keep the box they iterate over; their items are parts of it. *)

(* Mutant: without a reference. *)
IteratorBorrows(h) ==
  /\ walked' = pointer[h] /\ single' = single \ {h}
  /\ UNCHANGED <<memory_kind, cell, buffer, pointer, builder, lent>>

IteratorKeeps(h) ==
  /\ walked' = pointer[h]
  /\ cell' = [cell EXCEPT ![pointer[h]].ref = @ + 1]
  /\ single' = single \ {h}
  /\ UNCHANGED <<memory_kind, buffer, pointer, builder, lent>>

new_iterator(h) ==
  /\ walked = NULL /\ pointer[h] # NULL /\ cell[pointer[h]].part = "whole"
  /\ IteratorKeeps(h)

iterator_next(g) == walked # NULL /\ NewPart(g, walked)

iterator_finalize ==
  /\ walked # NULL /\ MayLeave("iterator", cell[walked].buffer)
  /\ cell' = [cell EXCEPT ![walked] = CellLess(walked)]
  /\ buffer' = BuffersLess(walked)
  /\ walked' = NULL
  /\ UNCHANGED <<memory_kind, pointer, builder, lent, single>>

-----------------------------------------------------------------------------
(* Pods. *)

(* Values are written into the box itself, what is longer into memory of its own. *)
pod_new_value(g, value) == NewOwner(g, "item", value)

pod_new_wrap(g, s) ==
  /\ s \in lent
  /\ \E flags \in {{FLAG_NO_OWNERSHIP}, {FLAG_NO_OWNERSHIP, FLAG_CONSTANT}} :
       NewCell(g, flags, s, "whole")
  /\ UNCHANGED <<memory_kind, buffer, walked, builder, lent, single>>

(* The copy of a property or of a control is one, too. *)
pod_copy(h, g) == pointer[h] # NULL /\ NewOwner(g, cell[pointer[h]].part, Value(pointer[h]))

(* The child of a choice or of an array, the value of a property. *)
PartOf(h, g) ==
  /\ pointer[h] # NULL
  /\ NewCell(g, {FLAG_NO_OWNERSHIP}, cell[pointer[h]].buffer, "item")
  /\ single' = single \ {h}
  /\ UNCHANGED <<memory_kind, buffer, walked, builder, lent>>

pod_get_child(h, g) == pointer[h] # NULL /\ cell[pointer[h]].part = "whole" /\ PartOf(h, g)
pod_get_value(h, g) == pointer[h] # NULL /\ cell[pointer[h]].part = "item" /\ PartOf(h, g)

(* A parser does not keep its pod; it is used while the pod is there. *)
pod_parser_get_pod(h, g) == pointer[h] # NULL /\ cell[pointer[h]].part = "whole" /\ PartOf(h, g)

(* Writing: a constant pod refuses, except to be fixated. *)
Write(h, value) ==
  /\ pointer[h] # NULL
  /\ buffer' = [buffer EXCEPT ![cell[pointer[h]].buffer].value = value]
  /\ UNCHANGED <<memory_kind, cell, pointer, walked, builder, lent, single>>
Constant(h) == FLAG_CONSTANT \in cell[pointer[h]].flags

pod_set_value(h, value) ==
  /\ pointer[h] # NULL /\ cell[pointer[h]].part = "item" /\ ~Constant(h)
  /\ Write(h, value)

pod_set_pod(h, g) ==
  /\ pointer[h] # NULL /\ pointer[g] # NULL /\ ~Constant(h)
  /\ cell[pointer[h]].part = cell[pointer[g]].part
  /\ Write(h, Value(pointer[g]))

Fixed == Pick(Contents)
pod_fixate(h) == pointer[h] # NULL /\ cell[pointer[h]].part = "whole" /\ Write(h, Fixed)

(* The result is a copy of what is written on the stack; a filter without
   a value in common fails. *)
pod_filter(h, f, g) ==
  /\ pointer[h] # NULL /\ pointer[f] # NULL /\ Value(pointer[h]) = Value(pointer[f])
  /\ NewOwner(g, "whole", Value(pointer[h]))

PodWrites(h) ==
  \/ \E value \in Contents : pod_set_value(h, value)
  \/ \E g \in Holders : pod_set_pod(h, g)
  \/ pod_fixate(h)

PodNext ==
  /\ memory_kind = "pod"
  /\ \E h \in Holders :
       \/ \E value \in Contents : pod_new_value(h, value)
       \/ \E s \in Buffers : pod_new_wrap(h, s)
       \/ \E g \in Holders :
            \/ pod_copy(h, g) \/ pod_get_child(h, g) \/ pod_get_value(h, g)
            \/ pod_parser_get_pod(h, g) \/ \E f \in Holders : pod_filter(h, f, g)
       \/ PodWrites(h)

-----------------------------------------------------------------------------
(* JSON: never written once it is made. *)

json_new(g, value) == NewOwner(g, "whole", value)

(* Text and parsers of others are wrapped. *)
json_new_from_stringn(g, s) ==
  /\ s \in lent
  /\ NewCell(g, {FLAG_NO_OWNERSHIP}, s, "whole")
  /\ UNCHANGED <<memory_kind, buffer, walked, builder, lent, single>>

json_copy(h, g) == pointer[h] # NULL /\ NewOwner(g, "whole", Value(pointer[h]))

(* A parser does not keep its JSON. *)
json_parser_get_json(h, g) ==
  /\ pointer[h] # NULL /\ cell[pointer[h]].part = "whole"
  /\ PartOf(h, g)

JsonNext ==
  /\ memory_kind = "json"
  /\ \E h \in Holders :
       \/ \E value \in Contents : json_new(h, value)
       \/ \E s \in Buffers : json_new_from_stringn(h, s)
       \/ \E g \in Holders : json_copy(h, g) \/ json_parser_get_json(h, g)

-----------------------------------------------------------------------------
(* Code outside has memory, writes to it, and frees what nobody wraps. *)
OutsideMakes ==
  /\ FreeBuffers # {} /\ lent = {}
  /\ \E value \in Contents :
       buffer' = [buffer EXCEPT ![Pick(FreeBuffers)] = [ref |-> 0, value |-> value]]
  /\ lent' = {Pick(FreeBuffers)}
  /\ UNCHANGED <<memory_kind, cell, pointer, walked, builder, single>>

OutsideWrites(s, value) ==
  /\ s \in lent
  /\ buffer' = [buffer EXCEPT ![s].value = value]
  /\ UNCHANGED <<memory_kind, cell, pointer, walked, builder, lent, single>>

OutsideFrees(s) ==
  /\ s \in lent /\ MayLeave("outside", s)
  /\ buffer' = [buffer EXCEPT ![s] = NULL]
  /\ lent' = lent \ {s}
  /\ UNCHANGED <<memory_kind, cell, pointer, walked, builder, single>>

MemoryNext ==
  \/ PodNext \/ JsonNext
  \/ \E h \in Holders :
       \/ Unref(h) \/ EnsureUniqueOwner(h) \/ BuilderEnd(h) \/ new_iterator(h) \/ iterator_next(h)
       \/ \E g \in Holders : Ref(h, g)
  \/ BuilderNew \/ BuilderUnref \/ iterator_finalize
  \/ \E value \in Contents : BuilderAdd(value)
  \/ OutsideMakes
  \/ \E s \in Buffers : OutsideFrees(s) \/ \E value \in Contents : OutsideWrites(s, value)

-----------------------------------------------------------------------------
(* As many variables point to a box as are counted, and as many boxes and
   builders hold memory; what is pointed to or looked at is there, and what is
   there belongs to somebody. *)
OneOwner ==
  /\ \A c \in Cells : cell[c] # NULL =>
       /\ cell[c].ref = Cardinality({h \in Holders : pointer[h] = c})
                           + (IF walked = c THEN 1 ELSE 0)
       /\ buffer[cell[c].buffer] # NULL
  /\ \A h \in Holders : pointer[h] # NULL => cell[pointer[h]] # NULL
  /\ walked # NULL => cell[walked] # NULL
  /\ builder # NULL => buffer[builder.buffer] # NULL
  /\ \A s \in Buffers : buffer[s] # NULL =>
       LET owners == {c \in Cells : cell[c] # NULL /\ cell[c].buffer = s /\ Owns(c)}
                       \cup {x \in {"builder"} : builder # NULL /\ builder.buffer = s}
       IN /\ buffer[s].ref = Cardinality(owners)
          /\ (s \in lent) # (owners # {})

(* A holder that has made sure to be the only owner may write, and nobody sees
   it, inside or outside, who does not look at a part of its box on purpose; and
   the box changes for nobody else's sake. *)
PartsOf(h) ==
  {g \in Holders : /\ pointer[g] # NULL /\ ~Owns(pointer[g])
                   /\ cell[pointer[g]].buffer = cell[pointer[h]].buffer}
SeenBy(h) == IF pointer[h] = NULL THEN NULL ELSE Value(pointer[h])
StaysPrivate ==
  \A h \in single :
    /\ cell[pointer[h]].flags = {}
    /\ PodWrites(h) =>
         /\ \A g \in Holders \ (PartsOf(h) \cup {h}) : SeenBy(g)' = SeenBy(g)
         /\ \A s \in lent : buffer'[s] = buffer[s]
    /\ (SeenBy(h)' # SeenBy(h) /\ h \in single') =>
         PodWrites(h) \/ \E g \in PartsOf(h) : PodWrites(g)
=============================================================================
