----------------------------- MODULE Properties -----------------------------
(***************************************************************************)
(* Properties (lib/wp/properties.c): counted references to key-value pairs *)
(* that are owned, or that wrap the pairs of somebody else (a struct       *)
(* pw_properties or a spa_dict of PipeWire).  Holders are the variables of *)
(* the program that point to properties; an iterator and an item of it     *)
(* point to some as well.                                                  *)
(***************************************************************************)
EXTENDS Integers, FiniteSets

CONSTANTS
  Holders,
  Boxes,              \* WpProperties that can be allocated
  Stores,             \* the pairs they own or wrap
  Keys, Values,
  NULL

VARIABLES
  box,                \* [Boxes -> [ref, flags, store] or NULL when free]
  store,              \* [Stores -> the pairs, or NULL when free]
  held,               \* [Holders -> Boxes or NULL]
  iterator, item,     \* the box that is iterated over, that of an item, or NULL
  outside,            \* the stores that code outside owns
  alone               \* the holders that made sure to be the only owner, and
                      \* have not shared their properties since

propertiesVars == <<box, store, held, iterator, item, outside, alone>>
readers == <<iterator, item>>

FLAG_IS_DICT == "dict"
FLAG_NO_OWNERSHIP == "wraps"
Writable(b) == box[b].flags = {}

FreeBoxes == {b \in Boxes : box[b] = NULL}
FreeStores == {s \in Stores : store[s] = NULL}
Pick(S) == CHOOSE x \in S : TRUE

Empty == [k \in Keys |-> NULL]
peek_dict(b) == store[box[b].store]
get(b, key) == peek_dict(b)[key]

(* The pairs of a, with those of b that a does not have yet, or with all of
   them. *)
add_pairs(a, b) == [k \in Keys |-> IF a[k] = NULL THEN b[k] ELSE a[k]]
update_pairs(a, b) == [k \in Keys |-> IF b[k] = NULL THEN a[k] ELSE b[k]]

TypeOK ==
  /\ \A b \in Boxes : box[b] # NULL =>
       /\ box[b].ref \in 1..(Cardinality(Holders) + 2)
       /\ box[b].flags \in {{}, {FLAG_NO_OWNERSHIP}, {FLAG_NO_OWNERSHIP, FLAG_IS_DICT}}
       /\ box[b].store \in Stores
  /\ \A h \in Holders : held[h] \in Boxes \cup {NULL}
  /\ {iterator, item} \subseteq Boxes \cup {NULL}
  /\ outside \subseteq Stores /\ alone \subseteq Holders

InitProperties ==
  /\ store = [s \in Stores |-> NULL] /\ outside = {}
  /\ box = [b \in Boxes |-> NULL]
  /\ held = [h \in Holders |-> NULL] /\ iterator = NULL /\ item = NULL
  /\ alone = {}

-----------------------------------------------------------------------------
(* Making properties. *)

NewBox(h, flags, s) ==
  /\ held[h] = NULL /\ FreeBoxes # {}
  /\ held' = [held EXCEPT ![h] = Pick(FreeBoxes)]
  /\ box' = [box EXCEPT ![Pick(FreeBoxes)] = [ref |-> 1, flags |-> flags, store |-> s]]

(* new_copy, new_copy_dict and copy own new pairs. *)
NewOwned(h, pairs) ==
  /\ FreeStores # {}
  /\ NewBox(h, {}, Pick(FreeStores))
  /\ store' = [store EXCEPT ![Pick(FreeStores)] = pairs]
  /\ UNCHANGED <<readers, outside, alone>>

new_empty(h) == NewOwned(h, Empty)

(* What has no value is passed over. *)
new_valist(h, pairs) == NewOwned(h, pairs)
new_copy(h, s) == s \in outside /\ NewOwned(h, store[s])
copy(h, g) == held[g] # NULL /\ NewOwned(h, peek_dict(held[g]))

new_wrap(h, s) ==
  /\ s \in outside
  /\ \E flags \in {{FLAG_NO_OWNERSHIP}, {FLAG_NO_OWNERSHIP, FLAG_IS_DICT}} : NewBox(h, flags, s)
  /\ UNCHANGED <<store, readers, outside, alone>>

(* What nobody wraps can be given away. *)
Wrapped == {box[b].store : b \in {b \in Boxes : box[b] # NULL}}

new_take(h, s) ==
  /\ s \in outside \ Wrapped
  /\ NewBox(h, {}, s)
  /\ outside' = outside \ {s}
  /\ UNCHANGED <<store, readers, alone>>

-----------------------------------------------------------------------------
(* References. *)

ref(h, g) ==
  /\ held[h] # NULL /\ held[g] = NULL
  /\ held' = [held EXCEPT ![g] = held[h]]
  /\ box' = [box EXCEPT ![held[h]].ref = @ + 1]
  /\ alone' = alone \ {h}
  /\ UNCHANGED <<store, readers, outside>>

(* The boxes and the stores after one reference to b is gone; its pairs are
   freed with it if it owns them. *)
BoxLess(b) == IF box[b].ref = 1 THEN NULL ELSE [box[b] EXCEPT !.ref = @ - 1]
StoreLess(b) ==
  IF box[b].ref = 1 /\ FLAG_NO_OWNERSHIP \notin box[b].flags
    THEN [store EXCEPT ![box[b].store] = NULL] ELSE store

unref(h) ==
  /\ held[h] # NULL
  /\ box' = [box EXCEPT ![held[h]] = BoxLess(held[h])]
  /\ store' = StoreLess(held[h])
  /\ held' = [held EXCEPT ![h] = NULL]
  /\ alone' = alone \ {h}
  /\ UNCHANGED <<readers, outside>>

(* Mutant: the only reference is enough. *)
IsOnlyReference(b) == box[b].ref = 1

IsUnique(b) == box[b].ref = 1 /\ Writable(b)

(* A copy replaces what is shared or wrapped. *)
ensure_unique_owner(h) ==
  /\ held[h] # NULL
  /\ alone' = alone \cup {h}
  /\ UNCHANGED <<readers, outside>>
  /\ \/ IsUnique(held[h]) /\ UNCHANGED <<box, store, held>>
     \/ /\ ~IsUnique(held[h]) /\ FreeBoxes # {} /\ FreeStores # {}
        /\ held' = [held EXCEPT ![h] = Pick(FreeBoxes)]
        /\ box' = [box EXCEPT ![held'[h]] = [ref |-> 1, flags |-> {}, store |-> Pick(FreeStores)],
                              ![held[h]] = BoxLess(held[h])]
        /\ store' = [StoreLess(held[h]) EXCEPT ![Pick(FreeStores)] = peek_dict(held[h])]

(* The box that is taken from is marked so that the pairs survive it. *)
unref_and_take_pw_properties(h) ==
  /\ held[h] # NULL
  /\ held' = [held EXCEPT ![h] = NULL]
  /\ alone' = alone \ {h}
  /\ UNCHANGED readers
  /\ LET old == held[h]
         s == IF IsUnique(old) THEN box[old].store ELSE Pick(FreeStores)
     IN /\ IsUnique(old) \/ (FreeBoxes # {} /\ FreeStores # {})
        /\ box' = [box EXCEPT ![old] = BoxLess(old)]
        /\ store' = IF IsUnique(old) THEN store ELSE [StoreLess(old) EXCEPT ![s] = peek_dict(old)]
        /\ outside' = outside \cup {s}

to_pw_properties(h) ==
  /\ held[h] # NULL /\ FreeStores # {}
  /\ store' = [store EXCEPT ![Pick(FreeStores)] = peek_dict(held[h])]
  /\ outside' = outside \cup {Pick(FreeStores)}
  /\ UNCHANGED <<box, held, readers, alone>>

(* An iterator keeps the properties, and an item of it does, too. *)
new_iterator(h) ==
  /\ held[h] # NULL /\ iterator = NULL
  /\ iterator' = held[h]
  /\ box' = [box EXCEPT ![held[h]].ref = @ + 1]
  /\ alone' = alone \ {h}
  /\ UNCHANGED <<store, held, item, outside>>

dict_iterator_next ==
  /\ iterator # NULL /\ item = NULL
  /\ \E k \in Keys : get(iterator, k) # NULL
  /\ item' = iterator
  /\ box' = [box EXCEPT ![iterator].ref = @ + 1]
  /\ UNCHANGED <<store, held, iterator, outside, alone>>

dict_iterator_finalize ==
  /\ iterator # NULL
  /\ box' = [box EXCEPT ![iterator] = BoxLess(iterator)]
  /\ store' = StoreLess(iterator)
  /\ iterator' = NULL
  /\ UNCHANGED <<held, item, outside, alone>>

item_unref ==
  /\ item # NULL
  /\ box' = [box EXCEPT ![item] = BoxLess(item)]
  /\ store' = StoreLess(item)
  /\ item' = NULL
  /\ UNCHANGED <<held, iterator, outside, alone>>

-----------------------------------------------------------------------------
(* Writing.  Properties that are wrapped refuse. *)

Write(h, pairs) ==
  /\ held[h] # NULL
  /\ store' = IF Writable(held[h]) THEN [store EXCEPT ![box[held[h]].store] = pairs] ELSE store
  /\ UNCHANGED <<box, held, readers, outside, alone>>

set(h, key, value) == held[h] # NULL /\ Write(h, [peek_dict(held[h]) EXCEPT ![key] = value])

(* Both return how many pairs changed. *)
update(h, g) ==
  held[h] # NULL /\ held[g] # NULL /\ Write(h, update_pairs(peek_dict(held[h]), peek_dict(held[g])))
add(h, g) ==
  held[h] # NULL /\ held[g] # NULL /\ Write(h, add_pairs(peek_dict(held[h]), peek_dict(held[g])))

Only(pairs, keys) == [k \in Keys |-> IF k \in keys THEN pairs[k] ELSE NULL]
update_keys(h, g, keys) ==
  /\ held[h] # NULL /\ held[g] # NULL
  /\ Write(h, update_pairs(peek_dict(held[h]), Only(peek_dict(held[g]), keys)))
add_keys(h, g, keys) ==
  /\ held[h] # NULL /\ held[g] # NULL
  /\ Write(h, add_pairs(peek_dict(held[h]), Only(peek_dict(held[g]), keys)))

WriteStep(h) ==
  \/ \E k \in Keys, v \in Values \cup {NULL} : set(h, k, v)
  \/ \E g \in Holders :
       \/ update(h, g) \/ add(h, g)
       \/ \E keys \in SUBSET Keys : update_keys(h, g, keys) \/ add_keys(h, g, keys)

(* Code outside has pairs, changes them, and frees those that nobody wraps. *)
OutsideMakes ==
  /\ FreeStores # {} /\ outside = {}
  /\ \E pairs \in [Keys -> Values \cup {NULL}] :
       store' = [store EXCEPT ![Pick(FreeStores)] = pairs]
  /\ outside' = {Pick(FreeStores)}
  /\ UNCHANGED <<box, held, readers, alone>>

OutsideWrites(s, key, value) ==
  /\ s \in outside
  /\ store' = [store EXCEPT ![s][key] = value]
  /\ UNCHANGED <<box, held, readers, outside, alone>>

OutsideFrees(s) ==
  /\ s \in outside \ Wrapped
  /\ store' = [store EXCEPT ![s] = NULL]
  /\ outside' = outside \ {s}
  /\ UNCHANGED <<box, held, readers, alone>>

PropertiesNext ==
  \/ \E h \in Holders :
       \/ new_empty(h) \/ unref(h) \/ ensure_unique_owner(h) \/ unref_and_take_pw_properties(h)
       \/ to_pw_properties(h) \/ new_iterator(h)
       \/ \E pairs \in [Keys -> Values] : new_valist(h, pairs)
       \/ \E s \in Stores : new_copy(h, s) \/ new_wrap(h, s) \/ new_take(h, s)
       \/ \E g \in Holders : ref(h, g) \/ copy(h, g)
       \/ WriteStep(h)
  \/ dict_iterator_next \/ dict_iterator_finalize \/ item_unref
  \/ OutsideMakes
  \/ \E s \in Stores : OutsideFrees(s) \/ \E k \in Keys, v \in Values : OutsideWrites(s, k, v)

-----------------------------------------------------------------------------
(* Nothing is freed twice, used after it is freed or forgotten: as many variables
   point to properties as are counted, the pairs of every one exist, and all
   pairs have exactly one owner. *)
Pointers(b) ==
  Cardinality({h \in Holders : held[h] = b})
    + (IF iterator = b THEN 1 ELSE 0) + (IF item = b THEN 1 ELSE 0)
OneOwner ==
  /\ \A b \in Boxes : box[b] # NULL =>
       /\ box[b].ref = Pointers(b)
       /\ store[box[b].store] # NULL
  /\ \A b \in Boxes : Pointers(b) > 0 => box[b] # NULL
  /\ \A s \in Stores : store[s] # NULL =>
       LET owners == {b \in Boxes : box[b] # NULL /\ box[b].store = s
                                      /\ FLAG_NO_OWNERSHIP \notin box[b].flags}
       IN Cardinality(owners) + (IF s \in outside THEN 1 ELSE 0) = 1

(* A holder that has made sure to be the only owner writes for itself alone: its
   write happens, and nobody else, inside or outside, also nobody who iterates,
   sees other pairs than before; nor does anybody else's write reach it. *)
Seen(b) == IF b = NULL THEN NULL ELSE peek_dict(b)
StaysPrivate ==
  \A h \in alone :
    /\ Writable(held[h])
    /\ WriteStep(h) =>
         /\ \A g \in Holders \ {h} : Seen(held[g])' = Seen(held[g])
         /\ Seen(iterator)' = Seen(iterator) /\ Seen(item)' = Seen(item)
         /\ \A s \in outside : store'[s] = store[s]
    /\ (Seen(held[h])' # Seen(held[h]) /\ h \in alone') => WriteStep(h)
=============================================================================
