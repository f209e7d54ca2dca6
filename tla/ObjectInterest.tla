--------------------------- MODULE ObjectInterest ---------------------------
(***************************************************************************)
(* Interests (lib/wp/object-interest.c): a type and constraints that an    *)
(* object is tested against.  An interest is validated when it is first    *)
(* used, and each constraint then remembers the type that the property it  *)
(* is about is converted to.                                               *)
(*                                                                         *)
(* Values are variants [type, v], the types those of GVariant: b i u x t d *)
(* s, and "(" for a tuple.  Numbers stay in the range of every type.       *)
(***************************************************************************)
EXTENDS Integers, Sequences, FiniteSets, TLC

CONSTANTS
  Objects,            \* a sequence of what is tested: the types it is of, its
                      \* properties as lookup_props has them, its GObject ones
  Constraints,        \* a sequence of what add_constraint is given
  Patterns,           \* the strings that each glob pattern matches
  MaxConstraints,
  NULL

VARIABLES
  interest,           \* [gtype, constraints, valid], NULL before it is made
  matched             \* what the last match returned, of which object

interestVars == <<interest, matched>>

GTYPE == "type"
ConstraintTypes == {"pw-global", "pw", "gobject"}
MATCH_ALL == ConstraintTypes \cup {GTYPE}

Numbers == {"i", "u", "x", "t", "d"}
Compared == {"EQUALS", "NOT_EQUALS", "IN_LIST", "IN_RANGE", "MATCHES"}

-----------------------------------------------------------------------------
(* Validation. *)

Uniform(tuple) == \A i \in DOMAIN tuple.v : tuple.v[i].type = tuple.v[1].type

ValidValue(c) ==
  LET value == c.value IN
  CASE c.verb \in {"EQUALS", "NOT_EQUALS"} -> value.type \in Numbers \cup {"b", "s"}
    [] c.verb = "IN_LIST" ->
         /\ value.type = "(" /\ value.v # <<>> /\ Uniform(value)
         /\ value.v[1].type \in Numbers \cup {"s"}
    [] c.verb = "IN_RANGE" ->
         /\ value.type = "(" /\ Len(value.v) = 2 /\ Uniform(value)
         /\ value.v[1].type \in Numbers
    [] c.verb = "MATCHES" -> value.type = "s"
    [] OTHER -> TRUE

ValidConstraint(gtype, c) ==
  /\ c.type \in ConstraintTypes
  /\ gtype = "WpProperties" => c.type # "gobject"
  /\ c.subject # NULL
  /\ (c.verb \in Compared) = (c.value # NULL)
  /\ ValidValue(c)

SubjectType(c) ==
  CASE c.value = NULL -> NULL
    [] c.value # NULL /\ c.value.type = "(" -> c.value.v[1].type
    [] OTHER -> c.value.type

(* The constraints before the first that is wrong keep the type they got. *)
validate(i) ==
  LET wrong == {n \in DOMAIN i.constraints : ~ValidConstraint(i.gtype, i.constraints[n])}
      Typed(n) == \A m \in wrong : n < m
  IN IF i.valid THEN i
     ELSE [i EXCEPT
             !.valid = wrong = {},
             !.constraints = [n \in DOMAIN @ |->
               IF Typed(n) THEN [@[n] EXCEPT !.subject_type = SubjectType(i.constraints[n])] ELSE @[n]]]

-----------------------------------------------------------------------------
(* Conversions. *)

strtol(text) ==
  LET same == {n \in 0..9 : ToString(n) = text} IN IF same = {} THEN 0 ELSE CHOOSE n \in same : TRUE

(* Text that is no boolean leaves the value as it was initialised. *)
property_string_to_gvalue(type, text) ==
  CASE type = "b" -> text \in {"true", "1"}
    [] type = "s" -> text
    [] OTHER -> strtol(text)

(* g_value_transform: strings become nothing else, numbers and booleans do. *)
transformable(from, to) == from = to \/ from # "s"

transform(value, to) ==
  CASE value.type = to -> value.v
    [] value.type = "b" /\ to = "s" -> IF value.v THEN "TRUE" ELSE "FALSE"
    [] value.type = "b" /\ to # "s" -> IF value.v THEN 1 ELSE 0
    [] to = "s" -> ToString(value.v)
    [] to = "b" -> value.v # 0
    [] OTHER -> value.v

-----------------------------------------------------------------------------
(* Matching. *)

(* constraint_verb_*: a constraint that has not been validated has no type to
   compare by. *)
Compare(c, value) ==
  /\ c.subject_type # NULL
  /\ CASE c.verb \in {"EQUALS", "NOT_EQUALS"} -> value = c.value.v
       [] c.verb = "MATCHES" -> value \in Patterns[c.value.v]
       [] c.verb = "IN_LIST" -> \E i \in DOMAIN c.value.v : value = c.value.v[i].v
       [] c.verb = "IN_RANGE" -> c.value.v[1].v <= value /\ value <= c.value.v[2].v

Verb(c, exists, value) ==
  CASE c.verb = "IS_PRESENT" -> exists
    [] c.verb = "IS_ABSENT" -> ~exists
    [] c.verb = "NOT_EQUALS" -> ~(exists /\ Compare(c, value))
    [] OTHER -> exists /\ Compare(c, value)

(* The properties that are looked up.  Those of a session item count as global
   ones; those of a PipeWire object are there once it has its info. *)
lookup_props(o, type) ==
  CASE type = "pw-global" -> IF o.global # NULL THEN o.global ELSE o.session
    [] type = "pw" -> IF o.props_given \/ o.info THEN o.props ELSE NULL
    [] OTHER -> NULL

Satisfied(c, o) ==
  LET dict == IF c.type = "gobject" THEN o.gobject ELSE lookup_props(o, c.type)
      exists == dict # NULL /\ c.subject \in DOMAIN dict
      value == IF c.type = "gobject" THEN transform(dict[c.subject], c.subject_type)
               ELSE property_string_to_gvalue(c.subject_type, dict[c.subject])
      lost == /\ c.type = "gobject" /\ exists /\ c.subject_type # NULL
              /\ ~transformable(dict[c.subject].type, c.subject_type)
  IN ~lost /\ Verb(c, exists, value)

(* Without CHECK_ALL the first failure ends the match. *)
matches_full(i, check_all, o) ==
  LET start == IF i.gtype \in o.is_a THEN MATCH_ALL ELSE MATCH_ALL \ {GTYPE}
      F[n \in 0..Len(i.constraints)] ==
        IF n = 0 THEN start
        ELSE IF ~check_all /\ F[n - 1] # MATCH_ALL THEN F[n - 1]
        ELSE IF Satisfied(i.constraints[n], o) THEN F[n - 1]
        ELSE F[n - 1] \ {i.constraints[n].type}
  IN IF i.valid THEN F[Len(i.constraints)] ELSE {}

-----------------------------------------------------------------------------
InitInterest == interest = NULL /\ matched = NULL

new_type(gtype) ==
  /\ interest = NULL
  /\ interest' = [gtype |-> gtype, constraints |-> <<>>, valid |-> FALSE]
  /\ UNCHANGED matched

(* Mutant: the interest stays valid. *)
add_constraint_valid(c) ==
  /\ interest # NULL
  /\ Len(interest.constraints) < MaxConstraints
  /\ interest' = [interest EXCEPT !.constraints = Append(@, c @@ [subject_type |-> NULL])]
  /\ matched' = NULL

add_constraint(c) ==
  /\ interest # NULL
  /\ Len(interest.constraints) < MaxConstraints
  /\ interest' = [interest EXCEPT
                    !.constraints = Append(@, c @@ [subject_type |-> NULL]), !.valid = FALSE]
  /\ matched' = NULL

(* wp_object_interest_matches_full, and with it _matches. *)
Match(o, check_all) ==
  /\ interest # NULL
  /\ interest' = validate(interest)
  /\ matched' = [object |-> o, all |-> check_all, result |-> matches_full(interest', check_all, o)]

InterestNext ==
  \/ \E gtype \in {"WpNode", "WpProperties"} : new_type(gtype)
  \/ \E n \in DOMAIN Constraints : add_constraint(Constraints[n])
  \/ \E n \in DOMAIN Objects, check_all \in BOOLEAN : Match(Objects[n], check_all)

-----------------------------------------------------------------------------
(* What a constraint means for an object, from the constraint alone: the value
   the object has, if any, is read as what the constraint compares it with, and
   then is one of those that the constraint allows. *)
Allowed(c) ==
  CASE c.verb \in {"EQUALS", "NOT_EQUALS"} -> {c.value.v}
    [] c.verb = "IN_LIST" -> {c.value.v[n].v : n \in DOMAIN c.value.v}
    [] c.verb = "IN_RANGE" -> c.value.v[1].v..c.value.v[2].v
    [] c.verb = "MATCHES" -> Patterns[c.value.v]

(* What the constraint requires of the object: NULL when the caller has none. *)
Required(o, c) == IF c.type = "gobject" THEN o.gobject ELSE lookup_props(o, c.type)

Held(o, c) ==
  IF Required(o, c) = NULL \/ c.subject \notin DOMAIN Required(o, c) THEN {}
  ELSE IF c.type = "gobject" THEN {o.gobject[c.subject]}
  ELSE {[type |-> "text", v |-> Required(o, c)[c.subject]]}

Means(c, o) ==
  LET Read(x) == IF x.type = "text" THEN property_string_to_gvalue(SubjectType(c), x.v)
                 ELSE transform(x, SubjectType(c))
      Readable(x) == x.type = "text" \/ transformable(x.type, SubjectType(c))
      Some == \E x \in Held(o, c) : Readable(x) /\ Read(x) \in Allowed(c)
  IN CASE c.verb = "IS_PRESENT" -> Held(o, c) # {}
       [] c.verb = "IS_ABSENT" -> Held(o, c) = {}
       [] c.verb = "NOT_EQUALS" -> ~Some /\ \A x \in Held(o, c) : Readable(x)
       [] OTHER -> Some

(* A match answers for the constraints the interest has now, also for those that
   were added after it was validated: all is matched exactly when the type and
   every constraint hold, the bits of CHECK_ALL tell which kind did not, and an
   interest with a constraint that makes no sense matches nothing.  What is
   required and NULL holds no value, as if it were there and empty: there "is
   absent" and "not equals" hold and all else fails.  This is what the code does
   (exists stays FALSE), and not what its comment says: see NullFails. *)
MatchesMean ==
  matched # NULL =>
    LET valid == \A n \in DOMAIN interest.constraints :
                   ValidConstraint(interest.gtype, interest.constraints[n])
        failed == {interest.constraints[n].type : n \in {n \in DOMAIN interest.constraints :
                      ~Means(interest.constraints[n], matched.object)}}
                    \cup (IF interest.gtype \in matched.object.is_a THEN {} ELSE {GTYPE})
    IN IF ~valid THEN matched.result = {}
       ELSE /\ (matched.result = MATCH_ALL) = (failed = {})
            /\ matched.all => matched.result = MATCH_ALL \ failed
            /\ \A n \in DOMAIN interest.constraints :
                 Required(matched.object, interest.constraints[n]) = NULL =>
                   (Means(interest.constraints[n], matched.object)
                      = (interest.constraints[n].verb \in {"NOT_EQUALS", "IS_ABSENT"}))

(* The comment of wp_object_interest_matches_full (object-interest.c:699): the
   object and its properties "may be NULL, but in case there are any constraints
   that require them, the match will fail".  TLC refutes it in MatchesMean's run:
   the two verbs above match an object that has no properties yet. *)
NullFails ==
  matched # NULL =>
    \A n \in DOMAIN interest.constraints :
      Required(matched.object, interest.constraints[n]) = NULL => matched.result # MATCH_ALL

=============================================================================
