------------------------ MODULE DefaultNodesProofs -------------------------
(***************************************************************************)
(* The user's preferences are kept, for every set of nodes, every depth of *)
(* the stack and every number of changes, requests and stops: the stack of *)
(* earlier choices is sound, and the file holds what is in memory unless a *)
(* save is due or has failed. The invariant adds to this that the file     *)
(* holds a sound stack too, which is what the next start loads, and that a *)
(* daemon that is down has no save due.                                    *)
(***************************************************************************)
EXTENDS DefaultNodes, FiniteSetTheorems, SequenceTheorems, WellFoundedInduction, TLAPS

FileSound == \A k \in Kinds : Sound(file[k].prev)
NothingDue == "up" \notin attached => ~pending /\ ~failed
IInv == TypeOK /\ StackSound /\ Stored /\ FileSound /\ NothingDue

(* Pushing a name keeps the stack sound (update_prev_config_values).       *)
LEMMA PushSound ==
  ASSUME NEW name \in Nodes, NEW stack \in [Depth -> Name], Sound(stack)
  PROVE  /\ update_prev_config_values(name, stack) \in [Depth -> Name]
         /\ Sound(update_prev_config_values(name, stack))
<1> DEFINE pos == PlaceOf(name, stack)
           new == update_prev_config_values(name, stack)
<1>1. pos \in Depth /\ (stack[pos] = name \/ (pos = NPrevConfigs /\ \A i \in Depth : stack[i] # name))
  BY NPrevAssumption DEF PlaceOf, Depth
<1>2. new = [i \in Depth |-> IF i = 1 THEN name ELSE IF i <= pos THEN stack[i - 1] ELSE stack[i]]
  BY DEF update_prev_config_values
<1> HIDE DEF pos, new
<1>3. name # NULL /\ name \in Name
  BY NullAssumption DEF Name
<1>4. new \in [Depth -> Name]
  BY <1>1, <1>2, <1>3, NPrevAssumption DEF Depth
<1>5. ASSUME NEW i \in Depth, NEW j \in Depth, i < j, new[j] # NULL
      PROVE  new[i] \notin {NULL, new[j]}
  <2>1. \A a, b \in Depth : a < b /\ stack[b] # NULL => stack[a] # NULL /\ stack[a] # stack[b]
    BY DEF Sound
  <2>2. i \in Nat /\ j \in Nat /\ pos \in Nat /\ i >= 1 /\ j >= 2
    BY <1>1, <1>5, NPrevAssumption DEF Depth
  <2>3. CASE j <= pos
    <3>1. new[j] = stack[j - 1] /\ j - 1 \in Depth /\ j - 1 < pos
      BY <1>1, <1>2, <2>2, <2>3, NPrevAssumption DEF Depth
    <3>2. CASE i = 1
      <4>1. new[i] = name
        BY <1>2, <3>2
      <4>2. stack[j - 1] # name
        BY <1>1, <1>3, <2>1, <3>1
      <4> QED BY <1>3, <3>1, <4>1, <4>2
    <3>3. CASE i # 1
      <4>1. new[i] = stack[i - 1] /\ i - 1 \in Depth /\ i - 1 < j - 1
        BY <1>1, <1>2, <1>5, <2>2, <2>3, <3>3, NPrevAssumption DEF Depth
      <4> QED BY <1>5, <2>1, <3>1, <4>1
    <3> QED BY <3>2, <3>3
  <2>4. CASE j > pos
    <3>1. new[j] = stack[j] /\ stack[pos] = name
      BY <1>1, <1>2, <2>2, <2>4, NPrevAssumption DEF Depth
    <3>2. CASE i = 1
      BY <1>1, <1>2, <1>3, <1>5, <2>1, <2>4, <3>1, <3>2
    <3>3. CASE i # 1 /\ i <= pos
      <4>1. new[i] = stack[i - 1] /\ i - 1 \in Depth /\ i - 1 < j
        BY <1>1, <1>2, <1>5, <2>2, <3>3, NPrevAssumption DEF Depth
      <4> QED BY <1>5, <2>1, <3>1, <4>1
    <3>4. CASE i # 1 /\ i > pos
      BY <1>2, <1>5, <2>1, <2>2, <3>1, <3>4
    <3> QED BY <1>1, <2>2, <3>2, <3>3, <3>4
  <2> QED BY <1>1, <2>2, <2>3, <2>4
<1> QED BY <1>4, <1>5 DEF Sound, new

LEMMA InitInv == Init => IInv
<1> SUFFICES ASSUME Init PROVE IInv
  OBVIOUS
<1>1. NULL \in Name /\ NoHistory \in [Depth -> Name] /\ Sound(NoHistory)
  BY DEF Name, NoHistory, Sound
<1>2. file \in [Kinds -> Preferences] /\ FileSound
  BY FilesAssumption DEF Init, FileSound
<1>3. TypeOK
  BY <1>1, <1>2 DEF Init, TypeOK
<1>4. StackSound
  BY <1>1 DEF Init, StackSound
<1>5. Stored /\ NothingDue
  BY DEF Init, Stored, NothingDue
<1> QED BY <1>2, <1>3, <1>4, <1>5 DEF IInv

(* What is in memory has the type of what is in the file.                  *)
LEMMA MemoryType == TypeOK => Memory \in [Kinds -> Preferences]
BY DEF TypeOK, Memory, Preferences

(* A step that leaves the preferences and the storage alone.               *)
LEMMA Frame ==
  ASSUME IInv, UNCHANGED <<config, prev, storage>>,
         "up" \in attached <=> "up" \in attached',
         attached' \subseteq {"up", "plugin", "api"}
  PROVE  IInv'
<1>1. TypeOK' /\ StackSound' /\ FileSound' /\ NothingDue'
  BY DEF IInv, TypeOK, StackSound, FileSound, NothingDue, storage
<1>2. Memory' = Memory
  BY DEF Memory
<1>3. Stored'
  BY <1>2 DEF IInv, Stored, storage
<1> QED BY <1>1, <1>3 DEF IInv

(* A client's request: what changes in memory is due to be saved.          *)
LEMMA RequestInv ==
  ASSUME IInv, NEW k \in Kinds, set_default_configured_node_name(k)
  PROVE  IInv'
<1>1. PICK new \in Name \cup {"junk"} : on_metadata_changed(k, new)
  BY DEF set_default_configured_node_name
<1>2. UNCHANGED <<attached, file, failed>> /\ "up" \in attached
  BY DEF set_default_configured_node_name
<1>3. CASE "plugin" \notin attached
  <2>1. UNCHANGED <<config, prev, storage>>
    BY <1>1, <1>2, <1>3 DEF on_metadata_changed, storage
  <2> QED BY <1>2, <2>1, Frame DEF IInv, TypeOK
<1>4. CASE "plugin" \in attached
  <2> DEFINE stack == CASE new = NULL -> NoHistory
                        [] new = "junk" -> prev[k]
                        [] OTHER -> update_prev_config_values(new, prev[k])
  <2>1. /\ config' = [config EXCEPT ![k] = NameIn(new)]
        /\ prev' = [prev EXCEPT ![k] = stack]
        /\ pending'
    BY <1>1, <1>4 DEF on_metadata_changed, timer_start
  <2>2. NameIn(new) \in Name
    BY <1>1 DEF NameIn, Name
  <2>3. prev \in [Kinds -> [Depth -> Name]] /\ Sound(prev[k]) /\ prev[k] \in [Depth -> Name]
    BY DEF IInv, TypeOK, StackSound
  <2>4. stack \in [Depth -> Name] /\ Sound(stack)
    <3>1. CASE new = NULL
      <4>1. stack = NoHistory
        BY <3>1, NullAssumption
      <4>2. NoHistory \in [Depth -> Name] /\ Sound(NoHistory)
        BY DEF NoHistory, Name, Sound
      <4> HIDE DEF stack
      <4> QED BY <4>1, <4>2
    <3>2. CASE new = "junk"
      BY <2>3, <3>2, NullAssumption
    <3>3. CASE new # NULL /\ new # "junk"
      <4>1. new \in Nodes
        BY <1>1, <3>3 DEF Name
      <4>2. stack = update_prev_config_values(new, prev[k])
        BY <3>3
      <4> QED BY <2>3, <4>1, <4>2, PushSound
    <3> QED BY <3>1, <3>2, <3>3
  <2> HIDE DEF stack
  <2>5. TypeOK'
    <3>1. config' \in [Kinds -> Name]
      BY <2>1, <2>2 DEF IInv, TypeOK
    <3>2. prev' \in [Kinds -> [Depth -> Name]]
      BY <2>1, <2>3, <2>4
    <3> QED BY <1>2, <2>1, <3>1, <3>2 DEF IInv, TypeOK
  <2>6. StackSound'
    BY <2>1, <2>3, <2>4 DEF IInv, StackSound
  <2>7. Stored' /\ NothingDue' /\ FileSound'
    BY <1>2, <2>1 DEF IInv, Stored, NothingDue, FileSound
  <2> QED BY <2>5, <2>6, <2>7 DEF IInv
<1> QED BY <1>3, <1>4

(* A save writes what is in memory, or fails.                              *)
LEMMA SaveInv ==
  ASSUME IInv, timeout_save_state_callback
  PROVE  IInv'
<1>1. UNCHANGED <<attached, config, prev>> /\ Memory' = Memory /\ pending' = FALSE
  BY DEF timeout_save_state_callback, plugin, Memory
<1>2. "up" \in attached
  BY DEF timeout_save_state_callback, IInv, NothingDue
<1>3. CASE file' = Memory /\ failed' = FALSE
  <2>1. TypeOK'
    BY <1>1, <1>3, MemoryType DEF IInv, TypeOK
  <2>2. FileSound' /\ StackSound'
    BY <1>1, <1>3 DEF IInv, FileSound, StackSound, Memory
  <2> QED BY <1>1, <1>2, <1>3, <2>1, <2>2 DEF IInv, Stored, NothingDue
<1>4. CASE file' = file /\ failed' = TRUE
  BY <1>1, <1>2, <1>4 DEF IInv, TypeOK, FileSound, StackSound, Stored, NothingDue
<1> QED BY <1>3, <1>4 DEF timeout_save_state_callback, wp_state_save

(* A start loads what the file holds.                                      *)
LEMMA StartInv ==
  ASSUME IInv, Start
  PROVE  IInv'
<1>1. /\ attached' = {"up"} /\ UNCHANGED storage /\ ~pending /\ ~failed
      /\ config' = [k \in Kinds |-> file[k].config]
      /\ prev' = [k \in Kinds |-> file[k].prev]
  BY DEF Start, load_state, IInv, NothingDue
<1>2. file \in [Kinds -> Preferences]
  BY DEF IInv, TypeOK
<1>3. TypeOK'
  BY <1>1, <1>2 DEF IInv, TypeOK, Preferences, storage
<1>4. StackSound' /\ FileSound'
  BY <1>1 DEF IInv, StackSound, FileSound, storage
<1>5. Memory' = file
  BY <1>1, <1>2 DEF Memory, Preferences
<1>6. Stored' /\ NothingDue'
  BY <1>1, <1>5 DEF Stored, NothingDue, storage
<1> QED BY <1>3, <1>4, <1>6 DEF IInv

(* A stop or a crash leaves the file as it is.                             *)
LEMMA StopInv ==
  ASSUME IInv, wp_default_nodes_disable
  PROVE  IInv'
<1>1. /\ attached' = {} /\ pending' = FALSE /\ failed' = FALSE /\ file' = file
      /\ config' = [k \in Kinds |-> NULL] /\ prev' = [k \in Kinds |-> NoHistory]
  BY DEF wp_default_nodes_disable, Down
<1>2. NULL \in Name /\ NoHistory \in [Depth -> Name] /\ Sound(NoHistory)
  BY DEF Name, NoHistory, Sound
<1>3. TypeOK' /\ StackSound'
  BY <1>1, <1>2 DEF IInv, TypeOK, StackSound
<1>4. FileSound' /\ Stored' /\ NothingDue'
  BY <1>1 DEF IInv, FileSound, Stored, NothingDue
<1> QED BY <1>3, <1>4 DEF IInv

LEMMA NextInv == IInv /\ [Next]_vars => IInv'
<1> SUFFICES ASSUME IInv, [Next]_vars PROVE IInv'
  OBVIOUS
<1>0. attached \subseteq {"up", "plugin", "api"}
  BY DEF IInv, TypeOK
<1>1. CASE on_metadata_added
  <2>1. UNCHANGED <<config, prev, storage>> /\ attached' = attached \cup {"plugin"}
    BY <1>1 DEF on_metadata_added
  <2> QED BY <1>0, <2>1, Frame
<1>2. CASE ApiFindsMetadata
  <2>1. UNCHANGED <<config, prev, storage>> /\ attached' = attached \cup {"api"}
    BY <1>2 DEF ApiFindsMetadata
  <2> QED BY <1>0, <2>1, Frame
<1>3. CASE ReceiveNodes
  <2>1. UNCHANGED <<attached, config, prev, storage>>
    BY <1>3 DEF ReceiveNodes, plugin
  <2> QED BY <1>0, <2>1, Frame
<1>4. CASE sync_rescan
  <2>1. UNCHANGED <<attached, config, prev, storage>>
    BY <1>4 DEF sync_rescan
  <2> QED BY <1>0, <2>1, Frame
<1>5. CASE sync_changed_notification
  <2>1. UNCHANGED <<attached, config, prev, storage>>
    BY <1>5 DEF sync_changed_notification, plugin
  <2> QED BY <1>0, <2>1, Frame
<1>6. CASE timeout_save_state_callback
  BY <1>6, SaveInv
<1>7. CASE Start
  BY <1>7, StartInv
<1>8. CASE \E n \in Nodes : ServerChanges(n)
  <2>1. UNCHANGED <<attached, config, prev, storage>>
    BY <1>8 DEF ServerChanges, plugin
  <2> QED BY <1>0, <2>1, Frame
<1>9. CASE \E k \in Kinds : set_default_configured_node_name(k)
  BY <1>9, RequestInv
<1>10. CASE ClearSubject
  <2>1. UNCHANGED <<attached, config, prev, storage>>
    BY <1>10 DEF ClearSubject, plugin
  <2> QED BY <1>0, <2>1, Frame
<1>11. CASE wp_default_nodes_disable
  BY <1>11, StopInv
<1>12. CASE UNCHANGED vars
  <2>1. UNCHANGED <<attached, config, prev, storage>>
    BY <1>12 DEF vars, plugin
  <2> QED BY <1>0, <2>1, Frame
<1> QED
  BY <1>1, <1>2, <1>3, <1>4, <1>5, <1>6, <1>7, <1>8, <1>9, <1>10, <1>11, <1>12
  DEF Next, Daemon, Environment

(* Whatever clients configure, however often the daemon stops, crashes or  *)
(* fails to save: the preferences in memory and in the file have their     *)
(* type, no earlier choice is lost from the stack, and the file holds what *)
(* is in memory unless a save is due or failed.                            *)
THEOREM PreferencesKept == Spec => []Consistent
<1>1. Spec => []IInv
  BY InitInv, NextInv, PTL DEF Spec
<1>2. IInv => Consistent
  BY DEF IInv, Consistent
<1> QED BY <1>1, <1>2, PTL

-----------------------------------------------------------------------------
(* The choice of the best node.                                            *)

(* A finite set that is in an order has a first element.                   *)
LEMMA FirstOfOrder ==
  ASSUME NEW S, NEW R, IsFiniteSet(S), S # {},
         \A a \in S : <<a, a>> \notin R,
         \A a, b \in S : a = b \/ <<a, b>> \in R \/ <<b, a>> \in R,
         \A a, b, c \in S : <<a, b>> \in R /\ <<b, c>> \in R => <<a, c>> \in R
  PROVE  \E a \in S : \A b \in S \ {a} : <<a, b>> \in R
<1> DEFINE Ahead(a) == {b \in S : <<b, a>> \in R}
           Counts == {Cardinality(Ahead(a)) : a \in S}
           Less == OpToRel(<, Nat)
<1>1. \A a \in S : IsFiniteSet(Ahead(a)) /\ Cardinality(Ahead(a)) \in Nat
  BY FS_Subset, FS_CardinalityType
<1>2. Counts \subseteq Nat /\ Counts # {}
  <2>1. PICK a \in S : TRUE
    OBVIOUS
  <2>2. Cardinality(Ahead(a)) \in Counts
    OBVIOUS
  <2>3. Counts \subseteq Nat
    BY ONLY <1>1
  <2> QED BY <2>2, <2>3
<1>3. IsWellFoundedOn(Less, Nat)
  BY NatLessThanWellFounded
<1>4. \A m, n \in Nat : <<m, n>> \in Less <=> m < n
  BY DEF OpToRel
<1> HIDE DEF Less, Counts
<1>5. PICK c \in Counts : \A m \in Counts : ~ (<<m, c>> \in Less)
  BY <1>2, <1>3, WFMin
<1>6. PICK a \in S : c = Cardinality(Ahead(a))
  BY <1>5 DEF Counts
<1>7. ASSUME NEW b \in S, <<b, a>> \in R
      PROVE  FALSE
  <2>1. Ahead(b) \subseteq Ahead(a)
    BY <1>7
  <2>2. b \in Ahead(a) /\ b \notin Ahead(b)
    BY <1>7
  <2>3. Cardinality(Ahead(b)) <= c /\ Cardinality(Ahead(b)) # c
    BY <1>1, <1>6, <2>1, <2>2, FS_Subset
  <2>4. Cardinality(Ahead(b)) \in Counts
    BY DEF Counts
  <2>5. Cardinality(Ahead(b)) \in Nat /\ c \in Nat
    BY <1>1, <1>2, <1>5
  <2>6. ~ (Cardinality(Ahead(b)) < c)
    BY <1>4, <1>5, <2>4, <2>5
  <2> HIDE DEF Ahead
  <2> QED BY <2>3, <2>5, <2>6
<1> QED BY <1>7

Rivals(k) == {n \in Nodes : Class[n] \in Range(MediaClasses[k]) /\ Eligible(seen, k, n)}

Beats(k, a, b) ==
  \/ Score(k, a) > Score(k, b)
  \/ Score(k, a) = Score(k, b) /\ TriedBefore(k, a, b)

(* v is what find_best_node(k) looks for.                                  *)
IsBest(k, v) ==
  IF Rivals(k) = {} THEN v = NULL
  ELSE v \in Rivals(k) /\ \A n \in Rivals(k) \ {v} : Beats(k, v, n)

(* The nodes that are known are in one order.                              *)
There == {n \in Nodes : seen[n] # NULL}
OrderTotal ==
  /\ order \subseteq There \X There
  /\ \A a \in There : <<a, a>> \notin order
  /\ \A a, b \in There : a = b \/ <<a, b>> \in order \/ <<b, a>> \in order
  /\ \A a, b, c \in There : <<a, b>> \in order /\ <<b, c>> \in order => <<a, c>> \in order

LEMMA PlaceType ==
  ASSUME NEW name, NEW stack
  PROVE  PlaceOf(name, stack) \in Depth
BY NPrevAssumption DEF PlaceOf, Depth

LEMMA ScoreType ==
  ASSUME NEW k \in Kinds, NEW n \in Nodes
  PROVE  Score(k, n) \in Int
<1>1. PlaceOf(n, prev[k]) \in Int
  BY PlaceType, NPrevAssumption DEF Depth
<1>2. Priority[n] \in Int /\ NPrevConfigs \in Int
  BY PriorityAssumption, NPrevAssumption
<1> QED BY <1>1, <1>2 DEF Score

LEMMA ClassPlace ==
  ASSUME NEW k \in Kinds, NEW c \in Range(MediaClasses[k])
  PROVE  PlaceIn(MediaClasses[k], c) \in Nat
<1>1. DOMAIN MediaClasses[k] \subseteq Nat
  BY ClassesAssumption
<1>2. \E i \in DOMAIN MediaClasses[k] : MediaClasses[k][i] = c
  BY DEF Range
<1> QED BY <1>1, <1>2 DEF PlaceIn

(* There is always one that beats the others.                              *)
LEMMA BestFound ==
  ASSUME OrderTotal, NEW k \in Kinds
  PROVE  IsBest(k, find_best_node(k)) /\ find_best_node(k) \in Name
<1> DEFINE S == Rivals(k)
           R == {p \in S \X S : Beats(k, p[1], p[2])}
<1>1. CASE S = {}
  BY <1>1 DEF IsBest, find_best_node, Rivals, Name
<1>2. CASE S # {}
  <2>1. IsFiniteSet(S) /\ S \subseteq Nodes
    BY FiniteAssumption, FS_Subset DEF Rivals
  <2>2. \A n \in S : /\ Score(k, n) \in Int
                     /\ PlaceIn(MediaClasses[k], Class[n]) \in Nat
                     /\ n \in There
    BY ScoreType, ClassPlace DEF Rivals, Eligible, There
  <2> DEFINE score[n \in S] == Score(k, n)
             class[n \in S] == PlaceIn(MediaClasses[k], Class[n])
  <2>a. \A n \in S : score[n] = Score(k, n) /\ class[n] = PlaceIn(MediaClasses[k], Class[n])
    OBVIOUS
  <2>b. \A n \in S : score[n] \in Int /\ class[n] \in Nat
    BY <2>2
  <2> HIDE DEF S, score, class
  <2>3. \A a, b \in S : <<a, b>> \in R <=>
          \/ score[b] < score[a]
          \/ score[a] = score[b] /\ class[a] < class[b]
          \/ score[a] = score[b] /\ class[a] = class[b] /\ <<a, b>> \in order
    BY <2>2, <2>a DEF Beats, TriedBefore
  <2>c. \A a, b \in S : <<a, b>> \in R <=> Beats(k, a, b)
    OBVIOUS
  <2> HIDE DEF R
  <2>4. ASSUME NEW a \in S
        PROVE  <<a, a>> \notin R
    <3>1. a \in There /\ score[a] \in Int /\ class[a] \in Nat
      BY <2>2, <2>b
    <3>2. <<a, a>> \notin order
      BY <3>1 DEF OrderTotal
    <3>3. ~(score[a] < score[a]) /\ ~(class[a] < class[a])
      BY <3>1
    <3> QED BY <2>3, <3>2, <3>3
  <2>5. ASSUME NEW a \in S, NEW b \in S, a # b
        PROVE  <<a, b>> \in R \/ <<b, a>> \in R
    <3>1. <<a, b>> \in order \/ <<b, a>> \in order
      BY <2>2, <2>5 DEF OrderTotal
    <3>2. /\ score[a] < score[b] \/ score[a] = score[b] \/ score[b] < score[a]
          /\ class[a] < class[b] \/ class[a] = class[b] \/ class[b] < class[a]
      BY <2>b
    <3> QED BY <2>3, <3>1, <3>2
  <2>6. \A a, b, c \in S : <<a, b>> \in R /\ <<b, c>> \in R => <<a, c>> \in R
    BY <2>2, <2>3, <2>b DEF OrderTotal
  <2>7. PICK best \in S : \A n \in S \ {best} : <<best, n>> \in R
    BY <1>2, <2>1, <2>4, <2>5, <2>6, FirstOfOrder
  <2>8. \E n \in S : \A m \in S \ {n} : Beats(k, n, m)
    BY <2>c, <2>7
  <2>9. find_best_node(k) = CHOOSE n \in S : \A m \in S \ {n} : Beats(k, n, m)
    BY <1>2 DEF find_best_node, Beats, S, Rivals
  <2>10. find_best_node(k) \in S
         /\ \A m \in S \ {find_best_node(k)} : Beats(k, find_best_node(k), m)
    BY <2>8, <2>9
  <2> QED BY <1>2, <2>1, <2>10 DEF IsBest, Name, S
<1> QED BY <1>1, <1>2

(* The choice depends on the nodes that are known and on the preferences.  *)
LEMMA BestKept ==
  ASSUME UNCHANGED <<seen, order, config, prev>>
  PROVE  \A k, v : IsBest(k, v)' <=> IsBest(k, v)
<1>1. \A k : Rivals(k)' = Rivals(k)
  BY DEF Rivals, Eligible
<1>2. \A k, a, b : Beats(k, a, b)' <=> Beats(k, a, b)
  <2>1. \A k, n : Score(k, n)' = Score(k, n)
    BY DEF Score
  <2> QED BY <2>1 DEF Beats, TriedBefore
<1> QED BY <1>1, <1>2 DEF IsBest

(* No node that is better beats the best one.                              *)
LEMMA BetterBeats ==
  ASSUME NEW k \in Kinds, NEW a \in Nodes, NEW b \in Nodes, Better(k, a, b)
  PROVE  ~Beats(k, b, a)
<1>1. /\ NPrevConfigs \in Nat \ {0}
      /\ Rank(k, a) \in 0..(NPrevConfigs + 1)
      /\ Rank(k, b) \in 0..(NPrevConfigs + 1)
  BY PlaceType, NPrevAssumption DEF Rank, Depth
<1>2. \A n \in {a, b} :
        Score(k, n) = Priority[n] + (IF n \in EchoCancel THEN 10000 ELSE 0)
                      + 20000 * (NPrevConfigs + 1 - Rank(k, n))
  <2> SUFFICES ASSUME NEW n \in {a, b}
               PROVE  Score(k, n) = Priority[n] + (IF n \in EchoCancel THEN 10000 ELSE 0)
                                    + 20000 * (NPrevConfigs + 1 - Rank(k, n))
    OBVIOUS
  <2>1. PlaceOf(n, prev[k]) \in Nat
    BY PlaceType, NPrevAssumption DEF Depth
  <2> QED BY <1>1, <2>1, PriorityAssumption DEF Score, Rank
<1>3. /\ Priority[a] \in Int /\ Priority[b] \in Int
      /\ Priority[a] - Priority[b] < 10000
      /\ Priority[b] - Priority[a] < 10000
  BY PriorityAssumption
<1>4. Score(k, a) > Score(k, b)
  BY <1>1, <1>2, <1>3 DEF Better
<1>5. Score(k, a) \in Int /\ Score(k, b) \in Int
  BY ScoreType
<1> QED BY <1>4, <1>5 DEF Beats

-----------------------------------------------------------------------------
(* What is on its way, and what it is about.                               *)

State == {NULL} \cup NodeStates
Reported == UNION {[S -> State] : S \in SUBSET Nodes}
Places == UNION {[S -> Nat] : S \in SUBSET Nodes}
NodesEvent == [type : {"nodes"}, nodes : Reported, place : Places]
DoneEvent(purpose) == [type |-> "done", purpose |-> purpose]
Event == NodesEvent \cup {DoneEvent("rescan"), DoneEvent("notify")}

LEMMA MakeNodesEvent ==
  ASSUME NEW S \in SUBSET Nodes, NEW f \in [S -> State], NEW g \in [S -> Nat]
  PROVE  [type |-> "nodes", nodes |-> f, place |-> g] \in NodesEvent
<1>1. f \in Reported
  BY DEF Reported
<1>2. g \in Places
  BY DEF Places
<1> QED BY <1>1, <1>2 DEF NodesEvent

LEMMA TakeNodesEvent ==
  ASSUME NEW e \in NodesEvent
  PROVE  /\ DOMAIN e.nodes \subseteq Nodes
         /\ e.nodes \in [DOMAIN e.nodes -> State]
         /\ DOMAIN e.place \subseteq Nodes
         /\ e.place \in [DOMAIN e.place -> Nat]
<1>1. e.nodes \in Reported /\ e.place \in Places
  BY DEF NodesEvent
<1>2. PICK S \in SUBSET Nodes : e.nodes \in [S -> State]
  BY <1>1 DEF Reported
<1>3. PICK T \in SUBSET Nodes : e.place \in [T -> Nat]
  BY <1>1 DEF Places
<1> QED BY <1>2, <1>3

LEMMA EventKinds ==
  /\ \A e \in Event : e.type = "nodes" <=> e \in NodesEvent
  /\ DoneEvent("rescan") \notin NodesEvent /\ DoneEvent("notify") \notin NodesEvent
  /\ DoneEvent("rescan") # DoneEvent("notify")
BY DEF Event, NodesEvent, DoneEvent

(* The i-th event tells of n.                                              *)
Tells(i, n) == events[i] \in NodesEvent /\ n \in DOMAIN events[i].nodes

ServerTypes ==
  /\ world \in [Nodes -> State]
  /\ seen \in [Nodes -> State]
  /\ events \in Seq(Event)

MetadataTypes ==
  /\ value \in [Kinds -> Name]
  /\ metadata \in [default : [Kinds -> Name], config : [Kinds -> Name \cup {"junk"}]]
  /\ cache \in [default : [Kinds -> Name], config : [Kinds -> Name]]
  /\ told \in [Kinds -> Name]

(* An event that tells of nodes tells their places, no two the same.       *)
PlacesTold ==
  \A i \in 1..Len(events) : events[i] \in NodesEvent =>
    /\ DOMAIN events[i].place = DOMAIN events[i].nodes
    /\ \A a, b \in DOMAIN events[i].place :
         events[i].place[a] = events[i].place[b] => a = b

(* What the plugin knows of a node is so unless there is an event that     *)
(* tells of it, and the last one that does tells what is so.               *)
NewsOf(n) ==
  /\ (\A i \in 1..Len(events) : ~Tells(i, n)) => seen[n] = world[n]
  /\ \A i \in 1..Len(events) :
       Tells(i, n) /\ (\A j \in 1..Len(events) : i < j => ~Tells(j, n))
         => events[i].nodes[n] = world[n]

NewsComing == "plugin" \in attached => \A n \in Nodes : NewsOf(n)

(* What the plugin has set last was the best, or a rescan is due.          *)
RescanComing ==
  \/ "plugin" \notin attached
  \/ \A k \in Kinds : IsBest(k, value[k])
  \/ \E i \in 1..Len(events) : events[i] # DoneEvent("notify")

(* The scripts have read what the API has cached, or are about to be told. *)
NotifyComing ==
  told = cache.default \/ \E i \in 1..Len(events) : events[i] = DoneEvent("notify")

Published == \A k \in Kinds : <<"default", k>> \notin wiped => metadata.default[k] = value[k]

CacheRight ==
  "api" \in attached =>
    \A k \in Kinds :
      /\ <<"default", k>> \notin wiped => cache.default[k] = metadata.default[k]
      /\ <<"config", k>> \notin wiped => cache.config[k] = NameIn(metadata.config[k])

Nobody == [k \in Kinds |-> NULL]

(* Nothing is known, or on its way, to those that have not attached.       *)
NotAttached ==
  /\ "up" \notin attached => attached = {}
  /\ "plugin" \notin attached =>
       /\ order = {} /\ \A n \in Nodes : seen[n] = NULL
       /\ \A i \in 1..Len(events) : events[i] = DoneEvent("notify")
  /\ "api" \notin attached =>
       /\ cache.default = Nobody /\ told = Nobody
       /\ \A i \in 1..Len(events) : events[i] # DoneEvent("notify")

DInv ==
  /\ ServerTypes /\ MetadataTypes /\ PlacesTold /\ NewsComing /\ OrderTotal
  /\ RescanComing /\ NotifyComing /\ Published /\ CacheRight /\ NotAttached

(* In a quiet moment this is what DefaultsAgree asks for.                  *)
LEMMA QuietAgrees == DInv => DefaultsAgree
<1> SUFFICES ASSUME DInv PROVE DefaultsAgree
  OBVIOUS
<1>1. ApiUpToDate
  <2>1. Quiet => told = cache.default
    <3>1. ASSUME events = <<>>
          PROVE  Len(events) = 0
      BY <3>1
    <3> QED BY <3>1 DEF DInv, NotifyComing, Quiet
  <2> QED BY <2>1 DEF DInv, CacheRight, ApiUpToDate
<1>2. ASSUME Quiet, NEW k \in Kinds, <<"default", k>> \notin wiped
      PROVE  IF Candidates(k) = {}
             THEN metadata.default[k] = NULL
             ELSE /\ metadata.default[k] \in Candidates(k)
                  /\ \A n \in Candidates(k) : ~Better(k, n, metadata.default[k])
  <2>1. Len(events) = 0 /\ "plugin" \in attached
    BY <1>2 DEF Quiet
  <2>2. \A n \in Nodes : seen[n] = world[n]
    BY <2>1 DEF DInv, NewsComing, NewsOf
  <2>3. IsBest(k, value[k])
    BY <2>1 DEF DInv, RescanComing
  <2>4. metadata.default[k] = value[k]
    BY <1>2 DEF DInv, Published
  <2>5. ASSUME NEW n \in Nodes
        PROVE  node_has_available_routes(world[n]) <=> Plugged(world[n].route)
    BY DEF node_has_available_routes, Plugged
  <2>6. Candidates(k) = Rivals(k)
    BY <2>2, <2>5 DEF Candidates, Rivals, Eligible
  <2>7. ASSUME Rivals(k) # {}, NEW n \in Rivals(k)
        PROVE  value[k] \in Rivals(k) /\ ~Better(k, n, value[k])
    <3>1. value[k] \in Rivals(k) /\ n \in Nodes /\ value[k] \in Nodes
      BY <2>3, <2>7 DEF IsBest, Rivals
    <3>2. CASE n # value[k]
      <4>1. Beats(k, value[k], n)
        BY <2>3, <2>7, <3>2 DEF IsBest
      <4> QED BY <3>1, <4>1, BetterBeats
    <3>3. CASE n = value[k]
      <4>1. ~(Rank(k, n) < Rank(k, n)) /\ ~(Priority[n] > Priority[n])
        BY <3>1, PlaceType, NPrevAssumption, PriorityAssumption DEF Rank, Depth
      <4> QED BY <3>1, <3>3, <4>1 DEF Better
    <3> QED BY <3>1, <3>2, <3>3
  <2>8. Rivals(k) = {} => value[k] = NULL
    BY <2>3 DEF IsBest
  <2> QED BY <2>4, <2>6, <2>7, <2>8
<1> QED BY <1>1, <1>2 DEF DefaultsAgree, DefaultIsBest

-----------------------------------------------------------------------------
(* The queue.                                                              *)

LEMMA QueueParts ==
  ASSUME events \in Seq(Event), events # <<>>
  PROVE  /\ Len(events) \in Nat \ {0}
         /\ Head(events) = events[1] /\ events[1] \in Event
         /\ Tail(events) \in Seq(Event)
         /\ Len(Tail(events)) = Len(events) - 1
         /\ \A i \in 1..(Len(events) - 1) : Tail(events)[i] = events[i + 1]
OBVIOUS

(* The first d events are received, and answers of one kind are added.     *)
Moved(d, purpose) ==
  /\ d \in {0, 1} /\ d <= Len(events)
  /\ d = 1 => events[1] \notin NodesEvent
  /\ events' \in Seq(Event)
  /\ Len(events') >= Len(events) - d
  /\ \A i \in 1..Len(events') :
       events'[i] = IF i <= Len(events) - d THEN events[i + d] ELSE DoneEvent(purpose)

LEMMA ScheduleParts ==
  ASSUME NEW received \in Seq(Event), NEW purpose \in {"rescan", "notify"},
         NEW times \in Nat, Schedule(received, purpose, times)
  PROVE  /\ events' \in Seq(Event)
         /\ Len(events') = Len(received) + times
         /\ \A i \in 1..Len(events') :
              events'[i] = IF i <= Len(received) THEN received[i] ELSE DoneEvent(purpose)
<1> DEFINE done == [i \in 1..times |-> DoneEvent(purpose)]
<1>1. done \in Seq(Event) /\ Len(done) = times
  BY DEF Event
<1>2. events' = received \o done
  BY DEF Schedule, DoneEvent
<1>3. \A i \in 1..times : done[i] = DoneEvent(purpose)
  OBVIOUS
<1> HIDE DEF done
<1>4. events' \in Seq(Event) /\ Len(events') = Len(received) + times
  BY <1>1, <1>2, ConcatProperties
<1>5. ASSUME NEW i \in 1..Len(events')
      PROVE  events'[i] = IF i <= Len(received) THEN received[i] ELSE DoneEvent(purpose)
  <2>1. i \in 1..(Len(received) + Len(done)) /\ Len(received) \in Nat
    BY <1>1, <1>4, <1>5
  <2>2. events'[i] = IF i <= Len(received) THEN received[i] ELSE done[i - Len(received)]
    BY <1>1, <1>2, <2>1
  <2>3. ~(i <= Len(received)) => i - Len(received) \in 1..times
    BY <1>1, <2>1
  <2> QED BY <1>3, <2>2, <2>3
<1> QED BY <1>4, <1>5

LEMMA ScheduleMoved ==
  ASSUME ServerTypes, NEW purpose \in {"rescan", "notify"}, NEW times \in Nat,
         Schedule(events, purpose, times)
  PROVE  /\ Moved(0, purpose)
         /\ times # 0 => \E i \in 1..Len(events') : events'[i] = DoneEvent(purpose)
<1>1. events \in Seq(Event) /\ Len(events) \in Nat
  BY DEF ServerTypes
<1>2. Moved(0, purpose)
  BY <1>1, ScheduleParts DEF Moved
<1>3. times # 0 => /\ Len(events) + times \in 1..Len(events')
                   /\ ~(Len(events) + times <= Len(events))
  BY <1>1, ScheduleParts
<1> QED BY <1>1, <1>2, <1>3, ScheduleParts

LEMMA ReceivedMoved ==
  ASSUME ServerTypes, NEW purpose \in {"rescan", "notify"}, NEW times \in Nat,
         events # <<>>, Head(events) \notin NodesEvent,
         Schedule(Tail(events), purpose, times)
  PROVE  /\ Moved(1, purpose)
         /\ times # 0 => \E i \in 1..Len(events') : events'[i] = DoneEvent(purpose)
<1>1. /\ Len(events) \in Nat \ {0} /\ events[1] \notin NodesEvent
      /\ Tail(events) \in Seq(Event) /\ Len(Tail(events)) = Len(events) - 1
      /\ \A i \in 1..(Len(events) - 1) : Tail(events)[i] = events[i + 1]
  BY QueueParts DEF ServerTypes
<1>2. /\ events' \in Seq(Event) /\ Len(events') = Len(events) - 1 + times
      /\ \A i \in 1..Len(events') :
           events'[i] = IF i <= Len(events) - 1 THEN Tail(events)[i] ELSE DoneEvent(purpose)
  BY <1>1, ScheduleParts
<1>3. Moved(1, purpose)
  BY <1>1, <1>2 DEF Moved
<1>4. times # 0 => /\ Len(events) - 1 + times \in 1..Len(events')
                   /\ ~(Len(events) - 1 + times <= Len(events) - 1)
  BY <1>1, <1>2
<1> QED BY <1>2, <1>3, <1>4

(* What moves up in the queue still comes.                                 *)
LEMMA MovedNews ==
  ASSUME ServerTypes, PlacesTold, NewsComing, NEW d, NEW purpose \in {"rescan", "notify"},
         Moved(d, purpose), UNCHANGED <<world, seen>>,
         "plugin" \in attached' => "plugin" \in attached
  PROVE  ServerTypes' /\ PlacesTold' /\ NewsComing'
<1> DEFINE m == Len(events)
           n == Len(events')
<1>1. /\ d \in {0, 1} /\ d <= m /\ m \in Nat /\ n \in Nat /\ n >= m - d
      /\ d = 1 => events[1] \notin NodesEvent
      /\ \A i \in 1..n : i <= m - d => events'[i] = events[i + d]
      /\ \A i \in 1..n : ~(i <= m - d) => events'[i] \notin NodesEvent
  BY EventKinds DEF Moved, ServerTypes
<1> HIDE DEF m, n
<1>2. ServerTypes'
  BY DEF Moved, ServerTypes
<1>3. \A i \in 1..n : events'[i] \in NodesEvent => i + d \in 1..m /\ events'[i] = events[i + d]
  BY <1>1
<1>4. \A i \in 1..m : events[i] \in NodesEvent => i - d \in 1..n /\ events'[i - d] = events[i]
  <2> SUFFICES ASSUME NEW i \in 1..m, events[i] \in NodesEvent
               PROVE  i - d \in 1..n /\ events'[i - d] = events[i]
    OBVIOUS
  <2>1. i - d \in 1..n /\ i - d <= m - d /\ i - d + d = i
    BY <1>1
  <2> QED BY <1>1, <2>1
<1>5. PlacesTold'
  BY <1>3 DEF PlacesTold, m, n
<1>6. ASSUME NEW x \in Nodes, NewsOf(x)
      PROVE  NewsOf(x)'
  <2>1. ASSUME \A i \in 1..n : ~(Tells(i, x)')
        PROVE  seen[x] = world[x]
    BY <1>4, <1>6, <2>1 DEF NewsOf, Tells, m
  <2>2. ASSUME NEW i \in 1..n, Tells(i, x)',
               \A j \in 1..n : i < j => ~(Tells(j, x)')
        PROVE  events'[i].nodes[x] = world[x]
    <3>1. i + d \in 1..m /\ Tells(i + d, x) /\ events'[i] = events[i + d]
      BY <1>3, <2>2 DEF Tells
    <3>2. ASSUME NEW j \in 1..m, i + d < j
          PROVE  ~Tells(j, x)
      <4>1. i < j - d
        BY <1>1, <3>2
      <4> QED BY <1>4, <2>2, <4>1 DEF Tells
    <3> QED BY <1>6, <3>1, <3>2 DEF NewsOf, m
  <2> QED BY <2>1, <2>2 DEF NewsOf, n
<1>7. NewsComing'
  BY <1>6 DEF NewsComing
<1> QED BY <1>2, <1>5, <1>7

(* News is added to the queue.                                             *)
LEMMA AddedNews ==
  ASSUME ServerTypes, PlacesTold, NEW e \in NodesEvent,
         DOMAIN e.place = DOMAIN e.nodes,
         \A a, b \in DOMAIN e.place : e.place[a] = e.place[b] => a = b,
         \A x \in DOMAIN e.nodes : e.nodes[x] = world'[x],
         \A x \in Nodes \ DOMAIN e.nodes : NewsOf(x) /\ world'[x] = world[x],
         events' = Append(events, e), seen' = seen, world' \in [Nodes -> State]
  PROVE  ServerTypes' /\ PlacesTold' /\ NewsComing'
<1>0. PICK n \in Nat : n = Len(events)
  BY DEF ServerTypes
<1>1. /\ Len(events') = n + 1 /\ events' \in Seq(Event)
      /\ \A i \in 1..n : events'[i] = events[i]
      /\ events'[n + 1] = e
  BY <1>0 DEF ServerTypes, Event
<1>2. \A i \in 1..(n + 1) : i \in 1..n \/ i = n + 1
  BY <1>1
<1>3. ServerTypes'
  BY <1>1 DEF ServerTypes
<1>4. PlacesTold'
  BY <1>0, <1>1, <1>2 DEF PlacesTold
<1>5. ASSUME NEW x \in DOMAIN e.nodes
      PROVE  NewsOf(x)'
  <2>1. Tells(n + 1, x)' /\ n + 1 \in 1..(n + 1)
    BY <1>1, <1>5 DEF Tells
  <2>2. \A i \in 1..(n + 1) : i = n + 1 \/ i < n + 1
    BY <1>1
  <2> QED BY <1>1, <1>5, <2>1, <2>2 DEF NewsOf
<1>6. ASSUME NEW x \in Nodes \ DOMAIN e.nodes
      PROVE  NewsOf(x)'
  <2>1. ~(Tells(n + 1, x)')
    BY <1>1, <1>6 DEF Tells
  <2>2. \A i \in 1..n : Tells(i, x)' <=> Tells(i, x)
    BY <1>1 DEF Tells
  <2>3. NewsOf(x) /\ world'[x] = world[x]
    BY <1>6
  <2>4. n + 1 \notin 1..n /\ \A i \in 1..n : i \in 1..(n + 1)
    BY <1>1
  <2> QED BY <1>0, <1>1, <1>2, <2>1, <2>2, <2>3, <2>4 DEF NewsOf
<1> QED BY <1>3, <1>4, <1>5, <1>6 DEF NewsComing

LEMMA MovedDue ==
  ASSUME ServerTypes, NEW d, NEW purpose \in {"rescan", "notify"}, Moved(d, purpose)
  PROVE  /\ (\E i \in 1..Len(events) : events[i] # DoneEvent("notify"))
              /\ (d = 1 => events[1] = DoneEvent("notify"))
            => \E i \in 1..Len(events') : events'[i] # DoneEvent("notify")
         /\ (\E i \in 1..Len(events) : events[i] = DoneEvent("notify"))
              /\ (d = 1 => events[1] # DoneEvent("notify"))
            => \E i \in 1..Len(events') : events'[i] = DoneEvent("notify")
         /\ (\A i \in 1..Len(events) : events[i] = DoneEvent("notify"))
              /\ purpose = "notify"
            => \A i \in 1..Len(events') : events'[i] = DoneEvent("notify")
         /\ (\A i \in 1..Len(events) : events[i] # DoneEvent("notify"))
              /\ purpose = "rescan"
            => \A i \in 1..Len(events') : events'[i] # DoneEvent("notify")
<1>0. PICK m \in Nat, n \in Nat : m = Len(events) /\ n = Len(events')
  BY DEF ServerTypes, Moved
<1>1. /\ d \in {0, 1} /\ d <= m /\ n >= m - d
      /\ \A i \in 1..n : i <= m - d => events'[i] = events[i + d]
      /\ \A i \in 1..n : ~(i <= m - d) => events'[i] = DoneEvent(purpose)
  BY <1>0 DEF Moved
<1>2. ASSUME NEW i \in 1..m, d = 1 => i # 1
      PROVE  i - d \in 1..n /\ events'[i - d] = events[i]
  <2>1. i - d \in 1..n /\ i - d <= m - d /\ i - d + d = i
    BY <1>1, <1>2
  <2> QED BY <1>1, <2>1
<1>3. ASSUME NEW i \in 1..n
      PROVE  events'[i] = DoneEvent(purpose) \/ \E j \in 1..m : events'[i] = events[j]
  <2>1. CASE i <= m - d
    <3>1. i + d \in 1..m
      BY <1>1, <2>1
    <3> QED BY <1>1, <2>1, <3>1
  <2> QED BY <1>1, <2>1
<1> QED BY <1>0, <1>2, <1>3, EventKinds

(* What the choice and the queue depend on is as it was.                   *)
LEMMA QuietFrame ==
  ASSUME DInv, UNCHANGED <<server, view, attached, config, prev, value, metadata, api, wiped>>
  PROVE  DInv'
<1> USE DEF server, view, api
<1>1. ServerTypes' /\ MetadataTypes' /\ OrderTotal'
  BY DEF DInv, ServerTypes, MetadataTypes, OrderTotal, There
<1>2. PlacesTold' /\ NewsComing'
  BY DEF DInv, PlacesTold, NewsComing, NewsOf, Tells
<1>3. RescanComing'
  BY BestKept DEF DInv, RescanComing
<1>4. NotifyComing' /\ Published' /\ CacheRight' /\ NotAttached'
  BY DEF DInv, NotifyComing, Published, CacheRight, NotAttached
<1> QED BY <1>1, <1>2, <1>3, <1>4 DEF DInv

LEMMA ServerChangesAgree ==
  ASSUME DInv, NEW n \in Nodes, ServerChanges(n)
  PROVE  DInv'
<1>1. PICK s \in State :
        /\ world' = [world EXCEPT ![n] = s]
        /\ events' = IF "plugin" \in attached THEN Append(events, NodeEvent(n, s)) ELSE events
  BY DEF ServerChanges, State
<1>2. UNCHANGED <<seen, order, attached, config, prev, value, metadata, cache, told, wiped>>
  BY DEF ServerChanges, view, plugin, api
<1>3. ServerTypes /\ world' \in [Nodes -> State]
  BY <1>1 DEF DInv, ServerTypes
<1>4. OrderTotal' /\ MetadataTypes' /\ Published' /\ CacheRight'
  BY <1>2 DEF DInv, OrderTotal, There, MetadataTypes, Published, CacheRight
<1>5. CASE "plugin" \notin attached
  <2>1. events' = events
    BY <1>1, <1>5
  <2>2. ServerTypes' /\ PlacesTold' /\ NewsComing'
    BY <1>2, <1>3, <1>5, <2>1 DEF DInv, ServerTypes, PlacesTold, NewsComing
  <2>3. RescanComing' /\ NotifyComing' /\ NotAttached'
    BY <1>2, <1>5, <2>1 DEF DInv, RescanComing, NotifyComing, NotAttached
  <2> QED BY <1>4, <2>2, <2>3 DEF DInv
<1>6. CASE "plugin" \in attached
  <2> DEFINE e == NodeEvent(n, s)
  <2>1. /\ e = [type |-> "nodes", nodes |-> [x \in {n} |-> s], place |-> [x \in {n} |-> 1]]
        /\ e \in NodesEvent
    <3>1. e = [type |-> "nodes", nodes |-> [x \in {n} |-> s], place |-> [x \in {n} |-> 1]]
      BY DEF NodeEvent
    <3>2. [x \in {n} |-> s] \in [{n} -> State] /\ [x \in {n} |-> 1] \in [{n} -> Nat]
      OBVIOUS
    <3> QED BY <3>1, <3>2, MakeNodesEvent
  <2>2. /\ DOMAIN e.nodes = {n} /\ DOMAIN e.place = {n} /\ e.nodes[n] = s
    BY <2>1
  <2> HIDE DEF e
  <2>3. events' = Append(events, e)
    BY <1>1, <1>6 DEF e
  <2>4. \A x \in Nodes \ {n} : NewsOf(x) /\ world'[x] = world[x]
    BY <1>1, <1>3, <1>6 DEF DInv, NewsComing, ServerTypes
  <2>5. world'[n] = s
    BY <1>1, <1>3 DEF ServerTypes
  <2>6. ServerTypes' /\ PlacesTold' /\ NewsComing'
    BY <1>2, <1>3, <2>1, <2>2, <2>3, <2>4, <2>5, AddedNews DEF DInv
  <2>7. PICK m \in Nat : m = Len(events)
    BY <1>3 DEF ServerTypes
  <2>8. /\ Len(events') = m + 1 /\ events'[m + 1] = e
        /\ \A i \in 1..m : events'[i] = events[i] /\ i \in 1..(m + 1)
    BY <1>3, <2>1, <2>3, <2>7 DEF ServerTypes, Event
  <2>9. RescanComing'
    BY <2>1, <2>8, EventKinds DEF RescanComing
  <2>10. NotifyComing'
    BY <1>2, <2>7, <2>8 DEF DInv, NotifyComing
  <2>11. NotAttached'
    <3>1. \A i \in 1..(m + 1) : i \in 1..m \/ i = m + 1
      BY <2>7
    <3>2. e # DoneEvent("notify")
      BY <2>1, EventKinds
    <3> QED BY <1>2, <1>6, <2>7, <2>8, <3>1, <3>2 DEF DInv, NotAttached
  <2> QED BY <1>4, <2>6, <2>9, <2>10, <2>11 DEF DInv
<1> QED BY <1>5, <1>6

LEMMA RequestAgrees ==
  ASSUME IInv, DInv, NEW k \in Kinds, set_default_configured_node_name(k)
  PROVE  DInv'
<1>1. PICK new \in Name \cup {"junk"} :
        /\ metadata' = [metadata EXCEPT !.config = [metadata.config EXCEPT ![k] = new]]
        /\ on_metadata_changed(k, new)
        /\ cache' = IF "api" \in attached
                    THEN [cache EXCEPT !.config[k] = NameIn(new)] ELSE cache
  BY DEF set_default_configured_node_name, wp_metadata_set
<1>2. /\ UNCHANGED <<world, seen, order, attached, value, told>>
      /\ wiped' = wiped \ {<<"config", k>>}
  BY DEF set_default_configured_node_name, view
<1>3. NameIn(new) \in Name
  BY DEF NameIn, Name
<1>4. MetadataTypes'
  BY <1>1, <1>2, <1>3 DEF DInv, MetadataTypes
<1>5. Published'
  BY <1>1, <1>2 DEF DInv, Published, MetadataTypes
<1>6. CacheRight'
  <2> SUFFICES ASSUME "api" \in attached, NEW j \in Kinds
               PROVE  /\ <<"default", j>> \notin wiped' => cache'.default[j] = metadata'.default[j]
                      /\ <<"config", j>> \notin wiped' => cache'.config[j] = NameIn(metadata'.config[j])
    BY <1>2 DEF CacheRight
  <2>1. /\ cache'.default = cache.default /\ metadata'.default = metadata.default
        /\ cache'.config = [cache.config EXCEPT ![k] = NameIn(new)]
        /\ metadata'.config = [metadata.config EXCEPT ![k] = new]
        /\ cache.config \in [Kinds -> Name] /\ metadata.config \in [Kinds -> Name \cup {"junk"}]
    BY <1>1 DEF DInv, MetadataTypes
  <2>2. CASE j = k
    BY <1>2, <2>1, <2>2 DEF DInv, CacheRight
  <2>3. CASE j # k
    <3>1. cache'.config[j] = cache.config[j] /\ metadata'.config[j] = metadata.config[j]
      BY <2>1, <2>3
    <3> QED BY <1>2, <2>1, <2>3, <3>1 DEF DInv, CacheRight
  <2> QED BY <2>2, <2>3
<1>7. cache'.default = cache.default
  BY <1>1 DEF DInv, MetadataTypes
<1>8. OrderTotal'
  BY <1>2 DEF DInv, OrderTotal, There
<1>9. CASE "plugin" \notin attached
  <2>1. UNCHANGED <<config, prev, events>>
    BY <1>1, <1>9 DEF on_metadata_changed
  <2>2. ServerTypes' /\ PlacesTold' /\ NewsComing' /\ RescanComing' /\ NotifyComing' /\ NotAttached'
    BY <1>2, <1>7, <1>9, <2>1 DEF DInv, ServerTypes, PlacesTold, NewsComing, RescanComing, NotifyComing, NotAttached
  <2> QED BY <1>4, <1>5, <1>6, <1>8, <2>2 DEF DInv
<1>10. CASE "plugin" \in attached
  <2>1. Schedule(events, "rescan", 1)
    BY <1>1, <1>10 DEF on_metadata_changed
  <2>2. /\ Moved(0, "rescan")
        /\ \E i \in 1..Len(events') : events'[i] = DoneEvent("rescan")
    BY <2>1, ScheduleMoved DEF DInv
  <2>3. ServerTypes' /\ PlacesTold' /\ NewsComing'
    BY <1>2, <2>2, MovedNews DEF DInv
  <2>4. RescanComing'
    BY <2>2, EventKinds DEF RescanComing
  <2>5. NotifyComing' /\ NotAttached'
    BY <1>2, <1>7, <1>10, <2>2, MovedDue DEF DInv, NotifyComing, NotAttached
  <2> QED BY <1>4, <1>5, <1>6, <1>8, <2>3, <2>4, <2>5 DEF DInv
<1> QED BY <1>9, <1>10

LEMMA ClearAgrees ==
  ASSUME DInv, ClearSubject
  PROVE  DInv'
<1>1. /\ UNCHANGED <<world, events, seen, order, attached, config, prev, value, cache, told>>
      /\ metadata' = [default |-> Nobody, config |-> Nobody]
      /\ \A g \in {"default", "config"}, k \in Kinds :
           <<g, k>> \notin wiped' => <<g, k>> \notin wiped /\ metadata[g][k] = NULL
  BY DEF ClearSubject, server, view, plugin, api, NoMetadata, Nobody
<1>2. ServerTypes' /\ PlacesTold' /\ NewsComing' /\ OrderTotal'
  BY <1>1 DEF DInv, ServerTypes, PlacesTold, NewsComing, NewsOf, Tells, OrderTotal, There
<1>3. RescanComing' /\ NotifyComing' /\ NotAttached'
  BY <1>1, BestKept DEF DInv, RescanComing, NotifyComing, NotAttached
<1>4. MetadataTypes'
  BY <1>1 DEF DInv, MetadataTypes, Nobody, Name
<1>5. ASSUME NEW k \in Kinds
      PROVE  /\ metadata'.default[k] = NULL /\ metadata'.config[k] = NULL
             /\ <<"default", k>> \notin wiped' =>
                  <<"default", k>> \notin wiped /\ metadata.default[k] = NULL
             /\ <<"config", k>> \notin wiped' =>
                  <<"config", k>> \notin wiped /\ metadata.config[k] = NULL
  BY <1>1 DEF Nobody
<1>6. Published'
  BY <1>1, <1>5 DEF DInv, Published
<1>7. CacheRight'
  BY <1>1, <1>5, NullAssumption DEF DInv, CacheRight, NameIn
<1> QED BY <1>2, <1>3, <1>4, <1>6, <1>7 DEF DInv

LEMMA PluginAttachAgrees ==
  ASSUME IInv, DInv, on_metadata_added
  PROVE  DInv'
<1> DEFINE there == {n \in Nodes : world[n] # NULL}
           set(now) == [k \in Kinds |-> IF config[k] # NULL THEN config[k] ELSE now[k]]
<1>1. /\ "up" \in attached /\ "plugin" \notin attached
      /\ attached' = attached \cup {"plugin"}
      /\ UNCHANGED <<world, seen, order, config, prev, value, told>>
      /\ metadata' = [metadata EXCEPT !.config = set(metadata.config)]
      /\ cache' = IF "api" \in attached THEN [cache EXCEPT !.config = set(@)] ELSE cache
      /\ wiped' = wiped \ {<<"config", k>> : k \in {i \in Kinds : config[i] # NULL}}
  BY DEF on_metadata_added, wp_metadata_set, view
<1>2. PICK place \in [there -> 1..Cardinality(there)] :
        /\ IsInjective(place)
        /\ events' = Append(events, [type |-> "nodes", nodes |-> Restrict(world, there),
                                     place |-> place])
  BY DEF on_metadata_added
<1> HIDE DEF set
<1>3. config \in [Kinds -> Name] /\ \A k \in Kinds : config[k] # "junk"
  BY NullAssumption DEF IInv, TypeOK, Name
<1>4. /\ metadata'.default = metadata.default /\ metadata'.config = set(metadata.config)
      /\ cache'.default = cache.default
      /\ cache'.config = IF "api" \in attached THEN set(cache.config) ELSE cache.config
      /\ \A now : \A k \in Kinds : set(now)[k] = IF config[k] # NULL THEN config[k] ELSE now[k]
  BY <1>1 DEF DInv, MetadataTypes, set
<1>5. MetadataTypes'
  <2>1. /\ set(metadata.config) \in [Kinds -> Name \cup {"junk"}]
        /\ set(cache.config) \in [Kinds -> Name]
    BY <1>3 DEF set, DInv, MetadataTypes
  <2> QED BY <1>1, <2>1 DEF DInv, MetadataTypes
<1>6. \A k \in Kinds :
        /\ <<"default", k>> \notin wiped' => <<"default", k>> \notin wiped
        /\ <<"config", k>> \notin wiped' => <<"config", k>> \notin wiped \/ config[k] # NULL
  BY <1>1
<1>7. Published'
  BY <1>1, <1>4, <1>6 DEF DInv, Published
<1>8. CacheRight'
  <2> SUFFICES ASSUME "api" \in attached, NEW k \in Kinds
               PROVE  /\ <<"default", k>> \notin wiped' => cache'.default[k] = metadata'.default[k]
                      /\ <<"config", k>> \notin wiped' => cache'.config[k] = NameIn(metadata'.config[k])
    BY <1>1 DEF CacheRight
  <2>1. /\ <<"default", k>> \notin wiped => cache.default[k] = metadata.default[k]
        /\ <<"config", k>> \notin wiped => cache.config[k] = NameIn(metadata.config[k])
    BY DEF DInv, CacheRight
  <2>2. CASE config[k] # NULL
    <3>1. cache'.config[k] = config[k] /\ metadata'.config[k] = config[k]
      BY <1>4, <2>2
    <3> QED BY <1>3, <1>4, <1>6, <2>1, <3>1 DEF NameIn
  <2>3. CASE config[k] = NULL
    <3>1. cache'.config[k] = cache.config[k] /\ metadata'.config[k] = metadata.config[k]
      BY <1>4, <2>3
    <3> QED BY <1>4, <1>6, <2>1, <2>3, <3>1
  <2> QED BY <2>2, <2>3
<1>9. OrderTotal'
  BY <1>1 DEF DInv, OrderTotal, There
<1> DEFINE e == [type |-> "nodes", nodes |-> Restrict(world, there), place |-> place]
<1>10. /\ e \in NodesEvent
       /\ DOMAIN e.nodes = there /\ DOMAIN e.place = there
       /\ \A x \in there : e.nodes[x] = world[x]
       /\ \A a, b \in DOMAIN e.place : e.place[a] = e.place[b] => a = b
       /\ events' = Append(events, e)
  <2>1. Restrict(world, there) \in [there -> State]
    BY DEF Restrict, DInv, ServerTypes
  <2>2. place \in [there -> Nat]
    OBVIOUS
  <2>3. e \in NodesEvent
    BY <2>1, <2>2, MakeNodesEvent
  <2> QED BY <1>2, <2>1, <2>3 DEF Restrict, IsInjective
<1> HIDE DEF e
<1>11. \A x \in Nodes \ there : NewsOf(x) /\ world'[x] = world[x]
  <2>1. \A i \in 1..Len(events) : events[i] \notin NodesEvent
    BY <1>1, EventKinds DEF DInv, NotAttached
  <2>2. \A x \in Nodes \ there : seen[x] = world[x]
    BY <1>1 DEF DInv, NotAttached
  <2> QED BY <1>1, <2>1, <2>2 DEF NewsOf, Tells
<1>12. ServerTypes' /\ PlacesTold' /\ NewsComing'
  <2>1. world' \in [Nodes -> State] /\ seen' = seen
    BY <1>1 DEF DInv, ServerTypes
  <2>2. \A x \in DOMAIN e.nodes : e.nodes[x] = world'[x]
    BY <1>1, <1>10
  <2>3. ServerTypes /\ PlacesTold
    BY DEF DInv
  <2> QED BY <1>10, <1>11, <2>1, <2>2, <2>3, AddedNews
<1>13. PICK m \in Nat : m = Len(events)
  BY DEF DInv, ServerTypes
<1>14. /\ Len(events') = m + 1 /\ events'[m + 1] = e
       /\ \A i \in 1..m : events'[i] = events[i] /\ i \in 1..(m + 1)
       /\ \A i \in 1..(m + 1) : i \in 1..m \/ i = m + 1
  BY <1>10, <1>13 DEF DInv, ServerTypes, Event
<1>15. RescanComing'
  BY <1>10, <1>14, EventKinds DEF RescanComing
<1>16. NotifyComing'
  BY <1>1, <1>4, <1>13, <1>14 DEF DInv, NotifyComing
<1>17. NotAttached'
  BY <1>1, <1>4, <1>10, <1>13, <1>14, EventKinds DEF DInv, NotAttached
<1> QED BY <1>5, <1>7, <1>8, <1>9, <1>12, <1>15, <1>16, <1>17 DEF DInv

LEMMA ApiAttachAgrees ==
  ASSUME DInv, ApiFindsMetadata
  PROVE  DInv'
<1> DEFINE set == {k \in Kinds : metadata.default[k] # NULL}
<1>1. /\ "up" \in attached /\ "api" \notin attached
      /\ attached' = attached \cup {"api"}
      /\ cache' = [metadata EXCEPT !.config = [k \in Kinds |-> NameIn(metadata.config[k])]]
      /\ Schedule(events, "notify", Cardinality(set))
      /\ UNCHANGED <<world, seen, order, config, prev, value, metadata, told, wiped>>
  BY DEF ApiFindsMetadata, view
<1>2. IsFiniteSet(set) /\ Cardinality(set) \in Nat
  BY FiniteAssumption, FS_Subset, FS_CardinalityType
<1>3. set # {} => Cardinality(set) # 0
  BY <1>2, FS_EmptySet
<1>4. set = {} => metadata.default = Nobody
  BY DEF DInv, MetadataTypes, Nobody
<1> HIDE DEF set
<1>5. Moved(0, "notify") /\ (set # {} => \E i \in 1..Len(events') : events'[i] = DoneEvent("notify"))
  BY <1>1, <1>2, <1>3, ScheduleMoved DEF DInv
<1>6. /\ cache'.default = metadata.default
      /\ cache'.config = [k \in Kinds |-> NameIn(metadata.config[k])]
  BY <1>1 DEF DInv, MetadataTypes
<1>7. MetadataTypes'
  <2>1. cache'.config \in [Kinds -> Name]
    BY <1>6 DEF DInv, MetadataTypes, NameIn, Name
  <2> QED BY <1>1, <2>1 DEF DInv, MetadataTypes
<1>8. ServerTypes' /\ PlacesTold' /\ NewsComing'
  BY <1>1, <1>5, MovedNews DEF DInv
<1>9. OrderTotal' /\ Published' /\ CacheRight'
  BY <1>1, <1>6 DEF DInv, OrderTotal, There, Published, CacheRight
<1>10. RescanComing'
  BY <1>1, <1>5, MovedDue, BestKept DEF DInv, RescanComing
<1>11. NotifyComing'
  BY <1>1, <1>4, <1>5, <1>6 DEF DInv, NotAttached, NotifyComing
<1>12. NotAttached'
  BY <1>1, <1>5, MovedDue DEF DInv, NotAttached
<1> QED BY <1>7, <1>8, <1>9, <1>10, <1>11, <1>12 DEF DInv

LEMMA ReceiveAgrees ==
  ASSUME DInv, ReceiveNodes
  PROVE  DInv'
<1> DEFINE e == Head(events)
           stay == {n \in Nodes : seen[n] # NULL /\ seen'[n] # NULL}
           new == {n \in Nodes : seen[n] = NULL /\ seen'[n] # NULL}
           gone == {n \in Nodes : seen[n] # NULL /\ seen'[n] = NULL}
           at(n) == PlaceAfter(gone, n)
<1>1. /\ events # <<>> /\ e.type = "nodes"
      /\ seen' = [n \in Nodes |-> IF n \in DOMAIN e.nodes THEN e.nodes[n] ELSE seen[n]]
      /\ order' = {p \in stay \X stay : <<at(p[1]), at(p[2])>> \in order}
                    \cup (stay \X new)
                    \cup {p \in new \X new : e.place[p[1]] < e.place[p[2]]}
      /\ Schedule(Tail(events), "rescan", 1)
      /\ UNCHANGED <<world, attached, config, prev, value, metadata, cache, told, wiped>>
  BY DEF ReceiveNodes, plugin, api
<1>2. PICK m \in Nat \ {0} : m = Len(events)
  BY <1>1, QueueParts DEF DInv, ServerTypes
<1>3. /\ e = events[1] /\ e \in NodesEvent
      /\ Tail(events) \in Seq(Event) /\ Len(Tail(events)) = m - 1
      /\ \A i \in 1..(m - 1) : Tail(events)[i] = events[i + 1]
  BY <1>1, <1>2, QueueParts, EventKinds DEF DInv, ServerTypes
<1>4. /\ events' \in Seq(Event) /\ Len(events') = m
      /\ \A i \in 1..(m - 1) : events'[i] = events[i + 1]
      /\ events'[m] = DoneEvent("rescan")
  <2>1. /\ events' \in Seq(Event) /\ Len(events') = m - 1 + 1
        /\ \A i \in 1..Len(events') :
             events'[i] = IF i <= m - 1 THEN Tail(events)[i] ELSE DoneEvent("rescan")
    <3>1. PICK received \in Seq(Event) : received = Tail(events)
      BY <1>3
    <3>2. Schedule(received, "rescan", 1)
      BY <1>1, <3>1
    <3>3. /\ events' \in Seq(Event) /\ Len(events') = Len(received) + 1
          /\ \A i \in 1..Len(events') :
               events'[i] = IF i <= Len(received) THEN received[i] ELSE DoneEvent("rescan")
      BY <3>2, ScheduleParts
    <3>4. Len(received) = m - 1
      BY <1>3, <3>1
    <3> QED BY <3>1, <3>3, <3>4
  <2>2. m \in 1..m /\ ~(m <= m - 1) /\ m - 1 + 1 = m
        /\ \A i \in 1..(m - 1) : i \in 1..m /\ i <= m - 1
    BY <1>2
  <2> QED BY <1>3, <2>1, <2>2
<1>5. /\ DOMAIN e.nodes \subseteq Nodes /\ e.nodes \in [DOMAIN e.nodes -> State]
      /\ DOMAIN e.place = DOMAIN e.nodes /\ e.place \in [DOMAIN e.place -> Nat]
      /\ \A a, b \in DOMAIN e.nodes : e.place[a] = e.place[b] => a = b
  <2>1. 1 \in 1..m
    BY <1>2
  <2> QED BY <1>2, <1>3, <2>1, TakeNodesEvent DEF DInv, PlacesTold
<1> HIDE DEF e
<1>6. /\ \A n \in Nodes \ DOMAIN e.nodes : seen'[n] = seen[n]
      /\ \A n \in DOMAIN e.nodes : seen'[n] = e.nodes[n]
  BY <1>1, <1>5
<1>7. ServerTypes'
  BY <1>1, <1>4, <1>5 DEF DInv, ServerTypes
<1>8. PlacesTold'
  <2>1. \A i \in 1..m : i = m \/ (i \in 1..(m - 1) /\ i + 1 \in 1..m)
    BY <1>2
  <2> QED BY <1>2, <1>4, <2>1, EventKinds DEF DInv, PlacesTold
<1>9. "plugin" \in attached
  <2>1. 1 \in 1..m
    BY <1>2
  <2> QED BY <1>2, <1>3, <2>1, EventKinds DEF DInv, NotAttached
<1>10. ASSUME NEW n \in Nodes
       PROVE  NewsOf(n)'
  <2>1. NewsOf(n) /\ world' = world
    BY <1>1, <1>9 DEF DInv, NewsComing
  <2>2. \A i \in 1..(m - 1) : i + 1 \in 1..m /\ i \in 1..m /\ 1 < i + 1 /\ (Tells(i, n)' <=> Tells(i + 1, n))
    BY <1>2, <1>4 DEF Tells
  <2>3. ~(Tells(m, n)') /\ m \in 1..m /\ 1 \in 1..m
    <3>1. ~(events'[m] \in NodesEvent)
      BY <1>4, EventKinds
    <3> QED BY <1>2, <3>1 DEF Tells
  <2>4. Tells(1, n) <=> n \in DOMAIN e.nodes
    BY <1>3 DEF Tells
  <2>5. \A i \in 1..m : i = 1 \/ (i - 1 \in 1..(m - 1) /\ i - 1 + 1 = i)
    BY <1>2
  <2>6. \A i \in 1..m : i = m \/ i \in 1..(m - 1)
    BY <1>2
  <2>7. ASSUME \A i \in 1..m : ~(Tells(i, n)')
        PROVE  seen'[n] = world[n]
    <3>1. \A i \in 1..m : i # 1 => ~Tells(i, n)
      BY <2>2, <2>5, <2>7
    <3>2. CASE n \in DOMAIN e.nodes
      <4>1. e.nodes[n] = world[n]
        BY <1>2, <1>3, <2>1, <2>3, <2>4, <3>1, <3>2 DEF NewsOf
      <4> QED BY <1>6, <3>2, <4>1
    <3>3. CASE n \notin DOMAIN e.nodes
      BY <1>2, <1>6, <2>1, <2>4, <3>1, <3>3 DEF NewsOf
    <3> QED BY <3>2, <3>3
  <2>8. ASSUME NEW i \in 1..m, Tells(i, n)', \A j \in 1..m : i < j => ~(Tells(j, n)')
        PROVE  events'[i].nodes[n] = world[n]
    <3>1. i \in 1..(m - 1)
      BY <2>3, <2>6, <2>8
    <3>2. Tells(i + 1, n) /\ i + 1 \in 1..m /\ events'[i] = events[i + 1]
      BY <1>4, <2>2, <2>8, <3>1
    <3>3. ASSUME NEW j \in 1..m, i + 1 < j
          PROVE  ~Tells(j, n)
      <4>1. j - 1 \in 1..(m - 1) /\ j - 1 + 1 = j /\ i < j - 1 /\ j - 1 \in 1..m
        BY <1>2, <3>1, <3>3
      <4> QED BY <2>2, <2>8, <4>1
    <3> QED BY <1>2, <2>1, <3>2, <3>3 DEF NewsOf
  <2> QED BY <1>1, <1>4, <2>1, <2>7, <2>8 DEF NewsOf
<1>11. NewsComing'
  BY <1>10 DEF NewsComing
<1>12. OrderTotal'
  <2>1. /\ There' = stay \cup new /\ stay \cap new = {} /\ stay \subseteq There
        /\ new \subseteq DOMAIN e.nodes
    BY <1>6 DEF There
  <2>2. \A n \in new : e.place[n] \in Nat
    BY <1>5, <2>1
  <2>3. \A a, b : <<a, b>> \in order' <=>
          \/ a \in stay /\ b \in stay /\ <<at(a), at(b)>> \in order
          \/ a \in stay /\ b \in new
          \/ a \in new /\ b \in new /\ e.place[a] < e.place[b]
    BY <1>1
  <2>4. order' \subseteq There' \X There'
    BY <1>1, <2>1
  <2>5. gone \subseteq There /\ gone \cap stay = {}
    BY DEF There
  <2>6. \A a, b \in stay : at(a) \in There /\ (a # b => at(a) # at(b))
    <3> DEFINE g == CHOOSE x \in gone : TRUE
               last == CHOOSE l \in There : There \ {l} = {x \in There : <<x, l>> \in order}
    <3>1. \A a : at(a) = IF gone # {} /\ a = last THEN g ELSE a
      BY DEF PlaceAfter, There
    <3>2. gone # {} => g \in There /\ g \notin stay
      BY <2>5
    <3> HIDE DEF g, last, stay, gone, at
    <3> QED BY <2>1, <3>1, <3>2
  <2> HIDE DEF stay, new, gone, at
  <2>7. ASSUME NEW a \in There'
        PROVE  <<a, a>> \notin order'
    <3>1. a \in stay => <<at(a), at(a)>> \notin order
      BY <2>6 DEF DInv, OrderTotal
    <3>2. a \in new => ~(e.place[a] < e.place[a])
      BY <2>2
    <3> QED BY <2>1, <2>3, <2>7, <3>1, <3>2
  <2>8. ASSUME NEW a \in There', NEW b \in There', a # b
        PROVE  <<a, b>> \in order' \/ <<b, a>> \in order'
    <3>1. CASE a \in stay /\ b \in stay
      BY <2>3, <2>8, <2>6, <3>1 DEF DInv, OrderTotal
    <3>2. CASE a \in new /\ b \in new
      <4>1. e.place[a] # e.place[b] /\ e.place[a] \in Nat /\ e.place[b] \in Nat
        BY <1>5, <2>1, <2>2, <2>8, <3>2
      <4>2. e.place[a] < e.place[b] \/ e.place[b] < e.place[a]
        BY <4>1
      <4> QED BY <2>3, <3>2, <4>2
    <3> QED BY <2>1, <2>3, <2>8, <3>1, <3>2
  <2>9. ASSUME NEW a \in There', NEW b \in There', NEW c \in There',
               <<a, b>> \in order', <<b, c>> \in order'
        PROVE  <<a, c>> \in order'
    <3>1. CASE c \in stay
      <4>1. a \in stay /\ b \in stay /\ <<at(a), at(b)>> \in order /\ <<at(b), at(c)>> \in order
        BY <2>1, <2>3, <2>9, <3>1
      <4> QED BY <2>3, <2>6, <3>1, <4>1 DEF DInv, OrderTotal
    <3>2. CASE a \in new
      <4>1. b \in new /\ c \in new /\ e.place[a] < e.place[b] /\ e.place[b] < e.place[c]
        BY <2>1, <2>3, <2>9, <3>2
      <4>2. e.place[a] < e.place[c]
        BY <2>2, <3>2, <4>1
      <4> QED BY <2>3, <3>2, <4>1, <4>2
    <3>3. CASE a \in stay /\ c \in new
      BY <2>3, <3>3
    <3> QED BY <2>1, <2>9, <3>1, <3>2, <3>3
  <2> QED BY <2>4, <2>7, <2>8, <2>9 DEF OrderTotal
<1>13. RescanComing'
  <2>1. m \in 1..Len(events')
    BY <1>2, <1>4
  <2> QED BY <1>4, <2>1, EventKinds DEF RescanComing
<1>14. \A i \in 1..m : i = 1 \/ (i - 1 \in 1..m /\ events'[i - 1] = events[i])
  <2> SUFFICES ASSUME NEW i \in 1..m, i # 1
               PROVE  i - 1 \in 1..m /\ events'[i - 1] = events[i]
    OBVIOUS
  <2>1. i - 1 \in 1..(m - 1) /\ i - 1 + 1 = i /\ i - 1 \in 1..m
    BY <1>2
  <2> QED BY <1>4, <2>1
<1>15. NotifyComing'
  BY <1>1, <1>2, <1>3, <1>4, <1>14, EventKinds DEF DInv, NotifyComing
<1>16. NotAttached'
  <2>1. \A i \in 1..m : i = m \/ (i \in 1..(m - 1) /\ i + 1 \in 1..m)
    BY <1>2
  <2> QED BY <1>1, <1>2, <1>4, <1>9, <2>1, EventKinds DEF DInv, NotAttached
<1>17. MetadataTypes' /\ Published' /\ CacheRight'
  BY <1>1 DEF DInv, MetadataTypes, Published, CacheRight
<1> QED BY <1>7, <1>8, <1>11, <1>12, <1>13, <1>15, <1>16, <1>17 DEF DInv

LEMMA RescanAgrees ==
  ASSUME IInv, DInv, sync_rescan
  PROVE  DInv'
<1> DEFINE best == [k \in Kinds |-> find_best_node(k)]
           changed == {k \in Kinds : best[k] # value[k]}
           store(now) == [k \in Kinds |-> IF k \in changed THEN best[k] ELSE now[k]]
<1>1. /\ events # <<>> /\ Head(events) = DoneEvent("rescan")
      /\ UNCHANGED <<world, seen, order, attached, config, prev, told>>
  BY DEF sync_rescan, DoneEvent, view
<1>2. /\ value' = best
      /\ metadata' = [metadata EXCEPT !.default = store(metadata.default)]
      /\ wiped' = wiped \ ({"default"} \X changed)
      /\ IF "api" \in attached
         THEN /\ cache' = [cache EXCEPT !.default = store(@)]
              /\ Schedule(Tail(events), "notify", Cardinality(changed))
         ELSE events' = Tail(events) /\ UNCHANGED cache
  BY DEF sync_rescan, reevaluate_default_node, wp_metadata_set
<1>3. \A k \in Kinds : IsBest(k, best[k]) /\ best[k] \in Name
  BY BestFound DEF DInv
<1>4. IsFiniteSet(changed) /\ Cardinality(changed) \in Nat
  BY FiniteAssumption, FS_Subset, FS_CardinalityType
<1>5. changed # {} => Cardinality(changed) # 0
  BY <1>4, FS_EmptySet
<1>6. /\ \A k \in Kinds : k \notin changed => best[k] = value[k]
      /\ \A now : \A k \in Kinds : store(now)[k] = IF k \in changed THEN best[k] ELSE now[k]
      /\ \A now \in [Kinds -> Name] : store(now) \in [Kinds -> Name]
  BY <1>3
<1>7. \A now \in [Kinds -> Name] : changed = {} => store(now) = now
  OBVIOUS
<1>8. best \in [Kinds -> Name]
  BY <1>3
<1> HIDE DEF best, changed, store
<1>9. /\ metadata'.default = store(metadata.default) /\ metadata'.config = metadata.config
      /\ cache'.default = IF "api" \in attached THEN store(cache.default) ELSE cache.default
      /\ cache'.config = cache.config
  BY <1>2 DEF DInv, MetadataTypes
<1>10. MetadataTypes'
  <2>1. store(metadata.default) \in [Kinds -> Name] /\ store(cache.default) \in [Kinds -> Name]
    BY <1>6 DEF DInv, MetadataTypes
  <2> QED BY <1>1, <1>2, <1>8, <2>1 DEF DInv, MetadataTypes
<1>11. Head(events) = events[1] /\ events[1] \notin NodesEvent /\ events[1] # DoneEvent("notify")
  BY <1>1, QueueParts, EventKinds DEF DInv, ServerTypes
<1>12. /\ Moved(1, "notify")
       /\ "api" \in attached /\ changed # {} => \E i \in 1..Len(events') : events'[i] = DoneEvent("notify")
       /\ "api" \notin attached => Moved(1, "rescan")
  <2>1. CASE "api" \in attached
    BY <1>1, <1>2, <1>4, <1>5, <1>11, <2>1, ReceivedMoved DEF DInv
  <2>2. CASE "api" \notin attached
    <3>1. events' = Tail(events)
      BY <1>2, <2>2
    <3>2. /\ Len(events) \in Nat \ {0}
          /\ Tail(events) \in Seq(Event) /\ Len(Tail(events)) = Len(events) - 1
          /\ \A i \in 1..(Len(events) - 1) : Tail(events)[i] = events[i + 1]
      BY <1>1, QueueParts DEF DInv, ServerTypes
    <3> QED BY <1>11, <2>2, <3>1, <3>2 DEF Moved
  <2> QED BY <2>1, <2>2
<1>13. ServerTypes' /\ PlacesTold' /\ NewsComing'
  BY <1>1, <1>12, MovedNews DEF DInv
<1>14. OrderTotal'
  BY <1>1 DEF DInv, OrderTotal, There
<1>15. RescanComing'
  <2>1. \A k \in Kinds : IsBest(k, value'[k])
    BY <1>2, <1>3
  <2>2. \A k, v : IsBest(k, v)' <=> IsBest(k, v)
    BY <1>1, BestKept
  <2>3. \A k \in Kinds : IsBest(k, value[k])'
    BY <2>1, BestKept, <1>1 DEF IsBest, Rivals, Eligible, Beats, Score, TriedBefore
  <2> QED BY <2>3 DEF RescanComing
<1>16. NotifyComing'
  <2>1. CASE "api" \in attached /\ changed # {}
    BY <1>12, <2>1 DEF NotifyComing
  <2>2. CASE ~("api" \in attached /\ changed # {})
    <3>1. cache'.default = cache.default
      BY <1>7, <1>9, <2>2 DEF DInv, MetadataTypes
    <3>2. told = cache.default => NotifyComing'
      BY <1>1, <3>1 DEF NotifyComing
    <3>3. (\E i \in 1..Len(events) : events[i] = DoneEvent("notify")) => NotifyComing'
      BY <1>11, <1>12, MovedDue DEF DInv, NotifyComing
    <3> QED BY <3>2, <3>3 DEF DInv, NotifyComing
  <2> QED BY <2>1, <2>2
<1>17. Published'
  <2> SUFFICES ASSUME NEW k \in Kinds, <<"default", k>> \notin wiped'
               PROVE  metadata'.default[k] = value'[k]
    BY DEF Published
  <2>1. k \in changed \/ <<"default", k>> \notin wiped
    BY <1>2
  <2> QED BY <1>2, <1>6, <1>9, <2>1 DEF DInv, Published
<1>18. CacheRight'
  <2> SUFFICES ASSUME "api" \in attached, NEW k \in Kinds
               PROVE  /\ <<"default", k>> \notin wiped' => cache'.default[k] = metadata'.default[k]
                      /\ <<"config", k>> \notin wiped' => cache'.config[k] = NameIn(metadata'.config[k])
    BY <1>1 DEF CacheRight
  <2>1. <<"default", k>> \notin wiped' => k \in changed \/ <<"default", k>> \notin wiped
    BY <1>2
  <2>2. <<"config", k>> \notin wiped' => <<"config", k>> \notin wiped
    BY <1>2
  <2> QED BY <1>6, <1>9, <2>1, <2>2 DEF DInv, CacheRight
<1>19. NotAttached'
  <2>1. "api" \notin attached => cache'.default = cache.default
    BY <1>9
  <2> QED BY <1>1, <1>12, <2>1, MovedDue DEF DInv, NotAttached
<1> QED BY <1>10, <1>13, <1>14, <1>15, <1>16, <1>17, <1>18, <1>19 DEF DInv

LEMMA NotifyAgrees ==
  ASSUME DInv, sync_changed_notification
  PROVE  DInv'
<1>1. /\ events # <<>> /\ Head(events) = DoneEvent("notify") /\ events' = Tail(events)
      /\ told' = cache.default
      /\ UNCHANGED <<world, seen, order, attached, config, prev, value, metadata, cache, wiped>>
  BY DEF sync_changed_notification, DoneEvent, view, plugin
<1>2. /\ Len(events) \in Nat \ {0} /\ events[1] = DoneEvent("notify") /\ events[1] \notin NodesEvent
      /\ Tail(events) \in Seq(Event) /\ Len(Tail(events)) = Len(events) - 1
      /\ \A i \in 1..(Len(events) - 1) : Tail(events)[i] = events[i + 1]
  BY <1>1, QueueParts, EventKinds DEF DInv, ServerTypes
<1>3. Moved(1, "notify")
  BY <1>1, <1>2 DEF Moved
<1>4. ServerTypes' /\ PlacesTold' /\ NewsComing'
  BY <1>1, <1>3, MovedNews DEF DInv
<1>5. "api" \in attached
  BY <1>2 DEF DInv, NotAttached
<1>6. OrderTotal' /\ MetadataTypes' /\ NotifyComing' /\ Published' /\ CacheRight'
  BY <1>1 DEF DInv, OrderTotal, There, MetadataTypes, NotifyComing, Published, CacheRight
<1>7. RescanComing'
  <2>1. (\E i \in 1..Len(events) : events[i] # DoneEvent("notify")) => RescanComing'
    BY <1>2, <1>3, MovedDue DEF DInv, RescanComing
  <2>2. (\A k \in Kinds : IsBest(k, value[k])) => RescanComing'
    BY <1>1, BestKept DEF RescanComing
  <2> QED BY <1>1, <2>1, <2>2 DEF DInv, RescanComing
<1>8. NotAttached'
  BY <1>1, <1>3, <1>5, MovedDue DEF DInv, NotAttached
<1> QED BY <1>4, <1>6, <1>7, <1>8 DEF DInv

LEMMA StartAgrees ==
  ASSUME IInv, DInv, Start
  PROVE  DInv'
<1>1. /\ "up" \notin attached /\ attached = {} /\ attached' = {"up"}
      /\ UNCHANGED <<world, events, seen, order, value, metadata, cache, told, wiped>>
  BY DEF Start, server, view, api, DInv, NotAttached
<1>2. ServerTypes' /\ MetadataTypes' /\ PlacesTold' /\ OrderTotal' /\ Published'
  BY <1>1 DEF DInv, ServerTypes, MetadataTypes, PlacesTold, OrderTotal, There, Published
<1>3. NewsComing' /\ RescanComing' /\ NotifyComing' /\ CacheRight' /\ NotAttached'
  BY <1>1 DEF DInv, NewsComing, RescanComing, NotifyComing, CacheRight, NotAttached
<1> QED BY <1>2, <1>3 DEF DInv

(* Without the daemon nothing is known and nothing is on its way.          *)
LEMMA NothingAgrees ==
  ASSUME world \in [Nodes -> State], attached = {}, events = <<>>,
         seen = [n \in Nodes |-> NULL], order = {},
         value = Nobody, told = Nobody, metadata = NoMetadata, cache = NoMetadata
  PROVE  DInv
<1>1. NoMetadata = [default |-> Nobody, config |-> Nobody] /\ Nobody \in [Kinds -> Name]
      /\ NULL \in State /\ NULL \in Name
  BY DEF NoMetadata, Nobody, Name, State
<1>2. ServerTypes
  BY <1>1 DEF ServerTypes
<1>3. MetadataTypes
  BY <1>1 DEF MetadataTypes
<1>4. OrderTotal
  BY DEF OrderTotal, There
<1>5. PlacesTold /\ NewsComing /\ RescanComing /\ CacheRight
  BY DEF PlacesTold, NewsComing, RescanComing, CacheRight
<1>6. NotifyComing /\ Published /\ NotAttached
  BY <1>1 DEF NotifyComing, Published, NotAttached
<1> QED BY <1>2, <1>3, <1>4, <1>5, <1>6 DEF DInv

LEMMA StopAgrees ==
  ASSUME DInv, wp_default_nodes_disable
  PROVE  DInv'
<1>1. /\ attached' = {} /\ events' = <<>> /\ seen' = [n \in Nodes |-> NULL] /\ order' = {}
      /\ value' = Nobody /\ told' = Nobody /\ metadata' = NoMetadata /\ cache' = NoMetadata
      /\ world' \in [Nodes -> State]
  BY DEF wp_default_nodes_disable, Down, Nobody, DInv, ServerTypes
<1>2. NoMetadata = [default |-> Nobody, config |-> Nobody] /\ Nobody \in [Kinds -> Name]
      /\ NULL \in State /\ NULL \in Name
  BY DEF NoMetadata, Nobody, Name, State
<1>3. ServerTypes'
  BY <1>1, <1>2 DEF ServerTypes
<1>4. MetadataTypes'
  BY <1>1, <1>2 DEF MetadataTypes
<1>5. OrderTotal'
  BY <1>1 DEF OrderTotal, There
<1>6. PlacesTold' /\ NewsComing' /\ RescanComing' /\ CacheRight'
  BY <1>1 DEF PlacesTold, NewsComing, RescanComing, CacheRight
<1>7. NotifyComing' /\ Published' /\ NotAttached'
  BY <1>1, <1>2 DEF NotifyComing, Published, NotAttached
<1> QED BY <1>3, <1>4, <1>5, <1>6, <1>7 DEF DInv

LEMMA InitAgrees == Init => DInv
<1> SUFFICES ASSUME Init PROVE DInv
  OBVIOUS
<1>1. /\ attached = {} /\ events = <<>> /\ seen = [n \in Nodes |-> NULL] /\ order = {}
      /\ value = Nobody /\ told = Nobody /\ metadata = NoMetadata /\ cache = NoMetadata
      /\ world \in [Nodes -> State]
  BY WorldsAssumption DEF Init, Nobody, State
<1> QED BY <1>1, NothingAgrees

LEMMA NextAgrees == IInv /\ DInv /\ [Next]_vars => DInv'
<1> SUFFICES ASSUME IInv, DInv, [Next]_vars PROVE DInv'
  OBVIOUS
<1>1. CASE on_metadata_added \/ ApiFindsMetadata
  BY <1>1, PluginAttachAgrees, ApiAttachAgrees
<1>2. CASE ReceiveNodes \/ sync_rescan \/ sync_changed_notification
  BY <1>2, ReceiveAgrees, RescanAgrees, NotifyAgrees
<1>3. CASE timeout_save_state_callback
  BY <1>3, QuietFrame DEF timeout_save_state_callback, plugin
<1>4. CASE Start \/ wp_default_nodes_disable \/ ClearSubject
  BY <1>4, StartAgrees, StopAgrees, ClearAgrees
<1>5. CASE \E n \in Nodes : ServerChanges(n)
  BY <1>5, ServerChangesAgree
<1>6. CASE \E k \in Kinds : set_default_configured_node_name(k)
  BY <1>6, RequestAgrees
<1>7. CASE UNCHANGED vars
  BY <1>7, QuietFrame DEF vars, plugin
<1> QED BY <1>1, <1>2, <1>3, <1>4, <1>5, <1>6, <1>7 DEF Next, Daemon, Environment

(* However nodes, ports and routes come and go, clients configure and      *)
(* clear, and the daemon stops and starts again: when everything is quiet  *)
(* the published default is the best node that the server has, by what the *)
(* user configured and chose before and then by priority, and the API and  *)
(* the scripts know it (module-default-nodes.c, -api.c).                   *)
THEOREM DefaultsAreBest == Spec => []DefaultsAgree
<1>1. Spec => [](IInv /\ DInv)
  BY InitInv, NextInv, InitAgrees, NextAgrees, PTL DEF Spec
<1> QED BY <1>1, QuietAgrees, PTL
=============================================================================
