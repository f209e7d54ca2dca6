--------------------------- MODULE FoldInduction ---------------------------
(***************************************************************************)
(* Induction over a fold. The models walk lists with FoldLeft, as the code *)
(* does in its loops: the components that are loaded, the plugins that are *)
(* registered, the messages that are flushed. What a loop establishes      *)
(* follows from what one turn of it preserves.                             *)
(*                                                                         *)
(* A module that reasons about such a loop takes an instance of this one,  *)
(* with the body of the loop for op. The first argument of op is what the  *)
(* body reads and does not change, the second what it changes and the      *)
(* third the element of the list. The induction hypothesis is a family of  *)
(* sets: I[k] is where the loop is after k turns.                          *)
(***************************************************************************)
EXTENDS Naturals, Sequences, SequencesExt, FiniteSetTheorems, WellFoundedInduction, TLAPS

CONSTANT op(_, _, _)

Folded(p, base, seq) == FoldLeft(LAMBDA w, e : op(p, w, e), base, seq)

(* Induction over the natural numbers, for sets: the least number that is  *)
(* not in the set would have a predecessor that is.                        *)
LEMMA SetInduction ==
  ASSUME NEW S, 0 \in S, \A n \in Nat : n \in S => n + 1 \in S
  PROVE  Nat \subseteq S
<1> DEFINE T == Nat \ S
           R == OpToRel(<, Nat)
<1>1. SUFFICES ASSUME T # {} PROVE FALSE
  OBVIOUS
<1>2. IsWellFoundedOn(R, Nat)
  BY NatLessThanWellFounded
<1>3. T \subseteq Nat
  OBVIOUS
<1> HIDE DEF T, R
<1>4. \E x \in T : \A y \in T : ~ (<<y, x>> \in R)
  BY <1>1, <1>2, <1>3, WFMin
<1>5. PICK x \in T : \A y \in T : ~ (<<y, x>> \in R)
  BY <1>4
<1>6. \A a, b \in Nat : <<a, b>> \in R <=> a < b
  BY DEF OpToRel, R
<1>7. x \in Nat /\ x \notin S
  BY DEF T
<1>8. x # 0
  BY <1>7
<1>9. x - 1 \in Nat /\ x - 1 < x
  BY <1>7, <1>8
<1>10. x - 1 \in S
  BY <1>5, <1>6, <1>7, <1>9 DEF T
<1> QED BY <1>9, <1>10, <1>7

(* FoldLeft takes the elements by the greatest number that is left.        *)
LEMMA MaxOfPrefix ==
  ASSUME NEW k \in Nat, NEW s \in SUBSET (1..k+1), k + 1 \in s
  PROVE  Max(s) = k + 1
<1>1. \A y \in s : k + 1 >= y
  OBVIOUS
<1>2. \A x \in s : (\A y \in s : x >= y) => x = k + 1
  OBVIOUS
<1> QED BY <1>1, <1>2 DEF Max

(* The function that FoldLeft defines by recursion on the subsets of the   *)
(* domain exists.                                                          *)
Iterates(g, p, base, seq, n) ==
  g = [s \in SUBSET (1..n) |->
         IF s = {} THEN base ELSE op(p, g[s \ {Max(s)}], seq[Max(s)])]

LEMMA FoldExists ==
  ASSUME NEW p, NEW base, NEW seq, NEW n \in Nat
  PROVE  \E g : Iterates(g, p, base, seq, n)
<1> DEFINE Def(g, s) == IF s = {} THEN base ELSE op(p, g[s \ {Max(s)}], seq[Max(s)])
           Good(g, k) == g = [s \in SUBSET (1..k) |-> Def(g, s)]
           T == {k \in Nat : \E g : Good(g, k)}
<1>1. 0 \in T
  <2> DEFINE h == [s \in SUBSET (1..0) |-> base]
  <2>1. \A s \in SUBSET (1..0) : s = {}
    OBVIOUS
  <2>2. \A s \in SUBSET (1..0) : Def(h, s) = base
    BY <2>1
  <2>3. Good(h, 0)
    BY <2>2
  <2> QED BY <2>3
<1>2. ASSUME NEW k \in Nat, k \in T PROVE k + 1 \in T
  <2> HIDE DEF Good
  <2>1. PICK g : Good(g, k)
    BY <1>2
  <2> USE DEF Good
  <2> DEFINE h == [s \in SUBSET (1..k+1) |->
                     IF k + 1 \in s THEN op(p, g[s \ {k + 1}], seq[k + 1]) ELSE g[s]]
  <2>2. ASSUME NEW s \in SUBSET (1..k+1) PROVE h[s] = Def(h, s)
    <3>1. CASE k + 1 \in s
      <4>1. Max(s) = k + 1 /\ s # {}
        BY <3>1, MaxOfPrefix
      <4>2. s \ {k + 1} \in SUBSET (1..k) /\ k + 1 \notin s \ {k + 1}
        OBVIOUS
      <4>3. s \ {k + 1} \in SUBSET (1..k+1)
        OBVIOUS
      <4>4. h[s \ {k + 1}] = g[s \ {k + 1}]
        BY <4>2, <4>3
      <4> QED BY <3>1, <4>1, <4>4
    <3>2. CASE k + 1 \notin s
      <4>1. s \in SUBSET (1..k)
        BY <3>2
      <4>2. h[s] = g[s]
        BY <3>2
      <4>3. g[s] = Def(g, s)
        BY <2>1, <4>1
      <4>4. CASE s = {}
        BY <4>2, <4>3, <4>4
      <4>5. CASE s # {}
        <5>1. s \ {Max(s)} \in SUBSET (1..k+1) /\ k + 1 \notin s \ {Max(s)}
          BY <4>1, <3>2
        <5>2. h[s \ {Max(s)}] = g[s \ {Max(s)}]
          BY <5>1
        <5> QED BY <4>2, <4>3, <4>5, <5>2
      <4> QED BY <4>4, <4>5
    <3> QED BY <3>1, <3>2
  <2>3. Good(h, k + 1)
    <3> HIDE DEF Def
    <3> QED BY <2>2
  <2> HIDE DEF Good, h
  <2> QED BY <2>3
<1>3. n \in T
  <2> HIDE DEF T
  <2> QED BY <1>1, <1>2, SetInduction
<1>4. PICK g : Good(g, n)
  <2> HIDE DEF Good
  <2> QED BY <1>3
<1>5. Iterates(g, p, base, seq, n)
  BY <1>4 DEF Iterates
<1> QED BY <1>5

(* A loop that starts in I[0] and goes from I[k-1] to I[k] in its turn k   *)
(* ends in I[n], with n elements in the list.                              *)
THEOREM FoldSteps ==
  \A p, I, S, base : \A seq \in Seq(S) :
    /\ base \in I[0]
    /\ \A k \in 1..Len(seq) : \A w \in I[k-1] : op(p, w, seq[k]) \in I[k]
    => Folded(p, base, seq) \in I[Len(seq)]
<1> TAKE p, I, S, base
<1> TAKE seq \in Seq(S)
<1> HAVE base \in I[0] /\ \A k \in 1..Len(seq) : \A w \in I[k-1] : op(p, w, seq[k]) \in I[k]
<1>1. PICK n \in Nat : n = Len(seq)
  OBVIOUS
<1>2. DOMAIN seq = 1..n
  BY <1>1
<1> DEFINE Def(g, s) == IF s = {} THEN base ELSE op(p, g[s \ {Max(s)}], seq[Max(s)])
           iter == CHOOSE g : Iterates(g, p, base, seq, n)
<1>3. \A s \in SUBSET (1..n) : iter[s] = Def(iter, s)
  <2>1. Iterates(iter, p, base, seq, n)
    BY FoldExists
  <2> HIDE DEF iter
  <2> QED BY <2>1 DEF Iterates
<1>4. Folded(p, base, seq) = iter[1..n]
  BY <1>2 DEF Folded, FoldLeft, MapThenFoldSet, Iterates
<1> HIDE DEF iter
<1> DEFINE P == [k \in 0..n |-> iter[1..k]]
<1>5. P[0] = base
  <2>1. 1..0 = {}
    OBVIOUS
  <2>2. iter[1..0] = base
    BY <2>1, <1>3
  <2> QED BY <2>2
<1>6. ASSUME NEW k \in 1..n PROVE P[k] = op(p, P[k-1], seq[k])
  <2>1. 1..k \in SUBSET (1..n) /\ k \in 1..k
    <3>1. \A j \in 1..k : j \in 1..n
      OBVIOUS
    <3> QED BY <3>1
  <2>0. k - 1 \in Nat /\ k \in 0..n /\ k - 1 \in 0..n
    OBVIOUS
  <2>2. (1..k) \ {k} = 1..(k-1)
    OBVIOUS
  <2>3. Max(1..k) = k
    <3>1. k \in 1..((k-1)+1) /\ (k-1) + 1 = k
      OBVIOUS
    <3> QED BY <3>1, <2>0, <2>1, MaxOfPrefix
  <2>4. iter[1..k] = op(p, iter[1..(k-1)], seq[k])
    BY <2>1, <2>2, <2>3, <1>3
  <2> QED BY <2>0, <2>4
<1>7. P[n] = iter[1..n]
  OBVIOUS
<1> HIDE DEF P
<1> DEFINE U == {k \in Nat : k <= n => P[k] \in I[k]}
<1>8. 0 \in U
  BY <1>5
<1>9. ASSUME NEW k \in Nat, k \in U PROVE k + 1 \in U
  <2> SUFFICES ASSUME k + 1 <= n PROVE P[k + 1] \in I[k + 1]
    OBVIOUS
  <2>1. P[k] \in I[k]
    BY <1>9
  <2>2. k + 1 \in 1..n /\ (k + 1) - 1 = k
    OBVIOUS
  <2>3. P[k + 1] = op(p, P[k], seq[k + 1])
    BY <1>6, <2>2
  <2>4. \A w \in I[k] : op(p, w, seq[k + 1]) \in I[k + 1]
    BY <2>2, <1>1
  <2> QED BY <2>1, <2>3, <2>4
<1> HIDE DEF U
<1>10. Nat \subseteq U
  BY <1>8, <1>9, SetInduction
<1>11. P[n] \in I[n]
  BY <1>10 DEF U
<1> QED BY <1>1, <1>4, <1>7, <1>11

-----------------------------------------------------------------------------
(* A loop over a set, in whatever order FoldSet chooses.  Here I[T] is     *)
(* where the loop may be when it has done the elements of T.               *)
FoldedSet(p, base, S) == FoldSet(LAMBDA e, w : op(p, w, e), base, S)

Chosen(s) == CHOOSE x \in s : TRUE

IteratesSet(g, p, base, D) ==
  g = [s \in D |-> IF s = {} THEN base ELSE op(p, g[s \ {Chosen(s)}], Chosen(s))]

(* The subsets with at most k elements. *)
UpTo(S, k) == {s \in SUBSET S : Cardinality(s) <= k}

LEMMA OneLess ==
  ASSUME NEW S, IsFiniteSet(S), NEW k \in Nat, NEW s \in UpTo(S, k + 1), s # {}
  PROVE  /\ Chosen(s) \in s /\ s \ {Chosen(s)} \in UpTo(S, k)
         /\ s \ {Chosen(s)} # s /\ UpTo(S, k) \subseteq UpTo(S, k + 1)
<1>1. Chosen(s) \in s
  BY DEF Chosen
<1>2. IsFiniteSet(s) /\ \A t \in SUBSET S : Cardinality(t) \in Nat
  BY FS_Subset, FS_CardinalityType DEF UpTo
<1>3. Cardinality(s \ {Chosen(s)}) = Cardinality(s) - 1
  BY <1>1, <1>2, FS_RemoveElement
<1>4. s \ {Chosen(s)} \in SUBSET S /\ Cardinality(s) \in Nat /\ Cardinality(s) <= k + 1
  BY <1>2 DEF UpTo
<1>5. Cardinality(s \ {Chosen(s)}) <= k
  BY <1>3, <1>4
<1>6. UpTo(S, k) \subseteq UpTo(S, k + 1)
  BY <1>2 DEF UpTo
<1> QED BY <1>1, <1>4, <1>5, <1>6 DEF UpTo

LEMMA NoneLess ==
  ASSUME NEW S, IsFiniteSet(S)
  PROVE  UpTo(S, 0) = {{}} /\ UpTo(S, Cardinality(S)) = SUBSET S
<1>1. \A t \in SUBSET S : /\ IsFiniteSet(t) /\ Cardinality(t) \in Nat
                          /\ Cardinality(t) <= Cardinality(S)
  BY FS_Subset, FS_CardinalityType
<1>2. \A t \in SUBSET S : Cardinality(t) = 0 <=> t = {}
  BY <1>1, FS_EmptySet
<1> QED BY <1>1, <1>2 DEF UpTo

LEMMA FoldSetExists ==
  ASSUME NEW p, NEW base, NEW S, IsFiniteSet(S)
  PROVE  \E g : IteratesSet(g, p, base, SUBSET S)
<1> DEFINE Def(g, s) == IF s = {} THEN base ELSE op(p, g[s \ {Chosen(s)}], Chosen(s))
           Good(g, k) == g = [s \in UpTo(S, k) |-> Def(g, s)]
           T == {k \in Nat : \E g : Good(g, k)}
<1>1. 0 \in T
  <2> DEFINE h == [s \in UpTo(S, 0) |-> base]
  <2>1. \A s \in UpTo(S, 0) : s = {}
    BY NoneLess
  <2>2. \A s \in UpTo(S, 0) : Def(h, s) = base
    BY <2>1
  <2>3. Good(h, 0)
    BY <2>2
  <2> QED BY <2>3
<1>2. ASSUME NEW k \in Nat, k \in T PROVE k + 1 \in T
  <2> HIDE DEF Good
  <2>1. PICK g : Good(g, k)
    BY <1>2
  <2> USE DEF Good
  <2> DEFINE h == [s \in UpTo(S, k + 1) |-> Def(g, s)]
  <2>2. \A s \in UpTo(S, k + 1) : s # {} => s \ {Chosen(s)} \in UpTo(S, k) \cap UpTo(S, k + 1)
    BY OneLess
  <2>3. ASSUME NEW s \in UpTo(S, k), s \in UpTo(S, k + 1) PROVE h[s] = g[s]
    BY <2>1, <2>3
  <2>4. ASSUME NEW s \in UpTo(S, k + 1) PROVE h[s] = Def(h, s)
    <3>1. CASE s = {}
      BY <3>1
    <3>2. CASE s # {}
      <4>1. h[s \ {Chosen(s)}] = g[s \ {Chosen(s)}]
        <5> HIDE DEF h
        <5> QED BY <2>2, <2>3, <3>2
      <4>2. h[s] = Def(g, s)
        OBVIOUS
      <4> HIDE DEF h
      <4> QED BY <3>2, <4>1, <4>2
    <3> QED BY <3>1, <3>2
  <2>5. Good(h, k + 1)
    <3> HIDE DEF Def
    <3> QED BY <2>4
  <2> HIDE DEF Good, h
  <2> QED BY <2>5
<1>3. Cardinality(S) \in T
  <2>1. Cardinality(S) \in Nat
    BY FS_CardinalityType
  <2> HIDE DEF T
  <2> QED BY <1>1, <1>2, <2>1, SetInduction
<1>4. PICK g : Good(g, Cardinality(S))
  <2> HIDE DEF Good
  <2> QED BY <1>3
<1>5. IteratesSet(g, p, base, SUBSET S)
  BY <1>4, NoneLess DEF IteratesSet
<1> QED BY <1>5

THEOREM FoldSetSteps ==
  \A p, I, base, S :
    /\ IsFiniteSet(S) /\ base \in I[{}]
    /\ \A T \in SUBSET S : \A x \in T : \A w \in I[T \ {x}] : op(p, w, x) \in I[T]
    => FoldedSet(p, base, S) \in I[S]
<1> SUFFICES ASSUME NEW p, NEW I, NEW base, NEW S, IsFiniteSet(S), base \in I[{}],
                    \A T \in SUBSET S : \A x \in T : \A w \in I[T \ {x}] : op(p, w, x) \in I[T]
             PROVE  FoldedSet(p, base, S) \in I[S]
  BY Zenon
<1> DEFINE Def(g, s) == IF s = {} THEN base ELSE op(p, g[s \ {Chosen(s)}], Chosen(s))
           iter == CHOOSE g : IteratesSet(g, p, base, SUBSET S)
<1>1. \A s \in SUBSET S : iter[s] = Def(iter, s)
  <2>1. IteratesSet(iter, p, base, SUBSET S)
    BY FoldSetExists
  <2> HIDE DEF iter
  <2> QED BY <2>1 DEF IteratesSet
<1>2. FoldedSet(p, base, S) = iter[S]
  BY DEF FoldedSet, FoldSet, MapThenFoldSet, IteratesSet, Chosen
<1> HIDE DEF iter
<1> DEFINE U == {k \in Nat : \A s \in UpTo(S, k) : iter[s] \in I[s]}
<1>3. 0 \in U
  <2>1. \A s \in UpTo(S, 0) : s = {} /\ s \in SUBSET S
    BY NoneLess
  <2> QED BY <1>1, <2>1
<1>4. ASSUME NEW k \in Nat, k \in U PROVE k + 1 \in U
  <2> SUFFICES ASSUME NEW s \in UpTo(S, k + 1) PROVE iter[s] \in I[s]
    OBVIOUS
  <2>1. s \in SUBSET S
    BY DEF UpTo
  <2>2. CASE s = {}
    BY <1>1, <2>1, <2>2
  <2>3. CASE s # {}
    <3>1. Chosen(s) \in s /\ s \ {Chosen(s)} \in UpTo(S, k)
      BY <2>3, OneLess
    <3>2. iter[s \ {Chosen(s)}] \in I[s \ {Chosen(s)}]
      BY <1>4, <3>1
    <3>3. op(p, iter[s \ {Chosen(s)}], Chosen(s)) \in I[s]
      BY <2>1, <3>1, <3>2
    <3> QED BY <1>1, <2>1, <2>3, <3>3
  <2> QED BY <2>2, <2>3
<1> HIDE DEF U
<1>5. Nat \subseteq U
  BY <1>3, <1>4, SetInduction
<1>6. Cardinality(S) \in U /\ S \in UpTo(S, Cardinality(S))
  BY <1>5, FS_CardinalityType, NoneLess
<1>7. iter[S] \in I[S]
  BY <1>6 DEF U
<1> QED BY <1>2, <1>7
=============================================================================
