------------------------- MODULE ThreadedQueueProofs -------------------------
(***************************************************************************)
(* ThreadedQueue, for any values, functions and limits, and however often  *)
(* a push raises: the values come to the slow queue each once and in       *)
(* order, a function is called after the values before it, and stop()      *)
(* leaves nothing behind.                                                  *)
(***************************************************************************)
EXTENDS ThreadedQueue, SequenceTheorems, WellFoundedInduction, TLAPS

-----------------------------------------------------------------------------
(***************************************************************************)
(* What the operators on sequences return.                                 *)
(***************************************************************************)

\* Induction over the natural numbers, for sets of them.
LEMMA Induction ==
  ASSUME NEW S, 0 \in S, \A n \in Nat : n \in S => n + 1 \in S
  PROVE  Nat \subseteq S
<1> SUFFICES ASSUME Nat \ S # {}
             PROVE  FALSE
  OBVIOUS
<1>1. \E x \in Nat \ S : \A y \in Nat \ S : ~(<<y, x>> \in OpToRel(<, Nat))
  BY NatLessThanWellFounded, WFMin
<1>2. PICK x \in Nat \ S : \A y \in Nat \ S : ~(<<y, x>> \in OpToRel(<, Nat))
  BY <1>1
<1>3. x # 0 /\ x - 1 \in Nat /\ x - 1 < x /\ (x - 1) + 1 = x
  <2>1. x \in Nat /\ x # 0
    BY <1>2
  <2> QED
    BY <2>1
<1>4. <<x - 1, x>> \in OpToRel(<, Nat)
  BY <1>2, <1>3 DEF OpToRel
<1> QED
  BY <1>2, <1>3, <1>4

\* Induction over the sequences, which grow by one element at the end.
LEMMA AppendInduction ==
  ASSUME NEW V, NEW T, <<>> \in T,
         \A s \in Seq(V), x \in V : s \in T => Append(s, x) \in T
  PROVE  Seq(V) \subseteq T
<1> DEFINE S == {n \in Nat : \A s \in Seq(V) : Len(s) = n => s \in T}
<1>1. 0 \in S
  BY EmptySeq
<1>2. ASSUME NEW n \in Nat, n \in S
      PROVE  n + 1 \in S
  <2> SUFFICES ASSUME NEW s \in Seq(V), Len(s) = n + 1
               PROVE  s \in T
    OBVIOUS
  <2>1. s # <<>>
    BY EmptySeq
  <2>2. PICK r \in Seq(V), x \in V : s = Append(r, x)
    BY <2>1, SequenceEmptyOrAppend
  <2>3. Len(s) = Len(r) + 1 /\ Len(r) \in Nat
    BY <2>2, AppendProperties
  <2>4. Len(r) = n
    BY <2>3
  <2> QED
    BY <1>2, <2>2, <2>4
<1> HIDE DEF S
<1>3. Nat \subseteq S
  BY <1>1, <1>2, Induction
<1>4. \A s \in Seq(V) : Len(s) \in Nat
  OBVIOUS
<1> QED
  BY <1>3, <1>4 DEF S

\* The elements of a sequence that gets one more, or that is put behind another.
LEMMA Entries ==
  ASSUME NEW V, NEW s \in Seq(V)
  PROVE  /\ ToSet(<<>>) = {}
         /\ ToSet(s) \subseteq V
         /\ \A x \in V : ToSet(Append(s, x)) = ToSet(s) \cup {x}
         /\ \A t \in Seq(V) : ToSet(s \o t) = ToSet(s) \cup ToSet(t)
         /\ s # <<>> => ToSet(s) = {Head(s)} \cup ToSet(Tail(s))
<1>1. ToSet(<<>>) = {} /\ ToSet(s) \subseteq V
  BY DEF ToSet
<1>2. ASSUME NEW x \in V
      PROVE  ToSet(Append(s, x)) = ToSet(s) \cup {x}
  BY AppendProperties DEF ToSet
<1>3. ASSUME NEW t \in Seq(V)
      PROVE  ToSet(s \o t) = ToSet(s) \cup ToSet(t)
  <2>1. /\ DOMAIN (s \o t) = 1..(Len(s) + Len(t))
        /\ \A i \in 1..Len(s) : (s \o t)[i] = s[i]
        /\ \A i \in 1..Len(t) : (s \o t)[i + Len(s)] = t[i]
    OBVIOUS
  <2>2. \A i \in 1..(Len(s) + Len(t)) : i \in 1..Len(s) \/ (i - Len(s) \in 1..Len(t) /\ i = (i - Len(s)) + Len(s))
    OBVIOUS
  <2>3. \A i \in 1..Len(s) : i \in 1..(Len(s) + Len(t))
    OBVIOUS
  <2>4. \A i \in 1..Len(t) : i + Len(s) \in 1..(Len(s) + Len(t))
    OBVIOUS
  <2>5. ToSet(s) \subseteq ToSet(s \o t)
    BY <2>1, <2>3 DEF ToSet
  <2>6. ToSet(t) \subseteq ToSet(s \o t)
    <3> SUFFICES ASSUME NEW i \in 1..Len(t)
                 PROVE  t[i] \in ToSet(s \o t)
      BY SMTT(30) DEF ToSet
    <3>1. i + Len(s) \in DOMAIN (s \o t) /\ (s \o t)[i + Len(s)] = t[i]
      BY <2>1, <2>4
    <3> QED
      BY <3>1 DEF ToSet
  <2>7. ToSet(s \o t) \subseteq ToSet(s) \cup ToSet(t)
    BY <2>1, <2>2 DEF ToSet
  <2> QED
    BY <2>5, <2>6, <2>7
<1>4. ASSUME s # <<>>
      PROVE  ToSet(s) = {Head(s)} \cup ToSet(Tail(s))
  <2>1. /\ Tail(s) \in Seq(V)
        /\ Len(Tail(s)) = Len(s) - 1 /\ Len(s) \in Nat \ {0}
        /\ \A i \in 1..Len(Tail(s)) : Tail(s)[i] = s[i + 1]
        /\ Head(s) = s[1]
    BY <1>4, HeadTailProperties, EmptySeq
  <2>2. DOMAIN Tail(s) = 1..(Len(s) - 1) /\ DOMAIN s = 1..Len(s)
    BY <2>1
  <2>3. \A i \in 1..Len(s) : i = 1 \/ (i - 1 \in 1..(Len(s) - 1) /\ i = (i - 1) + 1)
    BY <2>1
  <2>4. \A i \in 1..(Len(s) - 1) : i + 1 \in 1..Len(s)
    BY <2>1
  <2>5. 1 \in 1..Len(s)
    BY <2>1
  <2>6. ToSet(s) \subseteq {Head(s)} \cup ToSet(Tail(s))
    <3> SUFFICES ASSUME NEW i \in 1..Len(s), i # 1
                 PROVE  s[i] \in ToSet(Tail(s))
      BY <2>1, <2>2 DEF ToSet
    <3>1. i - 1 \in DOMAIN Tail(s) /\ Tail(s)[i - 1] = s[i]
      BY <2>1, <2>2, <2>3
    <3> QED
      BY <3>1 DEF ToSet
  <2>7. {Head(s)} \cup ToSet(Tail(s)) \subseteq ToSet(s)
    BY <2>1, <2>2, <2>4, <2>5 DEF ToSet
  <2> QED
    BY <2>6, <2>7
<1> QED
  BY <1>1, <1>2, <1>3, <1>4

(***************************************************************************)
(* ValuesIn is a fold, of which the library defines the result by          *)
(* recursion over the sets of positions.                                   *)
(***************************************************************************)

\* One more item behind the values that were selected.
Select(vs, x) == IF x \in Values THEN Append(vs, x) ELSE vs

\* That definition, up to the n-th item.
Selects(f, s, n) ==
    f = [t \in SUBSET (1..n) |-> IF t = {} THEN <<>> ELSE Select(f[t \ {Max(t)}], s[Max(t)])]

\* The largest of some of the numbers up to n is n when it is one of them.
LEMMA MaxIs ==
  ASSUME NEW n \in Nat, NEW t \in SUBSET (1..n), n \in t
  PROVE  Max(t) = n
<1>1. \A x \in t : x >= n => x = n
  OBVIOUS
<1>2. \A y \in t : n >= y
  OBVIOUS
<1> QED
  BY <1>1, <1>2 DEF Max

\* There is a function as the definition describes it.
LEMMA SelectsExists ==
  ASSUME NEW s
  PROVE  \A n \in Nat : \E f : Selects(f, s, n)
<1> DEFINE S == {n \in Nat : \E f : Selects(f, s, n)}
<1>1. 0 \in S
  <2> DEFINE g == [t \in SUBSET (1..0) |-> <<>>]
  <2>1. \A t \in SUBSET (1..0) : t = {}
    OBVIOUS
  <2>2. Selects(g, s, 0)
    BY <2>1 DEF Selects
  <2> QED
    BY <2>2
<1>2. ASSUME NEW n \in Nat, n \in S
      PROVE  n + 1 \in S
  <2>1. PICK f : Selects(f, s, n)
    BY <1>2
  <2> DEFINE g == [t \in SUBSET (1..(n + 1)) |->
                     IF n + 1 \in t THEN Select(f[t \ {n + 1}], s[n + 1]) ELSE f[t]]
  <2>2. ASSUME NEW t \in SUBSET (1..(n + 1))
        PROVE  g[t] = IF t = {} THEN <<>> ELSE Select(g[t \ {Max(t)}], s[Max(t)])
    <3>1. CASE n + 1 \in t
      <4>1. Max(t) = n + 1
        BY <3>1, MaxIs
      <4>2. t \ {n + 1} \in SUBSET (1..(n + 1)) /\ n + 1 \notin t \ {n + 1}
        OBVIOUS
      <4>3. g[t \ {n + 1}] = f[t \ {n + 1}]
        BY <4>2
      <4> QED
        BY <3>1, <4>1, <4>3
    <3>2. CASE n + 1 \notin t
      <4>1. t \in SUBSET (1..n)
        <5>1. \A x \in 1..(n + 1) : x # n + 1 => x \in 1..n
          OBVIOUS
        <5> QED
          BY <3>2, <5>1
      <4>2. t \ {Max(t)} \in SUBSET (1..(n + 1)) /\ n + 1 \notin t \ {Max(t)}
        BY <3>2
      <4>3. f[t] = IF t = {} THEN <<>> ELSE Select(f[t \ {Max(t)}], s[Max(t)])
        BY <2>1, <4>1 DEF Selects
      <4>4. g[t] = f[t] /\ g[t \ {Max(t)}] = f[t \ {Max(t)}]
        BY <3>2, <4>1, <4>2
      <4> QED
        BY <4>3, <4>4
    <3> QED
      BY <3>1, <3>2
  <2>3. Selects(g, s, n + 1)
    <3>1. g = [t \in SUBSET (1..(n + 1)) |-> g[t]]
      OBVIOUS
    <3> HIDE DEF g
    <3> QED
      BY <2>2, <3>1 DEF Selects
  <2> QED
    BY <2>3
<1> HIDE DEF S
<1>3. Nat \subseteq S
  BY <1>1, <1>2, Induction
<1> QED
  BY <1>3 DEF S

\* What that function gives for the first k items.
LEMMA SelectsFirst ==
  ASSUME NEW f, NEW s, NEW n \in Nat, Selects(f, s, n)
  PROVE  /\ f[1..0] = <<>>
         /\ \A k \in 1..n : f[1..k] = Select(f[1..(k - 1)], s[k])
<1>1. f[1..0] = <<>>
  <2>1. 1..0 = {} /\ 1..0 \in SUBSET (1..n)
    OBVIOUS
  <2> QED
    BY <2>1 DEF Selects
<1>2. ASSUME NEW k \in 1..n
      PROVE  f[1..k] = Select(f[1..(k - 1)], s[k])
  <2>1. 1..k \in SUBSET (1..n) /\ 1..k # {} /\ (1..k) \ {k} = 1..(k - 1)
    OBVIOUS
  <2>2. Max(1..k) = k
    BY MaxIs
  <2>3. f[1..k] = Select(f[(1..k) \ {Max(1..k)}], s[Max(1..k)])
    BY <2>1 DEF Selects
  <2> QED
    BY <2>1, <2>2, <2>3
<1> QED
  BY <1>1, <1>2

\* ValuesIn is what that function gives for all items.
LEMMA ValuesInIs ==
  ASSUME NEW V, NEW s \in Seq(V)
  PROVE  \E f : Selects(f, s, Len(s)) /\ ValuesIn(s) = f[1..Len(s)]
<1> DEFINE f == CHOOSE g : Selects(g, s, Len(s))
<1>1. Len(s) \in Nat /\ DOMAIN s = 1..Len(s)
  OBVIOUS
<1>2. \E g : Selects(g, s, Len(s))
  BY <1>1, SelectsExists, Zenon
<1>3. Selects(f, s, Len(s))
  BY <1>2
<1>4. ValuesIn(s) = f[1..Len(s)]
  BY <1>1 DEF ValuesIn, FoldLeft, MapThenFoldSet, Selects, Select
<1> QED
  BY <1>3, <1>4

\* Nothing is selected from nothing, and an item that comes is selected when it
\* is a value.
LEMMA ValuesInAppend ==
  ASSUME NEW V, NEW s \in Seq(V), NEW x \in V
  PROVE  /\ ValuesIn(<<>>) = <<>>
         /\ ValuesIn(Append(s, x)) = Select(ValuesIn(s), x)
<1>1. ValuesIn(<<>>) = <<>>
  <2>1. <<>> \in Seq(V) /\ Len(<<>>) = 0
    BY EmptySeq
  <2>2. PICK f : Selects(f, <<>>, 0) /\ ValuesIn(<<>>) = f[1..0]
    BY <2>1, ValuesInIs
  <2> QED
    BY <2>2, SelectsFirst
<1> DEFINE a == Append(s, x)
<1>2. /\ a \in Seq(V) /\ Len(a) = Len(s) + 1 /\ Len(s) \in Nat
      /\ \A i \in 1..Len(s) : a[i] = s[i]
      /\ a[Len(s) + 1] = x
  BY AppendProperties
<1>3. PICK f : Selects(f, s, Len(s)) /\ ValuesIn(s) = f[1..Len(s)]
  BY ValuesInIs
<1> HIDE DEF a
<1>4. PICK g : Selects(g, a, Len(s) + 1) /\ ValuesIn(a) = g[1..(Len(s) + 1)]
  BY <1>2, ValuesInIs
<1> DEFINE S == {k \in Nat : k <= Len(s) => g[1..k] = f[1..k]}
<1>5. /\ f[1..0] = <<>>
      /\ \A k \in 1..Len(s) : f[1..k] = Select(f[1..(k - 1)], s[k])
  BY <1>2, <1>3, SelectsFirst
<1>6. /\ g[1..0] = <<>>
      /\ \A k \in 1..(Len(s) + 1) : g[1..k] = Select(g[1..(k - 1)], a[k])
  BY <1>2, <1>4, SelectsFirst
<1>7. 0 \in S
  BY <1>5, <1>6
<1>8. ASSUME NEW k \in Nat, k \in S
      PROVE  k + 1 \in S
  <2> SUFFICES ASSUME k + 1 <= Len(s)
               PROVE  g[1..(k + 1)] = f[1..(k + 1)]
    OBVIOUS
  <2>1. k + 1 \in 1..Len(s) /\ k + 1 \in 1..(Len(s) + 1) /\ (k + 1) - 1 = k /\ k <= Len(s)
    BY <1>2
  <2>2. g[1..k] = f[1..k]
    BY <1>8, <2>1
  <2>3. f[1..(k + 1)] = Select(f[1..k], s[k + 1])
    BY <1>5, <2>1
  <2>4. g[1..(k + 1)] = Select(g[1..k], a[k + 1])
    BY <1>6, <2>1
  <2>5. a[k + 1] = s[k + 1]
    BY <1>2, <2>1
  <2> QED
    BY <2>2, <2>3, <2>4, <2>5
<1> HIDE DEF S
<1>9. Len(s) \in S
  BY <1>2, <1>7, <1>8, Induction
<1>10. ValuesIn(a) = Select(ValuesIn(s), x)
  <2>1. Len(s) + 1 \in 1..(Len(s) + 1) /\ (Len(s) + 1) - 1 = Len(s)
    BY <1>2
  <2>2. g[1..(Len(s) + 1)] = Select(g[1..Len(s)], a[Len(s) + 1])
    BY <1>6, <2>1
  <2>3. g[1..Len(s)] = f[1..Len(s)]
    BY <1>2, <1>9 DEF S
  <2> QED
    BY <1>2, <1>3, <1>4, <2>2, <2>3
<1> QED
  BY <1>1, <1>10 DEF a

\* What is selected are the values, as a sequence of them.
LEMMA ValuesInSet ==
  ASSUME NEW V
  PROVE  \A s \in Seq(V) : ValuesIn(s) \in Seq(Values) /\ ToSet(ValuesIn(s)) = ToSet(s) \cap Values
<1> DEFINE T == {s \in Seq(V) : ValuesIn(s) \in Seq(Values) /\ ToSet(ValuesIn(s)) = ToSet(s) \cap Values}
<1>1. <<>> \in T
  <2>1. ValuesIn(<<>>) = <<>>
    <3>1. <<>> \in Seq({0}) /\ 0 \in {0}
      BY EmptySeq
    <3> QED
      BY <3>1, ValuesInAppend
  <2>2. <<>> \in Seq(V) /\ <<>> \in Seq(Values) /\ ToSet(<<>>) = {}
    BY EmptySeq DEF ToSet
  <2> QED
    BY <2>1, <2>2
<1>2. ASSUME NEW s \in Seq(V), NEW x \in V, s \in T
      PROVE  Append(s, x) \in T
  <2>1. ValuesIn(Append(s, x)) = Select(ValuesIn(s), x)
    BY ValuesInAppend
  <2>2. ValuesIn(s) \in Seq(Values) /\ ToSet(ValuesIn(s)) = ToSet(s) \cap Values
    BY <1>2
  <2>3. Append(s, x) \in Seq(V) /\ ToSet(Append(s, x)) = ToSet(s) \cup {x}
    BY AppendProperties, Entries
  <2>4. CASE x \in Values
    <3>1. /\ Append(ValuesIn(s), x) \in Seq(Values)
          /\ ToSet(Append(ValuesIn(s), x)) = ToSet(ValuesIn(s)) \cup {x}
      BY <2>2, <2>4, AppendProperties, Entries
    <3> QED
      BY <2>1, <2>2, <2>3, <2>4, <3>1 DEF Select
  <2>5. CASE x \notin Values
    BY <2>1, <2>2, <2>3, <2>5 DEF Select
  <2> QED
    BY <2>4, <2>5
<1> HIDE DEF T
<1>3. Seq(V) \subseteq T
  BY <1>1, <1>2, AppendInduction
<1> QED
  BY <1>3 DEF T

\* Selecting from two sequences, one behind the other.
LEMMA ValuesInConcat ==
  ASSUME NEW V, NEW r \in Seq(V)
  PROVE  \A s \in Seq(V) : ValuesIn(r \o s) = ValuesIn(r) \o ValuesIn(s)
<1> DEFINE T == {s \in Seq(V) : ValuesIn(r \o s) = ValuesIn(r) \o ValuesIn(s)}
<1>0. ValuesIn(r) \in Seq(Values)
  BY ValuesInSet
<1>1. <<>> \in T
  <2>1. ValuesIn(<<>>) = <<>>
    <3>1. <<>> \in Seq({0}) /\ 0 \in {0}
      BY EmptySeq
    <3> QED
      BY <3>1, ValuesInAppend
  <2>2. <<>> \in Seq(V) /\ r \o <<>> = r /\ ValuesIn(r) \o <<>> = ValuesIn(r)
    BY <1>0, EmptySeq, ConcatEmptySeq
  <2> QED
    BY <2>1, <2>2
<1>2. ASSUME NEW s \in Seq(V), NEW x \in V, s \in T
      PROVE  Append(s, x) \in T
  <2>1. r \o s \in Seq(V) /\ Append(s, x) \in Seq(V) /\ ValuesIn(s) \in Seq(Values)
    BY ConcatProperties, AppendProperties, ValuesInSet
  <2>2. r \o Append(s, x) = Append(r \o s, x)
    <3>1. Append(s, x) = s \o <<x>> /\ Append(r \o s, x) = (r \o s) \o <<x>> /\ <<x>> \in Seq(V)
      BY <2>1, AppendIsConcat
    <3> QED
      BY <3>1, ConcatAssociative
  <2>3. /\ ValuesIn(Append(r \o s, x)) = Select(ValuesIn(r \o s), x)
        /\ ValuesIn(Append(s, x)) = Select(ValuesIn(s), x)
    BY <2>1, ValuesInAppend
  <2>4. x \in Values => Append(ValuesIn(r) \o ValuesIn(s), x) = ValuesIn(r) \o Append(ValuesIn(s), x)
    <3> SUFFICES ASSUME x \in Values
                 PROVE  Append(ValuesIn(r) \o ValuesIn(s), x) = ValuesIn(r) \o Append(ValuesIn(s), x)
      OBVIOUS
    <3>1. /\ Append(ValuesIn(s), x) = ValuesIn(s) \o <<x>> /\ <<x>> \in Seq(Values)
          /\ ValuesIn(r) \o ValuesIn(s) \in Seq(Values)
      BY <1>0, <2>1, AppendIsConcat, ConcatProperties
    <3>2. Append(ValuesIn(r) \o ValuesIn(s), x) = (ValuesIn(r) \o ValuesIn(s)) \o <<x>>
      BY <3>1, AppendIsConcat
    <3> QED
      BY <1>0, <2>1, <3>1, <3>2, SMTT(30)
  <2>5. ValuesIn(r \o s) = ValuesIn(r) \o ValuesIn(s)
    BY <1>2
  <2> QED
    BY <2>1, <2>2, <2>3, <2>4, <2>5 DEF Select
<1> HIDE DEF T
<1>3. Seq(V) \subseteq T
  BY <1>1, <1>2, AppendInduction
<1> QED
  BY <1>3 DEF T

\* What leaves the front of a sequence leaves the front of what is selected.
LEMMA ValuesInHead ==
  ASSUME NEW V, NEW s \in Seq(V), s # <<>>
  PROVE  ValuesIn(s) = IF Head(s) \in Values THEN <<Head(s)>> \o ValuesIn(Tail(s))
                                             ELSE ValuesIn(Tail(s))
<1>1. Head(s) \in V /\ Tail(s) \in Seq(V) /\ <<Head(s)>> \in Seq(V) /\ s = <<Head(s)>> \o Tail(s)
  OBVIOUS
<1>2. ValuesIn(s) = ValuesIn(<<Head(s)>>) \o ValuesIn(Tail(s))
  BY <1>1, ValuesInConcat
<1>3. ValuesIn(<<Head(s)>>) = IF Head(s) \in Values THEN <<Head(s)>> ELSE <<>>
  <2>1. <<Head(s)>> = Append(<<>>, Head(s)) /\ <<>> \in Seq(V)
    BY EmptySeq
  <2>2. ValuesIn(<<>>) = <<>> /\ ValuesIn(Append(<<>>, Head(s))) = Select(ValuesIn(<<>>), Head(s))
    BY <1>1, <2>1, ValuesInAppend
  <2> QED
    BY <2>1, <2>2 DEF Select
<1>4. ValuesIn(Tail(s)) \in Seq(Values)
  BY <1>1, ValuesInSet
<1> QED
  BY <1>2, <1>3, <1>4, ConcatEmptySeq

-----------------------------------------------------------------------------
(***************************************************************************)
(* Types, and what is moved.                                               *)
(***************************************************************************)

\* What a push does to the values: all of the buffer goes, or nothing.
LEMMA PushMoves ==
  ASSUME TypeOK, Push \/ PushRaises
  PROVE  /\ buffer' \in Seq(Values) /\ slow' \in Seq(Values) /\ postPush' \in Seq(Functions)
         /\ called' \subseteq Functions /\ failures' \in 0..MaxFailures
         /\ slowTold' = slowTold
         /\ \/ buffer' = buffer /\ slow' = slow
            \/ buffer' = <<>> /\ slow' = slow \o buffer
         /\ called \subseteq called'
         /\ called' # called => buffer' = <<>> /\ slow' = slow \o buffer
         /\ called' \subseteq called \cup ToSet(postPush)
         /\ ToSet(postPush') \subseteq ToSet(postPush)
<1>1. /\ buffer \in Seq(Values) /\ slow \in Seq(Values) /\ postPush \in Seq(Functions)
      /\ called \subseteq Functions /\ failures \in 0..MaxFailures
      /\ slow \o buffer \in Seq(Values) /\ <<>> \in Seq(Values) /\ <<>> \in Seq(Functions)
  BY ConcatProperties, EmptySeq DEF TypeOK
<1>2. ToSet(postPush) \subseteq Functions /\ ToSet(<<>>) = {}
  BY <1>1, Entries
<1>3. CASE Push
  BY <1>1, <1>2, <1>3 DEF Push
<1>4. CASE PushRaises
  <2>1. failures' \in 0..MaxFailures
    BY <1>1, <1>4, ThreadedQueueAssumption DEF PushRaises
  <2>2. \A n \in DOMAIN postPush : ToSet(SubSeq(postPush, 1, n)) \subseteq ToSet(postPush)
    <3> SUFFICES ASSUME NEW n \in 1..Len(postPush)
                 PROVE  ToSet(SubSeq(postPush, 1, n)) \subseteq ToSet(postPush)
      BY <1>1
    <3>1. /\ Len(SubSeq(postPush, 1, n)) = n
          /\ DOMAIN SubSeq(postPush, 1, n) = 1..n
          /\ \A i \in 1..n : SubSeq(postPush, 1, n)[i] = postPush[i]
      BY <1>1
    <3>2. \A i \in 1..n : i \in DOMAIN postPush
      BY <1>1
    <3> QED
      BY <3>1, <3>2 DEF ToSet
  <2> QED
    BY <1>1, <1>2, <1>4, <2>1, <2>2 DEF PushRaises
<1> QED
  BY <1>3, <1>4

\* The queue gets a batch while there is room for an item.
LEMMA QueueGrows ==
  ASSUME TypeOK, HasRoom, NEW b \in Seq(Items), Len(b) <= MaxBatch
  PROVE  queue \o b \in Seq(Items) /\ Len(queue \o b) < MaxSize + MaxBatch
<1>1. queue \in Seq(Items)
  BY DEF TypeOK
<1>2. queue \o b \in Seq(Items) /\ Len(queue \o b) = Len(queue) + Len(b) /\ Len(queue) \in Nat /\ Len(b) \in Nat
  BY <1>1, ConcatProperties
<1>3. MaxSize \in Nat /\ MaxBatch \in Nat
  BY ThreadedQueueAssumption
<1> QED
  BY <1>2, <1>3 DEF HasRoom

\* An item is a batch of one.
LEMMA BatchOfOne ==
  ASSUME NEW V, NEW s \in Seq(V), NEW x \in V
  PROVE  /\ <<x>> \in Seq(V) /\ Len(<<x>>) = 1 /\ <<x>>[1] = x /\ ToSet(<<x>>) = {x}
         /\ Append(s, x) = s \o <<x>>
<1>1. <<x>> \in Seq(V) /\ Len(<<x>>) = 1 /\ <<x>>[1] = x /\ DOMAIN <<x>> = {1}
  OBVIOUS
<1>2. Append(s, x) = s \o <<x>>
  BY AppendIsConcat
<1> QED
  BY <1>1, <1>2 DEF ToSet

\* The batches of the users: items of theirs, each once.
LEMMA BatchFacts ==
  ASSUME NEW b \in Batches
  PROVE  /\ b \in Seq(Items) /\ Len(b) <= MaxBatch /\ PleaseStop \notin ToSet(b)
         /\ \A d, e \in 1..Len(b) : b[d] = b[e] => d = e
<1>1. b \in UNION {[1..m -> Values \cup Functions] : m \in 0..MaxBatch} /\ IsInjective(b)
  BY DEF Batches, BoundedSeq, SeqOf
<1>2. PICK m \in 0..MaxBatch : b \in [1..m -> Values \cup Functions]
  BY <1>1
<1>3. m \in Nat /\ m <= MaxBatch
  BY ThreadedQueueAssumption
<1>4. b \in Seq(Values \cup Functions) /\ Len(b) = m
  BY <1>2, <1>3
<1>5. Values \cup Functions \subseteq Items /\ PleaseStop \notin Values \cup Functions
  BY ThreadedQueueAssumption DEF Items
<1>6. b \in Seq(Items)
  BY <1>4, <1>5
<1>7. PleaseStop \notin ToSet(b)
  BY <1>2, <1>5 DEF ToSet
<1>8. \A d, e \in 1..Len(b) : b[d] = b[e] => d = e
  BY <1>1, <1>2, <1>4 DEF IsInjective
<1> QED
  BY <1>3, <1>4, <1>6, <1>7, <1>8

\* The item that is popped.
LEMMA PopFacts ==
  ASSUME TypeOK, Pop
  PROVE  /\ queue \in Seq(Items) /\ queue # <<>>
         /\ Head(queue) \in Items
         /\ Tail(queue) \in Seq(Items) /\ Len(Tail(queue)) = Len(queue) - 1 /\ Len(queue) \in Nat
         /\ queue' = Tail(queue)
  BY HeadTailProperties DEF TypeOK, Pop

\* All that the users put is an item.
LEMMA ItemsOf ==
  /\ Values \subseteq Items /\ Functions \subseteq Items /\ PleaseStop \in Items
  /\ PleaseStop \notin Values /\ PleaseStop \notin Functions
  /\ \A x \in Items : x \in Values \/ x \in Functions \/ x = PleaseStop
  /\ \A x \in Values : x \notin Functions
  BY ThreadedQueueAssumption DEF Items

\* Every step of the users and of the worker keeps the types.
LEMMA NextType == TypeOK /\ [Next]_vars => TypeOK'
<1> SUFFICES ASSUME TypeOK, [Next]_vars
             PROVE  TypeOK'
  OBVIOUS
<1> USE ItemsOf
<1>0. /\ MaxBatch \in Nat \ {0} /\ queue \in Seq(Items) /\ added \in Seq(Items)
      /\ <<PleaseStop>> \in Seq(Items) /\ Len(<<PleaseStop>>) = 1
      /\ Append(queue, PleaseStop) = queue \o <<PleaseStop>>
  BY ThreadedQueueAssumption, BatchOfOne DEF TypeOK
<1>8. HasRoom => Append(queue, PleaseStop) \in Seq(Items) /\ Len(Append(queue, PleaseStop)) < MaxSize + MaxBatch
  <2> DEFINE b == <<PleaseStop>>
  <2>1. b \in Seq(Items) /\ Len(b) <= MaxBatch /\ Append(queue, PleaseStop) = queue \o b
    BY <1>0
  <2> HIDE DEF b
  <2> QED
    BY <2>1, QueueGrows
<1>1. ASSUME NEW b \in Batches, Add(b)
      PROVE  TypeOK'
  <2>1. queue \o b \in Seq(Items) /\ Len(queue \o b) < MaxSize + MaxBatch
    BY <1>1, QueueGrows, BatchFacts DEF Add
  <2>2. added \o b \in Seq(Items)
    BY <1>0, BatchFacts, ConcatProperties
  <2> QED
    BY <1>1, <2>1, <2>2 DEF TypeOK, Add, inner, outer
<1>2. CASE StopAdds
  <2>1. Append(queue, PleaseStop) \in Seq(Items) /\ Len(Append(queue, PleaseStop)) < MaxSize + MaxBatch
    BY <1>2, <1>8 DEF StopAdds
  <2>2. Append(added, PleaseStop) \in Seq(Items)
    BY AppendProperties DEF TypeOK
  <2> QED
    BY <1>2, <2>1, <2>2 DEF TypeOK, StopAdds, inner, outer
<1>3. CASE OwnerAdds \/ StopGoes
  <2>1. queue' \in {queue, Append(queue, PleaseStop)} /\ (queue' # queue => HasRoom)
    BY <1>3 DEF OwnerAdds, StopGoes
  <2>2. queue' \in Seq(Items) /\ Len(queue') < MaxSize + MaxBatch
    <3>1. CASE queue' = queue
      BY <3>1 DEF TypeOK
    <3>2. CASE queue' # queue
      BY <1>8, <2>1, <3>2
    <3> QED
      BY <3>1, <3>2
  <2> QED
    BY <1>3, <2>2 DEF TypeOK, OwnerAdds, StopGoes, Goto, inner, outer
<1>4. CASE StopFails \/ StopReturns \/ StopThread \/ TimerFires \/ Loop \/ PopTimesOut \/ TellSlow
  <2>1. UNCHANGED <<queue, buffer, postPush, slow, called, failures, added>>
    BY <1>4 DEF StopFails, StopReturns, StopThread, TimerFires, Loop, PopTimesOut, TellSlow, inner, outer
  <2>2. {pleaseStop', nextPush', slowTold', stopLost'} \subseteq BOOLEAN
    BY <1>4 DEF TypeOK, StopFails, StopReturns, StopThread, TimerFires, Loop, PopTimesOut, TellSlow,
                inner, outer
  <2>3. /\ worker' \in {"head", "pop", "push", "go", "batch", "last", "tell", "ended", "failed"}
        /\ user' \in {"idle", "joins", "done"}
        /\ owner' \in {"idle", "adds", "done"}
    BY <1>4 DEF TypeOK, StopFails, StopReturns, StopThread, TimerFires, Loop, PopTimesOut, TellSlow, Goto
  <2> QED
    BY <2>1, <2>2, <2>3 DEF TypeOK
<1>5. CASE Pop
  <2>1. queue' \in Seq(Items) /\ Len(queue') < MaxSize + MaxBatch
    <3>1. MaxSize \in Nat /\ MaxBatch \in Nat /\ Len(queue) < MaxSize + MaxBatch
      BY ThreadedQueueAssumption DEF TypeOK
    <3> QED
      BY <1>5, <3>1, PopFacts
  <2>2. buffer' \in Seq(Values) /\ postPush' \in Seq(Functions)
    <3>1. /\ buffer \in Seq(Values) /\ postPush \in Seq(Functions)
          /\ \A x \in Values : Append(buffer, x) \in Seq(Values)
          /\ \A x \in Functions : Append(postPush, x) \in Seq(Functions)
      BY AppendProperties DEF TypeOK
    <3>2. \/ Head(queue) \in Values /\ buffer' = Append(buffer, Head(queue)) /\ postPush' = postPush
          \/ Head(queue) \in Functions /\ postPush' = Append(postPush, Head(queue)) /\ buffer' = buffer
          \/ buffer' = buffer /\ postPush' = postPush
      BY <1>5 DEF Pop, Popped
    <3> QED
      BY <3>1, <3>2
  <2>3. worker' \in {"batch", "push"} /\ nextPush' \in BOOLEAN
    BY <1>5, PopFacts DEF TypeOK, Pop, Popped, Goto
  <2> QED
    BY <1>5, <2>1, <2>2, <2>3 DEF TypeOK, Pop, outer
<1>6. CASE StopPushes \/ LastPush \/ Batch
  <2>1. \/ Push \/ PushRaises
        \/ UNCHANGED <<buffer, postPush, outer>>
    BY <1>6 DEF StopPushes, LastPush, Batch, inner
  <2>2. /\ buffer' \in Seq(Values) /\ slow' \in Seq(Values) /\ postPush' \in Seq(Functions)
        /\ called' \subseteq Functions /\ failures' \in 0..MaxFailures
        /\ slowTold' \in BOOLEAN
    BY <2>1, PushMoves DEF TypeOK, outer
  <2>3. /\ UNCHANGED <<queue, pleaseStop, user, owner, added>>
        /\ worker' \in {"go", "batch", "tell", "failed", "head"}
    BY <1>6 DEF StopPushes, LastPush, Batch, Goto
  <2>4. nextPush' \in BOOLEAN /\ stopLost' \in BOOLEAN
    BY <1>6 DEF TypeOK, StopPushes, LastPush, Batch, Push, inner, outer
  <2> QED
    BY <2>2, <2>3, <2>4 DEF TypeOK
<1>7. CASE UNCHANGED vars
  BY <1>7 DEF TypeOK, vars, inner, outer
<1> QED
  BY <1>1, <1>2, <1>3, <1>4, <1>5, <1>6, <1>7 DEF Next, Worker

\* All of it is empty at first.
LEMMA InitType == Init => TypeOK
<1>1. \A S : <<>> \in Seq(S)
  BY EmptySeq
<1>2. Len(<<>>) = 0 /\ 0 < MaxSize + MaxBatch /\ 0 \in 0..MaxFailures
  BY ThreadedQueueAssumption
<1> QED
  BY <1>1, <1>2 DEF Init, TypeOK

\* No step drops, doubles or overtakes a value.
LEMMA NextMoved == TypeOK /\ MovedOnceInOrder /\ [Next]_vars => MovedOnceInOrder'
<1> SUFFICES ASSUME TypeOK, MovedOnceInOrder, [Next]_vars
             PROVE  MovedOnceInOrder'
  OBVIOUS
<1> USE ItemsOf
<1>1. /\ queue \in Seq(Items) /\ added \in Seq(Items)
      /\ buffer \in Seq(Values) /\ slow \in Seq(Values)
      /\ ValuesIn(queue) \in Seq(Values)
      /\ slow \o buffer \in Seq(Values)
  BY ValuesInSet, ConcatProperties DEF TypeOK
<1>2. \A x \in Items : ValuesIn(Append(queue, x)) = Select(ValuesIn(queue), x)
  BY <1>1, ValuesInAppend
<1>3. CASE UNCHANGED <<slow, buffer, queue, added>>
  BY <1>3 DEF MovedOnceInOrder
<1>4. ASSUME NEW b \in Batches, Add(b)
      PROVE  MovedOnceInOrder'
  <2>1. b \in Seq(Items) /\ ValuesIn(b) \in Seq(Values)
    BY BatchFacts, ValuesInSet
  <2>2. /\ ValuesIn(added \o b) = ValuesIn(added) \o ValuesIn(b)
        /\ ValuesIn(queue \o b) = ValuesIn(queue) \o ValuesIn(b)
    BY <1>1, <2>1, ValuesInConcat
  <2>3. (slow \o buffer) \o (ValuesIn(queue) \o ValuesIn(b))
           = ((slow \o buffer) \o ValuesIn(queue)) \o ValuesIn(b)
    <3> DEFINE r == slow \o buffer
               s == ValuesIn(queue)
               u == ValuesIn(b)
    <3>1. r \in Seq(Values) /\ s \in Seq(Values) /\ u \in Seq(Values)
      BY <1>1, <2>1
    <3> HIDE DEF r, s, u
    <3>2. r \o (s \o u) = (r \o s) \o u
      BY <3>1, ConcatAssociative
    <3> QED
      BY <3>2 DEF r, s, u
  <2>4. /\ queue' = queue \o b /\ added' = added \o b
        /\ slow' = slow /\ buffer' = buffer
    BY <1>4 DEF Add, inner, outer
  <2> QED
    BY <2>2, <2>3, <2>4 DEF MovedOnceInOrder
<1>5. CASE StopAdds
  <2>1. ValuesIn(Append(added, PleaseStop)) = Select(ValuesIn(added), PleaseStop)
    BY <1>1, ValuesInAppend
  <2>2. /\ queue' = Append(queue, PleaseStop) /\ added' = Append(added, PleaseStop)
        /\ slow' = slow /\ buffer' = buffer
    BY <1>5 DEF StopAdds, inner, outer
  <2> QED
    BY <1>2, <2>1, <2>2 DEF MovedOnceInOrder, Select
<1>6. CASE OwnerAdds \/ StopGoes
  <2>1. /\ queue' \in {queue, Append(queue, PleaseStop)}
        /\ UNCHANGED <<slow, buffer, added>>
    BY <1>6 DEF OwnerAdds, StopGoes, inner, outer
  <2> QED
    BY <1>2, <2>1 DEF MovedOnceInOrder, Select
<1>7. CASE Pop
  <2>1. /\ ValuesIn(queue) = IF Head(queue) \in Values THEN <<Head(queue)>> \o ValuesIn(queue')
                                                       ELSE ValuesIn(queue')
        /\ ValuesIn(queue') \in Seq(Values)
    BY <1>1, <1>7, PopFacts, ValuesInHead, ValuesInSet
  <2>2. slow' = slow /\ added' = added
    BY <1>7 DEF Pop, outer
  <2>3. CASE Head(queue) \in Values
    <3> DEFINE x == Head(queue)
    <3>1. buffer' = buffer \o <<x>> /\ <<x>> \in Seq(Values) /\ buffer \o <<x>> \in Seq(Values)
      <4>1. buffer' = Append(buffer, x)
        BY <1>7, <2>3 DEF Pop, Popped
      <4> HIDE DEF x
      <4>2. x \in Values
        BY <2>3 DEF x
      <4>3. Append(buffer, x) = buffer \o <<x>> /\ <<x>> \in Seq(Values)
        BY <1>1, <4>2, AppendIsConcat
      <4> QED
        BY <1>1, <4>1, <4>3, ConcatProperties
    <3> HIDE DEF x
    <3>2. slow \o (buffer \o <<x>>) = (slow \o buffer) \o <<x>>
      BY <1>1, <3>1, ConcatAssociative
    <3>3. ((slow \o buffer) \o <<x>>) \o ValuesIn(queue')
             = (slow \o buffer) \o (<<x>> \o ValuesIn(queue'))
      BY <1>1, <2>1, <3>1, SMTT(30)
    <3> QED
      BY <2>1, <2>2, <2>3, <3>1, <3>2, <3>3 DEF MovedOnceInOrder, x
  <2>4. CASE Head(queue) \notin Values
    <3>1. buffer' = buffer
      BY <1>7, <2>4 DEF Pop, Popped
    <3> QED
      BY <2>1, <2>2, <2>4, <3>1 DEF MovedOnceInOrder
  <2> QED
    BY <2>3, <2>4
<1>8. CASE StopPushes \/ LastPush \/ Batch
  <2>1. Push \/ PushRaises \/ UNCHANGED <<buffer, outer>>
    BY <1>8 DEF StopPushes, LastPush, Batch, inner
  <2>2. /\ \/ buffer' = buffer /\ slow' = slow
           \/ buffer' = <<>> /\ slow' = slow \o buffer
        /\ UNCHANGED <<queue, added>>
    BY <1>8, <2>1, PushMoves DEF StopPushes, LastPush, Batch, outer
  <2>3. (slow \o buffer) \o <<>> = slow \o buffer
    BY <1>1, ConcatEmptySeq
  <2> QED
    BY <2>2, <2>3 DEF MovedOnceInOrder
<1>9. CASE StopFails \/ StopReturns \/ StopThread \/ TimerFires \/ Loop \/ PopTimesOut \/ TellSlow
  BY <1>3, <1>9 DEF StopFails, StopReturns, StopThread, TimerFires, Loop, PopTimesOut, TellSlow,
                    inner, outer
<1>10. CASE UNCHANGED vars
  BY <1>3, <1>10 DEF vars, inner, outer
<1> QED
  BY <1>4, <1>5, <1>6, <1>7, <1>8, <1>9, <1>10 DEF Next, Worker

-----------------------------------------------------------------------------
(***************************************************************************)
(* The order of what is moved and what is called.                          *)
(***************************************************************************)

\* An item of the queue that a user put there with add() or stop(): a
\* PLEASE_STOP is, as long as nobody has stopped the thread itself.
OfUser(x) == x # PleaseStop \/ (owner = "idle" /\ ~pleaseStop)

\* The values put before the i-th item, and those that are on their way.
Before(i) == {added[j] : j \in 1..i} \cap Values
Moving == ToSet(slow) \cup ToSet(buffer)

Looping == {"head", "pop", "batch", "push", "go"}
Stopping == {"push", "go", "last", "tell", "ended"}

\* Each item is put once, and stop() is called once.
AddedOnce == /\ \A i, j \in DOMAIN added : added[i] = added[j] => i = j
             /\ PleaseStop \in ToSet(added) => user # "idle"

\* The items of the queue were put, in the order they have there.
QueueInOrder ==
    /\ \A k \in DOMAIN queue : OfUser(queue[k]) => queue[k] \in ToSet(added)
    /\ \A k, l \in DOMAIN queue :
          k < l /\ OfUser(queue[k]) /\ OfUser(queue[l])
             => \A i, j \in DOMAIN added : added[i] = queue[k] /\ added[j] = queue[l] => i < j

\* No value is anywhere else.
Kept == ToSet(added) \cap Values \subseteq Moving \cup ToSet(queue)

\* What is put before a function is in the slow queue when it is called, and
\* out of the queue when it is about to be.
CallsInOrder ==
    /\ called \cup ToSet(postPush) \subseteq ToSet(added)
    /\ \A i \in DOMAIN added : /\ added[i] \in called => Before(i) \subseteq ToSet(slow)
                               /\ added[i] \in ToSet(postPush) => Before(i) \subseteq Moving

\* Unless the thread itself was stopped, the worker ends at the PLEASE_STOP of
\* stop(), and what was put before that is out of the queue.
StopInOrder ==
    /\ worker \in {"tell", "ended"} => buffer = <<>>
    /\ owner = "idle" /\ worker \in Looping => ~pleaseStop
    /\ owner = "idle" /\ worker \in Stopping =>
          /\ PleaseStop \in ToSet(added)
          /\ \A i \in DOMAIN added : added[i] = PleaseStop => Before(i) \subseteq Moving

OrderInv == AddedOnce /\ QueueInOrder /\ Kept /\ CallsInOrder /\ StopInOrder

\* Nothing has been put at first.
LEMMA InitOrderInv == Init => OrderInv
<1> SUFFICES ASSUME Init
             PROVE  OrderInv
  OBVIOUS
<1>1. ToSet(<<>>) = {} /\ DOMAIN <<>> = {}
  BY DEF ToSet
<1>2. added = <<>> /\ queue = <<>> /\ postPush = <<>> /\ called = {} /\ worker = "head" /\ ~pleaseStop
  BY DEF Init
<1>3. AddedOnce /\ QueueInOrder
  BY <1>1, <1>2 DEF AddedOnce, QueueInOrder
<1>4. Kept /\ CallsInOrder
  BY <1>1, <1>2 DEF Kept, CallsInOrder
<1>5. StopInOrder
  BY <1>2 DEF StopInOrder, Stopping
<1> QED
  BY <1>3, <1>4, <1>5 DEF OrderInv

\* A user puts items that were not put before.
LEMMA PutOrderInv ==
  ASSUME TypeOK, OrderInv, NEW b \in Seq(Items), ToSet(b) \cap ToSet(added) = {},
         \A d, e \in 1..Len(b) : b[d] = b[e] => d = e,
         PleaseStop \in ToSet(b) => user' # "idle", user # "idle" => user' # "idle",
         queue' = queue \o b, added' = added \o b,
         UNCHANGED <<pleaseStop, worker, buffer, postPush, slow, called, owner>>
  PROVE  OrderInv'
<1> DEFINE n == Len(added)
           m == Len(queue)
           p == Len(b)
<1>1. /\ added \in Seq(Items) /\ queue \in Seq(Items) /\ n \in Nat /\ m \in Nat /\ p \in Nat
      /\ DOMAIN added = 1..n /\ DOMAIN queue = 1..m /\ DOMAIN b = 1..p
  BY DEF TypeOK
<1>2. /\ DOMAIN added' = 1..(n + p)
      /\ \A e \in 1..p : added'[n + e] = b[e]
      /\ \A i \in 1..n : added'[i] = added[i] /\ i \in 1..(n + p) /\ \A e \in 1..p : i < n + e
      /\ \A i \in 1..(n + p) : i \in 1..n \/ \E e \in 1..p : i = n + e /\ added'[i] = b[e]
      /\ ToSet(added') = ToSet(added) \cup ToSet(b)
  <2>1. /\ DOMAIN (added \o b) = 1..(n + p)
        /\ \A e \in 1..p : (added \o b)[n + e] = b[e]
        /\ \A i \in 1..n : (added \o b)[i] = added[i]
    BY <1>1
  <2>2. \A i \in 1..n : i \in 1..(n + p) /\ \A e \in 1..p : i < n + e
    BY <1>1
  <2>3. \A i \in 1..(n + p) : i \in 1..n \/ (i - n \in 1..p /\ i = n + (i - n))
    BY <1>1
  <2>4. ToSet(added \o b) = ToSet(added) \cup ToSet(b)
    BY <1>1, Entries
  <2>5. ASSUME NEW i \in 1..(n + p), i \notin 1..n
        PROVE  \E e \in 1..p : i = n + e /\ (added \o b)[i] = b[e]
    <3>1. i - n \in 1..p /\ i = n + (i - n)
      BY <2>3, <2>5
    <3>2. (added \o b)[n + (i - n)] = b[i - n]
      BY <2>1, <3>1
    <3> QED
      BY <3>1, <3>2
  <2> HIDE DEF n, m, p
  <2> QED
    BY <2>1, <2>2, <2>4, <2>5
<1>3. /\ DOMAIN queue' = 1..(m + p)
      /\ \A e \in 1..p : queue'[m + e] = b[e]
      /\ \A i \in 1..m : queue'[i] = queue[i] /\ \A e \in 1..p : ~(m + e < i)
      /\ \A i \in 1..(m + p) : i \in 1..m \/ \E e \in 1..p : i = m + e /\ queue'[i] = b[e]
      /\ ToSet(queue') = ToSet(queue) \cup ToSet(b)
  <2>1. /\ DOMAIN (queue \o b) = 1..(m + p)
        /\ \A e \in 1..p : (queue \o b)[m + e] = b[e]
        /\ \A i \in 1..m : (queue \o b)[i] = queue[i]
    BY <1>1
  <2>2. \A i \in 1..m : \A e \in 1..p : ~(m + e < i)
    BY <1>1
  <2>3. \A i \in 1..(m + p) : i \in 1..m \/ (i - m \in 1..p /\ i = m + (i - m))
    BY <1>1
  <2>4. ToSet(queue \o b) = ToSet(queue) \cup ToSet(b)
    BY <1>1, Entries
  <2>5. ASSUME NEW i \in 1..(m + p), i \notin 1..m
        PROVE  \E e \in 1..p : i = m + e /\ (queue \o b)[i] = b[e]
    <3>1. i - m \in 1..p /\ i = m + (i - m)
      BY <2>3, <2>5
    <3>2. (queue \o b)[m + (i - m)] = b[i - m]
      BY <2>1, <3>1
    <3> QED
      BY <3>1, <3>2
  <2> HIDE DEF n, m, p
  <2> QED
    BY <2>1, <2>2, <2>4, <2>5
<1>4. \A i \in 1..n, e \in 1..p : added[i] \in ToSet(added) /\ b[e] \in ToSet(b) /\ added[i] # b[e]
  <2>1. \A i \in 1..n, e \in 1..p : added[i] \in ToSet(added) /\ b[e] \in ToSet(b)
    BY <1>1 DEF ToSet
  <2> QED
    BY <2>1
<1>5. \A i \in 1..n : Before(i)' = Before(i)
  <2> SUFFICES ASSUME NEW i \in 1..n
               PROVE  Before(i)' = Before(i)
    OBVIOUS
  <2>1. \A j \in 1..i : j \in 1..n
    BY <1>1
  <2>2. \A j \in 1..i : added'[j] = added[j]
    BY <1>2, <2>1
  <2>3. {added'[j] : j \in 1..i} = {added[j] : j \in 1..i}
    BY <2>2
  <2> QED
    BY <2>3 DEF Before
<1> HIDE DEF n, m, p
<1>7. Moving' = Moving
  BY DEF Moving
<1>8. AddedOnce'
  <2>1. ASSUME NEW i \in 1..(n + p), NEW j \in 1..(n + p), added'[i] = added'[j]
        PROVE  i = j
    <3>1. CASE i \in 1..n /\ j \in 1..n
      BY <1>1, <1>2, <2>1, <3>1 DEF OrderInv, AddedOnce
    <3>2. CASE i \in 1..n /\ j \notin 1..n
      <4>1. PICK e \in 1..p : added'[j] = b[e]
        BY <1>2, <3>2
      <4>2. added'[i] = added[i]
        BY <1>2, <3>2
      <4> QED
        BY <1>4, <2>1, <3>2, <4>1, <4>2
    <3>3. CASE i \notin 1..n /\ j \in 1..n
      <4>1. PICK e \in 1..p : added'[i] = b[e]
        BY <1>2, <3>3
      <4>2. added'[j] = added[j]
        BY <1>2, <3>3
      <4> QED
        BY <1>4, <2>1, <3>3, <4>1, <4>2
    <3>4. CASE i \notin 1..n /\ j \notin 1..n
      <4>1. PICK d \in 1..p : i = n + d /\ added'[i] = b[d]
        BY <1>2, <3>4
      <4>2. PICK e \in 1..p : j = n + e /\ added'[j] = b[e]
        BY <1>2, <3>4
      <4>3. d = e
        BY <2>1, <4>1, <4>2 DEF p
      <4> QED
        BY <4>1, <4>2, <4>3
    <3> QED
      BY <3>1, <3>2, <3>3, <3>4
  <2> QED
    BY <1>2, <2>1 DEF OrderInv, AddedOnce
<1>9. QueueInOrder'
  <2>1. \A k \in DOMAIN queue' : OfUser(queue'[k]) => queue'[k] \in ToSet(added')
    <3> SUFFICES ASSUME NEW k \in DOMAIN queue', OfUser(queue'[k])
                 PROVE  queue'[k] \in ToSet(added) \cup ToSet(b)
      BY <1>2
    <3>1. CASE k \in 1..m
      <4>1. queue'[k] = queue[k]
        BY <1>3, <3>1
      <4> QED
        BY <1>1, <3>1, <4>1 DEF OrderInv, QueueInOrder
    <3>2. CASE k \notin 1..m
      <4>1. PICK e \in 1..p : queue'[k] = b[e]
        BY <1>3, <3>2
      <4> QED
        BY <1>1, <4>1 DEF ToSet
    <3> QED
      BY <3>1, <3>2
  <2>2. ASSUME NEW k \in DOMAIN queue', NEW l \in DOMAIN queue', k < l,
               OfUser(queue'[k]), OfUser(queue'[l]),
               NEW i \in DOMAIN added', NEW j \in DOMAIN added',
               added'[i] = queue'[k], added'[j] = queue'[l]
        PROVE  i < j
    <3>1. ASSUME NEW r \in 1..m, OfUser(queue'[r]), NEW h \in DOMAIN added', added'[h] = queue'[r]
          PROVE  h \in 1..n /\ added[h] = queue[r] /\ OfUser(queue[r])
      <4>1. queue[r] \in ToSet(added) /\ queue'[r] = queue[r]
        BY <1>1, <1>3, <3>1 DEF OrderInv, QueueInOrder
      <4>2. h \in 1..n
        <5> SUFFICES ASSUME h \notin 1..n
                     PROVE  FALSE
          OBVIOUS
        <5>1. PICK e \in 1..p : added'[h] = b[e]
          BY <1>2, <3>1
        <5>2. b[e] \in ToSet(b)
          BY <1>1 DEF ToSet
        <5> QED
          BY <3>1, <4>1, <5>1, <5>2
      <4> QED
        BY <1>2, <3>1, <4>1, <4>2
    <3>2. ASSUME NEW e \in 1..p, NEW h \in DOMAIN added', added'[h] = b[e]
          PROVE  h = n + e
      <4>1. h \notin 1..n
        BY <1>2, <1>4, <3>2
      <4>2. PICK d \in 1..p : h = n + d /\ added'[h] = b[d]
        BY <1>2, <3>2, <4>1
      <4>3. d = e
        BY <3>2, <4>2 DEF p
      <4> QED
        BY <4>2, <4>3
    <3>3. CASE k \in 1..m /\ l \in 1..m
      <4>1. i \in DOMAIN added /\ added[i] = queue[k] /\ OfUser(queue[k])
        BY <1>1, <2>2, <3>1, <3>3
      <4>2. j \in DOMAIN added /\ added[j] = queue[l] /\ OfUser(queue[l])
        BY <1>1, <2>2, <3>1, <3>3
      <4> QED
        BY <1>1, <2>2, <3>3, <4>1, <4>2 DEF OrderInv, QueueInOrder
    <3>4. CASE k \in 1..m /\ l \notin 1..m
      <4>1. PICK e \in 1..p : l = m + e /\ queue'[l] = b[e]
        BY <1>3, <3>4
      <4>2. i \in 1..n
        BY <2>2, <3>1, <3>4
      <4>3. j = n + e
        BY <2>2, <3>2, <4>1
      <4> QED
        BY <1>2, <4>2, <4>3
    <3>5. CASE k \notin 1..m
      <4>1. PICK d \in 1..p : k = m + d /\ queue'[k] = b[d]
        BY <1>3, <3>5
      <4>0. l \notin 1..m
        BY <1>3, <2>2, <4>1
      <4>2. PICK e \in 1..p : l = m + e /\ queue'[l] = b[e]
        BY <1>3, <4>0
      <4>3. i = n + d /\ j = n + e
        BY <2>2, <3>2, <4>1, <4>2
      <4>4. d < e
        BY <1>1, <2>2, <4>1, <4>2
      <4> QED
        BY <1>1, <4>3, <4>4
    <3> QED
      BY <3>3, <3>4, <3>5
  <2> QED
    <3>1. owner' = owner /\ pleaseStop' = pleaseStop
      OBVIOUS
    <3>2. \A y : OfUser(y)' <=> OfUser(y)
      BY <3>1 DEF OfUser
    <3> QED
      BY ONLY <2>1, <2>2, <3>2 DEF QueueInOrder
<1>10. Kept'
  BY <1>2, <1>3, <1>7 DEF OrderInv, Kept
<1>11. CallsInOrder'
  <2>1. called' = called /\ ToSet(postPush') = ToSet(postPush) /\ ToSet(slow') = ToSet(slow)
    OBVIOUS
  <2>2. called \cup ToSet(postPush) \subseteq ToSet(added)
    BY DEF OrderInv, CallsInOrder
  <2>3. ASSUME NEW i \in DOMAIN added'
        PROVE  /\ added'[i] \in called => Before(i)' \subseteq ToSet(slow)
               /\ added'[i] \in ToSet(postPush) => Before(i)' \subseteq Moving
    <3>1. CASE i \in 1..n
      BY <1>1, <1>2, <1>5, <3>1 DEF OrderInv, CallsInOrder
    <3>2. CASE i \notin 1..n
      <4>1. PICK e \in 1..p : added'[i] = b[e]
        BY <1>2, <3>2
      <4>2. added'[i] \in ToSet(b)
        BY <1>1, <4>1 DEF ToSet
      <4> QED
        BY <2>2, <4>2
    <3> QED
      BY <3>1, <3>2
  <2> QED
    BY <1>2, <1>7, <2>1, <2>2, <2>3 DEF CallsInOrder
<1>12. StopInOrder'
  <2>1. worker' = worker /\ owner' = owner /\ pleaseStop' = pleaseStop /\ buffer' = buffer
    OBVIOUS
  <2>2. ASSUME owner = "idle", worker \in Stopping
        PROVE  /\ PleaseStop \in ToSet(added')
               /\ \A i \in DOMAIN added' : added'[i] = PleaseStop => Before(i)' \subseteq Moving
    <3>1. /\ PleaseStop \in ToSet(added)
          /\ \A i \in DOMAIN added : added[i] = PleaseStop => Before(i) \subseteq Moving
      BY <2>2 DEF OrderInv, StopInOrder
    <3>2. PleaseStop \notin ToSet(b)
      BY <3>1
    <3>3. \A i \in 1..(n + p) : added'[i] = PleaseStop => i \in 1..n
      <4> SUFFICES ASSUME NEW i \in 1..(n + p), i \notin 1..n, added'[i] = PleaseStop
                   PROVE  FALSE
        OBVIOUS
      <4>1. PICK e \in 1..p : added'[i] = b[e]
        BY <1>2
      <4> QED
        BY <1>1, <3>2, <4>1 DEF ToSet
    <3> QED
      BY <1>1, <1>2, <1>5, <3>1, <3>3
  <2> QED
    BY <1>7, <2>1, <2>2 DEF OrderInv, StopInOrder
<1> QED
  BY <1>8, <1>9, <1>10, <1>11, <1>12 DEF OrderInv

\* A PLEASE_STOP comes into the queue that is not that of stop(), or may not for
\* want of space.
LEMMA ForeignStopOrderInv ==
  ASSUME TypeOK, OrderInv, OwnerAdds \/ StopGoes
  PROVE  OrderInv'
<1>1. /\ queue \in Seq(Items) /\ Len(queue) \in Nat /\ DOMAIN queue = 1..Len(queue)
      /\ PleaseStop \in Items
  BY ItemsOf DEF TypeOK
<1>2. /\ UNCHANGED <<added, user, buffer, postPush, slow, called>>
      /\ queue' \in {queue, Append(queue, PleaseStop)}
  BY DEF OwnerAdds, StopGoes, inner, outer
<1>3. ~(owner' = "idle" /\ ~pleaseStop')
  BY DEF OwnerAdds, StopGoes
<1>4. /\ \A k \in DOMAIN queue' : queue'[k] # PleaseStop => k \in DOMAIN queue /\ queue'[k] = queue[k]
      /\ ToSet(queue) \subseteq ToSet(queue')
  <2>1. CASE queue' = queue
    BY <2>1
  <2>2. CASE queue' = Append(queue, PleaseStop)
    <3>1. /\ DOMAIN queue' = 1..(Len(queue) + 1) /\ queue'[Len(queue) + 1] = PleaseStop
          /\ \A i \in 1..Len(queue) : queue'[i] = queue[i]
          /\ \A i \in 1..(Len(queue) + 1) : i \in 1..Len(queue) \/ i = Len(queue) + 1
          /\ ToSet(queue') = ToSet(queue) \cup {PleaseStop}
      BY <1>1, <2>2, AppendProperties, Entries
    <3> QED
      BY <1>1, <3>1
  <2> QED
    BY <1>2, <2>1, <2>2
<1>5. Moving' = Moving /\ \A i \in DOMAIN added : Before(i)' = Before(i)
  BY <1>2 DEF Moving, Before
<1>6. AddedOnce'
  BY <1>2 DEF OrderInv, AddedOnce
<1>7. QueueInOrder'
  <2>1. \A k \in DOMAIN queue : queue[k] # PleaseStop => OfUser(queue[k])
    BY DEF OfUser
  <2>2. \A k \in DOMAIN queue' : queue'[k] # PleaseStop => queue'[k] \in ToSet(added)
    BY <1>4, <2>1 DEF OrderInv, QueueInOrder
  <2>3. \A k, l \in DOMAIN queue' :
           k < l /\ queue'[k] # PleaseStop /\ queue'[l] # PleaseStop
              => \A i, j \in DOMAIN added : added[i] = queue'[k] /\ added[j] = queue'[l] => i < j
    BY <1>4, <2>1 DEF OrderInv, QueueInOrder
  <2> QED
    BY <1>2, <1>3, <2>2, <2>3 DEF QueueInOrder, OfUser
<1>8. Kept'
  BY <1>2, <1>4, <1>5 DEF OrderInv, Kept
<1>9. CallsInOrder'
  BY <1>2, <1>5 DEF OrderInv, CallsInOrder
<1>10. StopInOrder'
  <2>1. CASE OwnerAdds
    <3>1. owner' = "done" /\ worker' = worker /\ buffer' = buffer
      BY <2>1 DEF OwnerAdds, inner
    <3> QED
      BY <3>1 DEF OrderInv, StopInOrder
  <2>2. CASE StopGoes
    <3>1. worker = "go" /\ worker' = "last" /\ owner' = owner
      BY <2>2 DEF StopGoes, Goto
    <3> QED
      BY <1>2, <1>5, <3>1 DEF OrderInv, StopInOrder, Looping, Stopping
  <2> QED
    BY <2>1, <2>2
<1> QED
  BY <1>6, <1>7, <1>8, <1>9, <1>10 DEF OrderInv

\* Of what was put before the item at the head of the queue nothing is queued.
LEMMA HeadFirst ==
  ASSUME TypeOK, OrderInv, queue # <<>>, OfUser(Head(queue)), Head(queue) \notin Values,
         NEW i \in DOMAIN added, added[i] = Head(queue)
  PROVE  Before(i) \subseteq Moving
<1> SUFFICES ASSUME NEW v \in Before(i), v \notin Moving
             PROVE  FALSE
  OBVIOUS
<1>1. /\ added \in Seq(Items) /\ queue \in Seq(Items) /\ Len(queue) \in Nat \ {0}
      /\ Head(queue) = queue[1] /\ DOMAIN queue = 1..Len(queue) /\ DOMAIN added = 1..Len(added)
      /\ Len(added) \in Nat
  BY EmptySeq DEF TypeOK
<1>2. PICK j \in 1..i : added[j] = v /\ v \in Values
  BY DEF Before
<1>3. j \in DOMAIN added /\ ~(i < j)
  BY <1>1
<1>4. v \in ToSet(queue)
  BY <1>2, <1>3 DEF OrderInv, Kept, ToSet
<1>5. PICK l \in DOMAIN queue : queue[l] = v
  BY <1>4 DEF ToSet
<1>6. 1 \in DOMAIN queue /\ 1 < l
  <2>1. l # 1
    BY <1>1, <1>2, <1>5
  <2> QED
    BY <1>1, <2>1
<1>7. OfUser(queue[l])
  BY <1>2, <1>5, ItemsOf DEF OfUser
<1>8. OfUser(queue[1]) /\ added[i] = queue[1] /\ added[j] = queue[l]
  BY <1>1, <1>2, <1>5
<1>9. i < j
  BY <1>3, <1>6, <1>7, <1>8 DEF OrderInv, QueueInOrder
<1> QED
  BY <1>3, <1>9

\* The worker takes the head of the queue.
LEMMA PopOrderInv ==
  ASSUME TypeOK, OrderInv, Pop
  PROVE  OrderInv'
<1> DEFINE x == Head(queue)
<1>1. /\ UNCHANGED <<pleaseStop, slow, called, user, owner, added>>
      /\ worker = "pop" /\ queue # <<>> /\ queue' = Tail(queue)
  BY DEF Pop, outer
<1>2. /\ queue \in Seq(Items) /\ buffer \in Seq(Values) /\ postPush \in Seq(Functions)
      /\ x \in Items /\ DOMAIN queue' = 1..(Len(queue) - 1) /\ Len(queue) \in Nat
      /\ DOMAIN queue = 1..Len(queue)
      /\ \A k \in 1..(Len(queue) - 1) : queue'[k] = queue[k + 1]
  BY <1>1, HeadTailProperties DEF TypeOK
<1>3. ToSet(queue) = {x} \cup ToSet(queue')
  BY <1>1, <1>2, Entries
<1>4. \/ /\ x \in Values /\ ToSet(buffer') = ToSet(buffer) \cup {x} /\ ToSet(postPush') = ToSet(postPush)
         /\ worker' = "batch"
      \/ /\ x \in Functions /\ ToSet(postPush') = ToSet(postPush) \cup {x} /\ buffer' = buffer
         /\ worker' = "batch"
      \/ /\ x = PleaseStop /\ buffer' = buffer /\ ToSet(postPush') = ToSet(postPush)
         /\ worker' = "push"
  <2>1. CASE x \in Values /\ buffer' = Append(buffer, x) /\ Goto("batch") /\ postPush' = postPush
    <3>1. ToSet(Append(buffer, x)) = ToSet(buffer) \cup {x}
      BY <1>2, <2>1, Entries
    <3> QED
      BY <2>1, <3>1 DEF Goto
  <2>2. CASE x \in Functions /\ postPush' = Append(postPush, x) /\ Goto("batch") /\ buffer' = buffer
    <3>1. ToSet(Append(postPush, x)) = ToSet(postPush) \cup {x}
      BY <1>2, <2>2, Entries
    <3> QED
      BY <2>2, <3>1 DEF Goto
  <2>3. CASE x = PleaseStop /\ Goto("push") /\ buffer' = buffer /\ postPush' = postPush
    BY <2>3 DEF Goto
  <2> QED
    BY <2>1, <2>2, <2>3 DEF Pop, Popped
<1> HIDE DEF x
<1>5. \A i : Before(i)' = Before(i)
  BY <1>1 DEF Before
<1>6. Moving \subseteq Moving' /\ (x \in Values => x \in Moving')
  BY <1>1, <1>4, ItemsOf DEF Moving
<1>7. AddedOnce'
  BY <1>1 DEF OrderInv, AddedOnce
<1>8. QueueInOrder'
  <2>1. \A k \in DOMAIN queue' : k + 1 \in DOMAIN queue /\ queue'[k] = queue[k + 1]
    BY <1>2
  <2>2. \A k, l \in DOMAIN queue' : k < l => k + 1 < l + 1
    BY <1>2
  <2>3. \A y : OfUser(y)' <=> OfUser(y)
    BY <1>1 DEF OfUser
  <2>4. \A k \in DOMAIN queue' : OfUser(queue'[k]) => queue'[k] \in ToSet(added)
    BY <2>1 DEF OrderInv, QueueInOrder
  <2>5. ASSUME NEW k \in DOMAIN queue', NEW l \in DOMAIN queue', k < l,
               OfUser(queue'[k]), OfUser(queue'[l]),
               NEW i \in DOMAIN added, NEW j \in DOMAIN added,
               added[i] = queue'[k], added[j] = queue'[l]
        PROVE  i < j
    <3>1. /\ k + 1 \in DOMAIN queue /\ l + 1 \in DOMAIN queue /\ k + 1 < l + 1
          /\ queue'[k] = queue[k + 1] /\ queue'[l] = queue[l + 1]
      BY <2>1, <2>2, <2>5
    <3> QED
      BY <2>5, <3>1 DEF OrderInv, QueueInOrder
  <2> QED
    BY <1>1, <2>3, <2>4, <2>5 DEF QueueInOrder
<1>9. Kept'
  BY <1>1, <1>3, <1>6 DEF OrderInv, Kept
<1>10. OfUser(x) => x \in ToSet(added)
  <2>1. 1 \in DOMAIN queue /\ x = queue[1]
    BY <1>1, <1>2, EmptySeq DEF x
  <2> QED
    BY <2>1 DEF OrderInv, QueueInOrder
<1>11. ASSUME OfUser(x), x \notin Values, NEW i \in DOMAIN added, added[i] = x
       PROVE  Before(i) \subseteq Moving
  BY <1>1, <1>11, HeadFirst DEF x
<1>12. CallsInOrder'
  <2>1. x \in Functions => OfUser(x) /\ x \notin Values
    BY ItemsOf DEF OfUser
  <2>2. called' \cup ToSet(postPush') \subseteq ToSet(added')
    BY <1>1, <1>4, <1>10, <2>1 DEF OrderInv, CallsInOrder
  <2>3. \A i \in DOMAIN added : added[i] \in ToSet(postPush') => Before(i) \subseteq Moving
    BY <1>4, <1>11, <2>1 DEF OrderInv, CallsInOrder
  <2> QED
    BY <1>1, <1>5, <1>6, <2>2, <2>3 DEF OrderInv, CallsInOrder
<1>13. StopInOrder'
  <2>1. owner = "idle" => ~pleaseStop
    BY <1>1 DEF OrderInv, StopInOrder, Looping
  <2>2. worker' \in {"batch", "push"} /\ (worker' = "push" => x = PleaseStop)
    BY <1>4
  <2>3. x = PleaseStop => x \notin Values
    BY ItemsOf
  <2>4. owner = "idle" => OfUser(PleaseStop)
    BY <2>1 DEF OfUser
  <2>5. owner = "idle" /\ worker' = "push" =>
          /\ PleaseStop \in ToSet(added)
          /\ \A i \in DOMAIN added : added[i] = PleaseStop => Before(i) \subseteq Moving
    BY <1>10, <1>11, <2>2, <2>3, <2>4
  <2> QED
    BY <1>1, <1>5, <1>6, <2>1, <2>2, <2>5 DEF StopInOrder, Stopping
<1> QED
  BY <1>7, <1>8, <1>9, <1>12, <1>13 DEF OrderInv

\* A push, whether it raises or not, and the steps of the worker around it.
LEMMA PushOrderInv ==
  ASSUME TypeOK, OrderInv, StopPushes \/ LastPush \/ Batch
  PROVE  OrderInv'
<1>1. UNCHANGED <<queue, pleaseStop, user, owner, added>>
  BY DEF StopPushes, LastPush, Batch
<1>2. Push \/ PushRaises \/ UNCHANGED <<buffer, postPush, slow, called>>
  BY DEF StopPushes, LastPush, Batch, inner, outer
<1>3. /\ \/ buffer' = buffer /\ slow' = slow
         \/ buffer' = <<>> /\ slow' = slow \o buffer
      /\ called \subseteq called'
      /\ called' # called => buffer' = <<>> /\ slow' = slow \o buffer
      /\ called' \subseteq called \cup ToSet(postPush)
      /\ ToSet(postPush') \subseteq ToSet(postPush)
  BY <1>2, PushMoves
<1>4. /\ buffer \in Seq(Values) /\ slow \in Seq(Values) /\ ToSet(<<>>) = {}
      /\ ToSet(slow \o buffer) = ToSet(slow) \cup ToSet(buffer)
  BY Entries DEF TypeOK
<1>5. /\ Moving' = Moving /\ ToSet(slow) \subseteq ToSet(slow')
      /\ called' # called => ToSet(slow') = Moving
  BY <1>3, <1>4 DEF Moving
<1>6. \A i : Before(i)' = Before(i)
  BY <1>1 DEF Before
<1>7. AddedOnce' /\ QueueInOrder'
  BY <1>1 DEF OrderInv, AddedOnce, QueueInOrder, OfUser
<1>8. Kept'
  BY <1>1, <1>5 DEF OrderInv, Kept
<1>9. CallsInOrder'
  <2>1. called' \cup ToSet(postPush') \subseteq ToSet(added)
    BY <1>3 DEF OrderInv, CallsInOrder
  <2>2. ASSUME NEW i \in DOMAIN added
        PROVE  /\ added[i] \in called' => Before(i) \subseteq ToSet(slow')
               /\ added[i] \in ToSet(postPush') => Before(i) \subseteq Moving
    <3>1. /\ added[i] \in called => Before(i) \subseteq ToSet(slow)
          /\ added[i] \in ToSet(postPush) => Before(i) \subseteq Moving
      BY DEF OrderInv, CallsInOrder
    <3>2. CASE called' = called
      BY <1>3, <1>5, <3>1, <3>2
    <3>3. CASE called' # called
      <4>1. ToSet(slow) \subseteq Moving
        BY DEF Moving
      <4> QED
        BY <1>3, <1>5, <3>1, <3>3, <4>1
    <3> QED
      BY <3>2, <3>3
  <2> QED
    BY <1>1, <1>5, <1>6, <2>1, <2>2 DEF CallsInOrder
<1>10. StopInOrder'
  <2>1. \/ worker = "push" /\ worker' \in {"go", "batch"}
        \/ worker = "batch" /\ worker' = "head"
        \/ worker = "last" /\ worker' = "failed"
        \/ worker = "last" /\ worker' = "tell" /\ buffer' = <<>>
    BY DEF StopPushes, LastPush, Batch, Goto, Push
  <2> QED
    BY <1>1, <1>5, <1>6, <2>1 DEF OrderInv, StopInOrder, Looping, Stopping
<1> QED
  BY <1>7, <1>8, <1>9, <1>10 DEF OrderInv

\* A step that moves nothing.
LEMMA OtherOrderInv ==
  ASSUME OrderInv,
         StopFails \/ StopReturns \/ StopThread \/ TimerFires \/ Loop \/ PopTimesOut \/ TellSlow
  PROVE  OrderInv'
<1>1. UNCHANGED <<queue, added, buffer, postPush, slow, called>>
  BY DEF StopFails, StopReturns, StopThread, TimerFires, Loop, PopTimesOut, TellSlow, inner, outer
<1>2. Moving' = Moving /\ \A i : Before(i)' = Before(i)
  BY <1>1 DEF Moving, Before
<1>3. user # "idle" => user' # "idle"
  BY DEF StopFails, StopReturns, StopThread, TimerFires, Loop, PopTimesOut, TellSlow
<1>4. \/ UNCHANGED <<owner, pleaseStop>>
      \/ owner' # "idle" /\ worker' = worker
  BY DEF StopFails, StopReturns, StopThread, TimerFires, Loop, PopTimesOut, TellSlow
<1>5. \A x : OfUser(x)' => OfUser(x)
  BY <1>4 DEF OfUser
<1>6. AddedOnce'
  BY <1>1, <1>3 DEF OrderInv, AddedOnce
<1>7. QueueInOrder'
  BY <1>1, <1>5 DEF OrderInv, QueueInOrder
<1>8. Kept' /\ CallsInOrder'
  BY <1>1, <1>2 DEF OrderInv, Kept, CallsInOrder
<1>9. StopInOrder'
  <2>1. \/ worker' = worker
        \/ worker = "head" /\ worker' = "pop"
        \/ worker = "head" /\ pleaseStop /\ worker' = "last"
        \/ worker = "pop" /\ worker' = "batch"
        \/ worker = "tell" /\ worker' = "ended"
    BY DEF StopFails, StopReturns, StopThread, TimerFires, Loop, PopTimesOut, TellSlow, Goto
  <2> QED
    BY <1>1, <1>2, <1>4, <2>1 DEF OrderInv, StopInOrder, Looping, Stopping
<1> QED
  BY <1>6, <1>7, <1>8, <1>9 DEF OrderInv

\* Every step of the users and of the worker keeps the order.
LEMMA NextOrderInv == TypeOK /\ OrderInv /\ [Next]_vars => OrderInv'
<1> SUFFICES ASSUME TypeOK, OrderInv, [Next]_vars
             PROVE  OrderInv'
  OBVIOUS
<1>1. ASSUME NEW b \in Batches, Add(b)
      PROVE  OrderInv'
  <2>1. /\ UNCHANGED <<pleaseStop, worker, buffer, postPush, slow, called, owner, user>>
        /\ queue' = queue \o b /\ added' = added \o b /\ ToSet(b) \cap ToSet(added) = {}
    BY <1>1 DEF Add, inner, outer
  <2> QED
    BY <2>1, BatchFacts, PutOrderInv
<1>2. CASE StopAdds
  <2>1. PleaseStop \notin ToSet(added) /\ PleaseStop \in Items
    BY <1>2, ItemsOf DEF StopAdds, OrderInv, AddedOnce
  <2> DEFINE b == <<PleaseStop>>
  <2>2. /\ b \in Seq(Items) /\ ToSet(b) = {PleaseStop} /\ \A d, e \in 1..Len(b) : b[d] = b[e] => d = e
        /\ Append(queue, PleaseStop) = queue \o b /\ Append(added, PleaseStop) = added \o b
    <3>1. queue \in Seq(Items) /\ added \in Seq(Items)
      BY DEF TypeOK
    <3>2. Len(b) = 1
      OBVIOUS
    <3>3. b \in Seq(Items) /\ ToSet(b) = {PleaseStop}
      BY <2>1, <3>1, BatchOfOne
    <3>4. Append(queue, PleaseStop) = queue \o b /\ Append(added, PleaseStop) = added \o b
      BY <2>1, <3>1, BatchOfOne
    <3> QED
      BY <3>2, <3>3, <3>4
  <2>3. /\ UNCHANGED <<pleaseStop, worker, buffer, postPush, slow, called, owner>>
        /\ queue' = queue \o b /\ added' = added \o b /\ user' # "idle"
    BY <1>2, <2>2 DEF StopAdds, inner, outer
  <2> HIDE DEF b
  <2> QED
    BY <2>1, <2>2, <2>3, PutOrderInv
<1>3. CASE UNCHANGED vars
  BY <1>3 DEF vars, inner, outer, OrderInv, AddedOnce, QueueInOrder, OfUser, Kept, CallsInOrder,
              StopInOrder, Before, Moving
<1> QED
  BY <1>1, <1>2, <1>3, ForeignStopOrderInv, PopOrderInv, PushOrderInv, OtherOrderInv
     DEF Next, Worker

-----------------------------------------------------------------------------
\* The values among the first items that were put.
LEMMA FirstValues ==
  ASSUME TypeOK, NEW i \in 0..Len(added)
  PROVE  ToSet(ValuesIn(SubSeq(added, 1, i))) = Before(i)
<1>1. added \in Seq(Items) /\ Len(added) \in Nat
  BY DEF TypeOK
<1>2. /\ SubSeq(added, 1, i) \in Seq(Items)
      /\ DOMAIN SubSeq(added, 1, i) = 1..i
      /\ \A j \in 1..i : SubSeq(added, 1, i)[j] = added[j]
  <2>1. \A j \in 1..i : added[j] \in Items
    BY <1>1
  <2>2. SubSeq(added, 1, i) \in Seq(Items) /\ Len(SubSeq(added, 1, i)) = i
    BY <2>1, SubSeqProperties
  <2>3. \A j \in 1..i : SubSeq(added, 1, i)[j] = added[j]
    BY <1>1
  <2> QED
    BY <2>2, <2>3
<1>3. ToSet(SubSeq(added, 1, i)) = {added[j] : j \in 1..i}
  BY <1>2 DEF ToSet
<1> QED
  BY <1>2, <1>3, ValuesInSet DEF Before

\* The position of the PLEASE_STOP that stop() puts.
LEMMA StopPosition ==
  ASSUME TypeOK, AddedOnce, PleaseStop \in ToSet(added)
  PROVE  \E i \in DOMAIN added :
            /\ added[i] = PleaseStop
            /\ SelectInSeq(added, LAMBDA x : x = PleaseStop) = i
<1>1. PICK i \in DOMAIN added : added[i] = PleaseStop
  BY DEF ToSet
<1>2. DOMAIN added = 1..Len(added) /\ Len(added) \in Nat
  BY DEF TypeOK
<1>3. {j \in 1..Len(added) : added[j] = PleaseStop} = {i}
  BY <1>1, <1>2 DEF AddedOnce
<1>4. Min({i}) = i
  <2>1. i \in Nat
    BY <1>2
  <2> QED
    BY <2>1 DEF Min
<1>5. SelectInSeq(added, LAMBDA x : x = PleaseStop) = i
  BY <1>3, <1>4 DEF SelectInSeq
<1> QED
  BY <1>1, <1>5

-----------------------------------------------------------------------------
\* The variables of the queue, of its users and of its thread keep their types,
\* and the queue its bound.
THEOREM TypeCorrect == Spec => []TypeOK
  BY InitType, NextType, PTL DEF Spec

\* Nothing is dropped, doubled or overtaken between the queue and the slow
\* queue, however often a push raises and however the worker ends
\* (queues.py:438, 469-545).
THEOREM MovedExactly == Spec => []MovedOnceInOrder
<1>1. Init => MovedOnceInOrder
  <2>1. ValuesIn(<<>>) = <<>>
    <3>1. <<>> \in Seq({0}) /\ 0 \in {0}
      BY EmptySeq
    <3> QED
      BY <3>1, ValuesInAppend
  <2>2. <<>> \o <<>> = <<>>
    <3>1. <<>> \in Seq({0})
      BY EmptySeq
    <3> QED
      BY <3>1, ConcatEmptySeq
  <2> QED
    BY <2>1, <2>2 DEF Init, MovedOnceInOrder
<1> QED
  BY <1>1, NextMoved, TypeCorrect, PTL DEF Spec

\* A function is called after all values put before it were moved, also when it
\* was kept back by a push that raised (queues.py:482-486).
THEOREM CallsFollowValues == Spec => []CalledAfterValues
<1>1. TypeOK /\ OrderInv => CalledAfterValues
  <2> SUFFICES ASSUME TypeOK, OrderInv, NEW i \in DOMAIN added, added[i] \in called
               PROVE  ToSet(ValuesIn(SubSeq(added, 1, i))) \subseteq ToSet(slow)
    BY DEF CalledAfterValues
  <2>1. i \in 0..Len(added)
    BY DEF TypeOK
  <2>2. Before(i) \subseteq ToSet(slow)
    BY DEF OrderInv, CallsInOrder
  <2> QED
    BY <2>1, <2>2, FirstValues
<1> QED
  BY <1>1, InitOrderInv, NextOrderInv, TypeCorrect, PTL DEF Spec

\* A worker that was ended by stop() has moved all that was put before it, also
\* what was in the buffer then (queues.py:497-502, 542-545, 570-579).
THEOREM StopLeavesNothing == Spec => []StopDelivers
<1>1. TypeOK /\ OrderInv => StopDelivers
  <2> SUFFICES ASSUME TypeOK, OrderInv, worker = "ended", owner = "idle"
               PROVE  ToSet(ValuesIn(BeforeStop)) \subseteq ToSet(slow)
    BY DEF StopDelivers
  <2>1. /\ buffer = <<>> /\ PleaseStop \in ToSet(added)
        /\ \A i \in DOMAIN added : added[i] = PleaseStop => Before(i) \subseteq Moving
    BY DEF OrderInv, StopInOrder, Stopping
  <2>2. Moving = ToSet(slow)
    BY <2>1 DEF Moving, ToSet
  <2>3. PICK i \in DOMAIN added : /\ added[i] = PleaseStop
                                  /\ SelectInSeq(added, LAMBDA x : x = PleaseStop) = i
    BY <2>1, StopPosition DEF OrderInv
  <2>4. i \in Nat /\ i - 1 \in 0..Len(added) /\ i - 1 <= i
    BY DEF TypeOK
  <2>5. BeforeStop = SubSeq(added, 1, i - 1)
    BY <2>1, <2>3 DEF BeforeStop
  <2>6. Before(i - 1) \subseteq Before(i)
    BY <2>4 DEF Before
  <2> QED
    BY <2>1, <2>2, <2>3, <2>4, <2>5, <2>6, FirstValues
<1> QED
  BY <1>1, InitOrderInv, NextOrderInv, TypeCorrect, PTL DEF Spec
=============================================================================
